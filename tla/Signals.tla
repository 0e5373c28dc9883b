------------------------------- MODULE Signals -------------------------------
(***************************************************************************)
(* The running features of sigfeatures/ and maths/statistics, and the      *)
(* distances of maths/distance.  A behaviour uses one: `f` is its struct,  *)
(* with its kind and parameters, and `seen` the samples pushed since it    *)
(* was set up.                                                             *)
(***************************************************************************)
EXTENDS Integers, Sequences, FiniteSets, SequencesExt, FiniteSetsExt

CONSTANTS
  Samples, MaxSamples,    \* what is pushed; bound on the exploration
  Features,               \* <<kind, parameters>> of the structs set up
  Ranges, Spreads,        \* what scale and zscore are updated with
  W16, INT,               \* the values of uint16_t (2^16) and the bits of int32_t
  POINT,                  \* the fraction bits of ema and of Goertzel (16 and 14)
  MAX_WINDOW              \* TIKU_KITS_STATISTICS_MAX_WINDOW
VARIABLES f, seen
vars == <<f, seen>>

\* Division of C, a cast to int32_t and a sum.
Quot(a, b) == IF a >= 0 THEN a \div b ELSE -((-a) \div b)
Narrow(a) == LET m == a % 2^INT IN IF m >= 2^(INT - 1) THEN m - 2^INT ELSE m
Total(s) == FoldLeft(+, 0, s)
Blank(n) == [i \in 0..n - 1 |-> 0]
Counted(n, bound) == IF n < bound THEN n + 1 ELSE n

(***************************************************************************)
(* Features of one sample after the other.                                 *)
(***************************************************************************)
delta_init == [prev |-> 0, last_delta |-> 0, ready |-> FALSE]
delta_push(d, v) == [d EXCEPT !.last_delta = IF d.ready THEN v - d.prev ELSE 0, !.ready = TRUE, !.prev = v]
delta_compute(s) == [i \in 1..Len(s) - 1 |-> s[i + 1] - s[i]]

skip_init(interval) == [interval |-> interval, counter |-> 0, last |-> 0, ready |-> FALSE, count |-> 0]
skip_push(s, v) ==
  IF s.counter + 1 >= s.interval
  THEN [s EXCEPT !.counter = 0, !.last = v, !.ready = TRUE, !.count = (@ + 1) % W16]
  ELSE [s EXCEPT !.counter = @ + 1, !.ready = FALSE]

\* The first sample, also the first after the count came round, is taken as it is.
ema_init(shift) == [alpha_shift |-> shift, value |-> 0, count |-> 0]
ema_push(e, v) ==
  LET scaled == v * 2^POINT
  IN [e EXCEPT !.value = IF e.count = 0 THEN scaled ELSE @ + (scaled - @) \div 2^e.alpha_shift, !.count = (@ + 1) % W16]
ema_value(e) == e.value \div 2^POINT

ewma_init(alpha, shift) == [alpha |-> alpha, shift |-> shift, value |-> 0, ready |-> FALSE]
ewma_push(e, v) ==
  [e EXCEPT !.value = IF e.ready THEN @ + ((e.alpha * (v - @)) \div 2^e.shift) ELSE v, !.ready = TRUE]

\* peak: a fall by more than the hysteresis makes the highest sample a peak.
peak_init(hysteresis) ==
  [hysteresis |-> hysteresis, extreme |-> 0, last_peak |-> 0, extreme_idx |-> 0, last_peak_idx |-> 0,
   sample_idx |-> 0, peak_count |-> 0, state |-> "rising", detected |-> FALSE]
peak_at(p, v) == [p EXCEPT !.extreme = v, !.extreme_idx = p.sample_idx, !.sample_idx = (@ + 1) % W16,
  !.detected = FALSE]
peak_on(p) == [p EXCEPT !.sample_idx = (@ + 1) % W16, !.detected = FALSE]
peak_push(p, v) ==
  CASE p.sample_idx = 0 -> peak_at(p, v)
    [] p.sample_idx > 0 /\ p.state = "rising" ->
         IF v > p.extreme THEN peak_at(p, v)
         ELSE IF v < p.extreme - p.hysteresis
         THEN [peak_at(p, v) EXCEPT !.last_peak = p.extreme, !.last_peak_idx = p.extreme_idx,
                                    !.peak_count = (@ + 1) % W16, !.detected = TRUE, !.state = "falling"]
         ELSE peak_on(p)
    [] p.sample_idx > 0 /\ p.state = "falling" ->
         IF v < p.extreme THEN peak_at(p, v)
         ELSE IF v > p.extreme + p.hysteresis THEN [peak_at(p, v) EXCEPT !.state = "rising"]
         ELSE peak_on(p)

histogram_init(bins, low, width) ==
  [num_bins |-> bins, bin_min |-> low, bin_width |-> width, total |-> 0, underflow |-> 0, overflow |-> 0,
    bins |-> Blank(bins)]
histogram_push(h, v) ==
  LET bin == ((v - h.bin_min) \div h.bin_width) % W16
      more == [h EXCEPT !.total = (@ + 1) % W16]
  IN IF v < h.bin_min THEN [more EXCEPT !.underflow = (@ + 1) % W16]
     ELSE IF bin >= h.num_bins THEN [more EXCEPT !.overflow = (@ + 1) % W16]
     ELSE [more EXCEPT !.bins[bin] = (@ + 1) % W16]
histogram_mode_bin(h) ==
  Min({b \in DOMAIN h.bins : \A c \in DOMAIN h.bins : h.bins[c] <= h.bins[b]})

\* Goertzel: a resonator; its energy at the end of a block.
goertzel_init(coeff, block) == [coeff |-> coeff, block_size |-> block, s1 |-> 0, s2 |-> 0, count |-> 0]
goertzel_push(g, v) ==
  [g EXCEPT !.s1 = v + ((g.coeff * g.s1) \div 2^POINT) - g.s2, !.s2 = g.s1, !.count = (@ + 1) % W16]
goertzel_magnitude_sq(g) == g.s1 * g.s1 + g.s2 * g.s2 - ((g.coeff * g.s1) \div 2^POINT) * g.s2
goertzel_block(g, s) == goertzel_magnitude_sq(FoldLeft(goertzel_push, goertzel_init(g.coeff, g.block_size), s))

(***************************************************************************)
(* Features of a window.                                                   *)
(***************************************************************************)
median_init(size) == [size |-> size, count |-> 0, head |-> 0, window |-> Blank(size)]
median_push(m, v) ==
  [m EXCEPT !.window[m.head] = v, !.head = IF @ + 1 >= m.size THEN 0 ELSE @ + 1, !.count = Counted(@, m.size)]
median_value(m) == SortSeq([i \in 1..m.count |-> m.window[i - 1]], <)[(m.count \div 2) + 1]

is_crossing(a, b) == IF (a < 0) # (b < 0) THEN 1 ELSE 0
zcr_init(window) == [capacity |-> window, head |-> 0, count |-> 0, crossings |-> 0, buf |-> Blank(window)]
zcr_push_newest_leaves(z, v) ==
  LET leaves == IF z.count >= z.capacity THEN is_crossing(z.buf[z.head], v) ELSE 0
      enters == IF z.count >= 1 THEN is_crossing(z.buf[(z.head + z.capacity - 1) % z.capacity], v) ELSE 0
  IN [z EXCEPT !.crossings = (@ - leaves + enters) % W16, !.buf[z.head] = v, !.head = (@ + 1) % z.capacity,
               !.count = Counted(@, z.capacity)]
\* What leaves takes the crossing to its successor with it.
zcr_push(z, v) ==
  LET leaves == IF z.count >= z.capacity THEN is_crossing(z.buf[z.head], z.buf[(z.head + 1) % z.capacity]) ELSE 0
      enters == IF z.count >= 1 THEN is_crossing(z.buf[(z.head + z.capacity - 1) % z.capacity], v) ELSE 0
  IN [z EXCEPT !.crossings = (@ - leaves + enters) % W16, !.buf[z.head] = v, !.head = (@ + 1) % z.capacity,
               !.count = Counted(@, z.capacity)]

statistics_init(window) == [capacity |-> window, head |-> 0, count |-> 0, sum |-> 0, buf |-> Blank(window)]
statistics_push(s, v) ==
  [s EXCEPT !.sum = (IF s.count >= s.capacity THEN @ - s.buf[s.head] ELSE @) + v, !.count = Counted(@, s.capacity),
            !.buf[s.head] = v, !.head = (@ + 1) % s.capacity]
InWindow(s) == {s.buf[i] : i \in 0..s.count - 1}
statistics_mean(s) == Quot(s.sum, s.count)
statistics_variance(s) ==
  Total([i \in 1..s.count |-> (s.buf[i - 1] - statistics_mean(s)) * (s.buf[i - 1] - statistics_mean(s))]) \div s.count
statistics_min(s) == Min(InWindow(s))
statistics_max(s) == Max(InWindow(s))

\* minmax: two queues of sequence numbers, of values that rise and that fall, in
\* rings of MAX_WINDOW; their order on the window tells what has left it.
Ends == [ring |-> Blank(MAX_WINDOW), front |-> 0, size |-> 0]
minmax_init(window) == [capacity |-> window, seq |-> 0, count |-> 0, buf |-> Blank(window), min |-> Ends, max |-> Ends]
\* The k-th in the queue, from the front; what goes at the front and at the back.
Nth(q, k) == q.ring[(q.front + k) % MAX_WINDOW]
Expired(q, seq, capacity) ==
  LET gone == Min({q.size} \union {k \in 0..q.size - 1 : (seq - Nth(q, k)) % W16 < capacity})
  IN [q EXCEPT !.front = (@ + gone) % MAX_WINDOW, !.size = @ - gone]
Beaten(q, m, Beats(_)) ==
  [q EXCEPT !.size = Max({0} \union {k \in 1..q.size : ~Beats(m.buf[Nth(q, k - 1) % m.capacity])})]
Queued(q, seq) == [q EXCEPT !.ring[(q.front + q.size) % MAX_WINDOW] = seq, !.size = @ + 1]
minmax_push(m, v) ==
  LET b == [m EXCEPT !.buf[m.seq % m.capacity] = v]
  IN [b EXCEPT !.min = Queued(Beaten(Expired(@, m.seq, m.capacity), b, LAMBDA x : x >= v), m.seq),
               !.max = Queued(Beaten(Expired(@, m.seq, m.capacity), b, LAMBDA x : x <= v), m.seq),
               !.seq = (@ + 1) % W16, !.count = Counted(@, m.capacity)]
minmax_min(m) == m.buf[m.min.ring[m.min.front] % m.capacity]
minmax_max(m) == m.buf[m.max.ring[m.max.front] % m.capacity]

(***************************************************************************)
(* Features of all samples.                                                *)
(***************************************************************************)
welford_init == [mean |-> 0, m2 |-> 0, n |-> 0]
welford_push(w, v) ==
  LET delta == v - w.mean
      mean == w.mean + Quot(delta, w.n + 1)
  IN [mean |-> mean, m2 |-> w.m2 + delta * (v - mean), n |-> w.n + 1]
welford_variance(w) == Quot(w.m2, w.n)

energy_init == [mean_sq |-> 0, n |-> 0]
energy_push(e, v) == [mean_sq |-> e.mean_sq + Quot(v * v - e.mean_sq, e.n + 1), n |-> e.n + 1]

\* Bit by bit, from the highest power of four that is not above.
RECURSIVE Root(_, _, _)
Root(val, result, bit) ==
  IF bit = 0 THEN result
  ELSE IF val >= result + bit THEN Root(val - result - bit, (result \div 2) + bit, bit \div 4)
  ELSE Root(val, result \div 2, bit \div 4)
isqrt(x) == IF x <= 0 THEN 0 ELSE Root(x, 0, Max({4^k : k \in {k \in 0..14 : 4^k <= x}}))
welford_stddev(w) == isqrt(welford_variance(w))
energy_rms(e) == isqrt(e.mean_sq)

(***************************************************************************)
(* scale and zscore: a reciprocal is kept, so that no sample is divided.   *)
(***************************************************************************)
scale_init(low, high, out_max, shift) ==
  [in_min |-> low, in_max |-> high, out_max |-> out_max, shift |-> shift,
   inv |-> Narrow((out_max * 2^shift) \div (high - low))]
scale_update(s, low, high) == scale_init(low, high, s.out_max, s.shift)
scale_one(s, v) ==
  LET scaled == Narrow(((v - s.in_min) * s.inv) \div 2^s.shift)
  IN IF v <= s.in_min THEN 0 ELSE IF v >= s.in_max THEN s.out_max
     ELSE IF scaled < 0 THEN 0 ELSE IF scaled > s.out_max THEN s.out_max ELSE scaled
zscore_init(mean, stddev, shift) ==
  [mean |-> mean, stddev |-> stddev, shift |-> shift, inv |-> Narrow(2^shift \div stddev)]
zscore_update(z, mean, stddev) == zscore_init(mean, stddev, z.shift)
zscore_normalize(z, v) == Narrow((v - z.mean) * z.inv)

(***************************************************************************)
(* Distances of two vectors.                                               *)
(***************************************************************************)
Magnitude(a) == IF a < 0 THEN -a ELSE a
manhattan(a, b) == Total([i \in DOMAIN a |-> Magnitude(a[i] - b[i])])
euclidean_sq(a, b) == Total([i \in DOMAIN a |-> (a[i] - b[i]) * (a[i] - b[i])])
dot(a, b) == Total([i \in DOMAIN a |-> a[i] * b[i]])
cosine_sq(a, b) == <<dot(a, b), dot(a, a), dot(b, b)>>
Bit(x, i) == (x \div 2^i) % 2
popcount8(x) == Cardinality({i \in 0..7 : Bit(x, i) = 1})
Xor(x, y) == Total([i \in 1..8 |-> IF Bit(x, i - 1) # Bit(y, i - 1) THEN 2^(i - 1) ELSE 0])
hamming(a, b) == Total([i \in DOMAIN a |-> popcount8(Xor(a[i], b[i]))])

(***************************************************************************)
(* Setting up, pushing, updating.                                          *)
(***************************************************************************)
Fresh(kind, p) ==
  CASE kind = "delta" -> delta_init [] kind = "skip" -> skip_init(p[1]) [] kind = "ema" -> ema_init(p[1])
    [] kind = "ewma" -> ewma_init(p[1], p[2]) [] kind = "peak" -> peak_init(p[1])
    [] kind = "histogram" -> histogram_init(p[1], p[2], p[3]) [] kind = "goertzel" -> goertzel_init(p[1], p[2])
    [] kind = "median" -> median_init(p[1]) [] kind = "zcr" -> zcr_init(p[1])
    [] kind = "statistics" -> statistics_init(p[1])
    [] kind = "minmax" -> minmax_init(p[1]) [] kind = "welford" -> welford_init [] kind = "energy" -> energy_init
    [] kind = "scale" -> scale_init(p[1], p[2], p[3], p[4]) [] kind = "zscore" -> zscore_init(p[1], p[2], p[3])
    [] kind = "distance" -> {}
Pushed(kind, s, v) ==
  CASE kind = "delta" -> delta_push(s, v) [] kind = "skip" -> skip_push(s, v) [] kind = "ema" -> ema_push(s, v)
    [] kind = "ewma" -> ewma_push(s, v) [] kind = "peak" -> peak_push(s, v)
    [] kind = "histogram" -> histogram_push(s, v)
    [] kind = "goertzel" -> goertzel_push(s, v) [] kind = "median" -> median_push(s, v)
    [] kind = "zcr" -> zcr_push(s, v)
    [] kind = "statistics" -> statistics_push(s, v) [] kind = "minmax" -> minmax_push(s, v)
    [] kind = "welford" -> welford_push(s, v) [] kind = "energy" -> energy_push(s, v)
    [] kind \in {"scale", "zscore", "distance"} -> s

Init == (\E x \in Features : f = [kind |-> x[1], par |-> x[2], s |-> Fresh(x[1], x[2])]) /\ seen = <<>>
\* Every reset leaves what its init does.
Reset == f' = [f EXCEPT !.s = Fresh(f.kind, f.par)] /\ seen' = <<>>
Push(v) == Len(seen) < MaxSamples /\ f' = [f EXCEPT !.s = Pushed(f.kind, @, v)] /\ seen' = Append(seen, v)
Update ==
  /\ \/ f.kind = "scale" /\ \E x \in Ranges : f' = [f EXCEPT !.s = scale_update(@, x[1], x[2])]
     \/ f.kind = "zscore" /\ \E x \in Spreads : f' = [f EXCEPT !.s = zscore_update(@, x[1], x[2])]
  /\ UNCHANGED seen
Next == Reset \/ Update \/ \E v \in Samples : Push(v)

(***************************************************************************)
(* Properties.                                                             *)
(***************************************************************************)
Least(n, m) == IF n < m THEN n ELSE m
LastOnes(n) == SubSeq(seen, Len(seen) + 1 - Least(n, Len(seen)), Len(seen))
Are(s) == {s[i] : i \in DOMAIN s}
Between(v, s) == Min(Are(s)) <= v /\ v <= Max(Are(s))
IsRoot(r, x) == r * r <= x /\ x < (r + 1) * (r + 1)
Crossings(s) == Total([i \in 1..Len(s) - 1 |-> is_crossing(s[i], s[i + 1])])
Falls(s, n, h) == \E i \in 1..n : s[n] < s[i] - h

\* What the features of one sample after the other say of the samples, until a
\* 16-bit index comes round.
StreamsAgree(s) ==
  CASE f.kind = "delta" -> s.ready /\ s.last_delta = Last(<<0>> \o delta_compute(seen))
    [] f.kind = "skip" -> LET n == Len(seen) \div s.interval
                          IN s.ready = (Len(seen) % s.interval = 0) /\ (n > 0 => s.last = seen[n * s.interval])
    [] f.kind = "ema" -> Between(ema_value(s), seen)
    [] f.kind = "ewma" -> Between(s.value, seen)
    [] f.kind = "peak" -> Len(seen) < W16 =>
         /\ s.extreme = seen[s.extreme_idx + 1]
         /\ \A i \in s.extreme_idx + 1..Len(seen) : IF s.state = "rising" THEN seen[i] <= s.extreme
              ELSE seen[i] >= s.extreme
         /\ s.peak_count > 0 => LET peak == s.last_peak_idx + 1 IN
              /\ s.last_peak = seen[peak]
              /\ \E i \in peak + 1..Len(seen) :
                   seen[i] < seen[peak] - s.hysteresis /\ \A j \in peak..i : seen[j] <= seen[peak]
         /\ (s.peak_count > 0) = \E i \in 1..Len(seen) : Falls(seen, i, s.hysteresis)
         /\ s.detected => s.state = "falling"
    [] f.kind = "histogram" -> Len(seen) < W16 =>
         /\ \A b \in DOMAIN s.bins :
              s.bins[b] = Cardinality({i \in DOMAIN seen : b = (seen[i] - s.bin_min) \div s.bin_width})
         /\ \A b \in DOMAIN s.bins : s.bins[b] <= s.bins[histogram_mode_bin(s)]
         /\ s.total = s.underflow + s.overflow + Total([b \in 1..s.num_bins |-> s.bins[b - 1]])
    [] f.kind = "goertzel" -> Len(seen) = s.block_size =>
         goertzel_magnitude_sq(s) >= 0 /\ goertzel_magnitude_sq(s) = goertzel_block(s, seen)

\* What the features of a window say of the last samples; minmax beyond the 65536th
\* only when its window divides that.
WindowsAgree(s) ==
  CASE f.kind = "median" -> median_value(s) = SortSeq(LastOnes(s.size), <)[(Least(s.size, Len(seen)) \div 2) + 1]
    [] f.kind = "zcr" -> s.crossings = Crossings(LastOnes(s.capacity))
    [] f.kind = "statistics" -> LET last == LastOnes(s.capacity) IN
         /\ s.sum = Total(last) /\ statistics_min(s) = Min(Are(last)) /\ statistics_max(s) = Max(Are(last))
         /\ statistics_variance(s) >= 0 /\ Between(statistics_mean(s), last)
    [] f.kind = "minmax" -> W16 % s.capacity = 0 \/ Len(seen) <= W16 =>
         minmax_min(s) = Min(Are(LastOnes(s.capacity))) /\ minmax_max(s) = Max(Are(LastOnes(s.capacity)))
TotalsAgree(s) ==
  CASE f.kind = "welford" -> Between(s.mean, seen) /\ s.m2 >= 0 /\ IsRoot(welford_stddev(s), welford_variance(s))
    [] f.kind = "energy" -> IsRoot(energy_rms(s), s.mean_sq)
         /\ Between(s.mean_sq, [i \in DOMAIN seen |-> seen[i] * seen[i]])

\* Rising, with both ends met, where the reciprocal fits an int32_t.
ScalesAgree(s) ==
  CASE f.kind = "scale" -> s.out_max * 2^s.shift < 2^(INT - 1) =>
         /\ \A v \in s.in_min - 1..s.in_max : 0 <= scale_one(s, v) /\ scale_one(s, v) <= scale_one(s, v + 1)
         /\ scale_one(s, s.in_max) = s.out_max
         /\ \A v \in s.in_min..s.in_max : scale_one(s, v) * (s.in_max - s.in_min) <= (v - s.in_min) * s.out_max
    [] f.kind = "zscore" ->
         \A v \in Samples : Magnitude(v - s.mean) * s.inv < 2^(INT - 1) =>
           /\ Magnitude(zscore_normalize(s, v)) * s.stddev <= Magnitude(v - s.mean) * 2^s.shift
           /\ (zscore_normalize(s, v) < 0 => v < s.mean) /\ (v >= s.mean => zscore_normalize(s, v) >= 0)

\* The distances agree with one another, on the two halves of the samples.
DistancesAgree ==
  LET n == Len(seen) \div 2
      a == SubSeq(seen, 1, n)
      b == SubSeq(seen, n + 1, 2 * n)
      c == cosine_sq(a, b)
      bytes(s) == [i \in DOMAIN s |-> s[i] % 256]
  IN /\ euclidean_sq(a, b) = c[2] + c[3] - 2 * c[1] /\ c[1] * c[1] <= c[2] * c[3]
     /\ manhattan(a, b) <= manhattan(a, [i \in DOMAIN a |-> 0]) + manhattan([i \in DOMAIN b |-> 0], b)
     /\ manhattan(a, b) * manhattan(a, b) >= euclidean_sq(a, b)
     /\ hamming(bytes(a), bytes(b)) = hamming(bytes(b), bytes(a))
          /\ (hamming(bytes(a), bytes(b)) = 0) = (bytes(a) = bytes(b))

\* sigfeatures, tiku_kits_statistics, tiku_kits_distance: what is kept sample by
\* sample is what the samples say, through every turn of a ring, every rounding
\* and every reset.
FeaturesAgree ==
  /\ f.kind \in {"delta", "skip", "ema", "ewma", "peak", "histogram", "goertzel"} /\ seen # <<>> => StreamsAgree(f.s)
  /\ f.kind \in {"median", "zcr", "statistics", "minmax"} /\ seen # <<>> => WindowsAgree(f.s)
  /\ f.kind \in {"welford", "energy"} /\ seen # <<>> => TotalsAgree(f.s)
  /\ f.kind \in {"scale", "zscore"} => ScalesAgree(f.s)
  /\ f.kind = "distance" => DistancesAgree
=============================================================================
