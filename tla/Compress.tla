------------------------------ MODULE Compress ------------------------------
(***************************************************************************)
(* textcompression/ (rle, heatshrink, bpe), crypto/base64 and codec/hex.   *)
(* `input` goes through the encoder of one of them into a buffer, may be   *)
(* damaged there, and is decoded into another.  A byte has BYTE bits, of   *)
(* base64 and hex 8; their characters stand for what they encode.          *)
(***************************************************************************)
EXTENDS Integers, Sequences, FiniteSets, SequencesExt, FiniteSetsExt

CONSTANTS
  BYTE,                                 \* bits in a byte (8 in the code)
  WINDOW_BITS, LOOKAHEAD_BITS, MIN_MATCH, \* TIKU_KITS_TEXTCOMPRESSION_HEATSHRINK_*
  MAX_INPUT, MAX_MERGES,                \* TIKU_KITS_TEXTCOMPRESSION_BPE_*
  Texts, Octets,                        \* inputs of the compressors, of base64 and hex
  Caps                                  \* capacities of the buffers
VARIABLES input, packed, unpacked
vars == <<input, packed, unpacked>>

Bytes == 0..2^BYTE - 1
Done(out) == [rc |-> "ok", out |-> out]
Error(rc) == [rc |-> rc, out |-> <<>>]
Bits(v, n) == [i \in 1..n |-> (v \div 2^(n - i)) % 2]
Number(bits) == FoldLeft(LAMBDA v, b : 2 * v + b, 0, bits)
\* The buffer k takes more, or is full; n is its capacity.
Put(k, more, n) ==
  IF k.rc # "ok" THEN k ELSE IF Len(k.out) + Len(more) > n THEN [k EXCEPT !.rc = "size"]
    ELSE [k EXCEPT !.out = @ \o more]
Chunks(s, n) ==
  [i \in 1..(Len(s) + n - 1) \div n |-> SubSeq(s, n * (i - 1) + 1, IF n * i < Len(s) THEN n * i ELSE Len(s))]

(***************************************************************************)
(* rle: pairs of a count and a value.                                      *)
(***************************************************************************)
RECURSIVE Runs(_)
Runs(s) ==
  LET n == Max({k \in 1..Len(s) : k < 2^BYTE /\ \A i \in 1..k : s[i] = s[1]})
  IN IF s = <<>> THEN <<>> ELSE <<<<n, s[1]>>>> \o Runs(SubSeq(s, n + 1, Len(s)))
rle_encode(s, n) == FoldLeft(LAMBDA k, run : Put(k, run, n), Done(<<>>), Runs(s))
rle_decode(s, n) ==
  IF Len(s) % 2 # 0 THEN Error("corrupt")
  ELSE FoldLeft(LAMBDA k, run : IF run[1] = 0 /\ k.rc = "ok" THEN [k EXCEPT !.rc = "corrupt"]
                                ELSE Put(k, [i \in 1..run[1] |-> run[2]], n),
                Done(<<>>), Chunks(s, 2))

(***************************************************************************)
(* heatshrink: the length in two bytes, then a stream of bits with tokens: *)
(* 1 and a byte, or 0, how far back and how many.                          *)
(***************************************************************************)
\* How many bytes from i on stand at j too; what is copied may overlap its copy.
match_len(s, i, j) ==
  Max({n \in 0..2^LOOKAHEAD_BITS - 1 + MIN_MATCH : i + n <= Len(s) /\ \A k \in 1..n : s[i + k] = s[j + k]})
RECURSIVE Tokens(_, _)
Tokens(s, i) ==
  LET window == {j \in 0..i - 1 : j >= i - 2^WINDOW_BITS}
      best_len == IF window = {} THEN 0 ELSE Max({match_len(s, i, j) : j \in window})
      best == Min({j \in window : match_len(s, i, j) = best_len})
  IN IF i >= Len(s) THEN <<>>
     ELSE IF best_len >= MIN_MATCH
     THEN <<<<0>> \o Bits(i - best - 1, WINDOW_BITS) \o Bits(best_len - MIN_MATCH, LOOKAHEAD_BITS)>>
          \o Tokens(s, i + best_len)
     ELSE <<<<1>> \o Bits(s[i + 1], BYTE)>> \o Tokens(s, i + 1)
heatshrink_encode(s, n) ==
  LET stream == FoldLeft(LAMBDA k, token : Put(k, token, BYTE * (n - 2)), Done(<<>>), Tokens(s, 0))
      filled(bits) == bits \o [i \in 1..BYTE - Len(bits) |-> 0]
      bytes == [i \in DOMAIN Chunks(stream.out, BYTE) |-> Number(filled(Chunks(stream.out, BYTE)[i]))]
  IN IF n < 2 THEN Error("size")
     ELSE [stream EXCEPT !.out = <<Len(s) % 2^BYTE, Len(s) \div 2^BYTE>> \o bytes]

\* Tokens are taken from the bits until size bytes are there.
Copied(out, offset, length, n) ==
  FoldLeft(LAMBDA k, i : Put(k, <<k.out[Len(k.out) + 1 - offset]>>, n), out, [i \in 1..length |-> i])
RECURSIVE Unpacked(_, _, _, _)
Unpacked(k, bits, size, n) ==
  LET want == 1 + (IF bits # <<>> /\ bits[1] = 1 THEN BYTE ELSE WINDOW_BITS + LOOKAHEAD_BITS)
      rest == SubSeq(bits, want + 1, Len(bits))
      offset == Number(SubSeq(bits, 2, 1 + WINDOW_BITS)) + 1
      length == Number(SubSeq(bits, 2 + WINDOW_BITS, want)) + MIN_MATCH
  IN IF k.rc # "ok" \/ Len(k.out) >= size THEN k
     ELSE IF bits = <<>> \/ Len(bits) < want THEN [k EXCEPT !.rc = "corrupt"]
     ELSE IF bits[1] = 1 THEN Unpacked(Put(k, <<Number(SubSeq(bits, 2, want))>>, n), rest, size, n)
     ELSE IF offset > Len(k.out) THEN [k EXCEPT !.rc = "corrupt"]
     ELSE Unpacked(Copied(k, offset, length, n), rest, size, n)
heatshrink_decode(s, n) ==
  LET orig_size == s[1] + 2^BYTE * s[2]
      bits == FlattenSeq([i \in 1..Len(s) - 2 |-> Bits(s[i + 2], BYTE)])
  IN IF Len(s) < 2 THEN Error("corrupt")
     ELSE IF orig_size > n THEN Error("size") ELSE Unpacked(Done(<<>>), bits, orig_size, n)

(***************************************************************************)
(* bpe: the commonest pair becomes a byte that is not in use now, though   *)
(* it may have been before; the merges are undone last first.              *)
(***************************************************************************)
Occurs(s, pair) == {i \in 1..Len(s) - 1 : <<s[i], s[i + 1]>> = pair}
\* The first of the commonest; overlapping ones are counted each.
find_best_pair(s) ==
  LET count(i) == Cardinality(Occurs(s, <<s[i], s[i + 1]>>))
      best == {i \in 1..Len(s) - 1 : \A j \in 1..Len(s) - 1 : count(j) <= count(i)}
  IN IF best = {} THEN [count |-> 0]
     ELSE [count |-> count(Min(best)), pair |-> <<s[Min(best)], s[Min(best) + 1]>>]
Unused(s) == Bytes \ {s[i] : i \in DOMAIN s}
RECURSIVE replace_pair(_, _, _)
replace_pair(s, pair, sym) ==
  IF s = <<>> THEN <<>>
  ELSE IF Len(s) > 1 /\ SubSeq(s, 1, 2) = pair THEN <<sym>> \o replace_pair(SubSeq(s, 3, Len(s)), pair, sym)
  ELSE <<s[1]>> \o replace_pair(Tail(s), pair, sym)
RECURSIVE Merged(_, _)
Merged(s, merges) ==
  LET b == find_best_pair(s)
      sym == Min(Unused(s))
  IN IF Len(merges) = MAX_MERGES \/ b.count < 2 \/ Unused(s) = {} THEN [work |-> s, merges |-> merges]
     ELSE Merged(replace_pair(s, b.pair, sym), Append(merges, b.pair \o <<sym>>))
bpe_encode(s, n) ==
  LET m == Merged(s, <<>>)
      out == <<Len(m.merges)>> \o FlattenSeq(m.merges) \o m.work
  IN IF Len(s) > MAX_INPUT THEN Error("overflow") ELSE IF Len(out) > n THEN Error("size") ELSE Done(out)

Expand(k, merge, n) ==
  FoldLeft(LAMBDA out, b : Put(out, IF b = merge[3] THEN SubSeq(merge, 1, 2) ELSE <<b>>, n), [k EXCEPT !.out = <<>>],
    k.out)
\* All but the last expansion go back into the work buffer.
Undone(payload, merges, n) ==
  FoldLeft(LAMBDA k, m : LET e == Expand(k, merges[m], n)
                         IN IF e.rc = "ok" /\ m > 1 /\ Len(e.out) > MAX_INPUT THEN [e EXCEPT !.rc = "overflow"] ELSE e,
           Done(payload), Reverse([m \in DOMAIN merges |-> m]))
bpe_decode_forward(s, n) ==
  LET payload == SubSeq(s, 2 + 3 * s[1], Len(s))
  IN IF s = <<>> \/ s[1] > MAX_MERGES \/ 1 + 3 * s[1] > Len(s) THEN Error("corrupt")
     ELSE IF Len(payload) > MAX_INPUT THEN Error("overflow")
     ELSE FoldLeft(LAMBDA k, merge : Expand(k, merge, n), Put(Done(<<>>), payload, n),
       Chunks(SubSeq(s, 2, 1 + 3 * s[1]), 3))
bpe_decode(s, n) ==
  LET payload == SubSeq(s, 2 + 3 * s[1], Len(s))
  IN IF s = <<>> \/ s[1] > MAX_MERGES \/ 1 + 3 * s[1] > Len(s) THEN Error("corrupt")
     ELSE IF Len(payload) > MAX_INPUT THEN Error("overflow")
     ELSE IF s[1] = 0 THEN Put(Done(<<>>), payload, n) ELSE Undone(payload, Chunks(SubSeq(s, 2, 1 + 3 * s[1]), 3), n)

(***************************************************************************)
(* base64 and hex.  A character is its place in the alphabet; the NUL that *)
(* ends the text needs room too, in a word of 16 bits.                     *)
(***************************************************************************)
PAD == 64
BAD == 65
Sextets(group) ==
  LET bits == FlattenSeq([i \in 1..3 |-> IF i <= Len(group) THEN Bits(group[i], 8) ELSE Bits(0, 8)])
  IN [i \in 1..4 |-> IF i > Len(group) + 1 THEN PAD ELSE Number(SubSeq(bits, 6 * i - 5, 6 * i))]
base64_encode(s, n) ==
  IF n < (((Len(s) + 2) \div 3) * 4 + 1) % 2^16 THEN Error("overflow")
  ELSE Done(FlattenSeq([i \in DOMAIN Chunks(s, 3) |-> Sextets(Chunks(s, 3)[i])]))

\* Four characters; padding only at the end of the last four.
Quad(k, q, last) ==
  LET bits == FlattenSeq([i \in 1..4 |-> Bits(IF q[i] < PAD THEN q[i] ELSE 0, 6)])
      octets == [i \in 1..3 |-> Number(SubSeq(bits, 8 * i - 7, 8 * i))]
      good == q[1] < PAD /\ q[2] < PAD
  IN IF k.rc # "ok" THEN k
     ELSE IF ~good THEN [k EXCEPT !.rc = "corrupt"]
     ELSE IF q[3] = PAD /\ q[4] = PAD /\ last THEN [k EXCEPT !.out = @ \o SubSeq(octets, 1, 1)]
     ELSE IF q[3] < PAD /\ q[4] = PAD /\ last THEN [k EXCEPT !.out = @ \o SubSeq(octets, 1, 2)]
     ELSE IF q[3] < PAD /\ q[4] < PAD THEN [k EXCEPT !.out = @ \o octets]
     ELSE [k EXCEPT !.rc = "corrupt"]
\* The room needed is known from the last two characters before any is looked at.
base64_decode(s, n) ==
  LET pad == Cardinality({i \in {Len(s) - 1, Len(s)} : s[i] = PAD})
      quads == Chunks(s, 4)
  IN IF s = <<>> THEN Done(<<>>)
     ELSE IF Len(s) % 4 # 0 THEN Error("corrupt")
     ELSE IF n < (Len(s) \div 4) * 3 - pad THEN Error("overflow")
     ELSE FoldLeft(LAMBDA k, i : Quad(k, quads[i], i = Len(quads)), Done(<<>>), [i \in DOMAIN quads |-> i])

hex_encode(s, n) ==
  IF n < (2 * Len(s) + 1) % 2^16 THEN Error("overflow")
  ELSE Done(FlattenSeq([i \in DOMAIN s |-> <<s[i] \div 16, s[i] % 16>>]))
hex_decode(s, n) ==
  IF Len(s) % 2 # 0 THEN Error("param")
  ELSE IF n < Len(s) \div 2 THEN Error("overflow")
  ELSE FoldLeft(LAMBDA k, p : IF k.rc # "ok" \/ p[1] > 15 \/ p[2] > 15 THEN [k EXCEPT !.rc = "corrupt"]
                              ELSE [k EXCEPT !.out = Append(@, 16 * p[1] + p[2])],
                Done(<<>>), Chunks(s, 2))

(***************************************************************************)
(* A caller.                                                               *)
(***************************************************************************)
Schemes == {"rle", "heatshrink", "bpe", "base64", "hex"}
Encode(scheme, s, n) ==
  CASE scheme = "rle" -> rle_encode(s, n) [] scheme = "heatshrink" -> heatshrink_encode(s, n)
    [] scheme = "bpe" -> bpe_encode(s, n) [] scheme = "base64" -> base64_encode(s, n)
    [] scheme = "hex" -> hex_encode(s, n)
Decode(scheme, s, n) ==
  CASE scheme = "rle" -> rle_decode(s, n) [] scheme = "heatshrink" -> heatshrink_decode(s, n)
    [] scheme = "bpe" -> bpe_decode(s, n) [] scheme = "base64" -> base64_decode(s, n)
    [] scheme = "hex" -> hex_decode(s, n)
Symbols == IF input.scheme \in {"base64", "hex"} THEN {0, 15, 63, PAD, BAD} ELSE Bytes

None == [rc |-> "none", out |-> <<>>, cap |-> 0]
Result(r, n) == [rc |-> r.rc, out |-> r.out, cap |-> n]
Init ==
  /\ \E scheme \in Schemes : \E s \in IF scheme \in {"base64", "hex"} THEN Octets ELSE Texts :
       input = [scheme |-> scheme, text |-> s, damaged |-> FALSE]
  /\ packed = None /\ unpacked = None
Pack == packed.rc = "none" /\ \E n \in Caps : packed' = Result(Encode(input.scheme, input.text, n), n)
  /\ UNCHANGED <<input, unpacked>>
\* One symbol is another, or the end is missing.
Damage ==
  /\ packed.rc = "ok" /\ ~input.damaged /\ unpacked = None
  /\ input' = [input EXCEPT !.damaged = TRUE]
  /\ \/ \E i \in DOMAIN packed.out, v \in Symbols : packed' = [packed EXCEPT !.out[i] = v]
     \/ \E i \in DOMAIN packed.out : packed' = [packed EXCEPT !.out = SubSeq(@, 1, i - 1)]
  /\ UNCHANGED unpacked
Unpack ==
  /\ packed.rc = "ok" /\ unpacked = None
  /\ \E n \in Caps : unpacked' = Result(Decode(input.scheme, packed.out, n), n)
  /\ UNCHANGED <<input, packed>>
Next == Pack \/ Damage \/ Unpack

(***************************************************************************)
(* Properties.                                                             *)
(***************************************************************************)
\* tiku_kits_textcompression, tiku_kits_crypto_base64, tiku_kits_codec_hex: what
\* was encoded is decoded as it was wherever it has room, though matches overlap
\* what they copy and merges use a byte again; no call writes more than its
\* buffer holds; and damage never makes a decoder do so.
RoundTrip ==
  /\ Len(packed.out) <= packed.cap /\ Len(unpacked.out) <= unpacked.cap
  /\ unpacked.rc # "none" /\ ~input.damaged =>
       IF unpacked.cap >= Len(input.text) THEN unpacked.rc = "ok" /\ unpacked.out = input.text ELSE unpacked.rc # "ok"
=============================================================================
