------------------------------- MODULE Circlog -------------------------------
(***************************************************************************)
(* ds/circlog: a log that overwrites its oldest entry, kept in FRAM.  The  *)
(* memory survives a loss of power and the call that was running does not, *)
(* so append and clear are modelled store by store, in the order of the    *)
(* code.  `log` is struct tiku_kits_ds_circlog; the n-th append writes n   *)
(* into every field of its entry.                                          *)
(***************************************************************************)
EXTENDS Integers, Sequences, TLAPS

CONSTANTS MAX_ENTRIES, MaxAppends, MaxCrashes
VARIABLES
  log,      \* FRAM
  call,     \* the call in progress: its next store and append's write_pos
  hist,     \* appends that took a slot since the last clear, in order
  torn,     \* those of them whose entry was not written to the end
  skewed,   \* a clear was cut off between its stores
  crashes
vars == <<log, call, hist, torn, skewed, crashes>>

Stores == <<"timestamp", "level", "tag", "payload_len", "payload", "seq">>
Fields == {"timestamp", "level", "tag", "payload_len", "payload"}
Idle == [at |-> "idle", pos |-> 0]
Storing(i, pos) == [at |-> Stores[i], pos |-> pos]

Init ==
  /\ \E c \in 1..MAX_ENTRIES :
       log = [entries |-> [i \in 0..MAX_ENTRIES - 1 |-> [f \in Fields |-> 0]],
              head |-> 0, count |-> 0, capacity |-> c, seq |-> 0]
  /\ call = Idle /\ hist = <<>> /\ torn = {} /\ skewed = FALSE /\ crashes = 0

Last == hist[Len(hist)]

\* append: "Not full: write at the next free slot"; "Full: overwrite the oldest".
\* The mutant leaves the head where it was.
TakeSlot_keeps_head ==
  IF log.count < log.capacity
  THEN /\ call' = Storing(1, (log.head + log.count) % log.capacity)
       /\ log' = [log EXCEPT !.count = @ + 1]
  ELSE call' = Storing(1, log.head) /\ UNCHANGED log
TakeSlot ==
  IF log.count < log.capacity
  THEN /\ call' = Storing(1, (log.head + log.count) % log.capacity)
       /\ log' = [log EXCEPT !.count = @ + 1]
  ELSE /\ call' = Storing(1, log.head)
       /\ log' = [log EXCEPT !.head = (@ + 1) % log.capacity]
Append0 ==
  /\ call = Idle /\ Len(hist) < MaxAppends
  /\ TakeSlot
  /\ hist' = Append(hist, Len(hist) + 1)
  /\ UNCHANGED <<torn, skewed, crashes>>

\* One store into the entry; the payload and its zeroed rest are one field.
StoreField(i) ==
  /\ i \in 1..5 /\ call.at = Stores[i]
  /\ log' = [log EXCEPT !.entries[call.pos][Stores[i]] = Last]
  /\ call' = Storing(i + 1, call.pos)
  /\ UNCHANGED <<hist, torn, skewed, crashes>>
StoreSeq ==
  /\ call.at = "seq" /\ call' = Idle
  /\ log' = [log EXCEPT !.seq = @ + 1]
  /\ UNCHANGED <<hist, torn, skewed, crashes>>

\* clear stores head, count and seq, one after the other.
ClearHead ==
  /\ call = Idle /\ call' = [at |-> "count", pos |-> 0]
  /\ log' = [log EXCEPT !.head = 0]
  /\ UNCHANGED <<hist, torn, skewed, crashes>>
ClearCount ==
  /\ call.at = "count" /\ call' = [at |-> "clear_seq", pos |-> 0]
  /\ log' = [log EXCEPT !.count = 0] /\ hist' = <<>> /\ torn' = {} /\ skewed' = FALSE
  /\ UNCHANGED crashes
ClearSeq ==
  /\ call.at = "clear_seq" /\ call' = Idle
  /\ log' = [log EXCEPT !.seq = 0]
  /\ UNCHANGED <<hist, torn, skewed, crashes>>

\* Power fails: the call is lost, the FRAM is kept and used as it is.
PowerLoss ==
  /\ crashes < MaxCrashes /\ call # Idle
  /\ call' = Idle /\ crashes' = crashes + 1
  /\ torn' = IF call.at \in Fields THEN torn \cup {Last} ELSE torn
  /\ skewed' = (skewed \/ call.at = "count")
  /\ UNCHANGED <<log, hist>>

Next == Append0 \/ (\E i \in 1..5 : StoreField(i)) \/ StoreSeq \/ ClearHead \/ ClearCount \/ ClearSeq \/ PowerLoss
Spec == Init /\ [][Next]_vars

\* read_at(k): the k-th newest entry.
read_at(k) == log.entries[(log.head + log.count - 1 - k) % log.capacity]

(***************************************************************************)
(* Properties.                                                             *)
(***************************************************************************)
\* An append cut off by a loss of power can spoil the entry it was writing and
\* no other: between calls every other age index reads the append of that age,
\* whole.  A clear cut off after its first store is the exception (skewed).
HistoryKept ==
  call = Idle /\ ~skewed =>
    /\ log.count = IF Len(hist) < log.capacity THEN Len(hist) ELSE log.capacity
    /\ \A k \in 0..log.count - 1 :
         LET n == hist[Len(hist) - k] IN n \notin torn => \A f \in Fields : read_at(k)[f] = n

(***************************************************************************)
(* Proofs: HistoryKept, for every MAX_ENTRIES and capacity and any number  *)
(* of appends and losses of power.                                         *)
(***************************************************************************)
Logs == [entries : [0..MAX_ENTRIES - 1 -> [Fields -> Nat]], head : Nat, count : Nat,
         capacity : 1..MAX_ENTRIES, seq : Nat]
LogOK == log \in Logs /\ log.head < log.capacity /\ log.count <= log.capacity
\* The appends since the last clear are numbered from 1.
HistOK == hist \in Seq(Nat) /\ \A n \in 1..Len(hist) : hist[n] = n
Appending == call.at \in Fields \cup {"seq"}
CallOK ==
  \/ call = Idle
  \/ call = [at |-> "count", pos |-> 0] \/ call = [at |-> "clear_seq", pos |-> 0]
  \/ \E i \in 1..6, pos \in 0..log.capacity - 1 : call = Storing(i, pos)

\* The slot of age k when n entries of a ring of c slots start at slot h, and
\* the slot read_at(k) reads.
SlotOf(c, h, n, k) == (h + n - 1 - k) % c
Slot(k) == SlotOf(log.capacity, log.head, log.count, k)
Whole(k) == \A f \in Fields : log.entries[Slot(k)][f] = Len(hist) - k

\* While an append runs its entry is the newest, and the fields before the
\* store it has reached hold its number.
NewestOK ==
  Appending =>
    /\ Len(hist) > 0
    /\ ~skewed => /\ log.count > 0 /\ call.pos = Slot(0)
                  /\ \A i \in 1..6 : call.at = Stores[i] =>
                       \A j \in 1..i - 1 : log.entries[call.pos][Stores[j]] = Len(hist)
\* Every other entry is whole, unless a loss of power cut it off.
OthersOK ==
  ~skewed /\ call.at # "count" =>
    /\ log.count = IF Len(hist) < log.capacity THEN Len(hist) ELSE log.capacity
    /\ \A k \in 0..log.count - 1 : (k = 0 /\ Appending) \/ Len(hist) - k \in torn \/ Whole(k)
LogInv == LogOK /\ HistOK /\ CallOK /\ skewed \in BOOLEAN /\ NewestOK /\ OthersOK

(***************************************************************************)
(* Counting round a circle of c slots.                                     *)
(***************************************************************************)
\* What % does to an index that has not passed the end.
LEMMA ModBelow == ASSUME NEW c \in Nat \ {0}, NEW x \in 0..c - 1 PROVE x % c = x
  BY SMT
\* And to one that has passed it once.
LEMMA ModWrap == ASSUME NEW c \in Nat \ {0}, NEW x \in c..2 * c - 1 PROVE x % c = x - c
  BY SMT
\* An index less than twice round, as a slot.
LEMMA Round ==
  ASSUME NEW c \in Nat \ {0}, NEW x \in 0..2 * c - 1
  PROVE  /\ x % c = IF x < c THEN x ELSE x - c
         /\ x % c \in 0..c - 1
  <1>1. CASE x < c
    BY <1>1, ModBelow, x \in 0..c - 1
  <1>2. CASE x >= c
    <2>1. x \in c..2 * c - 1
      BY <1>2
    <2>2. x % c = x - c
      BY <2>1, ModWrap
    <2> QED
      BY <1>2, <2>1, <2>2
  <1> QED
    BY <1>1, <1>2

\* The numbers behind LogOK, free of records.
LEMMA LogFacts ==
  ASSUME LogOK
  PROVE  /\ log.capacity \in Nat \ {0} /\ log.capacity \in 1..MAX_ENTRIES
         /\ log.head \in 0..log.capacity - 1 /\ log.count \in 0..log.capacity
         /\ log.entries \in [0..MAX_ENTRIES - 1 -> [Fields -> Nat]] /\ log.seq \in Nat
  BY DEF LogOK, Logs

\* The slot of age k, below the number of entries.
LEMMA SlotFacts ==
  ASSUME NEW c \in Nat \ {0}, NEW h \in 0..c - 1, NEW n \in 0..c, NEW k \in 0..n - 1
  PROVE  /\ SlotOf(c, h, n, k) = IF h + n - 1 - k < c THEN h + n - 1 - k ELSE h + n - 1 - k - c
         /\ SlotOf(c, h, n, k) \in 0..c - 1
  <1>1. PICK x : x = h + n - 1 - k
    OBVIOUS
  <1>2. x \in 0..2 * c - 1
    <2>1. x \in Int /\ 0 <= x /\ x <= 2 * c - 1
      BY <1>1
    <2> QED
      BY <2>1
  <1>3. x % c = (IF x < c THEN x ELSE x - c) /\ x % c \in 0..c - 1
    BY <1>2, Round
  <1>4. SlotOf(c, h, n, k) = x % c
    BY <1>1 DEF SlotOf
  <1>5. SlotOf(c, h, n, k) = IF x < c THEN x ELSE x - c
    BY <1>3, <1>4, Zenon
  <1>6. SlotOf(c, h, n, k) \in 0..c - 1
    BY <1>3, <1>4, Zenon
  <1> QED
    BY <1>1, <1>5, <1>6

\* Two ages are in two slots.
LEMMA SlotsDiffer ==
  ASSUME NEW c \in Nat \ {0}, NEW h \in 0..c - 1, NEW n \in 0..c,
         NEW j \in 0..n - 1, NEW k \in 0..n - 1, j # k
  PROVE  SlotOf(c, h, n, j) # SlotOf(c, h, n, k)
  <1>1. SlotOf(c, h, n, j) = IF h + n - 1 - j < c THEN h + n - 1 - j ELSE h + n - 1 - j - c
    BY SlotFacts
  <1>2. SlotOf(c, h, n, k) = IF h + n - 1 - k < c THEN h + n - 1 - k ELSE h + n - 1 - k - c
    BY SlotFacts
  <1> QED
    BY <1>1, <1>2

\* A slot taken behind the newest entry is age 0 and the others are one older.
LEMMA TakenFree ==
  ASSUME NEW c \in Nat \ {0}, NEW h \in 0..c - 1, NEW n \in 0..c - 1
  PROVE  /\ (h + n) % c = SlotOf(c, h, n + 1, 0) /\ (h + n) % c \in 0..c - 1
         /\ \A k \in 1..n : SlotOf(c, h, n + 1, k) = SlotOf(c, h, n, k - 1)
  <1>1. h + n = h + (n + 1) - 1 - 0
    OBVIOUS
  <1>2. (h + n) % c = SlotOf(c, h, n + 1, 0)
    BY <1>1 DEF SlotOf
  <1>3. SlotOf(c, h, n + 1, 0) \in 0..c - 1
    BY SlotFacts, 0 \in 0..(n + 1) - 1, n + 1 \in 0..c
  <1>4. ASSUME NEW k \in 1..n PROVE SlotOf(c, h, n + 1, k) = SlotOf(c, h, n, k - 1)
    <2>1. h + (n + 1) - 1 - k = h + n - 1 - (k - 1)
      OBVIOUS
    <2> QED
      BY <2>1 DEF SlotOf
  <1> QED
    BY <1>2, <1>3, <1>4

\* So is the oldest slot of a full ring, once the head has moved on.
LEMMA TakenOldest ==
  ASSUME NEW c \in Nat \ {0}, NEW h \in 0..c - 1, NEW g, g = (h + 1) % c
  PROVE  /\ g \in 0..c - 1 /\ h = SlotOf(c, g, c, 0)
         /\ \A k \in 1..c - 1 : SlotOf(c, g, c, k) = SlotOf(c, h, c, k - 1)
  <1>1. h + 1 \in 0..2 * c - 1
    OBVIOUS
  <1>2. PICK x : x = h + 1
    OBVIOUS
  <1>3. g = (IF h + 1 < c THEN h + 1 ELSE h + 1 - c) /\ g \in 0..c - 1
    <2>1. x % c = (IF x < c THEN x ELSE x - c) /\ x % c \in 0..c - 1
      BY <1>1, <1>2, Round
    <2>2. g = x % c
      BY <1>2
    <2>3. g = (IF x < c THEN x ELSE x - c) /\ g \in 0..c - 1
      BY <2>1, <2>2, Zenon
    <2> QED
      BY <1>2, <2>3
  <1>4. SlotOf(c, g, c, 0) = IF g + c - 1 - 0 < c THEN g + c - 1 - 0 ELSE g + c - 1 - 0 - c
    BY <1>3, SlotFacts, 0 \in 0..c - 1, c \in 0..c
  <1>5. h = SlotOf(c, g, c, 0)
    BY <1>3, <1>4
  <1>6. ASSUME NEW k \in 1..c - 1 PROVE SlotOf(c, g, c, k) = SlotOf(c, h, c, k - 1)
    <2>1. SlotOf(c, g, c, k) = IF g + c - 1 - k < c THEN g + c - 1 - k ELSE g + c - 1 - k - c
      BY <1>3, SlotFacts, k \in 0..c - 1, c \in 0..c
    <2>2. SlotOf(c, h, c, k - 1) = IF h + c - 1 - (k - 1) < c THEN h + c - 1 - (k - 1) ELSE h + c - 1 - (k - 1) - c
      BY SlotFacts, k - 1 \in 0..c - 1, c \in 0..c
    <2> QED
      BY <1>3, <2>1, <2>2
  <1> QED
    BY <1>3, <1>5, <1>6

(***************************************************************************)
(* The stores of append.                                                   *)
(***************************************************************************)
\* The five fields and the seq are the six stores, each once.
LEMMA StoresAre ==
  /\ \A i \in 1..5 : Stores[i] \in Fields
  /\ Stores[6] = "seq"
  /\ \A i \in 1..6 : Stores[i] \in Fields \cup {"seq"}
  /\ \A f \in Fields : \E i \in 1..5 : Stores[i] = f
  /\ \A i, j \in 1..6 : Stores[i] = Stores[j] => i = j
  /\ \A f \in Fields \cup {"seq"} : f \notin {"idle", "count", "clear_seq"}
  /\ "seq" \notin Fields
  <1>1. \A i \in 1..5 : i = 1 \/ i = 2 \/ i = 3 \/ i = 4 \/ i = 5
    OBVIOUS
  <1>2. \A i \in 1..6 : i \in 1..5 \/ i = 6
    OBVIOUS
  <1>3. /\ Stores[1] = "timestamp" /\ Stores[2] = "level" /\ Stores[3] = "tag" /\ Stores[4] = "payload_len"
        /\ Stores[5] = "payload" /\ Stores[6] = "seq"
    BY DEF Stores
  <1> QED
    BY <1>1, <1>2, <1>3 DEF Fields

\* What call is at a store.
LEMMA AtStore ==
  ASSUME CallOK, NEW i \in 1..6, call.at = Stores[i]
  PROVE  call = Storing(i, call.pos) /\ call.pos \in 0..log.capacity - 1 /\ Appending
  <1>1. Appending
    BY StoresAre DEF Appending
  <1>2. call # Idle /\ call # [at |-> "count", pos |-> 0] /\ call # [at |-> "clear_seq", pos |-> 0]
    BY StoresAre DEF Idle
  <1>3. PICK j \in 1..6, pos \in 0..log.capacity - 1 : call = Storing(j, pos)
    BY <1>2 DEF CallOK
  <1>4. j = i /\ call.pos = pos
    BY <1>3, StoresAre DEF Storing
  <1> QED
    BY <1>1, <1>3, <1>4

\* A call that is not appending is one of three.
LEMMA NotAppending ==
  ASSUME CallOK, ~Appending
  PROVE  call = Idle \/ call = [at |-> "count", pos |-> 0] \/ call = [at |-> "clear_seq", pos |-> 0]
  BY StoresAre DEF CallOK, Appending, Storing

(***************************************************************************)
(* Every step keeps the invariant.                                         *)
(***************************************************************************)
\* append takes a slot: its number is one more, and every entry is one older.
LEMMA TakeKeeps ==
  ASSUME LogInv, Append0
  PROVE  LogInv'
  <1> DEFINE cap == log.capacity
             n == log.count
             L == Len(hist)
  <1>0. /\ cap \in Nat \ {0} /\ cap \in 1..MAX_ENTRIES /\ log.head \in 0..cap - 1 /\ n \in 0..cap
        /\ log \in Logs /\ L \in Nat /\ call = Idle /\ hist \in Seq(Nat) /\ skewed \in BOOLEAN
    BY LogFacts DEF LogInv, LogOK, HistOK, Append0
  <1>1. hist' = Append(hist, L + 1) /\ UNCHANGED <<torn, skewed, crashes>> /\ TakeSlot
    BY DEF Append0
  <1>2. Len(hist') = L + 1 /\ HistOK'
    BY <1>0, <1>1 DEF LogInv, HistOK
  <1>3. PICK pos \in 0..cap - 1 :
          /\ call' = Storing(1, pos) /\ LogOK' /\ log'.capacity = cap /\ log'.entries = log.entries
          /\ log'.count = IF n < cap THEN n + 1 ELSE cap
          /\ pos = SlotOf(cap, log'.head, log'.count, 0)
          /\ \A k \in 1..log'.count - 1 : SlotOf(cap, log'.head, log'.count, k) = SlotOf(cap, log.head, n, k - 1)
    <2>1. CASE n < cap
      <3>1. call' = Storing(1, (log.head + n) % cap) /\ log' = [log EXCEPT !.count = @ + 1]
        BY <1>1, <2>1 DEF TakeSlot
      <3>2. /\ log'.head = log.head /\ log'.count = n + 1 /\ log'.capacity = cap /\ log'.entries = log.entries
            /\ log' \in Logs
        <4>1. PICK c : c = n + 1
          OBVIOUS
        <4>2. log' = [log EXCEPT !.count = c]
          BY <3>1, <4>1
        <4>3. c \in Nat
          BY <1>0, <4>1
        <4>4. /\ log'.head = log.head /\ log'.count = c /\ log'.capacity = cap /\ log'.entries = log.entries
              /\ log' \in Logs
          BY <1>0, <4>2, <4>3 DEF Logs
        <4> QED
          BY <4>1, <4>4, Zenon
      <3>3. n \in 0..cap - 1 /\ (n + 1) - 1 = n
        BY <1>0, <2>1
      <3>4. /\ (log.head + n) % cap = SlotOf(cap, log.head, n + 1, 0) /\ (log.head + n) % cap \in 0..cap - 1
            /\ \A k \in 1..n : SlotOf(cap, log.head, n + 1, k) = SlotOf(cap, log.head, n, k - 1)
        BY <1>0, <3>3, TakenFree
      <3>5. LogOK'
        BY <1>0, <3>2, <3>3 DEF LogOK
      <3> QED
        BY <2>1, <3>1, <3>2, <3>3, <3>4, <3>5, Zenon
    <2>2. CASE ~(n < cap)
      <3>0. n = cap
        BY <1>0, <2>2
      <3>1. PICK g : g = (log.head + 1) % cap
        OBVIOUS
      <3>2. call' = Storing(1, log.head) /\ log' = [log EXCEPT !.head = g]
        BY <1>1, <2>2, <3>1 DEF TakeSlot
      <3>3. /\ g \in 0..cap - 1 /\ log.head = SlotOf(cap, g, cap, 0)
            /\ \A k \in 1..cap - 1 : SlotOf(cap, g, cap, k) = SlotOf(cap, log.head, cap, k - 1)
        <4>1. PICK c, h : c = cap /\ h = log.head
          OBVIOUS
        <4>2. c \in Nat \ {0} /\ h \in 0..c - 1
          BY <1>0, <4>1
        <4>3. g = (h + 1) % c
          BY <3>1, <4>1, Zenon
        <4>4. /\ g \in 0..c - 1 /\ h = SlotOf(c, g, c, 0)
              /\ \A k \in 1..c - 1 : SlotOf(c, g, c, k) = SlotOf(c, h, c, k - 1)
          BY <4>2, <4>3, TakenOldest
        <4> QED
          BY <4>1, <4>4, Zenon
      <3>4. /\ log'.head = g /\ log'.count = cap /\ log'.capacity = cap /\ log'.entries = log.entries
            /\ log' \in Logs
        <4>1. g \in Nat
          BY <1>0, <3>3
        <4> QED
          BY <1>0, <3>0, <3>2, <4>1 DEF Logs
      <3>5. LogOK'
        BY <1>0, <3>3, <3>4 DEF LogOK
      <3> QED
        BY <1>0, <2>2, <3>0, <3>2, <3>3, <3>4, <3>5, Zenon
    <2> QED
      BY <2>1, <2>2
  <1>4. call'.at = "timestamp" /\ call'.pos = pos /\ call'.at = Stores[1] /\ 1 \in 1..6 /\ Appending'
    BY <1>3 DEF Storing, Stores, Appending, Fields
  <1>5. CallOK'
    BY <1>3, <1>4 DEF CallOK
  <1>6. NewestOK'
    <2>1. \A i \in 1..6 : call'.at = Stores[i] => i = 1
      BY <1>4, StoresAre, Zenon
    <2>2. log'.count > 0
      BY <1>0, <1>3
    <2>3. Len(hist') > 0
      BY <1>0, <1>2
    <2>4. \A i \in 1..6 : call'.at = Stores[i] => \A j \in 1..i - 1 : log'.entries[call'.pos][Stores[j]] = Len(hist')
      BY <2>1
    <2>5. call'.pos = Slot(0)'
      BY <1>3, <1>4 DEF Slot
    <2> QED
      BY <2>2, <2>3, <2>4, <2>5 DEF NewestOK
  <1>7. OthersOK'
    <2> SUFFICES ASSUME ~skewed'
                 PROVE  /\ log'.count = IF Len(hist') < log'.capacity THEN Len(hist') ELSE log'.capacity
                        /\ \A k \in 0..log'.count - 1 : k = 0 \/ Len(hist') - k \in torn' \/ Whole(k)'
      BY <1>4 DEF OthersOK
    <2>1. ~Appending /\ call.at # "count"
      BY <1>0, StoresAre DEF Idle, Appending
    <2>2. /\ n = IF L < cap THEN L ELSE cap
          /\ \A k \in 0..n - 1 : L - k \in torn \/ Whole(k)
      BY <1>1, <2>1 DEF LogInv, OthersOK
    <2>3. log'.count = IF Len(hist') < log'.capacity THEN Len(hist') ELSE log'.capacity
      BY <1>0, <1>2, <1>3, <2>2
    <2>4. ASSUME NEW k \in 1..log'.count - 1 PROVE Len(hist') - k \in torn' \/ Whole(k)'
      <3>1. k - 1 \in 0..n - 1 /\ Len(hist') - k = L - (k - 1)
        BY <1>0, <1>2, <1>3
      <3>2. L - (k - 1) \in torn \/ Whole(k - 1)
        BY <2>2, <3>1
      <3>3. Slot(k)' = Slot(k - 1)
        BY <1>3 DEF Slot
      <3>4. Whole(k - 1) => Whole(k)'
        <4> SUFFICES ASSUME Whole(k - 1), NEW f \in Fields
                     PROVE  log'.entries[Slot(k)'][f] = Len(hist') - k
          BY DEF Whole
        <4>1. log.entries[Slot(k - 1)][f] = L - (k - 1)
          BY DEF Whole
        <4> QED
          BY <1>3, <3>1, <3>3, <4>1, Zenon
      <3> QED
        BY <1>1, <3>1, <3>2, <3>4, Zenon
    <2>5. \A k \in 0..log'.count - 1 : k = 0 \/ k \in 1..log'.count - 1
      BY <1>0, <1>3
    <2> QED
      BY <2>3, <2>4, <2>5
  <1> QED
    BY <1>0, <1>1, <1>2, <1>3, <1>5, <1>6, <1>7 DEF LogInv

\* A store into the newest entry: the entries of other ages are in other slots.
LEMMA StoreKeeps ==
  ASSUME MAX_ENTRIES \in Nat \ {0}, LogInv, NEW m \in 1..5, StoreField(m)
  PROVE  LogInv'
  <1> DEFINE cap == log.capacity
             n == log.count
             L == Len(hist)
             pos == call.pos
  <1>0. /\ cap \in Nat \ {0} /\ cap \in 1..MAX_ENTRIES /\ log.head \in 0..cap - 1 /\ n \in 0..cap
        /\ log \in Logs /\ L \in Nat /\ hist \in Seq(Nat) /\ skewed \in BOOLEAN
        /\ log.entries \in [0..MAX_ENTRIES - 1 -> [Fields -> Nat]]
    BY LogFacts DEF LogInv, LogOK, HistOK
  <1>1. call.at = Stores[m] /\ m \in 1..6 /\ Stores[m] \in Fields
    BY StoresAre DEF StoreField
  <1>2. call = Storing(m, pos) /\ pos \in 0..cap - 1 /\ Appending
    BY <1>1, AtStore DEF LogInv
  <1>3. L > 0 /\ Last = L
    BY <1>0, <1>2 DEF LogInv, NewestOK, HistOK, Last
  <1>4. /\ log' = [log EXCEPT !.entries[pos][Stores[m]] = L] /\ call' = Storing(m + 1, pos)
        /\ UNCHANGED <<hist, torn, skewed, crashes>>
    BY <1>3 DEF StoreField
  <1>5. pos \in 0..MAX_ENTRIES - 1
    BY <1>0, <1>2
  <1>6. /\ log'.head = log.head /\ log'.count = n /\ log'.capacity = cap /\ log' \in Logs
        /\ log'.entries = [log.entries EXCEPT ![pos][Stores[m]] = L]
    BY <1>0, <1>1, <1>4, <1>5 DEF Logs
  <1>7. LogOK' /\ HistOK'
    BY <1>4, <1>6 DEF LogInv, LogOK, HistOK
  <1>8. m + 1 \in 1..6 /\ call'.at = Stores[m + 1] /\ call'.pos = pos /\ Appending' /\ CallOK'
    <2>1. m + 1 \in 1..6 /\ call'.at = Stores[m + 1] /\ call'.pos = pos
      BY <1>4 DEF Storing
    <2>2. Appending'
      BY <2>1, StoresAre DEF Appending
    <2>3. CallOK'
      BY <1>2, <1>4, <1>6, <2>1 DEF CallOK
    <2> QED
      BY <2>1, <2>2, <2>3
  <1>9. \A k : Slot(k)' = Slot(k)
    BY <1>6 DEF Slot
  <1>10. NewestOK'
    <2>1. ASSUME ~skewed'
          PROVE  /\ log'.count > 0 /\ call'.pos = Slot(0)'
                 /\ \A j \in 1..m : log'.entries[pos][Stores[j]] = L
      <3>1. /\ n > 0 /\ pos = Slot(0)
            /\ \A j \in 1..m - 1 : log.entries[pos][Stores[j]] = L
        BY <1>1, <1>2, <1>4, <2>1 DEF LogInv, NewestOK
      <3>2. ASSUME NEW j \in 1..m PROVE log'.entries[pos][Stores[j]] = L
        <4>1. j \in 1..5 /\ Stores[j] \in Fields
          BY StoresAre
        <4>2. CASE j = m
          BY <1>0, <1>1, <1>5, <1>6, <4>1, <4>2
        <4>3. CASE j # m
          <5>1. j \in 1..m - 1
            BY <4>3
          <5>2. log.entries[pos][Stores[j]] = L
            BY <3>1, <5>1
          <5>3. Stores[j] # Stores[m]
            BY <1>1, <4>1, <4>3, StoresAre
          <5> QED
            BY <1>0, <1>1, <1>5, <1>6, <4>1, <5>2, <5>3
        <4> QED
          BY <4>2, <4>3
      <3> QED
        BY <1>6, <1>8, <1>9, <3>1, <3>2
    <2>2. \A i \in 1..6 : call'.at = Stores[i] => i = m + 1
      BY <1>8, StoresAre, Zenon
    <2>3. (m + 1) - 1 = m
      OBVIOUS
    <2> QED
      BY <1>3, <1>4, <1>8, <2>1, <2>2, <2>3 DEF NewestOK
  <1>11. OthersOK'
    <2> SUFFICES ASSUME ~skewed'
                 PROVE  /\ log'.count = IF Len(hist') < log'.capacity THEN Len(hist') ELSE log'.capacity
                        /\ \A k \in 0..log'.count - 1 : k = 0 \/ Len(hist') - k \in torn' \/ Whole(k)'
      BY <1>8 DEF OthersOK
    <2>1. call.at # "count"
      BY <1>1, StoresAre
    <2>2. /\ n = IF L < cap THEN L ELSE cap
          /\ \A k \in 0..n - 1 : k = 0 \/ L - k \in torn \/ Whole(k)
      BY <1>4, <2>1 DEF LogInv, OthersOK
    <2>3. n > 0 /\ pos = Slot(0)
      BY <1>2, <1>4 DEF LogInv, NewestOK
    <2>4. ASSUME NEW k \in 0..n - 1, k # 0, Whole(k) PROVE Whole(k)'
      <3>1. 0 \in 0..n - 1
        BY <1>0, <2>3
      <3>2. SlotOf(cap, log.head, n, 0) # SlotOf(cap, log.head, n, k) /\ SlotOf(cap, log.head, n, k) \in 0..cap - 1
        BY <1>0, <2>4, <3>1, SlotsDiffer, SlotFacts
      <3>3. Slot(k) # pos /\ Slot(k) \in 0..MAX_ENTRIES - 1
        BY <1>0, <2>3, <3>2 DEF Slot
      <3>4. log'.entries[Slot(k)] = log.entries[Slot(k)]
        BY <1>0, <1>6, <3>3
      <3> QED
        BY <1>4, <1>9, <2>4, <3>4 DEF Whole
    <2> QED
      BY <1>4, <1>6, <2>2, <2>4
  <1> QED
    BY <1>0, <1>4, <1>7, <1>8, <1>10, <1>11 DEF LogInv

\* With every field stored the newest entry is whole.
LEMMA NewestWhole ==
  ASSUME LogInv, call.at = "seq", ~skewed
  PROVE  0 \in 0..log.count - 1 /\ Whole(0)
  <1>1. 6 \in 1..6 /\ call.at = Stores[6] /\ Appending
    BY StoresAre DEF Appending
  <1>2. /\ Len(hist) > 0 /\ log.count > 0 /\ call.pos = Slot(0)
        /\ \A j \in 1..6 - 1 : log.entries[call.pos][Stores[j]] = Len(hist)
    BY <1>1 DEF LogInv, NewestOK
  <1>3. ASSUME NEW f \in Fields PROVE log.entries[Slot(0)][f] = Len(hist) - 0
    <2>1. PICK j \in 1..5 : Stores[j] = f
      BY StoresAre
    <2>2. log.entries[Slot(0)][f] = Len(hist)
      BY <1>2, <2>1
    <2>3. Len(hist) \in Nat
      BY DEF LogInv, HistOK
    <2> QED
      BY <2>2, <2>3
  <1>4. log.count \in Nat
    BY LogFacts DEF LogInv
  <1> QED
    BY <1>2, <1>3, <1>4 DEF Whole

\* The last store of an append, or the end of one that power cut off: when all
\* fields are stored, or the entry is torn, nothing else was touched.
LEMMA AppendEnds ==
  ASSUME LogInv, Appending, call' = Idle, UNCHANGED <<hist, skewed>>,
         log' \in Logs, log'.head = log.head, log'.count = log.count, log'.capacity = log.capacity,
         log'.entries = log.entries,
         (call.at = "seq" /\ torn' = torn) \/ torn' = torn \cup {Last}
  PROVE  LogInv'
  <1>1. LogOK' /\ HistOK' /\ CallOK' /\ skewed' \in BOOLEAN
    BY DEF LogInv, LogOK, HistOK, CallOK
  <1>2. ~Appending' /\ call'.at # "count"
    BY StoresAre DEF Idle, Appending
  <1>3. NewestOK'
    BY <1>2 DEF NewestOK
  <1>4. \A k : Slot(k)' = Slot(k)
    BY DEF Slot
  <1>5. \A k : Whole(k) => Whole(k)'
    BY <1>4 DEF Whole
  <1>6. OthersOK'
    <2> SUFFICES ASSUME ~skewed
                 PROVE  /\ log.count = IF Len(hist) < log.capacity THEN Len(hist) ELSE log.capacity
                        /\ \A k \in 0..log.count - 1 : Len(hist) - k \in torn' \/ Whole(k)'
      BY DEF OthersOK
    <2>1. call.at # "count"
      BY StoresAre DEF Appending
    <2>2. /\ log.count = IF Len(hist) < log.capacity THEN Len(hist) ELSE log.capacity
          /\ \A k \in 0..log.count - 1 : k = 0 \/ Len(hist) - k \in torn \/ Whole(k)
      BY <2>1 DEF LogInv, OthersOK
    <2>3. torn \subseteq torn'
      OBVIOUS
    <2>4. Len(hist) - 0 \in torn' \/ Whole(0)
      <3>1. CASE call.at = "seq"
        BY <3>1, NewestWhole
      <3>2. CASE torn' = torn \cup {Last}
        <4>1. Last = Len(hist) /\ Len(hist) \in Nat
          BY DEF LogInv, NewestOK, HistOK, Last
        <4> QED
          BY <3>2, <4>1
      <3> QED
        BY <3>1, <3>2
    <2> QED
      BY <1>5, <2>2, <2>3, <2>4
  <1> QED
    BY <1>1, <1>3, <1>6 DEF LogInv

\* clear: until the count is stored the entries are out of place, and after it
\* there are none.
LEMMA ClearKeeps ==
  ASSUME LogInv, ClearHead \/ ClearCount \/ ClearSeq
  PROVE  LogInv'
  <1>0. /\ log.capacity \in Nat \ {0} /\ log \in Logs /\ log.count \in 0..log.capacity
        /\ hist \in Seq(Nat) /\ skewed \in BOOLEAN /\ ~Appending
    <2>1. ~Appending
      BY StoresAre DEF Appending, ClearHead, ClearCount, ClearSeq, Idle
    <2> QED
      BY <2>1, LogFacts DEF LogInv, LogOK, HistOK
  <1>1. CASE ClearHead
    <2>1. log' = [log EXCEPT !.head = 0] /\ call' = [at |-> "count", pos |-> 0] /\ UNCHANGED <<hist, torn, skewed>>
      BY <1>1 DEF ClearHead
    <2>2. LogOK'
      <3>1. log' \in Logs /\ log'.head = 0 /\ log'.count = log.count /\ log'.capacity = log.capacity
        BY <1>0, <2>1 DEF Logs
      <3> QED
        BY <1>0, <3>1 DEF LogOK
    <2>3. HistOK' /\ CallOK' /\ ~Appending' /\ call'.at = "count"
      BY <2>1, StoresAre DEF LogInv, HistOK, CallOK, Appending
    <2> QED
      BY <1>0, <2>1, <2>2, <2>3 DEF LogInv, NewestOK, OthersOK
  <1>2. CASE ClearCount
    <2>1. /\ log' = [log EXCEPT !.count = 0] /\ call' = [at |-> "clear_seq", pos |-> 0]
          /\ hist' = <<>> /\ skewed' = FALSE
      BY <1>2 DEF ClearCount
    <2>2. LogOK' /\ log'.count = 0 /\ log'.capacity = log.capacity
      <3>1. /\ log' \in Logs /\ log'.head = log.head /\ log'.count = 0 /\ log'.capacity = log.capacity
            /\ log.head < log.capacity
        BY <1>0, <2>1 DEF LogInv, LogOK, Logs
      <3> QED
        BY <1>0, <3>1 DEF LogOK
    <2>3. HistOK' /\ CallOK' /\ ~Appending' /\ Len(hist') = 0
      BY <2>1, StoresAre DEF HistOK, CallOK, Appending
    <2>4. OthersOK'
      BY <1>0, <2>2, <2>3 DEF OthersOK
    <2> QED
      BY <2>1, <2>2, <2>3, <2>4 DEF LogInv, NewestOK
  <1>3. CASE ClearSeq
    <2>1. /\ log' = [log EXCEPT !.seq = 0] /\ call' = Idle /\ UNCHANGED <<hist, torn, skewed>>
          /\ call.at # "count"
      BY <1>3 DEF ClearSeq
    <2>2. /\ LogOK' /\ log'.count = log.count /\ log'.capacity = log.capacity /\ log'.head = log.head
          /\ log'.entries = log.entries
      BY <1>0, <2>1 DEF LogInv, LogOK, Logs
    <2>3. HistOK' /\ CallOK' /\ ~Appending'
      BY <2>1, StoresAre DEF LogInv, HistOK, CallOK, Appending, Idle
    <2>4. \A k : Whole(k)' <=> Whole(k)
      BY <2>1, <2>2 DEF Whole, Slot
    <2>5. OthersOK'
      BY <1>0, <2>1, <2>2, <2>3, <2>4 DEF LogInv, OthersOK
    <2> QED
      BY <1>0, <2>1, <2>2, <2>3, <2>5 DEF LogInv, NewestOK
  <1> QED
    BY <1>1, <1>2, <1>3

\* A loss of power spoils the entry being written, or leaves a clear half done.
LEMMA PowerKeeps ==
  ASSUME LogInv, PowerLoss
  PROVE  LogInv'
  <1>0. /\ log' = log /\ hist' = hist /\ call' = Idle /\ skewed' = (skewed \/ call.at = "count")
        /\ torn' = IF call.at \in Fields THEN torn \cup {Last} ELSE torn
    BY DEF PowerLoss
  <1>1. LogOK' /\ HistOK' /\ CallOK' /\ skewed' \in BOOLEAN /\ ~Appending'
    BY <1>0, StoresAre DEF LogInv, LogOK, HistOK, CallOK, Appending, Idle
  <1>2. CASE Appending
    <2>1. skewed' = skewed
      BY <1>0, <1>2, StoresAre DEF Appending, LogInv
    <2>2. (call.at = "seq" /\ torn' = torn) \/ torn' = torn \cup {Last}
      BY <1>0, <1>2, StoresAre DEF Appending
    <2>3. log \in Logs
      BY DEF LogInv, LogOK
    <2> QED
      BY <1>0, <1>2, <2>1, <2>2, <2>3, AppendEnds
  <1>3. CASE ~Appending
    <2>1. torn' = torn
      BY <1>0, <1>3 DEF Appending
    <2>2. \A k : Whole(k)' <=> Whole(k)
      BY <1>0 DEF Whole, Slot
    <2>3. call'.at # "count"
      BY <1>0 DEF Idle
    <2>4. OthersOK'
      <3> SUFFICES ASSUME ~skewed' PROVE OthersOK'
        BY DEF OthersOK
      <3>1. ~skewed /\ call.at # "count"
        BY <1>0 DEF LogInv
      <3> QED
        BY <1>0, <1>1, <1>3, <2>1, <2>2, <3>1 DEF LogInv, OthersOK
    <2> QED
      BY <1>1, <2>4 DEF LogInv, NewestOK
  <1> QED
    BY <1>2, <1>3

\* A new log is empty.
LEMMA StartsKept == ASSUME MAX_ENTRIES \in Nat \ {0}, Init PROVE LogInv
  <1>1. PICK c \in 1..MAX_ENTRIES :
          log = [entries |-> [i \in 0..MAX_ENTRIES - 1 |-> [f \in Fields |-> 0]],
                 head |-> 0, count |-> 0, capacity |-> c, seq |-> 0]
    BY DEF Init
  <1>2. call = Idle /\ hist = <<>> /\ skewed = FALSE
    BY DEF Init
  <1>3. LogOK
    BY <1>1 DEF LogOK, Logs
  <1>4. HistOK /\ CallOK /\ ~Appending /\ Len(hist) = 0
    BY <1>2, StoresAre DEF HistOK, CallOK, Appending, Idle
  <1>5. log.count = 0 /\ log.capacity \in Nat \ {0}
    BY <1>1
  <1>6. OthersOK
    BY <1>4, <1>5 DEF OthersOK
  <1> QED
    BY <1>2, <1>3, <1>4, <1>6 DEF LogInv, NewestOK

\* One case per store, call and loss of power.
LEMMA StepKeeps ==
  ASSUME MAX_ENTRIES \in Nat \ {0}, LogInv, [Next]_vars
  PROVE  LogInv'
  <1>1. CASE UNCHANGED vars
    BY <1>1 DEF vars, LogInv, LogOK, HistOK, CallOK, NewestOK, OthersOK, Appending, Whole, Slot
  <1>2. CASE Append0
    BY <1>2, TakeKeeps
  <1>3. ASSUME NEW i \in 1..5, StoreField(i) PROVE LogInv'
    BY <1>3, StoreKeeps
  <1>4. CASE StoreSeq
    <2>1. log \in Logs /\ call.at = "seq" /\ log' = [log EXCEPT !.seq = @ + 1]
      BY <1>4 DEF StoreSeq, LogInv, LogOK
    <2>2. /\ log' \in Logs /\ log'.head = log.head /\ log'.count = log.count /\ log'.capacity = log.capacity
          /\ log'.entries = log.entries
      BY <2>1 DEF Logs
    <2>3. Appending
      BY <2>1 DEF Appending
    <2> QED
      BY <1>4, <2>1, <2>2, <2>3, AppendEnds DEF StoreSeq
  <1>5. CASE ClearHead \/ ClearCount \/ ClearSeq
    BY <1>5, ClearKeeps
  <1>6. CASE PowerLoss
    BY <1>6, PowerKeeps
  <1> QED
    BY <1>1, <1>2, <1>3, <1>4, <1>5, <1>6 DEF Next

\* Between calls read_at gives every age its own append, whole, but for the
\* ones power cut off: HistoryKept holds in every log.
THEOREM HistorySurvives ==
  ASSUME MAX_ENTRIES \in Nat \ {0}
  PROVE  Spec => []HistoryKept
  <1>1. Init => LogInv
    BY StartsKept
  <1>2. LogInv /\ [Next]_vars => LogInv'
    BY StepKeeps
  <1>3. LogInv => HistoryKept
    <2> SUFFICES ASSUME LogInv, call = Idle, ~skewed
                 PROVE  /\ log.count = IF Len(hist) < log.capacity THEN Len(hist) ELSE log.capacity
                        /\ \A k \in 0..log.count - 1 : hist[Len(hist) - k] \notin torn =>
                             \A f \in Fields : read_at(k)[f] = hist[Len(hist) - k]
      BY DEF HistoryKept
    <2>1. ~Appending /\ call.at # "count"
      BY StoresAre DEF Appending, Idle
    <2>2. /\ log.count = IF Len(hist) < log.capacity THEN Len(hist) ELSE log.capacity
          /\ \A k \in 0..log.count - 1 : Len(hist) - k \in torn \/ Whole(k)
      BY <2>1 DEF LogInv, OthersOK
    <2>3. ASSUME NEW k \in 0..log.count - 1 PROVE hist[Len(hist) - k] = Len(hist) - k
      <3>1. Len(hist) \in Nat /\ log.count \in Nat /\ log.capacity \in Nat
        BY LogFacts DEF LogInv, HistOK
      <3>2. Len(hist) - k \in 1..Len(hist)
        BY <2>2, <3>1
      <3> QED
        BY <3>2 DEF LogInv, HistOK
    <2> QED
      BY <2>2, <2>3 DEF read_at, Whole, Slot, SlotOf
  <1> QED
    BY <1>1, <1>2, <1>3, PTL DEF Spec
=============================================================================
