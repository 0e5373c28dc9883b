------------------------------- MODULE Ringbuf -------------------------------
(***************************************************************************)
(* ds/ringbuf: a FIFO in a circular array.  `rb` is struct                 *)
(* tiku_kits_ds_ringbuf and `out` the result of the last call.  The FIFO   *)
(* of ds/queue has the same fields and the same statements.                *)
(***************************************************************************)
EXTENDS Naturals, Sequences, SequenceTheorems, TLAPS

CONSTANTS Elem, MAX_SIZE
VARIABLES rb, out

Returns(op, arg, rc, v) == out' = [op |-> op, arg |-> arg, rc |-> rc, value |-> v]

Fresh(c) == [data |-> [i \in 0..MAX_SIZE - 1 |-> 0], head |-> 0, tail |-> 0, count |-> 0, capacity |-> c]

init(c) ==
  IF c \in 1..MAX_SIZE THEN rb' = Fresh(c) /\ Returns("init", c, "ok", 0)
  ELSE UNCHANGED rb /\ Returns("init", c, "param", 0)

\* The mutant forgets that the indices turn at the capacity of this buffer.
push_wraps_at_max(v) ==
  IF rb.count >= rb.capacity THEN UNCHANGED rb /\ Returns("push_back", v, "full", 0)
  ELSE /\ rb' = [rb EXCEPT !.data[rb.tail] = v, !.tail = (@ + 1) % MAX_SIZE, !.count = @ + 1]
       /\ Returns("push_back", v, "ok", 0)
push(v) ==
  IF rb.count >= rb.capacity THEN UNCHANGED rb /\ Returns("push_back", v, "full", 0)
  ELSE /\ rb' = [rb EXCEPT !.data[rb.tail] = v, !.tail = (@ + 1) % rb.capacity, !.count = @ + 1]
       /\ Returns("push_back", v, "ok", 0)

pop ==
  IF rb.count = 0 THEN UNCHANGED rb /\ Returns("pop_front", 0, "empty", 0)
  ELSE /\ Returns("pop_front", 0, "ok", rb.data[rb.head])
       /\ rb' = [rb EXCEPT !.head = (@ + 1) % rb.capacity, !.count = @ - 1]

peek ==
  /\ UNCHANGED rb
  /\ IF rb.count = 0 THEN Returns("peek_front", 0, "empty", 0)
     ELSE Returns("peek_front", 0, "ok", rb.data[rb.head])

clear == rb' = [rb EXCEPT !.head = 0, !.tail = 0, !.count = 0] /\ Returns("clear", 0, "ok", 0)

Init == \E c \in 1..MAX_SIZE :
  rb = Fresh(c) /\ out = [op |-> "init", arg |-> c, rc |-> "ok", value |-> 0]
Next ==
  \/ \E c \in 0..MAX_SIZE + 1 : init(c)
  \/ \E v \in Elem : push(v)
  \/ pop \/ peek \/ clear
Spec == Init /\ [][Next]_<<rb, out>>

(***************************************************************************)
(* Properties.                                                             *)
(***************************************************************************)
\* The live slots, oldest first.
Contents == [i \in 1..rb.count |-> rb.data[(rb.head + i - 1) % rb.capacity]]
Abstract == INSTANCE BoundedSeq WITH q <- Contents, cap <- rb.capacity, MaxCap <- MAX_SIZE

\* Every call does to the live slots what it promises about the sequence, at
\* any position of head and tail, after any clear or change of capacity.
RingImplements == [][Abstract!Next]_<<rb, out>>

(***************************************************************************)
(* Proofs: the ring buffer implements BoundedSeq, for every MAX_SIZE,      *)
(* every capacity and every set of elements.                               *)
(***************************************************************************)
Values == Elem \cup {0}
Pos(i) == (rb.head + i - 1) % rb.capacity

(***************************************************************************)
(* Counting round a circle of c slots.                                     *)
(***************************************************************************)
\* What % does to an index that has not passed the end.
LEMMA ModBelow == ASSUME NEW c \in Nat \ {0}, NEW x \in 0..c - 1 PROVE x % c = x
  BY SMT
\* And to one that has passed it once.
LEMMA ModWrap == ASSUME NEW c \in Nat \ {0}, NEW x \in c..2 * c - 1 PROVE x % c = x - c
  BY SMT

\* The index that many steps from a slot, as a slot.
LEMMA Round ==
  ASSUME NEW c \in Nat \ {0}, NEW h \in 0..c - 1, NEW n \in 0..c
  PROVE  /\ (h + n) % c = IF h + n < c THEN h + n ELSE h + n - c
         /\ (h + n) % c \in 0..c - 1
  <1>1. CASE h + n < c
    BY <1>1, ModBelow, h + n \in 0..c - 1
  <1>2. CASE h + n >= c
    <2>1. h + n \in c..2 * c - 1
      BY <1>2
    <2>2. (h + n) % c = h + n - c
      BY <2>1, ModWrap
    <2> QED
      BY <1>2, <2>1, <2>2
  <1> QED
    BY <1>1, <1>2

(***************************************************************************)
(* The invariant: indices lie within the capacity, and tail is count slots *)
(* after head.                                                             *)
(***************************************************************************)
Rings == [data : [0..MAX_SIZE - 1 -> Values], head : Nat, tail : Nat, count : Nat, capacity : 1..MAX_SIZE]
RingType == rb \in Rings /\ rb.head < rb.capacity /\ rb.count <= rb.capacity
TailFollows == rb.tail = (rb.head + rb.count) % rb.capacity
RingInv == RingType /\ TailFollows

\* In a new or cleared buffer the tail is at the head.
LEMMA EmptyTail == ASSUME NEW c \in Nat \ {0} PROVE (0 + 0) % c = 0
  BY ModBelow

\* The record init() writes.
LEMMA FreshRing ==
  ASSUME MAX_SIZE \in Nat \ {0}, NEW c \in 1..MAX_SIZE
  PROVE  /\ Fresh(c) \in Rings /\ Fresh(c).head = 0 /\ Fresh(c).tail = 0 /\ Fresh(c).count = 0
         /\ Fresh(c).capacity = c
  BY DEF Fresh, Rings, Values

\* The numbers behind the invariant, free of records.
LEMMA InvFacts ==
  ASSUME RingInv
  PROVE  /\ rb.capacity \in Nat \ {0} /\ rb.head \in 0..rb.capacity - 1 /\ rb.count \in 0..rb.capacity
         /\ rb.tail \in 0..rb.capacity - 1
         /\ rb.tail = IF rb.head + rb.count < rb.capacity THEN rb.head + rb.count
                      ELSE rb.head + rb.count - rb.capacity
  <1>1. rb.capacity \in Nat \ {0} /\ rb.head \in 0..rb.capacity - 1 /\ rb.count \in 0..rb.capacity
    BY DEF RingInv, RingType, Rings
  <1> QED
    BY <1>1, Round DEF RingInv, TailFollows

\* Every call keeps the invariant.
LEMMA NextInv ==
  ASSUME MAX_SIZE \in Nat \ {0}, RingInv, [Next]_<<rb, out>>
  PROVE  RingInv'
  <1> DEFINE cap == rb.capacity
  <1>0. cap \in Nat \ {0} /\ rb.head \in 0..cap - 1 /\ rb.count \in 0..cap /\ rb.tail \in 0..cap - 1
    BY InvFacts
  <1>1. CASE UNCHANGED rb
    BY <1>1 DEF RingInv, RingType, TailFollows
  <1>2. ASSUME NEW c \in 0..MAX_SIZE + 1, init(c), ~UNCHANGED rb PROVE RingInv'
    <2>1. c \in 1..MAX_SIZE /\ rb' = Fresh(c)
      BY <1>2 DEF init
    <2>2. rb' \in Rings /\ rb'.head = 0 /\ rb'.tail = 0 /\ rb'.count = 0
      BY <2>1, FreshRing
    <2> QED
      BY <2>2, EmptyTail DEF RingInv, RingType, TailFollows, Rings
  <1>3. ASSUME NEW v \in Elem, push(v), ~UNCHANGED rb PROVE RingInv'
    <2>1. PICK t : t = (rb.tail + 1) % cap
      OBVIOUS
    <2>2. rb.count < cap /\ rb' = [rb EXCEPT !.data[rb.tail] = v, !.tail = t, !.count = @ + 1]
      BY <1>3, <1>0, <2>1 DEF push
    <2>3. t \in Nat /\ t = IF rb.tail + 1 < cap THEN rb.tail + 1 ELSE rb.tail + 1 - cap
      <3>1. 1 \in 0..cap
        BY <1>0
      <3>2. /\ (rb.tail + 1) % cap = IF rb.tail + 1 < cap THEN rb.tail + 1 ELSE rb.tail + 1 - cap
            /\ (rb.tail + 1) % cap \in 0..cap - 1
        BY <1>0, <3>1, Round
      <3>3. t \in 0..cap - 1
        BY <2>1, <3>2, Zenon
      <3> QED
        BY <1>0, <2>1, <3>2, <3>3
    <2>4. t = (rb.head + (rb.count + 1)) % cap
      <3>1. rb.count + 1 \in 0..cap
        BY <1>0, <2>2
      <3>2. (rb.head + (rb.count + 1)) % cap =
              IF rb.head + (rb.count + 1) < cap THEN rb.head + (rb.count + 1) ELSE rb.head + (rb.count + 1) - cap
        BY <1>0, <3>1, Round
      <3>3. rb.tail = IF rb.head + rb.count < cap THEN rb.head + rb.count ELSE rb.head + rb.count - cap
        BY InvFacts
      <3> QED
        BY <1>0, <2>2, <2>3, <3>2, <3>3
    <2>6. rb'.tail = t /\ rb'.head = rb.head /\ rb'.count = rb.count + 1 /\ rb'.capacity = cap
      BY <2>2 DEF RingInv, RingType, Rings
    <2>5. rb' \in Rings
      <3>1. rb \in Rings /\ rb.count + 1 \in Nat /\ v \in Values
        BY <1>0 DEF RingInv, RingType, Values
      <3> QED
        BY <2>2, <2>3, <3>1 DEF Rings
    <2>7. RingType'
      BY <1>0, <2>2, <2>5, <2>6 DEF RingType
    <2> QED
      BY <2>4, <2>6, <2>7 DEF RingInv, TailFollows
  <1>4. ASSUME pop, ~UNCHANGED rb PROVE RingInv'
    <2>1. PICK h : h = (rb.head + 1) % cap
      OBVIOUS
    <2>2. rb.count > 0 /\ rb' = [rb EXCEPT !.head = h, !.count = @ - 1]
      BY <1>4, <1>0, <2>1 DEF pop
    <2>3. h \in 0..cap - 1 /\ h = IF rb.head + 1 < cap THEN rb.head + 1 ELSE rb.head + 1 - cap
      BY <1>0, <2>1, 1 \in 0..cap, Round
    <2>4. rb.tail = (h + (rb.count - 1)) % cap
      <3>1. rb.count - 1 \in 0..cap
        BY <1>0, <2>2
      <3>2. (h + (rb.count - 1)) % cap = IF h + (rb.count - 1) < cap THEN h + (rb.count - 1)
           ELSE h + (rb.count - 1) - cap
        BY <1>0, <2>3, <3>1, Round
      <3>3. rb.tail = IF rb.head + rb.count < cap THEN rb.head + rb.count ELSE rb.head + rb.count - cap
        BY InvFacts
      <3>4. rb.tail = IF h + (rb.count - 1) < cap THEN h + (rb.count - 1) ELSE h + (rb.count - 1) - cap
        BY <1>0, <2>2, <2>3, <3>3
      <3> QED
        BY <3>2, <3>4, Zenon
    <2>6. rb'.tail = rb.tail /\ rb'.head = h /\ rb'.count = rb.count - 1 /\ rb'.capacity = cap
      BY <2>2 DEF RingInv, RingType, Rings
    <2>5. rb' \in Rings
      <3>1. rb \in Rings /\ rb.count - 1 \in Nat /\ h \in Nat
        BY <1>0, <2>2, <2>3 DEF RingInv, RingType
      <3> QED
        BY <2>2, <3>1 DEF Rings
    <2>7. RingType'
      BY <1>0, <2>2, <2>3, <2>5, <2>6 DEF RingType
    <2> QED
      BY <2>4, <2>6, <2>7 DEF RingInv, TailFollows
  <1>5. CASE clear
    <2>1. rb' \in Rings /\ rb'.head = 0 /\ rb'.tail = 0 /\ rb'.count = 0
      BY <1>5 DEF clear, RingInv, RingType, Rings
    <2> QED
      BY <2>1, EmptyTail DEF RingInv, RingType, TailFollows, Rings
  <1>6. CASE peek
    BY <1>6, <1>1 DEF peek
  <1> QED
    BY <1>1, <1>2, <1>3, <1>4, <1>5, <1>6 DEF Next

(***************************************************************************)
(* The sequence the buffer stands for.                                     *)
(***************************************************************************)
\* The slot of the i-th oldest element.
LEMMA PosFacts ==
  ASSUME RingInv, NEW i \in 1..rb.capacity
  PROVE  /\ Pos(i) = IF rb.head + i - 1 < rb.capacity THEN rb.head + i - 1 ELSE rb.head + i - 1 - rb.capacity
         /\ Pos(i) \in 0..rb.capacity - 1
  <1>1. rb.capacity \in Nat \ {0} /\ rb.head \in 0..rb.capacity - 1
    BY InvFacts
  <1>2. i - 1 \in 0..rb.capacity
    BY <1>1
  <1>3. /\ (rb.head + (i - 1)) % rb.capacity =
             IF rb.head + (i - 1) < rb.capacity THEN rb.head + (i - 1) ELSE rb.head + (i - 1) - rb.capacity
        /\ (rb.head + (i - 1)) % rb.capacity \in 0..rb.capacity - 1
    BY <1>1, <1>2, Round
  <1>4. rb.head + (i - 1) = rb.head + i - 1
    BY <1>1
  <1> QED
    BY <1>3, <1>4 DEF Pos

\* The live slots are a sequence of count values.
LEMMA ContentsFacts ==
  ASSUME MAX_SIZE \in Nat \ {0}, RingInv
  PROVE  /\ Contents \in Seq(Values) /\ Len(Contents) = rb.count /\ DOMAIN Contents = 1..rb.count
         /\ \A i \in 1..rb.count : Contents[i] = rb.data[Pos(i)]
  <1>1. Contents = [i \in 1..rb.count |-> rb.data[Pos(i)]]
    BY DEF Contents, Pos
  <1>2. rb.count \in Nat /\ rb.count <= rb.capacity /\ rb.capacity <= MAX_SIZE /\ rb.capacity \in Nat
        /\ rb.data \in [0..MAX_SIZE - 1 -> Values]
    BY DEF RingInv, RingType, Rings
  <1>3. \A i \in 1..rb.count : rb.data[Pos(i)] \in Values
    <2> SUFFICES ASSUME NEW i \in 1..rb.count PROVE rb.data[Pos(i)] \in Values
      OBVIOUS
    <2>1. Pos(i) \in 0..rb.capacity - 1
      BY <1>2, PosFacts
    <2>2. Pos(i) \in 0..MAX_SIZE - 1
      BY <1>2, <2>1
    <2> QED
      BY <1>2, <2>2
  <1> HIDE DEF Pos, Contents
  <1> QED
    BY <1>1, <1>2, <1>3

\* A call that changes neither the slots nor the indices leaves the sequence.
LEMMA SameContents == ASSUME UNCHANGED rb PROVE Contents' = Contents /\ rb'.capacity = rb.capacity
  BY DEF Contents

\* A function on 1..n is a sequence of length n, and is told by its elements.
LEMMA FunIsSeq == ASSUME NEW S, NEW n \in Nat, NEW f \in [1..n -> S] PROVE f \in Seq(S) /\ Len(f) = n
  OBVIOUS

\* Append, element by element.
LEMMA AppendIs ==
  ASSUME NEW S, NEW s \in Seq(S), NEW v \in S, NEW n \in Nat, n = Len(s)
  PROVE  Append(s, v) = [i \in 1..n + 1 |-> IF i = n + 1 THEN v ELSE s[i]]
  <1> DEFINE f == [i \in 1..n + 1 |-> IF i = n + 1 THEN v ELSE s[i]]
  <1>1. f \in [1..n + 1 -> S]
    BY ElementOfSeq
  <1>2. f \in Seq(S) /\ Len(f) = n + 1
    BY <1>1, FunIsSeq
  <1>3. Append(s, v) \in Seq(S) /\ Len(Append(s, v)) = n + 1
    OBVIOUS
  <1>4. \A i \in 1..n + 1 : Append(s, v)[i] = f[i]
    OBVIOUS
  <1> HIDE DEF f
  <1>5. Append(s, v) = f
    BY <1>2, <1>3, <1>4, SeqEqual
  <1> QED
    BY <1>5 DEF f

\* Tail drops the first and shifts the others.
LEMMA TailIs ==
  ASSUME NEW S, NEW s \in Seq(S), NEW n \in Nat, n + 1 = Len(s)
  PROVE  Tail(s) = [i \in 1..n |-> s[i + 1]]
  <1> DEFINE f == [i \in 1..n |-> s[i + 1]]
  <1>1. f \in [1..n -> S]
    BY ElementOfSeq
  <1>2. f \in Seq(S) /\ Len(f) = n
    BY <1>1, FunIsSeq
  <1>0. s # <<>>
    OBVIOUS
  <1>3. Tail(s) \in Seq(S) /\ Len(Tail(s)) = n /\ \A i \in 1..n : Tail(s)[i] = f[i]
    BY <1>0, HeadTailProperties
  <1> HIDE DEF f
  <1>5. Tail(s) = f
    BY <1>2, <1>3, SeqEqual
  <1> QED
    BY <1>5 DEF f

\* The oldest element is the one at the head.
LEMMA OldestFirst ==
  ASSUME MAX_SIZE \in Nat \ {0}, RingInv, rb.count # 0
  PROVE  Contents # <<>> /\ Head(Contents) = rb.data[rb.head]
  <1>0. rb.capacity \in Nat \ {0} /\ rb.head \in 0..rb.capacity - 1 /\ rb.count \in 1..rb.capacity
    BY InvFacts
  <1>1. Contents \in Seq(Values) /\ Len(Contents) = rb.count /\ Contents[1] = rb.data[Pos(1)]
    BY <1>0, ContentsFacts, 1 \in 1..rb.count
  <1>2. Pos(1) = rb.head
    BY <1>0, 1 \in 1..rb.capacity, PosFacts
  <1> QED
    BY <1>0, <1>1, <1>2

\* push appends to the sequence: the slot at tail is no live one, and comes last.
LEMMA PushStep ==
  ASSUME MAX_SIZE \in Nat \ {0}, RingInv, NEW v \in Elem, push(v)
  PROVE  Abstract!PushBack(v)
  <1> DEFINE cap == rb.capacity
             n == rb.count
  <1>0. cap \in Nat \ {0} /\ rb.head \in 0..cap - 1 /\ n \in 0..cap /\ rb.tail \in 0..cap - 1
    BY InvFacts
  <1>1. CASE n >= cap
    <2>1. UNCHANGED rb /\ Returns("push_back", v, "full", 0)
      BY <1>1 DEF push
    <2>2. ~(Len(Contents) < cap)
      BY <1>0, <1>1, ContentsFacts
    <2> QED
      BY <2>1, <2>2, SameContents DEF Abstract!PushBack, Abstract!Same, Abstract!Returns, Returns
  <1>2. CASE ~(n >= cap)
    <2>1. PICK t : t = (rb.tail + 1) % cap
      OBVIOUS
    <2>2. rb' = [rb EXCEPT !.data[rb.tail] = v, !.tail = t, !.count = @ + 1] /\ Returns("push_back", v, "ok", 0)
      BY <1>2, <2>1 DEF push
    <2>3. /\ rb'.head = rb.head /\ rb'.count = n + 1 /\ rb'.capacity = cap
          /\ rb'.data = [rb.data EXCEPT ![rb.tail] = v] /\ rb.data \in [0..MAX_SIZE - 1 -> Values]
          /\ cap \in 1..MAX_SIZE
      BY <2>2 DEF RingInv, RingType, Rings
    <2>4. Contents' = [i \in 1..n + 1 |-> [rb.data EXCEPT ![rb.tail] = v][Pos(i)]]
      BY <2>3 DEF Contents, Pos
    <2>5. Pos(n + 1) = rb.tail /\ rb.tail \in 0..MAX_SIZE - 1
      <3>1. n + 1 \in 1..cap
        BY <1>0, <1>2
      <3>2. Pos(n + 1) = IF rb.head + (n + 1) - 1 < cap THEN rb.head + (n + 1) - 1 ELSE rb.head + (n + 1) - 1 - cap
        BY <3>1, PosFacts
      <3>3. rb.tail = IF rb.head + n < cap THEN rb.head + n ELSE rb.head + n - cap
        BY InvFacts
      <3>4. rb.tail = IF rb.head + (n + 1) - 1 < cap THEN rb.head + (n + 1) - 1 ELSE rb.head + (n + 1) - 1 - cap
        BY <1>0, <3>3
      <3>5. rb.tail \in 0..MAX_SIZE - 1
        BY <1>0, <2>3
      <3>6. Pos(n + 1) = rb.tail
        BY <3>2, <3>4
      <3> QED
        BY <3>5, <3>6
    <2>6. \A i \in 1..n : Pos(i) # rb.tail
      <3> SUFFICES ASSUME NEW i \in 1..n PROVE Pos(i) # rb.tail
        OBVIOUS
      <3>1. Pos(i) = IF rb.head + i - 1 < cap THEN rb.head + i - 1 ELSE rb.head + i - 1 - cap
        BY <1>0, i \in 1..cap, PosFacts
      <3>2. rb.tail = IF rb.head + n < cap THEN rb.head + n ELSE rb.head + n - cap
        BY InvFacts
      <3> HIDE DEF Pos
      <3> QED
        BY <1>0, <1>2, <3>1, <3>2
    <2>7. Contents' = Append(Contents, v)
      <3>1. Contents \in Seq(Values) /\ Len(Contents) = n /\ \A i \in 1..n : Contents[i] = rb.data[Pos(i)]
        BY ContentsFacts
      <3>2. \A i \in 1..n : [rb.data EXCEPT ![rb.tail] = v][Pos(i)] = Contents[i]
        <4> SUFFICES ASSUME NEW i \in 1..n PROVE [rb.data EXCEPT ![rb.tail] = v][Pos(i)] = Contents[i]
          OBVIOUS
        <4>1. Pos(i) \in 0..cap - 1
          BY <1>0, i \in 1..cap, PosFacts
        <4>2. Pos(i) \in 0..MAX_SIZE - 1
          BY <1>0, <2>3, <4>1
        <4> HIDE DEF Pos
        <4> QED
          BY <2>3, <2>6, <3>1, <4>2
      <3>3. [rb.data EXCEPT ![rb.tail] = v][Pos(n + 1)] = v
        BY <2>3, <2>5
      <3>4. Append(Contents, v) = [i \in 1..n + 1 |-> IF i = n + 1 THEN v ELSE Contents[i]]
        BY <3>1, <1>0, v \in Values, AppendIs DEF Values
      <3> HIDE DEF Pos
      <3>5. \A i \in 1..n + 1 : [rb.data EXCEPT ![rb.tail] = v][Pos(i)] = IF i = n + 1 THEN v ELSE Contents[i]
        <4> SUFFICES ASSUME NEW i \in 1..n + 1
                     PROVE  [rb.data EXCEPT ![rb.tail] = v][Pos(i)] = IF i = n + 1 THEN v ELSE Contents[i]
          OBVIOUS
        <4>1. i = n + 1 \/ i \in 1..n
          BY <1>0
        <4>2. i \in 1..n => i # n + 1
          BY <1>0
        <4> QED
          BY <3>2, <3>3, <4>1, <4>2, Zenon
      <3> QED
        BY <2>4, <3>4, <3>5, Zenon
    <2>8. Len(Contents) < cap
      BY <1>0, <1>2, ContentsFacts
    <2> QED
      BY <2>2, <2>3, <2>7, <2>8 DEF Abstract!PushBack, Abstract!Became, Abstract!Returns, Returns
  <1> QED
    BY <1>1, <1>2

\* pop takes the first of the sequence: the others move up one place.
LEMMA PopStep ==
  ASSUME MAX_SIZE \in Nat \ {0}, RingInv, pop
  PROVE  Abstract!PopFront
  <1> DEFINE cap == rb.capacity
             n == rb.count
  <1>0. cap \in Nat \ {0} /\ rb.head \in 0..cap - 1 /\ n \in 0..cap
    BY InvFacts
  <1>C. Contents \in Seq(Values) /\ Len(Contents) = n /\ \A i \in 1..n : Contents[i] = rb.data[Pos(i)]
    BY ContentsFacts
  <1>1. CASE n = 0
    <2>1. UNCHANGED rb /\ Returns("pop_front", 0, "empty", 0)
      BY <1>1 DEF pop
    <2>2. Contents = <<>>
      BY <1>1, <1>C, EmptySeq
    <2> QED
      BY <2>1, <2>2, SameContents DEF Abstract!PopFront, Abstract!Same, Abstract!Returns, Returns
  <1>2. CASE n # 0
    <2>1. PICK h : h = (rb.head + 1) % cap
      OBVIOUS
    <2>2. rb' = [rb EXCEPT !.head = h, !.count = @ - 1] /\ Returns("pop_front", 0, "ok", rb.data[rb.head])
      BY <1>2, <2>1 DEF pop
    <2>3. PICK m \in Nat : n = m + 1
      BY <1>0, <1>2, n - 1 \in Nat
    <2>4. rb'.head = h /\ rb'.count = m /\ rb'.capacity = cap /\ rb'.data = rb.data
      BY <2>2, <2>3 DEF RingInv, RingType, Rings
    <2>5. h \in 0..cap - 1 /\ h = IF rb.head + 1 < cap THEN rb.head + 1 ELSE rb.head + 1 - cap
      BY <1>0, <2>1, 1 \in 0..cap, Round
    <2>6. \A i \in 1..m : (h + i - 1) % cap = Pos(i + 1)
      <3> SUFFICES ASSUME NEW i \in 1..m PROVE (h + i - 1) % cap = Pos(i + 1)
        OBVIOUS
      <3>1. i - 1 \in 0..cap /\ i + 1 \in 1..cap
        BY <1>0, <2>3
      <3>2. Pos(i + 1) = IF rb.head + (i + 1) - 1 < cap THEN rb.head + (i + 1) - 1 ELSE rb.head + (i + 1) - 1 - cap
        BY <3>1, PosFacts
      <3>3. (h + (i - 1)) % cap = IF h + (i - 1) < cap THEN h + (i - 1) ELSE h + (i - 1) - cap
        BY <1>0, <2>5, <3>1, Round
      <3>4. h + (i - 1) = h + i - 1
        BY <2>5
      <3>5. PICK x : x = (h + (i - 1)) % cap
        OBVIOUS
      <3>6. x = IF h + (i - 1) < cap THEN h + (i - 1) ELSE h + (i - 1) - cap
        BY <3>3, <3>5, Zenon
      <3>7. x = Pos(i + 1)
        BY <1>0, <2>3, <2>5, <3>2, <3>6
      <3> QED
        BY <3>4, <3>5, <3>7, Zenon
    <2>7. Contents' = Tail(Contents)
      <3>1. Contents' = [i \in 1..m |-> rb.data[(h + i - 1) % cap]]
        BY <2>4 DEF Contents
      <3>2. Tail(Contents) = [i \in 1..m |-> Contents[i + 1]]
        BY <1>C, <2>3, TailIs
      <3>3. \A i \in 1..m : rb.data[(h + i - 1) % cap] = Contents[i + 1]
        <4> SUFFICES ASSUME NEW i \in 1..m PROVE rb.data[(h + i - 1) % cap] = Contents[i + 1]
          OBVIOUS
        <4>1. i + 1 \in 1..n
          BY <2>3
        <4>2. Contents[i + 1] = rb.data[Pos(i + 1)]
          BY <4>1, <1>C, Zenon
        <4> QED
          BY <2>6, <4>2, Zenon
      <3> QED
        BY <3>1, <3>2, <3>3, Zenon
    <2>8. Contents # <<>> /\ Head(Contents) = rb.data[rb.head]
      BY <1>0, <1>2, OldestFirst
    <2> QED
      BY <2>2, <2>4, <2>7, <2>8 DEF Abstract!PopFront, Abstract!Became, Abstract!Returns, Returns
  <1> QED
    BY <1>1, <1>2

\* peek returns the first and leaves the sequence.
LEMMA PeekStep ==
  ASSUME MAX_SIZE \in Nat \ {0}, RingInv, peek
  PROVE  Abstract!PeekFront
  <1>0. rb.count \in Nat /\ UNCHANGED rb
    BY InvFacts DEF peek
  <1>1. CASE rb.count = 0
    <2>1. Contents = <<>>
      BY <1>1, ContentsFacts, EmptySeq
    <2> QED
      BY <1>0, <1>1, <2>1, SameContents DEF peek, Abstract!PeekFront, Abstract!Same, Abstract!Returns, Returns
  <1>2. CASE rb.count # 0
    BY <1>0, <1>2, OldestFirst, SameContents DEF peek, Abstract!PeekFront, Abstract!Same, Abstract!Returns, Returns
  <1> QED
    BY <1>1, <1>2

\* clear empties the sequence, wherever head was.
LEMMA ClearStep == ASSUME RingInv, clear PROVE Abstract!Clear
  <1>1. rb'.count = 0 /\ rb'.capacity = rb.capacity
    BY DEF clear, RingInv, RingType, Rings
  <1>2. Contents' = <<>>
    BY <1>1 DEF Contents
  <1> QED
    BY <1>1, <1>2 DEF clear, Abstract!Clear, Abstract!Became, Abstract!Returns, Returns

\* init empties the sequence and sets its capacity, or refuses.
LEMMA InitStep ==
  ASSUME MAX_SIZE \in Nat \ {0}, RingInv, NEW c \in 0..MAX_SIZE + 1, init(c)
  PROVE  Abstract!InitAgain(c)
  <1>1. CASE c \in 1..MAX_SIZE
    <2>1. rb' = Fresh(c) /\ Returns("init", c, "ok", 0)
      BY <1>1 DEF init
    <2>2. rb'.count = 0 /\ rb'.capacity = c
      BY <1>1, <2>1, FreshRing
    <2>3. Contents' = <<>>
      BY <2>2 DEF Contents
    <2> QED
      BY <1>1, <2>1, <2>2, <2>3 DEF Abstract!InitAgain, Abstract!Returns, Returns
  <1>2. CASE c \notin 1..MAX_SIZE
    BY <1>2, SameContents DEF init, Abstract!InitAgain, Abstract!Same, Abstract!Returns, Returns
  <1> QED
    BY <1>1, <1>2

\* Every call of ringbuf is one call of the bounded sequence: head and tail
\* never put an element out of order, lose one or return one twice.
THEOREM Implements ==
  ASSUME MAX_SIZE \in Nat \ {0}
  PROVE  Spec => RingImplements
  <1>1. Init => RingInv
    <2> SUFFICES ASSUME NEW c \in 1..MAX_SIZE, rb = Fresh(c) PROVE RingInv
      BY DEF Init
    <2> QED
      BY FreshRing, EmptyTail DEF RingInv, RingType, TailFollows, Rings
  <1>2. RingInv /\ [Next]_<<rb, out>> => RingInv'
    BY NextInv
  <1>3. RingInv /\ [Next]_<<rb, out>> => [Abstract!Next]_<<rb, out>>
    <2> SUFFICES ASSUME RingInv, Next PROVE Abstract!Next
      OBVIOUS
    <2>1. ASSUME NEW c \in 0..MAX_SIZE + 1, init(c) PROVE Abstract!Next
      BY <2>1, InitStep DEF Abstract!Next
    <2>2. ASSUME NEW v \in Elem, push(v) PROVE Abstract!Next
      BY <2>2, PushStep DEF Abstract!Next
    <2>3. CASE pop
      BY <2>3, PopStep DEF Abstract!Next
    <2>4. CASE peek
      BY <2>4, PeekStep DEF Abstract!Next
    <2>5. CASE clear
      BY <2>5, ClearStep DEF Abstract!Next
    <2> QED
      BY <2>1, <2>2, <2>3, <2>4, <2>5 DEF Next
  <1> QED
    BY <1>1, <1>2, <1>3, PTL DEF Spec, RingImplements
=============================================================================
