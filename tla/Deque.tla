-------------------------------- MODULE Deque --------------------------------
(***************************************************************************)
(* ds/deque: a circular array used from both ends.  `dq` is struct         *)
(* tiku_kits_ds_deque; the back is computed from head and count.           *)
(***************************************************************************)
EXTENDS Integers, Sequences

CONSTANTS Elem, MAX_SIZE
VARIABLES dq, out

Returns(op, arg, rc, v) == out' = [op |-> op, arg |-> arg, rc |-> rc, value |-> v]
Refuses(op, arg, rc) == UNCHANGED dq /\ Returns(op, arg, rc, 0)

Fresh(c) == [data |-> [i \in 0..MAX_SIZE - 1 |-> 0], head |-> 0, count |-> 0, capacity |-> c]

init(c) ==
  IF c \in 1..MAX_SIZE THEN dq' = Fresh(c) /\ Returns("init", c, "ok", 0)
  ELSE Refuses("init", c, "param")

\* Physical slot of the i-th element from the front.
Slot(i) == (dq.head + i) % dq.capacity
Back == (dq.head + dq.count - 1) % dq.capacity

push_front(v) ==
  LET h == (dq.head - 1 + dq.capacity) % dq.capacity
  IN IF dq.count >= dq.capacity THEN Refuses("push_front", v, "full")
     ELSE /\ dq' = [dq EXCEPT !.head = h, !.data[h] = v, !.count = @ + 1]
          /\ Returns("push_front", v, "ok", 0)

push_back(v) ==
  IF dq.count >= dq.capacity THEN Refuses("push_back", v, "full")
  ELSE /\ dq' = [dq EXCEPT !.data[Slot(dq.count)] = v, !.count = @ + 1]
       /\ Returns("push_back", v, "ok", 0)

pop_front ==
  IF dq.count = 0 THEN Refuses("pop_front", 0, "empty")
  ELSE /\ Returns("pop_front", 0, "ok", dq.data[dq.head])
       /\ dq' = [dq EXCEPT !.head = Slot(1), !.count = @ - 1]

pop_back ==
  IF dq.count = 0 THEN Refuses("pop_back", 0, "empty")
  ELSE /\ Returns("pop_back", 0, "ok", dq.data[Back])
       /\ dq' = [dq EXCEPT !.count = @ - 1]

peek_front ==
  IF dq.count = 0 THEN Refuses("peek_front", 0, "empty")
  ELSE UNCHANGED dq /\ Returns("peek_front", 0, "ok", dq.data[dq.head])
peek_back ==
  IF dq.count = 0 THEN Refuses("peek_back", 0, "empty")
  ELSE UNCHANGED dq /\ Returns("peek_back", 0, "ok", dq.data[Back])
get(i) ==
  IF i >= dq.count THEN Refuses("get", i, "bounds")
  ELSE UNCHANGED dq /\ Returns("get", i, "ok", dq.data[Slot(i)])
clear == dq' = [dq EXCEPT !.head = 0, !.count = 0] /\ Returns("clear", 0, "ok", 0)

Init == \E c \in 1..MAX_SIZE :
  dq = Fresh(c) /\ out = [op |-> "init", arg |-> c, rc |-> "ok", value |-> 0]
Next ==
  \/ \E c \in 0..MAX_SIZE + 1 : init(c)
  \/ \E v \in Elem : push_front(v) \/ push_back(v)
  \/ pop_front \/ pop_back \/ peek_front \/ peek_back \/ clear
  \/ \E i \in 0..MAX_SIZE : get(i)
Spec == Init /\ [][Next]_<<dq, out>>

(***************************************************************************)
(* Properties.                                                             *)
(***************************************************************************)
Contents == [i \in 1..dq.count |-> dq.data[Slot(i - 1)]]
Abstract == INSTANCE BoundedSeq WITH q <- Contents, cap <- dq.capacity, MaxCap <- MAX_SIZE

=============================================================================
