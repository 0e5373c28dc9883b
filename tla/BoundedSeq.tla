----------------------------- MODULE BoundedSeq -----------------------------
(***************************************************************************)
(* What the sequential containers of ds/ promise: a sequence of at most    *)
(* `cap` values that grows and shrinks at its ends.  A call that cannot be *)
(* served changes nothing and says why.  `out` is the last call, its       *)
(* argument and what it returned.                                          *)
(***************************************************************************)
EXTENDS Naturals, Sequences

CONSTANTS Elem, MaxCap
VARIABLES q, cap, out

Returns(op, arg, rc, v) == out' = [op |-> op, arg |-> arg, rc |-> rc, value |-> v]
Same == UNCHANGED <<q, cap>>
Became(s) == q' = s /\ UNCHANGED cap

Init == q = <<>> /\ cap \in 1..MaxCap /\ out = [op |-> "init", arg |-> cap, rc |-> "ok", value |-> 0]

InitAgain(c) ==
  IF c \in 1..MaxCap
  THEN q' = <<>> /\ cap' = c /\ Returns("init", c, "ok", 0)
  ELSE Same /\ Returns("init", c, "param", 0)
PushBack(v) ==
  IF Len(q) < cap THEN Became(Append(q, v)) /\ Returns("push_back", v, "ok", 0)
  ELSE Same /\ Returns("push_back", v, "full", 0)
PushFront(v) ==
  IF Len(q) < cap THEN Became(<<v>> \o q) /\ Returns("push_front", v, "ok", 0)
  ELSE Same /\ Returns("push_front", v, "full", 0)
PopFront ==
  IF q # <<>> THEN Became(Tail(q)) /\ Returns("pop_front", 0, "ok", Head(q))
  ELSE Same /\ Returns("pop_front", 0, "empty", 0)
PopBack ==
  IF q # <<>> THEN Became(SubSeq(q, 1, Len(q) - 1)) /\ Returns("pop_back", 0, "ok", q[Len(q)])
  ELSE Same /\ Returns("pop_back", 0, "empty", 0)
PeekFront ==
  Same /\ IF q # <<>> THEN Returns("peek_front", 0, "ok", Head(q)) ELSE Returns("peek_front", 0, "empty", 0)
PeekBack ==
  Same /\ IF q # <<>> THEN Returns("peek_back", 0, "ok", q[Len(q)]) ELSE Returns("peek_back", 0, "empty", 0)
Get(i) ==
  Same /\ IF i < Len(q) THEN Returns("get", i, "ok", q[i + 1]) ELSE Returns("get", i, "bounds", 0)
Clear == Became(<<>>) /\ Returns("clear", 0, "ok", 0)

Next ==
  \/ \E c \in 0..MaxCap + 1 : InitAgain(c)
  \/ \E v \in Elem : PushBack(v) \/ PushFront(v)
  \/ \E i \in 0..MaxCap : Get(i)
  \/ PopFront \/ PopBack \/ PeekFront \/ PeekBack \/ Clear

Spec == Init /\ [][Next]_<<q, cap, out>>
=============================================================================
