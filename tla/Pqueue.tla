-------------------------------- MODULE Pqueue --------------------------------
(***************************************************************************)
(* ds/pqueue: one circular FIFO for each priority level, 0 the highest.    *)
(* `pq` is struct tiku_kits_ds_pqueue; `waiting` is what each level holds  *)
(* according to the calls; `taken` is what the last dequeue gave and what  *)
(* it should have given.                                                   *)
(***************************************************************************)
EXTENDS Integers, FiniteSetsExt, Sequences

CONSTANTS Elem, MAX_LEVELS, MAX_PER_LEVEL
VARIABLES pq, waiting, taken
vars == <<pq, waiting, taken>>

Level(c) == [data |-> [i \in 0..MAX_PER_LEVEL - 1 |-> 0], head |-> 0, tail |-> 0, count |-> 0, capacity |-> c]
All == 0..MAX_LEVELS - 1
Levels == 0..pq.n_levels - 1
Fresh(n, c) == [n_levels |-> n, levels |-> [i \in All |-> Level(IF i < n THEN c ELSE 0)]]
Nothing == [i \in All |-> <<>>]

Init == /\ \E n \in 1..MAX_LEVELS, c \in 1..MAX_PER_LEVEL : pq = Fresh(n, c)
        /\ waiting = Nothing /\ taken = <<0, 0>>
init(n, c) ==
  /\ n \in 1..MAX_LEVELS /\ c \in 1..MAX_PER_LEVEL
  /\ pq' = Fresh(n, c) /\ waiting' = Nothing /\ taken' = <<0, 0>>

enqueue(v, p) ==
  LET l == pq.levels[p]
  IN /\ p < pq.n_levels /\ l.count < l.capacity
     /\ pq' = [pq EXCEPT !.levels[p] = [l EXCEPT !.data[l.tail] = v, !.tail = (@ + 1) % l.capacity, !.count = @ + 1]]
     /\ waiting' = [waiting EXCEPT ![p] = Append(@, v)] /\ UNCHANGED taken

\* The first level that is not empty.
Next_level == Min({i \in Levels : pq.levels[i].count > 0})
empty == \A i \in Levels : pq.levels[i].count = 0
peek == pq.levels[Next_level].data[pq.levels[Next_level].head]

dequeue ==
  LET p == Next_level
      l == pq.levels[p]
      w == Min({i \in All : waiting[i] # <<>>})
  IN /\ ~empty
     /\ pq' = [pq EXCEPT !.levels[p] = [l EXCEPT !.head = (@ + 1) % l.capacity, !.count = @ - 1]]
     /\ taken' = <<peek, Head(waiting[w])>>
     /\ waiting' = [waiting EXCEPT ![w] = Tail(@)]

clear ==
  /\ pq' = [pq EXCEPT !.levels = [i \in All |->
              IF i \in Levels THEN [@[i] EXCEPT !.head = 0, !.tail = 0, !.count = 0] ELSE @[i]]]
  /\ waiting' = Nothing /\ UNCHANGED taken

Next ==
  \/ \E n \in 0..MAX_LEVELS + 1, c \in 0..MAX_PER_LEVEL + 1 : init(n, c)
  \/ \E v \in Elem, p \in 0..MAX_LEVELS : enqueue(v, p)
  \/ dequeue \/ clear
Spec == Init /\ [][Next]_vars

(***************************************************************************)
(* Properties.                                                             *)
(***************************************************************************)
\* Dequeue gives the oldest element of the highest level in use, whatever mix
\* of levels and wraps came before; each level keeps its own order.
PriorityThenAge ==
  /\ taken[1] = taken[2]
  /\ \A p \in All : waiting[p] =
       [i \in 1..pq.levels[p].count |-> pq.levels[p].data[(pq.levels[p].head + i - 1) % pq.levels[p].capacity]]
=============================================================================
