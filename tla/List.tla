--------------------------------- MODULE List ---------------------------------
(***************************************************************************)
(* ds/list: a singly linked list whose nodes live in a static pool, the    *)
(* unused ones on a free chain.  `list` is struct tiku_kits_ds_list;       *)
(* `order` is the list the calls describe, as pool indices with values.    *)
(* Callers hold pool indices, and may hold them for too long.              *)
(***************************************************************************)
EXTENDS Integers, FiniteSets, FiniteSetsExt, SequencesExt

CONSTANTS Elem, MAX_NODES
VARIABLES list, order
vars == <<list, order>>

NONE == 255
Nodes == 0..list.capacity - 1
Fresh(c) ==
  [pool |-> [i \in 0..MAX_NODES - 1 |->
               [data |-> 0, next |-> IF i < c - 1 THEN i + 1 ELSE IF i = c - 1 THEN NONE ELSE 0]],
   head |-> NONE, free |-> 0, count |-> 0, capacity |-> c]
Init == \E c \in 1..MAX_NODES : list = Fresh(c) /\ order = <<>>

(***************************************************************************)
(* Walking: the node reached after n links, and the nodes on a chain.      *)
(***************************************************************************)
Walk(from) ==
  LET step[n \in 0..MAX_NODES] ==
        IF n = 0 THEN from ELSE IF step[n - 1] = NONE THEN NONE ELSE list.pool[step[n - 1]].next
  IN step
Chain(from) == {Walk(from)[n] : n \in 0..MAX_NODES} \ {NONE}
Active == Chain(list.head)

is_active_node(i) == i < list.capacity /\ i \in Active

\* pool_alloc takes the first free node, pool_free puts a node in front.
Full == list.free = NONE
Alloc == [list EXCEPT !.free = list.pool[list.free].next, !.count = @ + 1]
pool_free(l, i) == [l EXCEPT !.pool[i] = [data |-> 0, next |-> l.free], !.free = i, !.count = @ - 1]
Cell(v) == [node |-> list.free, value |-> v]

push_front(v) ==
  /\ ~Full
  /\ list' = [Alloc EXCEPT !.pool[list.free] = [data |-> v, next |-> list.head], !.head = list.free]
  /\ order' = <<Cell(v)>> \o order

push_back(v) ==
  LET new == [Alloc EXCEPT !.pool[list.free] = [data |-> v, next |-> NONE]]
      last == CHOOSE i \in Active : list.pool[i].next = NONE
  IN /\ ~Full
     /\ list' = IF list.head = NONE THEN [new EXCEPT !.head = list.free]
                ELSE [new EXCEPT !.pool[last].next = list.free]
     /\ order' = Append(order, Cell(v))

\* Any index may be passed, that of a node freed since too.
insert_after(i, v) ==
  /\ is_active_node(i) /\ ~Full
  /\ list' = [Alloc EXCEPT !.pool[list.free] = [data |-> v, next |-> list.pool[i].next], !.pool[i].next = list.free]
  /\ order' = LET at == SelectInSeq(order, LAMBDA c : c.node = i) IN InsertAt(order, at + 1, Cell(v))

pop_front ==
  /\ list.head # NONE
  /\ list' = pool_free([list EXCEPT !.head = list.pool[list.head].next], list.head)
  /\ order' = Tail(order)

remove(i) ==
  /\ list.head # NONE /\ i < list.capacity
  /\ \/ /\ list.head = i
        /\ list' = pool_free([list EXCEPT !.head = list.pool[i].next], i)
     \/ /\ list.head # i
        /\ \E p \in Active :
             /\ list.pool[p].next = i
             /\ list' = pool_free([list EXCEPT !.pool[p].next = list.pool[i].next], i)
  /\ order' = SelectSeq(order, LAMBDA c : c.node # i)

clear == list' = Fresh(list.capacity) /\ order' = <<>>

\* find: the first node of the chain with the value; next: its successor.
find(v) ==
  LET hits == {n \in 0..MAX_NODES : Walk(list.head)[n] # NONE /\ list.pool[Walk(list.head)[n]].data = v}
  IN IF hits = {} THEN NONE ELSE Walk(list.head)[Min(hits)]
next(i) == IF is_active_node(i) THEN list.pool[i].next ELSE NONE

Next ==
  \/ \E v \in Elem : push_front(v) \/ push_back(v) \/ \E i \in 0..MAX_NODES : insert_after(i, v)
  \/ pop_front \/ clear
  \/ \E i \in 0..MAX_NODES : remove(i)
Spec == Init /\ [][Next]_vars

(***************************************************************************)
(* Properties.                                                             *)
(***************************************************************************)
\* The caller's walk (head, next, next ...) visits the list in order, find gives
\* the first node with a value, and every node is on exactly one of the two
\* chains, so that no call, with a stale index either, loses or shares one.
ChainsAreSound ==
  /\ \A n \in DOMAIN order : Walk(list.head)[n - 1] = order[n].node /\ list.pool[order[n].node].data = order[n].value
  /\ \A n \in DOMAIN order : next(order[n].node) = IF n = Len(order) THEN NONE ELSE order[n + 1].node
  /\ \A v \in Elem : LET at == SelectInSeq(order, LAMBDA c : c.value = v)
                     IN find(v) = IF at = 0 THEN NONE ELSE order[at].node
  /\ list.count = Len(order) /\ Cardinality(Active) = Len(order)
  /\ Active \cap Chain(list.free) = {} /\ Active \cup Chain(list.free) = Nodes
=============================================================================
