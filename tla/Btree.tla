-------------------------------- MODULE Btree --------------------------------
(***************************************************************************)
(* ds/btree: a B-tree in a static pool of nodes.  `bt` is struct           *)
(* tiku_kits_ds_btree: the nodes allocated so far and the root (0 for      *)
(* BTREE_NONE); a node's keys and children are sequences, whose lengths    *)
(* stand for n_keys.  `held` counts how often each key was inserted, `rc`  *)
(* is what the last insert returned.                                       *)
(***************************************************************************)
EXTENDS Integers, FiniteSets, SequencesExt, FiniteSetsExt

CONSTANTS ORDER, MAX_NODES, Keys
VARIABLES bt, held, rc
vars == <<bt, held, rc>>

MAX_KEYS == 2 * ORDER - 1
Leaf(keys) == [leaf |-> TRUE, keys |-> keys, children |-> <<>>]
Empty == [nodes |-> <<>>, root |-> 0]
Init == bt = Empty /\ held = [k \in Keys |-> 0] /\ rc = "ok"

\* alloc_node: the pool only grows.
NoRoom(b) == Len(b.nodes) >= MAX_NODES
IsFull(b, n) == Len(b.nodes[n].keys) = MAX_KEYS

\* Split the child at pos: the keys after the median move to a new node, the
\* median to the parent.
split_child(b, p, pos) ==
  LET c == b.nodes[p].children[pos]
      child == b.nodes[c]
      upper == [child EXCEPT !.keys = SubSeq(@, ORDER + 1, MAX_KEYS),
                             !.children = IF child.leaf THEN @ ELSE SubSeq(@, ORDER + 1, 2 * ORDER)]
      lower == [child EXCEPT !.keys = SubSeq(@, 1, ORDER - 1),
                             !.children = IF child.leaf THEN @ ELSE SubSeq(@, 1, ORDER)]
      parent == [b.nodes[p] EXCEPT !.keys = InsertAt(@, pos, child.keys[ORDER]),
                                   !.children = InsertAt(@, pos + 1, Len(b.nodes) + 1)]
  IN [b EXCEPT !.nodes = Append([@ EXCEPT ![p] = parent, ![c] = lower], upper)]

\* One past the last key that is not greater.
Place(keys, key) == Cardinality({i \in DOMAIN keys : keys[i] <= key}) + 1

Result(b, code) == [bt |-> b, rc |-> code]

\* Descend to a leaf, splitting the full nodes on the way.  A split that finds
\* no node ends the insert; the splits above it stay.
RECURSIVE insert_nonfull(_, _, _)
insert_nonfull(b, n, key) ==
  LET node == b.nodes[n]
      at == Place(node.keys, key)
      full == ~node.leaf /\ IsFull(b, node.children[at])
      split == split_child(b, n, at)
      side == IF key > split.nodes[n].keys[at] THEN at + 1 ELSE at
  IN CASE node.leaf -> Result([b EXCEPT !.nodes[n].keys = InsertAt(@, at, key)], "ok")
       [] full /\ NoRoom(b) -> Result(b, "full")
       [] full /\ ~NoRoom(b) -> insert_nonfull(split, split.nodes[n].children[side], key)
       [] OTHER -> insert_nonfull(b, node.children[at], key)

\* A full root gets a parent first: the tree grows at the top.  When the pool
\* then has no node for the other half, the empty parent stays.
Raise(b) == [nodes |-> Append(b.nodes, [leaf |-> FALSE, keys |-> <<>>, children |-> <<b.root>>]),
             root |-> Len(b.nodes) + 1]
InsertInto(b, key) ==
  LET raised == Raise(b)
  IN CASE b.root = 0 -> Result([nodes |-> <<Leaf(<<key>>)>>, root |-> 1], "ok")
       [] b.root # 0 /\ ~IsFull(b, b.root) -> insert_nonfull(b, b.root, key)
       [] OTHER -> IF NoRoom(b) THEN Result(b, "full")
                   ELSE IF NoRoom(raised) THEN Result(raised, "full")
                   ELSE insert_nonfull(split_child(raised, raised.root, 1), raised.root, key)

insert(key) ==
  LET r == InsertInto(bt, key)
  IN /\ bt' = r.bt /\ rc' = r.rc
     /\ held' = IF r.rc = "ok" THEN [held EXCEPT ![key] = @ + 1] ELSE held
clear == bt' = Empty /\ held' = [k \in Keys |-> 0] /\ rc' = "ok"

Next == (\E k \in Keys : insert(k)) \/ clear
Spec == Init /\ [][Next]_vars

(***************************************************************************)
(* Queries.                                                                *)
(***************************************************************************)
RECURSIVE search_node(_, _)
search_node(n, key) ==
  LET node == bt.nodes[n]
      i == Cardinality({j \in DOMAIN node.keys : node.keys[j] < key}) + 1
  IN \/ i \in DOMAIN node.keys /\ node.keys[i] = key
     \/ ~node.leaf /\ search_node(node.children[i], key)
search(key) == bt.root # 0 /\ search_node(bt.root, key)

RECURSIVE height_node(_)
height_node(n) == IF bt.nodes[n].leaf THEN 1 ELSE 1 + height_node(bt.nodes[n].children[1])

RECURSIVE count_node(_)
count_node(n) ==
  LET node == bt.nodes[n]
  IN Len(node.keys) + FoldLeft(LAMBDA sum, c : sum + count_node(c), 0, node.children)

RECURSIVE min_node(_)
min_node(n) == IF bt.nodes[n].leaf THEN bt.nodes[n].keys[1] ELSE min_node(bt.nodes[n].children[1])
RECURSIVE max_node(_)
max_node(n) ==
  LET node == bt.nodes[n]
  IN IF node.leaf THEN node.keys[Len(node.keys)] ELSE max_node(node.children[Len(node.keys) + 1])

(***************************************************************************)
(* Properties.                                                             *)
(***************************************************************************)
\* The keys from left to right, and the depths of the leaves.
RECURSIVE InOrder(_)
InOrder(n) ==
  LET node == bt.nodes[n]
  IN IF node.leaf THEN node.keys
     ELSE FoldLeft(LAMBDA s, i : s \o <<node.keys[i]>> \o InOrder(node.children[i + 1]),
                   InOrder(node.children[1]), [i \in 1..Len(node.keys) |-> i])
RECURSIVE Depths(_)
Depths(n) ==
  IF bt.nodes[n].leaf THEN {1} ELSE {1 + d : d \in UNION {Depths(c) : c \in Range(bt.nodes[n].children)}}

\* No insert loses, doubles or misplaces a key, one that fails half-way through
\* its splits for want of nodes either: the tree is sorted, holds exactly the
\* keys inserted, keeps its leaves level, and every query answers for that set.
KeysAreKept ==
  LET all == InOrder(bt.root)
  IN bt.root # 0 =>
       /\ \A i \in 1..Len(all) - 1 : all[i] <= all[i + 1]
       /\ \A k \in Keys : Cardinality({i \in DOMAIN all : all[i] = k}) = held[k]
       /\ \A k \in Keys : search(k) <=> held[k] > 0
       /\ count_node(bt.root) = Len(all)
       /\ min_node(bt.root) = all[1] /\ max_node(bt.root) = all[Len(all)]
       /\ Depths(bt.root) = {height_node(bt.root)}
=============================================================================
