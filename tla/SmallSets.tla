------------------------------ MODULE SmallSets ------------------------------
(***************************************************************************)
(* The containers of ds/ without links or rings: array, stack, sortarray,  *)
(* bitmap, bloom, trie and sm.  A behaviour uses one of them: `box` is its *)
(* C struct, stale slots included, `ref` the sequence, set or map the      *)
(* calls describe, and `rc` what the last call returned.                   *)
(***************************************************************************)
EXTENDS Integers, Sequences, FiniteSets, SequencesExt, FiniteSetsExt

CONSTANTS Elem, MAX_SIZE,      \* values and slots of array, stack and sortarray
          WORD, MAX_BITS,      \* bits in a word (32 in the code) and in a bitmap
          Keys, HASHES,        \* keys of a Bloom filter and its hash functions
          Paths, MAX_NODES,    \* keys of a trie, as their nibbles, and its nodes
          STATES, EVENTS       \* size of a state machine
VARIABLES box, ref, rc
vars == <<box, ref, rc>>

Slots == 0..MAX_SIZE - 1
Returns(code) == rc' = code
Keep(code) == UNCHANGED <<box, ref>> /\ Returns(code)

(***************************************************************************)
(* array: live elements below size; what is behind them stays as it was.   *)
(***************************************************************************)
Blank(c) == [data |-> [i \in Slots |-> 0], size |-> 0, capacity |-> c]
SeqInit == (\E c \in 1..MAX_SIZE : box = Blank(c)) /\ ref = <<>> /\ rc = "ok"
Live(b) == [i \in 1..b.size |-> b.data[i - 1]]

\* The loops that make room at `at` and that close the gap there.
Opened(b, at, v) ==
  [b EXCEPT !.data = [i \in Slots |-> IF i = at THEN v ELSE IF i > at /\ i <= b.size THEN b.data[i - 1] ELSE b.data[i]],
            !.size = @ + 1]
ClosedUp(b, at) ==
  [b EXCEPT !.data = [i \in Slots |-> IF i >= at /\ i < b.size - 1 THEN b.data[i + 1] ELSE b.data[i]],
            !.size = @ - 1]

array_set(at, v) ==
  IF at >= box.size THEN Keep("bounds")
  ELSE box' = [box EXCEPT !.data[at] = v] /\ ref' = [ref EXCEPT ![at + 1] = v] /\ Returns("ok")
array_push_back(v) ==
  IF box.size >= box.capacity THEN Keep("full")
  ELSE box' = [box EXCEPT !.data[box.size] = v, !.size = @ + 1] /\ ref' = Append(ref, v) /\ Returns("ok")
array_pop_back ==
  IF box.size = 0 THEN Keep("empty")
  ELSE box' = [box EXCEPT !.size = @ - 1] /\ ref' = Front(ref) /\ Returns(box.data[box.size - 1])
array_insert(at, v) ==
  IF at > box.size THEN Keep("bounds")
  ELSE IF box.size >= box.capacity THEN Keep("full")
  ELSE box' = Opened(box, at, v) /\ ref' = InsertAt(ref, at + 1, v) /\ Returns("ok")
array_remove(at) ==
  IF at >= box.size THEN Keep("bounds")
  ELSE box' = ClosedUp(box, at) /\ ref' = RemoveAt(ref, at + 1) /\ Returns("ok")
\* fill makes every slot up to the capacity live.
array_fill(v) ==
  /\ box' = [box EXCEPT !.data = [i \in Slots |-> IF i < box.capacity THEN v ELSE @[i]], !.size = box.capacity]
  /\ ref' = [i \in 1..box.capacity |-> v] /\ Returns("ok")
array_clear == box' = [box EXCEPT !.size = 0] /\ ref' = <<>> /\ Returns("ok")
array_find(v) ==
  LET at == {i \in 0..box.size - 1 : box.data[i] = v} IN IF at = {} THEN "notfound" ELSE Min(at)

ArrayNext ==
  \/ \E at \in 0..MAX_SIZE, v \in Elem : array_set(at, v) \/ array_insert(at, v)
  \/ \E v \in Elem : array_push_back(v) \/ array_fill(v)
  \/ \E at \in 0..MAX_SIZE : array_remove(at)
  \/ array_pop_back \/ array_clear

(***************************************************************************)
(* stack: top is the number of elements.                                   *)
(***************************************************************************)
stack_push(v) ==
  IF box.size >= box.capacity THEN Keep("full")
  ELSE box' = [box EXCEPT !.data[box.size] = v, !.size = @ + 1] /\ ref' = Append(ref, v) /\ Returns("ok")
stack_pop ==
  IF box.size = 0 THEN Keep("empty")
  ELSE box' = [box EXCEPT !.size = @ - 1] /\ ref' = Front(ref) /\ Returns(box.data[box.size - 1])
stack_peek == IF box.size = 0 THEN "empty" ELSE box.data[box.size - 1]
stack_clear == box' = [box EXCEPT !.size = 0] /\ ref' = <<>> /\ Returns("ok")
StackNext == (\E v \in Elem : stack_push(v)) \/ stack_pop \/ stack_clear

(***************************************************************************)
(* sortarray.                                                              *)
(***************************************************************************)
\* Halve lo..hi until an equal element is met, then walk down to the first.
RECURSIVE Halve(_, _, _, _)
Halve(b, v, lo, hi) ==
  LET mid == lo + (hi - lo) \div 2
  IN IF lo >= hi THEN [at |-> lo, found |-> FALSE]
     ELSE IF b.data[mid] < v THEN Halve(b, v, mid + 1, hi)
     ELSE IF b.data[mid] > v THEN Halve(b, v, lo, mid)
     ELSE [at |-> Min({i \in 0..mid : \A j \in i..mid : b.data[j] = v}), found |-> TRUE]
binary_search(b, v) == Halve(b, v, 0, b.size)

\* A value goes behind its equals.
Behind(b, v) ==
  LET s == binary_search(b, v)
  IN IF s.found THEN Min({i \in s.at..b.size : i = b.size \/ b.data[i] # v}) ELSE s.at
sortarray_insert(v) ==
  IF box.size >= box.capacity THEN Keep("full")
  ELSE box' = Opened(box, Behind(box, v), v) /\ ref' = SortSeq(Append(ref, v), <) /\ Returns("ok")
sortarray_remove(v) ==
  LET s == binary_search(box, v)
  IN IF box.size = 0 \/ ~s.found THEN Keep("notfound")
     ELSE box' = ClosedUp(box, s.at) /\ ref' = RemoveAt(ref, SelectInSeq(ref, LAMBDA x : x = v)) /\ Returns("ok")
sortarray_find(v) == LET s == binary_search(box, v) IN IF s.found THEN s.at ELSE "notfound"
sortarray_ends == IF box.size = 0 THEN "empty" ELSE <<box.data[0], box.data[box.size - 1]>>
sortarray_clear == box' = [box EXCEPT !.size = 0] /\ ref' = <<>> /\ Returns("ok")
SortNext == (\E v \in Elem : sortarray_insert(v) \/ sortarray_remove(v)) \/ sortarray_clear

(***************************************************************************)
(* bitmap: the words hold more bits than n_bits.                           *)
(***************************************************************************)
Words == 0..(MAX_BITS \div WORD) - 1
Zero == [w \in Words |-> {}]
BitInit == (\E n \in 1..MAX_BITS : box = [words |-> Zero, n_bits |-> n]) /\ ref = {} /\ rc = "ok"
InUse == 0..((box.n_bits + WORD - 1) \div WORD) - 1
OnBit(bit, Op(_, _), result) ==
  IF bit >= box.n_bits THEN Keep("bounds")
  ELSE box' = [box EXCEPT !.words[bit \div WORD] = Op(@, {bit % WORD})] /\ ref' = result /\ Returns("ok")
bitmap_set(bit) == OnBit(bit, LAMBDA w, b : w \union b, ref \union {bit})
bitmap_clear_bit(bit) == OnBit(bit, LAMBDA w, b : w \ b, ref \ {bit})
bitmap_toggle(bit) == OnBit(bit, SymDiff, SymDiff(ref, {bit}))
bitmap_test(bit) == IF bit >= box.n_bits THEN "bounds" ELSE bit % WORD \in box.words[bit \div WORD]
bitmap_set_all ==
  LET full == box.n_bits \div WORD
      last == IF box.n_bits % WORD > 0 THEN {full} ELSE {}
  IN /\ box' = [box EXCEPT !.words = [w \in Words |-> IF w < full THEN 0..WORD - 1
                                                      ELSE IF w \in last THEN 0..(box.n_bits % WORD) - 1 ELSE @[w]]]
     /\ ref' = 0..box.n_bits - 1 /\ Returns("ok")
bitmap_clear_all ==
  box' = [box EXCEPT !.words = [w \in Words |-> IF w \in InUse THEN {} ELSE @[w]]] /\ ref' = {} /\ Returns("ok")
bitmap_count_set == FoldSet(LAMBDA w, n : n + Cardinality(box.words[w]), 0, InUse)
bitmap_count_clear == box.n_bits - bitmap_count_set
\* Only the first bit of each word is looked at, and it may lie beyond n_bits.
FirstIn(Of(_)) ==
  LET firsts == {w * WORD + Min(Of(w)) : w \in {w \in InUse : Of(w) # {}}}
      inside == {b \in firsts : b < box.n_bits}
  IN IF inside = {} THEN "notfound" ELSE Min(inside)
bitmap_find_first_set == FirstIn(LAMBDA w : box.words[w])
bitmap_find_first_clear == FirstIn(LAMBDA w : (0..WORD - 1) \ box.words[w])
BitNext ==
  \/ \E bit \in 0..MAX_BITS : bitmap_set(bit) \/ bitmap_clear_bit(bit) \/ bitmap_toggle(bit)
  \/ bitmap_set_all \/ bitmap_clear_all

(***************************************************************************)
(* bloom: the hash of a key is any function into the bits in use.          *)
(***************************************************************************)
BloomInit ==
  /\ \E n \in 1..MAX_BITS, k \in 1..HASHES :
       \E pos \in [Keys \X (0..k - 1) -> 0..n - 1] :
         box = [num_bits |-> n, num_hashes |-> k, bits |-> {}, count |-> 0, pos |-> pos]
  /\ ref = {} /\ rc = "ok"
bloom_bit_pos(key) == {box.pos[key, i] : i \in 0..box.num_hashes - 1}
bloom_add(key) ==
  /\ box.count < 3      \* bound on the exploration
  /\ box' = [box EXCEPT !.bits = @ \union bloom_bit_pos(key), !.count = @ + 1]
  /\ ref' = ref \union {key} /\ Returns("ok")
bloom_check(key) == bloom_bit_pos(key) \subseteq box.bits
bloom_clear == box' = [box EXCEPT !.bits = {}, !.count = 0] /\ ref' = {} /\ Returns("ok")
BloomNext == (\E key \in Keys : bloom_add(key)) \/ bloom_clear

(***************************************************************************)
(* trie: two nodes for a byte of the key; nodes are never given back.      *)
(***************************************************************************)
NONE == 0
Node == [children |-> <<>>, terminal |-> FALSE, value |-> 0]
Rooted == [nodes |-> <<Node>>, num_keys |-> 0]
TrieInit == box = Rooted /\ ref = [p \in Paths |-> NONE] /\ rc = "ok"
Child(b, n, x) == IF x \in DOMAIN b.nodes[n].children THEN b.nodes[n].children[x] ELSE NONE

\* Follow the path from node n, as far as there are nodes.
RECURSIVE Descend(_, _, _)
Descend(b, n, p) == IF n = NONE \/ p = <<>> THEN n ELSE Descend(b, Child(b, n, Head(p)), Tail(p))
At(p) == Descend(box, 1, p)

\* The same, with a new node wherever one is missing, until the pool is empty.
RECURSIVE Grow(_, _, _)
Grow(b, n, p) ==
  IF p = <<>> THEN [b |-> b, at |-> n]
  ELSE LET x == Head(p)
           child == Child(b, n, x)
           fresh == Len(b.nodes) + 1
           grown == [b EXCEPT !.nodes = Append([@ EXCEPT ![n].children = (x :> fresh) @@ @], Node)]
       IN IF child # NONE THEN Grow(b, child, Tail(p))
          ELSE IF Len(b.nodes) >= MAX_NODES THEN [b |-> b, at |-> NONE]
          ELSE Grow(grown, fresh, Tail(p))

trie_insert(p, v) ==
  LET g == Grow(box, 1, p)
      more == IF g.at # NONE /\ ~g.b.nodes[g.at].terminal THEN 1 ELSE 0
  IN IF g.at = NONE THEN box' = g.b /\ Returns("full") /\ UNCHANGED ref
     ELSE /\ box' = [g.b EXCEPT !.nodes[g.at].terminal = TRUE, !.nodes[g.at].value = v, !.num_keys = @ + more]
          /\ ref' = [ref EXCEPT ![p] = v] /\ Returns("ok")
trie_search(p) == IF At(p) = NONE \/ ~box.nodes[At(p)].terminal THEN NONE ELSE box.nodes[At(p)].value
trie_contains(p) == At(p) # NONE /\ box.nodes[At(p)].terminal
trie_remove(p) ==
  IF At(p) = NONE \/ ~box.nodes[At(p)].terminal THEN Keep("notfound")
  ELSE /\ box' = [box EXCEPT !.nodes[At(p)].terminal = FALSE, !.num_keys = @ - 1]
       /\ ref' = [ref EXCEPT ![p] = NONE] /\ Returns("ok")
trie_clear == box' = Rooted /\ ref' = [p \in Paths |-> NONE] /\ Returns("ok")
TrieNext == (\E p \in Paths, v \in Elem : trie_insert(p, v)) \/ (\E p \in Paths : trie_remove(p)) \/ trie_clear

(***************************************************************************)
(* sm: an action runs before the state changes, and may itself call the    *)
(* machine; the entry is read again when it returns.  `ref` says whether   *)
(* an action has cleared the table under its own transition.               *)
(***************************************************************************)
NO_TRANSITION == 255
States == 0..STATES - 1
Events == 0..EVENTS - 1
Actions == {"none", "reset", "process", "reprogram", "clear"}
Undefined == [next |-> NO_TRANSITION, action |-> "none"]
Table == [s \in States |-> [e \in Events |-> Undefined]]
MachineInit == box = [table |-> Table, state |-> 0] /\ ref = FALSE /\ rc = "ok"

sm_set_transition(b, s, e, n, a) == [b EXCEPT !.table[s][e] = [next |-> n, action |-> a]]
sm_clear(b) == [b EXCEPT !.state = 0, !.table = Table]

\* What an action leaves behind.  A machine called from its own action is called
\* with the last event; it does not call itself again.
Acted(b, s, e) ==
  CASE b.table[s][e].action = "none" -> {b}
    [] b.table[s][e].action = "reset" -> {[b EXCEPT !.state = 0]}
    [] b.table[s][e].action = "reprogram" -> {sm_set_transition(b, s, e, n, "none") : n \in States}
    [] b.table[s][e].action = "clear" -> {sm_clear(b)}
    [] b.table[s][e].action = "process" ->
         LET inner == b.table[s][EVENTS - 1]
         IN {IF inner.next = NO_TRANSITION \/ inner.action # "none" THEN b ELSE [b EXCEPT !.state = inner.next]}

sm_process(e) ==
  LET s == box.state
  IN /\ s \in States
     /\ \/ box.table[s][e].next = NO_TRANSITION /\ Keep("param")
        \/ /\ box.table[s][e].next # NO_TRANSITION
           /\ \E b \in Acted(box, s, e) : box' = [b EXCEPT !.state = b.table[s][e].next]
           /\ ref' = (box.table[s][e].action = "clear") /\ Returns("ok")
sm_set_state(s) == box' = [box EXCEPT !.state = s] /\ ref' = FALSE /\ Returns("ok")
MachineNext ==
  \/ \E s \in States, e \in Events, n \in States, a \in Actions :
       box' = sm_set_transition(box, s, e, n, a) /\ Returns("ok") /\ UNCHANGED ref
  \/ \E e \in Events : sm_process(e)
  \/ \E s \in States : sm_set_state(s)
  \/ box' = sm_clear(box) /\ ref' = FALSE /\ Returns("ok")

(***************************************************************************)
(* Properties.                                                             *)
(***************************************************************************)
FirstOf(s, v) == IF \E i \in DOMAIN s : s[i] = v THEN SelectInSeq(s, LAMBDA x : x = v) - 1 ELSE "notfound"

\* array and stack: whatever was shifted, filled, popped or cleared before, the
\* live slots are the elements in their order.
ArrayAgrees ==
  /\ Live(box) = ref /\ box.size <= box.capacity
  /\ \A v \in Elem : array_find(v) = FirstOf(ref, v)
StackAgrees == Live(box) = ref /\ stack_peek = (IF ref = <<>> THEN "empty" ELSE Last(ref))

\* sortarray: sorted, with the first of equals found, stale slots behind or not.
SortAgrees ==
  /\ Live(box) = ref
  /\ \A v \in Elem : sortarray_find(v) = FirstOf(ref, v)
  /\ sortarray_ends = (IF ref = <<>> THEN "empty" ELSE <<ref[1], Last(ref)>>)

\* bitmap: every query answers for the bits below n_bits, whatever the rest of
\* the last word holds.
BitsAgree ==
  /\ bitmap_count_set = Cardinality(ref) /\ bitmap_count_clear = box.n_bits - Cardinality(ref)
  /\ \A b \in 0..box.n_bits - 1 : bitmap_test(b) <=> b \in ref
  /\ bitmap_find_first_set = (IF ref = {} THEN "notfound" ELSE Min(ref))
  /\ LET off == (0..box.n_bits - 1) \ ref
     IN bitmap_find_first_clear = (IF off = {} THEN "notfound" ELSE Min(off))

\* bloom: no key that was added is ever denied.
NeverDenied == \A key \in ref : bloom_check(key)

\* trie: an insert that finds no node half-way shows nothing and spoils nothing;
\* a key that is removed leaves its longer and shorter neighbours.
TrieAgrees ==
  /\ \A p \in Paths : trie_search(p) = ref[p] /\ (trie_contains(p) <=> ref[p] # NONE)
  /\ box.num_keys = Cardinality({p \in Paths : ref[p] # NONE})

\* sm: whatever actions do to the machine that runs them, its state is one of the
\* table's, except after an action that clears the table.
StateInTable == box.state \in States \/ ref
=============================================================================
