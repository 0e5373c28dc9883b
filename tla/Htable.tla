-------------------------------- MODULE Htable --------------------------------
(***************************************************************************)
(* ds/htable: open addressing with linear probing and tombstones.  `ht` is *)
(* struct tiku_kits_ds_htable; `hash` stands for hash_fnv1a reduced to the *)
(* capacity and is any function at all, so that every pattern of           *)
(* collisions is met.  `kept` is the map the calls describe.               *)
(***************************************************************************)
EXTENDS Integers, FiniteSets, FiniteSetsExt

CONSTANTS Keys, Elem, MAX_SIZE
VARIABLES ht, hash, kept, rc
vars == <<ht, hash, kept, rc>>

EmptySlot == [state |-> "EMPTY", key |-> 0, value |-> 0]
Fresh(c) == [entries |-> [i \in 0..MAX_SIZE - 1 |-> EmptySlot], capacity |-> c, count |-> 0]
Absent == 0

Init == \E c \in 1..MAX_SIZE :
  /\ ht = Fresh(c) /\ hash \in [Keys -> 0..c - 1]
  /\ kept = [k \in Keys |-> Absent] /\ rc = "ok"

(***************************************************************************)
(* The probe of a key visits the slots from hash[key] on, once round.      *)
(***************************************************************************)
Steps == 0..ht.capacity - 1
Slot(key, n) == (hash[key] + n) % ht.capacity
Entry(key, n) == ht.entries[Slot(key, n)]
Holds(key, n) == Entry(key, n).state = "OCCUPIED" /\ Entry(key, n).key = key
First(S) == Min(S)

\* Steps at which the search for a key may end: its entry, or a slot that was
\* never used.  The mutant takes a tombstone for such a slot.
Ends_at_tombstone(key) == {n \in Steps : Holds(key, n) \/ Entry(key, n).state # "OCCUPIED"}
Ends(key) == {n \in Steps : Holds(key, n) \/ Entry(key, n).state = "EMPTY"}
Found(key) == Ends(key) # {} /\ Holds(key, First(Ends(key)))

get(key) == IF Found(key) THEN Entry(key, First(Ends(key))).value ELSE Absent

\* Tombstones passed on the way.
Tombs(key) == {n \in Steps : Entry(key, n).state = "DELETED" /\ \A m \in Ends(key) : n < m}

Store(i, key, v, more) ==
  ht' = [ht EXCEPT !.entries[i] = [state |-> "OCCUPIED", key |-> key, value |-> v], !.count = @ + more]

put(key, v) ==
  LET into == IF Tombs(key) # {} THEN Tombs(key) ELSE Ends(key)
  IN /\ UNCHANGED hash
     /\ \/ /\ Found(key)
           /\ Store(Slot(key, First(Ends(key))), key, v, 0) /\ rc' = "ok"
           /\ kept' = [kept EXCEPT ![key] = v]
        \/ /\ ~Found(key) /\ into # {}
           /\ Store(Slot(key, First(into)), key, v, 1) /\ rc' = "ok"
           /\ kept' = [kept EXCEPT ![key] = v]
        \/ ~Found(key) /\ into = {} /\ rc' = "full" /\ UNCHANGED <<ht, kept>>

\* Removal leaves a tombstone, with its old key and value in it.
remove(key) ==
  /\ UNCHANGED hash
  /\ IF Found(key)
     THEN /\ ht' = [ht EXCEPT !.entries[Slot(key, First(Ends(key)))].state = "DELETED", !.count = @ - 1]
          /\ kept' = [kept EXCEPT ![key] = Absent] /\ rc' = "ok"
     ELSE rc' = "notfound" /\ UNCHANGED <<ht, kept>>

clear == ht' = Fresh(ht.capacity) /\ kept' = [k \in Keys |-> Absent] /\ rc' = "ok" /\ UNCHANGED hash

Next == (\E k \in Keys, v \in Elem : put(k, v)) \/ (\E k \in Keys : remove(k)) \/ clear
Spec == Init /\ [][Next]_vars

(***************************************************************************)
(* Properties.                                                             *)
(***************************************************************************)
Size == Cardinality({k \in Keys : kept[k] # Absent})

\* After any puts and removals, with any collisions, a lookup gives the value
\* last put, no removed key comes back from its tombstone, count is the number
\* of keys, and "full" is said only of a table with no slot to reuse.
LooksUpWhatWasPut ==
  /\ \A k \in Keys : get(k) = kept[k]
  /\ ht.count = Size
  /\ rc = "full" => Size = ht.capacity
=============================================================================
