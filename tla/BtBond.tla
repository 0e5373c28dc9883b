------------------------------- MODULE BtBond -------------------------------
(***************************************************************************)
(* The bonds of net/bluetooth/tiku_bt.c in durable memory.  A peer that    *)
(* keeps its privacy connects under a resolvable private address, new each *)
(* time; its identity address and the key (IRK) that resolves its private  *)
(* ones come at the end of a pairing, if the link lives that long.         *)
(***************************************************************************)
EXTENDS Integers, Sequences, FiniteSets

CONSTANTS
  BOND_MAX,          \* TIKU_BT_BOND_MAX
  Peers, Private,    \* all peers; those that use private addresses
  MaxConnects, MaxPairings, MaxResets   \* bounds

VARIABLES
  nvm,     \* bt_bond_nvm
  turn,    \* bt_bond_turn
  at,      \* the address each peer is connected under, or none
  peer,    \* each peer: its IRK, the key it last agreed on, is its bond complete and still kept
  used     \* addresses, keys and resets so far
vars == <<nvm, turn, at, peer, used>>

Empty == [magic |-> FALSE, addr |-> <<>>, irk |-> 0, ltk |-> 0, sc |-> 0]
Slots == 1 .. BOND_MAX
Identity(p) == <<p, 0, 0>>
\* A private address: whose it is, the IRK it was made with, and which one it is.
Rpa(p, n) == <<p, peer[p].irk, n>>
IsRpa(a) == a[3] # 0

Init ==
  /\ nvm = [s \in Slots |-> Empty] /\ turn = 0
  /\ at = [p \in Peers |-> <<>>]
  /\ peer = [p \in Peers |-> [irk |-> IF p \in Private THEN 1 ELSE 0, ltk |-> 0, whole |-> FALSE]]
  /\ used = [addrs |-> 0, keys |-> 0, resets |-> 0]

Least(S) == CHOOSE s \in S : \A t \in S : s <= t
\* bt_bond_lookup: the address itself before an IRK that resolves it; 0 is none.
\* The hash of bt_rpa_hash is taken as free of collisions.
Lookup(m, a) ==
  LET exact == {s \in Slots : m[s].magic /\ m[s].addr = a}
      resolves == {s \in Slots : m[s].magic /\ IsRpa(a) /\ m[s].irk # 0 /\ m[s].irk = a[2] /\ m[s].addr[1] = a[1]} IN
  IF exact # {} THEN Least(exact) ELSE IF resolves # {} THEN Least(resolves) ELSE 0

Free(m) == {s \in Slots : ~m[s].magic}
\* bt_bond_keep, bt_bond_save: the slot of the peer, or a free one, or the next in turn.
KeepSlot(a) ==
  LET found == Lookup(nvm, a) IN
  CASE found # 0 -> found
    [] found = 0 /\ Free(nvm) # {} -> Least(Free(nvm))
    [] OTHER -> (turn % BOND_MAX) + 1
Kept(a, ltk, b) ==
  LET known == Lookup(nvm, a) # 0 /\ b.irk # 0 IN
  [magic |-> TRUE, addr |-> IF known THEN b.addr ELSE a, irk |-> IF known THEN b.irk ELSE 0,
   ltk |-> ltk, sc |-> IF b.magic /\ b.ltk = ltk THEN b.sc ELSE 0]
Evicted(keys) == [p \in Peers |-> IF peer[p].ltk \in keys THEN [peer[p] EXCEPT !.whole = FALSE] ELSE peer[p]]

\* A link, under the identity address or a private one.
Connect(p) ==
  /\ at[p] = <<>> /\ used.addrs < MaxConnects
  /\ at' = [at EXCEPT ![p] = IF p \in Private THEN Rpa(p, used.addrs + 1) ELSE Identity(p)]
  /\ used' = [used EXCEPT !.addrs = @ + 1]
  /\ UNCHANGED <<nvm, turn, peer>>
Disconnect(p) ==
  /\ at[p] # <<>>
  /\ at' = [at EXCEPT ![p] = <<>>]
  /\ UNCHANGED <<nvm, turn, peer, used>>

\* bt_smp_bond, when the checks of a pairing are done.
Keep(p) ==
  LET slot == KeepSlot(at[p]) ltk == used.keys + 1 IN
  /\ at[p] # <<>> /\ used.keys < MaxPairings
  /\ nvm' = [nvm EXCEPT ![slot] = Kept(at[p], ltk, @)]
  /\ turn' = IF Lookup(nvm, at[p]) = 0 /\ Free(nvm) = {} THEN slot % BOND_MAX ELSE turn
  /\ used' = [used EXCEPT !.keys = ltk]
  /\ peer' = [Evicted({nvm[slot].ltk} \ {0}) EXCEPT ![p].ltk = ltk, ![p].whole = nvm'[slot].irk # 0 \/ p \notin Private]
  /\ UNCHANGED at

\* bt_bond_identity: the peer's identity keys have come; other records of that identity go.
TakesIdentity_leaves(m, slot, id, irk) == [m EXCEPT ![slot].addr = id, ![slot].irk = irk]
TakesIdentity(m, slot, id, irk) ==
  [s \in Slots |-> IF s = slot THEN [m[s] EXCEPT !.addr = id, !.irk = irk]
                   ELSE IF m[s].magic /\ m[s].addr = id THEN Empty ELSE m[s]]
BondIdentity(p) ==
  LET slot == Lookup(nvm, at[p]) IN
  /\ at[p] # <<>> /\ slot # 0 /\ nvm[slot].ltk = peer[p].ltk
  /\ nvm' = TakesIdentity(nvm, slot, Identity(p), peer[p].irk)
  /\ peer' = [peer EXCEPT ![p].whole = TRUE]
  /\ UNCHANGED <<turn, at, used>>

\* bt_sc_remember: the peer of an encrypted link asked for Service Changed.
Remember(p) ==
  LET slot == Lookup(nvm, at[p]) IN
  /\ at[p] # <<>> /\ slot # 0 /\ nvm[slot].ltk = peer[p].ltk
  /\ nvm' = [nvm EXCEPT ![slot].sc = peer[p].ltk]
  /\ UNCHANGED <<turn, at, peer, used>>

\* tiku_bt_bond_clear, from the application.
Clear(s) ==
  /\ nvm[s].magic
  /\ nvm' = [nvm EXCEPT ![s] = Empty]
  /\ peer' = Evicted({nvm[s].ltk})
  /\ UNCHANGED <<turn, at, used>>

\* A peer is reset: a new IRK, and it has forgotten its bond.
PeerReset(p) ==
  /\ used.resets < MaxResets /\ at[p] = <<>> /\ p \in Private
  /\ peer' = [peer EXCEPT ![p] = [irk |-> @.irk + 1, ltk |-> 0, whole |-> FALSE]]
  /\ used' = [used EXCEPT !.resets = @ + 1]
  /\ UNCHANGED <<nvm, turn, at>>

Next ==
  \/ \E p \in Peers : Connect(p) \/ Disconnect(p) \/ Keep(p) \/ BondIdentity(p) \/ Remember(p) \/ PeerReset(p)
  \/ \E s \in Slots : Clear(s)
Spec == Init /\ [][Next]_vars

(***************************************************************************)
(* Properties.                                                             *)
(***************************************************************************)
\* bt_bond_find_by_addr, from LE Long Term Key Request: a peer whose bond is complete
\* and was neither cleared nor displaced is found under its identity and under every
\* private address, with the key it last agreed on; a peer is never given the key of
\* another; and what was noted about Service Changed belongs to the key it is kept with.
BondFound ==
  /\ \A p \in Peers : peer[p].whole =>
       \A a \in {Identity(p), IF p \in Private THEN Rpa(p, used.addrs + 1) ELSE Identity(p)} :
         Lookup(nvm, a) # 0 /\ nvm[Lookup(nvm, a)].ltk = peer[p].ltk
  /\ \A p \in Peers : at[p] # <<>> /\ Lookup(nvm, at[p]) # 0 => nvm[Lookup(nvm, at[p])].addr[1] = p
  /\ \A s \in Slots : nvm[s].sc \in {0, nvm[s].ltk}
=============================================================================
