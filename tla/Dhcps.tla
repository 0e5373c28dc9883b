------------------------------- MODULE Dhcps -------------------------------
(***************************************************************************)
(* The DHCP server of the access point (tiku_kits_net_dhcps.c): a fixed    *)
(* pool of addresses, one reply under way at a time, and clients of other  *)
(* makes, which count their lease from the request that won it.            *)
(***************************************************************************)
EXTENDS Integers, FiniteSets

CONSTANTS
  NULL,
  Macs,
  CLIENTS,                                 \* addresses in the pool
  OFFER_SEC, LEASE_SEC, DECLINE_SEC, REPLY_SEC,
  MaxTime                                  \* bound on the clock

VARIABLES
  up,        \* enabled: 0 off, 1 bound to port 67, 2 fed by the router
  leases,    \* owner, state and expiry of each address
  reply,     \* the reply that waits for tiku_kits_net_dhcps_poll, or NULL
  now,       \* tiku_clock_time
  held       \* what each client believes: an address and until when

vars == <<up, leases, reply, now, held>>

(***************************************************************************)
(* State.                                                                  *)
(***************************************************************************)
Pool == 1..CLIENTS
Free == [owner |-> NULL, state |-> "free", expires |-> 0]
Empty == [i \in Pool |-> Free]
Nothing == [ip |-> NULL, until |-> 0]
Init ==
  /\ up = 0 /\ leases = Empty /\ reply = NULL /\ now = 0
  /\ held = [m \in Macs |-> Nothing]

\* expire(): a lease whose time has come is wiped.
Expired == [i \in Pool |-> IF leases[i].state # "free" /\ now >= leases[i].expires THEN Free ELSE leases[i]]
Owned(l, m) == {i \in Pool : l[i].state # "free" /\ l[i].owner = m}
Least(S) == CHOOSE i \in S : \A j \in S : i <= j

(***************************************************************************)
(* receive: options out of place or for another server are dropped         *)
(* before; a request that finds a reply waiting is dropped as well.        *)
(***************************************************************************)
Listening == up # 0 /\ reply = NULL

Granted(l, i, m, answer) ==
  [l EXCEPT ![i] = [owner |-> m,
                    state |-> IF answer = "ACK" \/ @.state = "bound" THEN "bound" ELSE "offered",
                    expires |-> IF answer = "ACK" THEN now + LEASE_SEC
                                ELSE IF @.state = "bound" THEN @.expires ELSE now + OFFER_SEC]]
Queue(m, answer, i) == reply' = [mac |-> m, type |-> answer, ip |-> i, asked |-> now, until |-> now + REPLY_SEC]

Discover(m) ==
  /\ Listening
  /\ LET l == Expired
         mine == Owned(l, m)
         open == {i \in Pool : l[i].state = "free"}
         slot == IF mine # {} THEN Least(mine) ELSE Least(open)
     IN IF mine \union open = {} THEN leases' = l /\ UNCHANGED reply
        ELSE leases' = Granted(l, slot, m, "OFFER") /\ Queue(m, "OFFER", slot)
  /\ UNCHANGED <<up, now, held>>

\* A request for an address outside the pool, another than the client's own, or
\* somebody else's is refused.  The mutant does not ask whose it is.
Takes_any(l, m, ip) ==
  /\ ip \in Pool
  /\ Owned(l, m) \subseteq {ip}
Takes(l, m, ip) ==
  /\ ip \in Pool
  /\ Owned(l, m) \subseteq {ip}
  /\ l[ip].state = "free" \/ l[ip].owner = m

Request(m, ip) ==
  /\ Listening
  /\ LET l == Expired
     IN IF Takes(l, m, ip)
        THEN leases' = Granted(l, ip, m, "ACK") /\ Queue(m, "ACK", ip)
        ELSE leases' = l /\ Queue(m, "NAK", NULL)
  /\ UNCHANGED <<up, now, held>>

\* A client gives its address back, or found somebody else using it.
Release(m) ==
  /\ Listening /\ held[m].ip # NULL
  /\ LET l == Expired
     IN leases' = IF held[m].ip \in Owned(l, m) THEN [l EXCEPT ![held[m].ip] = Free] ELSE l
  /\ held' = [held EXCEPT ![m] = Nothing]
  /\ UNCHANGED <<up, reply, now>>
Decline(m) ==
  /\ Listening /\ held[m].ip # NULL
  /\ LET l == Expired
     IN leases' = IF held[m].ip \in Owned(l, m)
                  THEN [l EXCEPT ![held[m].ip] =
                          [owner |-> NULL, state |-> "declined", expires |-> now + DECLINE_SEC]]
                  ELSE l
  /\ held' = [held EXCEPT ![m] = Nothing]
  /\ UNCHANGED <<up, reply, now>>

(***************************************************************************)
(* Start, stop and poll.                                                   *)
(***************************************************************************)
\* start and start_raw; the router turns the service off only with its radio,
\* which takes the clients off too.
Start(mode) ==
  /\ up = 0
  /\ up' = mode /\ reply' = NULL /\ leases' = Empty
  /\ UNCHANGED <<now, held>>
Stop ==
  /\ up' = 0 /\ reply' = NULL /\ leases' = Empty
  /\ held' = [m \in Macs |-> Nothing]
  /\ UNCHANGED now

\* The reply reaches its client, is lost on the air, or is not taken by the link
\* and waits on, until it is too old.
Poll(sent, heard) ==
  /\ LET late == reply # NULL /\ now >= reply.until
         goes == reply # NULL /\ ~late /\ sent
     IN /\ reply' = IF late \/ goes THEN NULL ELSE reply
        /\ held' = IF goes /\ heard /\ reply.type = "ACK"
                   THEN [held EXCEPT ![reply.mac] = [ip |-> reply.ip, until |-> reply.asked + LEASE_SEC]]
                   ELSE held
  /\ leases' = Expired
  /\ UNCHANGED <<up, now>>

\* A client drops an address when its time is up.
Tick ==
  /\ now < MaxTime
  /\ now' = now + 1
  /\ held' = [m \in Macs |-> IF held[m].ip # NULL /\ held[m].until <= now + 1 THEN Nothing ELSE held[m]]
  /\ UNCHANGED <<up, leases, reply>>

Next ==
  \/ Tick \/ Stop
  \/ \E mode \in {1, 2} : Start(mode)
  \/ \E sent, heard \in BOOLEAN : Poll(sent, heard)
  \/ \E m \in Macs : Discover(m) \/ Release(m) \/ Decline(m)
  \/ \E m \in Macs, ip \in Pool \union {0} : Request(m, ip)
Spec == Init /\ [][Next]_vars

(***************************************************************************)
(* Properties.                                                             *)
(***************************************************************************)
\* tiku_kits_net_dhcps_owner, which the router asks before it forwards.
Owner(ip, m) == ip \in Pool /\ Expired[ip].state = "bound" /\ Expired[ip].owner = m

\* "retaining distinct leases": no two clients use one address, and the router
\* knows each client by the address it uses.
OneOwner ==
  /\ \A m, n \in Macs : m # n => held[m].ip = NULL \/ held[m].ip # held[n].ip
  /\ \A m \in Macs : held[m].ip # NULL => Owner(held[m].ip, m)

(***************************************************************************)
(* An inductive invariant, with the assumptions it needs: a reply is given *)
(* up before the lease it grants can end.                                  *)
(***************************************************************************)
Bounds ==
  /\ CLIENTS \in Nat /\ NULL \notin Macs /\ NULL \notin Pool
  /\ OFFER_SEC \in Nat /\ LEASE_SEC \in Nat /\ DECLINE_SEC \in Nat /\ REPLY_SEC \in Nat
  /\ REPLY_SEC <= LEASE_SEC

LeaseRecords == [owner : Macs \union {NULL}, state : {"free", "offered", "bound", "declined"}, expires : Nat]
Replies == [mac : Macs, type : {"OFFER", "ACK", "NAK"}, ip : Pool \union {NULL}, asked : Nat, until : Nat]
TypeOK ==
  /\ up \in 0..2 /\ leases \in [Pool -> LeaseRecords] /\ reply \in Replies \union {NULL} /\ now \in Nat
  /\ held \in [Macs -> [ip : Pool \union {NULL}, until : Nat]]

\* The lease of this address is this client's, and lasts until then at least.
Bound(l, ip, m, until) == l[ip].state = "bound" /\ l[ip].owner = m /\ until <= l[ip].expires

\* What a client holds the server knows of, for as long as the client counts.
HeldOK ==
  \A m \in Macs : held[m].ip # NULL =>
    now < held[m].until /\ held[m].until <= now + LEASE_SEC /\ Bound(leases, held[m].ip, m, held[m].until)
\* So it does of a grant that is on its way.
ReplyOK ==
  reply # NULL =>
    /\ reply.asked <= now /\ reply.until = reply.asked + REPLY_SEC
    /\ reply.type = "ACK" => reply.ip # NULL /\ Bound(leases, reply.ip, reply.mac, reply.asked + LEASE_SEC)
\* A server that is off has no clients.
OffOK == up = 0 => reply = NULL /\ \A m \in Macs : held[m].ip = NULL
LeaseInv == TypeOK /\ HeldOK /\ ReplyOK /\ OffOK
==============================================================================
