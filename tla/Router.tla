------------------------------- MODULE Router -------------------------------
(***************************************************************************)
(* The router between the access point and the station                     *)
(* (tiku_kits_net_router.c): address translation with a table of flows, a  *)
(* resolver for the clients, and the leases of the DHCP server, which      *)
(* change hands under it.  Answers come late, again or never.              *)
(***************************************************************************)
EXTENDS Integers, FiniteSets

CONSTANTS
  NULL,
  Macs, Pool,                \* clients and their addresses
  Sources,                   \* the ports, and ids of echoes, clients use
  Remotes,                   \* servers beyond, with the resolver among them
  Uplinks,                   \* addresses the station is given
  FLOWS, PORTS,              \* TIKU_ROUTER_FLOWS and the external ports
  TcpTicks, UdpTicks, FinTicks,
  MaxSent, MaxTime           \* bounds: on packets of clients and on the clock

VARIABLES
  r,         \* flows, next_port, up, uplink, resolver, enabled, running
  owner,     \* tiku_kits_net_dhcps_owner: the client of each address, or NULL
  now,
  net,       \* what went out, each to be answered any number of times
  given      \* the packet given to a client last, and what it answers

vars == <<r, owner, now, net, given>>

(***************************************************************************)
(* State.                                                                  *)
(***************************************************************************)
Slots == 1..FLOWS
None == [proto |-> NULL, mac |-> NULL, ip |-> NULL, port |-> 0, remote |-> NULL, rport |-> 0,
         dns |-> FALSE, ext |-> 0, expires |-> 0]
Empty == [i \in Slots |-> None]
Init ==
  /\ r = [flows |-> Empty, next |-> 0, uplink |-> NULL, resolver |-> NULL, enabled |-> TRUE, running |-> FALSE]
  /\ owner = [ip \in Pool |-> NULL]
  /\ now = 0 /\ net = {} /\ given = NULL

Used(f) == {i \in Slots : f[i].proto # NULL}
\* expire
Expire(f) ==
  [i \in Slots |-> IF i \in Used(f) /\ (now >= f[i].expires \/ owner[f[i].ip] # f[i].mac) THEN None ELSE f[i]]
Least(S) == CHOOSE i \in S : \A j \in S : i <= j

\* allocate_port tries the next FLOWS + 1 ports in their order.
Ports(f) == {k \in 0..FLOWS : \A i \in Used(f) : f[i].ext # (r.next + k) % PORTS}

(***************************************************************************)
(* Setting up.                                                             *)
(***************************************************************************)
Start == ~r.running /\ r' = [r EXCEPT !.running = TRUE, !.uplink = NULL, !.flows = Empty]
  /\ UNCHANGED <<owner, now, net, given>>
\* The DHCP server stops with the router: no address has an owner then.
Stop ==
  /\ r.running
  /\ r' = [r EXCEPT !.running = FALSE, !.uplink = NULL, !.flows = Empty]
  /\ owner' = [ip \in Pool |-> NULL]
  /\ UNCHANGED <<now, net, given>>
Enable(on) ==
  /\ r' = [r EXCEPT !.enabled = on, !.flows = IF on THEN @ ELSE Empty]
  /\ UNCHANGED <<owner, now, net, given>>

\* Another address, another resolver or none wipes the flows.
Uplink(ip, dns) ==
  /\ r' = [r EXCEPT !.uplink = ip, !.resolver = dns,
                    !.flows = IF ip = NULL \/ r.uplink # ip \/ (dns # NULL /\ dns # r.resolver) THEN Empty ELSE @]
  /\ UNCHANGED <<owner, now, net, given>>

(***************************************************************************)
(* From a client.  dns: the packet was for the router's own port 53, and   *)
(* goes to the resolver.                                                   *)
(***************************************************************************)
Forwards == r.running /\ r.enabled /\ r.uplink # NULL
Lifetime(proto) == IF proto = "tcp" THEN TcpTicks ELSE UdpTicks
Same(f, i, p) == /\ f[i].proto = p.proto /\ f[i].port = p.port /\ f[i].rport = p.rport /\ f[i].dns = p.dns
                 /\ f[i].ip = p.ip /\ f[i].remote = p.remote /\ f[i].mac = p.mac

\* A flow of its own for the first packet, which of TCP must be a SYN.
FromClient(p, flags) ==
  /\ Forwards /\ Cardinality(net) < MaxSent
  /\ owner[p.ip] = p.mac
  /\ p.dns => p.proto = "udp" /\ p.remote = r.resolver /\ r.resolver # NULL
  /\ flags # "none" <=> p.proto = "tcp"
  /\ LET f == Expire(r.flows)
         mine == {i \in Used(f) : Same(f, i, p)}
         free == Slots \ Used(f)
         fresh == mine = {} /\ flags \in {"syn", "none"} /\ free # {} /\ Ports(f) # {}
         step == IF fresh THEN Least(Ports(f)) ELSE 0
         i == IF mine # {} THEN Least(mine) ELSE Least(free)
         ext == IF mine # {} THEN f[i].ext ELSE (r.next + step) % PORTS
     IN IF mine = {} /\ ~fresh THEN r' = [r EXCEPT !.flows = f] /\ UNCHANGED net
        ELSE /\ r' = [r EXCEPT
                        !.next = IF fresh THEN (@ + step + 1) % PORTS ELSE @,
                        !.flows = [f EXCEPT ![i] =
                          [proto |-> p.proto, mac |-> p.mac, ip |-> p.ip, port |-> p.port, remote |-> p.remote,
                           rport |-> p.rport, dns |-> p.dns, ext |-> ext,
                           expires |-> now + (IF flags = "fin" THEN FinTicks ELSE Lifetime(p.proto))]]]
             /\ net' = net \union {[from |-> p, ext |-> ext, uplink |-> r.uplink]}
  /\ UNCHANGED <<owner, now, given>>

(***************************************************************************)
(* From beyond: the answer to a packet q that went out, or an ICMP error   *)
(* that quotes it.                                                         *)
(***************************************************************************)
Matches_any_port(q) ==
  {i \in Used(r.flows) :
     /\ r.flows[i].proto = q.from.proto /\ r.flows[i].remote = q.from.remote /\ r.flows[i].rport = q.from.rport
     /\ owner[r.flows[i].ip] = r.flows[i].mac}
Matches(q) ==
  {i \in Used(r.flows) :
     /\ r.flows[i].proto = q.from.proto /\ r.flows[i].ext = q.ext
     /\ r.flows[i].remote = q.from.remote /\ r.flows[i].rport = q.from.rport
     /\ owner[r.flows[i].ip] = r.flows[i].mac}

FromNet(q, error, fin) ==
  /\ Forwards /\ q.uplink = r.uplink
  /\ fin => q.from.proto = "tcp" /\ ~error
  /\ LET f == Expire(r.flows)
         slots == Matches(q) \intersect Used(f)
         i == Least(slots)
     IN IF slots = {} THEN r' = [r EXCEPT !.flows = f] /\ UNCHANGED given
        ELSE /\ given' = [mac |-> f[i].mac, ip |-> f[i].ip, port |-> f[i].port, dns |-> f[i].dns, of |-> q, at |-> now]
             /\ r' = [r EXCEPT !.flows = IF error THEN f
                        ELSE [f EXCEPT ![i].expires = now + (IF fin THEN FinTicks ELSE Lifetime(f[i].proto))]]
  /\ UNCHANGED <<owner, now, net>>

(***************************************************************************)
(* Time and leases.                                                        *)
(***************************************************************************)
Poll == r.running /\ r' = [r EXCEPT !.flows = Expire(@)] /\ UNCHANGED <<owner, now, net, given>>
\* A lease is given to a client that has none, or ends; Dhcps.tla says when.
Lease(ip, mac) ==
  /\ r.running
  /\ IF mac = NULL THEN owner[ip] # NULL ELSE owner[ip] = NULL /\ \A j \in Pool : owner[j] # mac
  /\ owner' = [owner EXCEPT ![ip] = mac]
  /\ given' = NULL
  /\ UNCHANGED <<r, now, net>>
Tick == now < MaxTime /\ now' = now + 1 /\ UNCHANGED <<r, owner, net, given>>

Packets == [mac : Macs, ip : Pool, port : Sources, proto : {"tcp", "udp"}, remote : Remotes, rport : {1}, dns : BOOLEAN]
           \union [mac : Macs, ip : Pool, port : Sources, proto : {"icmp"}, remote : Remotes, rport : {0},
             dns : {FALSE}]
Next ==
  \/ Start \/ Stop \/ Poll \/ Tick
  \/ \E on \in BOOLEAN : Enable(on)
  \/ \E ip \in Uplinks \union {NULL}, dns \in Remotes \union {NULL} : Uplink(ip, dns)
  \/ \E p \in Packets, flags \in {"syn", "data", "fin", "none"} : FromClient(p, flags)
  \/ \E q \in net, error, fin \in BOOLEAN : FromNet(q, error, fin)
  \/ \E ip \in Pool, mac \in Macs \union {NULL} : Lease(ip, mac)
Spec == Init /\ [][Next]_vars

(***************************************************************************)
(* Properties.                                                             *)
(***************************************************************************)
\* tiku_kits_net_router_input: a client is only given answers to packets that it
\* sent itself, with its own address and port, while the lease under which it
\* sent them is still its own: however leases, flows and external ports are used
\* again, and however late the answer comes, as long as the external ports
\* have not come round.
Translates ==
  /\ given # NULL =>
       /\ given.mac = given.of.from.mac /\ given.ip = given.of.from.ip
       /\ given.port = given.of.from.port /\ given.dns = given.of.from.dns
  /\ \A i, j \in Used(r.flows) : i # j => r.flows[i].ext # r.flows[j].ext

(***************************************************************************)
(* An inductive invariant, with the assumptions it needs.  No more packets *)
(* go out than there are external ports: after that a late answer may find *)
(* its port given to another flow.                                         *)
(***************************************************************************)
Bounds ==
  /\ FLOWS \in Nat /\ PORTS \in Nat \ {0} /\ MaxSent \in 0..PORTS
  /\ TcpTicks \in Nat /\ UdpTicks \in Nat /\ FinTicks \in Nat
  /\ NULL \notin {"tcp", "udp", "icmp"}

Flows == [proto : {"tcp", "udp", "icmp", NULL}, mac : Macs \union {NULL}, ip : Pool \union {NULL},
          port : Sources \union {0}, remote : Remotes \union {NULL}, rport : {0, 1}, dns : BOOLEAN,
          ext : 0..PORTS - 1, expires : Nat]
Routers == [flows : [Slots -> Flows], next : 0..PORTS - 1, uplink : Uplinks \union {NULL},
            resolver : Remotes \union {NULL}, enabled : BOOLEAN, running : BOOLEAN]
TypeOK ==
  /\ r \in Routers /\ now \in Nat
  /\ net \in SUBSET [from : Packets, ext : 0..PORTS - 1, uplink : Uplinks \union {NULL}]

\* Of one flow: the same client, address, port and server.
Alike(p, q) ==
  /\ p.proto = q.proto /\ p.port = q.port /\ p.rport = q.rport /\ p.dns = q.dns
  /\ p.ip = q.ip /\ p.remote = q.remote /\ p.mac = q.mac

\* An external port stands for one flow, in the table and among what went out.
FlowsOK(f, sent) ==
  /\ \A i \in Used(f) : \E q \in sent : q.ext = f[i].ext /\ Same(f, i, q.from)
  /\ \A i, j \in Used(f) : i # j => f[i].ext # f[j].ext
NetOK == \A p, q \in net : p.ext = q.ext => Alike(p.from, q.from)
\* The ports were given out in their order, and no more of them than packets.
PortsOK ==
  /\ IsFiniteSet(net) /\ Cardinality(net) <= MaxSent
  /\ \E n \in 0..Cardinality(net) : r.next = n % PORTS /\ \A q \in net : q.ext < n
GivenOK ==
  given # NULL => /\ given.mac = given.of.from.mac /\ given.ip = given.of.from.ip
                  /\ given.port = given.of.from.port /\ given.dns = given.of.from.dns
RouterInv == TypeOK /\ FlowsOK(r.flows, net) /\ NetOK /\ PortsOK /\ GivenOK
==============================================================================
