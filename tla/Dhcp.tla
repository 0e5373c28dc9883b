-------------------------------- MODULE Dhcp --------------------------------
(***************************************************************************)
(* The DHCP client (tiku_kits_net_dhcp.c) among several servers that       *)
(* answer whatever they heard, late, again or never.                       *)
(***************************************************************************)
EXTENDS Integers, FiniteSets

CONSTANTS
  NULL,
  Servers,
  Offers,          \* the address each server has for this client
  Static,          \* the address the device was configured with
  MAX_RETRIES,
  MaxCalls         \* bound on the calls of the application

VARIABLES
  c,        \* dhcp_state, pending_evt, lease, xid, retries, saved_ip, the port
  addr,     \* the address of the IPv4 stack
  net,      \* what the client has sent
  acked,    \* <<server, address>> of the acknowledgements that were sent
  calls

vars == <<c, addr, net, acked, calls>>

(***************************************************************************)
(* State.                                                                  *)
(***************************************************************************)
NoLease == [ip |-> NULL, server |-> NULL, gateway |-> NULL]
Idle(xid) ==
  [st |-> "IDLE", evt |-> "NONE", lease |-> NoLease, xid |-> xid, retries |-> 0,
   saved |-> NULL, bound |-> FALSE]
Init == c = Idle(0) /\ addr = Static /\ net = {} /\ acked = {} /\ calls = 0

Negotiating == c.st \in {"DISCOVER_SENT", "REQUESTING"}
Message(type, k) == [type |-> type, xid |-> k.xid, ip |-> k.lease.ip, server |-> k.lease.server]

(***************************************************************************)
(* Calls.                                                                  *)
(***************************************************************************)
Call == calls < MaxCalls /\ calls' = calls + 1

\* init also clears the xid, which nobody reads before start makes another: it
\* mixes the hardware address with the clock.
Reset == Call /\ c' = Idle(c.xid) /\ UNCHANGED <<addr, net, acked>>

\* The port may be taken and the link may refuse the packet: the address comes
\* back then, but the state stays and the lease is gone.
Start(free, sent) ==
  /\ Call
  /\ ~Negotiating
  /\ LET k == [c EXCEPT !.saved = addr, !.xid = @ + 1, !.lease = NoLease, !.evt = "NONE", !.retries = 0]
     IN IF free /\ ~c.bound /\ sent
        THEN /\ c' = [k EXCEPT !.bound = TRUE, !.st = "DISCOVER_SENT"]
             /\ addr' = NULL
             /\ net' = net \union {Message("DISCOVER", k)}
        ELSE c' = k /\ UNCHANGED <<addr, net>>
  /\ UNCHANGED acked

\* The state moves to IDLE; the port is given back only when a lease was held.
Release(sent) ==
  /\ Call
  /\ c' = [c EXCEPT !.st = "IDLE", !.evt = "NONE", !.bound = IF c.st = "BOUND" THEN FALSE ELSE @]
  /\ net' = IF c.st = "BOUND" /\ sent THEN net \union {Message("RELEASE", c)} ELSE net
  /\ UNCHANGED <<addr, acked>>

(***************************************************************************)
(* dhcp_recv_cb: the reply is written over the lease, whatever the state.  *)
(***************************************************************************)
\* A server need not send every option; the ones it leaves out stay.
Stored(s, ip, routed) ==
  [ip |-> ip, server |-> s, gateway |-> IF routed THEN s ELSE c.lease.gateway]
Receive(m, s, routed) ==
  /\ c.bound /\ m.xid = c.xid
  /\ \/ /\ m.type = "DISCOVER"
        /\ c' = [c EXCEPT !.evt = "OFFER", !.lease = Stored(s, Offers[s], routed)]
        /\ UNCHANGED acked
     \/ /\ m.type = "REQUEST" /\ m.server = s /\ m.ip = Offers[s]
        /\ c' = [c EXCEPT !.evt = "ACK", !.lease = Stored(s, m.ip, routed)]
        /\ acked' = acked \union {<<s, m.ip>>}
     \/ /\ m.type = "REQUEST" /\ m.server = s
        /\ c' = [c EXCEPT !.evt = "NAK", !.lease = Stored(s, NULL, FALSE)]
        /\ UNCHANGED acked
  /\ UNCHANGED <<addr, net, calls>>

(***************************************************************************)
(* dhcp_poll.                                                              *)
(***************************************************************************)
\* Nothing came: the last message again while the receive buffer is idle, or,
\* after MAX_RETRIES, the old address and ERROR.
PollNothing(idle) ==
  /\ c.evt = "NONE"
  /\ LET k == [c EXCEPT !.retries = @ + 1]
     IN IF k.retries >= MAX_RETRIES
        THEN /\ c' = [k EXCEPT !.bound = FALSE, !.st = "ERROR"]
             /\ addr' = c.saved /\ UNCHANGED net
        ELSE /\ c' = k /\ UNCHANGED addr
             /\ net' = CASE idle /\ c.st = "DISCOVER_SENT" -> net \union {Message("DISCOVER", c)}
                         [] idle /\ c.st = "REQUESTING" -> net \union {Message("REQUEST", c)}
                         [] OTHER -> net
  /\ UNCHANGED <<acked, calls>>

PollOffer(sent) ==
  /\ c.evt = "OFFER"
  /\ IF c.st = "DISCOVER_SENT"
     THEN /\ c' = [c EXCEPT !.evt = "NONE", !.retries = 0, !.st = "REQUESTING"]
          /\ net' = IF sent THEN net \union {Message("REQUEST", c)} ELSE net
     ELSE c' = [c EXCEPT !.evt = "NONE"] /\ UNCHANGED net
  /\ UNCHANGED <<addr, acked, calls>>

PollAck ==
  /\ c.evt = "ACK"
  /\ c' = [c EXCEPT !.evt = "NONE", !.bound = FALSE, !.st = "BOUND"]
  /\ addr' = c.lease.ip
  /\ UNCHANGED <<net, acked, calls>>

PollNak ==
  /\ c.evt = "NAK"
  /\ c' = [c EXCEPT !.evt = "NONE", !.bound = FALSE, !.st = "ERROR"]
  /\ addr' = c.saved
  /\ UNCHANGED <<net, acked, calls>>

Poll == (\E sent \in BOOLEAN : PollNothing(sent) \/ PollOffer(sent)) \/ PollAck \/ PollNak

\* tiku_kits_net_dhcp_process polls once a second until the exchange is over.
ProcessPoll == Negotiating /\ Poll

Next ==
  \/ Reset \/ ProcessPoll
  \/ \E free, sent \in BOOLEAN : Start(free, sent)
  \/ \E sent \in BOOLEAN : Release(sent)
  \/ \E m \in net, s \in Servers, routed \in BOOLEAN : Receive(m, s, routed)

(***************************************************************************)
(* Properties.                                                             *)
(***************************************************************************)
\* While an exchange is on, the port is held and the device has no address.
PortHeld == Negotiating => c.bound /\ addr = NULL

\* A device never takes an address that no server acknowledged, with offers of
\* several servers written over the lease in any order.
AddressGranted ==
  /\ addr \in {NULL, Static} \union {a[2] : a \in acked}
  /\ c.st = "BOUND" /\ c.lease.ip # NULL => <<c.lease.server, addr>> \in acked /\ c.lease.ip = addr

(***************************************************************************)
(* An inductive invariant.                                                 *)
(***************************************************************************)
Addresses == {NULL, Static} \union {Offers[s] : s \in Servers}
Leases == [ip : Addresses, server : Servers \union {NULL}, gateway : Servers \union {NULL}]
Clients ==
  [st : {"IDLE", "DISCOVER_SENT", "REQUESTING", "BOUND", "ERROR"}, evt : {"NONE", "OFFER", "ACK", "NAK"},
   lease : Leases, xid : Nat, retries : Nat, saved : Addresses, bound : BOOLEAN]
TypeOK ==
  /\ acked \in SUBSET (Servers \X Addresses)
  /\ c \in Clients
\* Addresses the device may have: none, its own, or one that was acknowledged.
Granted == {NULL, Static} \union {a[2] : a \in acked}
\* The address to go back to is one of them, and so is the one an ACK that waits to
\* be polled has left in the lease; a lease that is held has no port to be
\* overwritten through.
LeaseInv ==
  /\ TypeOK /\ PortHeld /\ AddressGranted
  /\ c.saved \in Granted
  /\ c.evt = "ACK" => <<c.lease.server, c.lease.ip>> \in acked
  /\ c.st = "BOUND" => ~c.bound
=============================================================================
