------------------------------ MODULE IpStack ------------------------------
(***************************************************************************)
(* net/ipv4: the input path of tiku_kits_net_ipv4.c, ICMP echo and UDP,    *)
(* around the one packet buffer net_buf that incoming packets are          *)
(* processed in and outgoing ones are built in.                            *)
(*                                                                         *)
(* A handler runs to its end, except that it calls the application: while  *)
(* a callback runs, `running` holds the packet it was called for and the   *)
(* callback's own calls are the only steps.  Of TCP the module has what    *)
(* touches the buffer: a segment that completes a passive open raises      *)
(* CONNECTED (section 5 of tcp_process) before its payload is copied to    *)
(* the ring (section 6); Tcp has the rest.                                 *)
(***************************************************************************)
EXTENDS Integers, FiniteSets

CONSTANTS
  MAX_BINDS,        \* slots of the UDP binding table
  Ports,            \* port numbers, 0 among them
  Reserved,         \* ports owned by the modem
  ECHO_PORT,        \* 7, or 0 without the echo service
  Cbs, NoCb,        \* receive callbacks, and the null pointer
  Addrs,            \* addresses; this host's is one of them
  Broadcast,
  Data,             \* payloads
  Inputs            \* packets the link delivers

None == [proto |-> "none"]
Protos == {"ICMP_REQUEST", "ICMP_REPLY", "ICMP_OTHER", "UDP", "TCP", "OTHER"}
\* `valid`: the header checks and checksums of the packet's layers hold.
Packets == [proto : Protos, valid : BOOLEAN, src : Addrs \cup {Broadcast},
            dst : Addrs \cup {Broadcast},
            sport : Ports, dport : Ports, data : Data]

Slots == 0 .. MAX_BINDS - 1

VARIABLES
  inited,       \* the static guard of tiku_kits_net_udp_init
  bind_table,   \* port and callback of each slot; port 0 is free
  in_rx,        \* the re-entrancy guard
  our_addr, active_link, reply_cb,
  net_buf,      \* the packet in the buffer
  running,      \* the packet whose callback is running, or None
  owner,        \* ghost: the callback running
  out           \* addresses and protocol of the packet last given to the link
vars == <<inited, bind_table, in_rx, our_addr, active_link, reply_cb, net_buf, running,
          owner, out>>
table == <<inited, bind_table>>
config == <<our_addr, active_link, reply_cb>>

Free == [port |-> 0, cb |-> NoCb]

Init ==
  /\ inited = FALSE /\ bind_table = [s \in Slots |-> Free] /\ in_rx = FALSE
  /\ our_addr \in Addrs /\ active_link = FALSE /\ reply_cb = FALSE
  /\ net_buf = None /\ running = None /\ owner = NoCb /\ out = None

(***************************************************************************)
(* Configuration and the binding table, from any context.                  *)
(***************************************************************************)
tiku_kits_net_udp_init ==
  /\ inited' = TRUE
  /\ IF inited THEN UNCHANGED <<bind_table, in_rx>>
     ELSE bind_table' = [s \in Slots |-> Free] /\ in_rx' = FALSE
  /\ UNCHANGED <<config, net_buf, running, owner, out>>

tiku_kits_net_udp_bind(port, cb) ==
  /\ port # 0 /\ port \notin Reserved
  /\ \A s \in Slots : bind_table[s].port # port
  /\ \E s \in Slots :
       /\ bind_table[s].port = 0 /\ \A t \in Slots : t < s => bind_table[t].port # 0
       /\ bind_table' = [bind_table EXCEPT ![s] = [port |-> port, cb |-> cb]]
  /\ UNCHANGED <<inited, in_rx, config, net_buf, running, owner, out>>

tiku_kits_net_udp_unbind(port) ==
  /\ \E s \in Slots :
       /\ bind_table[s].port = port /\ \A t \in Slots : t < s => bind_table[t].port # port
       /\ bind_table' = [bind_table EXCEPT ![s] = Free]
  /\ UNCHANGED <<inited, in_rx, config, net_buf, running, owner, out>>

SetAddr(a) == our_addr' = a /\ UNCHANGED <<table, in_rx, active_link, reply_cb, net_buf, running, owner, out>>
SetLink(up) == active_link' = up /\ UNCHANGED <<table, in_rx, our_addr, reply_cb, net_buf, running, owner, out>>
SetReplyCb(on) == reply_cb' = on /\ UNCHANGED <<table, in_rx, our_addr, active_link, net_buf, running, owner, out>>

(***************************************************************************)
(* Output.                                                                 *)
(***************************************************************************)
\* tiku_kits_net_ipv4_output: the packet in the buffer goes to the link, if any.
ipv4_output(pkt) ==
  out' = IF active_link THEN [proto |-> pkt.proto, src |-> pkt.src, dst |-> pkt.dst] ELSE out
\* tiku_kits_net_ipv4_get_buf and the packet built there; outside a callback no
\* handler reads the buffer again.
InBuffer(pkt) == net_buf' = IF running = None THEN None ELSE pkt

Outgoing(proto, dst, sport, dport, data) ==
  [proto |-> proto, valid |-> TRUE, src |-> our_addr, dst |-> dst,
   sport |-> sport, dport |-> dport, data |-> data]

udp_send_unguarded(dst, sport, dport, data) ==
  LET pkt == Outgoing("UDP", dst, sport, dport, data)
  IN  /\ InBuffer(pkt) /\ ipv4_output(pkt)
      /\ UNCHANGED <<table, in_rx, config, running, owner>>
tiku_kits_net_udp_send(dst, sport, dport, data) ==
  LET pkt == Outgoing("UDP", dst, sport, dport, data)
  IN  /\ ~in_rx
      /\ InBuffer(pkt) /\ ipv4_output(pkt)
      /\ UNCHANGED <<table, in_rx, config, running, owner>>

\* tcp_send_segment, which has no guard.
TcpSend(dst, data) ==
  LET pkt == Outgoing("TCP", dst, 0, 0, data)
  IN  /\ InBuffer(pkt) /\ ipv4_output(pkt)
      /\ UNCHANGED <<table, in_rx, config, running, owner>>

(***************************************************************************)
(* Input: the net process has a complete frame in net_buf.                 *)
(***************************************************************************)
ForUs(pkt) == pkt.valid /\ pkt.dst \in {our_addr, Broadcast}

\* The echo replies are made of the request, in place: the answer to a broadcast
\* has the broadcast address as its source.
EchoReply(pkt) == [pkt EXCEPT !.src = pkt.dst, !.dst = pkt.src,
                              !.sport = pkt.dport, !.dport = pkt.sport,
                              !.proto = IF @ = "ICMP_REQUEST" THEN "ICMP_REPLY" ELSE @]

InputDropped(pkt) ==
  /\ \/ ~ForUs(pkt)
     \/ pkt.proto \in {"OTHER", "ICMP_OTHER"}
     \/ pkt.proto = "ICMP_REPLY" /\ ~reply_cb
  /\ net_buf' = None
  /\ UNCHANGED <<table, in_rx, config, running, owner, out>>

InputEcho(pkt) ==
  /\ ForUs(pkt)
  /\ \/ pkt.proto = "ICMP_REQUEST"
     \/ pkt.proto = "UDP" /\ ECHO_PORT # 0 /\ pkt.dport = ECHO_PORT
  /\ ipv4_output(EchoReply(pkt))
  /\ net_buf' = None
  /\ UNCHANGED <<table, in_rx, config, running, owner>>

\* A callback starts; the buffer still holds its packet.
Call(pkt, cb) ==
  /\ running' = pkt /\ net_buf' = pkt /\ owner' = cb
  /\ UNCHANGED <<table, config, out>>

InputReply(pkt) ==
  /\ ForUs(pkt) /\ pkt.proto = "ICMP_REPLY" /\ reply_cb
  /\ Call(pkt, NoCb) /\ UNCHANGED in_rx

Bound(s, pkt) == bind_table[s].port = pkt.dport /\ bind_table[s].cb # NoCb
IsUdp(pkt) == ForUs(pkt) /\ pkt.proto = "UDP" /\ (ECHO_PORT = 0 \/ pkt.dport # ECHO_PORT)

InputUdp(pkt) ==
  /\ IsUdp(pkt)
  /\ \E s \in Slots : /\ Bound(s, pkt) /\ \A t \in Slots : t < s => ~Bound(t, pkt)
                      /\ Call(pkt, bind_table[s].cb)
  /\ in_rx' = TRUE

InputUnbound(pkt) ==
  /\ IsUdp(pkt) /\ \A s \in Slots : ~Bound(s, pkt)
  /\ in_rx' = FALSE /\ net_buf' = None
  /\ UNCHANGED <<table, config, running, owner, out>>

InputTcp(pkt) == ForUs(pkt) /\ pkt.proto = "TCP" /\ Call(pkt, NoCb) /\ UNCHANGED in_rx

\* The net process initialises UDP before its first poll.
Input(pkt) ==
  inited /\ running = None /\ (InputDropped(pkt) \/ InputEcho(pkt) \/ InputReply(pkt)
                               \/ InputUdp(pkt) \/ InputUnbound(pkt) \/ InputTcp(pkt))

\* The handler goes on after its callback: UDP drops its guard, tcp_process
\* copies the payload the buffer holds now, and the process empties the buffer.
Return ==
  /\ running # None
  /\ in_rx' = IF running.proto = "UDP" THEN FALSE ELSE in_rx
  /\ running' = None /\ net_buf' = None /\ owner' = NoCb
  /\ UNCHANGED <<table, config, out>>

Next ==
  \/ tiku_kits_net_udp_init
  \/ \E p \in Ports : tiku_kits_net_udp_unbind(p) \/ \E c \in Cbs : tiku_kits_net_udp_bind(p, c)
  \/ \E a \in Addrs : SetAddr(a)
  \/ \E b \in BOOLEAN : SetLink(b) \/ SetReplyCb(b)
  \/ \E a \in Addrs, d \in Data : \/ TcpSend(a, d)
                                  \/ tiku_kits_net_udp_send(a, 0, 0, d)
  \/ \E pkt \in Inputs : Input(pkt)
  \/ Return

Spec == Init /\ [][Next]_vars

(***************************************************************************)
(* Properties.                                                             *)
(***************************************************************************)
\* Every variable keeps its type, and no port the modem owns is ever bound.
TypeOK ==
  /\ inited \in BOOLEAN /\ in_rx \in BOOLEAN /\ active_link \in BOOLEAN /\ reply_cb \in BOOLEAN
  /\ bind_table \in [Slots -> [port : Ports \ Reserved, cb : Cbs \cup {NoCb}]]
  /\ our_addr \in Addrs /\ owner \in Cbs \cup {NoCb}
  /\ net_buf \in Packets \cup {None} /\ running \in Packets \cup {None}
  /\ out \in [proto : Protos, src : Addrs \cup {Broadcast}, dst : Addrs \cup {Broadcast}] \cup {None}

\* The guard is up exactly while a UDP callback runs: it is never left up,
\* which would silence tiku_kits_net_udp_send for good.
GuardIsTight == in_rx <=> running # None /\ running.proto = "UDP"

\* A UDP callback sees its own datagram for as long as it runs, whatever it
\* calls of UDP; only a segment it sends through TCP, which has no guard of its
\* own, takes the buffer away.
CallbackDataIntact ==
  running # None /\ running.proto = "UDP" => net_buf = running \/ net_buf.proto = "TCP"

\* A datagram goes to one callback, that of the port it names, and a datagram
\* for port 0, which marks free slots, to none.
DispatchIsExact ==
  /\ \A s, t \in Slots : s # t /\ bind_table[s].port # 0 => bind_table[s].port # bind_table[t].port
  /\ \A s \in Slots : bind_table[s].port = 0 <=> bind_table[s].cb = NoCb
  /\ running # None /\ running.proto = "UDP" => running.dport # 0 /\ owner # NoCb

(***************************************************************************)
(* An inductive invariant.                                                 *)
(***************************************************************************)
Bounds == NoCb \notin Cbs /\ 0 \in Ports \ Reserved /\ Inputs \subseteq Packets
\* No packet comes in before tiku_kits_net_udp_init: its second call lowers no guard.
InitBeforeInput == running # None => inited
IpInv == TypeOK /\ InitBeforeInput /\ GuardIsTight /\ CallbackDataIntact /\ DispatchIsExact
=============================================================================
