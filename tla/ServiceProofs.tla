---------------------------- MODULE ServiceProofs ----------------------------
(***************************************************************************)
(* Proofs about the parts of MCServices, for all values of their constants *)
(* that meet the assumptions.  Every part has an inductive invariant in    *)
(* its own module, which only its own steps can touch.                     *)
(***************************************************************************)
EXTENDS MCServices, FiniteSetTheorems, WellFoundedInduction, SequenceTheorems, TLAPS

(***************************************************************************)
(* The names that the shared variables have in the parts.                  *)
(***************************************************************************)
inited == s1
router == s1
resolver == s1
client == s1
up == s1
nodes == s1
station == s1
radio == s2
air == s3
got == s3
ran == s4
heard == s4
counters == s5
bind_table == s2
net == s2
leases == s2
in_rx == s3
now == s3
addr == s3
started == s3
our_addr == s4
given == s4
cache == s4
acked == s4
reply == s4
owner == s5
calls == s5
held == s5
stored == s5
active_link == s6
asked == s6
reply_cb == s7
net_buf == s8
reboots == s7
taken == s8
running == s9
ignored == s9
out == s10
slip_state == s1
slip_overflow == s2
decoded == s3
uart == s4
packets == s5
handed == s6
sends == s7
USE DEF inited, router, resolver, client, up, bind_table, net, leases, in_rx, now, addr, started, our_addr, given,
    cache, acked, reply, owner, nodes, got, ran, reboots, taken, ignored, station, radio, air, heard, counters,
    calls, held, stored, active_link, asked, reply_cb, net_buf, running, out, slip_state, slip_overflow, decoded, uart,
    packets, handed, sends

(***************************************************************************)
(* A step of a scenario is a step of its part.                             *)
(***************************************************************************)
LEMMA InitOfPart ==
  ASSUME Init
  PROVE  /\ scenario = "ip" => U!Init
         /\ scenario = "station" => W(StationConst)!Init
         /\ scenario = "life" => W(LifeConst)!Init
         /\ scenario = "router" => R!Init
         /\ scenario = "server" => Exchange(ServerConst)!Init
         /\ scenario = "client" => Exchange(ClientConst)!Init
         /\ scenario = "tftp" => File!Init
         /\ scenario = "dns" => Resolver!Init
         /\ scenario = "dhcp" => Lease!Init
         /\ scenario = "dhcps" => Leases!Init
         /\ scenario \in {"http", "parser"} => H!Init
         /\ scenario = "slip" => S!Init
BY DEF Init, InitIs

LEMMA StepOfPart ==
  ASSUME [Next]_vars
  PROVE  /\ scenario' = scenario
         /\ scenario = "ip" => U!Next \/ UNCHANGED U!vars
         /\ scenario = "station" => W(StationConst)!StationNext \/ UNCHANGED W(StationConst)!vars
         /\ scenario = "life" => W(LifeConst)!Next \/ UNCHANGED W(LifeConst)!vars
         /\ scenario = "router" => R!Next \/ UNCHANGED R!vars
         /\ scenario = "server" => Exchange(ServerConst)!Next \/ UNCHANGED Exchange(ServerConst)!vars
         /\ scenario = "client" => Exchange(ClientConst)!Next \/ UNCHANGED Exchange(ClientConst)!vars
         /\ scenario = "tftp" => File!Next \/ UNCHANGED File!vars
         /\ scenario = "dns" => Resolver!Next \/ UNCHANGED Resolver!vars
         /\ scenario = "dhcp" => Lease!Next \/ UNCHANGED Lease!vars
         /\ scenario = "dhcps" => Leases!Next \/ UNCHANGED Leases!vars
         /\ scenario = "http" => H!Next \/ UNCHANGED H!vars
         /\ scenario = "parser" => H!FeedNext \/ UNCHANGED H!vars
         /\ scenario = "slip" => S!Next \/ UNCHANGED S!vars
BY DEF Next, NextIs, ClientNext, TftpNext, PskNext, vars, U!vars, W!vars, R!vars, Exchange!vars, File!vars,
   Resolver!vars, Lease!vars, Leases!vars, H!vars, S!vars

(***************************************************************************)
(* IPv4 and UDP: DispatchIsExact, CallbackDataIntact and GuardIsTight, for *)
(* any ports, callbacks, addresses and packets.                            *)
(***************************************************************************)
LEMMA IpStarts ==
  ASSUME U!Bounds, U!Init
  PROVE  U!IpInv
  <1>1. /\ inited = FALSE /\ bind_table = [s \in U!Slots |-> U!Free] /\ in_rx = FALSE /\ our_addr \in IpConst.Addrs
        /\ active_link = FALSE /\ reply_cb = FALSE /\ net_buf = U!None /\ running = U!None /\ owner = IpConst.NoCb
        /\ out = U!None
    BY DEF U!Init
  <1>2. U!Free \in [port : IpConst.Ports \ IpConst.Reserved, cb : IpConst.Cbs \union {IpConst.NoCb}]
        /\ U!Free.port = 0 /\ U!Free.cb = IpConst.NoCb
    BY DEF U!Free, U!Bounds
  <1>3. U!TypeOK
    BY <1>1, <1>2 DEF U!TypeOK
  <1>4. U!DispatchIsExact
    BY <1>1, <1>2 DEF U!DispatchIsExact
  <1> QED
    BY <1>1, <1>3, <1>4 DEF U!IpInv, U!InitBeforeInput, U!GuardIsTight, U!CallbackDataIntact

\* A step that leaves the table and the callback that runs alone.
LEMMA IpQuiet ==
  ASSUME U!IpInv, U!TypeOK', UNCHANGED <<inited, bind_table, in_rx, running, owner>>,
         in_rx => net_buf' = net_buf \/ net_buf'.proto = "TCP"
  PROVE  U!IpInv'
  BY DEF U!IpInv, U!InitBeforeInput, U!GuardIsTight, U!CallbackDataIntact, U!DispatchIsExact

\* tiku_kits_net_udp_init, bind and unbind, and the configuration.
LEMMA IpCallKeeps ==
  ASSUME U!Bounds, U!IpInv,
         \/ U!tiku_kits_net_udp_init
         \/ \E p \in IpConst.Ports : \/ U!tiku_kits_net_udp_unbind(p)
                                    \/ \E c \in IpConst.Cbs : U!tiku_kits_net_udp_bind(p, c)
         \/ \E a \in IpConst.Addrs : U!SetAddr(a)
         \/ \E b \in BOOLEAN : U!SetLink(b) \/ U!SetReplyCb(b)
  PROVE  U!IpInv'
  <1>0. U!TypeOK /\ bind_table \in [U!Slots -> [port : IpConst.Ports \ IpConst.Reserved, cb : IpConst.Cbs
       \union {IpConst.NoCb}]]
    BY DEF U!IpInv, U!TypeOK
  <1>1. U!Free \in [port : IpConst.Ports \ IpConst.Reserved, cb : IpConst.Cbs \union {IpConst.NoCb}]
        /\ U!Free.port = 0 /\ U!Free.cb = IpConst.NoCb
    BY DEF U!Free, U!Bounds
  <1>2. CASE U!tiku_kits_net_udp_init
    <2>1. inited' = TRUE /\ UNCHANGED <<U!config, net_buf, running, owner, out>>
      BY <1>2 DEF U!tiku_kits_net_udp_init
    <2>2. CASE inited
      <3>1. UNCHANGED <<inited, bind_table, in_rx>> /\ inited \in BOOLEAN
        BY <1>0, <1>2, <2>1, <2>2 DEF U!tiku_kits_net_udp_init, U!TypeOK
      <3>2. U!TypeOK'
        BY <1>0, <2>1, <3>1 DEF U!TypeOK, U!config
      <3>3. UNCHANGED <<inited, bind_table, in_rx, running, owner>> /\ net_buf' = net_buf
        BY <2>1, <3>1
      <3> QED
        BY <3>2, <3>3, IpQuiet
    <2>3. CASE ~inited
      <3>1. bind_table' = [s \in U!Slots |-> U!Free] /\ in_rx' = FALSE /\ running = U!None /\ ~in_rx
        BY <1>2, <2>3 DEF U!tiku_kits_net_udp_init, U!IpInv, U!InitBeforeInput, U!GuardIsTight
      <3>2. U!TypeOK'
        BY <1>0, <1>1, <2>1, <3>1 DEF U!TypeOK, U!config
      <3>3. U!DispatchIsExact'
        BY <1>1, <2>1, <3>1 DEF U!DispatchIsExact
      <3> QED
        BY <2>1, <3>1, <3>2, <3>3 DEF U!IpInv, U!InitBeforeInput, U!GuardIsTight, U!CallbackDataIntact
    <2> QED
      BY <2>2, <2>3
  <1>3. ASSUME NEW p \in IpConst.Ports, U!tiku_kits_net_udp_unbind(p)
        PROVE  U!IpInv'
    <2>1. PICK s \in U!Slots : bind_table' = [bind_table EXCEPT ![s] = U!Free]
      BY <1>3 DEF U!tiku_kits_net_udp_unbind
    <2>2. UNCHANGED <<inited, in_rx, U!config, net_buf, running, owner, out>>
      BY <1>3 DEF U!tiku_kits_net_udp_unbind
    <2>3. U!TypeOK'
      BY <1>0, <1>1, <2>1, <2>2 DEF U!TypeOK, U!config
    <2>4. U!DispatchIsExact'
      BY <1>0, <1>1, <2>1, <2>2 DEF U!DispatchIsExact, U!IpInv
    <2> QED
      BY <2>2, <2>3, <2>4 DEF U!IpInv, U!InitBeforeInput, U!GuardIsTight, U!CallbackDataIntact
  <1>4. ASSUME NEW p \in IpConst.Ports, NEW c \in IpConst.Cbs, U!tiku_kits_net_udp_bind(p, c)
        PROVE  U!IpInv'
    <2>1. PICK e : e = [port |-> p, cb |-> c]
      OBVIOUS
    <2>2. PICK s \in U!Slots : bind_table[s].port = 0 /\ bind_table' = [bind_table EXCEPT ![s] = e]
      BY <1>4, <2>1 DEF U!tiku_kits_net_udp_bind
    <2>3. /\ p # 0 /\ p \notin IpConst.Reserved /\ \A x \in U!Slots : bind_table[x].port # p
          /\ UNCHANGED <<inited, in_rx, U!config, net_buf, running, owner, out>>
      BY <1>4 DEF U!tiku_kits_net_udp_bind
    <2>4. e \in [port : IpConst.Ports \ IpConst.Reserved, cb : IpConst.Cbs \union {IpConst.NoCb}]
          /\ e.port = p /\ e.cb # IpConst.NoCb
      BY <2>1, <2>3 DEF U!Bounds
    <2>5. U!TypeOK'
      BY <1>0, <2>2, <2>3, <2>4 DEF U!TypeOK, U!config
    <2>6. U!DispatchIsExact'
      BY <1>0, <2>2, <2>3, <2>4 DEF U!DispatchIsExact, U!IpInv
    <2> QED
      BY <2>3, <2>5, <2>6 DEF U!IpInv, U!InitBeforeInput, U!GuardIsTight, U!CallbackDataIntact
  <1>5. ASSUME NEW a \in IpConst.Addrs, U!SetAddr(a)
        PROVE  U!IpInv'
    BY <1>0, <1>5, IpQuiet DEF U!SetAddr, U!table, U!TypeOK
  <1>6. ASSUME NEW b \in BOOLEAN, U!SetLink(b) \/ U!SetReplyCb(b)
        PROVE  U!IpInv'
    BY <1>0, <1>6, IpQuiet DEF U!SetLink, U!SetReplyCb, U!table, U!TypeOK
  <1> QED
    BY <1>2, <1>3, <1>4, <1>5, <1>6

\* What is built in the buffer: by UDP only while no callback of its own runs.
LEMMA IpSendKeeps ==
  ASSUME U!Bounds, U!IpInv, NEW a \in IpConst.Addrs, NEW x \in IpConst.Data,
         U!TcpSend(a, x) \/ U!tiku_kits_net_udp_send(a, 0, 0, x)
  PROVE  U!IpInv'
  <1>1. PICK proto \in {"TCP", "UDP"} :
           /\ U!InBuffer(U!Outgoing(proto, a, 0, 0, x)) /\ U!ipv4_output(U!Outgoing(proto, a, 0, 0, x))
           /\ UNCHANGED <<U!table, in_rx, U!config, running, owner>>
           /\ proto = "UDP" => ~in_rx
    BY DEF U!TcpSend, U!tiku_kits_net_udp_send
  <1>2. PICK pkt : pkt = U!Outgoing(proto, a, 0, 0, x)
    OBVIOUS
  <1>3. pkt \in U!Packets /\ pkt.proto = proto
    BY <1>2 DEF U!Outgoing, U!Packets, U!Protos, U!Bounds, U!IpInv, U!TypeOK
  <1>4. net_buf' \in {pkt, U!None} /\ (running # U!None => net_buf' = pkt)
    BY <1>1, <1>2 DEF U!InBuffer
  <1>5. out' \in [proto : U!Protos, src : IpConst.Addrs \union {IpConst.Broadcast}, dst : IpConst.Addrs
       \union {IpConst.Broadcast}]
                   \union {U!None}
    BY <1>1, <1>2, <1>3 DEF U!ipv4_output, U!Packets, U!IpInv, U!TypeOK
  <1>6. U!TypeOK'
    BY <1>1, <1>3, <1>4, <1>5 DEF U!IpInv, U!TypeOK, U!table, U!config
  <1>7. in_rx => running # U!None
    BY DEF U!IpInv, U!GuardIsTight
  <1>8. in_rx => net_buf'.proto = "TCP"
    BY <1>1, <1>3, <1>4, <1>7
  <1>9. UNCHANGED <<inited, bind_table, in_rx, running, owner>>
    BY <1>1 DEF U!table
  <1> QED
    BY <1>6, <1>8, <1>9, IpQuiet

\* A callback that starts is the one whose port the packet names, and has its packet.
LEMMA IpInputKeeps ==
  ASSUME U!Bounds, U!IpInv, NEW pkt \in IpConst.Inputs, U!Input(pkt)
  PROVE  U!IpInv'
  <1>1. U!TypeOK /\ inited /\ running = U!None /\ ~in_rx /\ pkt \in U!Packets /\ pkt.proto # "none"
       /\ U!None.proto = "none"
    BY DEF U!Input, U!IpInv, U!GuardIsTight, U!Bounds, U!Packets, U!Protos, U!None
  <1>2. ASSUME net_buf' = U!None, UNCHANGED <<U!table, in_rx, U!config, running, owner>>,
               \/ UNCHANGED out
               \/ out' \in [proto : U!Protos, src : IpConst.Addrs \union {IpConst.Broadcast},
                            dst : IpConst.Addrs \union {IpConst.Broadcast}]
        PROVE  U!IpInv'
    <2>1. U!TypeOK'
      BY <1>1, <1>2 DEF U!TypeOK, U!table, U!config
    <2> QED
      BY <1>1, <1>2, <2>1, IpQuiet DEF U!table
  <1>3. CASE U!InputDropped(pkt)
    BY <1>2, <1>3 DEF U!InputDropped
  <1>4. CASE U!InputEcho(pkt)
    <2>1. PICK e : e = U!EchoReply(pkt)
      OBVIOUS
    <2>2. e.proto \in U!Protos /\ e.src = pkt.dst /\ e.dst = pkt.src
      BY <1>1, <2>1 DEF U!EchoReply, U!Packets, U!Protos
    <2>3. UNCHANGED out \/ out' = [proto |-> e.proto, src |-> e.src, dst |-> e.dst]
      BY <1>4, <2>1 DEF U!InputEcho, U!ipv4_output
    <2>4. \/ UNCHANGED out
          \/ out' \in [proto : U!Protos, src : IpConst.Addrs \union {IpConst.Broadcast},
                       dst : IpConst.Addrs \union {IpConst.Broadcast}]
      BY <1>1, <2>2, <2>3 DEF U!Packets
    <2> QED
      BY <1>2, <1>4, <2>4 DEF U!InputEcho
  <1>5. CASE U!InputReply(pkt) \/ U!InputTcp(pkt)
    <2>1. /\ pkt.proto # "UDP" /\ running' = pkt /\ net_buf' = pkt /\ owner' = IpConst.NoCb
          /\ UNCHANGED <<U!table, U!config, out, in_rx>>
      BY <1>5 DEF U!InputReply, U!InputTcp, U!Call
    <2>2. U!TypeOK'
      BY <1>1, <2>1 DEF U!TypeOK, U!table, U!config
    <2> QED
      BY <1>1, <2>1, <2>2 DEF U!table, U!IpInv, U!InitBeforeInput, U!GuardIsTight, U!CallbackDataIntact,
         U!DispatchIsExact
  <1>6. CASE U!InputUdp(pkt)
    <2>1. PICK s \in U!Slots : U!Bound(s, pkt) /\ U!Call(pkt, bind_table[s].cb)
      BY <1>6 DEF U!InputUdp
    <2>2. /\ in_rx' = TRUE /\ pkt.proto = "UDP" /\ running' = pkt /\ net_buf' = pkt /\ owner' = bind_table[s].cb
          /\ UNCHANGED <<U!table, U!config, out>>
      BY <1>6, <2>1 DEF U!InputUdp, U!IsUdp, U!Call
    <2>3. bind_table[s].cb # IpConst.NoCb /\ bind_table[s].port = pkt.dport /\ bind_table[s].port # 0
      BY <2>1 DEF U!Bound, U!IpInv, U!DispatchIsExact
    <2>4. U!TypeOK'
      BY <1>1, <2>2 DEF U!TypeOK, U!table, U!config
    <2>5. U!DispatchIsExact'
      BY <2>2, <2>3 DEF U!IpInv, U!DispatchIsExact, U!table
    <2> QED
      BY <1>1, <2>2, <2>4, <2>5 DEF U!table, U!IpInv, U!InitBeforeInput, U!GuardIsTight, U!CallbackDataIntact
  <1>7. CASE U!InputUnbound(pkt)
    <2>1. in_rx = FALSE
      BY <1>1 DEF U!TypeOK
    <2> QED
      BY <1>2, <1>7, <2>1 DEF U!InputUnbound
  <1> QED
    BY <1>3, <1>4, <1>5, <1>6, <1>7 DEF U!Input

LEMMA IpKeeps ==
  ASSUME U!Bounds, U!IpInv, U!Next \/ UNCHANGED U!vars
  PROVE  U!IpInv'
  <1>1. CASE UNCHANGED U!vars
    BY <1>1 DEF U!vars, U!IpInv, U!TypeOK, U!InitBeforeInput, U!GuardIsTight, U!CallbackDataIntact, U!DispatchIsExact
  <1>2. CASE U!Return
    <2>1. /\ in_rx' = (IF running.proto = "UDP" THEN FALSE ELSE in_rx) /\ running' = U!None /\ net_buf' = U!None
          /\ owner' = IpConst.NoCb /\ UNCHANGED <<U!table, U!config, out>> /\ running # U!None
      BY <1>2 DEF U!Return
    <2>2. in_rx' = FALSE
      BY <2>1 DEF U!IpInv, U!GuardIsTight, U!TypeOK
    <2>3. U!TypeOK'
      BY <2>1, <2>2 DEF U!IpInv, U!TypeOK, U!table, U!config
    <2> QED
      BY <2>1, <2>2, <2>3 DEF U!table, U!IpInv, U!InitBeforeInput, U!GuardIsTight, U!CallbackDataIntact,
         U!DispatchIsExact
  <1> QED
    BY <1>1, <1>2, IpCallKeeps, IpSendKeeps, IpInputKeeps DEF U!Next

\* A datagram goes to one callback, that of its port, which sees it for as long as it
\* runs, whatever it sends by UDP; the guard is up exactly then.
THEOREM DatagramsArrive == Spec => []DatagramsIntact
  <1> DEFINE Safe == scenario = "ip" => U!IpInv
  <1>1. Init => Safe
    BY InitOfPart, IpStarts, ServiceBounds
  <1>2. Safe /\ [Next]_vars => Safe'
    BY StepOfPart, IpKeeps, ServiceBounds
  <1>3. Safe => DatagramsIntact
    BY DEF U!IpInv, DatagramsIntact
  <1> QED
    BY <1>1, <1>2, <1>3, PTL DEF Spec

(***************************************************************************)
(* Wi-Fi: Addressed and NothingOfTheLast, for any stations, networks,      *)
(* packets and order of events.                                            *)
(***************************************************************************)
\* What a step of the link process leaves: of each thing what there was, or nothing.
Less(k, a, b) ==
  /\ b \in W(k)!States /\ b.cache \in {a.cache, W(k)!Clear} /\ b.wait \in {a.wait, NULL}
  /\ b.addr \in {a.addr, NULL} /\ b.lease \in {a.lease, NULL} /\ b.tcp \in {a.tcp, NULL}
Gone(k, b) == b.cache = W(k)!Clear /\ b.addr = NULL /\ b.lease = NULL /\ b.tcp = NULL

LEMMA ClearFacts ==
  ASSUME NEW k, W(k)!Bounds
  PROVE  /\ W(k)!Clear \in [W(k)!Slots -> [ip : W(k)!Optional(k.Hosts), mac : W(k)!Optional(k.Macs), net : Nat]]
         /\ \A i \in W(k)!Slots : W(k)!Clear[i].ip = NULL
         /\ 0 \in W(k)!Slots
  BY DEF W!Clear, W!Unused, W!Optional, W!Slots, W!Bounds

LEMMA StationStarts ==
  ASSUME NEW k, W(k)!Bounds, W(k)!Init
  PROVE  W(k)!WifiInv
  <1>1. station = [cache |-> W(k)!Clear, next |-> 0, wait |-> NULL, reconnect |-> TRUE, lease |-> NULL,
                   addr |-> NULL, dhcp |-> "idle", tcp |-> NULL, until |-> NULL]
    BY DEF W!Init
  <1>2. PICK dual \in BOOLEAN : radio = [joined |-> FALSE, ap |-> FALSE, dual |-> dual, down |-> 0, active |-> TRUE,
                                         missed |-> FALSE]
    BY DEF W!Init, W!Bounds
  <1>3. /\ air.id = 0 /\ heard = [h \in k.Hosts |-> NULL] /\ counters = [packets |-> 0, nets |-> 0, now |-> 0]
    BY DEF W!Init, W!Silent
  <1>4. W(k)!Shapes
    BY <1>1, <1>2, <1>3, ClearFacts DEF W!Shapes, W!States, W!Optional
  <1>5. W(k)!Distinct /\ W(k)!Fresh /\ W(k)!HeldBack
    BY <1>1, <1>3, ClearFacts DEF W!Distinct, W!Fresh, W!HeldBack
  <1> QED
    BY <1>4, <1>5 DEF W!WifiInv

LEMMA LessFacts ==
  ASSUME NEW k, W(k)!Bounds, W(k)!Shapes, NEW a \in W(k)!States
  PROVE  /\ Less(k, a, W(k)!Reset(a)) /\ Gone(k, W(k)!Reset(a))
         /\ Less(k, a, W(k)!Leased(a))
         /\ \A ok : Less(k, a, W(k)!Starts(a, ok)) /\ (Gone(k, a) => Gone(k, W(k)!Starts(a, ok)))
  <1>1. Less(k, a, W(k)!Reset(a)) /\ Gone(k, W(k)!Reset(a))
    BY ClearFacts DEF Less, Gone, W!Reset, W!States, W!Optional
  <1>2. ASSUME NEW u \in W(k)!Optional(Nat) PROVE Less(k, a, [a EXCEPT !.until = u])
    BY <1>2 DEF Less, W!States
  <1>4. Less(k, a, W(k)!Leased(a))
    <2>1. CASE W(k)!Leased(a) = [a EXCEPT !.until = NULL]
      BY <1>2, <2>1 DEF W!Optional
    <2>2. CASE W(k)!Leased(a) # [a EXCEPT !.until = NULL]
      <3>1. PICK u : u = IF a.until = NULL THEN counters.now + k.LEASE_TICKS ELSE a.until
        OBVIOUS
      <3>2. u \in W(k)!Optional(Nat)
        BY <3>1 DEF W!Shapes, W!States, W!Optional, W!Bounds
      <3>3. PICK l : l = [a EXCEPT !.until = u]
        OBVIOUS
      <3>4. W(k)!Leased(a) \in {l, [W(k)!Reset(l) EXCEPT !.reconnect = TRUE]}
        BY <2>2, <3>1, <3>3 DEF W!Leased
      <3>5. Less(k, a, l) /\ l \in W(k)!States
        BY <1>2, <3>2, <3>3 DEF Less
      <3>6. Less(k, l, [W(k)!Reset(l) EXCEPT !.reconnect = TRUE])
        BY <3>5, ClearFacts DEF Less, W!Reset, W!States, W!Optional
      <3> QED
        BY <3>4, <3>5, <3>6 DEF Less
    <2> QED
      BY <2>1, <2>2
  <1>5. ASSUME NEW ok PROVE Less(k, a, W(k)!Starts(a, ok)) /\ (Gone(k, a) => Gone(k, W(k)!Starts(a, ok)))
    <2>1. CASE W(k)!Starts(a, ok) = a
      BY <2>1 DEF Less
    <2>2. CASE W(k)!Starts(a, ok) = [a EXCEPT !.reconnect = FALSE, !.dhcp = "trying", !.lease = NULL]
      BY <2>2 DEF Less, Gone, W!States, W!Optional
    <2> QED
      BY <2>1, <2>2 DEF W!Starts
  <1> QED
    BY <1>1, <1>4, <1>5

\* The link process, or an exchange that ends.
LEMMA LessKeeps ==
  ASSUME NEW k, W(k)!Bounds, W(k)!WifiInv, W(k)!Shapes', Less(k, station, station'), UNCHANGED <<air, heard, counters>>,
         radio'.joined = radio.joined,
         radio'.down = 0 /\ ~radio'.missed => Gone(k, station') \/ (radio.down = 0 /\ ~radio.missed)
  PROVE  W(k)!WifiInv'
  <1>1. W(k)!Distinct'
    BY ClearFacts DEF Less, W!WifiInv, W!Distinct
  <1>2. W(k)!HeldBack'
    BY DEF Less, W!WifiInv, W!HeldBack
  <1>3. ASSUME radio'.down = 0 /\ ~radio'.missed PROVE W(k)!Fresh'
    <2>1. CASE Gone(k, station')
      BY <2>1, ClearFacts DEF Gone, W!Fresh
    <2>2. CASE radio.down = 0 /\ ~radio.missed
      BY <2>2, ClearFacts DEF Less, W!WifiInv, W!Fresh
    <2> QED
      BY <1>3, <2>1, <2>2
  <1> QED
    BY <1>1, <1>2, <1>3 DEF W!WifiInv

\* A neighbour that is learnt takes the place of its address, or one of another.
LEMMA LearnFacts ==
  ASSUME NEW k, W(k)!Bounds, W(k)!Shapes, W(k)!Distinct, NEW ip \in k.Hosts, NEW mac \in k.Macs
  PROVE  \E slot \in W(k)!Slots, next \in W(k)!Slots :
           /\ W(k)!Learn(station, ip, mac) = [station EXCEPT !.cache[slot] =
              [ip |-> ip, mac |-> mac, net |-> counters.nets],
                                                          !.next = next]
           /\ \A i \in W(k)!Slots : i # slot => station.cache[i].ip # ip
  <1>0. station \in W(k)!States /\ station.next \in W(k)!Slots
    BY DEF W!Shapes, W!States
  <1>1. PICK e : e = [ip |-> ip, mac |-> mac, net |-> counters.nets]
    OBVIOUS
  <1>2. ip # NULL
    BY DEF W!Bounds
  <1>3. CASE W(k)!Known(station, ip) # {}
    <2>1. PICK slot \in W(k)!Known(station, ip) : W(k)!Learn(station, ip, mac) = [station EXCEPT !.cache[slot] = e]
      <3>1. (CHOOSE i \in W(k)!Known(station, ip) : TRUE) \in W(k)!Known(station, ip)
        BY <1>3
      <3>2. W(k)!Learn(station, ip, mac) = [station EXCEPT !.cache[CHOOSE i \in W(k)!Known(station, ip) : TRUE] = e]
        BY <1>1, <1>3 DEF W!Learn
      <3> QED
        BY <3>1, <3>2
    <2>2. slot \in W(k)!Slots /\ station.cache[slot].ip = ip
      BY DEF W!Known
    <2>3. W(k)!Learn(station, ip, mac) = [station EXCEPT !.cache[slot] = e, !.next = station.next]
      BY <1>0, <2>1 DEF W!States
    <2>4. \A i \in W(k)!Slots : i # slot => station.cache[i].ip # ip
      BY <1>2, <2>2 DEF W!Distinct
    <2> QED
      BY <1>0, <1>1, <2>2, <2>3, <2>4
  <1>4. CASE W(k)!Known(station, ip) = {}
    <2>1. PICK next \in W(k)!Slots : next = (station.next + 1) % k.ARP_CACHE_SIZE
      BY <1>0 DEF W!Slots, W!Bounds
    <2>2. W(k)!Learn(station, ip, mac) = [station EXCEPT !.cache[station.next] = e, !.next = next]
      BY <1>0, <1>1, <1>4, <2>1 DEF W!Learn, W!States
    <2>3. \A i \in W(k)!Slots : station.cache[i].ip # ip
      BY <1>4 DEF W!Known
    <2> QED
      BY <1>0, <1>1, <2>2, <2>3
  <1> QED
    BY <1>3, <1>4

\* wifi_rx_cb, whatever becomes of the packet that is held.
LEMMA HeardKeeps ==
  ASSUME NEW k, W(k)!Bounds, W(k)!WifiInv, NEW ip \in k.Hosts, NEW mac \in k.Macs, radio.joined,
         station' \in W(k)!States, station'.cache = W(k)!Learn(station, ip, mac).cache,
         station'.addr = station.addr, station'.lease = station.lease, station'.tcp = station.tcp,
         heard' = [heard EXCEPT ![ip] = mac], W(k)!HeldBack', UNCHANGED <<radio, counters>>
  PROVE  W(k)!WifiInv'
  <1>0. W(k)!Shapes /\ W(k)!Distinct /\ (radio.down = 0 /\ ~radio.missed => W(k)!Fresh)
    BY DEF W!WifiInv
  <1>1. PICK slot \in W(k)!Slots, next \in W(k)!Slots :
          /\ W(k)!Learn(station, ip, mac) = [station EXCEPT !.cache[slot] =
             [ip |-> ip, mac |-> mac, net |-> counters.nets],
                                                         !.next = next]
          /\ \A i \in W(k)!Slots : i # slot => station.cache[i].ip # ip
    BY <1>0, LearnFacts
  <1>2. station'.cache = [station.cache EXCEPT ![slot] = [ip |-> ip, mac |-> mac, net |-> counters.nets]]
    BY <1>0, <1>1 DEF W!Shapes, W!States
  <1>3. /\ \A i \in W(k)!Slots : i # slot => station'.cache[i] = station.cache[i]
        /\ station'.cache[slot].ip = ip /\ station'.cache[slot].mac = mac /\ station'.cache[slot].net = counters.nets
    BY <1>0, <1>1, <1>2 DEF W!Shapes, W!States
  <1>4. W(k)!Shapes' /\ heard'[ip] = mac /\ \A h \in k.Hosts : h # ip => heard'[h] = heard[h]
    BY <1>0 DEF W!Shapes, W!Optional
  <1>5. W(k)!Distinct'
    <2>1. ASSUME NEW i \in W(k)!Slots, NEW j \in W(k)!Slots, station'.cache[i].ip # NULL,
                 station'.cache[i].ip = station'.cache[j].ip
          PROVE  i = j
      BY <1>0, <1>1, <1>3, <2>1 DEF W!Distinct
    <2> QED
      BY <2>1 DEF W!Distinct
  <1>6. ASSUME radio'.down = 0 /\ ~radio'.missed PROVE W(k)!Fresh'
    <2>1. W(k)!Fresh
      BY <1>0, <1>6
    <2>2. ASSUME NEW i \in W(k)!Slots, station'.cache[i].ip # NULL
          PROVE  /\ radio'.joined /\ station'.cache[i].net = counters'.nets
                 /\ heard'[station'.cache[i].ip] = station'.cache[i].mac
      <3>1. CASE i = slot
        BY <1>3, <1>4, <3>1
      <3>2. CASE i # slot
        <4>1. station'.cache[i] = station.cache[i] /\ station.cache[i].ip # ip /\ station.cache[i].ip \in k.Hosts
          BY <1>0, <1>1, <1>3, <2>2, <3>2 DEF W!Shapes, W!States, W!Optional
        <4> QED
          BY <1>4, <2>1, <2>2, <4>1 DEF W!Fresh
      <3> QED
        BY <3>1, <3>2
    <2>3. \A of \in {station'.addr, station'.lease, station'.tcp} : of # NULL => radio'.joined /\ of = counters'.nets
      BY <2>1 DEF W!Fresh
    <2> QED
      BY <2>2, <2>3 DEF W!Fresh
  <1> QED
    BY <1>4, <1>5, <1>6 DEF W!WifiInv

LEMMA ReceiveKeeps ==
  ASSUME NEW k, W(k)!Bounds, W(k)!WifiInv, NEW ip \in k.Hosts, NEW mac \in k.Macs,
         W(k)!ReceiveArp(ip, mac) \/ W(k)!ReceiveIp(ip, mac)
  PROVE  W(k)!WifiInv'
  <1>0. /\ W(k)!Shapes /\ W(k)!Distinct /\ W(k)!HeldBack /\ station \in W(k)!States
        /\ radio.joined /\ heard' = [heard EXCEPT ![ip] = mac] /\ UNCHANGED <<radio, counters>>
    BY DEF W!WifiInv, W!Shapes, W!ReceiveArp, W!ReceiveIp
  <1>1. PICK l : l = W(k)!Learn(station, ip, mac)
    OBVIOUS
  <1>2. l \in W(k)!States /\ l.wait = station.wait /\ l.addr = station.addr /\ l.lease = station.lease
       /\ l.tcp = station.tcp
    <2>1. PICK slot \in W(k)!Slots, next \in W(k)!Slots :
            /\ W(k)!Learn(station, ip, mac) = [station EXCEPT !.cache[slot] =
               [ip |-> ip, mac |-> mac, net |-> counters.nets],
                                                           !.next = next]
            /\ \A i \in W(k)!Slots : i # slot => station.cache[i].ip # ip
      BY <1>0, LearnFacts
    <2>2. PICK entry \in [ip : W(k)!Optional(k.Hosts), mac : W(k)!Optional(k.Macs), net : Nat] :
            entry = [ip |-> ip, mac |-> mac, net |-> counters.nets]
      BY <1>0 DEF W!Shapes, W!Optional
    <2>3. l = [station EXCEPT !.cache[slot] = entry, !.next = next]
      BY <1>1, <2>1, <2>2
    <2>4. l = [station EXCEPT !.cache = [station.cache EXCEPT ![slot] = entry], !.next = next]
      BY <1>0, <2>3 DEF W!States
    <2> QED
      BY <1>0, <2>4 DEF W!States
  <1>3. CASE W(k)!ReceiveIp(ip, mac)
    <2>1. station' = l /\ UNCHANGED air
      BY <1>1, <1>3 DEF W!ReceiveIp
    <2>2. W(k)!HeldBack'
      BY <1>0, <1>2, <2>1 DEF W!HeldBack
    <2> QED
      BY <1>0, <1>1, <1>2, <2>1, <2>2, HeardKeeps
  <1>4. CASE W(k)!ReceiveArp(ip, mac)
    <2>1. CASE l.wait # NULL /\ l.wait.hop = ip
      <3>1. PICK p : p = l.wait
        OBVIOUS
      <3>2. /\ p.dst \in k.Hosts /\ p.id \in 1 .. counters.packets /\ p.id # air.id
        BY <1>0, <1>2, <2>1, <3>1 DEF W!States, W!Optional, W!HeldBack
      <3>3. PICK b : b = [l EXCEPT !.wait = NULL]
        OBVIOUS
      <3>4. /\ b \in W(k)!States /\ b.wait = NULL /\ b.cache = l.cache /\ b.addr = l.addr /\ b.lease = l.lease
            /\ b.tcp = l.tcp
        BY <1>2, <3>3 DEF W!States, W!Optional
      <3>5. PICK hop \in k.Hosts : hop = W(k)!Hop(b, p.dst)
        BY <3>2 DEF W!Hop, W!Bounds
      <3>6. \/ station' = b /\ air'.id = p.id
            \/ station' = [b EXCEPT !.wait = [dst |-> p.dst, id |-> p.id, hop |-> hop]] /\ UNCHANGED air
        BY <1>0, <1>1, <1>4, <2>1, <3>1, <3>3, <3>5 DEF W!ReceiveArp, W!Send
      <3>7. CASE station' = b /\ air'.id = p.id
        <4>1. W(k)!HeldBack'
          BY <1>0, <3>2, <3>4, <3>7 DEF W!HeldBack
        <4> QED
          BY <1>0, <1>1, <1>2, <3>4, <3>7, <4>1, HeardKeeps
      <3>8. CASE station' = [b EXCEPT !.wait = [dst |-> p.dst, id |-> p.id, hop |-> hop]] /\ UNCHANGED air
        <4>1. /\ station' \in W(k)!States /\ station'.cache = b.cache /\ station'.addr = b.addr
              /\ station'.lease = b.lease /\ station'.tcp = b.tcp /\ station'.wait.id = p.id
          BY <3>2, <3>4, <3>8 DEF W!States, W!Optional
        <4>2. W(k)!HeldBack'
          BY <1>0, <3>2, <3>8, <4>1 DEF W!HeldBack
        <4> QED
          BY <1>0, <1>1, <1>2, <3>4, <4>1, <4>2, HeardKeeps
      <3> QED
        BY <3>6, <3>7, <3>8
    <2>2. CASE ~(l.wait # NULL /\ l.wait.hop = ip)
      <3>1. station' = l /\ UNCHANGED air
        BY <1>1, <1>4, <2>2 DEF W!ReceiveArp
      <3>2. W(k)!HeldBack'
        BY <1>0, <1>2, <3>1 DEF W!HeldBack
      <3> QED
        BY <1>0, <1>1, <1>2, <3>1, <3>2, HeardKeeps
    <2> QED
      BY <2>1, <2>2
  <1> QED
    BY <1>3, <1>4

\* wifi_send.
LEMMA SendIpKeeps ==
  ASSUME NEW k, W(k)!Bounds, W(k)!WifiInv, NEW dst \in k.Hosts, W(k)!SendIp(dst)
  PROVE  W(k)!WifiInv'
  <1>0. /\ W(k)!Shapes /\ W(k)!Distinct /\ W(k)!HeldBack /\ station \in W(k)!States /\ UNCHANGED <<radio, heard>>
        /\ counters \in [packets : Nat, nets : Nat, now : Nat]
    BY DEF W!WifiInv, W!Shapes, W!SendIp
  <1>1. PICK id \in Nat \ {0} : id = counters.packets + 1
    BY <1>0
  <1>2. counters' = [counters EXCEPT !.packets = id]
    BY <1>1 DEF W!SendIp
  <1>3. counters' \in [packets : Nat, nets : Nat, now : Nat] /\ counters'.packets = id /\ counters'.nets = counters.nets
    BY <1>0, <1>2
  <1>4. PICK p : p = [dst |-> dst, id |-> id]
    OBVIOUS
  <1>5. PICK hop \in k.Hosts : hop = W(k)!Hop(station, dst)
    BY DEF W!Hop, W!Bounds
  <1>6. \/ station' = station /\ air' = air
        \/ station' = station /\ air'.id = id
        \/ station' = [station EXCEPT !.wait = [dst |-> dst, id |-> id, hop |-> hop]] /\ air' = air
    BY <1>1, <1>5 DEF W!SendIp, W!Send
  <1>7. ASSUME station' \in W(k)!States, station'.cache = station.cache, station'.addr = station.addr,
               station'.lease = station.lease, station'.tcp = station.tcp, W(k)!HeldBack'
        PROVE  W(k)!WifiInv'
    <2>1. W(k)!Shapes' /\ W(k)!Distinct'
      BY <1>0, <1>3, <1>7 DEF W!Shapes, W!Distinct
    <2>2. W(k)!Fresh => W(k)!Fresh'
      BY <1>0, <1>3, <1>7 DEF W!Fresh
    <2> QED
      BY <1>0, <1>7, <2>1, <2>2 DEF W!WifiInv
  <1>8. CASE station' = station
    <2>1. W(k)!HeldBack'
      BY <1>0, <1>1, <1>3, <1>6, <1>8 DEF W!HeldBack, W!States
    <2> QED
      BY <1>0, <1>7, <1>8, <2>1
  <1>9. CASE station' = [station EXCEPT !.wait = [dst |-> dst, id |-> id, hop |-> hop]] /\ air' = air
    <2>1. /\ station' \in W(k)!States /\ station'.cache = station.cache /\ station'.addr = station.addr
          /\ station'.lease = station.lease /\ station'.tcp = station.tcp /\ station'.wait.id = id
      BY <1>0, <1>9 DEF W!States, W!Optional
    <2>2. W(k)!HeldBack'
      BY <1>0, <1>1, <1>3, <1>9, <2>1 DEF W!HeldBack
    <2> QED
      BY <1>7, <2>1, <2>2
  <1> QED
    BY <1>6, <1>8, <1>9

\* wifi_link_process.
LEMMA ProcessKeeps ==
  ASSUME NEW k, W(k)!Bounds, W(k)!WifiInv, NEW event \in BOOLEAN, NEW ok \in BOOLEAN, W(k)!Process(event, ok)
  PROVE  W(k)!WifiInv'
  <1>0. /\ W(k)!Shapes /\ station \in W(k)!States /\ UNCHANGED <<air, heard, counters>>
        /\ radio \in [joined : BOOLEAN, ap : BOOLEAN, dual : BOOLEAN, down : Nat, active : BOOLEAN, missed : BOOLEAN]
    BY DEF W!WifiInv, W!Shapes, W!Process
  <1>1. PICK ends \in BOOLEAN : ends = (event /\ radio.down > 0)
    BY <1>0
  <1>2. PICK early \in BOOLEAN : early = (~radio.active \/ (radio.ap /\ ~radio.dual))
    BY <1>0
  <1>3. PICK down \in Nat : down = IF ends THEN radio.down - 1 ELSE radio.down
    <2>1. ends => radio.down > 0
      BY <1>1
    <2> QED
      BY <1>0, <2>1
  <1>4. PICK missed \in BOOLEAN : missed = (radio.missed \/ (ends /\ early))
    BY <1>0
  <1>5. radio' = [radio EXCEPT !.down = down, !.missed = missed]
    BY <1>1, <1>2, <1>3, <1>4 DEF W!Process
  <1>6. /\ radio' \in [joined : BOOLEAN, ap : BOOLEAN, dual : BOOLEAN, down : Nat, active : BOOLEAN, missed : BOOLEAN]
        /\ radio'.joined = radio.joined /\ radio'.down = down /\ radio'.missed = missed
    BY <1>0, <1>5
  <1>7. PICK l : l = W(k)!Leased(station)
    OBVIOUS
  <1>8. Less(k, station, l) /\ l \in W(k)!States
    BY <1>0, <1>7, LessFacts DEF Less
  <1>9. ASSUME Less(k, station, station'), ends => early \/ Gone(k, station')
        PROVE  W(k)!WifiInv'
    <2>1. W(k)!Shapes'
      BY <1>0, <1>6, <1>9 DEF W!Shapes, Less
    <2>2. radio'.down = 0 /\ ~radio'.missed => Gone(k, station') \/ (radio.down = 0 /\ ~radio.missed)
      BY <1>3, <1>4, <1>6, <1>9
    <2> QED
      BY <1>0, <1>6, <1>9, <2>1, <2>2, LessKeeps
  <1>10. CASE ~radio.active
    <2>1. station' = [station EXCEPT !.reconnect = FALSE]
      BY <1>10 DEF W!Process
    <2> QED
      BY <1>0, <1>2, <1>9, <1>10, <2>1 DEF Less, W!States
  <1>11. CASE radio.active /\ early
    <2>1. station' = [l EXCEPT !.reconnect = FALSE]
      BY <1>2, <1>7, <1>11 DEF W!Process
    <2>2. Less(k, l, station')
      BY <1>8, <2>1 DEF Less, W!States
    <2> QED
      BY <1>8, <1>9, <1>11, <2>2 DEF Less
  <1>12. CASE radio.active /\ ~early
    <2>1. PICK a : a = IF ends THEN [W(k)!Reset(l) EXCEPT !.reconnect = TRUE] ELSE l
      OBVIOUS
    <2>2. station' = W(k)!Starts(a, ok)
      BY <1>1, <1>2, <1>7, <1>12, <2>1 DEF W!Process
    <2>3. Less(k, l, a) /\ (ends => Gone(k, a))
      <3>1. CASE ends
        <4>1. Less(k, l, W(k)!Reset(l)) /\ Gone(k, W(k)!Reset(l)) /\ W(k)!Reset(l) \in W(k)!States
          BY <1>0, <1>8, LessFacts DEF Less
        <4>2. Less(k, W(k)!Reset(l), a) /\ Gone(k, a)
          BY <2>1, <3>1, <4>1 DEF Less, Gone, W!States
        <4> QED
          BY <4>1, <4>2 DEF Less
      <3>2. CASE ~ends
        BY <1>8, <2>1, <3>2 DEF Less
      <3> QED
        BY <3>1, <3>2
    <2>4. a \in W(k)!States
      BY <2>3 DEF Less
    <2>5. Less(k, a, station') /\ (Gone(k, a) => Gone(k, station'))
      BY <1>0, <2>2, <2>4, LessFacts
    <2>6. Less(k, station, station')
      BY <1>8, <2>3, <2>5 DEF Less
    <2> QED
      BY <1>9, <2>3, <2>5, <2>6
  <1> QED
    BY <1>10, <1>11, <1>12

LEMMA DhcpEndsKeeps ==
  ASSUME NEW k, W(k)!Bounds, W(k)!WifiInv, (\E ok \in BOOLEAN : W(k)!DhcpEnds(ok)) \/ W(k)!TcpOpens
  PROVE  W(k)!WifiInv'
  <1>0. /\ W(k)!Shapes /\ W(k)!Distinct /\ W(k)!HeldBack /\ station \in W(k)!States /\ counters.nets \in Nat
        /\ UNCHANGED <<radio, air, heard, counters>>
    BY DEF W!WifiInv, W!Shapes, W!DhcpEnds, W!TcpOpens
  <1>1. /\ station' \in W(k)!States /\ station'.cache = station.cache /\ station'.wait = station.wait
        /\ station'.addr \in {station.addr, NULL} \/ (station'.addr = counters.nets /\ radio.joined)
        /\ station'.lease = station.lease \/ (station'.lease = counters.nets /\ radio.joined)
        /\ station'.tcp = station.tcp \/ (station'.tcp = counters.nets /\ station.addr # NULL)
    <2>1. ASSUME NEW ok \in BOOLEAN, W(k)!DhcpEnds(ok)
          PROVE  \/ /\ radio.joined
                    /\ station' = [station EXCEPT !.dhcp = "bound", !.lease = counters.nets, !.addr = counters.nets]
                 \/ station' = [station EXCEPT !.dhcp = "failed", !.addr = NULL]
      BY <2>1 DEF W!DhcpEnds
    <2>2. CASE radio.joined /\ station' = [station EXCEPT !.dhcp = "bound", !.lease = counters.nets,
         !.addr = counters.nets]
      BY <1>0, <2>2 DEF W!States, W!Optional
    <2>3. CASE station' = [station EXCEPT !.dhcp = "failed", !.addr = NULL]
      BY <1>0, <2>3 DEF W!States, W!Optional
    <2>4. CASE W(k)!TcpOpens
      BY <1>0, <2>4 DEF W!TcpOpens, W!States, W!Optional
    <2> QED
      BY <2>1, <2>2, <2>3, <2>4
  <1>2. W(k)!Shapes' /\ W(k)!Distinct' /\ W(k)!HeldBack'
    BY <1>0, <1>1 DEF W!Shapes, W!Distinct, W!HeldBack
  <1>3. W(k)!Fresh => W(k)!Fresh'
    BY <1>0, <1>1 DEF W!Fresh
  <1> QED
    BY <1>0, <1>2, <1>3 DEF W!WifiInv

\* The radio, the user and time.
LEMMA RadioKeeps ==
  ASSUME NEW k, W(k)!Bounds, W(k)!WifiInv, W(k)!Joins \/ W(k)!Loses \/ W(k)!SwitchAp \/ W(k)!SwitchLink \/ W(k)!Tick
  PROVE  W(k)!WifiInv'
  <1>0. /\ W(k)!Shapes /\ W(k)!Distinct /\ W(k)!HeldBack /\ station \in W(k)!States /\ UNCHANGED <<station, air>>
        /\ radio \in [joined : BOOLEAN, ap : BOOLEAN, dual : BOOLEAN, down : Nat, active : BOOLEAN, missed : BOOLEAN]
        /\ counters \in [packets : Nat, nets : Nat, now : Nat] /\ heard \in [k.Hosts -> W(k)!Optional(k.Macs)]
    BY DEF W!WifiInv, W!Shapes, W!Joins, W!Loses, W!SwitchAp, W!SwitchLink, W!Tick
  <1>1. ASSUME radio' \in [joined : BOOLEAN, ap : BOOLEAN, dual : BOOLEAN, down : Nat, active : BOOLEAN,
       missed : BOOLEAN],
               counters' \in [packets : Nat, nets : Nat, now : Nat], heard' \in [k.Hosts -> W(k)!Optional(k.Macs)],
               counters'.packets = counters.packets,
               radio'.down = 0 /\ ~radio'.missed => W(k)!Fresh'
        PROVE  W(k)!WifiInv'
    <2>1. W(k)!Shapes' /\ W(k)!Distinct' /\ W(k)!HeldBack'
      BY <1>0, <1>1 DEF W!Shapes, W!Distinct, W!HeldBack
    <2> QED
      BY <1>1, <2>1 DEF W!WifiInv
  <1>2. CASE W(k)!Joins
    <2>1. /\ radio' = [radio EXCEPT !.joined = TRUE] /\ counters' = [counters EXCEPT !.nets = @ + 1] /\ ~radio.joined
          /\ heard' = [h \in k.Hosts |-> NULL]
      BY <1>2 DEF W!Joins
    <2>2. /\ radio' \in [joined : BOOLEAN, ap : BOOLEAN, dual : BOOLEAN, down : Nat, active : BOOLEAN, missed : BOOLEAN]
          /\ radio'.down = radio.down /\ radio'.missed = radio.missed
      BY <1>0, <2>1
    <2>3. counters' \in [packets : Nat, nets : Nat, now : Nat] /\ counters'.packets = counters.packets
      <3>1. PICK nets \in Nat : nets = counters.nets + 1
        BY <1>0
      <3>2. counters' = [counters EXCEPT !.nets = nets]
        BY <2>1, <3>1
      <3> QED
        BY <1>0, <3>2
    <2>4. heard' \in [k.Hosts -> W(k)!Optional(k.Macs)]
      BY <2>1 DEF W!Optional
    <2>5. radio'.down = 0 /\ ~radio'.missed => W(k)!Fresh'
      BY <1>0, <2>1, <2>2 DEF W!WifiInv, W!Fresh
    <2> QED
      BY <1>1, <2>2, <2>3, <2>4, <2>5
  <1>3. CASE W(k)!Loses
    <2>1. PICK down \in Nat : down = radio.down + 1 /\ down # 0
      BY <1>0
    <2>2. radio' = [radio EXCEPT !.joined = FALSE, !.down = down] /\ UNCHANGED <<heard, counters>>
      BY <1>3, <2>1 DEF W!Loses
    <2>3. /\ radio' \in [joined : BOOLEAN, ap : BOOLEAN, dual : BOOLEAN, down : Nat, active : BOOLEAN, missed : BOOLEAN]
          /\ radio'.down # 0
      BY <1>0, <2>1, <2>2
    <2> QED
      BY <1>0, <1>1, <2>2, <2>3
  <1>4. CASE W(k)!SwitchAp \/ W(k)!SwitchLink
    <2>1. /\ radio' \in [joined : BOOLEAN, ap : BOOLEAN, dual : BOOLEAN, down : Nat, active : BOOLEAN, missed : BOOLEAN]
          /\ radio'.down = radio.down /\ radio'.missed = radio.missed /\ radio'.joined = radio.joined
          /\ UNCHANGED <<heard, counters>>
      <3>1. CASE W(k)!SwitchAp
        BY <1>0, <3>1 DEF W!SwitchAp
      <3>2. CASE W(k)!SwitchLink
        BY <1>0, <3>2 DEF W!SwitchLink
      <3> QED
        BY <1>4, <3>1, <3>2
    <2>2. radio'.down = 0 /\ ~radio'.missed => W(k)!Fresh'
      BY <1>0, <2>1 DEF W!WifiInv, W!Fresh
    <2> QED
      BY <1>0, <1>1, <2>1, <2>2
  <1>5. CASE W(k)!Tick
    <2>1. PICK time \in Nat : time = counters.now + 1
      BY <1>0
    <2>2. counters' = [counters EXCEPT !.now = time] /\ UNCHANGED <<radio, heard>>
      BY <1>5, <2>1 DEF W!Tick
    <2>3. /\ counters' \in [packets : Nat, nets : Nat, now : Nat] /\ counters'.packets = counters.packets
          /\ counters'.nets = counters.nets
      BY <1>0, <2>2
    <2>4. radio'.down = 0 /\ ~radio'.missed => W(k)!Fresh'
      BY <1>0, <2>2, <2>3 DEF W!WifiInv, W!Fresh
    <2> QED
      BY <1>0, <1>1, <2>2, <2>3, <2>4
  <1> QED
    BY <1>2, <1>3, <1>4, <1>5

LEMMA StationKeeps ==
  ASSUME NEW k, W(k)!Bounds, W(k)!WifiInv, W(k)!Next \/ UNCHANGED W(k)!vars
  PROVE  W(k)!WifiInv'
  <1>1. CASE UNCHANGED W(k)!vars
    BY <1>1 DEF W!vars, W!WifiInv, W!Shapes, W!Distinct, W!HeldBack, W!Fresh
  <1>2. CASE W(k)!Next
    BY <1>2, SendIpKeeps, ReceiveKeeps, ProcessKeeps, DhcpEndsKeeps, RadioKeeps DEF W!Next, W!StationNext
  <1> QED
    BY <1>1, <1>2

LEMMA StationFollows ==
  ASSUME NEW k, W(k)!WifiInv
  PROVE  W(k)!Addressed /\ W(k)!NothingOfTheLast
  <1>1. W(k)!Addressed
    BY DEF W!WifiInv, W!Distinct, W!HeldBack, W!Fresh, W!Addressed
  <1>2. W(k)!NothingOfTheLast
    BY DEF W!WifiInv, W!Fresh, W!NothingOfTheLast
  <1> QED
    BY <1>1, <1>2

\* However networks are lost and joined and LINK_DOWN events wait: once they are
\* dealt with, a frame goes to the station that its next hop was last heard from,
\* and no address, neighbour or connection is of a network that is lost.
THEOREM FramesFindTheirStation == Spec => []StationSound
  <1> DEFINE Safe == /\ scenario = "station" => W(StationConst)!WifiInv
                     /\ scenario = "life" => W(LifeConst)!WifiInv
  <1>1. Init => Safe
    BY InitOfPart, StationStarts, ServiceBounds
  <1>2. Safe /\ [Next]_vars => Safe'
    <2>1. W(StationConst)!StationNext => W(StationConst)!Next
      BY DEF W!Next
    <2> QED
      BY <2>1, StepOfPart, StationKeeps, ServiceBounds
  <1>3. Safe => StationSound
    BY StationFollows DEF StationSound
  <1> QED
    BY <1>1, <1>2, <1>3, PTL DEF Spec

(***************************************************************************)
(* The router: Translates, for any clients, leases, servers and times,     *)
(* while no more packets go out than there are external ports: after that  *)
(* a late answer may find its port given to another flow.                  *)
(***************************************************************************)
\* The module's own counting is the library's.
LEMMA RouterCounts ==
  \A A : R!IsFiniteSet(A) = IsFiniteSet(A) /\ R!Cardinality(A) = Cardinality(A)
BY DEF R!IsFiniteSet, IsFiniteSet, R!Cardinality, Cardinality

\* The least slot of some is one of them, and 0 is below every number.
LEMMA RouterLeastIn ==
  ASSUME NEW set \in SUBSET Nat, set # {}
  PROVE  R!Least(set) \in set /\ (0 \in set => R!Least(set) = 0)
  <1>3. PICK m : m = R!Least(set)
    OBVIOUS
  <1>4. m \in set /\ \A j \in set : m <= j
    BY <1>3, H!LeastOfSome DEF R!Least
  <1>5. 0 \in set => m = 0
    BY <1>4
  <1> QED
    BY <1>3, <1>4, <1>5, Zenon

\* An empty table.
LEMMA EmptyFacts ==
  ASSUME R!Bounds, NEW sent
  PROVE  R!None \in R!Flows /\ R!None.proto = NULL /\ R!Empty \in [R!Slots -> R!Flows] /\ R!FlowsOK(R!Empty, sent)
  <1>1. R!None \in R!Flows /\ R!None.proto = NULL
    BY DEF R!Bounds, R!None, R!Flows
  <1>2. R!Empty \in [R!Slots -> R!Flows]
    BY <1>1 DEF R!Empty
  <1>3. R!Used(R!Empty) = {}
    BY <1>1 DEF R!Used, R!Empty
  <1> QED
    BY <1>1, <1>2, <1>3 DEF R!FlowsOK

\* Fewer flows, the others as they were but for their time.
LEMMA Fewer ==
  ASSUME NEW f, NEW g, NEW sent, R!FlowsOK(f, sent),
         \A i \in R!Used(g) : /\ i \in R!Used(f) /\ g[i].ext = f[i].ext
                            /\ \A p : R!Same(f, i, p) => R!Same(g, i, p)
  PROVE  R!FlowsOK(g, sent)
  <1>1. ASSUME NEW i \in R!Used(g) PROVE \E q \in sent : q.ext = g[i].ext /\ R!Same(g, i, q.from)
    <2>1. PICK q \in sent : q.ext = f[i].ext /\ R!Same(f, i, q.from)
      BY DEF R!FlowsOK
    <2> QED
      BY <2>1
  <1>2. \A i, j \in R!Used(g) : i # j => g[i].ext # g[j].ext
    BY DEF R!FlowsOK
  <1> QED
    BY <1>1, <1>2 DEF R!FlowsOK

\* expire() only frees slots.
LEMMA RouterExpireFacts ==
  ASSUME R!Bounds, R!TypeOK, R!FlowsOK(router.flows, net)
  PROVE  /\ R!Expire(router.flows) \in [R!Slots -> R!Flows] /\ R!FlowsOK(R!Expire(router.flows), net)
         /\ \A i \in R!Used(R!Expire(router.flows)) : i \in R!Used(router.flows)
            /\ R!Expire(router.flows)[i] = router.flows[i]
  <1> DEFINE f == R!Expire(router.flows)
  <1>1. R!None \in R!Flows /\ R!None.proto = NULL /\ router.flows \in [R!Slots -> R!Flows]
    BY EmptyFacts DEF R!TypeOK, R!Routers
  <1>2. f \in [R!Slots -> R!Flows] /\ \A i \in R!Slots : f[i] = R!None \/ f[i] = router.flows[i]
    BY <1>1 DEF R!Expire
  <1> HIDE DEF f
  <1>3. \A i \in R!Used(f) : i \in R!Used(router.flows) /\ f[i] = router.flows[i]
    BY <1>1, <1>2 DEF R!Used
  <1>4. R!FlowsOK(f, net)
    BY <1>3, Fewer DEF R!Same
  <1> QED
    BY <1>2, <1>3, <1>4 DEF f

\* A step that sends nothing and gives nothing to a client.
LEMMA QuietKeeps ==
  ASSUME R!RouterInv, UNCHANGED net, given' = given \/ given' = NULL, router' \in R!Routers, router'.next = router.next,
         now' \in Nat, R!FlowsOK(router'.flows, net)
  PROVE  R!RouterInv'
  <1>1. R!TypeOK' /\ R!NetOK' /\ R!PortsOK'
    BY DEF R!RouterInv, R!TypeOK, R!NetOK, R!PortsOK
  <1>2. R!GivenOK'
    BY DEF R!RouterInv, R!GivenOK
  <1> QED
    BY <1>1, <1>2 DEF R!RouterInv

\* FromNet: the flow of the port the answer came to is the one it went out for.
LEMMA AnswerKeeps ==
  ASSUME R!Bounds, R!RouterInv, NEW q \in net, NEW error \in BOOLEAN, NEW fin \in BOOLEAN, R!FromNet(q, error, fin)
  PROVE  R!RouterInv'
  <1> DEFINE f == R!Expire(router.flows)
             slots == R!Matches(q) \intersect R!Used(f)
             i == R!Least(slots)
  <1>0. /\ f \in [R!Slots -> R!Flows] /\ R!FlowsOK(f, net) /\ router \in R!Routers /\ now \in Nat
        /\ \A k \in R!Used(f) : k \in R!Used(router.flows) /\ f[k] = router.flows[k]
    BY RouterExpireFacts DEF R!RouterInv, R!TypeOK
  <1>1. /\ IF slots = {} THEN router' = [router EXCEPT !.flows = f] /\ UNCHANGED given
           ELSE /\ given' = [mac |-> f[i].mac, ip |-> f[i].ip, port |-> f[i].port, dns |-> f[i].dns, of |-> q,
                   at |-> now]
                /\ router' = [router EXCEPT !.flows = IF error THEN f
                           ELSE [f EXCEPT ![i].expires = now + (IF fin THEN RouterConst.FinTicks
                              ELSE R!Lifetime(f[i].proto))]]
        /\ UNCHANGED <<owner, now, net>>
    BY DEF R!FromNet
  <1>2. CASE slots = {}
    <2>1. router' \in R!Routers /\ router'.next = router.next /\ router'.flows = f
      BY <1>0, <1>1, <1>2 DEF R!Routers
    <2> QED
      BY <1>0, <1>1, <1>2, <2>1, QuietKeeps
  <1>3. CASE slots # {}
    <2>1. i \in slots /\ slots \in SUBSET Nat
      <3>1. slots \in SUBSET Nat
        BY DEF R!Matches, R!Used, R!Slots
      <3> QED
        BY <1>3, <3>1, RouterLeastIn
    <2> HIDE DEF i
    <2>2. i \in R!Slots /\ i \in R!Used(f) /\ i \in R!Used(router.flows) /\ f[i] = router.flows[i] /\ f[i].ext = q.ext
         /\ f[i] \in R!Flows
      BY <1>0, <2>1 DEF R!Matches, R!Used
    <2> HIDE DEF f, slots
    <2>3. PICK s \in net : s.ext = f[i].ext /\ R!Same(f, i, s.from)
      BY <1>0, <2>2 DEF R!FlowsOK
    <2>4. R!Alike(q.from, s.from)
      BY <2>2, <2>3 DEF R!RouterInv, R!NetOK
    <2>5. R!GivenOK'
      BY <1>1, <1>3, <2>3, <2>4 DEF R!GivenOK, R!Same, R!Alike
    <2>6. PICK g : g = IF error THEN f ELSE [f EXCEPT ![i].expires = now + (IF fin THEN RouterConst.FinTicks
         ELSE R!Lifetime(f[i].proto))]
      OBVIOUS
    <2>7. g \in [R!Slots -> R!Flows] /\ \A k \in R!Slots : \E e : g[k] = f[k] \/ g[k] = [f[k] EXCEPT !.expires = e]
      <3>1. PICK t : t = now + (IF fin THEN RouterConst.FinTicks ELSE R!Lifetime(f[i].proto))
        OBVIOUS
      <3>2. t \in Nat
        BY <1>0, <3>1 DEF R!Bounds, R!Lifetime
      <3>3. g = f \/ g = [f EXCEPT ![i] = [f[i] EXCEPT !.expires = t]]
        BY <2>6, <3>1
      <3>4. [f[i] EXCEPT !.expires = t] \in R!Flows
        BY <2>2, <3>2 DEF R!Flows
      <3>5. CASE g = f
        BY <1>0, <3>5
      <3>6. CASE g = [f EXCEPT ![i] = [f[i] EXCEPT !.expires = t]]
        <4>1. g \in [R!Slots -> R!Flows]
          BY <1>0, <3>4, <3>6
        <4>2. \A k \in R!Slots : g[k] = f[k] \/ g[k] = [f[k] EXCEPT !.expires = t]
          BY <1>0, <3>6
        <4> QED
          BY <4>1, <4>2
      <3> QED
        BY <3>3, <3>5, <3>6
    <2>8. R!FlowsOK(g, net)
      <3>1. \A k \in R!Slots : /\ g[k].proto = f[k].proto /\ g[k].ext = f[k].ext
                             /\ \A p : R!Same(f, k, p) => R!Same(g, k, p)
        <4> SUFFICES ASSUME NEW k \in R!Slots
                     PROVE  /\ g[k].proto = f[k].proto /\ g[k].ext = f[k].ext
                            /\ \A p : R!Same(f, k, p) => R!Same(g, k, p)
          OBVIOUS
        <4>1. f[k] \in R!Flows
          BY <1>0
        <4>2. PICK e : g[k] = f[k] \/ g[k] = [f[k] EXCEPT !.expires = e]
          BY <2>7
        <4> QED
          BY <4>1, <4>2 DEF R!Flows, R!Same
      <3> QED
        BY <1>0, <3>1, Fewer DEF R!Used
    <2>9. router' = [router EXCEPT !.flows = g]
      BY <1>1, <1>3, <2>6
    <2>10. router' \in R!Routers /\ router'.next = router.next /\ router'.flows = g
      BY <1>0, <2>7, <2>9 DEF R!Routers
    <2>11. R!TypeOK' /\ R!NetOK' /\ R!PortsOK'
      BY <1>1, <2>10 DEF R!RouterInv, R!TypeOK, R!NetOK, R!PortsOK
    <2> QED
      BY <1>1, <2>5, <2>8, <2>10, <2>11 DEF R!RouterInv
  <1> QED
    BY <1>2, <1>3

\* While ports are left the next of them is one no flow has: allocate_port
\* takes it.
LEMMA NextPort ==
  ASSUME R!Bounds, NEW f \in [R!Slots -> R!Flows], NEW n \in 0..RouterConst.PORTS - 1,
     router.next = n % RouterConst.PORTS,
         \A k \in R!Used(f) : f[k].ext < n
  PROVE  router.next = n /\ R!Ports(f) # {} /\ R!Least(R!Ports(f)) = 0 /\ (router.next + 0) % RouterConst.PORTS = n
  <1>1. n % RouterConst.PORTS = n
    BY DEF R!Bounds
  <1>2. (n + 0) % RouterConst.PORTS = n
    BY <1>1
  <1>3. 0 \in R!Ports(f)
    <2>1. \A k \in R!Used(f) : f[k].ext # n
      <3> SUFFICES ASSUME NEW k \in R!Used(f) PROVE f[k].ext # n
        OBVIOUS
      <3>1. f[k].ext < n
        OBVIOUS
      <3> QED
        BY <3>1
    <2>2. router.next = n /\ 0 \in 0..RouterConst.FLOWS
      BY <1>1 DEF R!Bounds
    <2> QED
      BY <1>2, <2>1, <2>2 DEF R!Ports
  <1>4. R!Ports(f) \in SUBSET Nat
    BY DEF R!Ports
  <1> QED
    BY <1>1, <1>2, <1>3, <1>4, RouterLeastIn

\* A packet that goes out under the port of a flow, which is its own by then.
LEMMA SentKeeps ==
  ASSUME R!Bounds, R!RouterInv, Cardinality(net) < RouterConst.MaxSent, NEW p \in R!Packets,
     NEW f \in [R!Slots -> R!Flows], R!FlowsOK(f, net),
         NEW i \in R!Slots, NEW fl \in R!Flows, fl.proto = p.proto, R!Same([f EXCEPT ![i] = fl], i, p),
         NEW n \in 0..Cardinality(net), NEW m \in 0..Cardinality(net) + 1, fl.ext < m,
         \A q \in net : q.ext < n,
         \/ fl.ext = n /\ m = n + 1
         \/ m = n /\ i \in R!Used(f) /\ f[i].ext = fl.ext /\ R!Same(f, i, p),
         router' = [router EXCEPT !.next = m % RouterConst.PORTS, !.flows = [f EXCEPT ![i] = fl]],
         net' = net \union {[from |-> p, ext |-> fl.ext, uplink |-> router.uplink]}, UNCHANGED <<now, given>>
  PROVE  R!RouterInv'
  <1> DEFINE g == [f EXCEPT ![i] = fl]
             new == [from |-> p, ext |-> fl.ext, uplink |-> router.uplink]
  <1>1. /\ router \in R!Routers /\ RouterConst.PORTS \in Nat \ {0} /\ IsFiniteSet(net) /\ Cardinality(net) \in Nat
        /\ net \in SUBSET [from : R!Packets, ext : 0..RouterConst.PORTS - 1, uplink : RouterConst.Uplinks \union {NULL}]
        /\ fl.ext \in Nat /\ fl.ext \in 0..RouterConst.PORTS - 1 /\ router.uplink \in RouterConst.Uplinks \union {NULL}
    <2>1. IsFiniteSet(net) /\ Cardinality(net) \in Nat
      BY FS_CardinalityType, RouterCounts DEF R!RouterInv, R!PortsOK
    <2>2. /\ router \in R!Routers /\ RouterConst.PORTS \in Nat \ {0}
          /\ net \in SUBSET [from : R!Packets, ext : 0..RouterConst.PORTS - 1, uplink : RouterConst.Uplinks
             \union {NULL}]
      BY DEF R!RouterInv, R!TypeOK, R!Bounds
    <2>3. fl.ext \in Nat /\ fl.ext \in 0..RouterConst.PORTS - 1
      BY <2>2 DEF R!Flows
    <2>4. router.uplink \in RouterConst.Uplinks \union {NULL}
      BY <2>2 DEF R!Routers
    <2> QED
      BY <2>1, <2>2, <2>3, <2>4
  <1>2. /\ router' \in R!Routers /\ router'.flows = g /\ router'.next = m % RouterConst.PORTS
           /\ g \in [R!Slots -> R!Flows]
    <2>1. m % RouterConst.PORTS \in 0..RouterConst.PORTS - 1
      BY <1>1
    <2>2. g \in [R!Slots -> R!Flows]
      OBVIOUS
    <2>3. PICK k : k = m % RouterConst.PORTS
      OBVIOUS
    <2>4. router' = [router EXCEPT !.next = k, !.flows = g] /\ k \in 0..RouterConst.PORTS - 1
      BY <2>1, <2>3
    <2>5. router' \in R!Routers /\ router'.flows = g /\ router'.next = k
      BY <1>1, <2>2, <2>4 DEF R!Routers
    <2> QED
      BY <2>2, <2>3, <2>5
  <1>3. g[i] = fl /\ \A k \in R!Slots : k # i => g[k] = f[k]
    OBVIOUS
  <1> HIDE DEF g
  <1>4. new.from = p /\ new.ext = fl.ext /\ new \in [from : R!Packets, ext : 0..RouterConst.PORTS - 1,
       uplink : RouterConst.Uplinks \union {NULL}]
    BY <1>1
  <1> HIDE DEF new
  <1>5. net' = net \union {new}
    BY DEF new
  <1>6. R!TypeOK'
    BY <1>1, <1>2, <1>4, <1>5 DEF R!RouterInv, R!TypeOK
  <1>7. \A q \in net : q.ext = fl.ext => R!Alike(q.from, p)
    <2> SUFFICES ASSUME NEW q \in net, q.ext = fl.ext PROVE R!Alike(q.from, p)
      OBVIOUS
    <2>1. q.ext \in Nat /\ q.ext < n /\ n \in Nat
      BY <1>1
    <2>2. i \in R!Used(f) /\ f[i].ext = fl.ext /\ R!Same(f, i, p)
      BY <1>1, <2>1
    <2>3. PICK s \in net : s.ext = f[i].ext /\ R!Same(f, i, s.from)
      BY <2>2 DEF R!FlowsOK
    <2>4. R!Alike(q.from, s.from)
      BY <2>2, <2>3 DEF R!RouterInv, R!NetOK
    <2> QED
      BY <2>2, <2>3, <2>4 DEF R!Alike, R!Same
  <1>8. R!NetOK'
    <2>1. \A q \in net : q.ext = new.ext => R!Alike(q.from, new.from) /\ R!Alike(new.from, q.from)
      BY <1>4, <1>7 DEF R!Alike
    <2>2. R!Alike(new.from, new.from)
      BY DEF R!Alike
    <2> QED
      BY <1>5, <2>1, <2>2 DEF R!RouterInv, R!NetOK
  <1>9. R!PortsOK'
    <2>1. IsFiniteSet(net') /\ Cardinality(net') = IF new \in net THEN Cardinality(net) ELSE Cardinality(net) + 1
      <3>1. PICK s : s = net \union {new}
        OBVIOUS
      <3>2. IsFiniteSet(s) /\ Cardinality(s) = IF new \in net THEN Cardinality(net) ELSE Cardinality(net) + 1
        BY <1>1, <3>1, FS_AddElement
      <3>3. net' = s
        BY <1>5, <3>1
      <3> QED
        BY <3>2, <3>3, Zenon
    <2>2. m \in 0..Cardinality(net')
      <3>1. CASE m = n
        BY <1>1, <2>1, <3>1
      <3>2. CASE m # n
        <4>1. new \notin net
          <5> SUFFICES ASSUME new \in net PROVE FALSE
            OBVIOUS
          <5>1. new.ext < n /\ new.ext = n
            BY <1>4, <3>2
          <5> QED
            BY <5>1
        <4> QED
          BY <1>1, <2>1, <3>2, <4>1
      <3> QED
        BY <3>1, <3>2
    <2>3. \A q \in net' : q.ext < m
      <3>1. new.ext < m
        BY <1>4
      <3>2. ASSUME NEW q \in net PROVE q.ext < m
        <4>1. q.ext < n /\ q.ext \in Nat /\ n \in Nat /\ m \in Nat
          BY <1>1
        <4> QED
          BY <4>1
      <3> QED
        BY <1>5, <3>1, <3>2
    <2>4. Cardinality(net') <= RouterConst.MaxSent
      BY <1>1, <2>1 DEF R!Bounds
    <2> QED
      BY <1>2, <2>1, <2>2, <2>3, <2>4, RouterCounts DEF R!PortsOK
  <1>10. R!FlowsOK(g, net')
    <2>1. ASSUME NEW k \in R!Used(g) PROVE \E q \in net' : q.ext = g[k].ext /\ R!Same(g, k, q.from)
      <3>1. CASE k = i
        BY <1>3, <1>4, <1>5, <3>1 DEF g
      <3>2. CASE k # i
        <4>1. k \in R!Used(f) /\ g[k] = f[k]
          BY <1>3, <3>2 DEF R!Used
        <4>2. PICK q \in net : q.ext = f[k].ext /\ R!Same(f, k, q.from)
          BY <4>1 DEF R!FlowsOK
        <4> QED
          BY <1>5, <4>1, <4>2 DEF R!Same
      <3> QED
        BY <3>1, <3>2
    <2>2. ASSUME NEW k \in R!Used(f), k # i PROVE f[k].ext # fl.ext
      <3>1. CASE i \in R!Used(f) /\ f[i].ext = fl.ext
        BY <2>2, <3>1 DEF R!FlowsOK
      <3>2. CASE fl.ext = n
        <4>1. PICK q \in net : q.ext = f[k].ext
          BY <2>2 DEF R!FlowsOK
        <4>2. q.ext < n /\ q.ext \in Nat
          BY <1>1
        <4> QED
          BY <1>1, <3>2, <4>1, <4>2
      <3> QED
        BY <3>1, <3>2
    <2>3. \A k, l \in R!Used(g) : k # l => g[k].ext # g[l].ext
      <3>1. \A k \in R!Used(g) : k # i => k \in R!Used(f) /\ g[k] = f[k]
        BY <1>3 DEF R!Used
      <3>2. g[i].ext = fl.ext
        BY <1>3
      <3> QED
        BY <2>2, <3>1, <3>2 DEF R!FlowsOK
    <2> QED
      BY <2>1, <2>3 DEF R!FlowsOK
  <1> QED
    BY <1>2, <1>6, <1>8, <1>9, <1>10 DEF R!RouterInv, R!GivenOK

\* FromClient: a new flow gets the next port, an old one keeps its own.
LEMMA ClientKeeps ==
  ASSUME R!Bounds, R!RouterInv, NEW p \in R!Packets, NEW flags \in {"syn", "data", "fin", "none"},
     R!FromClient(p, flags)
  PROVE  R!RouterInv'
  <1> DEFINE f == R!Expire(router.flows)
             mine == {i \in R!Used(f) : R!Same(f, i, p)}
             free == R!Slots \ R!Used(f)
             fresh == mine = {} /\ flags \in {"syn", "none"} /\ free # {} /\ R!Ports(f) # {}
             step == IF fresh THEN R!Least(R!Ports(f)) ELSE 0
             i == IF mine # {} THEN R!Least(mine) ELSE R!Least(free)
             ext == IF mine # {} THEN f[i].ext ELSE (router.next + step) % RouterConst.PORTS
             time == now + (IF flags = "fin" THEN RouterConst.FinTicks ELSE R!Lifetime(p.proto))
             fl == [proto |-> p.proto, mac |-> p.mac, ip |-> p.ip, port |-> p.port, remote |-> p.remote,
                    rport |-> p.rport, dns |-> p.dns, ext |-> ext, expires |-> time]
  <1>0. /\ f \in [R!Slots -> R!Flows] /\ R!FlowsOK(f, net) /\ router \in R!Routers /\ now \in Nat
        /\ \A k \in R!Used(f) : k \in R!Used(router.flows) /\ f[k] = router.flows[k]
    BY RouterExpireFacts DEF R!RouterInv, R!TypeOK
  <1>1. /\ Cardinality(net) < RouterConst.MaxSent
        /\ IF mine = {} /\ ~fresh THEN router' = [router EXCEPT !.flows = f] /\ UNCHANGED net
           ELSE /\ router' = [router EXCEPT !.next = IF fresh THEN (@ + step + 1) % RouterConst.PORTS
                   ELSE @, !.flows = [f EXCEPT ![i] = fl]]
                /\ net' = net \union {[from |-> p, ext |-> ext, uplink |-> router.uplink]}
        /\ UNCHANGED <<owner, now, given>>
    BY RouterCounts DEF R!FromClient
  <1>2. CASE mine = {} /\ ~fresh
    <2> HIDE DEF f, mine, fresh
    <2>1. router' \in R!Routers /\ router'.next = router.next /\ router'.flows = f
      BY <1>0, <1>1, <1>2 DEF R!Routers
    <2> QED
      BY <1>0, <1>1, <1>2, <2>1, QuietKeeps
  <1>3. ASSUME ~(mine = {} /\ ~fresh) PROVE R!RouterInv'
    <2>1. /\ Cardinality(net) \in Nat /\ RouterConst.PORTS \in Nat \ {0} /\ RouterConst.MaxSent \in 0..RouterConst.PORTS
          /\ net \in SUBSET [from : R!Packets, ext : 0..RouterConst.PORTS - 1, uplink : RouterConst.Uplinks
             \union {NULL}]
      BY FS_CardinalityType, RouterCounts DEF R!RouterInv, R!PortsOK, R!Bounds, R!TypeOK
    <2>2. PICK n \in 0..Cardinality(net) : router.next = n % RouterConst.PORTS /\ \A q \in net : q.ext < n
      BY RouterCounts DEF R!RouterInv, R!PortsOK
    <2>3. n \in 0..RouterConst.PORTS - 1
      BY <1>1, <2>1
    <2>4. \A k \in R!Used(f) : f[k].ext < n
      BY <1>0, <2>2 DEF R!FlowsOK
    <2>5. router.next = n /\ R!Ports(f) # {} /\ R!Least(R!Ports(f)) = 0 /\ (router.next + 0) % RouterConst.PORTS = n
      BY <1>0, <2>2, <2>3, <2>4, NextPort
    <2>6. mine \in SUBSET Nat /\ free \in SUBSET Nat /\ mine \subseteq R!Slots
      BY DEF R!Used, R!Slots
    <2>7. time \in Nat
      BY <1>0 DEF R!Bounds, R!Lifetime
    <2>8. PICK x, t, s : x = ext /\ t = time /\ s = i
      OBVIOUS
    <2>9. PICK o : o = [proto |-> p.proto, mac |-> p.mac, ip |-> p.ip, port |-> p.port, remote |-> p.remote,
                        rport |-> p.rport, dns |-> p.dns, ext |-> x, expires |-> t]
      OBVIOUS
    <2>10. x \in 0..RouterConst.PORTS - 1 => o \in R!Flows
      BY <2>7, <2>8, <2>9 DEF R!Packets, R!Flows
    <2>11. s \in R!Slots => R!Same([f EXCEPT ![s] = o], s, p)
      BY <1>0, <2>9 DEF R!Same
    <2>12. o.proto = p.proto /\ o.ext = x
      BY <2>9
    <2>13. CASE mine # {}
      <3>1. s \in mine
        BY <2>6, <2>8, <2>13, RouterLeastIn
      <3>2. s \in R!Used(f) /\ R!Same(f, s, p) /\ s \in R!Slots /\ x = f[s].ext /\ x \in 0..RouterConst.PORTS - 1
        BY <1>0, <2>6, <2>8, <2>13, <3>1 DEF R!Flows
      <3>3. router' = [router EXCEPT !.next = n % RouterConst.PORTS, !.flows = [f EXCEPT ![s] = o]]
        BY <1>0, <1>1, <2>2, <2>8, <2>9, <2>13 DEF R!Routers
      <3>4. net' = net \union {[from |-> p, ext |-> o.ext, uplink |-> router.uplink]} /\ UNCHANGED <<now, given>>
        BY <1>1, <2>8, <2>12, <2>13
      <3>5. o.ext < n /\ n \in 0..Cardinality(net) + 1
        BY <2>1, <2>4, <2>12, <3>2
      <3>6. o \in R!Flows /\ f[s].ext = o.ext
        BY <2>10, <2>12, <3>2
      <3>7. PICK m : m = n
        OBVIOUS
      <3>8. router' = [router EXCEPT !.next = m % RouterConst.PORTS, !.flows = [f EXCEPT ![s] = o]] /\ o.ext < m
           /\ m \in 0..Cardinality(net) + 1
        BY <3>3, <3>5, <3>7
      <3> HIDE DEF f, mine, free, fresh, step, i, ext, time, fl
      <3> QED
        BY <1>0, <1>1, <2>2, <2>11, <2>12, <3>2, <3>4, <3>6, <3>7, <3>8, SentKeeps
    <2>14. CASE mine = {}
      <3>1. fresh /\ step = 0
        BY <1>3, <2>5, <2>14
      <3>2. s \in free /\ s \in R!Slots
        BY <2>6, <2>8, <2>14, <3>1, RouterLeastIn
      <3>3. x = n
        BY <2>5, <2>8, <2>14, <3>1
      <3>4. router' = [router EXCEPT !.next = (n + 1) % RouterConst.PORTS, !.flows = [f EXCEPT ![s] = o]]
        <4>1. router.next + step + 1 = n + 1
          BY <2>3, <2>5, <3>1
        <4>2. PICK k : k = (router.next + step + 1) % RouterConst.PORTS
          OBVIOUS
        <4>3. k = (n + 1) % RouterConst.PORTS
          BY <4>1, <4>2, Zenon
        <4>4. router' = [router EXCEPT !.next = k, !.flows = [f EXCEPT ![s] = o]]
          BY <1>0, <1>1, <2>8, <2>9, <2>14, <3>1, <4>2 DEF R!Routers
        <4> QED
          BY <4>3, <4>4
      <3>5. net' = net \union {[from |-> p, ext |-> o.ext, uplink |-> router.uplink]} /\ UNCHANGED <<now, given>>
        BY <1>1, <2>8, <2>12, <2>14, <3>1
      <3>6. n + 1 \in 0..Cardinality(net) + 1 /\ o.ext < n + 1
        BY <2>1, <2>12, <3>3
      <3> HIDE DEF f, mine, free, fresh, step, i, ext, time, fl
      <3> QED
        BY <1>0, <1>1, <2>2, <2>3, <2>10, <2>11, <2>12, <3>2, <3>3, <3>4, <3>5, <3>6, SentKeeps
    <2> QED
      BY <2>13, <2>14
  <1> QED
    BY <1>2, <1>3

\* Setting up, expiry, leases and time send nothing.
LEMMA OthersKeep ==
  ASSUME R!Bounds, R!RouterInv,
         \/ R!Start \/ R!Stop \/ R!Poll \/ R!Tick
         \/ \E on \in BOOLEAN : R!Enable(on)
         \/ \E ip \in RouterConst.Uplinks \union {NULL}, dns \in RouterConst.Remotes \union {NULL} : R!Uplink(ip, dns)
         \/ \E ip \in RouterConst.Pool, mac \in RouterConst.Macs \union {NULL} : R!Lease(ip, mac)
  PROVE  R!RouterInv'
  <1>1. router \in R!Routers /\ router.flows \in [R!Slots -> R!Flows] /\ now \in Nat /\ R!FlowsOK(router.flows, net)
    BY DEF R!RouterInv, R!TypeOK, R!Routers
  <1>2. R!Empty \in [R!Slots -> R!Flows] /\ R!FlowsOK(R!Empty, net)
    BY EmptyFacts
  <1>3. R!Expire(router.flows) \in [R!Slots -> R!Flows] /\ R!FlowsOK(R!Expire(router.flows), net)
    BY RouterExpireFacts DEF R!RouterInv
  <1>4. CASE R!Start \/ R!Stop
    <2>1. router' \in R!Routers /\ router'.next = router.next /\ router'.flows = R!Empty
      BY <1>1, <1>2, <1>4 DEF R!Start, R!Stop, R!Routers
    <2> QED
      BY <1>1, <1>2, <1>4, <2>1, QuietKeeps DEF R!Start, R!Stop
  <1>5. CASE R!Poll
    <2>1. router' \in R!Routers /\ router'.next = router.next /\ router'.flows = R!Expire(router.flows)
      BY <1>1, <1>3, <1>5 DEF R!Poll, R!Routers
    <2> QED
      BY <1>1, <1>3, <1>5, <2>1, QuietKeeps DEF R!Poll
  <1>6. CASE R!Tick
    BY <1>1, <1>6, QuietKeeps DEF R!Tick
  <1>7. ASSUME NEW on \in BOOLEAN, R!Enable(on) PROVE R!RouterInv'
    <2>1. PICK f : f = IF on THEN router.flows ELSE R!Empty
      OBVIOUS
    <2>2. f \in [R!Slots -> R!Flows] /\ R!FlowsOK(f, net)
      BY <1>1, <1>2, <2>1
    <2>3. router' = [router EXCEPT !.enabled = on, !.flows = f]
      BY <1>1, <1>7, <2>1 DEF R!Enable, R!Routers
    <2>4. router' \in R!Routers /\ router'.next = router.next /\ router'.flows = f
      BY <1>1, <2>2, <2>3 DEF R!Routers
    <2> QED
      BY <1>1, <1>7, <2>2, <2>4, QuietKeeps DEF R!Enable
  <1>8. ASSUME NEW ip \in RouterConst.Uplinks \union {NULL}, NEW dns \in RouterConst.Remotes
       \union {NULL}, R!Uplink(ip, dns) PROVE R!RouterInv'
    <2>1. PICK f : f = IF ip = NULL \/ router.uplink # ip \/ (dns # NULL /\ dns # router.resolver) THEN R!Empty
         ELSE router.flows
      OBVIOUS
    <2>2. f \in [R!Slots -> R!Flows] /\ R!FlowsOK(f, net)
      BY <1>1, <1>2, <2>1
    <2>3. router' = [router EXCEPT !.uplink = ip, !.resolver = dns, !.flows = f]
      BY <1>1, <1>8, <2>1 DEF R!Uplink, R!Routers
    <2>4. router' \in R!Routers /\ router'.next = router.next /\ router'.flows = f
      BY <1>1, <2>2, <2>3 DEF R!Routers
    <2> QED
      BY <1>1, <1>8, <2>2, <2>4, QuietKeeps DEF R!Uplink
  <1>9. ASSUME NEW ip \in RouterConst.Pool, NEW mac \in RouterConst.Macs \union {NULL}, R!Lease(ip, mac)
        PROVE R!RouterInv'
    BY <1>1, <1>9, QuietKeeps DEF R!Lease
  <1> QED
    BY <1>4, <1>5, <1>6, <1>7, <1>8, <1>9

LEMMA RouterStarts ==
  ASSUME R!Bounds, R!Init
  PROVE  R!RouterInv
  <1>1. router = [flows |-> R!Empty, next |-> 0, uplink |-> NULL, resolver |-> NULL, enabled |-> TRUE,
       running |-> FALSE]
        /\ now = 0 /\ net = {} /\ given = NULL
    BY DEF R!Init
  <1>2. router \in R!Routers /\ router.flows = R!Empty /\ router.next = 0 /\ R!FlowsOK(router.flows, net)
    BY <1>1, EmptyFacts DEF R!Routers, R!Bounds
  <1>3. R!TypeOK /\ R!NetOK /\ R!GivenOK
    BY <1>1, <1>2 DEF R!TypeOK, R!NetOK, R!GivenOK
  <1>4. R!PortsOK
    <2>1. IsFiniteSet({}) /\ Cardinality({}) = 0
      BY FS_EmptySet
    <2>2. 0 % RouterConst.PORTS = 0 /\ 0 <= RouterConst.MaxSent
      BY DEF R!Bounds
    <2> QED
      BY <1>1, <1>2, <2>1, <2>2, RouterCounts DEF R!PortsOK
  <1> QED
    BY <1>2, <1>3, <1>4 DEF R!RouterInv

LEMMA RouterKeeps ==
  ASSUME R!Bounds, R!RouterInv, R!Next \/ UNCHANGED R!vars
  PROVE  R!RouterInv'
  <1>1. CASE UNCHANGED R!vars
    BY <1>1 DEF R!vars, R!RouterInv, R!TypeOK, R!NetOK, R!PortsOK, R!GivenOK
  <1>2. ASSUME NEW p \in R!Packets, NEW flags \in {"syn", "data", "fin", "none"}, R!FromClient(p, flags)
        PROVE R!RouterInv'
    BY <1>2, ClientKeeps
  <1>3. ASSUME NEW q \in net, NEW error \in BOOLEAN, NEW fin \in BOOLEAN, R!FromNet(q, error, fin) PROVE R!RouterInv'
    BY <1>3, AnswerKeeps
  <1> QED
    BY <1>1, <1>2, <1>3, OthersKeep DEF R!Next

LEMMA RouterTranslates ==
  ASSUME R!Bounds, R!RouterInv
  PROVE  R!Translates
  BY DEF R!RouterInv, R!GivenOK, R!FlowsOK, R!Translates

\* A client is given answers to packets of its own only, whatever leases, flows
\* and late answers do, while external ports are left.
THEOREM AnswersReachTheirClient == Spec => []Translates
  <1> DEFINE Safe == scenario = "router" => R!RouterInv
  <1>1. Init => Safe
    BY InitOfPart, RouterStarts, ServiceBounds
  <1>2. Safe /\ [Next]_vars => Safe'
    BY StepOfPart, RouterKeeps, ServiceBounds
  <1>3. Safe => Translates
    BY RouterTranslates, ServiceBounds DEF Translates
  <1> QED
    BY <1>1, <1>2, <1>3, PTL DEF Spec

(***************************************************************************)
(* CoAP: ResponseMatches and IgnoredWereTaken, for any servers, of this    *)
(* code and of others, and one client.                                     *)
(***************************************************************************)
LEMMA SmallMod == \A x, y \in Nat : x < y => x % y = x
  OBVIOUS

LEMMA NoConFacts ==
  ASSUME NEW k, Exchange(k)!Bounds
  PROVE  /\ Exchange(k)!NoCon \in [active : BOOLEAN, dst : k.Nodes \union {NULL}, mid : Nat, token : Nat,
            retries : Nat, req : Nat]
         /\ Exchange(k)!NoCon.active = FALSE
         /\ Exchange(k)!Fresh \in Exchange(k)!States /\ Exchange(k)!Fresh.con = Exchange(k)!NoCon
         /\ Exchange(k)!Fresh.rx = NULL /\ Exchange(k)!Fresh.dedup = NULL
         /\ Exchange(k)!Fresh.mid = 1 % k.IdSpace /\ Exchange(k)!Fresh.token = 0
  <1>1. /\ Exchange(k)!NoCon \in [active : BOOLEAN, dst : k.Nodes \union {NULL}, mid : Nat, token : Nat, retries : Nat,
           req : Nat]
        /\ Exchange(k)!NoCon.active = FALSE
    BY DEF Exchange!NoCon
  <1>2. PICK mid \in Nat : mid = 1 % k.IdSpace
    BY DEF Exchange!Bounds
  <1> QED
    BY <1>1, <1>2 DEF Exchange!Fresh, Exchange!States

LEMMA CoapStarts ==
  ASSUME NEW k, Exchange(k)!Bounds, Exchange(k)!Init
  PROVE  Exchange(k)!CoapInv
  <1>1. /\ nodes = [n \in k.Nodes |-> Exchange(k)!Fresh] /\ net = {} /\ asked = 0 /\ reboots = 0
        /\ calls = [q \in Exchange(k)!Requests |-> 0] /\ got = [q \in Exchange(k)!Requests |-> {}]
        /\ taken = {} /\ ignored = {}
    BY DEF Exchange!Init
  <1>2. k.Clients \subseteq k.Nodes /\ k.MaxRequests \in Nat
    BY DEF Exchange!Bounds
  <1>3. Exchange(k)!Shapes
    <2>1. nodes \in [k.Nodes -> Exchange(k)!States]
      BY <1>1, NoConFacts
    <2>2. calls \in [Exchange(k)!Requests -> {0, 1}] /\ got \in [Exchange(k)!Requests -> SUBSET (Exchange(k)!Requests
         \union {NULL})]
      BY <1>1
    <2>3. net \in SUBSET Exchange(k)!Messages /\ asked \in 0 .. k.MaxRequests
      BY <1>1, <1>2
    <2> QED
      BY <1>1, <2>1, <2>2, <2>3 DEF Exchange!Shapes
  <1>4. Exchange(k)!NetOK /\ Exchange(k)!NodeOK /\ Exchange(k)!ClientOK
    <2>1. \A n \in k.Nodes : nodes[n] = Exchange(k)!Fresh
      BY <1>1
    <2>2. Exchange(k)!Fresh.mid = (asked + 1) % k.IdSpace /\ Exchange(k)!Fresh.con.active = FALSE
      <3>1. asked + 1 = 1
        BY <1>1
      <3> QED
        BY <3>1, NoConFacts
    <2>3. Exchange(k)!NodeOK /\ Exchange(k)!NetOK
      BY <1>1, <2>1, <2>2, NoConFacts DEF Exchange!NodeOK, Exchange!NetOK
    <2>4. Exchange(k)!ClientOK
      BY <1>1, <1>2, <2>1, <2>2, NoConFacts DEF Exchange!ClientOK
    <2> QED
      BY <2>3, <2>4
  <1> QED
    BY <1>1, <1>3, <1>4 DEF Exchange!CoapInv, Exchange!ResponseMatches, Exchange!IgnoredWereTaken

\* A step of node n that sends no request.
LEMMA NodeKeeps ==
  ASSUME NEW k, Exchange(k)!Bounds, Exchange(k)!CoapInv, NEW n \in k.Nodes,
         nodes' \in [k.Nodes -> Exchange(k)!States], \A x \in k.Nodes : x # n => nodes'[x] = nodes[x],
         net \subseteq net', net' \in SUBSET Exchange(k)!Messages, \A m \in net' : m \in net \/ Exchange(k)!Sound(m),
         UNCHANGED <<asked, reboots>>, taken \subseteq taken',
         nodes'[n].rx # NULL => nodes'[n].rx \in net' /\ nodes'[n].rx.dst = n,
         nodes'[n].dedup # NULL => \E q \in taken' : nodes'[n].dedup[1] = q,
         n \notin k.Clients => ~nodes'[n].con.active /\ calls' = calls,
         n \in k.Clients => nodes'[n].mid = nodes[n].mid /\ nodes'[n].token = nodes[n].token,
         nodes'[n].con.active => /\ nodes[n].con.active /\ nodes'[n].con.req = nodes[n].con.req
                                 /\ nodes'[n].con.mid = nodes[n].con.mid /\ nodes'[n].con.token = nodes[n].con.token
                                 /\ calls' = calls,
         calls' \in [Exchange(k)!Requests -> {0, 1}],
         got' \in [Exchange(k)!Requests -> SUBSET (Exchange(k)!Requests \union {NULL})],
         \A q \in Exchange(k)!Requests : q > asked => calls'[q] = 0, Exchange(k)!ResponseMatches',
            Exchange(k)!IgnoredWereTaken'
  PROVE  Exchange(k)!CoapInv'
  <1>1. Exchange(k)!Shapes'
    BY DEF Exchange!CoapInv, Exchange!Shapes
  <1>2. Exchange(k)!NetOK'
    BY DEF Exchange!CoapInv, Exchange!NetOK, Exchange!Sound
  <1>3. Exchange(k)!NodeOK'
    <2>1. ASSUME NEW x \in k.Nodes
          PROVE  /\ nodes'[x].rx # NULL => nodes'[x].rx \in net' /\ nodes'[x].rx.dst = x
                 /\ nodes'[x].dedup # NULL => \E q \in taken' : nodes'[x].dedup[1] = q
                 /\ x \notin k.Clients => ~nodes'[x].con.active
      <3>1. CASE x = n
        BY <3>1
      <3>2. CASE x # n
        BY <3>2 DEF Exchange!CoapInv, Exchange!NodeOK
      <3> QED
        BY <3>1, <3>2
    <2> QED
      BY <2>1 DEF Exchange!NodeOK
  <1>4. Exchange(k)!ClientOK'
    <2>1. PICK c \in k.Nodes : k.Clients = {c}
      BY DEF Exchange!Bounds
    <2>2. CASE c = n
      BY <2>1, <2>2 DEF Exchange!CoapInv, Exchange!ClientOK
    <2>3. CASE c # n
      BY <2>1, <2>3 DEF Exchange!CoapInv, Exchange!ClientOK
    <2> QED
      BY <2>2, <2>3
  <1> QED
    BY <1>1, <1>2, <1>3, <1>4 DEF Exchange!CoapInv

\* Registration, shutdown, a datagram that arrives, and restarts, of which there are none.
LEMMA ApiKeeps ==
  ASSUME NEW k, Exchange(k)!Bounds, Exchange(k)!CoapInv, NEW n \in k.Nodes,
         \/ \E p \in k.Paths : Exchange(k)!Register(n, p) \/ Exchange(k)!Unregister(n, p)
         \/ Exchange(k)!Shutdown(n) \/ Exchange(k)!Reboot(n)
         \/ \E m \in net : Exchange(k)!Receive(n, m)
  PROVE  Exchange(k)!CoapInv'
  <1>0. /\ nodes \in [k.Nodes -> Exchange(k)!States] /\ nodes[n] \in Exchange(k)!States
           /\ net \in SUBSET Exchange(k)!Messages
        /\ reboots = 0 /\ k.MaxReboots = 0
    BY DEF Exchange!CoapInv, Exchange!Shapes, Exchange!Bounds
  <1>1. ASSUME nodes' \in [k.Nodes -> Exchange(k)!States], \A x \in k.Nodes : x # n => nodes'[x] = nodes[x],
               UNCHANGED <<net, asked, reboots, calls, got, taken, ignored>>,
               nodes'[n].rx \in {nodes[n].rx, NULL} \/ (nodes'[n].rx \in net /\ nodes'[n].rx.dst = n),
               nodes'[n].dedup = nodes[n].dedup, nodes'[n].mid = nodes[n].mid, nodes'[n].token = nodes[n].token,
               nodes'[n].con = nodes[n].con \/ nodes'[n].con.active = FALSE
        PROVE  Exchange(k)!CoapInv'
    <2>1. /\ nodes'[n].rx # NULL => nodes'[n].rx \in net' /\ nodes'[n].rx.dst = n
          /\ nodes'[n].dedup # NULL => \E q \in taken' : nodes'[n].dedup[1] = q
          /\ n \notin k.Clients => ~nodes'[n].con.active
      BY <1>1 DEF Exchange!CoapInv, Exchange!NodeOK
    <2>2. /\ calls' \in [Exchange(k)!Requests -> {0, 1}]
          /\ got' \in [Exchange(k)!Requests -> SUBSET (Exchange(k)!Requests \union {NULL})]
          /\ \A q \in Exchange(k)!Requests : q > asked => calls'[q] = 0
      BY <1>1 DEF Exchange!CoapInv, Exchange!Shapes
    <2>3. Exchange(k)!ResponseMatches' /\ Exchange(k)!IgnoredWereTaken'
      BY <1>1 DEF Exchange!CoapInv, Exchange!ResponseMatches, Exchange!IgnoredWereTaken
    <2>4. net' = net /\ taken' = taken /\ calls' = calls /\ UNCHANGED <<asked, reboots>>
      BY <1>1
    <2> QED
      BY <1>0, <1>1, <2>1, <2>2, <2>3, <2>4, NodeKeeps
  <1>2. ASSUME NEW set \in SUBSET k.Paths, nodes' = [nodes EXCEPT ![n].resources = set],
               UNCHANGED <<net, asked, reboots, calls, got, taken, ignored>>
        PROVE  Exchange(k)!CoapInv'
    <2>1. PICK s \in Exchange(k)!States : s = [nodes[n] EXCEPT !.resources = set]
      BY <1>0 DEF Exchange!States
    <2>2. nodes' = [nodes EXCEPT ![n] = s]
      BY <1>0, <1>2, <2>1
    <2>3. /\ nodes' \in [k.Nodes -> Exchange(k)!States] /\ nodes'[n] = s /\ \A x \in k.Nodes : x # n
             => nodes'[x] = nodes[x]
      BY <1>0, <2>2
    <2>4. s.rx = nodes[n].rx /\ s.dedup = nodes[n].dedup /\ s.mid = nodes[n].mid /\ s.token = nodes[n].token
         /\ s.con = nodes[n].con
      BY <1>0, <2>1 DEF Exchange!States
    <2> QED
      BY <1>1, <1>2, <2>3, <2>4
  <1>3. ASSUME NEW p \in k.Paths, Exchange(k)!Register(n, p) \/ Exchange(k)!Unregister(n, p)
        PROVE  Exchange(k)!CoapInv'
    <2>1. nodes[n].resources \in SUBSET k.Paths /\ UNCHANGED <<net, asked, reboots, calls, got, taken, ignored>>
      BY <1>0, <1>3 DEF Exchange!States, Exchange!Register, Exchange!Unregister
    <2>2. CASE Exchange(k)!Register(n, p)
      <3>1. nodes' = [nodes EXCEPT ![n].resources = nodes[n].resources \union {p}]
        BY <1>0, <2>2 DEF Exchange!Register
      <3>2. nodes[n].resources \union {p} \in SUBSET k.Paths
        BY <2>1
      <3> QED
        BY <1>2, <2>1, <3>1, <3>2
    <2>3. CASE Exchange(k)!Unregister(n, p)
      <3>1. nodes' = [nodes EXCEPT ![n].resources = nodes[n].resources \ {p}]
        BY <1>0, <2>3 DEF Exchange!Unregister
      <3>2. nodes[n].resources \ {p} \in SUBSET k.Paths
        BY <2>1
      <3> QED
        BY <1>2, <2>1, <3>1, <3>2
    <2> QED
      BY <1>3, <2>2, <2>3
  <1>4. CASE Exchange(k)!Shutdown(n)
    <2>1. /\ nodes' = [nodes EXCEPT ![n].bound = FALSE, ![n].con = Exchange(k)!NoCon, ![n].rx = NULL]
          /\ UNCHANGED <<net, asked, reboots, calls, got, taken, ignored>>
      BY <1>4 DEF Exchange!Shutdown
    <2>2. PICK s \in Exchange(k)!States : s = [nodes[n] EXCEPT !.bound = FALSE, !.con = Exchange(k)!NoCon, !.rx = NULL]
      BY <1>0, NoConFacts DEF Exchange!States
    <2>3. nodes' = [nodes EXCEPT ![n] = s]
      BY <1>0, <2>1, <2>2
    <2>4. /\ nodes' \in [k.Nodes -> Exchange(k)!States] /\ nodes'[n] = s /\ \A x \in k.Nodes : x # n
             => nodes'[x] = nodes[x]
      BY <1>0, <2>3
    <2>5. /\ s.rx = NULL /\ s.dedup = nodes[n].dedup /\ s.mid = nodes[n].mid /\ s.token = nodes[n].token
          /\ s.con.active = FALSE
      BY <1>0, <2>2, NoConFacts DEF Exchange!States
    <2> QED
      BY <1>1, <2>1, <2>4, <2>5
  <1>5. ~Exchange(k)!Reboot(n)
    BY <1>0 DEF Exchange!Reboot
  <1>6. ASSUME NEW m \in net, Exchange(k)!Receive(n, m)
        PROVE  Exchange(k)!CoapInv'
    <2>1. /\ nodes' = [nodes EXCEPT ![n].rx = m] /\ m.dst = n
          /\ UNCHANGED <<net, asked, reboots, calls, got, taken, ignored>>
      BY <1>6 DEF Exchange!Receive
    <2>2. PICK s \in Exchange(k)!States : s = [nodes[n] EXCEPT !.rx = m]
      BY <1>0 DEF Exchange!States
    <2>3. nodes' = [nodes EXCEPT ![n] = s]
      BY <1>0, <2>1, <2>2
    <2>4. /\ nodes' \in [k.Nodes -> Exchange(k)!States] /\ nodes'[n] = s /\ \A x \in k.Nodes : x # n
             => nodes'[x] = nodes[x]
      BY <1>0, <2>3
    <2>5. s.rx = m /\ s.dedup = nodes[n].dedup /\ s.mid = nodes[n].mid /\ s.token = nodes[n].token
         /\ s.con = nodes[n].con
      BY <1>0, <2>2 DEF Exchange!States
    <2> QED
      BY <1>1, <2>1, <2>4, <2>5
  <1> QED
    BY <1>3, <1>4, <1>5, <1>6

\* send_request: the next number is that of a new request.
LEMMA RequestKeeps ==
  ASSUME NEW k, Exchange(k)!Bounds, Exchange(k)!CoapInv, NEW n \in k.Clients, NEW d \in k.Nodes,
     NEW type \in {"CON", "NON"},
         NEW p \in k.Paths, NEW ok \in BOOLEAN, Exchange(k)!Request(n, d, type, p, ok)
  PROVE  Exchange(k)!CoapInv'
  <1>0. /\ nodes \in [k.Nodes -> Exchange(k)!States] /\ nodes[n] \in Exchange(k)!States
           /\ net \in SUBSET Exchange(k)!Messages
        /\ asked \in Nat /\ asked < k.MaxRequests /\ k.MaxRequests < k.IdSpace /\ n \in k.Nodes /\ k.Clients = {n}
        /\ k.MaxRequests \in Nat /\ k.IdSpace \in Nat /\ n # d
        /\ UNCHANGED <<reboots, calls, got, taken, ignored>>
    BY DEF Exchange!CoapInv, Exchange!Shapes, Exchange!Bounds, Exchange!Request
  <1>1. PICK q \in Exchange(k)!Requests : q = asked + 1 /\ q \in Nat /\ q \in 1 .. k.MaxRequests
    BY <1>0 DEF Exchange!Requests
  <1>2. nodes[n].mid = q /\ nodes[n].token + 1 = q /\ q % k.IdSpace = q
    <2>1. q % k.IdSpace = q
      BY <1>0, <1>1, SmallMod
    <2>2. nodes[n].mid = q % k.IdSpace /\ nodes[n].token = asked
      BY <1>1 DEF Exchange!CoapInv, Exchange!ClientOK
    <2> QED
      BY <1>1, <2>1, <2>2
  <1>3. PICK mid \in Nat : mid = (q + 1) % k.IdSpace
    BY <1>0, <1>1
  <1>4. PICK tx : tx = [active |-> TRUE, dst |-> d, mid |-> q, token |-> q, retries |-> 0, req |-> q]
    OBVIOUS
  <1>5. PICK con : con = IF ok /\ type = "CON" THEN tx ELSE nodes[n].con
    OBVIOUS
  <1>6. /\ con \in [active : BOOLEAN, dst : k.Nodes \union {NULL}, mid : Nat, token : Nat, retries : Nat, req : Nat]
        /\ con # nodes[n].con => con.req = q /\ con.mid = q /\ con.token = q
    BY <1>0, <1>1, <1>4, <1>5 DEF Exchange!States
  <1>7. PICK s \in Exchange(k)!States : s = [nodes[n] EXCEPT !.mid = mid, !.token = q, !.con = con]
    BY <1>0, <1>1, <1>6 DEF Exchange!States
  <1>8. s.mid = mid /\ s.token = q /\ s.con = con /\ s.rx = nodes[n].rx /\ s.dedup = nodes[n].dedup
    BY <1>0, <1>7 DEF Exchange!States
  <1>9. PICK m : m = [type |-> type, code |-> "REQ", mid |-> q, token |-> q, src |-> n, dst |-> d, path |-> p,
       req |-> q]
    OBVIOUS
  <1>10. /\ m \in Exchange(k)!Messages /\ m.req = q /\ m.code = "REQ" /\ m.src = n /\ m.dst = d /\ m.mid = q
            /\ m.token = q
    BY <1>0, <1>1, <1>9 DEF Exchange!Messages
  <1>11. nodes' = [nodes EXCEPT ![n] = s] /\ net' \in {net, net \union {m}} /\ asked' = q
    <2>1. /\ nodes' = [nodes EXCEPT ![n].mid = (nodes[n].mid + 1) % k.IdSpace,
             ![n].token = (nodes[n].token + 1) % k.IdSpace,
                                     ![n].con = IF ok /\ type = "CON"
                                                THEN [active |-> TRUE, dst |-> d, mid |-> nodes[n].mid,
                                                      token |-> (nodes[n].token + 1) % k.IdSpace, retries |-> 0,
                                                         req |-> asked + 1]
                                                ELSE nodes[n].con]
          /\ net' \in {net, net \union {[type |-> type, code |-> "REQ", mid |-> nodes[n].mid,
                                        token |-> (nodes[n].token + 1) % k.IdSpace, src |-> n, dst |-> d, path |-> p,
                                        req |-> asked + 1]}}
          /\ asked' = asked + 1
      BY <1>0 DEF Exchange!Request, Exchange!Message
    <2>2. nodes' = [nodes EXCEPT ![n].mid = mid, ![n].token = q, ![n].con = con]
      BY <1>1, <1>2, <1>3, <1>4, <1>5, <2>1
    <2>3. nodes' = [nodes EXCEPT ![n] = s]
      BY <1>0, <1>7, <2>2
    <2> QED
      BY <1>1, <1>2, <1>9, <2>1, <2>3
  <1>12. /\ nodes' \in [k.Nodes -> Exchange(k)!States] /\ nodes'[n] = s /\ \A x \in k.Nodes : x # n
            => nodes'[x] = nodes[x]
    BY <1>0, <1>11
  <1>13. net \subseteq net' /\ net' \in SUBSET Exchange(k)!Messages /\ \A x \in net' : x \in net \/ x = m
    BY <1>0, <1>10, <1>11
  <1>14. Exchange(k)!Shapes'
    BY <1>0, <1>1, <1>11, <1>12, <1>13 DEF Exchange!CoapInv, Exchange!Shapes
  <1>15. Exchange(k)!NetOK'
    <2>1. Exchange(k)!Sound(m)'
      BY <1>0, <1>1, <1>10, <1>11 DEF Exchange!Sound
    <2>2. ASSUME NEW x \in net PROVE Exchange(k)!Sound(x)'
      <3>1. Exchange(k)!Sound(x) /\ x.req \in Nat
        BY <1>0, <1>1 DEF Exchange!CoapInv, Exchange!NetOK, Exchange!Messages, Exchange!Requests
      <3> QED
        BY <1>0, <1>1, <1>11, <3>1 DEF Exchange!Sound
    <2> QED
      BY <1>13, <2>1, <2>2 DEF Exchange!NetOK
  <1>16. Exchange(k)!NodeOK'
    <2>1. ASSUME NEW x \in k.Nodes
          PROVE  /\ nodes'[x].rx # NULL => nodes'[x].rx \in net' /\ nodes'[x].rx.dst = x
                 /\ nodes'[x].dedup # NULL => \E r \in taken' : nodes'[x].dedup[1] = r
                 /\ x \notin k.Clients => ~nodes'[x].con.active
      <3>1. CASE x = n
        BY <1>0, <1>8, <1>12, <1>13, <3>1 DEF Exchange!CoapInv, Exchange!NodeOK
      <3>2. CASE x # n
        BY <1>0, <1>12, <1>13, <3>2 DEF Exchange!CoapInv, Exchange!NodeOK
      <3> QED
        BY <3>1, <3>2
    <2> QED
      BY <2>1 DEF Exchange!NodeOK
  <1>17. Exchange(k)!ClientOK'
    <2>1. nodes'[n].mid = (asked' + 1) % k.IdSpace /\ nodes'[n].token = asked'
      BY <1>3, <1>8, <1>11, <1>12
    <2>2. ASSUME con.active
          PROVE  con.req \in 1 .. asked' /\ calls'[con.req] = 0 /\ con.mid = con.req /\ con.token = con.req
      <3>1. CASE con # nodes[n].con
        <4>1. calls[q] = 0
          BY <1>0, <1>1 DEF Exchange!CoapInv
        <4> QED
          BY <1>0, <1>1, <1>6, <1>11, <3>1, <4>1
      <3>2. CASE con = nodes[n].con
        BY <1>0, <1>1, <1>11, <2>2, <3>2 DEF Exchange!CoapInv, Exchange!ClientOK
      <3> QED
        BY <3>1, <3>2
    <2> QED
      BY <1>0, <1>8, <1>12, <2>1, <2>2 DEF Exchange!ClientOK
  <1>18. \A x \in Exchange(k)!Requests : x > asked' => calls'[x] = 0
    BY <1>0, <1>1, <1>11 DEF Exchange!CoapInv, Exchange!Requests
  <1> QED
    BY <1>0, <1>14, <1>15, <1>16, <1>17, <1>18 DEF Exchange!CoapInv, Exchange!ResponseMatches, Exchange!IgnoredWereTaken

\* A server of another make answers.
LEMMA ForeignKeeps ==
  ASSUME NEW k, Exchange(k)!Bounds, Exchange(k)!CoapInv, NEW f \in k.Foreign, f \in k.Nodes, NEW m \in net,
         Exchange(k)!ForeignReply(f, m)
  PROVE  Exchange(k)!CoapInv'
  <1>0. /\ nodes \in [k.Nodes -> Exchange(k)!States] /\ net \in SUBSET Exchange(k)!Messages
        /\ UNCHANGED <<nodes, asked, reboots, calls, got, ran, taken, ignored>>
        /\ m \in Exchange(k)!Messages /\ Exchange(k)!Sound(m) /\ m.dst = f /\ m.code = "REQ"
    BY DEF Exchange!CoapInv, Exchange!Shapes, Exchange!NetOK, Exchange!ForeignReply
  <1>1. /\ m.src \in k.Clients /\ f \notin k.Clients /\ m.mid = m.req /\ m.token = m.req /\ m.req <= asked
           /\ m.src \in k.Nodes
        /\ m.mid \in Nat /\ m.req \in Exchange(k)!Requests
    BY <1>0 DEF Exchange!Sound, Exchange!Messages
  <1>2. ASSUME NEW type \in {"ACK", "RST", "CON", "NON"}, NEW code \in {"RESP", "EMPTY"}, NEW mid \in {0, m.mid},
               NEW token \in {0, m.token}, type \in {"ACK", "RST"} => mid = m.mid, type \notin {"ACK", "RST"}
                  => token = m.token,
               NEW x, x = Exchange(k)!Message(type, code, mid, token, f, m.src, NULL, m.req)
        PROVE  x \in Exchange(k)!Messages /\ Exchange(k)!Sound(x)
    <2>1. x = [type |-> type, code |-> code, mid |-> mid, token |-> token, src |-> f, dst |-> m.src, path |-> NULL,
         req |-> m.req]
      BY <1>2 DEF Exchange!Message
    <2>2. x \in Exchange(k)!Messages
      BY <1>1, <1>2, <2>1 DEF Exchange!Messages
    <2>3. Exchange(k)!Sound(x)
      BY <1>1, <1>2, <2>1 DEF Exchange!Sound
    <2> QED
      BY <2>2, <2>3
  <1>3. PICK more : /\ net' = net \union more
                   /\ more \in {{Exchange(k)!Message("ACK", "RESP", m.mid, m.token, f, m.src, NULL, m.req)},
                               {Exchange(k)!Message("RST", "EMPTY", m.mid, 0, f, m.src, NULL, m.req)},
                               {Exchange(k)!Message("ACK", "EMPTY", m.mid, 0, f, m.src, NULL, m.req),
                                Exchange(k)!Message("CON", "RESP", 0, m.token, f, m.src, NULL, m.req)},
                               {Exchange(k)!Message("NON", "RESP", 0, m.token, f, m.src, NULL, m.req)}}
    BY DEF Exchange!ForeignReply
  <1>4. \A x \in more : x \in Exchange(k)!Messages /\ Exchange(k)!Sound(x)
    BY <1>2, <1>3
  <1>5. net \subseteq net' /\ net' \in SUBSET Exchange(k)!Messages /\ \A x \in net' : x \in net \/ Exchange(k)!Sound(x)
    BY <1>0, <1>3, <1>4
  <1>6. /\ nodes' \in [k.Nodes -> Exchange(k)!States] /\ \A x \in k.Nodes : x # f => nodes'[x] = nodes[x]
        /\ taken \subseteq taken' /\ UNCHANGED <<asked, reboots>> /\ calls' = calls /\ nodes'[f] = nodes[f]
    BY <1>0
  <1>7. /\ nodes'[f].rx # NULL => nodes'[f].rx \in net' /\ nodes'[f].rx.dst = f
        /\ nodes'[f].dedup # NULL => \E q \in taken' : nodes'[f].dedup[1] = q
        /\ ~nodes'[f].con.active
    BY <1>0, <1>1, <1>5, <1>6 DEF Exchange!CoapInv, Exchange!NodeOK
  <1>8. /\ calls' \in [Exchange(k)!Requests -> {0, 1}]
        /\ got' \in [Exchange(k)!Requests -> SUBSET (Exchange(k)!Requests \union {NULL})]
        /\ \A q \in Exchange(k)!Requests : q > asked => calls'[q] = 0
        /\ Exchange(k)!ResponseMatches' /\ Exchange(k)!IgnoredWereTaken'
    BY <1>0 DEF Exchange!CoapInv, Exchange!Shapes, Exchange!ResponseMatches, Exchange!IgnoredWereTaken
  <1> QED
    BY <1>1, <1>5, <1>6, <1>7, <1>8, NodeKeeps

\* What a poll of node n may come to.
Polled(k, n, r) ==
  /\ r \in [s : Exchange(k)!States, out : SUBSET Exchange(k)!Messages,
            call : SUBSET (Nat \X (Exchange(k)!Requests \union {NULL})), taken : SUBSET Exchange(k)!Requests,
            handled : SUBSET Exchange(k)!Requests, dropped : SUBSET Exchange(k)!Requests]
  /\ r.s.rx = NULL /\ r.s.token = nodes[n].token /\ (n \in k.Clients => r.s.mid = nodes[n].mid)
  /\ r.s.dedup = nodes[n].dedup \/ \E q \in r.taken : r.s.dedup[1] = q
  /\ \A x \in r.out : Exchange(k)!Sound(x)
  /\ r.dropped \subseteq taken
  /\ \/ /\ r.call = {}
        /\ r.s.con.active => /\ nodes[n].con.active /\ r.s.con.req = nodes[n].con.req /\ r.s.con.mid = nodes[n].con.mid
                             /\ r.s.con.token = nodes[n].con.token
     \/ /\ r.call \in {{<<nodes[n].con.req, nodes[n].con.req>>}, {<<nodes[n].con.req, NULL>>}}
        /\ nodes[n].con.active /\ ~r.s.con.active

LEMMA RxFacts ==
  ASSUME NEW k, Exchange(k)!Bounds, Exchange(k)!CoapInv, NEW n \in k.Nodes
  PROVE  Polled(k, n, Exchange(k)!Rx(n))
  <1>0. nodes[n] \in Exchange(k)!States /\ k.MaxRequests \in Nat /\ k.IdSpace \in Nat \ {0} /\ asked \in Nat
       /\ NULL \notin Nat \X k.Nodes
    BY DEF Exchange!CoapInv, Exchange!Shapes, Exchange!Bounds
  <1>1. PICK s \in Exchange(k)!States : s = [nodes[n] EXCEPT !.rx = NULL]
    BY <1>0 DEF Exchange!States
  <1>2. s.rx = NULL /\ s.token = nodes[n].token /\ s.mid = nodes[n].mid /\ s.dedup = nodes[n].dedup
       /\ s.con = nodes[n].con
        /\ s.resources = nodes[n].resources
    BY <1>0, <1>1 DEF Exchange!States
  <1>3. PICK m : m = nodes[n].rx
    OBVIOUS
  <1>4. ASSUME NEW b \in Exchange(k)!States, b.rx = NULL, b.token = nodes[n].token, n \in k.Clients
       => b.mid = nodes[n].mid,
               NEW call \in SUBSET (Nat \X (Exchange(k)!Requests \union {NULL})),
                  NEW more \in SUBSET Exchange(k)!Messages,
               NEW took \in SUBSET Exchange(k)!Requests, NEW ran_ \in SUBSET Exchange(k)!Requests,
               NEW drop \in SUBSET Exchange(k)!Requests, b.dedup = nodes[n].dedup \/ \E q \in took : b.dedup[1] = q,
               \A x \in more : Exchange(k)!Sound(x), drop \subseteq taken,
               \/ call = {} /\ (~b.con.active \/ b.con = nodes[n].con)
               \/ /\ call \in {{<<nodes[n].con.req, nodes[n].con.req>>}, {<<nodes[n].con.req, NULL>>}}
                  /\ nodes[n].con.active /\ ~b.con.active
        PROVE  Polled(k, n, [s |-> b, out |-> more, call |-> call, taken |-> took, handled |-> ran_, dropped |-> drop])
    BY <1>4 DEF Polled
  <1>5. ASSUME NEW b \in Exchange(k)!States, b.rx = NULL, b.token = nodes[n].token, n \in k.Clients
       => b.mid = nodes[n].mid,
               b.dedup = nodes[n].dedup, ~b.con.active \/ b.con = nodes[n].con
        PROVE  Polled(k, n, Exchange(k)!Quiet(b))
    BY <1>4, <1>5 DEF Exchange!Quiet
  <1>6. Polled(k, n, Exchange(k)!Quiet(s))
    BY <1>2, <1>5
  <1>7. CASE m = NULL
    BY <1>1, <1>3, <1>6, <1>7 DEF Exchange!Rx
  <1>8. CASE m # NULL
    <2>1. /\ m \in Exchange(k)!Messages /\ Exchange(k)!Sound(m) /\ m.dst = n /\ m.req \in Exchange(k)!Requests
             /\ m.req \in Nat
          /\ m.src \in k.Nodes /\ m.mid \in Nat
      BY <1>3, <1>8 DEF Exchange!CoapInv, Exchange!Shapes, Exchange!NetOK, Exchange!NodeOK, Exchange!Messages,
         Exchange!Requests
    <2>2. nodes[n].con.active => /\ n \in k.Clients /\ nodes[n].con.req \in Nat /\ nodes[n].con.mid = nodes[n].con.req
                                 /\ nodes[n].con.token = nodes[n].con.req
      BY <1>0 DEF Exchange!CoapInv, Exchange!NodeOK, Exchange!ClientOK, Exchange!States
    <2>3. PICK idle \in Exchange(k)!States : idle = [s EXCEPT !.con = Exchange(k)!NoCon]
      BY NoConFacts DEF Exchange!States
    <2>4. /\ idle.rx = NULL /\ idle.token = nodes[n].token /\ idle.mid = nodes[n].mid /\ idle.dedup = nodes[n].dedup
          /\ idle.con.active = FALSE
      BY <1>2, <2>3, NoConFacts DEF Exchange!States
    <2>5. ASSUME NEW more \in SUBSET Exchange(k)!Messages, \A x \in more : Exchange(k)!Sound(x), nodes[n].con.active,
                 m.req = nodes[n].con.req
          PROVE  /\ Polled(k, n, [s |-> idle, out |-> more, call |-> {<<nodes[n].con.req, m.req>>}, taken |-> {},
                                  handled |-> {}, dropped |-> {}])
                 /\ Polled(k, n, [s |-> idle, out |-> more, call |-> {}, taken |-> {}, handled |-> {}, dropped |-> {}])
      <3>1. /\ {<<nodes[n].con.req, m.req>>} \in SUBSET (Nat \X (Exchange(k)!Requests \union {NULL}))
            /\ {} \in SUBSET (Nat \X (Exchange(k)!Requests \union {NULL})) /\ {} \in SUBSET Exchange(k)!Requests
        BY <2>1, <2>2, <2>5
      <3> QED
        BY <1>4, <2>4, <2>5, <3>1
    <2>6. CASE m.type \in {"ACK", "RST"}
      <3>1. Exchange(k)!Rx(n) = Exchange(k)!Acknowledged(s, m)
        BY <1>1, <1>3, <1>8, <2>6 DEF Exchange!Rx
      <3>2. CASE ~s.con.active \/ m.mid # s.con.mid
        BY <1>6, <3>1, <3>2 DEF Exchange!Acknowledged
      <3>3. CASE ~(~s.con.active \/ m.mid # s.con.mid)
        <4>1. nodes[n].con.active /\ m.req = nodes[n].con.req
          BY <1>2, <2>1, <2>2, <2>6, <3>3 DEF Exchange!Sound
        <4>2. PICK call : call = IF m.type = "ACK" /\ m.code # "EMPTY" THEN {<<nodes[n].con.req, m.req>>} ELSE {}
          OBVIOUS
        <4>3. Exchange(k)!Acknowledged(s, m) =
                [s |-> idle, out |-> {}, call |-> call, taken |-> {}, handled |-> {}, dropped |-> {}]
          <5>1. Exchange(k)!Acknowledged(s, m) = [Exchange(k)!Quiet(idle) EXCEPT !.call = call]
            BY <1>2, <2>3, <3>3, <4>2 DEF Exchange!Acknowledged
          <5> QED
            BY <5>1 DEF Exchange!Quiet
        <4>4. CASE call = {}
          BY <2>5, <3>1, <4>1, <4>3, <4>4
        <4>5. CASE call = {<<nodes[n].con.req, m.req>>}
          BY <2>5, <3>1, <4>1, <4>3, <4>5
        <4> QED
          BY <4>2, <4>4, <4>5
      <3> QED
        BY <3>2, <3>3
    <2>7. CASE m.type \notin {"ACK", "RST"} /\ m.code = "RESP"
      <3>1. Exchange(k)!Rx(n) = Exchange(k)!Separate(n, s, m)
        BY <1>1, <1>3, <1>8, <2>7 DEF Exchange!Rx
      <3>2. CASE ~s.con.active \/ m.token # s.con.token
        BY <1>6, <3>1, <3>2 DEF Exchange!Separate
      <3>3. CASE ~(~s.con.active \/ m.token # s.con.token)
        <4>1. nodes[n].con.active /\ m.req = nodes[n].con.req /\ m.src \notin k.Clients
          BY <1>2, <2>1, <2>2, <2>7, <3>3 DEF Exchange!Sound
        <4>2. PICK x : x = [type |-> "ACK", code |-> "EMPTY", mid |-> m.mid, token |-> 0, src |-> n, dst |-> m.src,
             path |-> NULL,
                            req |-> m.req]
          OBVIOUS
        <4>3. x \in Exchange(k)!Messages /\ Exchange(k)!Sound(x)
          <5>1. x \in Exchange(k)!Messages /\ x.dst = m.src /\ x.code = "EMPTY" /\ x.req = m.req
            BY <2>1, <4>2 DEF Exchange!Messages
          <5> QED
            BY <2>1, <4>1, <5>1 DEF Exchange!Sound
        <4>4. PICK more \in {{}, {x}} : more = IF m.type = "CON" THEN {x} ELSE {}
          OBVIOUS
        <4>5. Exchange(k)!Separate(n, s, m) =
                [s |-> idle, out |-> more, call |-> {<<nodes[n].con.req, m.req>>}, taken |-> {}, handled |-> {},
                   dropped |-> {}]
          <5>1. Exchange(k)!Separate(n, s, m) =
                  [Exchange(k)!Quiet(idle) EXCEPT !.call = {<<nodes[n].con.req, m.req>>}, !.out = more]
            BY <1>2, <2>3, <3>3, <4>2, <4>4 DEF Exchange!Separate, Exchange!Message
          <5> QED
            BY <5>1 DEF Exchange!Quiet
        <4> QED
          BY <2>5, <3>1, <4>1, <4>3, <4>4, <4>5
      <3> QED
        BY <3>2, <3>3
    <2>8. CASE m.type \notin {"ACK", "RST"} /\ m.code = "REQ"
      <3>1. Exchange(k)!Rx(n) = Exchange(k)!handle_request(n, s, m)
        BY <1>1, <1>3, <1>8, <2>8 DEF Exchange!Rx
      <3>2. /\ m.src \in k.Clients /\ n \notin k.Clients /\ m.mid = m.req /\ m.token = m.req /\ ~nodes[n].con.active
               /\ m.req <= asked
        BY <2>1, <2>2, <2>8 DEF Exchange!Sound
      <3>3. CASE m.type = "CON" /\ Exchange(k)!Duplicate(s, m)
        <4>1. Exchange(k)!handle_request(n, s, m) =
                [s |-> s, out |-> {}, call |-> {}, taken |-> {}, handled |-> {}, dropped |-> {m.req}]
          BY <3>3 DEF Exchange!handle_request, Exchange!Quiet
        <4>2. m.req \in taken
          <5>1. nodes[n].dedup = <<m.mid, m.src>> /\ nodes[n].dedup # NULL
            BY <1>0, <1>2, <2>1, <3>3 DEF Exchange!Duplicate
          <5>2. nodes[n].dedup[1] = m.req
            BY <3>2, <5>1
          <5>3. \E q \in taken : nodes[n].dedup[1] = q
            BY <5>1 DEF Exchange!CoapInv, Exchange!NodeOK
          <5> QED
            BY <5>2, <5>3
        <4>3. {m.req} \in SUBSET Exchange(k)!Requests /\ {m.req} \subseteq taken
          BY <2>1, <4>2
        <4> QED
          BY <1>2, <1>4, <3>1, <4>1, <4>3
      <3>4. CASE ~(m.type = "CON" /\ Exchange(k)!Duplicate(s, m))
        <4>1. PICK t \in Exchange(k)!States : t = IF m.type = "CON" THEN [s EXCEPT !.dedup = <<m.mid, m.src>>] ELSE s
          BY <2>1 DEF Exchange!States
        <4>2. /\ t.rx = NULL /\ t.token = nodes[n].token /\ t.con = nodes[n].con /\ t.mid \in Nat
              /\ t.dedup = nodes[n].dedup \/ t.dedup[1] = m.req
          BY <1>2, <3>2, <4>1 DEF Exchange!States
        <4>3. CASE m.path \notin t.resources
          <5>1. PICK x : x = [type |-> "RST", code |-> "EMPTY", mid |-> m.mid, token |-> 0, src |-> n, dst |-> m.src,
               path |-> NULL,
                              req |-> m.req]
            OBVIOUS
          <5>2. x \in Exchange(k)!Messages /\ Exchange(k)!Sound(x)
            <6>1. x \in Exchange(k)!Messages /\ x.dst = m.src /\ x.src = n /\ x.mid = m.req /\ x.code = "EMPTY"
                 /\ x.req = m.req
              BY <2>1, <3>2, <5>1 DEF Exchange!Messages
            <6> QED
              BY <3>2, <6>1 DEF Exchange!Sound
          <5>3. PICK more \in {{}, {x}} : more = IF m.type = "CON" THEN {x} ELSE {}
            OBVIOUS
          <5>4. Exchange(k)!handle_request(n, s, m) =
                  [s |-> t, out |-> more, call |-> {}, taken |-> {m.req}, handled |-> {}, dropped |-> {}]
            <6>1. Exchange(k)!handle_request(n, s, m) = [Exchange(k)!Quiet(t) EXCEPT !.taken = {m.req}, !.out = more]
              BY <3>4, <4>1, <4>3, <5>1, <5>3 DEF Exchange!handle_request, Exchange!Message
            <6> QED
              BY <6>1 DEF Exchange!Quiet
          <5>5. {m.req} \in SUBSET Exchange(k)!Requests /\ m.req \in {m.req}
            BY <2>1
          <5> QED
            BY <1>4, <3>1, <3>2, <4>2, <5>2, <5>3, <5>4, <5>5
        <4>4. CASE m.path \in t.resources
          <5>1. PICK mid \in Nat : mid = (t.mid + 1) % k.IdSpace
            BY <1>0, <4>2
          <5>2. PICK u \in Exchange(k)!States : u = IF m.type = "CON" THEN t ELSE [t EXCEPT !.mid = mid]
            BY DEF Exchange!States
          <5>3. u.rx = NULL /\ u.token = nodes[n].token /\ u.con = nodes[n].con /\ u.dedup = t.dedup
            BY <4>2, <5>2 DEF Exchange!States
          <5>4. PICK x : x = [type |-> IF m.type = "CON" THEN "ACK" ELSE "NON", code |-> "RESP",
                              mid |-> IF m.type = "CON" THEN m.mid ELSE t.mid, token |-> m.token, src |-> n,
                                 dst |-> m.src,
                              path |-> NULL, req |-> m.req]
            OBVIOUS
          <5>5. x \in Exchange(k)!Messages /\ Exchange(k)!Sound(x)
            <6>1. /\ x \in Exchange(k)!Messages /\ x.dst = m.src /\ x.src = n /\ x.code = "RESP" /\ x.req = m.req
                     /\ x.token = m.req
                  /\ x.type \in {"ACK", "RST"} => x.mid = m.req
              BY <2>1, <3>2, <4>2, <5>4 DEF Exchange!Messages
            <6> QED
              BY <3>2, <6>1 DEF Exchange!Sound
          <5>6. Exchange(k)!handle_request(n, s, m) =
                  [s |-> u, out |-> {x}, call |-> {}, taken |-> {m.req}, handled |-> {m.req}, dropped |-> {}]
            <6>1. u = IF m.type = "CON" THEN t ELSE [t EXCEPT !.mid = (t.mid + 1) % k.IdSpace]
              BY <5>1, <5>2
            <6>2. Exchange(k)!handle_request(n, s, m) =
                    [Exchange(k)!Quiet(u) EXCEPT !.taken = {m.req}, !.handled = {m.req}, !.out = {x}]
              BY <3>4, <4>1, <4>4, <5>4, <6>1 DEF Exchange!handle_request, Exchange!Message
            <6> QED
              BY <6>2 DEF Exchange!Quiet
          <5>7. {m.req} \in SUBSET Exchange(k)!Requests /\ m.req \in {m.req} /\ {x} \in SUBSET Exchange(k)!Messages
            BY <2>1, <5>5
          <5> QED
            BY <1>4, <3>1, <3>2, <4>2, <5>3, <5>5, <5>6, <5>7
        <4> QED
          BY <4>3, <4>4
      <3> QED
        BY <3>3, <3>4
    <2>9. CASE m.type \notin {"ACK", "RST"} /\ m.code \notin {"RESP", "REQ"}
      BY <1>1, <1>3, <1>6, <1>8, <2>9 DEF Exchange!Rx
    <2> QED
      BY <2>6, <2>7, <2>8, <2>9
  <1> QED
    BY <1>7, <1>8

\* The timer sends again or gives up.
LEMMA TimerFacts ==
  ASSUME NEW k, Exchange(k)!Bounds, Exchange(k)!CoapInv, NEW n \in k.Nodes, NEW a, Polled(k, n, a), a.s.con.active
  PROVE  Polled(k, n, Exchange(k)!Timer(a))
  <1>0. /\ a \in [s : Exchange(k)!States, out : SUBSET Exchange(k)!Messages,
                  call : SUBSET (Nat \X (Exchange(k)!Requests \union {NULL})), taken : SUBSET Exchange(k)!Requests,
                  handled : SUBSET Exchange(k)!Requests, dropped : SUBSET Exchange(k)!Requests]
        /\ a.s \in Exchange(k)!States
    BY DEF Polled
  <1>1. /\ nodes[n].con.active /\ a.s.con.req = nodes[n].con.req /\ a.s.con.mid = nodes[n].con.mid
        /\ a.s.con.token = nodes[n].con.token /\ a.call = {}
    BY DEF Polled
  <1>2. CASE a.s.con.retries < k.MAX_RETRANSMIT
    <2>1. PICK con : con = [a.s.con EXCEPT !.retries = a.s.con.retries + 1]
      OBVIOUS
    <2>2. /\ con \in [active : BOOLEAN, dst : k.Nodes \union {NULL}, mid : Nat, token : Nat, retries : Nat, req : Nat]
          /\ con.active = a.s.con.active /\ con.req = a.s.con.req /\ con.mid = a.s.con.mid /\ con.token = a.s.con.token
      <3>1. PICK n1 \in Nat : n1 = a.s.con.retries + 1
        BY <1>0 DEF Exchange!States
      <3>2. con = [a.s.con EXCEPT !.retries = n1]
        BY <2>1, <3>1
      <3> QED
        BY <1>0, <3>2 DEF Exchange!States
    <2>3. PICK s \in Exchange(k)!States : s = [a.s EXCEPT !.con = con]
      BY <1>0, <2>2 DEF Exchange!States
    <2>4. s.con = con /\ s.rx = a.s.rx /\ s.token = a.s.token /\ s.mid = a.s.mid /\ s.dedup = a.s.dedup
      BY <1>0, <2>3 DEF Exchange!States
    <2>5. Exchange(k)!Timer(a) = [a EXCEPT !.s = s]
      <3>1. Exchange(k)!Timer(a) = [a EXCEPT !.s.con.retries = a.s.con.retries + 1]
        BY <1>0, <1>2 DEF Exchange!Timer, Exchange!States
      <3> QED
        BY <1>0, <2>1, <2>3, <3>1
    <2>6. PICK b : b = [a EXCEPT !.s = s]
      OBVIOUS
    <2>7. /\ b \in [s : Exchange(k)!States, out : SUBSET Exchange(k)!Messages,
                    call : SUBSET (Nat \X (Exchange(k)!Requests \union {NULL})), taken : SUBSET Exchange(k)!Requests,
                    handled : SUBSET Exchange(k)!Requests, dropped : SUBSET Exchange(k)!Requests]
          /\ b.s = s /\ b.out = a.out /\ b.call = a.call /\ b.taken = a.taken /\ b.handled = a.handled
             /\ b.dropped = a.dropped
      BY <1>0, <2>6
    <2> QED
      BY <1>1, <2>2, <2>4, <2>5, <2>6, <2>7 DEF Polled
  <1>3. CASE ~(a.s.con.retries < k.MAX_RETRANSMIT)
    <2>1. PICK s \in Exchange(k)!States : s = [a.s EXCEPT !.con = Exchange(k)!NoCon]
      BY <1>0, NoConFacts DEF Exchange!States
    <2>2. s.con.active = FALSE /\ s.rx = a.s.rx /\ s.token = a.s.token /\ s.mid = a.s.mid /\ s.dedup = a.s.dedup
      BY <1>0, <2>1, NoConFacts DEF Exchange!States
    <2>3. PICK call : call = {<<nodes[n].con.req, NULL>>}
      OBVIOUS
    <2>4. Exchange(k)!Timer(a) = [a EXCEPT !.s = s, !.call = call]
      <3>1. Exchange(k)!Timer(a) = [a EXCEPT !.s.con = Exchange(k)!NoCon, !.call = {<<a.s.con.req, NULL>>}]
        BY <1>3 DEF Exchange!Timer
      <3> QED
        BY <1>0, <1>1, <2>1, <2>3, <3>1
    <2>5. PICK b : b = [a EXCEPT !.s = s, !.call = call]
      OBVIOUS
    <2>6. call \in SUBSET (Nat \X (Exchange(k)!Requests \union {NULL}))
      BY <1>0, <1>1, <2>3 DEF Exchange!States
    <2>7. /\ b \in [s : Exchange(k)!States, out : SUBSET Exchange(k)!Messages,
                    call : SUBSET (Nat \X (Exchange(k)!Requests \union {NULL})), taken : SUBSET Exchange(k)!Requests,
                    handled : SUBSET Exchange(k)!Requests, dropped : SUBSET Exchange(k)!Requests]
          /\ b.s = s /\ b.out = a.out /\ b.call = call /\ b.taken = a.taken /\ b.handled = a.handled
             /\ b.dropped = a.dropped
      BY <1>0, <2>5, <2>6
    <2> QED
      BY <1>1, <2>2, <2>3, <2>4, <2>5, <2>7 DEF Polled
  <1> QED
    BY <1>2, <1>3

\* tiku_kits_net_coap_poll.
LEMMA PollsKeep ==
  ASSUME NEW k, Exchange(k)!Bounds, Exchange(k)!CoapInv, NEW n \in k.Nodes, NEW expired \in BOOLEAN, NEW ok \in BOOLEAN,
         Exchange(k)!Poll(n, expired, ok)
  PROVE  Exchange(k)!CoapInv'
  <1>0. /\ nodes \in [k.Nodes -> Exchange(k)!States] /\ nodes[n] \in Exchange(k)!States
           /\ net \in SUBSET Exchange(k)!Messages
        /\ calls \in [Exchange(k)!Requests -> {0, 1}]
        /\ got \in [Exchange(k)!Requests -> SUBSET (Exchange(k)!Requests \union {NULL})] /\ asked \in 0 .. k.MaxRequests
    BY DEF Exchange!CoapInv, Exchange!Shapes
  <1>1. PICK a : a = Exchange(k)!Rx(n)
    OBVIOUS
  <1>2. PICK r : r = IF expired /\ a.s.con.active THEN Exchange(k)!Timer(a) ELSE a
    OBVIOUS
  <1>3. Polled(k, n, r)
    BY <1>1, <1>2, RxFacts, TimerFacts
  <1>4. /\ nodes' = [nodes EXCEPT ![n] = r.s] /\ net' \in {net, net \union r.out} /\ taken' = taken \union r.taken
        /\ calls' = [q \in Exchange(k)!Requests |-> IF \E c \in r.call : c[1] = q THEN calls[q] + 1 ELSE calls[q]]
        /\ got' = [q \in Exchange(k)!Requests |-> got[q] \union {c[2] : c \in {d \in r.call : d[1] = q}}]
        /\ ignored' = ignored \union r.dropped /\ UNCHANGED <<asked, reboots>>
    BY <1>1, <1>2 DEF Exchange!Poll
  <1>5. r.s \in Exchange(k)!States /\ r.out \in SUBSET Exchange(k)!Messages
    BY <1>3 DEF Polled
  <1>6. nodes' \in [k.Nodes -> Exchange(k)!States] /\ nodes'[n] = r.s /\ \A x \in k.Nodes : x # n
       => nodes'[x] = nodes[x]
    BY <1>0, <1>4, <1>5
  <1>7. net \subseteq net' /\ net' \in SUBSET Exchange(k)!Messages /\ \A x \in net' : x \in net \/ Exchange(k)!Sound(x)
    BY <1>0, <1>3, <1>4, <1>5 DEF Polled
  <1>8. Exchange(k)!IgnoredWereTaken' /\ taken \subseteq taken'
    BY <1>3, <1>4 DEF Exchange!CoapInv, Exchange!IgnoredWereTaken, Polled
  <1>9. /\ nodes'[n].rx = NULL
        /\ nodes'[n].dedup # NULL => \E q \in taken' : nodes'[n].dedup[1] = q
        /\ n \in k.Clients => nodes'[n].mid = nodes[n].mid /\ nodes'[n].token = nodes[n].token
    BY <1>3, <1>4, <1>6 DEF Exchange!CoapInv, Exchange!NodeOK, Polled
  <1>10. n \notin k.Clients => ~nodes[n].con.active
    BY DEF Exchange!CoapInv, Exchange!NodeOK
  <1>11. CASE r.call = {}
    <2>1. calls' = calls /\ got' = got
      BY <1>0, <1>4, <1>11
    <2>2. nodes'[n].con.active => /\ nodes[n].con.active /\ nodes'[n].con.req = nodes[n].con.req
                                  /\ nodes'[n].con.mid = nodes[n].con.mid /\ nodes'[n].con.token = nodes[n].con.token
      BY <1>3, <1>6, <1>11 DEF Polled
    <2>3. /\ calls' \in [Exchange(k)!Requests -> {0, 1}]
          /\ got' \in [Exchange(k)!Requests -> SUBSET (Exchange(k)!Requests \union {NULL})]
          /\ \A q \in Exchange(k)!Requests : q > asked => calls'[q] = 0
          /\ Exchange(k)!ResponseMatches'
      BY <1>0, <2>1 DEF Exchange!CoapInv, Exchange!ResponseMatches
    <2> QED
      BY <1>4, <1>6, <1>7, <1>8, <1>9, <1>10, <2>1, <2>2, <2>3, NodeKeeps
  <1>12. CASE r.call # {}
    <2>1. PICK q \in Exchange(k)!Requests, x \in Exchange(k)!Requests \union {NULL} :
            r.call = {<<q, x>>} /\ x \in {q, NULL} /\ q = nodes[n].con.req /\ nodes[n].con.active /\ ~r.s.con.active
      <3>1. /\ r.call \in {{<<nodes[n].con.req, nodes[n].con.req>>}, {<<nodes[n].con.req, NULL>>}}
            /\ nodes[n].con.active /\ ~r.s.con.active
        BY <1>3, <1>12 DEF Polled
      <3>2. nodes[n].con.req \in Exchange(k)!Requests
        <4>1. nodes[n].con.req \in 1 .. asked /\ k.MaxRequests \in Nat
          BY <1>10, <3>1 DEF Exchange!CoapInv, Exchange!ClientOK, Exchange!Bounds
        <4> QED
          BY <1>0, <4>1 DEF Exchange!Requests
      <3> QED
        BY <3>1, <3>2
    <2>2. n \in k.Clients /\ calls[q] = 0 /\ q <= asked
      BY <1>10, <2>1 DEF Exchange!CoapInv, Exchange!ClientOK
    <2>3. \A y \in Exchange(k)!Requests : calls'[y] = IF y = q THEN 1 ELSE calls[y]
      BY <1>0, <1>4, <2>1, <2>2
    <2>4. \A y \in Exchange(k)!Requests : got'[y] = IF y = q THEN got[y] \union {x} ELSE got[y]
      <3>1. ASSUME NEW y \in Exchange(k)!Requests PROVE got'[y] = IF y = q THEN got[y] \union {x} ELSE got[y]
        <4>1. got'[y] = got[y] \union {c[2] : c \in {d \in r.call : d[1] = y}}
          BY <1>4
        <4>2. {d \in r.call : d[1] = y} = IF y = q THEN {<<q, x>>} ELSE {}
          BY <2>1
        <4>3. {c[2] : c \in {<<q, x>>}} = {x} /\ {c[2] : c \in {}} = {}
          OBVIOUS
        <4>4. CASE y = q
          BY <4>1, <4>2, <4>3, <4>4
        <4>5. CASE y # q
          BY <4>1, <4>2, <4>3, <4>5
        <4> QED
          BY <4>4, <4>5
      <3> QED
        BY <3>1
    <2>5. calls' \in [Exchange(k)!Requests -> {0, 1}] /\ \A y \in Exchange(k)!Requests : y > asked => calls'[y] = 0
      <3>1. \A y \in Exchange(k)!Requests : calls'[y] \in {0, 1}
        BY <1>0, <2>3
      <3>2. calls' \in [Exchange(k)!Requests -> {0, 1}]
        BY <1>4, <3>1
      <3>3. ASSUME NEW y \in Exchange(k)!Requests, y > asked PROVE calls'[y] = 0
        <4>1. y # q
          BY <1>0, <2>2, <3>3 DEF Exchange!Requests
        <4> QED
          BY <2>3, <3>3, <4>1 DEF Exchange!CoapInv
      <3> QED
        BY <3>2, <3>3
    <2>6. got' \in [Exchange(k)!Requests -> SUBSET (Exchange(k)!Requests \union {NULL})]
      <3>1. \A y \in Exchange(k)!Requests : got'[y] \in SUBSET (Exchange(k)!Requests \union {NULL})
        <4>1. \A y \in Exchange(k)!Requests : got[y] \in SUBSET (Exchange(k)!Requests \union {NULL})
          BY <1>0
        <4> QED
          BY <2>4, <4>1
      <3> QED
        BY <1>4, <3>1
    <2>7. Exchange(k)!ResponseMatches'
      <3>1. ASSUME NEW y \in Exchange(k)!Requests PROVE calls'[y] <= 1 /\ got'[y] \subseteq {y, NULL}
        <4>1. calls[y] <= 1 /\ got[y] \subseteq {y, NULL}
          BY DEF Exchange!CoapInv, Exchange!ResponseMatches
        <4>2. CASE y = q
          <5>1. calls'[y] = 1 /\ got'[y] = got[y] \union {x} /\ x \in {y, NULL}
            BY <2>1, <2>3, <2>4, <4>2
          <5> QED
            BY <4>1, <5>1
        <4>3. CASE y # q
          BY <2>3, <2>4, <4>1, <4>3
        <4> QED
          BY <4>2, <4>3
      <3> QED
        BY <3>1 DEF Exchange!ResponseMatches
    <2>8. ~nodes'[n].con.active
      BY <1>6, <2>1
    <2> QED
      BY <1>4, <1>6, <1>7, <1>8, <1>9, <2>2, <2>5, <2>6, <2>7, <2>8, NodeKeeps
  <1> QED
    BY <1>11, <1>12

LEMMA CoapKeeps ==
  ASSUME NEW k, Exchange(k)!Bounds, Exchange(k)!CoapInv, Exchange(k)!Next \/ UNCHANGED Exchange(k)!vars
  PROVE  Exchange(k)!CoapInv'
  <1>1. CASE UNCHANGED Exchange(k)!vars
    BY <1>1 DEF Exchange!vars, Exchange!CoapInv, Exchange!Shapes, Exchange!NetOK, Exchange!Sound, Exchange!NodeOK,
                Exchange!ClientOK, Exchange!ResponseMatches, Exchange!IgnoredWereTaken
  <1>2. CASE Exchange(k)!Next
    <2>1. k.Foreign \subseteq k.Nodes /\ Exchange(k)!Own \subseteq k.Nodes
      BY DEF Exchange!Bounds, Exchange!Own
    <2> QED
      BY <1>2, <2>1, ApiKeeps, RequestKeeps, ForeignKeeps, PollsKeep DEF Exchange!Next
  <1> QED
    BY <1>1, <1>2

\* With any late and repeated answers about, the callback of a request is called at
\* most once, and with the answer to it; a server drops as a duplicate only what it
\* has taken before.
THEOREM AnswersMeetTheirRequests == Spec => []ExchangesMatch
  <1> DEFINE Safe == /\ scenario = "client" => Exchange(ClientConst)!CoapInv
                     /\ scenario = "server" => Exchange(ServerConst)!CoapInv
  <1>1. Init => Safe
    BY InitOfPart, CoapStarts, ServiceBounds
  <1>2. Safe /\ [Next]_vars => Safe'
    BY StepOfPart, CoapKeeps, ServiceBounds
  <1>3. Safe => ExchangesMatch
    BY DEF ExchangesMatch, Exchange!CoapInv
  <1> QED
    BY <1>1, <1>2, <1>3, PTL DEF Spec

(***************************************************************************)
(* TFTP: GetWhole, BlocksInPlace and PortHeld, for files of any length and *)
(* one transfer.                                                           *)
(***************************************************************************)
LEMMA FileStarts ==
  ASSUME File!Bounds, File!Init
  PROVE  File!TftpInv
  <1>1. client = File!Idle /\ net = {} /\ started = 0 /\ given = <<>>
    BY DEF File!Init
  <1>2. File!Idle \in File!Clients /\ File!Idle.state = "IDLE" /\ File!Idle.evt = "NONE" /\ File!Idle.bound = FALSE
    BY DEF File!Idle, File!Clients, File!Resting, File!Active, File!Bounds
  <1> QED
    BY <1>1, <1>2 DEF File!TftpInv, File!Shapes, File!NetOK, File!EventOK, File!PortHeld, File!GetWhole,
       File!BlocksInPlace,
                      File!Active

\* The calls of the application.
LEMMA FileCallKeeps ==
  ASSUME File!Bounds, File!TftpInv,
         \/ \E dir \in {"get", "put"}, ok \in BOOLEAN : File!Start(dir, ok)
         \/ \E dir \in TftpConst.Confusions \union {client.dir} : File!Refused(dir)
         \/ File!Abort \/ File!Reset
  PROVE  File!TftpInv'
  <1> USE DEF File!TftpInv
  <1>0. client \in File!Clients /\ given \in Seq({1} \X (1 .. TftpConst.Blocks)) /\ started \in {0, 1}
       /\ net \in SUBSET File!Packets
    BY DEF File!Shapes
  <1>1. ASSUME NEW dir \in {"get", "put"}, NEW ok \in BOOLEAN, File!Start(dir, ok)
        PROVE  File!TftpInv'
    <2>1. client.state = "IDLE" /\ started = 0 /\ net = {} /\ client.evt = "NONE"
      <3>1. client.state = "IDLE" /\ started = 0
        BY <1>0, <1>1 DEF File!Start, File!Bounds
      <3> QED
        BY <1>0, <3>1 DEF File!NetOK, File!EventOK, File!Clients, File!Active
    <2>2. CASE ok
      <3>1. PICK op \in {"RRQ", "WRQ"}, st \in {"RRQ_SENT", "WRQ_SENT"} :
              /\ op = IF dir = "get" THEN "RRQ" ELSE "WRQ"
              /\ st = IF dir = "get" THEN "RRQ_SENT" ELSE "WRQ_SENT"
        OBVIOUS
      <3>2. PICK m : m = [op |-> op, tid |-> 1, block |-> 0, data |-> <<0, 0>>]
        OBVIOUS
      <3>3. m \in File!Packets /\ m.op = op
        BY <3>2 DEF File!Packets, File!Bounds
      <3>4. /\ client' = [File!Idle EXCEPT !.state = st, !.full = TRUE, !.bound = TRUE, !.dir = dir]
            /\ started' = 1 /\ given' = <<>> /\ net' = {m}
        BY <1>1, <2>1, <2>2, <3>1, <3>2 DEF File!Start, File!Packet, File!Empty
      <3>5. /\ client' \in File!Clients /\ client'.state = st /\ client'.evt = "NONE" /\ client'.bound = TRUE
               /\ client'.dir = dir
        <4>1. client' = [state |-> st, evt |-> "NONE", tid |-> 0, block |-> 0, full |-> TRUE, dir |-> dir,
             bound |-> TRUE,
                         data |-> <<0, 0>>]
          BY <3>4 DEF File!Idle
        <4>2. st \in File!Resting \union File!Active /\ 0 \in 0 .. TftpConst.Blocks /\ <<0, 0>> \in Nat \X Nat
          BY <3>1 DEF File!Active, File!Bounds
        <4> QED
          BY <4>1, <4>2 DEF File!Clients
      <3>6. File!Shapes'
        BY <3>3, <3>4, <3>5 DEF File!Shapes
      <3>7. File!NetOK'
        BY <3>1, <3>2, <3>3, <3>4, <3>5 DEF File!NetOK
      <3>8. File!EventOK' /\ File!PortHeld' /\ File!GetWhole' /\ File!BlocksInPlace'
        BY <3>1, <3>3, <3>4, <3>5 DEF File!EventOK, File!PortHeld, File!GetWhole, File!BlocksInPlace, File!Active
      <3> QED
        BY <3>6, <3>7, <3>8
    <2>3. CASE ~ok
      <3>1. client' = [client EXCEPT !.dir = dir] /\ UNCHANGED <<net, started, given>>
        BY <1>1, <2>3 DEF File!Start
      <3>2. client' \in File!Clients /\ client'.state = "IDLE" /\ client'.evt = "NONE" /\ client'.bound = client.bound
        BY <1>0, <2>1, <3>1 DEF File!Clients
      <3>3. File!Shapes'
        BY <1>0, <3>1, <3>2 DEF File!Shapes
      <3> QED
        BY <2>1, <3>1, <3>2, <3>3 DEF File!NetOK, File!EventOK, File!PortHeld, File!GetWhole, File!BlocksInPlace,
           File!Active
    <2> QED
      BY <2>2, <2>3
  <1>2. ASSUME NEW dir \in TftpConst.Confusions \union {client.dir}, File!Refused(dir)
        PROVE  File!TftpInv'
    <2>1. dir = client.dir /\ client' = [client EXCEPT !.dir = dir] /\ UNCHANGED <<net, started, given, stored>>
      BY <1>2 DEF File!Refused, File!Bounds
    <2>2. client' = client
      BY <1>0, <2>1 DEF File!Clients
    <2> QED
      BY <2>1, <2>2 DEF File!Shapes, File!NetOK, File!LastOut, File!Taken, File!EventOK, File!PortHeld, File!GetWhole,
         File!BlocksInPlace
  <1>3. ASSUME client' \in File!Clients, client'.state = "IDLE", client'.evt = "NONE", client'.bound = FALSE,
               client'.dir \in {client.dir, "get"}, UNCHANGED <<net, started, given>>
        PROVE  File!TftpInv'
    <2>1. File!Shapes'
      BY <1>0, <1>3 DEF File!Shapes
    <2>2. \A b : File!Taken(b)' <=> File!Taken(b)
      BY <1>3 DEF File!Taken
    <2>3. File!LastOut'
      BY <1>3 DEF File!LastOut, File!Resting
    <2>4. File!NetOK'
      BY <1>3, <2>2, <2>3 DEF File!NetOK
    <2> QED
      BY <1>3, <2>1, <2>4 DEF File!EventOK, File!PortHeld, File!GetWhole, File!BlocksInPlace, File!Active
  <1>4. CASE File!Abort
    <2>1. client' = [client EXCEPT !.state = "IDLE", !.evt = "NONE", !.bound = FALSE]
         /\ UNCHANGED <<net, started, given>>
      BY <1>4 DEF File!Abort
    <2>2. client' \in File!Clients /\ client'.state = "IDLE" /\ client'.evt = "NONE" /\ client'.bound = FALSE
         /\ client'.dir = client.dir
      BY <1>0, <2>1 DEF File!Clients, File!Resting
    <2> QED
      BY <1>3, <2>1, <2>2
  <1>5. CASE File!Reset
    <2>1. client' = File!Idle /\ UNCHANGED <<net, started, given>>
      BY <1>5 DEF File!Reset
    <2>2. File!Idle \in File!Clients /\ File!Idle.state = "IDLE" /\ File!Idle.evt = "NONE" /\ File!Idle.bound = FALSE
         /\ File!Idle.dir = "get"
      BY DEF File!Idle, File!Clients, File!Resting, File!Bounds
    <2> QED
      BY <1>3, <2>1, <2>2
  <1> QED
    BY <1>1, <1>2, <1>4, <1>5

\* tftp_recv_cb.
LEMMA FileReceiveKeeps ==
  ASSUME File!Bounds, File!TftpInv, NEW m \in net, File!Receive(m)
  PROVE  File!TftpInv'
  <1> USE DEF File!TftpInv
  <1>0. client \in File!Clients /\ m \in File!Packets /\ started = 1 /\ UNCHANGED <<net, started, given>>
    BY DEF File!Shapes, File!NetOK, File!Receive
  <1>1. client.bound = TRUE /\ client.state \in File!Active /\ client.state \notin File!Resting
    BY <1>0 DEF File!Receive, File!Clients
  <1>2. \A b : File!Taken(b)' <=> File!Taken(b)
    BY <1>0 DEF File!Taken
  <1>3. File!BlocksInPlace'
    BY <1>0 DEF File!BlocksInPlace
  <1>4. CASE File!RecvData(m)
    <2>1. /\ m.op = "DATA" /\ client.dir = "get" /\ m.block # 0 /\ m.data = <<1, m.block>> /\ File!Taken(m.block - 1)
      BY <1>4 DEF File!RecvData, File!NetOK
    <2>2. ~File!LastOut
      BY <1>1, <2>1 DEF File!LastOut, File!EventOK
    <2>3. /\ client' \in File!Clients /\ client'.tid = 1 /\ client'.block = m.block /\ client'.data = m.data
          /\ client'.full = File!IsFull(m.block) /\ client'.state = "TRANSFERRING" /\ client'.evt = "DATA_READY"
          /\ client'.dir = client.dir /\ client'.bound = client.bound
      <3>1. PICK full \in BOOLEAN : full = File!IsFull(m.block)
        <4>1. File!IsFull(m.block) \in BOOLEAN
          BY DEF File!IsFull
        <4> QED
          BY <4>1
      <3>2. PICK b \in 0 .. TftpConst.Blocks, x \in Nat \X Nat : b = m.block /\ x = m.data /\ m.tid = 1
        BY <1>0 DEF File!Packets
      <3>3. client' = [client EXCEPT !.tid = 1, !.block = b, !.data = x, !.full = full, !.state = "TRANSFERRING",
           !.evt = "DATA_READY"]
        BY <1>4, <3>1, <3>2 DEF File!RecvData
      <3>4. "TRANSFERRING" \in File!Resting \union File!Active
        BY DEF File!Active
      <3> QED
        BY <1>0, <3>1, <3>2, <3>3, <3>4 DEF File!Clients
    <2>4. File!NetOK'
      BY <1>0, <1>2, <2>2, <2>3 DEF File!NetOK
    <2>5. File!EventOK'
      BY <1>0, <1>2, <2>1, <2>3 DEF File!EventOK, File!Active, File!Packets, File!IsFull
    <2> QED
      BY <1>0, <1>1, <1>3, <2>3, <2>4, <2>5 DEF File!Shapes, File!PortHeld, File!GetWhole, File!Active
  <1>5. CASE File!RecvAck(m) \/ File!RecvOack(m)
    <2>1. PICK b \in 0 .. TftpConst.Blocks, evt \in {"ACK_RECV", "OACK_RECV"} :
            /\ client' = [client EXCEPT !.tid = m.tid, !.block = b, !.evt = evt]
            /\ evt = "ACK_RECV" => m.op = "ACK" /\ b = m.block
      <3>1. CASE File!RecvAck(m)
        BY <1>0, <3>1 DEF File!RecvAck, File!Packets
      <3>2. CASE File!RecvOack(m)
        <4>1. client' = [client EXCEPT !.tid = m.tid, !.evt = "OACK_RECV"] /\ client.block \in 0 .. TftpConst.Blocks
          BY <1>0, <3>2 DEF File!RecvOack, File!Clients
        <4>2. client' = [client EXCEPT !.tid = m.tid, !.block = client.block, !.evt = "OACK_RECV"]
          BY <1>0, <4>1 DEF File!Clients
        <4> QED
          BY <4>1, <4>2
      <3> QED
        BY <1>5, <3>1, <3>2
    <2>2. /\ client' \in File!Clients /\ client'.tid = 1 /\ client'.block = b /\ client'.evt = evt
          /\ client'.state = client.state /\ client'.full = client.full /\ client'.dir = client.dir
             /\ client'.bound = client.bound
      <3>1. m.tid = 1
        BY <1>0 DEF File!Packets
      <3>2. client' = [client EXCEPT !.tid = 1, !.block = b, !.evt = evt]
        BY <2>1, <3>1
      <3> QED
        BY <1>0, <3>2 DEF File!Clients
    <2>3. File!LastOut' <=> File!LastOut
      BY <2>2 DEF File!LastOut
    <2>4. File!NetOK'
      BY <1>0, <1>2, <2>2, <2>3 DEF File!NetOK
    <2>5. evt = "ACK_RECV" /\ b = TftpConst.Blocks => File!LastOut
      BY <2>1 DEF File!NetOK
    <2>6. File!EventOK'
      BY <1>0, <1>1, <2>1, <2>2, <2>3, <2>5 DEF File!EventOK
    <2> QED
      BY <1>0, <1>1, <1>3, <2>2, <2>4, <2>6 DEF File!Shapes, File!PortHeld, File!GetWhole, File!Active
  <1>6. CASE File!RecvError(m)
    <2>1. client' = [client EXCEPT !.state = "ERROR", !.evt = "ERROR_RECV"]
      BY <1>6 DEF File!RecvError
    <2>2. /\ client' \in File!Clients /\ client'.state = "ERROR" /\ client'.evt = "ERROR_RECV"
             /\ client'.dir = client.dir
          /\ client'.bound = client.bound
      BY <1>0, <2>1 DEF File!Clients, File!Resting
    <2>3. File!LastOut'
      BY <2>2 DEF File!LastOut, File!Resting
    <2>4. File!NetOK'
      BY <1>0, <1>2, <2>2, <2>3 DEF File!NetOK
    <2> QED
      BY <1>0, <1>1, <1>3, <2>2, <2>4 DEF File!Shapes, File!EventOK, File!PortHeld, File!GetWhole, File!Active
  <1> QED
    BY <1>4, <1>5, <1>6 DEF File!Receive

\* A step that clears the event and may send packet m.
LEMMA FileSent ==
  ASSUME File!Bounds, File!TftpInv, started = 1, NEW m \in File!Packets, net' \in {net, net \union {m}},
         client' \in File!Clients, client'.dir = client.dir, client'.evt = "NONE", started' = started,
         given' \in Seq({1} \X (1 .. TftpConst.Blocks)), \A b : File!Taken(b) => File!Taken(b)',
         File!LastOut => File!LastOut', m.op \in {"CACK", "CDATA"},
         m.op = "CACK" => client.dir = "get" /\ File!Taken(m.block)',
         m.op = "CDATA" => m.block \in 1 .. TftpConst.Blocks /\ m.data[2] = m.block,
         m.op = "CDATA" /\ m.block = TftpConst.Blocks => File!LastOut',
         client'.state \in {"SENDING", "WRQ_SENT"} => client.dir = "put", File!PortHeld', File!GetWhole'
  PROVE  File!TftpInv'
  <1> USE DEF File!TftpInv
  <1>1. net' \in SUBSET File!Packets /\ \A x \in net' : x \in net \/ x = m
    BY DEF File!Shapes
  <1>2. m.tid = 1
    BY DEF File!Packets
  <1>3. File!Shapes'
    BY <1>1 DEF File!Shapes
  <1>4. ASSUME NEW x \in net'
        PROVE  /\ started' = 1
               /\ x.op \in {"RRQ", "DATA", "CACK"} => client'.dir = "get"
               /\ x.op = "DATA" => x.block # 0 /\ x.data = <<1, x.block>> /\ File!Taken(x.block - 1)'
               /\ x.op = "CACK" => File!Taken(x.block)'
               /\ x.op \in {"ACK", "CDATA"} /\ x.block = TftpConst.Blocks => File!LastOut'
    <2>1. CASE x \in net
      BY <2>1 DEF File!NetOK
    <2>2. CASE x = m
      BY <2>2
    <2> QED
      BY <1>1, <1>4, <2>1, <2>2
  <1>5. File!NetOK'
    BY <1>4 DEF File!NetOK
  <1>6. File!EventOK'
    BY DEF File!EventOK
  <1>7. File!BlocksInPlace'
    BY <1>1, <1>2 DEF File!BlocksInPlace
  <1> QED
    BY <1>3, <1>5, <1>6, <1>7

\* A full block and more to come, or the last one.
LEMMA FileData ==
  ASSUME File!Bounds, File!TftpInv, NEW ok \in BOOLEAN, File!PollData(ok)
  PROVE  File!TftpInv'
  <1> USE DEF File!TftpInv
  <1>0. client \in File!Clients /\ given \in Seq({1} \X (1 .. TftpConst.Blocks))
    BY DEF File!Shapes
  <1>1. /\ started = 1 /\ client.tid = 1 /\ client.state \in File!Active /\ client.dir = "get" /\ client.block # 0
        /\ client.data = <<1, client.block>> /\ client.full = File!IsFull(client.block) /\ File!Taken(client.block - 1)
    BY DEF File!EventOK, File!PollData
  <1>2. PICK b \in 1 .. TftpConst.Blocks : client.block = b
    BY <1>0, <1>1 DEF File!Clients, File!Bounds
  <1>3. PICK m : m = [op |-> "CACK", tid |-> 1, block |-> b, data |-> <<0, 0>>]
    OBVIOUS
  <1>4. m \in File!Packets /\ m.op = "CACK" /\ m.block = b
    BY <1>3 DEF File!Packets
  <1>5. /\ client' = IF client.full THEN [client EXCEPT !.evt = "NONE"] ELSE File!Finish([client EXCEPT !.evt = "NONE"])
        /\ given' = Append(given, <<1, b>>) /\ net' \in {net, net \union {m}} /\ started' = started
    BY <1>1, <1>2, <1>3 DEF File!PollData, File!Send, File!Packet, File!Empty
  <1>6. /\ given' \in Seq({1} \X (1 .. TftpConst.Blocks)) /\ DOMAIN given' = 1 .. Len(given) + 1
           /\ DOMAIN given = 1 .. Len(given)
        /\ given'[Len(given) + 1] = <<1, b>> /\ \A i \in 1 .. Len(given) : given'[i] = given[i]
    BY <1>0, <1>5
  <1>7. Len(given) \in Nat
    BY <1>0
  <1>8. ASSUME NEW n, File!Taken(n) PROVE File!Taken(n)'
    <2>1. ASSUME NEW k \in 1 .. n PROVE \E i \in DOMAIN given' : given'[i] = <<1, k>>
      <3>1. PICK i \in 1 .. Len(given) : given[i] = <<1, k>>
        BY <1>6, <1>8 DEF File!Taken
      <3>2. i \in DOMAIN given' /\ given'[i] = given[i]
        BY <1>6, <1>7
      <3> QED
        BY <3>1, <3>2
    <2> QED
      BY <2>1 DEF File!Taken
  <1>9. File!Taken(b)'
    <2>1. ASSUME NEW k \in 1 .. b PROVE \E i \in DOMAIN given' : given'[i] = <<1, k>>
      <3>1. CASE k = b
        BY <1>6, <1>7, <3>1
      <3>2. CASE k # b
        <4>1. k \in 1 .. b - 1
          BY <1>2, <3>2
        <4> QED
          <5>1. PICK i \in 1 .. Len(given) : given[i] = <<1, k>>
            BY <1>1, <1>2, <1>6, <4>1 DEF File!Taken
          <5>2. i \in DOMAIN given' /\ given'[i] = given[i]
            BY <1>6, <1>7
          <5> QED
            BY <5>1, <5>2
      <3> QED
        BY <3>1, <3>2
    <2> QED
      BY <2>1 DEF File!Taken
  <1>10. CASE client.full
    <2>1. client' = [client EXCEPT !.evt = "NONE"]
      BY <1>5, <1>10
    <2>2. /\ client' \in File!Clients /\ client'.evt = "NONE" /\ client'.state = client.state
             /\ client'.full = client.full
          /\ client'.dir = client.dir /\ client'.bound = client.bound
      BY <1>0, <2>1 DEF File!Clients
    <2>3. File!PortHeld' /\ File!GetWhole' /\ (File!LastOut => File!LastOut')
      BY <1>1, <2>2 DEF File!PortHeld, File!GetWhole, File!LastOut, File!Active
    <2>4. client'.state \in {"SENDING", "WRQ_SENT"} => client.dir = "put"
      BY <2>2 DEF File!EventOK
    <2> QED
      BY <1>1, <1>4, <1>5, <1>6, <1>8, <1>9, <2>2, <2>3, <2>4, FileSent
  <1>11. CASE ~client.full
    <2>1. client' = [client EXCEPT !.evt = "NONE", !.state = "COMPLETE", !.bound = FALSE]
      BY <1>0, <1>5, <1>11 DEF File!Finish, File!Clients
    <2>2. /\ client' \in File!Clients /\ client'.evt = "NONE" /\ client'.state = "COMPLETE" /\ client'.dir = client.dir
          /\ client'.bound = FALSE
      BY <1>0, <2>1 DEF File!Clients, File!Resting
    <2>3. b = TftpConst.Blocks
      <3>1. ~File!IsFull(b)
        BY <1>1, <1>2, <1>11
      <3> QED
        BY <3>1 DEF File!IsFull, File!Bounds
    <2>4. {given'[i] : i \in DOMAIN given'} = {1} \X (1 .. TftpConst.Blocks)
      <3>1. \A i \in DOMAIN given' : given'[i] \in {1} \X (1 .. TftpConst.Blocks)
        BY <1>6
      <3>2. \A k \in 1 .. TftpConst.Blocks : \E i \in DOMAIN given' : given'[i] = <<1, k>>
        BY <1>9, <2>3 DEF File!Taken
      <3> QED
        BY <3>1, <3>2
    <2>5. File!PortHeld' /\ File!GetWhole' /\ File!LastOut'
      BY <1>1, <1>5, <2>2, <2>4 DEF File!PortHeld, File!GetWhole, File!LastOut, File!Active, File!Resting
    <2> QED
      BY <1>1, <1>4, <1>5, <1>6, <1>8, <1>9, <2>2, <2>5, FileSent
  <1> QED
    BY <1>0, <1>10, <1>11

\* A block of a put goes out.
LEMMA FileBlock ==
  ASSUME File!Bounds, File!TftpInv, started = 1, client.tid = 1, client.state \in File!Active, client.dir = "put",
         NEW b \in 1 .. TftpConst.Blocks, NEW ok \in BOOLEAN, File!SendBlock(b, ok), UNCHANGED <<started, given>>
  PROVE  File!TftpInv'
  <1> USE DEF File!TftpInv
  <1>0. client \in File!Clients /\ given \in Seq({1} \X (1 .. TftpConst.Blocks))
    BY DEF File!Shapes
  <1>1. PICK full \in BOOLEAN : full = (client.full /\ File!IsFull(b))
    <2>1. (client.full /\ File!IsFull(b)) \in BOOLEAN
      OBVIOUS
    <2> QED
      BY <2>1
  <1>2. PICK m : m = [op |-> "CDATA", tid |-> 1, block |-> b, data |-> <<1, b>>]
    OBVIOUS
  <1>3. m \in File!Packets /\ m.op = "CDATA" /\ m.block = b /\ m.data[2] = b
    BY <1>2 DEF File!Packets, File!Bounds
  <1>4. /\ client' = [client EXCEPT !.evt = "NONE", !.block = b, !.state = "SENDING", !.full = full]
        /\ net' \in {net, net \union {m}}
    BY <1>1, <1>2 DEF File!SendBlock, File!Send, File!Packet
  <1>5. b \in 0 .. TftpConst.Blocks /\ "SENDING" \in File!Resting \union File!Active
    BY DEF File!Bounds, File!Active
  <1>6. /\ client' \in File!Clients /\ client'.evt = "NONE" /\ client'.state = "SENDING" /\ client'.full = full
        /\ client'.dir = client.dir /\ client'.bound = client.bound
    BY <1>0, <1>4, <1>5 DEF File!Clients
  <1>7. File!LastOut => File!LastOut'
    BY <1>1, <1>6 DEF File!LastOut, File!Active, File!Resting
  <1>8. b = TftpConst.Blocks => File!LastOut'
    <2>1. ASSUME b = TftpConst.Blocks PROVE full = FALSE
      <3>1. ~File!IsFull(b)
        BY <2>1 DEF File!IsFull, File!Bounds
      <3> QED
        BY <1>1, <3>1
    <2> QED
      BY <1>6, <2>1 DEF File!LastOut
  <1>9. File!PortHeld' /\ File!GetWhole'
    BY <1>6 DEF File!PortHeld, File!GetWhole, File!Active
  <1>10. \A n : File!Taken(n) => File!Taken(n)'
    BY DEF File!Taken
  <1> QED
    BY <1>0, <1>3, <1>4, <1>6, <1>7, <1>8, <1>9, <1>10, FileSent

\* The event is cleared and nothing is sent.
LEMMA FileCleared ==
  ASSUME File!Bounds, File!TftpInv, client' \in File!Clients, client'.dir = client.dir, client'.evt = "NONE",
         client'.state = client.state \/ (client'.state = "COMPLETE" /\ client.dir = "put"),
         client'.full = client.full, File!PortHeld', UNCHANGED <<net, started, given>>
  PROVE  File!TftpInv'
  <1> USE DEF File!TftpInv
  <1>1. \A b : File!Taken(b)' <=> File!Taken(b)
    BY DEF File!Taken
  <1>2. File!LastOut => File!LastOut'
    BY DEF File!LastOut, File!Resting
  <1>3. File!NetOK'
    BY <1>1, <1>2 DEF File!NetOK
  <1> QED
    BY <1>3 DEF File!Shapes, File!EventOK, File!GetWhole, File!BlocksInPlace

\* tiku_kits_net_tftp_poll.
LEMMA FilePollKeeps ==
  ASSUME File!Bounds, File!TftpInv, File!Poll
  PROVE  File!TftpInv'
  <1> USE DEF File!TftpInv
  <1>0. client \in File!Clients /\ given \in Seq({1} \X (1 .. TftpConst.Blocks))
    BY DEF File!Shapes
  <1>1. ASSUME client' = [client EXCEPT !.evt = "NONE"], client.state # "ERROR", UNCHANGED <<net, started, given>>
        PROVE  File!TftpInv'
    <2>1. /\ client' \in File!Clients /\ client'.evt = "NONE" /\ client'.state = client.state
             /\ client'.full = client.full
          /\ client'.dir = client.dir /\ client'.bound = client.bound
      BY <1>0, <1>1 DEF File!Clients
    <2>2. File!PortHeld'
      BY <1>1, <2>1 DEF File!PortHeld
    <2> QED
      BY <1>1, <2>1, <2>2, FileCleared
  <1>2. ASSUME NEW ok \in BOOLEAN, File!PollAck(ok)
        PROVE  File!TftpInv'
    <2>1. /\ started = 1 /\ client.tid = 1 /\ client.state \in File!Active /\ client.state \notin File!Resting
          /\ UNCHANGED <<started, given>> /\ client.state # "ERROR"
      BY <1>2 DEF File!PollAck, File!EventOK, File!Active, File!Resting
    <2>2. CASE client.dir = "get"
      BY <1>1, <1>2, <2>1, <2>2 DEF File!PollAck
    <2>3. CASE client.dir # "get" /\ ~client.full /\ client.state = "SENDING"
      <3>1. client' = [client EXCEPT !.evt = "NONE", !.state = "COMPLETE", !.bound = FALSE] /\ net' = net
        BY <1>0, <1>2, <2>3 DEF File!PollAck, File!Finish, File!Clients
      <3>2. /\ client' \in File!Clients /\ client'.evt = "NONE" /\ client'.state = "COMPLETE"
               /\ client'.full = client.full
            /\ client'.dir = client.dir /\ client'.bound = FALSE /\ client.dir = "put"
        BY <1>0, <2>3, <3>1 DEF File!Clients, File!Resting
      <3>3. File!PortHeld'
        BY <3>2 DEF File!PortHeld, File!Active
      <3> QED
        BY <2>1, <3>1, <3>2, <3>3, FileCleared
    <2>4. CASE client.dir # "get" /\ ~(~client.full /\ client.state = "SENDING")
      <3>1. File!SendBlock(client.block + 1, ok) /\ client.evt = "ACK_RECV"
        BY <1>2, <2>4 DEF File!PollAck
      <3>2. client.block # TftpConst.Blocks
        BY <2>1, <2>4, <3>1 DEF File!EventOK, File!LastOut
      <3>3. PICK b \in 1 .. TftpConst.Blocks : b = client.block + 1
        BY <1>0, <3>2 DEF File!Clients, File!Bounds
      <3>4. client.dir = "put"
        BY <1>0, <2>4 DEF File!Clients
      <3> QED
        BY <2>1, <3>1, <3>3, <3>4, FileBlock
    <2> QED
      BY <2>2, <2>3, <2>4
  <1>3. ASSUME NEW ok \in BOOLEAN, File!PollOack(ok)
        PROVE  File!TftpInv'
    <2>1. /\ started = 1 /\ client.tid = 1 /\ client.state \in File!Active /\ UNCHANGED <<started, given>>
      BY <1>3 DEF File!PollOack, File!EventOK
    <2>2. CASE client.dir = "get"
      <3>1. PICK m : m = [op |-> "CACK", tid |-> 1, block |-> 0, data |-> <<0, 0>>]
        OBVIOUS
      <3>2. m \in File!Packets /\ m.op = "CACK" /\ m.block = 0
        BY <3>1 DEF File!Packets, File!Bounds
      <3>3. client' = [client EXCEPT !.evt = "NONE", !.state = "TRANSFERRING"] /\ net' \in {net, net \union {m}}
        BY <1>3, <2>1, <2>2, <3>1 DEF File!PollOack, File!Send, File!Packet, File!Empty
      <3>4. "TRANSFERRING" \in File!Resting \union File!Active
        BY DEF File!Active
      <3>5. /\ client' \in File!Clients /\ client'.evt = "NONE" /\ client'.state = "TRANSFERRING"
            /\ client'.dir = client.dir /\ client'.bound = client.bound
        BY <1>0, <3>3, <3>4 DEF File!Clients
      <3>6. ~File!LastOut
        BY <2>1, <2>2 DEF File!LastOut, File!EventOK, File!Active, File!Resting
      <3>7. File!PortHeld' /\ File!GetWhole'
        BY <2>1, <3>5 DEF File!PortHeld, File!GetWhole, File!Active
      <3>8. File!Taken(0)' /\ \A n : File!Taken(n) => File!Taken(n)'
        BY <2>1 DEF File!Taken
      <3>9. File!Taken(m.block)'
        BY <3>2, <3>8 DEF File!Taken
      <3> QED
        BY <1>0, <2>1, <2>2, <3>2, <3>3, <3>5, <3>6, <3>7, <3>8, <3>9, FileSent
    <2>3. CASE client.dir # "get"
      <3>1. File!SendBlock(1, ok) /\ client.dir = "put" /\ 1 \in 1 .. TftpConst.Blocks
        BY <1>0, <1>3, <2>3 DEF File!PollOack, File!Clients, File!Bounds
      <3> QED
        BY <2>1, <3>1, FileBlock
    <2> QED
      BY <2>2, <2>3
  <1>4. CASE File!PollError
    <2>1. client' = [client EXCEPT !.evt = "NONE", !.bound = FALSE] /\ client.state = "ERROR"
         /\ UNCHANGED <<net, started, given>>
      BY <1>4 DEF File!PollError, File!EventOK
    <2>2. /\ client' \in File!Clients /\ client'.evt = "NONE" /\ client'.state = client.state
             /\ client'.full = client.full
          /\ client'.dir = client.dir /\ client'.bound = FALSE
      BY <1>0, <2>1 DEF File!Clients
    <2>3. File!PortHeld'
      BY <2>1, <2>2 DEF File!PortHeld, File!Active
    <2> QED
      BY <2>1, <2>2, <2>3, FileCleared
  <1> QED
    BY <1>2, <1>3, <1>4, FileData DEF File!Poll

\* The server's answers.
LEMMA FileServerKeeps ==
  ASSUME File!Bounds, File!TftpInv, NEW m \in net, File!ServerBegins(m) \/ File!ServerSends(m) \/ File!ServerStores(m)
  PROVE  File!TftpInv'
  <1> USE DEF File!TftpInv
  <1>0. m \in File!Packets /\ started = 1 /\ UNCHANGED <<client, started, given>> /\ net \in SUBSET File!Packets
    BY DEF File!Shapes, File!NetOK, File!ServerBegins, File!ServerSends, File!ServerStores
  <1>1. PICK b \in 0 .. TftpConst.Blocks : b = m.block /\ m.tid = 1
    BY <1>0 DEF File!Packets
  <1>2. ASSUME NEW x \in File!Packets, net' = net \union {x}, x.op \notin {"RRQ", "CACK", "CDATA"},
               x.op = "DATA" => client.dir = "get" /\ x.block # 0 /\ x.data = <<1, x.block>> /\ File!Taken(x.block - 1),
               x.op = "ACK" /\ x.block = TftpConst.Blocks => File!LastOut
        PROVE  File!TftpInv'
    <2>1. File!Shapes'
      BY <1>0, <1>2 DEF File!Shapes
    <2>2. (File!LastOut' <=> File!LastOut) /\ \A n : File!Taken(n)' <=> File!Taken(n)
      BY <1>0 DEF File!LastOut, File!Taken
    <2>3. File!NetOK'
      BY <1>0, <1>2, <2>2 DEF File!NetOK
    <2>4. File!EventOK'
      BY <1>0, <2>2 DEF File!EventOK
    <2> QED
      BY <1>0, <1>2, <2>1, <2>3, <2>4 DEF File!PortHeld, File!GetWhole, File!BlocksInPlace
  <1>3. 0 \in 0 .. TftpConst.Blocks /\ 1 \in 0 .. TftpConst.Blocks /\ TftpConst.Blocks # 0 /\ TftpConst.Blocks \in Nat
    BY DEF File!Bounds
  <1>4. CASE File!ServerBegins(m)
    <2>1. PICK x \in {File!Packet("ERROR", m.tid, 0, File!Empty), File!Packet("OACK", m.tid, 0, File!Empty),
                      IF m.op = "WRQ" THEN File!Packet("ACK", m.tid, 0, File!Empty)
                      ELSE File!Packet("DATA", m.tid, 1, <<m.tid, 1>>)} : net' = net \union {x}
      BY <1>4 DEF File!ServerBegins
    <2>2. \/ \E op \in {"ERROR", "OACK", "ACK"} : x = [op |-> op, tid |-> 1, block |-> 0, data |-> <<0, 0>>]
          \/ m.op = "RRQ" /\ x = [op |-> "DATA", tid |-> 1, block |-> 1, data |-> <<1, 1>>]
      BY <1>1, <1>4, <2>1 DEF File!ServerBegins, File!Packet, File!Empty
    <2>3. CASE \E op \in {"ERROR", "OACK", "ACK"} : x = [op |-> op, tid |-> 1, block |-> 0, data |-> <<0, 0>>]
      <3>1. x \in File!Packets /\ x.op \in {"ERROR", "OACK", "ACK"} /\ x.block = 0
        BY <1>3, <2>3 DEF File!Packets
      <3> QED
        BY <1>2, <1>3, <2>1, <3>1
    <2>4. CASE m.op = "RRQ" /\ x = [op |-> "DATA", tid |-> 1, block |-> 1, data |-> <<1, 1>>]
      <3>1. x \in File!Packets /\ x.op = "DATA" /\ x.block = 1 /\ x.data = <<1, 1>>
        BY <1>3, <2>4 DEF File!Packets
      <3>2. File!Taken(x.block - 1) /\ client.dir = "get"
        BY <2>4, <3>1 DEF File!Taken, File!NetOK
      <3> QED
        BY <1>2, <2>1, <3>1, <3>2
    <2> QED
      BY <2>2, <2>3, <2>4
  <1>5. CASE File!ServerSends(m)
    <2>1. PICK k \in 1 .. TftpConst.Blocks : k = b + 1
      BY <1>1, <1>3, <1>5 DEF File!ServerSends
    <2>2. PICK x : x = [op |-> "DATA", tid |-> 1, block |-> k, data |-> <<1, k>>]
      OBVIOUS
    <2>3. net' = net \union {x} /\ m.op = "CACK"
      BY <1>1, <1>5, <2>1, <2>2 DEF File!ServerSends, File!Packet
    <2>4. x \in File!Packets /\ x.op = "DATA" /\ x.block = k /\ x.data = <<1, k>>
      BY <1>3, <2>2 DEF File!Packets
    <2>5. client.dir = "get" /\ File!Taken(b) /\ x.block - 1 = b
      BY <1>1, <2>1, <2>3, <2>4 DEF File!NetOK
    <2>6. x.block # 0
      BY <2>1, <2>4
    <2> QED
      BY <1>2, <2>3, <2>4, <2>5, <2>6
  <1>6. CASE File!ServerStores(m)
    <2>1. PICK x : x = [op |-> "ACK", tid |-> 1, block |-> b, data |-> <<0, 0>>]
      OBVIOUS
    <2>2. net' = net \union {x} /\ m.op = "CDATA"
      BY <1>1, <1>6, <2>1 DEF File!ServerStores, File!Packet, File!Empty
    <2>3. x \in File!Packets /\ x.op = "ACK" /\ x.block = b
      BY <2>1 DEF File!Packets
    <2>4. b = TftpConst.Blocks => File!LastOut
      BY <1>1, <2>2 DEF File!NetOK
    <2> QED
      BY <1>2, <2>2, <2>3, <2>4
  <1> QED
    BY <1>4, <1>5, <1>6

LEMMA FileKeeps ==
  ASSUME File!Bounds, File!TftpInv, File!Next \/ UNCHANGED File!vars
  PROVE  File!TftpInv'
  <1>1. CASE UNCHANGED File!vars
    BY <1>1 DEF File!vars, File!TftpInv, File!Shapes, File!NetOK, File!LastOut, File!Taken, File!EventOK, File!PortHeld,
                File!GetWhole, File!BlocksInPlace
  <1>2. CASE File!Next
    BY <1>2, FileCallKeeps, FileReceiveKeeps, FilePollKeeps, FileServerKeeps DEF File!Next
  <1> QED
    BY <1>1, <1>2

\* However the network loses, repeats and reorders, a get that completes has given
\* data_cb every block of its file, a put sends each block under its own number,
\* and the port is bound exactly while a transfer is active.
THEOREM FilesArriveWhole == Spec => []TransferSound
  <1> DEFINE Safe == scenario = "tftp" => File!TftpInv
  <1>1. Init => Safe
    BY InitOfPart, FileStarts, ServiceBounds
  <1>2. Safe /\ [Next]_vars => Safe'
    BY StepOfPart, FileKeeps, ServiceBounds
  <1>3. Safe => TransferSound
    BY DEF TransferSound, File!TftpInv
  <1> QED
    BY <1>1, <1>2, <1>3, PTL DEF Spec

(***************************************************************************)
(* The resolver: AnswersTheQuestion and PortHeld, for any names, servers,  *)
(* answers, times and cache, as far as the hash tells the names apart.     *)
(***************************************************************************)
LEMMA FirstOfSome ==
  ASSUME Resolver!Bounds, NEW set \in SUBSET Resolver!Slots, set # {} PROVE Resolver!First(set) \in set
  <1>1. set \in SUBSET Nat
    BY DEF Resolver!Bounds, Resolver!Slots
  <1> QED
    BY <1>1, H!LeastOfSome DEF Resolver!First

\* Entries lose their place in the cache, and nothing else.
LEMMA FlushedFacts ==
  ASSUME Resolver!TypeOK
  PROVE  Resolver!Flushed \in [Resolver!Slots -> Resolver!Entries]
     /\ \A i \in Resolver!Slots : ~Resolver!Flushed[i].valid
  <1>1. \A i \in Resolver!Slots : cache[i] \in Resolver!Entries
    BY DEF Resolver!TypeOK
  <1>2. \A i \in Resolver!Slots : [cache[i] EXCEPT !.valid = FALSE] \in Resolver!Entries
       /\ ~[cache[i] EXCEPT !.valid = FALSE].valid
    BY <1>1 DEF Resolver!Entries
  <1> QED
    BY <1>2 DEF Resolver!Flushed

LEMMA LookedFacts ==
  ASSUME Resolver!TypeOK, NEW hash
  PROVE  /\ Resolver!Looked(hash) \in [Resolver!Slots -> Resolver!Entries]
         /\ \A i \in Resolver!Slots : Resolver!Looked(hash)[i].valid => Resolver!Looked(hash)[i] = cache[i]
  <1>1. \A i \in Resolver!Slots : cache[i] \in Resolver!Entries
    BY DEF Resolver!TypeOK
  <1>2. \A i \in Resolver!Slots : [cache[i] EXCEPT !.valid = FALSE] \in Resolver!Entries
       /\ ~[cache[i] EXCEPT !.valid = FALSE].valid
    BY <1>1 DEF Resolver!Entries
  <1> QED
    BY <1>1, <1>2 DEF Resolver!Looked

\* A cache that has lost entries, under a server that is the same.
LEMMA CacheKeeps ==
  ASSUME Resolver!CacheOK, \A i \in Resolver!Slots : cache'[i].valid => cache'[i] = cache[i], resolver'.server =
     resolver.server
  PROVE  Resolver!CacheOK'
  BY DEF Resolver!CacheOK

LEMMA ResolverStarts ==
  ASSUME Resolver!Bounds, Resolver!Init
  PROVE  Resolver!DnsInv
  <1>1. NULL \in Resolver!Hashes
    BY DEF Resolver!Hashes
  <1>2. resolver \in Resolver!Resolvers /\ resolver.st = "IDLE" /\ resolver.bound = FALSE
    BY <1>1 DEF Resolver!Init, Resolver!Fresh, Resolver!Resolvers
  <1>3. Resolver!Empty \in Resolver!Entries /\ Resolver!Empty.valid = FALSE
    BY <1>1 DEF Resolver!Empty, Resolver!Entries
  <1>4. cache \in [Resolver!Slots -> Resolver!Entries] /\ \A i \in Resolver!Slots : ~cache[i].valid
    BY <1>3 DEF Resolver!Init
  <1>5. Resolver!TypeOK
    BY <1>2, <1>4 DEF Resolver!Init, Resolver!TypeOK
  <1> QED
    BY <1>2, <1>4, <1>5 DEF Resolver!DnsInv, Resolver!PortHeld, Resolver!CacheOK, Resolver!QueryOK,
       Resolver!AnswersTheQuestion

\* reset, set_default_override and abort: the answer and the query of before are gone
\* or as they were.
LEMMA ResolverSet ==
  ASSUME Resolver!DnsInv, Resolver!Reset \/ Resolver!Flush \/ Resolver!Abort
     \/ \E s \in DnsConst.Servers : Resolver!SetServer(s)
  PROVE  Resolver!DnsInv'
  <1> USE DEF Resolver!DnsInv
  <1>0. /\ resolver \in Resolver!Resolvers /\ Resolver!Flushed \in [Resolver!Slots -> Resolver!Entries]
        /\ \A i \in Resolver!Slots : ~Resolver!Flushed[i].valid
    BY FlushedFacts DEF Resolver!TypeOK
  <1>1. CASE Resolver!Reset
    <2>1. resolver' = [Resolver!Fresh EXCEPT !.txn = resolver.txn, !.question = resolver.question]
         /\ cache' = Resolver!Flushed
          /\ UNCHANGED <<now, net, asked>>
      BY <1>1 DEF Resolver!Reset
    <2>2. resolver' \in Resolver!Resolvers /\ resolver'.st = "IDLE" /\ resolver'.bound = FALSE
      BY <1>0, <2>1 DEF Resolver!Fresh, Resolver!Resolvers, Resolver!Hashes
    <2> QED
      BY <1>0, <2>1, <2>2 DEF Resolver!TypeOK, Resolver!PortHeld, Resolver!CacheOK, Resolver!QueryOK,
         Resolver!AnswersTheQuestion
  <1>2. CASE Resolver!Flush
    BY <1>0, <1>2 DEF Resolver!Flush, Resolver!TypeOK, Resolver!PortHeld, Resolver!CacheOK, Resolver!QueryOK,
                      Resolver!AnswersTheQuestion
  <1>3. CASE Resolver!Abort
    <2>1. resolver' = [resolver EXCEPT !.bound = FALSE, !.st = "IDLE", !.ready = FALSE, !.retries = 0]
          /\ UNCHANGED <<cache, now, net, asked>>
      BY <1>3 DEF Resolver!Abort
    <2>2. resolver' \in Resolver!Resolvers /\ resolver'.st = "IDLE" /\ resolver'.bound = FALSE
         /\ resolver'.server = resolver.server
      BY <1>0, <2>1 DEF Resolver!Resolvers
    <2> QED
      BY <2>1, <2>2 DEF Resolver!TypeOK, Resolver!PortHeld, Resolver!CacheOK, Resolver!QueryOK,
         Resolver!AnswersTheQuestion
  <1>4. ASSUME NEW s \in DnsConst.Servers, Resolver!SetServer(s)
        PROVE  Resolver!DnsInv'
    <2>1. /\ resolver.st # "SENT" /\ resolver' = [resolver EXCEPT !.server = s] /\ UNCHANGED <<now, net, asked>>
          /\ cache' = IF resolver.server # s THEN Resolver!Flushed ELSE cache
      BY <1>4 DEF Resolver!SetServer
    <2>2. resolver' \in Resolver!Resolvers /\ resolver'.server = s
          /\ \A f \in {"st", "bound", "addr", "ttl", "rx"} : resolver'[f] = resolver[f]
      BY <1>0, <2>1 DEF Resolver!Resolvers
    <2>3. Resolver!TypeOK'
      BY <1>0, <2>1, <2>2 DEF Resolver!TypeOK
    <2>4. Resolver!CacheOK'
      BY <1>0, <2>1, <2>2 DEF Resolver!CacheOK
    <2> QED
      BY <2>1, <2>2, <2>3, <2>4 DEF Resolver!PortHeld, Resolver!QueryOK, Resolver!AnswersTheQuestion
  <1> QED
    BY <1>1, <1>2, <1>3, <1>4

\* resolve: what the cache has for the hash is the address of the name.
LEMMA ResolveKeeps ==
  ASSUME Resolver!Bounds, Resolver!DnsInv, NEW n \in DnsConst.Names,
         Resolver!ResolveCached(n) \/ \E bind, send \in BOOLEAN : Resolver!ResolveAsk(n, bind, send)
  PROVE  Resolver!DnsInv'
  <1> USE DEF Resolver!DnsInv
  <1>0. /\ resolver \in Resolver!Resolvers /\ DnsConst.Hash[n] \in Resolver!Hashes
        /\ Resolver!Looked(DnsConst.Hash[n]) \in [Resolver!Slots -> Resolver!Entries]
        /\ \A i \in Resolver!Slots : Resolver!Looked(DnsConst.Hash[n])[i].valid
           => Resolver!Looked(DnsConst.Hash[n])[i] = cache[i]
        /\ ~Resolver!Refused(n) /\ cache' = Resolver!Looked(DnsConst.Hash[n])
           /\ asked' = [name |-> n, server |-> resolver.server]
        /\ UNCHANGED now
    BY LookedFacts DEF Resolver!TypeOK, Resolver!Hashes, Resolver!ResolveCached, Resolver!ResolveAsk
  <1>1. resolver.server \in DnsConst.Servers /\ resolver.st # "SENT" /\ resolver.bound = FALSE
    BY <1>0 DEF Resolver!Refused, Resolver!Resolvers, Resolver!PortHeld
  <1>2. asked' \in [name : DnsConst.Names \union {NULL}, server : DnsConst.Servers \union {NULL}]
    BY <1>0, <1>1
  <1>3. CASE Resolver!ResolveCached(n)
    <2>1. PICK i : i = Resolver!First(Resolver!Hits(DnsConst.Hash[n])) /\ i \in Resolver!Hits(DnsConst.Hash[n])
      BY <1>3, FirstOfSome DEF Resolver!ResolveCached, Resolver!Hits, Resolver!Matches
    <2>2. i \in Resolver!Slots /\ cache[i].valid /\ cache[i].hash = DnsConst.Hash[n]
         /\ Resolver!Elapsed(i) < cache[i].ttl
      BY <2>1 DEF Resolver!Hits, Resolver!Matches
    <2>3. cache[i].addr \in Resolver!Addresses /\ cache[i].addr = [name |-> n, server |-> resolver.server]
      <3>1. /\ cache[i].addr \in Resolver!Addresses /\ cache[i].addr.server = resolver.server
            /\ cache[i].hash = DnsConst.Hash[cache[i].addr.name]
        BY <2>2 DEF Resolver!CacheOK
      <3>2. cache[i].addr.name = n
        BY <2>2, <3>1 DEF Resolver!Bounds, Resolver!Addresses
      <3> QED
        BY <3>1, <3>2 DEF Resolver!Addresses
    <2>4. Resolver!Remaining(i) \in Nat \ {0}
      <3>1. cache[i] \in Resolver!Entries /\ now \in Nat
        BY <2>2 DEF Resolver!TypeOK
      <3>2. cache[i].ttl \in Nat /\ cache[i].at \in Nat
        BY <3>1 DEF Resolver!Entries
      <3> QED
        BY <2>2, <3>1, <3>2 DEF Resolver!Remaining, Resolver!Elapsed
    <2>5. /\ resolver' = [resolver EXCEPT !.st = "DONE", !.hash = DnsConst.Hash[n], !.addr = cache[i].addr,
             !.ttl = Resolver!Remaining(i)]
          /\ UNCHANGED net
      BY <1>3, <2>1 DEF Resolver!ResolveCached
    <2>6. /\ resolver' \in Resolver!Resolvers /\ resolver'.st = "DONE" /\ resolver'.bound = FALSE
             /\ resolver'.server = resolver.server
          /\ resolver'.addr = cache[i].addr /\ resolver'.ttl # 0
      BY <1>0, <1>1, <2>3, <2>4, <2>5 DEF Resolver!Resolvers
    <2>7. Resolver!CacheOK'
      BY <1>0, <2>6, CacheKeeps
    <2>8. Resolver!TypeOK'
      BY <1>0, <1>2, <2>5, <2>6 DEF Resolver!TypeOK
    <2> QED
      BY <1>0, <2>3, <2>6, <2>7, <2>8 DEF Resolver!PortHeld, Resolver!QueryOK, Resolver!AnswersTheQuestion
  <1>4. ASSUME NEW bind \in BOOLEAN, NEW send \in BOOLEAN, Resolver!ResolveAsk(n, bind, send)
        PROVE  Resolver!DnsInv'
    <2>1. PICK id \in Nat : id = Resolver!NextId
      BY <1>0 DEF Resolver!NextId, Resolver!Resolvers, Resolver!Bounds
    <2>2. PICK q : q = [resolver EXCEPT !.hash = DnsConst.Hash[n], !.ready = FALSE, !.retries = 0, !.addr = NULL,
         !.ttl = 0,
                                       !.txn = id, !.question = n]
      OBVIOUS
    <2>3. /\ q \in Resolver!Resolvers /\ q.hash = DnsConst.Hash[n] /\ q.ready = FALSE /\ q.question = n /\ q.txn = id
          /\ q.server = resolver.server /\ q.bound = FALSE
      BY <1>0, <1>1, <2>2 DEF Resolver!Resolvers
    <2>4. \/ /\ resolver' = [q EXCEPT !.st = "SENT", !.bound = TRUE]
             /\ net' = net \union {[id |-> q.txn, question |-> n, server |-> resolver.server]}
          \/ resolver' = [q EXCEPT !.st = "ERROR"] /\ net' = net
      BY <1>4, <2>1, <2>2 DEF Resolver!ResolveAsk
    <2>5. net' \in SUBSET [id : Nat, question : DnsConst.Names, server : DnsConst.Servers]
      BY <1>1, <2>3, <2>4 DEF Resolver!TypeOK
    <2>6. CASE resolver' = [q EXCEPT !.st = "SENT", !.bound = TRUE]
      <3>1. /\ resolver' \in Resolver!Resolvers /\ resolver'.st = "SENT" /\ resolver'.bound = TRUE
               /\ resolver'.server = resolver.server
            /\ resolver'.question = n /\ resolver'.ready = FALSE /\ resolver'.hash = DnsConst.Hash[n]
        BY <2>3, <2>6 DEF Resolver!Resolvers
      <3>2. Resolver!CacheOK'
        BY <1>0, <3>1, CacheKeeps
      <3>3. Resolver!TypeOK'
        BY <1>0, <1>2, <2>5, <3>1 DEF Resolver!TypeOK
      <3> QED
        BY <1>0, <1>1, <3>1, <3>2, <3>3 DEF Resolver!PortHeld, Resolver!QueryOK, Resolver!AnswersTheQuestion
    <2>7. CASE resolver' = [q EXCEPT !.st = "ERROR"]
      <3>1. /\ resolver' \in Resolver!Resolvers /\ resolver'.st = "ERROR" /\ resolver'.bound = FALSE
               /\ resolver'.server = resolver.server
        BY <2>3, <2>7 DEF Resolver!Resolvers
      <3>2. Resolver!CacheOK'
        BY <1>0, <3>1, CacheKeeps
      <3>3. Resolver!TypeOK'
        BY <1>0, <1>2, <2>5, <3>1 DEF Resolver!TypeOK
      <3> QED
        BY <3>1, <3>2, <3>3 DEF Resolver!PortHeld, Resolver!QueryOK, Resolver!AnswersTheQuestion
    <2> QED
      BY <2>4, <2>6, <2>7
  <1> QED
    BY <1>3, <1>4

\* dns_recv_cb: only an answer to the query that is out, of the server it went to.
LEMMA ResolverReceives ==
  ASSUME Resolver!Bounds, Resolver!DnsInv, NEW q \in net, NEW shape \in DnsConst.Shapes, NEW ttl \in DnsConst.Ttls,
         Resolver!Receive(q, shape, ttl)
  PROVE  Resolver!DnsInv'
  <1> USE DEF Resolver!DnsInv
  <1>1. resolver \in Resolver!Resolvers /\ q \in [id : Nat, question : DnsConst.Names, server : DnsConst.Servers]
       /\ ttl \in Nat
    BY DEF Resolver!TypeOK, Resolver!Bounds
  <1>2. PICK m : m = [question |-> q.question, shape |-> shape, ttl |-> ttl,
                      addr |-> [name |-> q.question, server |-> q.server]]
    OBVIOUS
  <1>3. m \in Resolver!Replies /\ m.addr = [name |-> m.question, server |-> q.server]
    BY <1>1, <1>2 DEF Resolver!Replies, Resolver!Addresses
  <1>4. /\ resolver.bound /\ resolver.st = "SENT" /\ q.server = resolver.server
        /\ resolver' = [resolver EXCEPT !.ready = TRUE, !.rx = m] /\ UNCHANGED <<cache, now, net, asked>>
    BY <1>2 DEF Resolver!Receive
  <1>5. /\ resolver' \in Resolver!Resolvers /\ resolver'.rx = m
        /\ \A f \in {"st", "bound", "server", "question", "hash"} : resolver'[f] = resolver[f]
    BY <1>1, <1>3, <1>4 DEF Resolver!Resolvers
  <1>6. Resolver!QueryOK'
    BY <1>3, <1>4, <1>5 DEF Resolver!QueryOK
  <1>7. Resolver!CacheOK'
    BY <1>4, <1>5 DEF Resolver!CacheOK
  <1> QED
    BY <1>4, <1>5, <1>6, <1>7 DEF Resolver!TypeOK, Resolver!PortHeld, Resolver!AnswersTheQuestion

\* dns_poll: the answer that waits is taken only if it repeats the question.
LEMMA ResolverPolls ==
  ASSUME Resolver!DnsInv, Resolver!Poll
  PROVE  Resolver!DnsInv'
  <1> USE DEF Resolver!DnsInv
  <1>0. resolver \in Resolver!Resolvers
    BY DEF Resolver!TypeOK
  <1>1. CASE Resolver!PollAnswer
    <2>1. PICK m : m = resolver.rx
      OBVIOUS
    <2>2. /\ resolver.st = "SENT" /\ resolver.question \in DnsConst.Names /\ resolver.server \in DnsConst.Servers
          /\ resolver.hash = DnsConst.Hash[resolver.question]
             /\ asked = [name |-> resolver.question, server |-> resolver.server]
          /\ m \in Resolver!Replies /\ m.addr = [name |-> m.question, server |-> resolver.server]
      BY <1>1, <2>1 DEF Resolver!PollAnswer, Resolver!QueryOK
    <2>3. PICK over : over = [resolver EXCEPT !.ready = FALSE, !.bound = FALSE, !.rcode = m.shape.rcode]
      OBVIOUS
    <2>4. m.shape.rcode \in {r.rcode : r \in DnsConst.Shapes} /\ m.addr \in Resolver!Addresses /\ m.ttl \in Nat
      BY <2>2 DEF Resolver!Replies
    <2>5. over \in Resolver!Resolvers /\ over.bound = FALSE /\ over.server = resolver.server /\ over.rx = m
      BY <1>0, <2>1, <2>3, <2>4 DEF Resolver!Resolvers
    <2>6. /\ UNCHANGED <<now, net, asked>>
          /\ \/ /\ Resolver!Parses(m) /\ resolver' = [over EXCEPT !.st = "DONE", !.addr = m.addr, !.ttl = m.ttl]
                /\ cache' = Resolver!Inserted(resolver.hash, m.addr, m.ttl)
             \/ resolver' = [over EXCEPT !.st = "ERROR"] /\ UNCHANGED cache
      BY <1>1, <2>1, <2>3 DEF Resolver!PollAnswer
    <2>7. CASE /\ Resolver!Parses(m) /\ resolver' = [over EXCEPT !.st = "DONE", !.addr = m.addr, !.ttl = m.ttl]
               /\ cache' = Resolver!Inserted(resolver.hash, m.addr, m.ttl)
      <3>1. m.addr = asked /\ m.addr.name = resolver.question /\ m.addr.server = resolver.server
        BY <2>2, <2>7 DEF Resolver!Parses, Resolver!QuestionMatches
      <3>2. /\ resolver' \in Resolver!Resolvers /\ resolver'.st = "DONE" /\ resolver'.bound = FALSE
               /\ resolver'.server = resolver.server
            /\ resolver'.addr = m.addr /\ resolver'.ttl = m.ttl /\ resolver'.rx = m
        BY <2>4, <2>5, <2>7 DEF Resolver!Resolvers
      <3>3. PICK e : e = [valid |-> TRUE, hash |-> resolver.hash, addr |-> m.addr, ttl |-> m.ttl, at |-> now]
        OBVIOUS
      <3>4. e \in Resolver!Entries /\ e.addr = m.addr /\ e.hash = resolver.hash
        BY <1>0, <2>4, <3>3 DEF Resolver!Entries, Resolver!Resolvers, Resolver!TypeOK
      <3>5. cache' = [cache EXCEPT ![Resolver!Victim] = e]
        BY <2>7, <3>3 DEF Resolver!Inserted
      <3>6. /\ cache' \in [Resolver!Slots -> Resolver!Entries]
            /\ \A i \in Resolver!Slots : cache'[i] = cache[i] \/ cache'[i] = e
        BY <3>4, <3>5 DEF Resolver!TypeOK
      <3>7. Resolver!CacheOK'
        BY <2>2, <2>4, <3>1, <3>2, <3>4, <3>6 DEF Resolver!CacheOK
      <3>8. Resolver!TypeOK'
        BY <2>6, <3>2, <3>6 DEF Resolver!TypeOK
      <3> QED
        BY <2>6, <3>1, <3>2, <3>7, <3>8 DEF Resolver!PortHeld, Resolver!QueryOK, Resolver!AnswersTheQuestion
    <2>8. CASE resolver' = [over EXCEPT !.st = "ERROR"] /\ UNCHANGED cache
      <3>1. resolver' \in Resolver!Resolvers /\ resolver'.st = "ERROR" /\ resolver'.bound = FALSE
           /\ resolver'.server = resolver.server
        BY <2>5, <2>8 DEF Resolver!Resolvers
      <3> QED
        BY <2>6, <2>8, <3>1 DEF Resolver!TypeOK, Resolver!CacheOK, Resolver!PortHeld, Resolver!QueryOK,
           Resolver!AnswersTheQuestion
    <2> QED
      BY <2>6, <2>7, <2>8
  <1>2. CASE Resolver!PollNothing
    <2>1. PICK k \in Nat : k = resolver.retries + 1
      BY <1>0 DEF Resolver!Resolvers
    <2>2. /\ resolver.st = "SENT" /\ ~resolver.ready /\ UNCHANGED <<cache, now, net, asked>>
          /\ \/ resolver' = [resolver EXCEPT !.retries = k, !.bound = FALSE, !.st = "ERROR"]
             \/ resolver' = [resolver EXCEPT !.retries = k]
      BY <1>0, <1>2, <2>1 DEF Resolver!PollNothing, Resolver!Resolvers
    <2>3. CASE resolver' = [resolver EXCEPT !.retries = k, !.bound = FALSE, !.st = "ERROR"]
      <3>1. resolver' \in Resolver!Resolvers /\ resolver'.st = "ERROR" /\ resolver'.bound = FALSE
           /\ resolver'.server = resolver.server
        BY <1>0, <2>3 DEF Resolver!Resolvers
      <3> QED
        BY <2>2, <3>1 DEF Resolver!TypeOK, Resolver!CacheOK, Resolver!PortHeld, Resolver!QueryOK,
           Resolver!AnswersTheQuestion
    <2>4. CASE resolver' = [resolver EXCEPT !.retries = k]
      <3>1. resolver' \in Resolver!Resolvers
            /\ \A f \in {"st", "bound", "server", "question", "hash", "ready", "rx"} : resolver'[f] = resolver[f]
        BY <1>0, <2>4 DEF Resolver!Resolvers
      <3> QED
        BY <2>2, <3>1 DEF Resolver!TypeOK, Resolver!CacheOK, Resolver!PortHeld, Resolver!QueryOK,
           Resolver!AnswersTheQuestion
    <2> QED
      BY <2>2, <2>3, <2>4
  <1> QED
    BY <1>1, <1>2 DEF Resolver!Poll

LEMMA ResolverKeeps ==
  ASSUME Resolver!Bounds, Resolver!DnsInv, Resolver!Next \/ UNCHANGED Resolver!vars
  PROVE  Resolver!DnsInv'
  <1>1. CASE UNCHANGED Resolver!vars
    BY <1>1 DEF Resolver!vars, Resolver!DnsInv, Resolver!TypeOK, Resolver!CacheOK, Resolver!PortHeld, Resolver!QueryOK,
                Resolver!AnswersTheQuestion
  <1>2. CASE Resolver!Tick
    BY <1>2 DEF Resolver!Tick, Resolver!DnsInv, Resolver!TypeOK, Resolver!CacheOK, Resolver!PortHeld, Resolver!QueryOK,
                Resolver!AnswersTheQuestion
  <1> QED
    BY <1>1, <1>2, ResolverSet, ResolveKeeps, ResolverReceives, ResolverPolls DEF Resolver!Next

\* A name is given the address that the server in use gave that name, fresh or from
\* the cache, whatever answers come late or again; the port is held while a query
\* is out.
THEOREM NamesAreResolved == Spec => []NamesResolve
  <1> DEFINE Safe == scenario = "dns" => Resolver!DnsInv
  <1>1. Init => Safe
    BY InitOfPart, ResolverStarts, ServiceBounds
  <1>2. Safe /\ [Next]_vars => Safe'
    BY StepOfPart, ResolverKeeps, ServiceBounds
  <1>3. Safe => NamesResolve
    BY DEF Resolver!DnsInv, NamesResolve
  <1> QED
    BY <1>1, <1>2, <1>3, PTL DEF Spec

(***************************************************************************)
(* The DHCP client: AddressGranted and PortHeld, for any servers, offers   *)
(* and number of retries.                                                  *)
(***************************************************************************)
LEMMA LeaseStarts ==
  ASSUME Lease!Init
  PROVE  Lease!LeaseInv
  <1>1. /\ client = [st |-> "IDLE", evt |-> "NONE", lease |-> Lease!NoLease, xid |-> 0, retries |-> 0, saved |-> NULL,
           bound |-> FALSE]
        /\ addr = DhcpConst.Static /\ acked = {}
    BY DEF Lease!Init, Lease!Idle
  <1>2. NULL \in Lease!Addresses /\ Lease!NoLease \in Lease!Leases
    BY DEF Lease!NoLease, Lease!Leases, Lease!Addresses
  <1>3. Lease!TypeOK
    BY <1>1, <1>2 DEF Lease!TypeOK, Lease!Clients
  <1>4. NULL \in Lease!Granted /\ DhcpConst.Static \in Lease!Granted
    BY DEF Lease!Granted
  <1>5. Lease!AddressGranted
    BY <1>1, <1>4 DEF Lease!AddressGranted, Lease!Granted
  <1>6. Lease!PortHeld
    BY <1>1 DEF Lease!PortHeld, Lease!Negotiating
  <1> QED
    BY <1>1, <1>3, <1>4, <1>5, <1>6 DEF Lease!LeaseInv

\* What the parts of the invariant say of one state, without their names.
LEMMA LeaseFacts ==
  ASSUME Lease!LeaseInv
  PROVE  /\ client \in Lease!Clients /\ acked \in SUBSET (DhcpConst.Servers \X Lease!Addresses)
         /\ client.saved \in Lease!Granted /\ client.saved \in Lease!Addresses
         /\ addr \in Lease!Granted /\ addr \in Lease!Addresses
         /\ client.st \in {"DISCOVER_SENT", "REQUESTING"} => client.bound /\ addr = NULL
         /\ client.evt = "ACK" => <<client.lease.server, client.lease.ip>> \in acked
            /\ client.lease.ip \in Lease!Granted
         /\ client.st = "BOUND" => ~client.bound
         /\ client.st = "BOUND" /\ client.lease.ip # NULL => <<client.lease.server, addr>> \in acked
            /\ client.lease.ip = addr
  <1>1. Lease!TypeOK
    BY DEF Lease!LeaseInv
  <1>2. client.saved \in Lease!Granted /\ addr \in Lease!Granted
    BY DEF Lease!LeaseInv, Lease!AddressGranted, Lease!Granted
  <1>7. addr \in Lease!Addresses
    BY <1>1, <1>2 DEF Lease!TypeOK, Lease!Granted, Lease!Addresses
  <1>3. client.st \in {"DISCOVER_SENT", "REQUESTING"} => client.bound /\ addr = NULL
    BY DEF Lease!LeaseInv, Lease!PortHeld, Lease!Negotiating
  <1>4. ASSUME client.evt = "ACK"
        PROVE  <<client.lease.server, client.lease.ip>> \in acked /\ client.lease.ip \in Lease!Granted
    <2>1. <<client.lease.server, client.lease.ip>> \in acked
      BY <1>4 DEF Lease!LeaseInv
    <2>2. <<client.lease.server, client.lease.ip>>[2] = client.lease.ip
      OBVIOUS
    <2> QED
      BY <2>1, <2>2 DEF Lease!Granted
  <1>5. client.st = "BOUND" => ~client.bound
    BY DEF Lease!LeaseInv
  <1>6. client.st = "BOUND" /\ client.lease.ip # NULL => <<client.lease.server, addr>> \in acked
       /\ client.lease.ip = addr
    BY DEF Lease!LeaseInv, Lease!AddressGranted
  <1> QED
    BY <1>1, <1>2, <1>3, <1>4, <1>5, <1>6, <1>7 DEF Lease!TypeOK, Lease!Clients

\* The same facts after a step make the invariant again; what was granted stays.
LEMMA LeaseAgain ==
  ASSUME Lease!LeaseInv, acked \subseteq acked', acked' \in SUBSET (DhcpConst.Servers \X Lease!Addresses),
         client' \in Lease!Clients, client'.saved \in Lease!Granted, addr' \in Lease!Granted,
         client'.st \in {"DISCOVER_SENT", "REQUESTING"} => client'.bound /\ addr' = NULL,
         client'.evt = "ACK" => <<client'.lease.server, client'.lease.ip>> \in acked',
         client'.st = "BOUND" => /\ ~client'.bound
                                 /\ client'.lease.ip # NULL => <<client'.lease.server, addr'>> \in acked'
                                    /\ client'.lease.ip = addr'
  PROVE  Lease!LeaseInv'
  <1>1. Lease!Granted \subseteq Lease!Granted' /\ Lease!Granted \subseteq Lease!Addresses
    BY DEF Lease!Granted, Lease!LeaseInv, Lease!TypeOK, Lease!Addresses
  <1>2. client'.saved \in Lease!Granted' /\ addr' \in Lease!Granted'
    BY <1>1
  <1>3. Lease!TypeOK'
    BY DEF Lease!TypeOK, Lease!Clients, Lease!Leases, Lease!Addresses
  <1>4. Lease!PortHeld'
    BY DEF Lease!PortHeld, Lease!Negotiating
  <1>5. Lease!AddressGranted'
    BY <1>2 DEF Lease!AddressGranted, Lease!Granted
  <1> QED
    BY <1>2, <1>3, <1>4, <1>5 DEF Lease!LeaseInv

\* The calls of the application.
LEMMA DhcpCallKeeps ==
  ASSUME Lease!LeaseInv,
         \/ Lease!Reset
         \/ \E free, sent \in BOOLEAN : Lease!Start(free, sent)
         \/ \E sent \in BOOLEAN : Lease!Release(sent)
  PROVE  Lease!LeaseInv'
  <1>0. NULL \in Lease!Granted /\ NULL \in Lease!Addresses /\ Lease!NoLease \in Lease!Leases
    BY DEF Lease!Granted, Lease!NoLease, Lease!Leases, Lease!Addresses
  <1>1. CASE Lease!Reset
    <2>1. client' = [st |-> "IDLE", evt |-> "NONE", lease |-> Lease!NoLease, xid |-> client.xid, retries |-> 0,
                     saved |-> NULL, bound |-> FALSE] /\ UNCHANGED <<addr, acked>>
      BY <1>1 DEF Lease!Reset, Lease!Idle
    <2>2. client' \in Lease!Clients
      BY <1>0, <2>1, LeaseFacts DEF Lease!Clients
    <2> QED
      BY <1>0, <2>1, <2>2, LeaseFacts, LeaseAgain
  <1>2. ASSUME NEW free \in BOOLEAN, NEW sent \in BOOLEAN, Lease!Start(free, sent)
        PROVE  Lease!LeaseInv'
    <2>1. ~(client.st \in {"DISCOVER_SENT", "REQUESTING"}) /\ UNCHANGED acked
      BY <1>2 DEF Lease!Start, Lease!Negotiating
    <2>2. PICK k : k = [client EXCEPT !.saved = addr, !.xid = @ + 1, !.lease = Lease!NoLease, !.evt = "NONE",
         !.retries = 0]
      OBVIOUS
    <2>3. k \in Lease!Clients /\ k.saved = addr /\ k.st = client.st /\ k.lease = Lease!NoLease /\ k.evt = "NONE"
         /\ k.bound = client.bound
      <3>1. client \in Lease!Clients /\ addr \in Lease!Addresses
        BY LeaseFacts
      <3>2. PICK xid \in Nat : xid = client.xid + 1
        BY <3>1 DEF Lease!Clients
      <3>3. k = [client EXCEPT !.saved = addr, !.xid = xid, !.lease = Lease!NoLease, !.evt = "NONE", !.retries = 0]
        BY <2>2, <3>1, <3>2 DEF Lease!Clients
      <3> QED
        BY <1>0, <3>1, <3>3 DEF Lease!Clients
    <2>4. \/ client' = [k EXCEPT !.bound = TRUE, !.st = "DISCOVER_SENT"] /\ addr' = NULL
          \/ client' = k /\ addr' = addr
      BY <1>2, <2>2 DEF Lease!Start
    <2>5. CASE client' = [k EXCEPT !.bound = TRUE, !.st = "DISCOVER_SENT"] /\ addr' = NULL
      <3>1. client' \in Lease!Clients /\ client'.saved = addr /\ client'.st = "DISCOVER_SENT" /\ client'.evt = "NONE"
           /\ client'.bound
        BY <2>3, <2>5 DEF Lease!Clients
      <3> QED
        BY <1>0, <2>1, <2>5, <3>1, LeaseFacts, LeaseAgain
    <2>6. CASE client' = k /\ addr' = addr
      <3>1. Lease!NoLease.ip = NULL
        BY DEF Lease!NoLease
      <3>2. client'.lease.ip = NULL /\ client'.evt = "NONE" /\ client'.st = client.st /\ client'.bound = client.bound
        BY <2>3, <2>6, <3>1
      <3> QED
        BY <2>1, <2>3, <2>6, <3>2, LeaseFacts, LeaseAgain
    <2> QED
      BY <2>4, <2>5, <2>6
  <1>3. ASSUME NEW sent \in BOOLEAN, Lease!Release(sent)
        PROVE  Lease!LeaseInv'
    <2>1. PICK b \in BOOLEAN : b = IF client.st = "BOUND" THEN FALSE ELSE client.bound
      BY LeaseFacts DEF Lease!Clients
    <2>2. client' = [client EXCEPT !.st = "IDLE", !.evt = "NONE", !.bound = b] /\ UNCHANGED <<addr, acked>>
      BY <1>3, <2>1 DEF Lease!Release
    <2>3. client' \in Lease!Clients /\ client'.st = "IDLE" /\ client'.evt = "NONE" /\ client'.saved = client.saved
      BY <2>2, LeaseFacts DEF Lease!Clients
    <2> QED
      BY <2>2, <2>3, LeaseFacts, LeaseAgain
  <1> QED
    BY <1>1, <1>2, <1>3

\* A reply of any server, over the lease, whatever the state.
LEMMA DhcpReceiveKeeps ==
  ASSUME Lease!LeaseInv, NEW m \in net, NEW s \in DhcpConst.Servers, NEW routed \in BOOLEAN,
         Lease!Receive(m, s, routed)
  PROVE  Lease!LeaseInv'
  <1>1. /\ DhcpConst.Offers[s] \in Lease!Addresses /\ NULL \in Lease!Addresses /\ client.bound
        /\ client.st # "BOUND" /\ UNCHANGED addr
    BY LeaseFacts DEF Lease!Addresses, Lease!Receive
  <1>2. \A ip \in Lease!Addresses, on \in BOOLEAN :
           Lease!Stored(s, ip, on) \in Lease!Leases /\ Lease!Stored(s, ip, on).ip = ip
              /\ Lease!Stored(s, ip, on).server = s
    BY LeaseFacts DEF Lease!Stored, Lease!Leases, Lease!Clients
  <1>3. PICK evt \in {"OFFER", "ACK", "NAK"}, ip \in Lease!Addresses, on \in BOOLEAN :
           /\ client' = [client EXCEPT !.evt = evt, !.lease = Lease!Stored(s, ip, on)]
           /\ acked' = IF evt = "ACK" THEN acked \union {<<s, ip>>} ELSE acked
    BY <1>1 DEF Lease!Receive
  <1>4. /\ client' \in Lease!Clients /\ client'.st = client.st /\ client'.bound = client.bound
           /\ client'.saved = client.saved
        /\ client'.evt = evt /\ client'.lease.server = s /\ client'.lease.ip = ip
    BY <1>2, <1>3, LeaseFacts DEF Lease!Clients
  <1>5. acked \subseteq acked' /\ acked' \in SUBSET (DhcpConst.Servers \X Lease!Addresses)
       /\ (evt = "ACK" => <<s, ip>> \in acked')
    BY <1>3, LeaseFacts
  <1> QED
    BY <1>1, <1>4, <1>5, LeaseFacts, LeaseAgain

\* dhcp_poll: the address goes back to the old one, or is the one that the ACK left.
LEMMA DhcpPollKeeps ==
  ASSUME Lease!LeaseInv, Lease!ProcessPoll
  PROVE  Lease!LeaseInv'
  <1>0. client.st \in {"DISCOVER_SENT", "REQUESTING"} /\ client.bound /\ addr = NULL
    BY LeaseFacts DEF Lease!ProcessPoll, Lease!Negotiating
  <1>1. ASSUME NEW idle \in BOOLEAN, Lease!PollNothing(idle)
        PROVE  Lease!LeaseInv'
    <2>1. PICK k : k = [client EXCEPT !.retries = @ + 1]
      OBVIOUS
    <2>2. /\ client.evt = "NONE" /\ UNCHANGED acked
          /\ \/ client' = [k EXCEPT !.bound = FALSE, !.st = "ERROR"] /\ addr' = client.saved
             \/ client' = k /\ addr' = addr
      BY <1>1, <2>1 DEF Lease!PollNothing
    <2>3. k \in Lease!Clients /\ k.st = client.st /\ k.evt = "NONE" /\ k.bound = client.bound /\ k.saved = client.saved
      BY <2>1, <2>2, LeaseFacts DEF Lease!Clients
    <2>4. CASE client' = [k EXCEPT !.bound = FALSE, !.st = "ERROR"] /\ addr' = client.saved
      <3>1. client' \in Lease!Clients /\ client'.st = "ERROR" /\ client'.evt = "NONE" /\ client'.saved = client.saved
        BY <2>3, <2>4 DEF Lease!Clients
      <3> QED
        BY <2>2, <2>4, <3>1, LeaseFacts, LeaseAgain
    <2>5. CASE client' = k /\ addr' = addr
      BY <1>0, <2>2, <2>3, <2>5, LeaseFacts, LeaseAgain
    <2> QED
      BY <2>2, <2>4, <2>5
  <1>2. ASSUME NEW sent \in BOOLEAN, Lease!PollOffer(sent)
        PROVE  Lease!LeaseInv'
    <2>1. /\ UNCHANGED <<addr, acked>>
          /\ \/ client' = [client EXCEPT !.evt = "NONE", !.retries = 0, !.st = "REQUESTING"]
             \/ client' = [client EXCEPT !.evt = "NONE"]
      BY <1>2 DEF Lease!PollOffer
    <2>2. /\ client' \in Lease!Clients /\ client'.st \in {"DISCOVER_SENT", "REQUESTING"} /\ client'.evt = "NONE"
          /\ client'.bound = client.bound /\ client'.saved = client.saved
      <3>1. client \in Lease!Clients
        BY LeaseFacts
      <3>2. CASE client' = [client EXCEPT !.evt = "NONE", !.retries = 0, !.st = "REQUESTING"]
        BY <3>1, <3>2 DEF Lease!Clients
      <3>3. CASE client' = [client EXCEPT !.evt = "NONE"]
        BY <1>0, <3>1, <3>3 DEF Lease!Clients
      <3> QED
        BY <2>1, <3>2, <3>3
    <2> QED
      BY <1>0, <2>1, <2>2, LeaseFacts, LeaseAgain
  <1>3. CASE Lease!PollAck
    <2>1. /\ client.evt = "ACK" /\ addr' = client.lease.ip /\ UNCHANGED acked
          /\ client' = [client EXCEPT !.evt = "NONE", !.bound = FALSE, !.st = "BOUND"]
      BY <1>3 DEF Lease!PollAck
    <2>2. /\ client' \in Lease!Clients /\ client'.st = "BOUND" /\ client'.evt = "NONE" /\ ~client'.bound
          /\ client'.saved = client.saved /\ client'.lease = client.lease
      BY <2>1, LeaseFacts DEF Lease!Clients
    <2> QED
      BY <2>1, <2>2, LeaseFacts, LeaseAgain
  <1>4. CASE Lease!PollNak
    <2>1. addr' = client.saved /\ UNCHANGED acked /\ client' = [client EXCEPT !.evt = "NONE", !.bound = FALSE,
         !.st = "ERROR"]
      BY <1>4 DEF Lease!PollNak
    <2>2. client' \in Lease!Clients /\ client'.st = "ERROR" /\ client'.evt = "NONE" /\ client'.saved = client.saved
      BY <2>1, LeaseFacts DEF Lease!Clients
    <2> QED
      BY <2>1, <2>2, LeaseFacts, LeaseAgain
  <1> QED
    BY <1>1, <1>2, <1>3, <1>4 DEF Lease!ProcessPoll, Lease!Poll

LEMMA LeaseKeeps ==
  ASSUME Lease!LeaseInv, Lease!Next \/ UNCHANGED Lease!vars
  PROVE  Lease!LeaseInv'
  <1>1. CASE UNCHANGED Lease!vars
    BY <1>1 DEF Lease!vars, Lease!LeaseInv, Lease!TypeOK, Lease!PortHeld, Lease!Negotiating, Lease!AddressGranted,
                Lease!Granted
  <1> QED
    BY <1>1, DhcpCallKeeps, DhcpReceiveKeeps, DhcpPollKeeps DEF Lease!Next

(***************************************************************************)
(* The DHCP server: OneOwner, for any clients, pool and times.  A reply is *)
(* given up before the lease it grants can end.                            *)
(***************************************************************************)
\* The least address of some is one of them.
LEMMA LeaseLeastIn == ASSUME NEW set \in SUBSET Nat, set # {} PROVE Leases!Least(set) \in set
  BY H!LeastOfSome DEF Leases!Least

\* expire() leaves every lease that some client still counts on.
LEMMA ExpiredFacts ==
  ASSUME Leases!Bounds, Leases!TypeOK
  PROVE  /\ Leases!Expired \in [Leases!Pool -> Leases!LeaseRecords]
         /\ \A i \in Leases!Pool : Leases!Expired[i] = leases[i] \/ Leases!Expired[i] = Leases!Free
         /\ \A i \in Leases!Pool, m \in DhcpsConst.Macs, u \in Nat : Leases!Bound(leases, i, m, u) /\ now < u
            => Leases!Expired[i] = leases[i]
  <1>1. Leases!Free \in Leases!LeaseRecords
    BY DEF Leases!Free, Leases!LeaseRecords
  <1>2. \A i \in Leases!Pool : leases[i] \in Leases!LeaseRecords
    BY DEF Leases!TypeOK
  <1>3. Leases!Expired \in [Leases!Pool -> Leases!LeaseRecords]
    BY <1>1, <1>2 DEF Leases!Expired
  <1>4. ASSUME NEW i \in Leases!Pool, NEW m \in DhcpsConst.Macs, NEW u \in Nat, Leases!Bound(leases, i, m, u), now < u
        PROVE  Leases!Expired[i] = leases[i]
    <2>1. leases[i].expires \in Nat /\ now \in Nat /\ u <= leases[i].expires
      BY <1>2, <1>4 DEF Leases!LeaseRecords, Leases!Bound, Leases!TypeOK
    <2>2. ~(now >= leases[i].expires)
      BY <1>4, <2>1
    <2> QED
      BY <2>2 DEF Leases!Expired
  <1> QED
    BY <1>3, <1>4 DEF Leases!Expired

\* A new client, reply or lease leaves what the others hold: the server's half
\* of every step that lets no time pass.
LEMMA StillHeld ==
  ASSUME Leases!Bounds, Leases!LeaseInv, UNCHANGED now, leases' \in [Leases!Pool -> Leases!LeaseRecords],
         held' \in [DhcpsConst.Macs -> [ip : Leases!Pool \union {NULL}, until : Nat]],
         NEW i, NEW m \in DhcpsConst.Macs,
         \A n \in DhcpsConst.Macs : held'[n].ip # NULL => held'[n] = held[n],
         \A j \in Leases!Pool : j # i => leases'[j] = Leases!Expired[j] \/ leases'[j] = leases[j],
         \A n \in DhcpsConst.Macs : held'[n].ip = i => Leases!Bound(leases', i, n, held[n].until)
  PROVE  Leases!HeldOK'
  <1> SUFFICES ASSUME NEW n \in DhcpsConst.Macs, held'[n].ip # NULL
               PROVE  /\ now < held'[n].until /\ held'[n].until <= now + DhcpsConst.LEASE_SEC
                      /\ Leases!Bound(leases', held'[n].ip, n, held'[n].until)
    BY DEF Leases!HeldOK
  <1>1. held'[n] = held[n] /\ held[n].ip \in Leases!Pool /\ held[n].until \in Nat
    BY DEF Leases!LeaseInv, Leases!TypeOK
  <1>2. now < held[n].until /\ held[n].until <= now + DhcpsConst.LEASE_SEC
       /\ Leases!Bound(leases, held[n].ip, n, held[n].until)
    BY <1>1 DEF Leases!LeaseInv, Leases!HeldOK
  <1>3. CASE held[n].ip = i
    BY <1>1, <1>2, <1>3
  <1>4. CASE held[n].ip # i
    <2>1. Leases!Expired[held[n].ip] = leases[held[n].ip]
      BY <1>1, <1>2, ExpiredFacts DEF Leases!LeaseInv
    <2>2. leases'[held[n].ip] = leases[held[n].ip]
      BY <1>1, <1>4, <2>1
    <2> QED
      BY <1>1, <1>2, <2>2 DEF Leases!Bound
  <1> QED
    BY <1>3, <1>4

\* Discover and Request grant an address that is free or the client's own.
LEMMA GrantKeeps ==
  ASSUME Leases!Bounds, Leases!LeaseInv, Leases!Listening, NEW m \in DhcpsConst.Macs, NEW i \in Leases!Pool,
     NEW answer \in {"OFFER", "ACK"},
         Leases!Expired[i].state = "free" \/ Leases!Expired[i].owner = m,
         leases' = Leases!Granted(Leases!Expired, i, m, answer), Leases!Queue(m, answer, i), UNCHANGED <<up, now, held>>
  PROVE  Leases!LeaseInv'
  <1>0. /\ now \in Nat /\ up # 0 /\ leases \in [Leases!Pool -> Leases!LeaseRecords] /\ up \in 0..2
        /\ held \in [DhcpsConst.Macs -> [ip : Leases!Pool \union {NULL}, until : Nat]]
        /\ Leases!Expired \in [Leases!Pool -> Leases!LeaseRecords]
    BY ExpiredFacts DEF Leases!LeaseInv, Leases!TypeOK, Leases!Listening
  <1>1. PICK r : r = [owner |-> m,
                      state |-> IF answer = "ACK" \/ Leases!Expired[i].state = "bound" THEN "bound" ELSE "offered",
                      expires |-> IF answer = "ACK" THEN now + DhcpsConst.LEASE_SEC
                                  ELSE IF Leases!Expired[i].state = "bound" THEN Leases!Expired[i].expires
                                     ELSE now + DhcpsConst.OFFER_SEC]
    OBVIOUS
  <1>2. /\ r \in Leases!LeaseRecords /\ r.owner = m
        /\ answer = "ACK" => r.state = "bound" /\ r.expires = now + DhcpsConst.LEASE_SEC
        /\ Leases!Expired[i].state = "bound" => r.state = "bound"
        /\ Leases!Expired[i].state = "bound" /\ answer # "ACK" => r.expires = Leases!Expired[i].expires
    BY <1>0, <1>1 DEF Leases!LeaseRecords, Leases!Bounds
  <1>3. leases' = [Leases!Expired EXCEPT ![i] = r]
    BY <1>0, <1>1 DEF Leases!Granted
  <1>4. leases' \in [Leases!Pool -> Leases!LeaseRecords] /\ leases'[i] = r /\ \A j \in Leases!Pool : j # i
       => leases'[j] = Leases!Expired[j]
    BY <1>0, <1>2, <1>3
  <1>5. ASSUME NEW n \in DhcpsConst.Macs, held[n].ip = i PROVE Leases!Bound(leases', i, n, held[n].until)
    <2>1. /\ now < held[n].until /\ held[n].until <= now + DhcpsConst.LEASE_SEC
             /\ Leases!Bound(leases, i, n, held[n].until)
          /\ held[n].until \in Nat
      BY <1>0, <1>5 DEF Leases!LeaseInv, Leases!HeldOK, Leases!Bounds
    <2>2. Leases!Expired[i] = leases[i]
      BY <2>1, ExpiredFacts DEF Leases!LeaseInv
    <2>3. n = m
      BY <2>1, <2>2 DEF Leases!Bound
    <2> QED
      BY <1>2, <1>4, <2>1, <2>2, <2>3 DEF Leases!Bound
  <1>6. Leases!HeldOK'
    BY <1>0, <1>4, <1>5, StillHeld
  <1>7. reply' = [mac |-> m, type |-> answer, ip |-> i, asked |-> now, until |-> now + DhcpsConst.REPLY_SEC]
    BY DEF Leases!Queue
  <1>8. Leases!ReplyOK'
    <2>1. answer = "ACK" => Leases!Bound(leases', i, m, now + DhcpsConst.LEASE_SEC)
      BY <1>0, <1>2, <1>4 DEF Leases!Bound, Leases!Bounds
    <2> QED
      BY <1>0, <1>7, <2>1 DEF Leases!ReplyOK, Leases!Bounds
  <1>9. Leases!TypeOK'
    BY <1>0, <1>4, <1>7 DEF Leases!TypeOK, Leases!Replies, Leases!Bounds
  <1> QED
    BY <1>0, <1>6, <1>8, <1>9 DEF Leases!LeaseInv, Leases!OffOK

\* A refused request, or a client no address is left for, only has the old
\* leases wiped.
LEMMA RefuseKeeps ==
  ASSUME Leases!Bounds, Leases!LeaseInv, Leases!Listening, leases' = Leases!Expired, UNCHANGED <<up, now, held>>,
         UNCHANGED reply \/ \E m \in DhcpsConst.Macs : Leases!Queue(m, "NAK", NULL)
  PROVE  Leases!LeaseInv'
  <1>0. /\ now \in Nat /\ up # 0 /\ Leases!Expired \in [Leases!Pool -> Leases!LeaseRecords] /\ up \in 0..2
           /\ reply = NULL
        /\ held \in [DhcpsConst.Macs -> [ip : Leases!Pool \union {NULL}, until : Nat]]
    BY ExpiredFacts DEF Leases!LeaseInv, Leases!TypeOK, Leases!Listening
  <1>1. Leases!HeldOK'
    <2> SUFFICES ASSUME NEW n \in DhcpsConst.Macs, held[n].ip # NULL
                 PROVE  /\ now < held[n].until /\ held[n].until <= now + DhcpsConst.LEASE_SEC
                        /\ Leases!Bound(Leases!Expired, held[n].ip, n, held[n].until)
      BY DEF Leases!HeldOK
    <2>1. /\ now < held[n].until /\ held[n].until <= now + DhcpsConst.LEASE_SEC
             /\ Leases!Bound(leases, held[n].ip, n, held[n].until)
          /\ held[n].until \in Nat /\ held[n].ip \in Leases!Pool
      BY <1>0 DEF Leases!LeaseInv, Leases!HeldOK
    <2>2. Leases!Expired[held[n].ip] = leases[held[n].ip]
      BY <2>1, ExpiredFacts DEF Leases!LeaseInv
    <2> QED
      BY <2>1, <2>2 DEF Leases!Bound
  <1>2. CASE UNCHANGED reply
    BY <1>0, <1>1, <1>2 DEF Leases!LeaseInv, Leases!TypeOK, Leases!ReplyOK, Leases!OffOK
  <1>3. ASSUME NEW m \in DhcpsConst.Macs, Leases!Queue(m, "NAK", NULL) PROVE Leases!LeaseInv'
    <2>1. reply' = [mac |-> m, type |-> "NAK", ip |-> NULL, asked |-> now, until |-> now + DhcpsConst.REPLY_SEC]
      BY <1>3 DEF Leases!Queue
    <2>2. Leases!ReplyOK'
      BY <1>0, <2>1 DEF Leases!ReplyOK
    <2>3. Leases!TypeOK'
      BY <1>0, <2>1 DEF Leases!TypeOK, Leases!Replies, Leases!Bounds
    <2> QED
      BY <1>0, <1>1, <2>2, <2>3 DEF Leases!LeaseInv, Leases!OffOK
  <1> QED
    BY <1>2, <1>3

\* Release and Decline: the client's own address only.
LEMMA BackKeeps ==
  ASSUME Leases!Bounds, Leases!LeaseInv, Leases!Listening, NEW m \in DhcpsConst.Macs, NEW rec \in Leases!LeaseRecords,
         leases' = IF held[m].ip \in Leases!Owned(Leases!Expired, m) THEN [Leases!Expired EXCEPT ![held[m].ip] = rec]
            ELSE Leases!Expired,
         held' = [held EXCEPT ![m] = Leases!Nothing], UNCHANGED <<up, reply, now>>
  PROVE  Leases!LeaseInv'
  <1>0. /\ now \in Nat /\ up # 0 /\ Leases!Expired \in [Leases!Pool -> Leases!LeaseRecords] /\ up \in 0..2
           /\ reply = NULL
        /\ held \in [DhcpsConst.Macs -> [ip : Leases!Pool \union {NULL}, until : Nat]]
    BY ExpiredFacts DEF Leases!LeaseInv, Leases!TypeOK, Leases!Listening
  <1>1. PICK i : i = held[m].ip
    OBVIOUS
  <1>2. leases' \in [Leases!Pool -> Leases!LeaseRecords] /\ \A j \in Leases!Pool : j # i
       => leases'[j] = Leases!Expired[j]
    BY <1>0, <1>1
  <1>3. /\ held' \in [DhcpsConst.Macs -> [ip : Leases!Pool \union {NULL}, until : Nat]]
        /\ \A n \in DhcpsConst.Macs : held'[n].ip # NULL => held'[n] = held[n] /\ n # m
    BY <1>0 DEF Leases!Nothing
  <1>5. Leases!HeldOK'
    <2> SUFFICES ASSUME NEW n \in DhcpsConst.Macs, held'[n].ip # NULL
                 PROVE  /\ now < held[n].until /\ held[n].until <= now + DhcpsConst.LEASE_SEC
                        /\ Leases!Bound(leases', held[n].ip, n, held[n].until)
      BY <1>3 DEF Leases!HeldOK
    <2>1. held[n].ip \in Leases!Pool /\ held[n].ip # NULL /\ n # m /\ held[n].until \in Nat
      BY <1>0, <1>3
    <2>2. /\ now < held[n].until /\ held[n].until <= now + DhcpsConst.LEASE_SEC
          /\ Leases!Bound(leases, held[n].ip, n, held[n].until)
      BY <2>1 DEF Leases!LeaseInv, Leases!HeldOK
    <2>3. held[n].ip # i
      <3>1. held[n].ip = i => Leases!Bound(leases, held[n].ip, m, held[m].until)
        BY <1>1, <2>1 DEF Leases!LeaseInv, Leases!HeldOK
      <3> QED
        BY <2>1, <2>2, <3>1 DEF Leases!Bound
    <2>4. Leases!Expired[held[n].ip] = leases[held[n].ip]
      BY <2>1, <2>2, ExpiredFacts DEF Leases!LeaseInv
    <2> QED
      BY <1>2, <2>1, <2>2, <2>3, <2>4 DEF Leases!Bound
  <1>6. Leases!TypeOK'
    BY <1>0, <1>2, <1>3 DEF Leases!TypeOK
  <1> QED
    BY <1>0, <1>5, <1>6 DEF Leases!LeaseInv, Leases!ReplyOK, Leases!OffOK

\* Poll: a client that hears of its grant holds what the server bound for it.
LEMMA PollKeeps ==
  ASSUME Leases!Bounds, Leases!LeaseInv, NEW sent \in BOOLEAN, NEW hears \in BOOLEAN, Leases!Poll(sent, hears)
  PROVE  Leases!LeaseInv'
  <1> DEFINE late == reply # NULL /\ now >= reply.until
             goes == reply # NULL /\ ~late /\ sent
  <1>1. /\ reply' = IF late \/ goes THEN NULL ELSE reply
        /\ held' = IF goes /\ hears /\ reply.type = "ACK"
                   THEN [held EXCEPT ![reply.mac] = [ip |-> reply.ip, until |-> reply.asked + DhcpsConst.LEASE_SEC]]
                      ELSE held
        /\ leases' = Leases!Expired /\ UNCHANGED <<up, now>>
    BY DEF Leases!Poll
  <1>2. /\ now \in Nat /\ Leases!Expired \in [Leases!Pool -> Leases!LeaseRecords] /\ up \in 0..2
           /\ DhcpsConst.LEASE_SEC \in Nat /\ DhcpsConst.REPLY_SEC \in Nat
        /\ DhcpsConst.REPLY_SEC <= DhcpsConst.LEASE_SEC /\ reply \in Leases!Replies \union {NULL}
           /\ NULL \notin Leases!Pool
        /\ held \in [DhcpsConst.Macs -> [ip : Leases!Pool \union {NULL}, until : Nat]]
    BY ExpiredFacts DEF Leases!LeaseInv, Leases!TypeOK, Leases!Bounds
  <1>3. reply # NULL => /\ reply.mac \in DhcpsConst.Macs /\ reply.asked \in Nat /\ reply.until \in Nat
                        /\ reply.ip \in Leases!Pool \union {NULL} /\ reply.asked <= now
                        /\ reply.until = reply.asked + DhcpsConst.REPLY_SEC
    BY <1>2 DEF Leases!LeaseInv, Leases!ReplyOK, Leases!Replies
  <1>4. ASSUME reply # NULL, ~late, reply.type = "ACK"
        PROVE  /\ reply.ip \in Leases!Pool /\ now < reply.asked + DhcpsConst.LEASE_SEC
               /\ Leases!Bound(Leases!Expired, reply.ip, reply.mac, reply.asked + DhcpsConst.LEASE_SEC)
    <2>1. reply.ip \in Leases!Pool /\ Leases!Bound(leases, reply.ip, reply.mac, reply.asked + DhcpsConst.LEASE_SEC)
      BY <1>3, <1>4 DEF Leases!LeaseInv, Leases!ReplyOK
    <2>2. now < reply.asked + DhcpsConst.LEASE_SEC /\ reply.asked + DhcpsConst.LEASE_SEC \in Nat
      BY <1>2, <1>3, <1>4
    <2>3. Leases!Expired[reply.ip] = leases[reply.ip]
      BY <1>3, <1>4, <2>1, <2>2, ExpiredFacts DEF Leases!LeaseInv
    <2> QED
      BY <2>1, <2>2, <2>3 DEF Leases!Bound
  <1> HIDE DEF late, goes
  <1>5. Leases!HeldOK'
    <2> SUFFICES ASSUME NEW n \in DhcpsConst.Macs, held'[n].ip # NULL
                 PROVE  /\ now < held'[n].until /\ held'[n].until <= now + DhcpsConst.LEASE_SEC
                        /\ Leases!Bound(Leases!Expired, held'[n].ip, n, held'[n].until)
      BY <1>1 DEF Leases!HeldOK
    <2>1. CASE held'[n] = held[n]
      <3>1. held[n].ip \in Leases!Pool /\ held[n].ip # NULL /\ held[n].until \in Nat
        BY <1>2, <2>1
      <3>2. /\ now < held[n].until /\ held[n].until <= now + DhcpsConst.LEASE_SEC
            /\ Leases!Bound(leases, held[n].ip, n, held[n].until)
        BY <3>1 DEF Leases!LeaseInv, Leases!HeldOK
      <3>3. Leases!Expired[held[n].ip] = leases[held[n].ip]
        BY <3>1, <3>2, ExpiredFacts DEF Leases!LeaseInv
      <3> QED
        BY <2>1, <3>2, <3>3 DEF Leases!Bound
    <2>2. CASE held'[n] # held[n]
      <3>1. /\ goes /\ reply.type = "ACK" /\ n = reply.mac
            /\ held'[n].ip = reply.ip /\ held'[n].until = reply.asked + DhcpsConst.LEASE_SEC
        BY <1>1, <1>2, <2>2
      <3>2. reply # NULL /\ ~late
        BY <3>1 DEF goes
      <3> QED
        BY <1>2, <1>3, <1>4, <3>1, <3>2
    <2> QED
      BY <2>1, <2>2
  <1>6. Leases!ReplyOK'
    <2> SUFFICES ASSUME reply # NULL, ~late, reply' = reply PROVE Leases!ReplyOK'
      BY <1>1 DEF Leases!ReplyOK
    <2>1. reply.type = "ACK" => reply.ip # NULL /\ Leases!Bound(Leases!Expired, reply.ip, reply.mac,
         reply.asked + DhcpsConst.LEASE_SEC)
      BY <1>2, <1>4
    <2> QED
      BY <1>1, <1>3, <2>1 DEF Leases!ReplyOK
  <1>7. held' \in [DhcpsConst.Macs -> [ip : Leases!Pool \union {NULL}, until : Nat]]
    <2>1. CASE goes /\ hears /\ reply.type = "ACK"
      <3>1. reply # NULL
        BY <2>1 DEF goes
      <3>2. reply.asked + DhcpsConst.LEASE_SEC \in Nat /\ reply.ip \in Leases!Pool \union {NULL}
        BY <1>2, <1>3, <3>1
      <3> QED
        BY <1>1, <1>2, <2>1, <3>2
    <2>2. CASE ~(goes /\ hears /\ reply.type = "ACK")
      BY <1>1, <1>2, <2>2
    <2> QED
      BY <2>1, <2>2
  <1>8. Leases!TypeOK'
    BY <1>1, <1>2, <1>7 DEF Leases!TypeOK
  <1>9. Leases!OffOK'
    BY <1>1 DEF Leases!LeaseInv, Leases!OffOK, goes
  <1> QED
    BY <1>5, <1>6, <1>8, <1>9 DEF Leases!LeaseInv

\* Time passes: a client gives up an address before the server does.
LEMMA TickKeeps ==
  ASSUME Leases!Bounds, Leases!LeaseInv, Leases!Tick
  PROVE  Leases!LeaseInv'
  <1>1. /\ now' = now + 1 /\ UNCHANGED <<up, leases, reply>>
        /\ held' = [m \in DhcpsConst.Macs |-> IF held[m].ip # NULL /\ held[m].until <= now + 1 THEN Leases!Nothing
           ELSE held[m]]
    BY DEF Leases!Tick
  <1>2. /\ now \in Nat /\ now + 1 \in Nat /\ DhcpsConst.LEASE_SEC \in Nat
        /\ held \in [DhcpsConst.Macs -> [ip : Leases!Pool \union {NULL}, until : Nat]]
    BY DEF Leases!LeaseInv, Leases!TypeOK, Leases!Bounds
  <1>3. Leases!TypeOK'
    <2>1. held' \in [DhcpsConst.Macs -> [ip : Leases!Pool \union {NULL}, until : Nat]]
      BY <1>1, <1>2 DEF Leases!Nothing
    <2> QED
      BY <1>1, <1>2, <2>1 DEF Leases!LeaseInv, Leases!TypeOK
  <1>4. Leases!HeldOK'
    <2> SUFFICES ASSUME NEW n \in DhcpsConst.Macs, held'[n].ip # NULL
                 PROVE  /\ now + 1 < held'[n].until /\ held'[n].until <= (now + 1) + DhcpsConst.LEASE_SEC
                        /\ Leases!Bound(leases, held'[n].ip, n, held'[n].until)
      BY <1>1 DEF Leases!HeldOK
    <2>1. held'[n] = held[n] /\ held[n].ip # NULL /\ ~(held[n].until <= now + 1) /\ held[n].until \in Nat
      BY <1>1, <1>2 DEF Leases!Nothing
    <2>2. held[n].until <= now + DhcpsConst.LEASE_SEC /\ Leases!Bound(leases, held[n].ip, n, held[n].until)
      BY <2>1 DEF Leases!LeaseInv, Leases!HeldOK
    <2> QED
      BY <1>2, <2>1, <2>2
  <1>5. Leases!ReplyOK'
    <2> SUFFICES ASSUME reply # NULL PROVE Leases!ReplyOK'
      BY <1>1 DEF Leases!ReplyOK
    <2>1. reply.asked \in Nat
      BY DEF Leases!LeaseInv, Leases!TypeOK, Leases!Replies
    <2> QED
      BY <1>1, <1>2, <2>1 DEF Leases!LeaseInv, Leases!ReplyOK
  <1>6. Leases!OffOK'
    BY <1>1, <1>2 DEF Leases!LeaseInv, Leases!OffOK, Leases!Nothing
  <1> QED
    BY <1>3, <1>4, <1>5, <1>6 DEF Leases!LeaseInv

\* Starting, and stopping, which takes the clients off.
LEMMA SwitchKeeps ==
  ASSUME Leases!Bounds
  PROVE  /\ Leases!Init => Leases!LeaseInv
         /\ Leases!LeaseInv /\ Leases!Stop => Leases!LeaseInv'
         /\ \A mode \in {1, 2} : Leases!LeaseInv /\ Leases!Start(mode) => Leases!LeaseInv'
  <1>1. /\ Leases!Empty \in [Leases!Pool -> Leases!LeaseRecords] /\ Leases!Nothing.ip = NULL
        /\ [m \in DhcpsConst.Macs |-> Leases!Nothing] \in [DhcpsConst.Macs -> [ip : Leases!Pool
           \union {NULL}, until : Nat]]
    BY DEF Leases!Empty, Leases!Free, Leases!LeaseRecords, Leases!Nothing
  <1>2. ASSUME Leases!Init PROVE Leases!LeaseInv
    <2>1. Leases!TypeOK /\ Leases!HeldOK /\ Leases!ReplyOK /\ Leases!OffOK
      BY <1>1, <1>2 DEF Leases!Init, Leases!TypeOK, Leases!HeldOK, Leases!ReplyOK, Leases!OffOK
    <2> QED
      BY <2>1 DEF Leases!LeaseInv
  <1>3. ASSUME Leases!LeaseInv, Leases!Stop PROVE Leases!LeaseInv'
    <2>1. Leases!TypeOK' /\ Leases!HeldOK' /\ Leases!ReplyOK' /\ Leases!OffOK'
      BY <1>1, <1>3 DEF Leases!Stop, Leases!LeaseInv, Leases!TypeOK, Leases!HeldOK, Leases!ReplyOK, Leases!OffOK
    <2> QED
      BY <2>1 DEF Leases!LeaseInv
  <1>4. ASSUME NEW mode \in {1, 2}, Leases!LeaseInv, Leases!Start(mode) PROVE Leases!LeaseInv'
    <2>1. \A m \in DhcpsConst.Macs : held[m].ip = NULL
      BY <1>4 DEF Leases!Start, Leases!LeaseInv, Leases!OffOK
    <2>2. Leases!TypeOK' /\ Leases!HeldOK' /\ Leases!ReplyOK' /\ Leases!OffOK'
      BY <1>1, <1>4, <2>1 DEF Leases!Start, Leases!LeaseInv, Leases!TypeOK, Leases!HeldOK, Leases!ReplyOK, Leases!OffOK
    <2> QED
      BY <2>2 DEF Leases!LeaseInv
  <1> QED
    BY <1>2, <1>3, <1>4

LEMMA LeasesStart ==
  ASSUME Leases!Bounds, Leases!Init
  PROVE  Leases!LeaseInv
  BY SwitchKeeps

LEMMA LeasesKeep ==
  ASSUME Leases!Bounds, Leases!LeaseInv, Leases!Next \/ UNCHANGED Leases!vars
  PROVE  Leases!LeaseInv'
  <1>0. Leases!Expired \in [Leases!Pool -> Leases!LeaseRecords]
    BY ExpiredFacts DEF Leases!LeaseInv
  <1>1. CASE UNCHANGED Leases!vars
    BY <1>1 DEF Leases!vars, Leases!LeaseInv, Leases!TypeOK, Leases!HeldOK, Leases!ReplyOK, Leases!OffOK, Leases!Bound
  <1>2. CASE Leases!Tick
    BY <1>2, TickKeeps
  <1>3. CASE Leases!Stop
    BY <1>3, SwitchKeeps
  <1>4. ASSUME NEW mode \in {1, 2}, Leases!Start(mode) PROVE Leases!LeaseInv'
    BY <1>4, SwitchKeeps
  <1>5. ASSUME NEW sent \in BOOLEAN, NEW hears \in BOOLEAN, Leases!Poll(sent, hears) PROVE Leases!LeaseInv'
    BY <1>5, PollKeeps
  <1>6. ASSUME NEW m \in DhcpsConst.Macs, Leases!Discover(m) PROVE Leases!LeaseInv'
    <2> DEFINE mine == Leases!Owned(Leases!Expired, m)
               open == {i \in Leases!Pool : Leases!Expired[i].state = "free"}
               slot == IF mine # {} THEN Leases!Least(mine) ELSE Leases!Least(open)
    <2>1. /\ Leases!Listening /\ UNCHANGED <<up, now, held>>
          /\ IF mine \union open = {} THEN leases' = Leases!Expired /\ UNCHANGED reply
             ELSE leases' = Leases!Granted(Leases!Expired, slot, m, "OFFER") /\ Leases!Queue(m, "OFFER", slot)
      BY <1>6 DEF Leases!Discover
    <2>2. CASE mine \union open = {}
      BY <2>1, <2>2, RefuseKeeps
    <2>3. CASE mine \union open # {}
      <3>1. mine \in SUBSET Nat /\ open \in SUBSET Nat
        BY DEF Leases!Owned, Leases!Pool
      <3>2. slot \in mine \union open
        <4>1. CASE mine # {}
          BY <3>1, <4>1, LeaseLeastIn
        <4>2. CASE mine = {}
          BY <2>3, <3>1, <4>2, LeaseLeastIn
        <4> QED
          BY <4>1, <4>2
      <3> HIDE DEF slot
      <3>3. slot \in Leases!Pool /\ (Leases!Expired[slot].state = "free" \/ Leases!Expired[slot].owner = m)
        BY <3>2 DEF Leases!Owned
      <3> HIDE DEF mine, open
      <3> QED
        BY <2>1, <2>3, <3>3, GrantKeeps
    <2> QED
      BY <2>2, <2>3
  <1>7. ASSUME NEW m \in DhcpsConst.Macs, NEW ip \in Leases!Pool \union {0}, Leases!Request(m, ip)
        PROVE Leases!LeaseInv'
    <2>1. CASE Leases!Takes(Leases!Expired, m, ip)
      BY <1>7, <2>1, GrantKeeps DEF Leases!Request, Leases!Takes
    <2>2. CASE ~Leases!Takes(Leases!Expired, m, ip)
      BY <1>7, <2>2, RefuseKeeps DEF Leases!Request
    <2> QED
      BY <2>1, <2>2
  <1>8. ASSUME NEW m \in DhcpsConst.Macs, Leases!Release(m) PROVE Leases!LeaseInv'
    BY <1>8, BackKeeps, Leases!Free \in Leases!LeaseRecords DEF Leases!Release, Leases!Free, Leases!LeaseRecords
  <1>9. ASSUME NEW m \in DhcpsConst.Macs, Leases!Decline(m) PROVE Leases!LeaseInv'
    <2>1. PICK rec : rec = [owner |-> NULL, state |-> "declined", expires |-> now + DhcpsConst.DECLINE_SEC]
      OBVIOUS
    <2>2. rec \in Leases!LeaseRecords
      BY <2>1 DEF Leases!LeaseRecords, Leases!Bounds, Leases!LeaseInv, Leases!TypeOK
    <2> QED
      BY <1>9, <2>1, <2>2, BackKeeps DEF Leases!Decline
  <1> QED
    BY <1>1, <1>2, <1>3, <1>4, <1>5, <1>6, <1>7, <1>8, <1>9 DEF Leases!Next

LEMMA LeasesOneOwner ==
  ASSUME Leases!Bounds, Leases!LeaseInv
  PROVE  Leases!OneOwner
  <1>1. ASSUME NEW m \in DhcpsConst.Macs, held[m].ip # NULL
        PROVE  Leases!Owner(held[m].ip, m)
    <2>1. held[m].ip \in Leases!Pool /\ held[m].until \in Nat
      BY <1>1 DEF Leases!LeaseInv, Leases!TypeOK
    <2>2. now < held[m].until /\ Leases!Bound(leases, held[m].ip, m, held[m].until)
      BY <1>1 DEF Leases!LeaseInv, Leases!HeldOK
    <2>3. Leases!Expired[held[m].ip] = leases[held[m].ip]
      BY <2>1, <2>2, ExpiredFacts DEF Leases!LeaseInv
    <2> QED
      BY <2>1, <2>2, <2>3 DEF Leases!Owner, Leases!Bound
  <1> QED
    BY <1>1 DEF Leases!OneOwner, Leases!Owner
(***************************************************************************)
(* Both ends of DHCP.                                                      *)
(***************************************************************************)
\* However grants, refusals, releases and losses are ordered, no address is used
\* by two clients and the router finds each client by its address; a client has
\* no address but its own or one that was acknowledged to it.
THEOREM LeasesAreHeld == Spec => []LeasesHeld
  <1> DEFINE Safe == (scenario = "dhcp" => Lease!LeaseInv) /\ (scenario = "dhcps" => Leases!LeaseInv)
  <1>1. Init => Safe
    BY InitOfPart, LeaseStarts, LeasesStart, ServiceBounds
  <1>2. Safe /\ [Next]_vars => Safe'
    BY StepOfPart, LeaseKeeps, LeasesKeep, ServiceBounds
  <1>3. Safe => LeasesHeld
    BY LeasesOneOwner, ServiceBounds DEF LeasesHeld, Lease!LeaseInv
  <1> QED
    BY <1>1, <1>2, <1>3, PTL DEF Spec

(***************************************************************************)
(* HTTP: AnswerSound and NothingLeft, for any answers, requests, bytes and *)
(* order of events, from the lemmas of Http.                               *)
(***************************************************************************)
\* Whatever bytes come, in whatever pieces, the body that http_parser_feed puts
\* together is what follows the first empty line, as far as there is room; a call
\* gives its caller a start of the server's answer, for a request that was not cut,
\* and leaves no connection or query behind.
THEOREM AnswersComeWhole == Spec => []AnswerSound
  <1> DEFINE Safe == (scenario = "http" => H!HttpInv) /\ (scenario = "parser" => H!FeedInv)
  <1>1. Init => Safe
    BY InitOfPart, H!Starts, ServiceBounds
  <1>2. Safe /\ [Next]_vars => Safe'
    BY StepOfPart, H!HttpKeeps, H!FeedStepKeeps, ServiceBounds
  <1>3. Safe => AnswerSound
    BY H!AnswerFollows, H!FeedFollows, ServiceBounds DEF AnswerSound
  <1> QED
    BY <1>1, <1>2, <1>3, PTL DEF Spec

(***************************************************************************)
(* The serial link: Transparent and LossIsLocal, for any packets, capacity *)
(* and transmissions, and any order of bytes, polls and transmissions.     *)
(***************************************************************************)
(***************************************************************************)
(* Sequences put together.                                                 *)
(***************************************************************************)
LEMMA JoinedFacts ==
  ASSUME NEW A, NEW ps \in Seq(Seq(A))
  PROVE  /\ S!Joined(ps) \in [0 .. Len(ps) -> Seq(A)] /\ S!Joined(ps)[0] = <<>>
         /\ \A i \in 1 .. Len(ps) : S!Joined(ps)[i] = S!Joined(ps)[i - 1] \o ps[i]
  <1> DEFINE n == Len(ps)
             step == [i \in 1 .. n |-> [q \in Seq(A) |-> q \o ps[i]]]
             w == S!Joined(ps)
             upto == CHOOSE upto : upto = [i \in 0 .. n |-> IF i = 0 THEN <<>> ELSE upto[i - 1] \o ps[i]]
  <1>1. n \in Nat /\ (\A i \in 1 .. n : ps[i] \in Seq(A)) /\ <<>> \in Seq(A)
    OBVIOUS
  <1>2. n \in Nat /\ step \in H!Steps(Seq(A), n)
    <2>1. \A i \in 1 .. n : \A q \in Seq(A) : q \o ps[i] \in Seq(A)
      BY <1>1, ConcatProperties
    <2> QED
      BY <1>1, <2>1 DEF H!Steps
  <1>3. PICK g : H!Solves(g, Seq(A), n, <<>>, step)
    BY <1>1, <1>2, H!FoldExists
  <1>4. g \in [0 .. n -> Seq(A)] /\ g[0] = <<>> /\ \A i \in 1 .. n : g[i] = step[i][g[i - 1]]
    BY <1>3 DEF H!Solves
  <1> HIDE DEF n
  <1>5. ASSUME NEW i \in 0 .. n, i # 0 PROVE g[i] = g[i - 1] \o ps[i]
    <2>1. i \in 1 .. n /\ i - 1 \in 0 .. n
      BY <1>1, <1>5
    <2>2. g[i - 1] \in Seq(A)
      BY <1>4, <2>1
    <2> QED
      BY <1>4, <2>1, <2>2
  <1>6. g = [i \in 0 .. n |-> IF i = 0 THEN <<>> ELSE g[i - 1] \o ps[i]]
    BY <1>4, <1>5
  <1>7. upto = [i \in 0 .. n |-> IF i = 0 THEN <<>> ELSE upto[i - 1] \o ps[i]]
    BY <1>6
  <1>8. w = upto
    BY DEF S!Joined, n
  <1> HIDE DEF upto, w, step
  <1>9. w[0] = <<>> /\ DOMAIN w = 0 .. n /\ \A i \in 1 .. n : w[i] = w[i - 1] \o ps[i]
    <2>1. 0 \in 0 .. n /\ \A i \in 1 .. n : i \in 0 .. n /\ i # 0
      BY <1>1
    <2> QED
      BY <1>7, <1>8, <2>1
  <1> DEFINE bad == {i \in 0 .. n : w[i] \notin Seq(A)}
  <1>10. bad = {}
    <2>1. bad \in SUBSET Nat
      BY <1>1
    <2>2. CASE bad # {}
      <3>1. PICK i \in bad : \A j \in bad : i <= j
        BY <2>1, <2>2, H!LeastOfSome
      <3>2. i \in 0 .. n /\ w[i] \notin Seq(A)
        BY <3>1
      <3>3. i # 0
        BY <1>1, <1>9, <3>2
      <3>4. i \in 1 .. n /\ i - 1 \in 0 .. n /\ ~(i <= i - 1)
        BY <1>1, <3>2, <3>3
      <3>5. w[i - 1] \in Seq(A)
        BY <3>1, <3>4
      <3>6. w[i - 1] \o ps[i] \in Seq(A)
        BY <1>1, <3>4, <3>5, ConcatProperties
      <3> QED
        BY <1>9, <3>2, <3>4, <3>6
    <2> QED
      BY <2>2
  <1>11. \A i \in 0 .. n : w[i] \in Seq(A)
    BY <1>10
  <1>12. w = [i \in 0 .. n |-> w[i]]
    BY <1>7, <1>8
  <1>13. w \in [0 .. n -> Seq(A)]
    BY <1>11, <1>12
  <1> QED
    BY <1>9, <1>13 DEF w, n

\* What is put together of the first n depends on them alone.
LEMMA JoinedSame ==
  ASSUME NEW A, NEW ps \in Seq(Seq(A)), NEW qs \in Seq(Seq(A)), NEW n \in Nat, n <= Len(ps), n <= Len(qs),
         \A i \in 1 .. n : ps[i] = qs[i]
  PROVE  \A i \in 0 .. n : S!Joined(ps)[i] = S!Joined(qs)[i]
  <1> DEFINE v == S!Joined(ps)
             w == S!Joined(qs)
             bad == {i \in 0 .. n : v[i] # w[i]}
  <1>0. \A i \in 1 .. n : i \in 1 .. Len(ps) /\ i \in 1 .. Len(qs)
    OBVIOUS
  <1>1. v[0] = <<>> /\ \A i \in 1 .. n : v[i] = v[i - 1] \o ps[i]
    BY <1>0, JoinedFacts
  <1>2. w[0] = <<>> /\ \A i \in 1 .. n : w[i] = w[i - 1] \o qs[i]
    BY <1>0, JoinedFacts
  <1> HIDE DEF v, w
  <1>3. bad \in SUBSET Nat
    OBVIOUS
  <1>4. CASE bad # {}
    <2>1. PICK i \in bad : \A j \in bad : i <= j
      BY <1>3, <1>4, H!LeastOfSome
    <2>2. i \in 1 .. n /\ i - 1 \in 0 .. n /\ ~(i <= i - 1) /\ v[i] # w[i]
      BY <1>1, <1>2, <2>1
    <2>3. v[i - 1] = w[i - 1]
      BY <2>1, <2>2
    <2> QED
      BY <1>1, <1>2, <2>2, <2>3
  <1> QED
    BY <1>4 DEF v, w

\* One sequence begins with another.
StartsWith(s, p) == Len(p) <= Len(s) /\ \A i \in 1 .. Len(p) : s[i] = p[i]
Assoc(p, q, r) == (p \o q) \o r = p \o (q \o r)

LEMMA Associative == ASSUME NEW A PROVE \A p, q, r \in Seq(A) : Assoc(p, q, r)
  <1> SUFFICES ASSUME NEW p \in Seq(A), NEW q \in Seq(A), NEW r \in Seq(A) PROVE Assoc(p, q, r)
    OBVIOUS
  <1> QED
    BY ConcatAssociative DEF Assoc

LEMMA StartsTrans ==
  ASSUME NEW A, NEW p \in Seq(A), NEW q \in Seq(A), NEW r \in Seq(A), StartsWith(p, q), StartsWith(q, r)
  PROVE  StartsWith(p, r)
  <1>1. Len(p) \in Nat /\ Len(q) \in Nat /\ Len(r) \in Nat
    OBVIOUS
  <1>2. \A i \in 1 .. Len(r) : i \in 1 .. Len(q)
    BY <1>1 DEF StartsWith
  <1> QED
    BY <1>1, <1>2 DEF StartsWith

LEMMA StartsConcat ==
  ASSUME NEW A, NEW p \in Seq(A), NEW q \in Seq(A)
  PROVE  StartsWith(p \o q, p)
  <1>1. Len(p \o q) = Len(p) + Len(q) /\ \A i \in 1 .. Len(p) + Len(q) :
          (p \o q)[i] = IF i <= Len(p) THEN p[i] ELSE q[i - Len(p)]
    BY ConcatProperties
  <1>2. Len(p) \in Nat /\ Len(q) \in Nat
    OBVIOUS
  <1> QED
    BY <1>1, <1>2 DEF StartsWith

LEMMA StartsSame == ASSUME NEW A, NEW p \in Seq(A) PROVE StartsWith(p, p)
BY DEF StartsWith

LEMMA StartIs ==
  ASSUME NEW A, NEW s \in Seq(A), NEW p \in Seq(A), StartsWith(s, p)
  PROVE  Len(p) <= Len(s) /\ p = SubSeq(s, 1, Len(p))
  <1>1. Len(p) \in Nat /\ Len(s) \in Nat /\ Len(p) <= Len(s)
    BY DEF StartsWith
  <1>2. Len(SubSeq(s, 1, Len(p))) = Len(p) /\ \A i \in 1 .. Len(p) : SubSeq(s, 1, Len(p))[i] = s[i]
    BY <1>1
  <1>3. SubSeq(s, 1, Len(p)) \in Seq(A)
    BY <1>1
  <1> HIDE DEF StartsWith
  <1>4. \A i \in 1 .. Len(p) : SubSeq(s, 1, Len(p))[i] = p[i]
    BY <1>2 DEF StartsWith
  <1> QED
    BY <1>1, <1>2, <1>3, <1>4, SeqEqual

LEMMA JoinedStarts ==
  ASSUME NEW A, NEW ps \in Seq(Seq(A)), NEW i \in 0 .. Len(ps), NEW j \in i .. Len(ps)
  PROVE  StartsWith(S!Joined(ps)[j], S!Joined(ps)[i])
  <1> DEFINE w == S!Joined(ps)
             bad == {m \in i .. Len(ps) : ~StartsWith(w[m], w[i])}
  <1>1. /\ w \in [0 .. Len(ps) -> Seq(A)]
        /\ \A m \in 1 .. Len(ps) : w[m] = w[m - 1] \o ps[m]
        /\ \A m \in 1 .. Len(ps) : ps[m] \in Seq(A)
    <2>1. \A m \in 1 .. Len(ps) : ps[m] \in Seq(A)
      OBVIOUS
    <2> QED
      BY <2>1, JoinedFacts
  <1>2. Len(ps) \in Nat /\ bad \in SUBSET Nat
    OBVIOUS
  <1> HIDE DEF w
  <1>3. CASE bad # {}
    <2>1. PICK m \in bad : \A n \in bad : m <= n
      BY <1>2, <1>3, H!LeastOfSome
    <2>2. m \in i .. Len(ps) /\ ~StartsWith(w[m], w[i])
      BY <2>1
    <2>3. m # i
      BY <1>1, <1>2, <2>2, StartsSame
    <2>4. m \in 1 .. Len(ps) /\ m - 1 \in i .. Len(ps) /\ m - 1 \in 0 .. Len(ps) /\ m \in 0 .. Len(ps) /\ ~(m <= m - 1)
      BY <1>2, <2>2, <2>3
    <2>5. StartsWith(w[m - 1], w[i])
      BY <2>1, <2>4
    <2>6. w[m] = w[m - 1] \o ps[m] /\ ps[m] \in Seq(A) /\ w[m - 1] \in Seq(A) /\ w[m] \in Seq(A) /\ w[i] \in Seq(A)
      BY <1>1, <2>4
    <2>7. StartsWith(w[m], w[m - 1])
      BY <2>6, StartsConcat
    <2> QED
      BY <2>2, <2>5, <2>6, <2>7, StartsTrans
  <1>4. CASE bad = {}
    BY <1>4 DEF w
  <1> QED
    BY <1>3, <1>4

\* What is left of s when p of it was read; the byte b that s has next is its first.
LEMMA NextByte ==
  ASSUME NEW A, NEW p \in Seq(A), NEW u \in Seq(A), NEW b \in A, StartsWith(p \o u, p \o <<b>>)
  PROVE  u # <<>> /\ Head(u) = b /\ (p \o <<b>>) \o Tail(u) = p \o u
  <1>1. <<b>> \in Seq(A) /\ Len(<<b>>) = 1 /\ <<b>>[1] = b /\ Len(p) \in Nat /\ Len(u) \in Nat
    OBVIOUS
  <1>2. Len(p \o u) = Len(p) + Len(u) /\ Len(p \o <<b>>) = Len(p) + 1
    BY <1>1, ConcatProperties
  <1>3. Len(u) >= 1 /\ Len(p) + 1 \in 1 .. Len(p) + Len(u) /\ Len(p) + 1 \in 1 .. Len(p) + 1 /\ ~(Len(p) + 1 <= Len(p))
    BY <1>1, <1>2 DEF StartsWith
  <1>4. (p \o u)[Len(p) + 1] = (p \o <<b>>)[Len(p) + 1]
    BY <1>2, <1>3 DEF StartsWith
  <1>5. (p \o u)[Len(p) + 1] = u[Len(p) + 1 - Len(p)]
    BY <1>1, <1>3, ConcatProperties
  <1>6. (p \o <<b>>)[Len(p) + 1] = <<b>>[Len(p) + 1 - Len(p)]
    BY <1>1, <1>3, ConcatProperties
  <1>7. Len(p) + 1 - Len(p) = 1
    BY <1>1
  <1>8. u # <<>> /\ Head(u) = b
    BY <1>1, <1>3, <1>4, <1>5, <1>6, <1>7
  <1>9. Tail(u) \in Seq(A) /\ u = <<b>> \o Tail(u)
    BY <1>8, HeadTailProperties, <1>1
  <1>10. Assoc(p, <<b>>, Tail(u))
    BY <1>1, <1>9, Associative
  <1> QED
    BY <1>8, <1>9, <1>10 DEF Assoc

\* Nothing is left when all of it was read.
LEMMA NothingLeft ==
  ASSUME NEW A, NEW p \in Seq(A), NEW u \in Seq(A)
  PROVE  /\ p \o <<>> = p
         /\ p \o u = p => u = <<>>
         /\ u # <<>> => Len(p \o u) > Len(p)
  <1>1. Len(p \o u) = Len(p) + Len(u) /\ Len(p) \in Nat /\ Len(u) \in Nat
    BY ConcatProperties
  <1>2. p \o <<>> = p
    BY ConcatEmptySeq
  <1> QED
    BY <1>1, <1>2, EmptySeq

LEMMA StartsAfter ==
  ASSUME NEW A, NEW p \in Seq(A), NEW q \in Seq(A), NEW r \in Seq(A), StartsWith(q, r)
  PROVE  StartsWith(p \o q, p \o r)
  <1>1. Len(p) \in Nat /\ Len(q) \in Nat /\ Len(r) \in Nat /\ Len(r) <= Len(q)
    BY DEF StartsWith
  <1>2. Len(p \o q) = Len(p) + Len(q) /\ \A i \in 1 .. Len(p) + Len(q) :
          (p \o q)[i] = IF i <= Len(p) THEN p[i] ELSE q[i - Len(p)]
    BY ConcatProperties
  <1>3. Len(p \o r) = Len(p) + Len(r) /\ \A i \in 1 .. Len(p) + Len(r) :
          (p \o r)[i] = IF i <= Len(p) THEN p[i] ELSE r[i - Len(p)]
    BY ConcatProperties
  <1>4. ASSUME NEW i \in 1 .. Len(p) + Len(r) PROVE (p \o q)[i] = (p \o r)[i]
    <2>1. i \in 1 .. Len(p) + Len(q)
      BY <1>1
    <2>2. CASE i <= Len(p)
      BY <1>2, <1>3, <2>1, <2>2
    <2>3. CASE ~(i <= Len(p))
      <3>1. i - Len(p) \in 1 .. Len(r)
        BY <1>1, <2>3
      <3>2. q[i - Len(p)] = r[i - Len(p)]
        BY <3>1 DEF StartsWith
      <3> QED
        BY <1>2, <1>3, <2>1, <2>3, <3>2
    <2> QED
      BY <2>2, <2>3
  <1> QED
    BY <1>1, <1>2, <1>3, <1>4 DEF StartsWith

(***************************************************************************)
(* The wire.                                                               *)
(***************************************************************************)
LEMMA SlipCounts == \A set : S!Cardinality(set) = Cardinality(set)
BY DEF S!Cardinality, Cardinality

\* A byte goes over the wire as itself or as ESC and a byte that means it.
LEMMA EscapeFacts ==
  ASSUME NEW b \in S!Bytes
  PROVE  /\ S!Escape(b) \in Seq(S!Bytes)
         /\ \/ S!Escape(b) = <<b>> /\ Len(S!Escape(b)) = 1 /\ b \notin {"END", "ESC"}
            \/ /\ Len(S!Escape(b)) = 2
               /\ \E c \in S!Bytes : S!Escape(b) = <<"ESC">> \o <<c>> /\ S!Unescape(c) = b
         /\ "END" \in S!Bytes /\ "ESC" \in S!Bytes
  <1>1. {"END", "ESC", "ESC_END", "ESC_ESC", "ESC_NUL", "NUL"} \subseteq S!Bytes
    BY DEF S!Bytes, S!Special
  <1>2. CASE b = "END"
    <2>1. S!Escape(b) = <<"ESC", "ESC_END">> /\ S!Unescape("ESC_END") = b
      BY <1>2 DEF S!Escape, S!Unescape
    <2>2. <<"ESC", "ESC_END">> = <<"ESC">> \o <<"ESC_END">>
      OBVIOUS
    <2> QED
      BY <1>1, <2>1, <2>2
  <1>3. CASE b = "ESC"
    <2>1. S!Escape(b) = <<"ESC", "ESC_ESC">> /\ S!Unescape("ESC_ESC") = b
      BY <1>3 DEF S!Escape, S!Unescape
    <2>2. <<"ESC", "ESC_ESC">> = <<"ESC">> \o <<"ESC_ESC">>
      OBVIOUS
    <2> QED
      BY <1>1, <2>1, <2>2
  <1>4. CASE b = "NUL" /\ SlipConst.EscapeNul
    <2>1. S!Escape(b) = <<"ESC", "ESC_NUL">> /\ S!Unescape("ESC_NUL") = b
      BY <1>4 DEF S!Escape, S!Unescape
    <2>2. <<"ESC", "ESC_NUL">> = <<"ESC">> \o <<"ESC_NUL">>
      OBVIOUS
    <2> QED
      BY <1>1, <2>1, <2>2
  <1>5. CASE b # "END" /\ b # "ESC" /\ ~(b = "NUL" /\ SlipConst.EscapeNul)
    <2>1. S!Escape(b) = <<b>>
      BY <1>5 DEF S!Escape
    <2> QED
      BY <1>1, <1>5, <2>1
  <1> QED
    BY <1>2, <1>3, <1>4, <1>5

LEMMA EncodeFacts ==
  ASSUME S!Bounds, NEW pkt \in SlipConst.Frames
  PROVE  /\ pkt \in Seq(S!Bytes) /\ Len(pkt) \in Nat
         /\ S!Body(pkt) \in [0 .. Len(pkt) -> Seq(S!Bytes)] /\ S!Body(pkt)[0] = <<>>
         /\ \A j \in 1 .. Len(pkt) : S!Body(pkt)[j] = S!Body(pkt)[j - 1] \o S!Escape(pkt[j])
         /\ \A j \in 0 .. Len(pkt) : StartsWith(S!Body(pkt)[Len(pkt)], S!Body(pkt)[j])
         /\ S!Encode(pkt) \in Seq(S!Bytes) /\ <<"END">> \in Seq(S!Bytes)
  <1>1. pkt \in Seq(S!Bytes) /\ Len(pkt) \in Nat
    BY DEF S!Bounds
  <1> DEFINE ps == [i \in 1 .. Len(pkt) |-> S!Escape(pkt[i])]
  <1>2. \A i \in 1 .. Len(pkt) : pkt[i] \in S!Bytes /\ S!Escape(pkt[i]) \in Seq(S!Bytes)
    BY <1>1, EscapeFacts
  <1>3. ps \in Seq(Seq(S!Bytes)) /\ Len(ps) = Len(pkt) /\ \A j \in 1 .. Len(pkt) : ps[j] = S!Escape(pkt[j])
    BY <1>1, <1>2
  <1> HIDE DEF ps
  <1>4. S!Body(pkt) = S!Joined(ps)
    BY DEF S!Body, ps
  <1>5. /\ S!Body(pkt) \in [0 .. Len(pkt) -> Seq(S!Bytes)] /\ S!Body(pkt)[0] = <<>>
        /\ \A j \in 1 .. Len(pkt) : S!Body(pkt)[j] = S!Body(pkt)[j - 1] \o S!Escape(pkt[j])
    BY <1>3, <1>4, JoinedFacts
  <1>6. \A j \in 0 .. Len(pkt) : j \in 0 .. Len(ps) /\ Len(pkt) \in j .. Len(ps)
    BY <1>1, <1>3
  <1>7. \A j \in 0 .. Len(pkt) : StartsWith(S!Body(pkt)[Len(pkt)], S!Body(pkt)[j])
    BY <1>3, <1>4, <1>6, JoinedStarts
  <1>8. <<"END">> \in Seq(S!Bytes)
    BY DEF S!Bytes, S!Special
  <1>9. S!Body(pkt)[Len(pkt)] \in Seq(S!Bytes)
    BY <1>1, <1>5
  <1>10. S!Encode(pkt) \in Seq(S!Bytes)
    <2>1. <<"END">> \o S!Body(pkt)[Len(pkt)] \in Seq(S!Bytes)
      BY <1>8, <1>9, ConcatProperties
    <2>2. (<<"END">> \o S!Body(pkt)[Len(pkt)]) \o <<"END">> \in Seq(S!Bytes)
      BY <1>8, <2>1, ConcatProperties
    <2> QED
      BY <2>2 DEF S!Encode
  <1> QED
    BY <1>1, <1>5, <1>7, <1>8, <1>10

LEMMA WireFacts ==
  ASSUME S!Bounds, packets \in Seq(SlipConst.Frames)
  PROVE  /\ Len(packets) \in Nat /\ \A k \in 1 .. Len(packets) : packets[k] \in SlipConst.Frames
         /\ S!Wire \in [0 .. Len(packets) -> Seq(S!Bytes)] /\ S!Wire[0] = <<>>
         /\ \A k \in 1 .. Len(packets) : S!Wire[k] = S!Wire[k - 1] \o S!Encode(packets[k])
         /\ \A k \in 0 .. Len(packets) : StartsWith(S!Wire[Len(packets)], S!Wire[k])
  <1>1. Len(packets) \in Nat /\ \A k \in 1 .. Len(packets) : packets[k] \in SlipConst.Frames
    OBVIOUS
  <1> DEFINE ps == [i \in 1 .. Len(packets) |-> S!Encode(packets[i])]
  <1>2. \A i \in 1 .. Len(packets) : S!Encode(packets[i]) \in Seq(S!Bytes)
    BY <1>1, EncodeFacts
  <1>3. ps \in Seq(Seq(S!Bytes)) /\ Len(ps) = Len(packets) /\ \A j \in 1 .. Len(packets) : ps[j] = S!Encode(packets[j])
    BY <1>1, <1>2
  <1> HIDE DEF ps
  <1>4. S!Wire = S!Joined(ps)
    BY DEF S!Wire, ps
  <1>5. /\ S!Wire \in [0 .. Len(packets) -> Seq(S!Bytes)] /\ S!Wire[0] = <<>>
        /\ \A k \in 1 .. Len(packets) : S!Wire[k] = S!Wire[k - 1] \o S!Encode(packets[k])
    BY <1>3, <1>4, JoinedFacts
  <1>6. \A j \in 0 .. Len(packets) : j \in 0 .. Len(ps) /\ Len(packets) \in j .. Len(ps)
    BY <1>1, <1>3
  <1>7. \A j \in 0 .. Len(packets) : StartsWith(S!Wire[Len(packets)], S!Wire[j])
    BY <1>3, <1>4, <1>6, JoinedStarts
  <1> QED
    BY <1>1, <1>5, <1>7

LEMMA UptoFacts ==
  ASSUME S!Bounds, packets \in Seq(SlipConst.Frames), NEW k \in 0 .. Len(packets) - 1
  PROVE  /\ packets[k + 1] \in SlipConst.Frames /\ packets[k + 1] \in Seq(S!Bytes) /\ Len(packets[k + 1]) \in Nat
         /\ \A j \in 0 .. Len(packets[k + 1]) :
              S!Upto(k, j) \in Seq(S!Bytes) /\ StartsWith(S!Wire[Len(packets)], S!Upto(k, j))
         /\ S!Upto(k, 0) = S!Wire[k] \o <<"END">>
         /\ \A j \in 0 .. Len(packets[k + 1]) - 1 :
              S!Upto(k, j + 1) = S!Upto(k, j) \o S!Escape(packets[k + 1][j + 1])
         /\ S!Wire[k + 1] = S!Upto(k, Len(packets[k + 1])) \o <<"END">>
  <1> DEFINE n == Len(packets)
             pkt == packets[k + 1]
             l == Len(packets[k + 1])
             body == S!Body(packets[k + 1])
             open == S!Wire[k] \o <<"END">>
  <1>1. /\ n \in Nat /\ k \in 0 .. n /\ k + 1 \in 1 .. n /\ k + 1 \in 0 .. n /\ k + 1 - 1 = k /\ n \in 0 .. n
    OBVIOUS
  <1>2. pkt \in SlipConst.Frames
    BY <1>1
  <1>3. /\ pkt \in Seq(S!Bytes) /\ l \in Nat
        /\ body \in [0 .. l -> Seq(S!Bytes)] /\ body[0] = <<>>
        /\ \A j \in 1 .. l : body[j] = body[j - 1] \o S!Escape(pkt[j])
        /\ \A j \in 0 .. l : StartsWith(body[l], body[j])
        /\ S!Encode(pkt) \in Seq(S!Bytes) /\ <<"END">> \in Seq(S!Bytes)
    BY <1>2, EncodeFacts
  <1>4. /\ S!Wire[k] \in Seq(S!Bytes) /\ S!Wire[k + 1] \in Seq(S!Bytes) /\ S!Wire[n] \in Seq(S!Bytes)
        /\ S!Wire[k + 1] = S!Wire[k] \o S!Encode(pkt) /\ StartsWith(S!Wire[n], S!Wire[k + 1])
    <2>1. /\ S!Wire \in [0 .. n -> Seq(S!Bytes)] /\ \A i \in 0 .. n : StartsWith(S!Wire[n], S!Wire[i])
          /\ \A i \in 1 .. n : S!Wire[i] = S!Wire[i - 1] \o S!Encode(packets[i])
      BY WireFacts
    <2> HIDE DEF n
    <2>2. PICK i \in 1 .. n : i = k + 1 /\ i - 1 = k
      BY <1>1
    <2>3. S!Wire[i] = S!Wire[i - 1] \o S!Encode(packets[i])
      BY <2>1, <2>2
    <2>4. S!Wire[k] \in Seq(S!Bytes) /\ S!Wire[i] \in Seq(S!Bytes) /\ S!Wire[n] \in Seq(S!Bytes)
      BY <1>1, <2>1, <2>2
    <2>5. StartsWith(S!Wire[n], S!Wire[k + 1])
      BY <1>1, <2>1
    <2> QED
      BY <2>2, <2>3, <2>4, <2>5
  <1>5. \A j : S!Upto(k, j) = open \o body[j]
    BY DEF S!Upto
  <1>6. S!Encode(pkt) = (<<"END">> \o body[l]) \o <<"END">>
    BY DEF S!Encode
  <1>7. \A j \in 1 .. l : pkt[j] \in S!Bytes
    BY <1>3
  <1>8. open \in Seq(S!Bytes)
    BY <1>3, <1>4, ConcatProperties
  <1> HIDE DEF n, pkt, l, body, open
  <1>9. \A j \in 0 .. l : S!Upto(k, j) \in Seq(S!Bytes)
    <2>1. TAKE j \in 0 .. l
    <2>2. body[j] \in Seq(S!Bytes)
      BY <1>3, <2>1
    <2>3. open \o body[j] \in Seq(S!Bytes)
      BY <1>8, <2>2, ConcatProperties
    <2> QED
      BY <1>5, <2>3
  <1>10. S!Upto(k, 0) = open
    BY <1>3, <1>5, <1>8, ConcatEmptySeq
  <1>11. ASSUME NEW j \in 0 .. l - 1 PROVE S!Upto(k, j + 1) = S!Upto(k, j) \o S!Escape(pkt[j + 1])
    <2>1. j \in 0 .. l /\ j + 1 \in 1 .. l /\ j + 1 - 1 = j
      BY <1>3
    <2>2. body[j] \in Seq(S!Bytes) /\ S!Escape(pkt[j + 1]) \in Seq(S!Bytes)
      BY <1>3, <1>7, <2>1, EscapeFacts
    <2>3. body[j + 1] = body[j] \o S!Escape(pkt[j + 1])
      <3>1. PICK i \in 1 .. l : i = j + 1 /\ i - 1 = j
        BY <2>1
      <3>2. body[i] = body[i - 1] \o S!Escape(pkt[i])
        BY <1>3, <3>1
      <3> QED
        BY <3>1, <3>2
    <2>4. Assoc(open, body[j], S!Escape(pkt[j + 1]))
      BY <1>8, <2>2, Associative
    <2> QED
      BY <1>5, <2>3, <2>4 DEF Assoc
  <1>12. S!Wire[k + 1] = S!Upto(k, l) \o <<"END">>
    <2>1. body[l] \in Seq(S!Bytes) /\ <<"END">> \o body[l] \in Seq(S!Bytes)
      BY <1>3, ConcatProperties
    <2>2. Assoc(S!Wire[k], <<"END">> \o body[l], <<"END">>) /\ Assoc(S!Wire[k], <<"END">>, body[l])
      BY <1>3, <1>4, <2>1, Associative
    <2>3. S!Upto(k, l) = S!Wire[k] \o (<<"END">> \o body[l])
      BY <1>5, <2>2 DEF Assoc, open
    <2> QED
      BY <1>4, <1>6, <2>2, <2>3 DEF Assoc
  <1>13. ASSUME NEW j \in 0 .. l PROVE StartsWith(S!Wire[n], S!Upto(k, j))
    <2>1. l \in 0 .. l /\ body[l] \in Seq(S!Bytes) /\ body[j] \in Seq(S!Bytes) /\ StartsWith(body[l], body[j])
      BY <1>3
    <2>2. S!Upto(k, l) \in Seq(S!Bytes) /\ S!Upto(k, j) \in Seq(S!Bytes)
      BY <1>9, <2>1
    <2>3. StartsWith(S!Upto(k, l), S!Upto(k, j))
      BY <1>5, <1>8, <2>1, StartsAfter
    <2>4. StartsWith(S!Wire[k + 1], S!Upto(k, l))
      BY <1>3, <1>12, <2>2, StartsConcat
    <2>5. StartsWith(S!Wire[k + 1], S!Upto(k, j))
      BY <1>4, <2>2, <2>3, <2>4, StartsTrans
    <2> QED
      BY <1>4, <2>2, <2>5, StartsTrans
  <1>14. /\ packets[k + 1] \in SlipConst.Frames /\ packets[k + 1] \in Seq(S!Bytes) /\ Len(packets[k + 1]) \in Nat
    BY <1>2, <1>3 DEF pkt, l
  <1>15. \A j \in 0 .. Len(packets[k + 1]) :
           S!Upto(k, j) \in Seq(S!Bytes) /\ StartsWith(S!Wire[Len(packets)], S!Upto(k, j))
    BY <1>9, <1>13 DEF l, n
  <1>16. \A j \in 0 .. Len(packets[k + 1]) - 1 :
           S!Upto(k, j + 1) = S!Upto(k, j) \o S!Escape(packets[k + 1][j + 1])
    BY <1>11 DEF l, pkt
  <1>17. S!Upto(k, 0) = S!Wire[k] \o <<"END">> /\ S!Wire[k + 1] = S!Upto(k, Len(packets[k + 1])) \o <<"END">>
    BY <1>10, <1>12 DEF open, l
  <1> QED
    BY <1>14, <1>15, <1>16, <1>17

\* What the next byte is: END before a frame and after it; a byte of the frame that
\* goes as itself, or ESC and then the byte that stands for it.
LEMMA NextOnWire ==
  ASSUME NEW p \in Seq(S!Bytes), NEW b \in S!Bytes, NEW w \in Seq(S!Bytes), uart \in Seq(S!Bytes),
         p \o uart = w, StartsWith(w, p \o <<b>>)
  PROVE  uart # <<>> /\ Head(uart) = b /\ (p \o <<b>>) \o Tail(uart) = w
BY NextByte

LEMMA NextBetween ==
  ASSUME S!Bounds, packets \in Seq(SlipConst.Frames), uart \in Seq(S!Bytes), uart # <<>>, NEW k \in 0 .. Len(packets),
         S!Wire[k] \o uart = S!Wire[Len(packets)]
  PROVE  k < Len(packets) /\ Head(uart) = "END" /\ S!Upto(k, 0) \o Tail(uart) = S!Wire[Len(packets)]
  <1>1. /\ Len(packets) \in Nat /\ S!Wire[k] \in Seq(S!Bytes) /\ S!Wire[Len(packets)] \in Seq(S!Bytes)
    <2>1. Len(packets) \in Nat /\ Len(packets) \in 0 .. Len(packets)
      OBVIOUS
    <2> QED
      BY <2>1, WireFacts
  <1>2. k < Len(packets)
    <2>1. ~(k < Len(packets)) => k = Len(packets)
      BY <1>1
    <2> QED
      BY <1>1, <2>1, NothingLeft
  <1>3. k \in 0 .. Len(packets) - 1
    BY <1>1, <1>2
  <1>4. 0 \in 0 .. Len(packets[k + 1])
    BY <1>3, UptoFacts
  <1>5. S!Upto(k, 0) = S!Wire[k] \o <<"END">> /\ StartsWith(S!Wire[Len(packets)], S!Upto(k, 0))
    BY <1>3, <1>4, UptoFacts
  <1>6. "END" \in S!Bytes
    BY DEF S!Bytes, S!Special
  <1> QED
    BY <1>1, <1>2, <1>5, <1>6, NextOnWire

LEMMA NextEnd ==
  ASSUME S!Bounds, packets \in Seq(SlipConst.Frames), uart \in Seq(S!Bytes), NEW k \in 0 .. Len(packets) - 1,
         S!Upto(k, Len(packets[k + 1])) \o uart = S!Wire[Len(packets)]
  PROVE  Head(uart) = "END" /\ S!Wire[k + 1] \o Tail(uart) = S!Wire[Len(packets)]
  <1>1. Len(packets[k + 1]) \in 0 .. Len(packets[k + 1])
    BY UptoFacts
  <1>2. S!Upto(k, Len(packets[k + 1])) \in Seq(S!Bytes) /\ S!Wire[k + 1] = S!Upto(k, Len(packets[k + 1])) \o <<"END">>
    BY <1>1, UptoFacts
  <1>0. Len(packets) \in Nat
    OBVIOUS
  <1>3. k + 1 \in 0 .. Len(packets) /\ Len(packets) \in 0 .. Len(packets)
    BY <1>0
  <1>4. S!Wire[Len(packets)] \in Seq(S!Bytes) /\ StartsWith(S!Wire[Len(packets)], S!Wire[k + 1])
    BY <1>3, WireFacts
  <1>5. "END" \in S!Bytes
    BY DEF S!Bytes, S!Special
  <1> QED
    BY <1>2, <1>4, <1>5, NextOnWire

LEMMA NextInside ==
  ASSUME S!Bounds, packets \in Seq(SlipConst.Frames), uart \in Seq(S!Bytes), NEW k \in 0 .. Len(packets) - 1,
         NEW j \in 0 .. Len(packets[k + 1]) - 1
  PROVE  LET b == packets[k + 1][j + 1] IN
         /\ S!Upto(k, j) \o uart = S!Wire[Len(packets)] =>
              \/ /\ Head(uart) = b /\ b \notin {"END", "ESC"}
                 /\ S!Upto(k, j + 1) \o Tail(uart) = S!Wire[Len(packets)]
              \/ /\ Head(uart) = "ESC" /\ Len(S!Escape(b)) = 2
                 /\ (S!Upto(k, j) \o <<"ESC">>) \o Tail(uart) = S!Wire[Len(packets)]
         /\ (Len(S!Escape(b)) = 2 /\ (S!Upto(k, j) \o <<"ESC">>) \o uart = S!Wire[Len(packets)]) =>
              S!Unescape(Head(uart)) = b /\ S!Upto(k, j + 1) \o Tail(uart) = S!Wire[Len(packets)]
  <1> DEFINE b == packets[k + 1][j + 1]
             w == S!Wire[Len(packets)]
             p == S!Upto(k, j)
             q == S!Upto(k, j + 1)
  <1>1. packets[k + 1] \in Seq(S!Bytes) /\ Len(packets[k + 1]) \in Nat
    BY UptoFacts
  <1>2. j \in 0 .. Len(packets[k + 1]) /\ j + 1 \in 0 .. Len(packets[k + 1]) /\ j + 1 \in 1 .. Len(packets[k + 1])
    BY <1>1
  <1>3. p \in Seq(S!Bytes) /\ q \in Seq(S!Bytes) /\ StartsWith(w, q) /\ q = p \o S!Escape(b)
    BY <1>2, UptoFacts
  <1>4. b \in S!Bytes
    BY <1>1, <1>2
  <1>5. Len(packets) \in 0 .. Len(packets)
    BY WireFacts
  <1>6. w \in Seq(S!Bytes)
    BY <1>5, WireFacts
  <1> HIDE DEF b, w, p, q
  <1>7. CASE S!Escape(b) = <<b>> /\ Len(S!Escape(b)) = 1 /\ b \notin {"END", "ESC"}
    <2>1. ASSUME p \o uart = w PROVE Head(uart) = b /\ q \o Tail(uart) = w
      BY <1>3, <1>4, <1>6, <1>7, <2>1, NextOnWire
    <2>2. Len(S!Escape(b)) # 2
      BY <1>7
    <2> HIDE DEF b
    <2> QED
      BY <1>7, <2>1, <2>2 DEF b, w, p, q
  <1>8. CASE /\ Len(S!Escape(b)) = 2
             /\ \E c \in S!Bytes : S!Escape(b) = <<"ESC">> \o <<c>> /\ S!Unescape(c) = b
    <2>1. PICK c \in S!Bytes : S!Escape(b) = <<"ESC">> \o <<c>> /\ S!Unescape(c) = b
      BY <1>8
    <2>2. "ESC" \in S!Bytes
      BY DEF S!Bytes, S!Special
    <2>3. <<"ESC">> \in Seq(S!Bytes) /\ <<c>> \in Seq(S!Bytes)
      BY <2>2
    <2>4. p \o <<"ESC">> \in Seq(S!Bytes)
      BY <1>3, <2>3, ConcatProperties
    <2>5. q = (p \o <<"ESC">>) \o <<c>>
      <3>1. Assoc(p, <<"ESC">>, <<c>>)
        BY <1>3, <2>3, Associative
      <3> QED
        BY <1>3, <2>1, <3>1 DEF Assoc
    <2>6. StartsWith(w, p \o <<"ESC">>)
      <3>1. StartsWith(q, p \o <<"ESC">>)
        BY <2>3, <2>4, <2>5, StartsConcat
      <3> QED
        BY <1>3, <1>6, <2>4, <3>1, StartsTrans
    <2>7. ASSUME p \o uart = w PROVE Head(uart) = "ESC" /\ (p \o <<"ESC">>) \o Tail(uart) = w
      BY <1>3, <1>6, <2>2, <2>6, <2>7, NextOnWire
    <2>8. ASSUME (p \o <<"ESC">>) \o uart = w PROVE Head(uart) = c /\ q \o Tail(uart) = w
      <3>1. StartsWith(w, (p \o <<"ESC">>) \o <<c>>)
        BY <1>3, <2>5
      <3>2. Head(uart) = c /\ ((p \o <<"ESC">>) \o <<c>>) \o Tail(uart) = w
        BY <1>6, <2>4, <2>8, <3>1, NextOnWire
      <3> QED
        BY <2>5, <3>2
    <2> QED
      BY <1>8, <2>1, <2>7, <2>8 DEF b, w, p, q
  <1> QED
    BY <1>4, <1>7, <1>8, EscapeFacts

LEMMA SeqOf == ASSUME NEW n \in Nat, NEW A, NEW f \in [1 .. n -> A] PROVE f \in Seq(A) /\ Len(f) = n
OBVIOUS

LEMMA OneOf == ASSUME NEW A, NEW x \in A PROVE <<x>> \in Seq(A)
OBVIOUS

\* The packets that fit, in their order.
LEMMA FittingFacts ==
  ASSUME packets \in Seq(SlipConst.Frames)
  PROVE  /\ S!Fitting \in [0 .. Len(packets) -> Seq(SlipConst.Frames)] /\ S!Fitting[0] = <<>>
         /\ \A k \in 0 .. Len(packets) - 1 :
              S!Fitting[k + 1] = IF S!Fits(packets[k + 1]) THEN Append(S!Fitting[k], packets[k + 1]) ELSE S!Fitting[k]
         /\ \A k \in 0 .. Len(packets) : StartsWith(S!Fitting[Len(packets)], S!Fitting[k])
  <1> DEFINE n == Len(packets)
             piece(i) == IF S!Fits(packets[i]) THEN <<packets[i]>> ELSE <<>>
             ps == [i \in 1 .. Len(packets) |-> piece(i)]
             fit == S!Fitting
  <1>1. n \in Nat /\ \A i \in 1 .. n : packets[i] \in SlipConst.Frames
    OBVIOUS
  <1>0. fit = S!Joined(ps)
    BY DEF S!Fitting
  <1>2. \A i \in 1 .. n : piece(i) \in Seq(SlipConst.Frames)
    <2>1. ASSUME NEW x \in SlipConst.Frames PROVE <<x>> \in Seq(SlipConst.Frames)
      BY OneOf
    <2>2. <<>> \in Seq(SlipConst.Frames)
      BY EmptySeq
    <2> QED
      BY <1>1, <2>1, <2>2
  <1>3. \A i : piece(i) = IF S!Fits(packets[i]) THEN <<packets[i]>> ELSE <<>>
    OBVIOUS
  <1> HIDE DEF piece, fit
  <1>4. ps \in Seq(Seq(SlipConst.Frames)) /\ Len(ps) = n /\ \A i \in 1 .. n : ps[i] = piece(i)
    BY <1>1, <1>2
  <1> HIDE DEF ps
  <1>5. /\ fit \in [0 .. n -> Seq(SlipConst.Frames)] /\ fit[0] = <<>>
        /\ \A k \in 1 .. n : fit[k] = fit[k - 1] \o ps[k]
    BY <1>0, <1>4, JoinedFacts
  <1>6. ASSUME NEW k \in 0 .. n - 1
        PROVE  fit[k + 1] = IF S!Fits(packets[k + 1]) THEN Append(fit[k], packets[k + 1]) ELSE fit[k]
    <2>1. PICK i \in 1 .. n : i = k + 1 /\ i - 1 = k /\ k \in 0 .. n
      BY <1>1
    <2>2. fit[i] = fit[k] \o ps[i] /\ fit[k] \in Seq(SlipConst.Frames) /\ packets[i] \in SlipConst.Frames
      BY <1>1, <1>5, <2>1
    <2>3. CASE S!Fits(packets[i])
      <3>1. Append(fit[k], packets[i]) = fit[k] \o <<packets[i]>>
        BY <2>2, AppendIsConcat
      <3> QED
        BY <1>3, <1>4, <2>1, <2>2, <2>3, <3>1
    <2>4. CASE ~S!Fits(packets[i])
      <3>1. fit[k] \o <<>> = fit[k]
        BY <2>2, ConcatEmptySeq
      <3> QED
        BY <1>3, <1>4, <2>1, <2>2, <2>4, <3>1
    <2> QED
      BY <2>3, <2>4
  <1>7. \A k \in 0 .. n : k \in 0 .. Len(ps) /\ n \in k .. Len(ps)
    BY <1>1, <1>4
  <1>8. \A k \in 0 .. n : StartsWith(fit[n], fit[k])
    BY <1>0, <1>4, <1>7, JoinedStarts
  <1> QED
    BY <1>5, <1>6, <1>8 DEF fit

(***************************************************************************)
(* The decoder.                                                            *)
(***************************************************************************)
\* A byte is stored while there is room, and the frame is marked when there is none.
LEMMA StoreFacts ==
  ASSUME SlipConst.MTU \in Nat, NEW pkt \in Seq(S!Bytes), NEW j \in 0 .. Len(pkt) - 1, S!Clean(pkt, j),
         S!Store(pkt[j + 1])
  PROVE  S!Clean(pkt, j + 1)'
  <1>1. Len(pkt) \in Nat /\ j + 1 \in 1 .. Len(pkt) /\ j \in Nat
    OBVIOUS
  <1>2. CASE j < SlipConst.MTU
    <2>1. j <= SlipConst.MTU /\ j + 1 <= SlipConst.MTU /\ ~(j > SlipConst.MTU) /\ ~(j + 1 > SlipConst.MTU)
      BY <1>1, <1>2
    <2>2. decoded = SubSeq(pkt, 1, j) /\ ~slip_overflow
      BY <2>1 DEF S!Clean
    <2>3. Len(decoded) = j
      BY <1>1, <2>2
    <2>4. decoded' = Append(decoded, pkt[j + 1]) /\ slip_overflow' = slip_overflow
      BY <1>2, <2>2, <2>3 DEF S!Store
    <2>5. Append(SubSeq(pkt, 1, j), pkt[j + 1]) = SubSeq(pkt, 1, j + 1)
      BY <1>1
    <2> QED
      BY <2>1, <2>2, <2>4, <2>5 DEF S!Clean
  <1>3. CASE ~(j < SlipConst.MTU)
    <2>1. ~(j + 1 <= SlipConst.MTU) /\ j + 1 > SlipConst.MTU
      BY <1>1, <1>3
    <2>2. decoded = SubSeq(pkt, 1, SlipConst.MTU)
      <3>1. ~(j <= SlipConst.MTU) \/ j = SlipConst.MTU
        BY <1>1, <1>3
      <3> QED
        BY <3>1 DEF S!Clean
    <2>3. Len(decoded) = SlipConst.MTU
      BY <1>1, <1>3, <2>2
    <2>4. slip_overflow' = TRUE /\ decoded' = decoded
      BY <2>3 DEF S!Store
    <2> QED
      BY <2>1, <2>2, <2>4 DEF S!Clean
  <1> QED
    BY <1>2, <1>3

\* A frame that was decoded cleanly is handed on exactly when it fits, and then whole.
LEMMA WholeFrame ==
  ASSUME SlipConst.MTU \in Nat, NEW pkt \in Seq(S!Bytes), S!Clean(pkt, Len(pkt))
  PROVE  /\ S!Fits(pkt) => decoded # <<>> /\ ~slip_overflow /\ decoded = pkt
         /\ ~S!Fits(pkt) => decoded = <<>> \/ slip_overflow
  <1>1. Len(pkt) \in Nat /\ SubSeq(pkt, 1, Len(pkt)) = pkt
    OBVIOUS
  <1>2. CASE Len(pkt) <= SlipConst.MTU
    <2>1. ~(Len(pkt) > SlipConst.MTU)
      BY <1>1, <1>2
    <2>2. decoded = pkt /\ ~slip_overflow
      BY <1>1, <1>2, <2>1 DEF S!Clean
    <2> QED
      BY <1>2, <2>2 DEF S!Fits
  <1>3. CASE ~(Len(pkt) <= SlipConst.MTU)
    <2>1. Len(pkt) > SlipConst.MTU
      BY <1>1, <1>3
    <2>2. slip_overflow
      BY <2>1 DEF S!Clean
    <2> QED
      BY <1>3, <2>2 DEF S!Fits
  <1> QED
    BY <1>2, <1>3

LEMMA PollType ==
  ASSUME S!Bounds, S!TypeOK, S!PollByte
  PROVE  S!TypeOK'
  <1>1. /\ slip_state \in {"NORMAL", "ESC"} /\ slip_overflow \in BOOLEAN /\ decoded \in Seq(S!Bytes)
        /\ Len(decoded) <= SlipConst.MTU /\ uart \in Seq(S!Bytes) /\ packets \in Seq(SlipConst.Frames)
        /\ handed \in Seq(Seq(S!Bytes)) /\ sends \in 0 .. SlipConst.Transmits /\ SlipConst.MTU \in Nat
    BY DEF S!TypeOK, S!Bounds
  <1>2. PICK b : b = Head(uart) /\ (S!Escaped(b) \/ S!FrameEnd(b) \/ S!EscapeStarts(b) \/ S!Ordinary(b))
    BY DEF S!PollByte
  <1>3. uart # <<>> /\ uart' = Tail(uart) /\ packets' = packets /\ sends' = sends
    BY DEF S!PollByte
  <1>4. b \in S!Bytes /\ uart' \in Seq(S!Bytes)
    BY <1>1, <1>2, <1>3, HeadTailProperties
  <1>5. S!Unescape(b) \in S!Bytes
    BY <1>4 DEF S!Unescape, S!Bytes, S!Special
  <1>6. ASSUME NEW c \in S!Bytes, S!Store(c)
        PROVE  decoded' \in Seq(S!Bytes) /\ Len(decoded') <= SlipConst.MTU /\ slip_overflow' \in BOOLEAN
    <2>1. CASE ~slip_overflow /\ Len(decoded) < SlipConst.MTU
      <3>1. decoded' = Append(decoded, c) /\ slip_overflow' = slip_overflow
        BY <1>6, <2>1 DEF S!Store
      <3>2. Len(Append(decoded, c)) = Len(decoded) + 1 /\ Append(decoded, c) \in Seq(S!Bytes) /\ Len(decoded) \in Nat
        BY <1>1, <1>6
      <3>3. Len(decoded) + 1 <= SlipConst.MTU
        BY <1>1, <2>1, <3>2
      <3> QED
        BY <1>1, <3>1, <3>2, <3>3
    <2>2. CASE ~(~slip_overflow /\ Len(decoded) < SlipConst.MTU)
      <3>1. slip_overflow' = TRUE /\ decoded' = decoded
        BY <1>6, <2>2 DEF S!Store
      <3> QED
        BY <1>1, <3>1
    <2> QED
      BY <2>1, <2>2
  <1>7. /\ decoded' \in Seq(S!Bytes) /\ Len(decoded') <= SlipConst.MTU /\ slip_overflow' \in BOOLEAN
        /\ slip_state' \in {"NORMAL", "ESC"} /\ handed' \in Seq(Seq(S!Bytes))
    <2>1. CASE S!Escaped(b)
      BY <1>1, <1>5, <1>6, <2>1 DEF S!Escaped
    <2>2. CASE S!FrameEnd(b)
      <3>1. /\ decoded' = <<>> /\ slip_overflow' = FALSE /\ slip_state' = slip_state
            /\ handed' = IF decoded # <<>> /\ ~slip_overflow THEN Append(handed, decoded) ELSE handed
        BY <2>2 DEF S!FrameEnd
      <3>2. handed' \in Seq(Seq(S!Bytes))
        BY <1>1, <3>1
      <3>3. <<>> \in Seq(S!Bytes) /\ Len(<<>>) = 0 /\ 0 <= SlipConst.MTU
        BY <1>1
      <3> QED
        BY <1>1, <3>1, <3>2, <3>3
    <2>3. CASE S!EscapeStarts(b)
      BY <1>1, <2>3 DEF S!EscapeStarts
    <2>4. CASE S!Ordinary(b)
      BY <1>1, <1>4, <1>6, <2>4 DEF S!Ordinary
    <2> QED
      BY <1>2, <2>1, <2>2, <2>3, <2>4
  <1> QED
    BY <1>1, <1>3, <1>4, <1>7 DEF S!TypeOK

LEMMA SlipQuiet ==
  ASSUME packets' = packets
  PROVE  S!Wire' = S!Wire /\ S!Fitting' = S!Fitting /\ \A k, j : S!Upto(k, j)' = S!Upto(k, j)
BY DEF S!Wire, S!Fitting, S!Upto, S!Fits

\* What came out stays where it came out.
LEMMA CameKeeps ==
  ASSUME NEW k \in Nat, NEW D, NEW E, NEW f, D \subseteq E, S!CameOut(k, D, f),
         Len(handed) \in Nat, Len(handed') \in Nat, Len(handed) <= Len(handed'),
         \A i \in 1 .. Len(handed) : handed'[i] = handed[i],
         \A i \in 1 .. k : packets'[i] = packets[i]
  PROVE  S!CameOut(k, E, f)'
  <1>1. ASSUME NEW i \in (1 .. k) \ E, S!Fits(packets'[i]) PROVE S!Came(i, E, f)'
    <2>1. i \in (1 .. k) \ D /\ packets'[i] = packets[i]
      OBVIOUS
    <2>2. S!Came(i, D, f)
      BY <1>1, <2>1 DEF S!CameOut
    <2>3. f[i] \in 1 .. Len(handed) /\ handed[f[i]] = packets[i]
      BY <2>2 DEF S!Came
    <2>4. f[i] \in 1 .. Len(handed') /\ handed'[f[i]] = packets'[i]
      BY <2>1, <2>3
    <2>5. ASSUME NEW m \in (1 .. i - 1) \ E, S!Fits(packets'[m]) PROVE f[m] < f[i]
      <3>1. m \in (1 .. i - 1) \ D /\ m \in 1 .. k
        BY <2>1
      <3>2. S!Fits(packets[m])
        BY <2>5, <3>1
      <3> QED
        BY <2>2, <3>1, <3>2 DEF S!Came
    <2> QED
      BY <2>4, <2>5 DEF S!Came, S!Fits
  <1> QED
    BY <1>1 DEF S!CameOut, S!Fits

\* A step that hands nothing on and sends nothing.
LEMMA Settles ==
  ASSUME S!TypeOK, S!TypeOK', handed' = handed, packets' = packets, sends' = sends, NEW k \in 0 .. Len(packets),
         NEW D \in SUBSET (1 .. k + 1), NEW f \in [1 .. k -> 0 .. Len(handed)], S!Cardinality(D) <= sends,
         S!CameOut(k, D, f), sends = 0 => handed = S!Fitting[k], S!Position(k, D)'
  PROVE  S!SlipInv'
  <1>1. Len(handed) \in Nat /\ k \in Nat
    BY DEF S!TypeOK
  <1>2. S!CameOut(k, D, f)'
    BY <1>1, CameKeeps
  <1>3. sends' = 0 => handed' = S!Fitting'[k]
    BY SlipQuiet
  <1>4. k \in 0 .. Len(packets') /\ f \in [1 .. k -> 0 .. Len(handed')] /\ S!Cardinality(D) <= sends'
    OBVIOUS
  <1> QED
    BY <1>2, <1>3, <1>4, Zenon DEF S!SlipInv

\* The END that closes a frame.
LEMMA FrameEndKeeps ==
  ASSUME S!Bounds, S!TypeOK, S!TypeOK', S!FrameEnd("END"), packets' = packets, sends' = sends,
         NEW k \in 0 .. Len(packets) - 1, NEW D \in SUBSET (1 .. k + 1), NEW f \in [1 .. k -> 0 .. Len(handed)],
         S!Cardinality(D) <= sends, S!CameOut(k, D, f), sends = 0 => handed = S!Fitting[k],
         k + 1 \notin D => S!Clean(packets[k + 1], Len(packets[k + 1])),
         S!Wire[k + 1] \o uart' = S!Wire[Len(packets)]
  PROVE  S!SlipInv'
  <1> DEFINE pkt == packets[k + 1]
  <1>1. /\ packets \in Seq(SlipConst.Frames) /\ handed \in Seq(Seq(S!Bytes)) /\ Len(handed) \in Nat
        /\ Len(packets) \in Nat
        /\ SlipConst.MTU \in Nat /\ sends \in Nat /\ decoded \in Seq(S!Bytes)
    BY DEF S!TypeOK, S!Bounds
  <1>2. pkt \in SlipConst.Frames /\ pkt \in Seq(S!Bytes)
    BY <1>1, UptoFacts
  <1>3. /\ slip_state' = "NORMAL" /\ ~slip_overflow' /\ decoded' = <<>>
        /\ handed' = IF decoded # <<>> /\ ~slip_overflow THEN Append(handed, decoded) ELSE handed
    BY DEF S!FrameEnd
  <1>4. Len(handed') \in Nat /\ Len(handed) <= Len(handed') /\ \A i \in 1 .. Len(handed) : handed'[i] = handed[i]
    <2>1. CASE decoded # <<>> /\ ~slip_overflow
      <3>1. handed' = Append(handed, decoded)
        BY <1>3, <2>1
      <3> QED
        BY <1>1, <3>1
    <2>2. CASE ~(decoded # <<>> /\ ~slip_overflow)
      <3>1. handed' = handed
        BY <1>3, <2>2
      <3> QED
        BY <1>1, <3>1
    <2> QED
      BY <2>1, <2>2
  <1>5. /\ k + 1 \in 0 .. Len(packets) /\ k \in Nat /\ k + 1 \in 1 .. k + 1 /\ k + 1 + 1 \notin D
        /\ D \in SUBSET (1 .. k + 1 + 1)
    BY <1>1
  <1>6. PICK g \in [1 .. k + 1 -> 0 .. Len(handed')] :
          (\A i \in 1 .. k : g[i] = f[i] /\ i # k + 1) /\ g[k + 1] = Len(handed')
    <2> DEFINE g == [i \in 1 .. k + 1 |-> IF i = k + 1 THEN Len(handed') ELSE f[i]]
    <2>1. \A i \in 1 .. k + 1 : i # k + 1 => i \in 1 .. k
      BY <1>5
    <2>2. \A i \in 1 .. k : i \in 1 .. k + 1 /\ i # k + 1
      BY <1>5
    <2>3. \A i \in 1 .. k : f[i] \in 0 .. Len(handed')
      BY <1>1, <1>4
    <2>4. /\ g \in [1 .. k + 1 -> 0 .. Len(handed')] /\ g[k + 1] = Len(handed')
          /\ \A i \in 1 .. k : g[i] = f[i] /\ i # k + 1
      BY <1>4, <1>5, <2>1, <2>2, <2>3
    <2> HIDE DEF g
    <2> QED
      BY <2>4
  <1>7. S!CameOut(k, D, f)'
    BY <1>1, <1>4, <1>5, CameKeeps
  <1>8. k + 1 \notin D /\ S!Fits(pkt) => handed' = Append(handed, pkt)
    BY <1>1, <1>2, <1>3, WholeFrame
  <1>9. k + 1 \notin D /\ ~S!Fits(pkt) => handed' = handed
    BY <1>1, <1>2, <1>3, WholeFrame
  <1> HIDE DEF pkt
  <1>10. ASSUME NEW i \in (1 .. k + 1) \ D, S!Fits(packets'[i]) PROVE S!Came(i, D, g)'
    <2>1. \A m \in (1 .. k) \ D : S!Fits(packets[m]) => S!Came(m, D, f)'
      BY <1>7 DEF S!CameOut, S!Fits
    <2>2. CASE i # k + 1
      <3>1. i \in (1 .. k) \ D /\ g[i] = f[i] /\ \A m \in 1 .. i - 1 : g[m] = f[m]
        BY <1>5, <1>6, <2>2
      <3>2. S!Came(i, D, f)'
        BY <1>10, <2>1, <3>1
      <3> QED
        BY <3>1, <3>2 DEF S!Came, S!Fits
    <2>3. CASE i = k + 1
      <3>1. handed' = Append(handed, pkt) /\ k + 1 \notin D
        BY <1>8, <1>10, <2>3 DEF pkt
      <3>2. Len(handed') = Len(handed) + 1 /\ handed'[Len(handed')] = pkt
        BY <1>1, <1>2, <3>1
      <3>3. g[i] \in 1 .. Len(handed') /\ handed'[g[i]] = packets'[i]
        BY <1>1, <1>6, <2>3, <3>2 DEF pkt
      <3>4. ASSUME NEW m \in (1 .. i - 1) \ D, S!Fits(packets'[m]) PROVE g[m] < g[i]
        <4>1. m \in (1 .. k) \ D /\ g[m] = f[m]
          BY <1>5, <1>6, <2>3
        <4>2. S!Came(m, D, f)
          BY <3>4, <4>1 DEF S!CameOut
        <4>3. f[m] \in 1 .. Len(handed)
          BY <4>2 DEF S!Came
        <4> QED
          BY <1>1, <1>6, <2>3, <3>2, <4>1, <4>3
      <3> QED
        BY <3>3, <3>4 DEF S!Came, S!Fits
    <2> QED
      BY <2>2, <2>3
  <1>11. S!CameOut(k + 1, D, g)'
    BY <1>10 DEF S!CameOut, S!Fits
  <1>12. sends' = 0 => handed' = S!Fitting'[k + 1]
    <2>1. SUFFICES ASSUME sends = 0 PROVE handed' = S!Fitting[k + 1]
      BY SlipQuiet
    <2>2. D = {}
      <3>1. IsFiniteSet(D) /\ Cardinality(D) = 0
        <4>1. IsFiniteSet(1 .. k + 1)
          BY <1>5, FS_Interval
        <4>2. IsFiniteSet(D) /\ Cardinality(D) \in Nat
          BY <4>1, FS_Subset, FS_CardinalityType
        <4> QED
          BY <2>1, <4>2, SlipCounts
      <3> QED
        BY <3>1, FS_EmptySet
    <2>3. S!Fitting[k + 1] = IF S!Fits(packets[k + 1]) THEN Append(S!Fitting[k], packets[k + 1]) ELSE S!Fitting[k]
      BY <1>1, FittingFacts
    <2> QED
      BY <1>8, <1>9, <2>1, <2>2, <2>3 DEF pkt
  <1>13. S!Position(k + 1, D)'
    <2>1. S!Between(k + 1)'
      BY <1>3, SlipQuiet DEF S!Between
    <2> QED
      BY <1>5, <2>1 DEF S!Position
  <1>14. S!Cardinality(D) <= sends' /\ k + 1 \in 0 .. Len(packets') /\ g \in [1 .. k + 1 -> 0 .. Len(handed')]
    BY <1>5, <1>6
  <1> QED
    BY <1>5, <1>11, <1>12, <1>13, <1>14, Zenon DEF S!SlipInv

LEMMA SlipPollKeeps ==
  ASSUME S!Bounds, S!SlipInv, S!PollByte
  PROVE  S!SlipInv'
  <1> DEFINE n == Len(packets)
  <1>1. S!TypeOK /\ S!TypeOK'
    BY PollType DEF S!SlipInv
  <1>2. /\ packets \in Seq(SlipConst.Frames) /\ uart \in Seq(S!Bytes) /\ uart # <<>> /\ n \in Nat
        /\ SlipConst.MTU \in Nat
    BY <1>1 DEF S!TypeOK, S!Bounds, S!PollByte
  <1>3. PICK k \in 0 .. n : \E D \in SUBSET (1 .. k + 1), f \in [1 .. k -> 0 .. Len(handed)] :
          S!Cardinality(D) <= sends /\ S!CameOut(k, D, f) /\ (sends = 0 => handed = S!Fitting[k]) /\ S!Position(k, D)
    BY Zenon DEF S!SlipInv
  <1>4. PICK D \in SUBSET (1 .. k + 1), f \in [1 .. k -> 0 .. Len(handed)] :
          S!Cardinality(D) <= sends /\ S!CameOut(k, D, f) /\ (sends = 0 => handed = S!Fitting[k]) /\ S!Position(k, D)
    BY <1>3
  <1>5. PICK b : b = Head(uart) /\ (S!Escaped(b) \/ S!FrameEnd(b) \/ S!EscapeStarts(b) \/ S!Ordinary(b))
    BY DEF S!PollByte
  <1>6. uart' = Tail(uart) /\ packets' = packets /\ sends' = sends
    BY DEF S!PollByte
  <1>7. S!Wire' = S!Wire /\ \A i, j : S!Upto(i, j)' = S!Upto(i, j)
    BY <1>6, SlipQuiet
  <1>8. ASSUME handed' = handed, S!Position(k, D)' PROVE S!SlipInv'
    BY <1>1, <1>4, <1>6, <1>8, Settles
  <1>9. CASE S!Between(k) /\ k + 1 \notin D
    <2>1. slip_state = "NORMAL" /\ ~slip_overflow /\ decoded = <<>> /\ S!Wire[k] \o uart = S!Wire[n]
      BY <1>9 DEF S!Between
    <2>2. k < n /\ b = "END" /\ S!Upto(k, 0) \o uart' = S!Wire[n]
      BY <1>2, <1>5, <1>6, <2>1, NextBetween
    <2>3. S!FrameEnd(b)
      BY <1>5, <2>1, <2>2 DEF S!Escaped, S!EscapeStarts, S!Ordinary
    <2>4. handed' = handed /\ decoded' = <<>> /\ slip_overflow' = FALSE /\ slip_state' = "NORMAL"
      BY <2>1, <2>3 DEF S!FrameEnd
    <2>5. k \in 0 .. n - 1
      BY <1>2, <2>2
    <2>6. 0 \in 0 .. Len(packets'[k + 1])
      BY <1>2, <1>6, <2>5, UptoFacts
    <2>7. S!Inside(k, 0)'
      BY <1>6, <1>7, <2>2, <2>4 DEF S!Inside
    <2>8. S!Clean(packets[k + 1], 0)'
      <3>1. 0 <= SlipConst.MTU /\ ~(0 > SlipConst.MTU)
        BY <1>2
      <3>2. SubSeq(packets'[k + 1], 1, 0) = <<>>
        BY <1>2, <1>6, <2>5, UptoFacts
      <3> QED
        BY <2>4, <3>1, <3>2 DEF S!Clean
    <2>9. S!Position(k, D)'
      BY <1>6, <2>2, <2>6, <2>7, <2>8 DEF S!Position
    <2> QED
      BY <1>8, <2>4, <2>9
  <1>10. CASE ~(S!Between(k) /\ k + 1 \notin D)
    <2>1. PICK j \in 0 .. Len(packets[k + 1]) :
            k < n /\ S!Inside(k, j) /\ (k + 1 \notin D => S!Clean(packets[k + 1], j))
      BY <1>4, <1>10 DEF S!Position
    <2> DEFINE pkt == packets[k + 1]
               l == Len(packets[k + 1])
    <2>2. k \in 0 .. n - 1
      BY <1>2, <2>1
    <2>3. pkt \in Seq(S!Bytes) /\ l \in Nat
      BY <1>2, <2>2, UptoFacts
    <2>4. slip_state \in {"NORMAL", "ESC"}
      BY <1>1 DEF S!TypeOK
    <2>5. CASE slip_state = "NORMAL" /\ j = l
      <3>1. S!Upto(k, l) \o uart = S!Wire[n]
        BY <2>1, <2>5 DEF S!Inside
      <3>2. b = "END" /\ S!Wire[k + 1] \o uart' = S!Wire[n]
        BY <1>2, <1>5, <1>6, <2>2, <3>1, NextEnd
      <3>3. S!FrameEnd("END")
        BY <1>5, <2>5, <3>2 DEF S!Escaped, S!EscapeStarts, S!Ordinary
      <3>4. k + 1 \notin D => S!Clean(packets[k + 1], Len(packets[k + 1]))
        BY <2>1, <2>5
      <3> QED
        BY <1>1, <1>4, <1>6, <2>2, <3>2, <3>3, <3>4, FrameEndKeeps
    <2>6. CASE ~(slip_state = "NORMAL" /\ j = l)
      <3>1. j \in 0 .. l - 1
        <4>1. slip_state = "ESC" => j < l
          BY <2>1 DEF S!Inside
        <4> QED
          BY <2>3, <2>4, <2>6, <4>1
      <3> DEFINE c == packets[k + 1][j + 1]
      <3>2. /\ S!Upto(k, j) \o uart = S!Wire[n] =>
                 \/ b = c /\ c \notin {"END", "ESC"} /\ S!Upto(k, j + 1) \o uart' = S!Wire[n]
                 \/ b = "ESC" /\ Len(S!Escape(c)) = 2 /\ (S!Upto(k, j) \o <<"ESC">>) \o uart' = S!Wire[n]
            /\ (Len(S!Escape(c)) = 2 /\ (S!Upto(k, j) \o <<"ESC">>) \o uart = S!Wire[n]) =>
                 S!Unescape(b) = c /\ S!Upto(k, j + 1) \o uart' = S!Wire[n]
        BY <1>2, <1>5, <1>6, <2>2, <3>1, NextInside
      <3> HIDE DEF c
      <3>3. ASSUME S!Upto(k, j + 1) \o uart' = S!Wire[n], slip_state' = "NORMAL", handed' = handed, S!Store(c)
            PROVE  S!SlipInv'
        <4>1. j + 1 \in 0 .. Len(packets'[k + 1])
          BY <1>6, <2>3, <3>1
        <4>2. S!Inside(k, j + 1)'
          BY <1>6, <1>7, <3>3 DEF S!Inside
        <4>3. PICK p \in Seq(S!Bytes) : p = packets[k + 1]
          BY <2>3
        <4>4. k + 1 \notin D => S!Clean(packets[k + 1], j + 1)'
          <5>1. k + 1 \notin D => S!Clean(p, j)
            BY <2>1, <4>3
          <5>2. S!Store(p[j + 1]) /\ j \in 0 .. Len(p) - 1
            BY <3>1, <3>3, <4>3 DEF c
          <5>3. k + 1 \notin D => S!Clean(p, j + 1)'
            BY <1>2, <5>1, <5>2, StoreFacts
          <5> QED
            BY <1>6, <4>3, <5>3 DEF S!Clean
        <4>5. S!Position(k, D)'
          BY <1>6, <2>1, <4>1, <4>2, <4>4 DEF S!Position
        <4> QED
          BY <1>8, <3>3, <4>5
      <3>4. CASE slip_state = "ESC"
        <4>1. Len(S!Escape(c)) = 2 /\ (S!Upto(k, j) \o <<"ESC">>) \o uart = S!Wire[n]
          BY <2>1, <3>4 DEF S!Inside, c
        <4>2. S!Escaped(b)
          BY <1>5, <3>4 DEF S!FrameEnd, S!EscapeStarts, S!Ordinary
        <4>3. slip_state' = "NORMAL" /\ handed' = handed /\ S!Store(S!Unescape(b))
          BY <4>2 DEF S!Escaped
        <4> QED
          BY <3>2, <3>3, <4>1, <4>3
      <3>5. CASE slip_state = "NORMAL"
        <4>1. S!Upto(k, j) \o uart = S!Wire[n]
          BY <2>1, <3>5 DEF S!Inside
        <4>2. CASE b = c /\ c \notin {"END", "ESC"} /\ S!Upto(k, j + 1) \o uart' = S!Wire[n]
          <5>1. S!Ordinary(b)
            BY <1>5, <3>5, <4>2 DEF S!Escaped, S!FrameEnd, S!EscapeStarts
          <5>2. S!Store(b) /\ slip_state' = "NORMAL" /\ handed' = handed
            BY <3>5, <5>1 DEF S!Ordinary
          <5> QED
            BY <3>3, <4>2, <5>2
        <4>3. CASE b = "ESC" /\ Len(S!Escape(c)) = 2 /\ (S!Upto(k, j) \o <<"ESC">>) \o uart' = S!Wire[n]
          <5>1. S!EscapeStarts(b)
            BY <1>5, <3>5, <4>3 DEF S!Escaped, S!FrameEnd, S!Ordinary
          <5>2. slip_state' = "ESC" /\ handed' = handed /\ decoded' = decoded /\ slip_overflow' = slip_overflow
            BY <5>1 DEF S!EscapeStarts
          <5>3. j < Len(packets'[k + 1]) /\ j \in 0 .. Len(packets'[k + 1])
            BY <1>6, <2>3, <3>1
          <5>4. S!Inside(k, j)'
            BY <1>6, <1>7, <4>3, <5>2, <5>3 DEF S!Inside, c
          <5>5. k + 1 \notin D => S!Clean(packets[k + 1], j)'
            BY <1>6, <2>1, <5>2 DEF S!Clean
          <5>6. S!Position(k, D)'
            BY <1>6, <2>1, <5>3, <5>4, <5>5 DEF S!Position
          <5> QED
            BY <1>8, <5>2, <5>6
        <4> QED
          BY <3>2, <4>1, <4>2, <4>3
      <3> QED
        BY <2>4, <3>4, <3>5
    <2> QED
      BY <2>5, <2>6
  <1> QED
    BY <1>9, <1>10

LEMMA PeerSendsKeeps ==
  ASSUME S!Bounds, S!SlipInv, NEW pkt \in SlipConst.Frames, S!PeerSends(pkt)
  PROVE  S!SlipInv'
  <1> DEFINE n == Len(packets)
             e == S!Encode(pkt)
  <1>1. S!TypeOK
    BY DEF S!SlipInv
  <1>2. /\ packets \in Seq(SlipConst.Frames) /\ uart \in Seq(S!Bytes) /\ n \in Nat /\ handed \in Seq(Seq(S!Bytes))
        /\ Len(handed) \in Nat
    BY <1>1 DEF S!TypeOK
  <1>3. e \in Seq(S!Bytes)
    BY EncodeFacts
  <1>4. /\ uart' = uart \o e /\ packets' = Append(packets, pkt)
        /\ slip_state' = slip_state /\ slip_overflow' = slip_overflow /\ decoded' = decoded /\ handed' = handed
        /\ sends' = sends
    BY DEF S!PeerSends
  <1>5. /\ packets' \in Seq(SlipConst.Frames) /\ Len(packets') = n + 1 /\ packets'[n + 1] = pkt
        /\ \A i \in 1 .. n : packets'[i] = packets[i]
    BY <1>2, <1>4
  <1>6. uart' \in Seq(S!Bytes)
    BY <1>2, <1>3, <1>4, ConcatProperties
  <1>7. S!TypeOK'
    BY <1>1, <1>4, <1>5, <1>6 DEF S!TypeOK
  <1>8. PICK k \in 0 .. n : \E D \in SUBSET (1 .. k + 1), f \in [1 .. k -> 0 .. Len(handed)] :
          S!Cardinality(D) <= sends /\ S!CameOut(k, D, f) /\ (sends = 0 => handed = S!Fitting[k]) /\ S!Position(k, D)
    BY Zenon DEF S!SlipInv
  <1>9. PICK D \in SUBSET (1 .. k + 1), f \in [1 .. k -> 0 .. Len(handed)] :
          S!Cardinality(D) <= sends /\ S!CameOut(k, D, f) /\ (sends = 0 => handed = S!Fitting[k]) /\ S!Position(k, D)
    BY <1>8
  <1>10. (\A i \in 0 .. n : S!Wire'[i] = S!Wire[i]) /\ S!Wire'[n + 1] = S!Wire[n] \o e
    <2> DEFINE ps == [i \in 1 .. Len(packets) |-> S!Encode(packets[i])]
               qs == [i \in 1 .. Len(packets') |-> S!Encode(packets'[i])]
    <2>1. S!Wire = S!Joined(ps) /\ S!Wire' = S!Joined(qs)
      BY DEF S!Wire
    <2>2. /\ \A i \in 1 .. n : S!Encode(packets[i]) \in Seq(S!Bytes)
          /\ \A i \in 1 .. n + 1 : S!Encode(packets'[i]) \in Seq(S!Bytes)
      <3>1. \A i \in 1 .. n : packets[i] \in SlipConst.Frames
        BY <1>2
      <3>2. \A i \in 1 .. n + 1 : packets'[i] \in SlipConst.Frames
        BY <1>2, <1>5
      <3> QED
        BY <3>1, <3>2, EncodeFacts
    <2>3. ps \in Seq(Seq(S!Bytes)) /\ Len(ps) = n /\ \A i \in 1 .. n : ps[i] = S!Encode(packets[i])
      BY <1>2, <2>2
    <2>4. qs \in Seq(Seq(S!Bytes)) /\ Len(qs) = n + 1 /\ \A i \in 1 .. n + 1 : qs[i] = S!Encode(packets'[i])
      BY <1>2, <1>5, <2>2
    <2> HIDE DEF ps, qs
    <2>5. /\ \A i \in 1 .. n : i \in 1 .. n + 1
          /\ n <= n + 1 /\ n + 1 \in 1 .. n + 1 /\ n + 1 - 1 = n /\ n \in 0 .. n
      BY <1>2
    <2>6. \A i \in 1 .. n : ps[i] = qs[i]
      BY <1>5, <2>3, <2>4, <2>5
    <2>7. \A i \in 0 .. n : S!Joined(ps)[i] = S!Joined(qs)[i]
      <3>1. n \in Nat /\ n <= Len(ps) /\ n <= Len(qs)
        BY <1>2, <2>3, <2>4, <2>5
      <3> HIDE DEF n
      <3> QED
        BY <2>3, <2>4, <2>6, <3>1, JoinedSame
    <2>8. S!Joined(qs)[n + 1] = S!Joined(qs)[n] \o qs[n + 1]
      <3>1. PICK i \in 1 .. n + 1 : i = n + 1 /\ i - 1 = n
        BY <2>5
      <3>2. S!Joined(qs)[i] = S!Joined(qs)[i - 1] \o qs[i]
        BY <2>4, <3>1, JoinedFacts
      <3> QED
        BY <3>1, <3>2
    <2>9. qs[n + 1] = e
      BY <1>5, <2>4, <2>5
    <2> QED
      BY <2>1, <2>5, <2>7, <2>8, <2>9
  <1>11. \A i \in 0 .. n : S!Fitting'[i] = S!Fitting[i]
    <2> DEFINE piece(p) == IF S!Fits(p) THEN <<p>> ELSE <<>>
               ps == [i \in 1 .. Len(packets) |-> piece(packets[i])]
               qs == [i \in 1 .. Len(packets') |-> piece(packets'[i])]
    <2>1. S!Fitting = S!Joined(ps) /\ S!Fitting' = S!Joined(qs)
      BY DEF S!Fitting, S!Fits
    <2>2. ASSUME NEW p \in SlipConst.Frames PROVE piece(p) \in Seq(SlipConst.Frames)
      <3>1. <<p>> \in Seq(SlipConst.Frames) /\ <<>> \in Seq(SlipConst.Frames)
        BY OneOf, EmptySeq
      <3> QED
        BY <3>1
    <2> HIDE DEF piece
    <2>3. /\ \A i \in 1 .. n : packets[i] \in SlipConst.Frames
          /\ \A i \in 1 .. n + 1 : packets'[i] \in SlipConst.Frames
      BY <1>2, <1>5
    <2>4. ps \in Seq(Seq(SlipConst.Frames)) /\ Len(ps) = n /\ \A i \in 1 .. n : ps[i] = piece(packets[i])
      <3>1. \A i \in 1 .. n : piece(packets[i]) \in Seq(SlipConst.Frames)
        BY <2>2, <2>3
      <3>2. ps \in [1 .. n -> Seq(SlipConst.Frames)] /\ \A i \in 1 .. n : ps[i] = piece(packets[i])
        BY <3>1
      <3> HIDE DEF ps, n
      <3> QED
        BY <1>2, <3>2, SeqOf
    <2>5. qs \in Seq(Seq(SlipConst.Frames)) /\ Len(qs) = n + 1 /\ \A i \in 1 .. n + 1 : qs[i] = piece(packets'[i])
      <3>1. \A i \in 1 .. n + 1 : piece(packets'[i]) \in Seq(SlipConst.Frames)
        BY <2>2, <2>3
      <3>2. qs \in [1 .. n + 1 -> Seq(SlipConst.Frames)] /\ \A i \in 1 .. n + 1 : qs[i] = piece(packets'[i])
        BY <1>5, <3>1
      <3>3. n + 1 \in Nat
        BY <1>2
      <3> HIDE DEF qs, n
      <3> QED
        BY <3>2, <3>3, SeqOf
    <2> HIDE DEF ps, qs
    <2>6. (\A i \in 1 .. n : i \in 1 .. n + 1) /\ n <= n + 1
      BY <1>2
    <2>7. \A i \in 1 .. n : ps[i] = qs[i]
      BY <1>5, <2>4, <2>5, <2>6
    <2>8. \A i \in 0 .. n : S!Joined(ps)[i] = S!Joined(qs)[i]
      <3>1. n \in Nat /\ n <= Len(ps) /\ n <= Len(qs)
        BY <1>2, <2>4, <2>5, <2>6
      <3> HIDE DEF n
      <3> QED
        BY <2>4, <2>5, <2>7, <3>1, JoinedSame
    <2> QED
      BY <2>1, <2>8
  <1>12. \A p \in Seq(S!Bytes) : p \o uart = S!Wire[n] => p \o uart' = S!Wire'[Len(packets')]
    <2>1. TAKE p \in Seq(S!Bytes)
    <2>2. Assoc(p, uart, e)
      BY <1>2, <1>3, Associative
    <2> QED
      BY <1>4, <1>5, <1>10, <2>2 DEF Assoc
  <1>13. S!Position(k, D)'
    <2>1. S!Wire[k] \in Seq(S!Bytes)
      BY <1>2, WireFacts
    <2>2. CASE S!Between(k) /\ k + 1 \notin D
      <3>1. S!Wire'[k] \o uart' = S!Wire'[Len(packets')]
        BY <1>10, <1>12, <2>1, <2>2 DEF S!Between
      <3>2. S!Between(k)'
        BY <1>4, <2>2, <3>1 DEF S!Between
      <3> QED
        BY <2>2, <3>2 DEF S!Position
    <2>3. CASE ~(S!Between(k) /\ k + 1 \notin D)
      <3>1. PICK j \in 0 .. Len(packets[k + 1]) :
              k < n /\ S!Inside(k, j) /\ (k + 1 \notin D => S!Clean(packets[k + 1], j))
        BY <1>9, <2>3 DEF S!Position
      <3>2. k \in 0 .. n - 1 /\ k + 1 \in 1 .. n
        BY <1>2, <3>1
      <3>3. packets'[k + 1] = packets[k + 1] /\ k < Len(packets')
        BY <1>2, <1>5, <3>1, <3>2
      <3>4. S!Upto(k, j) \in Seq(S!Bytes)
        BY <1>2, <3>2, UptoFacts
      <3>5. S!Upto(k, j)' = S!Upto(k, j)
        BY <1>10, <3>3 DEF S!Upto
      <3>6. S!Upto(k, j) \o <<"ESC">> \in Seq(S!Bytes)
        <4>1. <<"ESC">> \in Seq(S!Bytes)
          BY OneOf DEF S!Bytes, S!Special
        <4> QED
          BY <3>4, <4>1, ConcatProperties
      <3>7. S!Inside(k, j)'
        <4>1. slip_state' = "NORMAL" => S!Upto(k, j)' \o uart' = S!Wire'[Len(packets')]
          BY <1>4, <1>12, <3>1, <3>4, <3>5 DEF S!Inside
        <4>2. slip_state' = "ESC" =>
                /\ j < Len(packets'[k + 1]) /\ Len(S!Escape(packets'[k + 1][j + 1])) = 2
                /\ (S!Upto(k, j)' \o <<"ESC">>) \o uart' = S!Wire'[Len(packets')]
          BY <1>4, <1>12, <3>1, <3>3, <3>5, <3>6 DEF S!Inside
        <4> QED
          BY <4>1, <4>2 DEF S!Inside
      <3>8. k + 1 \notin D => S!Clean(packets[k + 1], j)'
        BY <1>4, <3>1, <3>3 DEF S!Clean
      <3> QED
        BY <3>1, <3>3, <3>7, <3>8 DEF S!Position
    <2> QED
      BY <2>2, <2>3
  <1>14. S!CameOut(k, D, f)'
    <2>1. \A i \in 1 .. k : packets'[i] = packets[i]
      BY <1>2, <1>5
    <2>2. k \in Nat /\ Len(handed') \in Nat /\ Len(handed) <= Len(handed')
      BY <1>2, <1>4
    <2> QED
      BY <1>2, <1>4, <1>9, <2>1, <2>2, CameKeeps
  <1>15. sends' = 0 => handed' = S!Fitting'[k]
    BY <1>4, <1>9, <1>11
  <1>16. k \in 0 .. Len(packets') /\ f \in [1 .. k -> 0 .. Len(handed')] /\ S!Cardinality(D) <= sends'
    BY <1>2, <1>4, <1>5, <1>9
  <1> QED
    BY <1>7, <1>13, <1>14, <1>15, <1>16, Zenon DEF S!SlipInv

LEMMA GetBufKeeps ==
  ASSUME S!Bounds, S!SlipInv, S!GetBuf
  PROVE  S!SlipInv'
  <1> DEFINE n == Len(packets)
  <1>1. S!TypeOK
    BY DEF S!SlipInv
  <1>2. /\ n \in Nat /\ Len(handed) \in Nat /\ sends \in 0 .. SlipConst.Transmits /\ SlipConst.Transmits \in Nat
        /\ SlipConst.MTU \in Nat
    BY <1>1 DEF S!TypeOK, S!Bounds
  <1>3. /\ decoded' = <<>> /\ sends' = sends + 1 /\ sends < SlipConst.Transmits
        /\ slip_state' = slip_state /\ slip_overflow' = slip_overflow /\ uart' = uart /\ packets' = packets
        /\ handed' = handed
    BY DEF S!GetBuf
  <1>4. S!TypeOK'
    <2>1. decoded' \in Seq(S!Bytes) /\ Len(decoded') <= SlipConst.MTU
      BY <1>2, <1>3, EmptySeq
    <2>2. sends' \in 0 .. SlipConst.Transmits
      BY <1>2, <1>3
    <2> QED
      BY <1>1, <1>3, <2>1, <2>2 DEF S!TypeOK
  <1>5. PICK k \in 0 .. n : \E D \in SUBSET (1 .. k + 1), f \in [1 .. k -> 0 .. Len(handed)] :
          S!Cardinality(D) <= sends /\ S!CameOut(k, D, f) /\ (sends = 0 => handed = S!Fitting[k]) /\ S!Position(k, D)
    BY Zenon DEF S!SlipInv
  <1>6. PICK D \in SUBSET (1 .. k + 1), f \in [1 .. k -> 0 .. Len(handed)] :
          S!Cardinality(D) <= sends /\ S!CameOut(k, D, f) /\ (sends = 0 => handed = S!Fitting[k]) /\ S!Position(k, D)
    BY <1>5
  <1>7. S!Wire' = S!Wire /\ \A i, j : S!Upto(i, j)' = S!Upto(i, j)
    BY <1>3, SlipQuiet
  <1>8. IsFiniteSet(D) /\ Cardinality(D) \in Nat /\ Cardinality(D) <= sends
    <2>1. IsFiniteSet(1 .. k + 1)
      BY FS_Interval
    <2> QED
      BY <1>6, <2>1, FS_Subset, FS_CardinalityType, SlipCounts
  <1>9. k \in Nat /\ Len(handed) \in Nat /\ Len(handed') \in Nat /\ Len(handed) <= Len(handed') /\ sends' # 0
    BY <1>2, <1>3
  <1>10. CASE S!Between(k) /\ k + 1 \notin D
    <2>1. S!Between(k)'
      BY <1>3, <1>7, <1>10 DEF S!Between
    <2>2. S!Position(k, D)'
      BY <1>10, <2>1 DEF S!Position
    <2>3. S!CameOut(k, D, f)'
      BY <1>3, <1>6, <1>9, CameKeeps
    <2>4. k \in 0 .. Len(packets') /\ f \in [1 .. k -> 0 .. Len(handed')] /\ S!Cardinality(D) <= sends'
      BY <1>2, <1>3, <1>8, SlipCounts
    <2> QED
      BY <1>4, <1>9, <2>2, <2>3, <2>4, Zenon DEF S!SlipInv
  <1>11. CASE ~(S!Between(k) /\ k + 1 \notin D)
    <2>1. PICK j \in 0 .. Len(packets[k + 1]) : k < n /\ S!Inside(k, j)
      BY <1>6, <1>11 DEF S!Position
    <2>2. PICK E \in SUBSET (1 .. k + 1) : E = D \union {k + 1}
      <3>1. k + 1 \in 1 .. k + 1
        BY <1>9
      <3>2. D \union {k + 1} \in SUBSET (1 .. k + 1)
        BY <3>1
      <3> QED
        BY <3>2
    <2>3. S!Inside(k, j)'
      BY <1>3, <1>7, <2>1 DEF S!Inside
    <2>4. S!Position(k, E)'
      BY <1>3, <2>1, <2>2, <2>3 DEF S!Position
    <2>5. D \subseteq E
      BY <2>2
    <2>6. S!CameOut(k, E, f)'
      BY <1>3, <1>6, <1>9, <2>5, CameKeeps
    <2>7. S!Cardinality(E) <= sends'
      <3>1. Cardinality(E) = Cardinality(D) \/ Cardinality(E) = Cardinality(D) + 1
        BY <1>8, <2>2, FS_AddElement
      <3> QED
        BY <1>2, <1>3, <1>8, <3>1, SlipCounts
    <2>8. k \in 0 .. Len(packets') /\ f \in [1 .. k -> 0 .. Len(handed')]
      BY <1>3
    <2> QED
      BY <1>4, <1>9, <2>4, <2>6, <2>7, <2>8, Zenon DEF S!SlipInv
  <1> QED
    BY <1>10, <1>11

LEMMA SlipStarts ==
  ASSUME S!Bounds, S!Init
  PROVE  S!SlipInv
  <1>1. /\ slip_state = "NORMAL" /\ slip_overflow = FALSE /\ decoded = <<>> /\ uart = <<>> /\ packets = <<>>
        /\ handed = <<>> /\ sends = 0 /\ SlipConst.MTU \in Nat /\ SlipConst.Transmits \in Nat
    BY DEF S!Init, S!Bounds
  <1>2. S!TypeOK
    <2>1. decoded \in Seq(S!Bytes) /\ uart \in Seq(S!Bytes) /\ packets \in Seq(SlipConst.Frames)
          /\ handed \in Seq(Seq(S!Bytes))
      BY <1>1, EmptySeq
    <2>2. slip_state \in {"NORMAL", "ESC"} /\ slip_overflow \in BOOLEAN
      BY <1>1
    <2>3. Len(decoded) <= SlipConst.MTU /\ sends \in 0 .. SlipConst.Transmits
      BY <1>1
    <2> QED
      BY <2>1, <2>2, <2>3 DEF S!TypeOK
  <1>3. packets \in Seq(SlipConst.Frames) /\ Len(packets) = 0 /\ Len(handed) = 0
    BY <1>1, <1>2 DEF S!TypeOK
  <1>4. S!Wire[0] \in Seq(S!Bytes) /\ S!Wire[Len(packets)] = S!Wire[0] /\ S!Fitting[0] = <<>>
    BY <1>3, WireFacts, FittingFacts
  <1>5. S!Wire[0] \o uart = S!Wire[Len(packets)]
    BY <1>1, <1>4, ConcatEmptySeq
  <1>6. S!Between(0)
    BY <1>1, <1>5 DEF S!Between
  <1>7. PICK f : f \in [1 .. 0 -> 0 .. Len(handed)]
    <2>1. [i \in 1 .. 0 |-> 0] \in [1 .. 0 -> 0 .. Len(handed)]
      OBVIOUS
    <2> QED
      BY <2>1
  <1>8. S!Position(0, {}) /\ S!CameOut(0, {}, f)
    BY <1>6 DEF S!Position, S!CameOut
  <1>9. S!Cardinality({}) <= sends
    BY <1>1, SlipCounts, FS_EmptySet
  <1>10. 0 \in 0 .. Len(packets) /\ {} \in SUBSET (1 .. 0 + 1) /\ (sends = 0 => handed = S!Fitting[0])
    BY <1>1, <1>3, <1>4
  <1> QED
    BY <1>2, <1>7, <1>8, <1>9, <1>10, Zenon DEF S!SlipInv

LEMMA SlipKeeps ==
  ASSUME S!Bounds, S!SlipInv, S!Next \/ UNCHANGED S!vars
  PROVE  S!SlipInv'
  <1>1. CASE UNCHANGED S!vars
    <2>1. UNCHANGED <<slip_state, slip_overflow, decoded, uart, packets, handed, sends>>
      BY <1>1 DEF S!vars
    <2>2. S!TypeOK /\ S!TypeOK'
      BY <2>1 DEF S!SlipInv, S!TypeOK
    <2>3. PICK k \in 0 .. Len(packets) : \E D \in SUBSET (1 .. k + 1), f \in [1 .. k -> 0 .. Len(handed)] :
            S!Cardinality(D) <= sends /\ S!CameOut(k, D, f) /\ (sends = 0 => handed = S!Fitting[k]) /\ S!Position(k, D)
      BY Zenon DEF S!SlipInv
    <2>4. PICK D \in SUBSET (1 .. k + 1), f \in [1 .. k -> 0 .. Len(handed)] :
            S!Cardinality(D) <= sends /\ S!CameOut(k, D, f) /\ (sends = 0 => handed = S!Fitting[k]) /\ S!Position(k, D)
      BY <2>3
    <2>5. S!Wire' = S!Wire /\ \A i, j : S!Upto(i, j)' = S!Upto(i, j)
      BY <2>1, SlipQuiet
    <2>6. CASE S!Between(k) /\ k + 1 \notin D
      <3>1. S!Between(k)'
        BY <2>1, <2>5, <2>6 DEF S!Between
      <3>2. S!Position(k, D)'
        BY <2>6, <3>1 DEF S!Position
      <3> QED
        BY <2>1, <2>2, <2>4, <3>2, Settles
    <2>7. CASE ~(S!Between(k) /\ k + 1 \notin D)
      <3>1. PICK j \in 0 .. Len(packets[k + 1]) :
              k < Len(packets) /\ S!Inside(k, j) /\ (k + 1 \notin D => S!Clean(packets[k + 1], j))
        BY <2>4, <2>7 DEF S!Position
      <3>2. S!Inside(k, j)' /\ (k + 1 \notin D => S!Clean(packets[k + 1], j)')
        BY <2>1, <2>5, <3>1 DEF S!Inside, S!Clean
      <3>3. S!Position(k, D)'
        BY <2>1, <3>1, <3>2 DEF S!Position
      <3> QED
        BY <2>1, <2>2, <2>4, <3>3, Settles
    <2> QED
      BY <2>6, <2>7
  <1>2. CASE S!Next
    BY <1>2, SlipPollKeeps, PeerSendsKeeps, GetBufKeeps DEF S!Next
  <1> QED
    BY <1>1, <1>2

\* Nothing is left to read: the decoder is between two frames, after the last.
LEMMA AllRead ==
  ASSUME S!Bounds, S!TypeOK, uart = <<>>, NEW k \in 0 .. Len(packets), NEW D, S!Position(k, D)
  PROVE  k = Len(packets) /\ S!Between(k) /\ k + 1 \notin D
  <1> DEFINE n == Len(packets)
             w == S!Wire[Len(packets)]
  <1>1. packets \in Seq(SlipConst.Frames) /\ n \in Nat
    BY DEF S!TypeOK
  <1>2. n \in 0 .. n
    BY <1>1
  <1>3. w \in Seq(S!Bytes) /\ S!Wire[k] \in Seq(S!Bytes)
    BY <1>1, <1>2, WireFacts
  <1>4. ASSUME NEW p \in Seq(S!Bytes), NEW b \in S!Bytes, p \o uart = w, StartsWith(w, p \o <<b>>) PROVE FALSE
    <2>1. p = w
      BY <1>4, ConcatEmptySeq
    <2>2. Len(w \o <<b>>) = Len(w) + 1 /\ Len(w) \in Nat
      BY <1>3, OneOf, ConcatProperties
    <2> QED
      BY <1>4, <2>1, <2>2 DEF StartsWith
  <1>5. "END" \in S!Bytes /\ "ESC" \in S!Bytes
    BY DEF S!Bytes, S!Special
  <1>6. CASE S!Between(k) /\ k + 1 \notin D
    <2>1. CASE k # n
      <3>1. k \in 0 .. n - 1
        BY <1>1, <2>1
      <3>2. 0 \in 0 .. Len(packets[k + 1])
        BY <1>1, <3>1, UptoFacts
      <3>3. StartsWith(w, S!Wire[k] \o <<"END">>)
        BY <1>1, <3>1, <3>2, UptoFacts
      <3> QED
        BY <1>3, <1>4, <1>5, <1>6, <3>3 DEF S!Between
    <2> QED
      BY <1>6, <2>1
  <1>7. CASE ~(S!Between(k) /\ k + 1 \notin D)
    <2>1. PICK j \in 0 .. Len(packets[k + 1]) : k < n /\ S!Inside(k, j)
      BY <1>7 DEF S!Position
    <2>2. k \in 0 .. n - 1
      BY <1>1, <2>1
    <2> DEFINE pkt == packets[k + 1]
    <2>3. pkt \in Seq(S!Bytes) /\ Len(pkt) \in Nat /\ S!Upto(k, j) \in Seq(S!Bytes)
      BY <1>1, <2>2, UptoFacts
    <2>4. CASE slip_state = "NORMAL"
      <3>1. S!Upto(k, j) \o uart = w
        BY <2>1, <2>4 DEF S!Inside
      <3>2. CASE j = Len(pkt)
        <4>1. k + 1 \in 0 .. n
          BY <1>1, <2>2
        <4>2. StartsWith(w, S!Wire[k + 1])
          BY <1>1, <4>1, WireFacts
        <4>3. S!Wire[k + 1] = S!Upto(k, j) \o <<"END">>
          BY <1>1, <2>2, <3>2, UptoFacts
        <4> QED
          BY <1>4, <1>5, <2>3, <3>1, <4>2, <4>3
      <3>3. CASE j # Len(pkt)
        <4>1. j \in 0 .. Len(pkt) - 1 /\ j + 1 \in 0 .. Len(pkt) /\ j + 1 \in 1 .. Len(pkt)
          BY <2>3, <3>3
        <4>2. S!Upto(k, j + 1) = S!Upto(k, j) \o S!Escape(pkt[j + 1]) /\ S!Upto(k, j + 1) \in Seq(S!Bytes)
              /\ StartsWith(w, S!Upto(k, j + 1))
          BY <1>1, <2>2, <4>1, UptoFacts
        <4>3. pkt[j + 1] \in S!Bytes
          BY <2>3, <4>1
        <4>4. S!Escape(pkt[j + 1]) \in Seq(S!Bytes) /\ Len(S!Escape(pkt[j + 1])) > 0
          BY <4>3, EscapeFacts
        <4>5. S!Upto(k, j) = w
          BY <2>3, <3>1, ConcatEmptySeq
        <4>6. PICK e \in Seq(S!Bytes) : e = S!Escape(pkt[j + 1]) /\ Len(e) > 0
          BY <4>4
        <4>7. StartsWith(w, w \o e)
          BY <4>2, <4>5, <4>6
        <4>8. Len(w \o e) = Len(w) + Len(e) /\ Len(w) \in Nat /\ Len(e) \in Nat
          BY <1>3, ConcatProperties
        <4>9. Len(w \o e) <= Len(w)
          BY <4>7 DEF StartsWith
        <4> HIDE DEF w
        <4> QED
          BY <4>6, <4>8, <4>9
      <3> QED
        BY <3>2, <3>3
    <2>5. CASE slip_state = "ESC"
      <3>1. j < Len(pkt) /\ Len(S!Escape(pkt[j + 1])) = 2 /\ (S!Upto(k, j) \o <<"ESC">>) \o uart = w
        BY <2>1, <2>5 DEF S!Inside
      <3>2. j \in 0 .. Len(pkt) - 1 /\ j + 1 \in 0 .. Len(pkt) /\ j + 1 \in 1 .. Len(pkt)
        BY <2>3, <3>1
      <3>3. S!Upto(k, j + 1) = S!Upto(k, j) \o S!Escape(pkt[j + 1]) /\ StartsWith(w, S!Upto(k, j + 1))
        BY <1>1, <2>2, <3>2, UptoFacts
      <3>4. pkt[j + 1] \in S!Bytes
        BY <2>3, <3>2
      <3>5. PICK c \in S!Bytes : S!Escape(pkt[j + 1]) = <<"ESC">> \o <<c>>
        <4>1. PICK b \in S!Bytes : b = pkt[j + 1]
          BY <3>4
        <4>2. Len(S!Escape(b)) # 1
          <5>1. Len(S!Escape(b)) = 2
            BY <3>1, <4>1, Zenon
          <5> QED
            BY <5>1
        <4>3. \E c \in S!Bytes : S!Escape(b) = <<"ESC">> \o <<c>>
          BY <4>2, EscapeFacts
        <4> QED
          BY <4>1, <4>3
      <3>6. <<"ESC">> \in Seq(S!Bytes) /\ <<c>> \in Seq(S!Bytes)
        BY <1>5, OneOf
      <3>7. S!Upto(k, j) \o <<"ESC">> \in Seq(S!Bytes)
        BY <2>3, <3>6, ConcatProperties
      <3>8. Assoc(S!Upto(k, j), <<"ESC">>, <<c>>)
        BY <2>3, <3>6, Associative
      <3>9. StartsWith(w, (S!Upto(k, j) \o <<"ESC">>) \o <<c>>)
        BY <3>3, <3>5, <3>8 DEF Assoc
      <3> QED
        BY <1>4, <3>1, <3>7, <3>9
    <2> QED
      BY <2>4, <2>5 DEF S!TypeOK
  <1> QED
    BY <1>6, <1>7

LEMMA FramesTransparent ==
  ASSUME S!Bounds, S!SlipInv
  PROVE  S!Transparent
  <1>1. PICK k \in 0 .. Len(packets) : \E D \in SUBSET (1 .. k + 1) :
          (sends = 0 => handed = S!Fitting[k]) /\ S!Position(k, D)
    BY Zenon DEF S!SlipInv
  <1>2. PICK D \in SUBSET (1 .. k + 1) : (sends = 0 => handed = S!Fitting[k]) /\ S!Position(k, D)
    BY <1>1
  <1>3. S!TypeOK /\ packets \in Seq(SlipConst.Frames) /\ Len(packets) \in Nat
    BY DEF S!SlipInv, S!TypeOK
  <1> DEFINE all == S!Fitting[Len(packets)]
  <1>4. SUFFICES ASSUME sends = 0
                 PROVE  /\ Len(handed) <= Len(all) /\ handed = SubSeq(all, 1, Len(handed))
                        /\ uart = <<>> => handed = all /\ decoded = <<>> /\ slip_state = "NORMAL"
    BY DEF S!Transparent
  <1>5. all \in Seq(SlipConst.Frames) /\ handed \in Seq(SlipConst.Frames) /\ StartsWith(all, handed)
    <2>1. Len(packets) \in 0 .. Len(packets)
      BY <1>3
    <2> QED
      BY <1>2, <1>3, <1>4, <2>1, FittingFacts
  <1>6. uart = <<>> => handed = all /\ decoded = <<>> /\ slip_state = "NORMAL"
    BY <1>2, <1>3, <1>4, AllRead DEF S!Between
  <1> HIDE DEF all, handed
  <1>7. Len(handed) <= Len(all) /\ handed = SubSeq(all, 1, Len(handed))
    BY <1>5, StartIs
  <1> QED
    BY <1>6, <1>7

\* Counting: the elements of a finite set of numbers, in their order.
Rank(I, x) == Cardinality({i \in I : i <= x})
LEMMA Ranks ==
  ASSUME NEW n \in Nat, NEW I \in SUBSET (1 .. n)
  PROVE  /\ IsFiniteSet(I) /\ Cardinality(I) \in Nat
         /\ \A m \in 1 .. Cardinality(I) : \E j \in I : Rank(I, j) = m
         /\ \A i, j \in I : i <= j => Rank(I, i) <= Rank(I, j)
  <1> DEFINE upto(x) == {i \in I : i <= x}
  <1>0. \A i \in I : i \in Nat /\ 1 <= i /\ i <= n
    OBVIOUS
  <1>1. IsFiniteSet(I)
    <2>1. IsFiniteSet(1 .. n)
      BY FS_Interval
    <2> QED
      BY <2>1, FS_Subset
  <1>2. \A x : IsFiniteSet(upto(x)) /\ Rank(I, x) \in Nat
    <2>1. \A x : upto(x) \subseteq I
      OBVIOUS
    <2> QED
      BY <1>1, <2>1, FS_Subset, FS_CardinalityType DEF Rank
  <1>3. ASSUME NEW x \in Nat, NEW y \in Nat, x <= y PROVE Rank(I, x) <= Rank(I, y)
    <2>0. \A i \in I : i <= x => i <= y
      BY <1>0, <1>3
    <2>1. upto(x) \subseteq upto(y)
      BY <2>0, Zenon
    <2> QED
      BY <1>2, <2>1, FS_Subset DEF Rank
  <1>4. Rank(I, n) = Cardinality(I)
    <2>1. upto(n) = I
      BY <1>0, Zenon
    <2> QED
      BY <2>1 DEF Rank
  <1>5. Rank(I, 0) = 0
    <2>0. \A i \in I : ~(i <= 0)
      BY <1>0
    <2>1. upto(0) = {}
      BY <2>0, Zenon
    <2> QED
      BY <2>1, FS_EmptySet DEF Rank
  <1>6. ASSUME NEW x \in 1 .. n
        PROVE  IF x \in I THEN Rank(I, x) = Rank(I, x - 1) + 1 ELSE Rank(I, x) = Rank(I, x - 1)
    <2>1. CASE x \in I
      <3>0. /\ \A i \in I : i <= x <=> (i <= x - 1 \/ i = x)
            /\ ~(x <= x - 1)
        BY <1>0
      <3>1. upto(x) = upto(x - 1) \union {x} /\ x \notin upto(x - 1)
        BY <2>1, <3>0, Zenon
      <3>2. IsFiniteSet(upto(x - 1))
        BY <1>2
      <3> QED
        BY <2>1, <3>1, <3>2, FS_AddElement DEF Rank
    <2>2. CASE x \notin I
      <3>0. \A i \in I : i # x
        BY <2>2
      <3>2. \A i \in I : i <= x <=> i <= x - 1
        BY <1>0, <3>0
      <3>1. upto(x) = upto(x - 1)
        BY <3>2, Zenon
      <3> QED
        BY <2>2, <3>1 DEF Rank
    <2> QED
      BY <2>1, <2>2
  <1>7. ASSUME NEW m \in 1 .. Cardinality(I) PROVE \E j \in I : Rank(I, j) = m
    <2> DEFINE high == {x \in 0 .. n : Rank(I, x) >= m}
    <2>1. high \in SUBSET Nat /\ n \in high
      BY <1>2, <1>4, <1>7
    <2>2. PICK j \in high : \A x \in high : j <= x
      BY <2>1, H!LeastOfSome
    <2>3. j \in 0 .. n /\ Rank(I, j) >= m /\ j # 0
      BY <1>5, <1>7, <2>2
    <2>4. j \in 1 .. n /\ j - 1 \in 0 .. n /\ ~(j <= j - 1)
      BY <2>3
    <2>5. ~(Rank(I, j - 1) >= m)
      BY <2>2, <2>4
    <2>6. Rank(I, j) \in Nat /\ Rank(I, j - 1) \in Nat
      BY <1>2
    <2> QED
      BY <1>6, <2>3, <2>4, <2>5, <2>6
  <1>8. \A i, j \in I : i <= j => Rank(I, i) <= Rank(I, j)
    BY <1>3
  <1>9. Cardinality(I) \in Nat
    BY <1>1, FS_CardinalityType
  <1> QED
    BY <1>1, <1>7, <1>8, <1>9

LEMMA LossLocal ==
  ASSUME S!Bounds, S!SlipInv
  PROVE  S!LossIsLocal
  <1>1. SUFFICES ASSUME uart = <<>>
                 PROVE  \E D \in SUBSET (1 .. Len(packets)) :
                          S!Cardinality(D) <= sends /\ S!Within(S!Remaining(D), handed)
    BY DEF S!LossIsLocal
  <1>2. S!TypeOK /\ packets \in Seq(SlipConst.Frames) /\ Len(packets) \in Nat /\ Len(handed) \in Nat
    BY DEF S!SlipInv, S!TypeOK
  <1>3. PICK k \in 0 .. Len(packets) : \E D \in SUBSET (1 .. k + 1), f \in [1 .. k -> 0 .. Len(handed)] :
          S!Cardinality(D) <= sends /\ S!CameOut(k, D, f) /\ S!Position(k, D)
    BY Zenon DEF S!SlipInv
  <1>4. PICK D \in SUBSET (1 .. k + 1), f \in [1 .. k -> 0 .. Len(handed)] :
          S!Cardinality(D) <= sends /\ S!CameOut(k, D, f) /\ S!Position(k, D)
    BY <1>3
  <1>5. k = Len(packets) /\ k + 1 \notin D
    BY <1>1, <1>2, <1>4, AllRead DEF S!Position
  <1>6. D \in SUBSET (1 .. Len(packets))
    BY <1>2, <1>5
  <1> DEFINE I == {j \in 1 .. Len(packets) : S!Fits(packets[j]) /\ j \notin D}
             rank(j) == S!Cardinality({i \in I : i <= j})
             nth == [n \in 1 .. S!Cardinality(I) |-> CHOOSE j \in I : S!Cardinality({i \in I : i <= j}) = n]
             c == S!Cardinality(I)
             s == S!Remaining(D)
             g == [n \in 1 .. c |-> f[nth[n]]]
  <1>7. s = [n \in DOMAIN nth |-> packets[nth[n]]]
    BY DEF S!Remaining
  <1>8. /\ c \in Nat /\ (\A m \in 1 .. c : \E j \in I : rank(j) = m)
        /\ \A i, j \in I : i <= j => rank(i) <= rank(j)
    <2>1. I \in SUBSET (1 .. Len(packets))
      OBVIOUS
    <2> HIDE DEF I
    <2>2. c = Cardinality(I) /\ \A j : rank(j) = Rank(I, j)
      BY SlipCounts DEF Rank
    <2>3. /\ Cardinality(I) \in Nat
          /\ \A m \in 1 .. Cardinality(I) : \E j \in I : Rank(I, j) = m
          /\ \A i, j \in I : i <= j => Rank(I, i) <= Rank(I, j)
      BY <1>2, <2>1, Ranks
    <2> HIDE DEF rank
    <2>4. c \in Nat
      BY <2>2, <2>3
    <2>5. \A m \in 1 .. c : \E j \in I : rank(j) = m
      BY <2>2, <2>3
    <2>6. \A i, j \in I : i <= j => rank(i) <= rank(j)
      BY <2>2, <2>3
    <2> QED
      BY <2>4, <2>5, <2>6
  <1>9. \A n \in 1 .. c : nth[n] \in I /\ rank(nth[n]) = n
    BY <1>8
  <1>10. \A i \in I : i \in 1 .. Len(packets) /\ f[i] \in 1 .. Len(handed) /\ handed[f[i]] = packets[i]
                      /\ \A m \in I : m < i => f[m] < f[i]
    <2>1. TAKE i \in I
    <2>2. i \in (1 .. k) \ D /\ S!Fits(packets[i])
      BY <1>5
    <2>3. S!Came(i, D, f)
      BY <1>4, <2>2 DEF S!CameOut
    <2>4. ASSUME NEW m \in I, m < i PROVE m \in (1 .. i - 1) \ D /\ S!Fits(packets[m])
      BY <2>2, <2>4
    <2> QED
      BY <1>5, <2>2, <2>3, <2>4 DEF S!Came
  <1>11. DOMAIN nth = 1 .. c
    OBVIOUS
  <1> HIDE DEF I, nth, c, rank, s
  <1>12. Len(s) = c /\ \A n \in 1 .. c : s[n] = packets[nth[n]]
    BY <1>7, <1>8, <1>11
  <1>13. g \in [1 .. c -> 1 .. Len(handed)] /\ \A n \in 1 .. c : s[n] = handed[g[n]]
    BY <1>9, <1>10, <1>12
  <1>14. ASSUME NEW a \in 1 .. c, NEW b \in 1 .. c, a < b PROVE g[a] < g[b]
    <2>1. nth[a] \in I /\ nth[b] \in I /\ rank(nth[a]) = a /\ rank(nth[b]) = b
      BY <1>9
    <2>2. nth[a] \in 1 .. Len(packets) /\ nth[b] \in 1 .. Len(packets)
      BY <1>10, <2>1
    <2>3. ~(nth[b] <= nth[a])
      BY <1>8, <1>14, <2>1
    <2>4. nth[a] < nth[b]
      BY <1>2, <2>2, <2>3
    <2> QED
      BY <1>10, <2>1, <2>4
  <1> HIDE DEF g
  <1>15. S!Within(s, handed)
    BY <1>12, <1>13, <1>14 DEF S!Within
  <1> QED
    BY <1>4, <1>6, <1>15 DEF s

\* Whatever bytes the packets of the peer hold, the decoder hands them to ipv4_input
\* whole, once and in order; a transmission of this host in the middle of a frame
\* costs that frame and no other, whatever state it leaves the decoder in.
THEOREM FramesComeWhole == Spec => []FramesIntact
  <1> DEFINE Safe == scenario = "slip" => S!SlipInv
  <1>1. Init => Safe
    BY InitOfPart, SlipStarts, ServiceBounds
  <1>2. Safe /\ [Next]_vars => Safe'
    BY StepOfPart, SlipKeeps, ServiceBounds
  <1>3. Safe => FramesIntact
    BY FramesTransparent, LossLocal, ServiceBounds DEF FramesIntact
  <1> QED
    BY <1>1, <1>2, <1>3, PTL DEF Spec
==============================================================================
