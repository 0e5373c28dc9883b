-------------------------------- MODULE Mqtt --------------------------------
(***************************************************************************)
(* The MQTT 3.1.1 client: net/mqtt/tiku_kits_net_mqtt.c.                   *)
(*                                                                         *)
(* TCP and TLS are external: connections come up, end, deliver the         *)
(* broker's bytes in order cut anywhere, and may take all, a part or none  *)
(* of a packet.  The application calls the API between events and from     *)
(* inside its callbacks; in_cb is the callback that runs, rest the bytes   *)
(* of the present read that mqtt_feed_data has still to feed.              *)
(***************************************************************************)
EXTENDS Integers, Sequences, SequencesExt, FiniteSets, FiniteSetsExt, SequenceTheorems, TLAPS

CONSTANTS
  Conns, NULL,      \* TCP connection slots
  TLS,              \* TIKU_KITS_NET_MQTT_TLS_ENABLE
  MAX_INFLIGHT,     \* entries of the in-flight table
  IdSpace,          \* values of a packet identifier (65536)
  RX_BUF_SIZE, CHUNK,  \* the receive buffer, and one read (64)
  KEEPALIVE, PING_TIMEOUT, CONNECT_TIMEOUT,  \* in periods of mqtt_periodic
  BrokerPackets,    \* packets the broker may write
  CallsInCallback,  \* whether callbacks call the API
  MaxConnects, MaxIn, MaxIds  \* bounds: sessions, broker packets, packet ids

Octets == 0 .. 255
ASSUME SizesAssumption ==
  /\ NULL \notin Conns /\ MAX_INFLIGHT \in Nat /\ IdSpace \in Nat \ {0, 1} /\ RX_BUF_SIZE \in Nat
  /\ KEEPALIVE \in Nat \ {0} /\ PING_TIMEOUT \in Nat \ {0} /\ CONNECT_TIMEOUT \in Nat \ {0}
\* Bound: the broker's packets have lengths of one or two bytes.
ASSUME PacketsAssumption ==
  \A p \in BrokerPackets : /\ p \in [type : 0 .. 15, flags : 0 .. 15, body : Seq(Octets)]
                            /\ Len(p.body) < 16384

VARIABLES
  state, tcp, tls,  \* mqtt_ctx
  parser,           \* mqtt_parser, with the buffered bytes as body
  inflight,         \* packet ids of the active entries, by slot; 0 if inactive
  next_packet_id, ping_pending,
  connect_age, send_age, ping_age,  \* time since connect_time, last_send_time, ping_send_time
  conn,             \* state of each TCP slot
  pipe,             \* the broker's bytes that have not arrived
  rest, in_cb,
  told,             \* what the application believes: "over" or "live"
  peer, seen,       \* packets the broker wrote, packets dispatched, this connection
  pending,          \* ids of whole requests on the wire and not acknowledged, 0 for a PINGREQ
  ids, connects     \* bounds
ctx == <<state, tcp, tls>>
ages == <<connect_age, send_age, ping_age>>
ghosts == <<told, peer, seen, pending, ids, connects>>
vars == <<ctx, parser, inflight, next_packet_id, ping_pending, ages, conn, pipe, rest, in_cb, ghosts>>

Slots == 1 .. MAX_INFLIGHT
NoCb == -1   \* in_cb: no callback runs; n >= 0: one runs, and PUBACK n follows if n > 0
Connecting == {"TCP_CONNECTING", "TLS_CONNECTING", "CONNECTING"}
Idle == in_cb = NoCb /\ rest = <<>>
\* The application runs: in a process of its own, or in a callback.
App == IF CallsInCallback THEN in_cb # NoCb \/ rest = <<>> ELSE Idle

ParserFresh == [phase |-> "TYPE", type |-> 0, flags |-> 0, len |-> 0, mult |-> 1, body |-> <<>>]

Init ==
  /\ state = "DISCONNECTED" /\ tcp = NULL /\ tls = NULL
  /\ parser = ParserFresh /\ inflight = [s \in Slots |-> 0] /\ next_packet_id = 0
  /\ ping_pending = FALSE /\ connect_age = 0 /\ send_age = 0 /\ ping_age = 0
  /\ conn = [c \in Conns |-> "FREE"] /\ pipe = [c \in Conns |-> <<>>] /\ rest = <<>> /\ in_cb = NoCb
  /\ told = "over" /\ peer = <<>> /\ seen = <<>> /\ pending = {}
  /\ ids = 0 /\ connects = 0

(***************************************************************************)
(* The transport.                                                          *)
(***************************************************************************)
\* mqtt_send_raw: "ok", or "none" for an error, which a packet written in part is
\* too.  Without an established connection nothing is sent.
Results == {"ok", "none"}
SendRaw(r) ==
  /\ r # "none" => tcp # NULL /\ conn[tcp] = "ESTABLISHED"
  /\ send_age' = IF r = "ok" THEN 0 ELSE send_age

\* The packet builders: a packet too large for mqtt_tx_buf is not sent.
SendPacket(r) == SendRaw(r)

\* The connection is given up: mqtt_abort_transport, or TCP has ended it.
abort_transport == IF tcp = NULL THEN conn ELSE [conn EXCEPT ![tcp] = "FREE"]
\* mqtt_close_transport: a connection that is up goes through the FIN exchange.
close_transport ==
  IF tcp = NULL THEN conn
  ELSE [conn EXCEPT ![tcp] = IF @ = "ESTABLISHED" THEN "CLOSING" ELSE "FREE"]

\* The session is over and the application is told.
Over(conns) ==
  /\ state' = "DISCONNECTED" /\ tcp' = NULL /\ tls' = NULL /\ conn' = conns
  /\ told' = "over" /\ in_cb' = 0

(***************************************************************************)
(* API.                                                                    *)
(***************************************************************************)
Connect(c) ==
  /\ App /\ state = "DISCONNECTED"
  /\ connects < MaxConnects /\ connects' = connects + 1
  /\ parser' = ParserFresh /\ inflight' = [s \in Slots |-> 0] /\ ping_pending' = FALSE
  /\ connect_age' = 0
  /\ IF c = NULL
     THEN UNCHANGED <<ctx, conn, told>>
     ELSE /\ conn[c] = "FREE" /\ conn' = [conn EXCEPT ![c] = "SYN_SENT"]
          /\ state' = "TCP_CONNECTING" /\ tcp' = c /\ tls' = tls /\ told' = "live"
  /\ pending' = {} /\ peer' = <<>> /\ seen' = <<>>
  /\ pipe' = [d \in Conns |-> <<>>]
  /\ UNCHANGED <<next_packet_id, send_age, ping_age, rest, in_cb, ids>>

Disconnect(r) ==
  /\ App /\ state # "DISCONNECTED"
  /\ IF state = "CONNECTED" THEN SendPacket(r) ELSE r = "none" /\ UNCHANGED send_age
  /\ conn' = close_transport
  /\ state' = "DISCONNECTED" /\ tcp' = NULL /\ tls' = NULL /\ told' = "over"
  /\ UNCHANGED <<parser, inflight, next_packet_id, ping_pending, connect_age, ping_age, pipe, rest,
                 in_cb, peer, seen, pending, ids, connects>>

alloc_packet_id_wraps == (next_packet_id + 1) % IdSpace
alloc_packet_id == LET n == (next_packet_id + 1) % IdSpace IN IF n = 0 THEN 1 ELSE n

\* A QoS 1 publish, a subscribe or an unsubscribe: the entry is made, then the
\* packet is built and sent.
Request(r) ==
  /\ App /\ state = "CONNECTED"
  /\ ids < MaxIds /\ ids' = ids + 1
  /\ \E s \in Slots :
       /\ inflight[s] = 0 /\ \A t \in 1 .. s - 1 : inflight[t] # 0
       /\ inflight' = [inflight EXCEPT ![s] = alloc_packet_id]
  /\ next_packet_id' = alloc_packet_id
  /\ SendPacket(r)
  /\ pending' = IF r = "ok" THEN pending \cup {alloc_packet_id} ELSE pending
  /\ UNCHANGED <<ctx, parser, ping_pending, connect_age, ping_age, conn, pipe, rest, in_cb,
                 told, peer, seen, connects>>

PublishQos0(r) ==
  /\ App /\ state = "CONNECTED"
  /\ SendPacket(r)
  /\ UNCHANGED <<ctx, parser, inflight, next_packet_id, ping_pending, connect_age, ping_age, conn,
                 pipe, rest, in_cb, told, peer, seen, pending, ids, connects>>

(***************************************************************************)
(* mqtt_tcp_event_cb and mqtt_tls_event_cb.  Neither looks at which        *)
(* connection the event is about.                                          *)
(***************************************************************************)
\* The connection is up: the TLS handshake, or CONNECT, is started on the
\* connection the session holds.
Connected(c, r) ==
  /\ Idle /\ conn[c] = "SYN_SENT"
  /\ LET up == [conn EXCEPT ![c] = "ESTABLISHED"] IN
     IF r = "ok"
     THEN /\ tcp = c /\ conn' = up
          /\ state' = (IF TLS THEN "TLS_CONNECTING" ELSE "CONNECTING")
          /\ tls' = (IF TLS THEN tcp ELSE tls)
          /\ connect_age' = (IF TLS THEN connect_age ELSE 0)
          /\ send_age' = (IF TLS THEN send_age ELSE 0)
          /\ UNCHANGED <<tcp, told, in_cb>>
     ELSE /\ r = "none"
          /\ Over(IF tcp = NULL THEN up ELSE [up EXCEPT ![tcp] = "FREE"])
          /\ UNCHANGED <<connect_age, send_age>>
  /\ UNCHANGED <<parser, inflight, next_packet_id, ping_pending, ping_age, pipe, rest,
                 peer, seen, pending, ids, connects>>

TlsConnected(r) ==
  /\ Idle /\ tls # NULL /\ state = "TLS_CONNECTING"
  /\ IF r = "ok"
     THEN /\ SendPacket(r) /\ state' = "CONNECTING" /\ connect_age' = 0
          /\ UNCHANGED <<tcp, tls, conn, told, in_cb>>
     ELSE r = "none" /\ Over(abort_transport) /\ UNCHANGED <<connect_age, send_age>>
  /\ UNCHANGED <<parser, inflight, next_packet_id, ping_pending, ping_age, pipe, rest,
                 peer, seen, pending, ids, connects>>

\* How a connection ends: the peer's FIN leaves it half open until the idle
\* limit; a reset, a timeout or the end of our own close frees it.
EndsAs(c) == {"FREE"} \cup (IF conn[c] = "ESTABLISHED" THEN {"CLOSE_WAIT"} ELSE {})

Ended_untold(c, e) ==
  /\ Idle /\ conn[c] # "FREE" /\ e \in EndsAs(c)
  /\ conn' = [conn EXCEPT ![c] = e]
  /\ state' = "DISCONNECTED" /\ tcp' = NULL /\ tls' = NULL
  /\ pipe' = [pipe EXCEPT ![c] = <<>>]
  /\ UNCHANGED <<told, in_cb, parser, inflight, next_packet_id, ping_pending, ages, rest,
                 peer, seen, pending, ids, connects>>
Ended(c, e) ==
  /\ Idle /\ conn[c] # "FREE" /\ e \in EndsAs(c)
  /\ IF state = "DISCONNECTED"
     THEN conn' = [conn EXCEPT ![c] = e] /\ UNCHANGED <<ctx, told, in_cb>>
     ELSE Over([conn EXCEPT ![c] = e])
  /\ pipe' = [pipe EXCEPT ![c] = <<>>]
  /\ UNCHANGED <<parser, inflight, next_packet_id, ping_pending, ages, rest,
                 peer, seen, pending, ids, connects>>

(***************************************************************************)
(* The incremental parser and the packet handlers.                         *)
(***************************************************************************)
\* mqtt_tcp_recv_cb: n bytes have arrived and are read.
Arrive(n) ==
  /\ Idle /\ tcp # NULL /\ conn[tcp] = "ESTABLISHED" /\ n \in 1 .. Len(pipe[tcp])
  /\ rest' = SubSeq(pipe[tcp], 1, n)
  /\ pipe' = [pipe EXCEPT ![tcp] = SubSeq(@, n + 1, Len(@))]
  /\ UNCHANGED <<ctx, parser, inflight, next_packet_id, ping_pending, ages, conn, in_cb, ghosts>>

\* mqtt_parser_feed_byte; a complete packet is left in phase "DONE".
LengthByte_zero_waits(p, b) ==
  LET len == (p.len + (b % 128) * p.mult) % 65536
      q == [p EXCEPT !.len = len, !.mult = (@ * 128) % 65536]
  IN  IF b >= 128 THEN q
      ELSE IF len > RX_BUF_SIZE THEN ParserFresh
      ELSE [q EXCEPT !.phase = "PAYLOAD", !.body = <<>>]
LengthByte(p, b) ==
  LET len == (p.len + (b % 128) * p.mult) % 65536
      q == [p EXCEPT !.len = len, !.mult = (@ * 128) % 65536]
  IN  IF b >= 128 THEN q
      ELSE IF len = 0 THEN [q EXCEPT !.phase = "DONE"]
      ELSE IF len > RX_BUF_SIZE THEN ParserFresh
      ELSE [q EXCEPT !.phase = "PAYLOAD", !.body = <<>>]
FeedByte(p, b) ==
  CASE p.phase = "TYPE" ->
         [ParserFresh EXCEPT !.phase = "REMAINING", !.type = b \div 16, !.flags = b % 16]
    [] p.phase = "REMAINING" -> LengthByte(p, b)
    [] p.phase = "PAYLOAD" ->
         [p EXCEPT !.body = Append(@, b), !.phase = IF Len(p.body) + 1 >= p.len THEN "DONE" ELSE @]

Word(body, i) == body[i] * 256 + body[i + 1]

handle_connack(p) ==
  IF state # "CONNECTING" \/ p.len < 2
  THEN UNCHANGED <<ctx, conn, told, in_cb, ping_pending, send_age>>
  ELSE IF p.body[2] = 0
  THEN /\ state' = "CONNECTED" /\ send_age' = 0 /\ ping_pending' = FALSE /\ in_cb' = 0
       /\ UNCHANGED <<tcp, tls, conn, told>>
  ELSE Over(abort_transport) /\ UNCHANGED <<ping_pending, send_age>>

\* The message goes to msg_cb; the acknowledgment of a QoS 1 message follows.
handle_publish(p) ==
  LET qos == (p.flags \div 2) % 4
      after == 2 + Word(p.body, 1)
  IN  /\ in_cb' = IF \/ state # "CONNECTED" \/ p.len < 2 \/ qos > 1 \/ after > p.len
                     \/ qos = 1 /\ after + 2 > p.len
                  THEN NoCb
                  ELSE IF qos = 1 THEN Word(p.body, after + 1) ELSE 0
      /\ UNCHANGED <<ctx, conn, told, ping_pending, send_age>>

\* PUBACK, SUBACK, UNSUBACK.
acks == [t \in {4, 9, 11} |-> IF t = 9 THEN 3 ELSE 2]
inflight_remove(id) ==
  LET held == {s \in Slots : inflight[s] # 0 /\ inflight[s] = id} IN
  IF held = {} THEN inflight ELSE [inflight EXCEPT ![Min(held)] = 0]

\* mqtt_feed_data, one byte of it, with mqtt_process_packet.
Feed ==
  /\ in_cb = NoCb /\ rest # <<>> /\ state # "DISCONNECTED"
  /\ rest' = Tail(rest)
  /\ LET p == FeedByte(parser, Head(rest)) IN
     IF p.phase # "DONE"
     THEN /\ parser' = p
          /\ UNCHANGED <<ctx, conn, told, in_cb, ping_pending, send_age, inflight, pending, seen>>
     ELSE /\ parser' = ParserFresh
          /\ seen' = Append(seen, [type |-> p.type, flags |-> p.flags, body |-> p.body])
          /\ CASE p.type = 2 -> handle_connack(p) /\ UNCHANGED <<inflight, pending>>
               [] p.type = 3 -> handle_publish(p) /\ UNCHANGED <<inflight, pending>>
               [] p.type \in DOMAIN acks /\ p.len >= acks[p.type] ->
                    /\ inflight' = inflight_remove(Word(p.body, 1))
                    /\ pending' = pending \ {Word(p.body, 1)}
                    /\ in_cb' = 0
                    /\ UNCHANGED <<ctx, conn, told, ping_pending, send_age>>
               [] p.type = 13 ->
                    /\ ping_pending' = FALSE
                    /\ UNCHANGED <<ctx, conn, told, in_cb, send_age, inflight, pending>>
               [] OTHER -> UNCHANGED <<ctx, conn, told, in_cb, ping_pending, send_age, inflight, pending>>
  /\ UNCHANGED <<next_packet_id, connect_age, ping_age, pipe, peer, ids, connects>>

\* A session that has ended takes no more of what was read.
FeedStops ==
  /\ in_cb = NoCb /\ rest # <<>> /\ state = "DISCONNECTED"
  /\ rest' = <<>>
  /\ UNCHANGED <<ctx, parser, inflight, next_packet_id, ping_pending, ages, conn, pipe, in_cb, ghosts>>

\* The callback returns; mqtt_send_puback.
Return(r) ==
  /\ in_cb # NoCb /\ in_cb' = NoCb
  /\ IF in_cb > 0 THEN SendPacket(r) ELSE r = "none" /\ UNCHANGED send_age
  /\ UNCHANGED <<ctx, parser, inflight, next_packet_id, ping_pending, connect_age, ping_age, conn,
                 pipe, rest, told, peer, seen, pending, ids, connects>>

(***************************************************************************)
(* tiku_kits_net_mqtt_periodic, once a period.                             *)
(***************************************************************************)
Older(age, limit) == IF age < limit THEN age + 1 ELSE age

TimedOut_connected_only(connecting, waiting) ==
  state = "CONNECTED" /\ ping_pending /\ waiting >= PING_TIMEOUT
TimedOut_connecting_only(connecting, waiting) ==
  state \in Connecting /\ connecting >= CONNECT_TIMEOUT
TimedOut(connecting, waiting) ==
  \/ state \in Connecting /\ connecting >= CONNECT_TIMEOUT
  \/ state = "CONNECTED" /\ ping_pending /\ waiting >= PING_TIMEOUT

Periodic(r) ==
  /\ Idle /\ state # "DISCONNECTED"
  /\ LET connecting == Older(connect_age, CONNECT_TIMEOUT)
         silent == Older(send_age, KEEPALIVE)
         waiting == Older(ping_age, PING_TIMEOUT)
     IN  /\ connect_age' = connecting
         /\ IF TimedOut(connecting, waiting)
            THEN /\ r = "none" /\ Over(abort_transport)
                 /\ send_age' = silent /\ ping_age' = waiting /\ UNCHANGED <<ping_pending, pending>>
            ELSE IF state = "CONNECTED" /\ ~ping_pending /\ silent >= KEEPALIVE
            THEN /\ r = "ok" => conn[tcp] = "ESTABLISHED"
                 /\ send_age' = (IF r = "ok" THEN 0 ELSE silent)
                 /\ ping_pending' = TRUE /\ ping_age' = 0
                 /\ pending' = (IF r = "ok" THEN pending \cup {0} ELSE pending)
                 /\ UNCHANGED <<ctx, conn, told, in_cb>>
            ELSE /\ r = "none"
                 /\ send_age' = silent /\ ping_age' = waiting
                 /\ UNCHANGED <<ctx, conn, told, in_cb, ping_pending, pending>>
  /\ UNCHANGED <<parser, inflight, next_packet_id, pipe, rest, peer, seen, ids, connects>>

(***************************************************************************)
(* The broker.                                                             *)
(***************************************************************************)
Encode(p) ==
  LET n == Len(p.body) IN
  <<p.type * 16 + p.flags>> \o
  (IF n < 128 THEN <<n>> ELSE <<(n % 128) + 128, n \div 128>>) \o p.body

\* It answers pings, and otherwise writes what it likes.
BrokerWrites(p) ==
  /\ Idle /\ tcp # NULL /\ conn[tcp] = "ESTABLISHED" /\ Len(peer) < MaxIn
  /\ peer' = Append(peer, p)
  /\ pipe' = [pipe EXCEPT ![tcp] = @ \o Encode(p)]
  /\ p.type = 13 => 0 \in pending
  /\ pending' = IF p.type = 13 THEN pending \ {0} ELSE pending
  /\ UNCHANGED <<ctx, parser, inflight, next_packet_id, ping_pending, ages, conn, rest, in_cb, told,
                 seen, ids, connects>>

Next ==
  \/ \E c \in Conns \cup {NULL} : Connect(c)
  \/ \E r \in Results : Disconnect(r) \/ Request(r) \/ PublishQos0(r) \/ Return(r) \/ Periodic(r) \/ TlsConnected(r)
  \/ \E c \in Conns, r \in Results : Connected(c, r)
  \/ \E c \in Conns : \E e \in EndsAs(c) : Ended(c, e)
  \/ \E p \in BrokerPackets : BrokerWrites(p)
  \/ \E n \in 1 .. CHUNK : Arrive(n)
  \/ Feed \/ FeedStops
Spec == Init /\ [][Next]_vars

(***************************************************************************)
(* Properties.                                                             *)
(***************************************************************************)
\* Every variable keeps its type; a packet in progress fits the buffer, ids are
\* never 0, and a session that is disconnected holds no connection.
TypeOK ==
  /\ state \in Connecting \cup {"DISCONNECTED", "CONNECTED"}
  /\ tcp \in Conns \cup {NULL} /\ tls \in {tcp, NULL}
  /\ (state = "DISCONNECTED") = (tcp = NULL)
  /\ parser.phase \in {"TYPE", "REMAINING", "PAYLOAD"} /\ Len(parser.body) <= RX_BUF_SIZE
  /\ parser.phase = "PAYLOAD" => Len(parser.body) < parser.len
  /\ inflight \in [Slots -> 0 .. IdSpace - 1]
  /\ next_packet_id \in 0 .. IdSpace - 1 /\ (ids > 0 => next_packet_id # 0)
  /\ conn \in [Conns -> {"FREE", "SYN_SENT", "ESTABLISHED", "CLOSING", "CLOSE_WAIT"}]
  /\ in_cb >= NoCb /\ ping_pending \in BOOLEAN

\* No session ends behind the application's back: each one that connect()
\* started ends with an event or with disconnect(), and with one of them only.
AppKnows == (told = "live") = (state # "DISCONNECTED")

\* Keep-alive: a connected client has sent something within the interval or
\* waits for a PINGRESP, and does not wait longer than its limit.
Vigilant ==
  state = "CONNECTED" =>
    /\ ~ping_pending => send_age < KEEPALIVE
    /\ ping_pending => ping_age < PING_TIMEOUT

\* "The parser handles packets split across TCP segments": however the stream is
\* cut, the packets dispatched are those the broker wrote, whole and in order, as
\* long as each of them fits the buffer.
InStep ==
  state # "DISCONNECTED" /\ (\A i \in 1 .. Len(peer) : Len(peer[i].body) <= RX_BUF_SIZE) =>
    /\ IsPrefix(seen, peer)
    /\ Idle /\ pipe[tcp] = <<>> => seen = peer

\* "TCP CLOSED/ABORTED (unexpected disconnection)": the end of a connection the
\* client has left does not end the session on its successor, so no connection
\* is up or coming up that no session holds.
NoOrphan == \A c \in Conns : conn[c] \in {"SYN_SENT", "ESTABLISHED"} => tcp = c

(***************************************************************************)
(* Proofs, for every number of connections and entries, every buffer and   *)
(* chunk size, every packet the broker may write and every application.    *)
(***************************************************************************)
(***************************************************************************)
(* Types.  TypeOK says nothing of the bytes under way; what the parser     *)
(* makes of them depends on them and on the fields it has filled so far.   *)
(***************************************************************************)
Parsers(phases) ==
  [phase : phases, type : 0 .. 15, flags : 0 .. 15, len : Nat, mult : Nat, body : Seq(Octets)]
ParserOK ==
  /\ parser \in Parsers({"TYPE", "REMAINING", "PAYLOAD"})
  /\ parser.phase # "PAYLOAD" => parser.body = <<>>
  /\ parser.phase = "PAYLOAD" => Len(parser.body) < parser.len /\ parser.len <= RX_BUF_SIZE
BytesOK == rest \in Seq(Octets) /\ pipe \in [Conns -> Seq(Octets)]
Connections == [Conns -> {"FREE", "SYN_SENT", "ESTABLISHED", "CLOSING", "CLOSE_WAIT"}]
SessionOK ==
  /\ state \in Connecting \cup {"DISCONNECTED", "CONNECTED"}
  /\ tcp \in Conns \cup {NULL} /\ tls \in {tcp, NULL}
  /\ state = "DISCONNECTED" <=> tcp = NULL
  /\ conn \in Connections
  /\ told = "live" <=> state # "DISCONNECTED"
IdsOK ==
  /\ inflight \in [Slots -> 0 .. IdSpace - 1] /\ ids \in Nat
  /\ next_packet_id \in 0 .. IdSpace - 1 /\ (ids > 0 => next_packet_id # 0)
CallOK == in_cb \in Int /\ in_cb >= NoCb /\ ping_pending \in BOOLEAN
Inv == ParserOK /\ BytesOK /\ SessionOK /\ IdsOK /\ CallOK

LEMMA InvIsTypeOK == Inv => TypeOK /\ AppKnows
<1> SUFFICES ASSUME Inv PROVE TypeOK /\ AppKnows OBVIOUS
<1>1. Len(parser.body) <= RX_BUF_SIZE
  <2>1. CASE parser.phase # "PAYLOAD" BY <2>1, SizesAssumption DEF Inv, ParserOK
  <2>2. CASE parser.phase = "PAYLOAD"
    BY <2>2, SizesAssumption DEF Inv, ParserOK, Parsers
  <2>3. QED BY <2>1, <2>2
<1>2. QED BY <1>1 DEF Inv, ParserOK, Parsers, SessionOK, Connections, IdsOK, CallOK, TypeOK, AppKnows

\* The bytes of a packet.
LEMMA EncodeType == ASSUME NEW p \in BrokerPackets PROVE Encode(p) \in Seq(Octets)
<1> DEFINE n == Len(p.body)
           h == p.type * 16 + p.flags
           l == IF n < 128 THEN <<n>> ELSE <<(n % 128) + 128, n \div 128>>
<1>1. /\ p.type \in 0 .. 15 /\ p.flags \in 0 .. 15 /\ p.body \in Seq(Octets)
      /\ n \in Nat /\ n < 16384
  BY PacketsAssumption
<1>2. h \in Octets
  <2>1. PICK t \in 0 .. 15, f \in 0 .. 15 : t = p.type /\ f = p.flags BY <1>1
  <2>2. t * 16 + f \in Octets BY DEF Octets
  <2>3. QED BY <2>1, <2>2, Zenon
<1>3. Encode(p) = <<h>> \o l \o p.body BY DEF Encode
<1>4. l \in Seq(Octets)
  <2> HIDE DEF n
  <2>1. CASE n < 128
    <3>1. n \in Octets BY <1>1, <2>1 DEF Octets
    <3>2. QED BY <2>1, <3>1
  <2>2. CASE ~(n < 128)
    <3>1. (n % 128) + 128 \in Octets BY <1>1, <2>2 DEF Octets
    <3>2. n \div 128 \in Octets BY <1>1, <2>2 DEF Octets
    <3>3. QED BY <2>2, <3>1, <3>2
  <2>3. QED BY <2>1, <2>2
<1> HIDE DEF h, l, n
<1>5. <<h>> \in Seq(Octets) BY <1>2
<1>6. QED BY <1>1, <1>3, <1>4, <1>5

\* One byte more: a packet that is complete has as many bytes as it announced,
\* and one that is not has room for the next.
LEMMA FeedByteType ==
  ASSUME ParserOK, NEW b \in Octets, NEW q, q = FeedByte(parser, b)
  PROVE  /\ q \in Parsers({"TYPE", "REMAINING", "PAYLOAD", "DONE"})
         /\ q.phase \in {"TYPE", "REMAINING"} => q.body = <<>>
         /\ q.phase = "PAYLOAD" => Len(q.body) < q.len /\ q.len <= RX_BUF_SIZE
         /\ q.phase = "DONE" => Len(q.body) = q.len
<1> DEFINE p == parser
<1>0. /\ p \in Parsers({"TYPE", "REMAINING", "PAYLOAD"})
      /\ p.phase # "PAYLOAD" => p.body = <<>>
      /\ p.phase = "PAYLOAD" => Len(p.body) < p.len /\ p.len <= RX_BUF_SIZE
      /\ RX_BUF_SIZE \in Nat
  BY SizesAssumption DEF ParserOK
<1> HIDE DEF p
<1>1. ParserFresh \in Parsers({"TYPE"}) /\ ParserFresh.body = <<>> /\ ParserFresh.phase = "TYPE"
  BY DEF ParserFresh, Parsers
<1>2. CASE p.phase = "TYPE"
  <2>1. b \div 16 \in 0 .. 15 /\ b % 16 \in 0 .. 15 BY DEF Octets
  <2>2. q = [ParserFresh EXCEPT !.phase = "REMAINING", !.type = b \div 16, !.flags = b % 16]
    BY <1>2 DEF FeedByte, p
  <2>3. QED BY <1>1, <2>1, <2>2 DEF Parsers
<1>3. CASE p.phase = "REMAINING"
  <2> DEFINE len == (p.len + (b % 128) * p.mult) % 65536
             mult == (p.mult * 128) % 65536
             r == [p EXCEPT !.len = len, !.mult = mult]
             d == [r EXCEPT !.phase = "DONE"]
             w == [r EXCEPT !.phase = "PAYLOAD", !.body = <<>>]
  <2>1. len \in Nat /\ mult \in Nat
    <3>1. p.len \in Nat /\ p.mult \in Nat /\ b % 128 \in Nat BY <1>0 DEF Parsers, Octets
    <3>2. (b % 128) * p.mult \in Nat BY <3>1
    <3>3. p.len + (b % 128) * p.mult \in Nat /\ p.mult * 128 \in Nat BY <3>1, <3>2
    <3>4. \A x \in Nat : x % 65536 \in Nat OBVIOUS
    <3>5. QED BY <3>3, <3>4
  <2>2. \/ b >= 128 /\ q = r
        \/ len = 0 /\ q = d
        \/ len > RX_BUF_SIZE /\ q = ParserFresh
        \/ len # 0 /\ ~(len > RX_BUF_SIZE) /\ q = w
    BY <1>3 DEF FeedByte, LengthByte, p
  <2> HIDE DEF len, mult
  <2>3. /\ r \in Parsers({"REMAINING"}) /\ r.body = <<>> /\ r.phase = "REMAINING"
        /\ d \in Parsers({"DONE"}) /\ d.body = <<>> /\ d.len = len /\ d.phase = "DONE"
        /\ w \in Parsers({"PAYLOAD"}) /\ w.body = <<>> /\ w.len = len /\ w.phase = "PAYLOAD"
    BY <1>0, <1>3, <2>1 DEF Parsers
  <2> HIDE DEF r, d, w
  <2>4. \A x, y : x \in Parsers({y}) /\ y \in {"TYPE", "REMAINING", "PAYLOAD", "DONE"} =>
                    x \in Parsers({"TYPE", "REMAINING", "PAYLOAD", "DONE"})
    BY DEF Parsers
  <2>5. CASE q = r BY <2>3, <2>4, <2>5
  <2>5a. Len(<<>>) = 0 OBVIOUS
  <2>6. CASE len = 0 /\ q = d
    <3>1. q \in Parsers({"DONE"}) /\ q.phase = "DONE" /\ Len(q.body) = q.len BY <2>3, <2>5a, <2>6
    <3>2. QED BY <2>4, <3>1
  <2>7. CASE q = ParserFresh BY <1>1, <2>4, <2>7
  <2>8. CASE len # 0 /\ ~(len > RX_BUF_SIZE) /\ q = w
    <3>1. q \in Parsers({"PAYLOAD"}) /\ q.phase = "PAYLOAD" BY <2>3, <2>8
    <3>2. Len(q.body) = 0 /\ q.len = len BY <2>3, <2>5a, <2>8
    <3>3. Len(q.body) < q.len /\ q.len <= RX_BUF_SIZE BY <1>0, <2>1, <2>8, <3>2
    <3>4. QED BY <2>4, <3>1, <3>3
  <2>9. QED BY <2>2, <2>5, <2>6, <2>7, <2>8
<1>4. CASE p.phase = "PAYLOAD"
  <2> DEFINE body == Append(p.body, b)
             ph == IF Len(p.body) + 1 >= p.len THEN "DONE" ELSE "PAYLOAD"
             r == [p EXCEPT !.body = body, !.phase = ph]
  <2>1. q = r BY <1>4 DEF FeedByte, p
  <2>2. body \in Seq(Octets) /\ Len(body) = Len(p.body) + 1 /\ Len(p.body) \in Nat /\ p.len \in Nat
    BY <1>0 DEF Parsers
  <2>3. ph \in {"PAYLOAD", "DONE"} OBVIOUS
  <2> HIDE DEF body
  <2>4. ph = "DONE" => Len(body) = p.len BY <1>0, <1>4, <2>2
  <2>5. ph = "PAYLOAD" => Len(body) < p.len BY <1>0, <1>4, <2>2
  <2> HIDE DEF ph
  <2>6. r \in Parsers({"TYPE", "REMAINING", "PAYLOAD", "DONE"}) /\ r.body = body /\ r.phase = ph
        /\ r.len = p.len
    BY <1>0, <2>2, <2>3 DEF Parsers
  <2> HIDE DEF r
  <2>7. QED BY <1>0, <1>4, <2>1, <2>3, <2>4, <2>5, <2>6
<1>5. QED BY <1>0, <1>2, <1>3, <1>4 DEF Parsers

(***************************************************************************)
(* The parts of the invariant, where an action leaves them alone and where *)
(* it does not.                                                            *)
(***************************************************************************)
LEMMA Frames ==
  ASSUME Inv
  PROVE  /\ parser' = parser => ParserOK'
         /\ UNCHANGED <<rest, pipe>> => BytesOK'
         /\ UNCHANGED <<state, tcp, tls, conn, told>> => SessionOK'
         /\ UNCHANGED <<inflight, next_packet_id, ids>> => IdsOK'
         /\ UNCHANGED <<in_cb, ping_pending>> => CallOK'
<1>1. parser' = parser => ParserOK' BY DEF Inv, ParserOK
<1>2. UNCHANGED <<rest, pipe>> => BytesOK' BY DEF Inv, BytesOK
<1>3. UNCHANGED <<state, tcp, tls, conn, told>> => SessionOK' BY DEF Inv, SessionOK
<1>4. UNCHANGED <<inflight, next_packet_id, ids>> => IdsOK' BY DEF Inv, IdsOK
<1>5. UNCHANGED <<in_cb, ping_pending>> => CallOK' BY DEF Inv, CallOK
<1>6. QED BY <1>1, <1>2, <1>3, <1>4, <1>5

\* Whoever ends the session tells the application.
LEMMA OverOK ==
  ASSUME Inv, NEW conns \in Connections, Over(conns)
  PROVE  SessionOK' /\ in_cb' = 0
BY DEF Inv, SessionOK, Over

LEMMA GivenUpType ==
  ASSUME Inv PROVE abort_transport \in Connections /\ close_transport \in Connections
BY DEF Inv, SessionOK, Connections, abort_transport, close_transport

LEMMA ConnectInv == ASSUME Inv, NEW c \in Conns \cup {NULL}, Connect(c) PROVE Inv'
<1>1. parser' = ParserFresh /\ inflight' = [s \in Slots |-> 0] /\ ping_pending' = FALSE
      /\ UNCHANGED <<next_packet_id, rest, in_cb, ids>> /\ pipe' = [d \in Conns |-> <<>>]
  BY DEF Connect
<1>2. ParserOK' BY <1>1 DEF ParserOK, Parsers, ParserFresh
<1>3. BytesOK' BY <1>1 DEF Inv, BytesOK
<1>4. IdsOK' BY <1>1, SizesAssumption DEF Inv, IdsOK
<1>5. CallOK' BY <1>1 DEF Inv, CallOK
<1>6. SessionOK'
  <2>1. CASE c = NULL BY <2>1, Frames DEF Connect, ctx
  <2>2. CASE c # NULL
    <3>1. /\ conn' = [conn EXCEPT ![c] = "SYN_SENT"] /\ state' = "TCP_CONNECTING"
          /\ tcp' = c /\ tls' = tls /\ told' = "live" /\ state = "DISCONNECTED"
      BY <2>2 DEF Connect
    <3>2. tls = NULL /\ conn' \in Connections BY <3>1 DEF Inv, SessionOK, Connections
    <3>3. QED BY <2>2, <3>1, <3>2 DEF SessionOK, Connecting
  <2>3. QED BY <2>1, <2>2
<1>7. QED BY <1>2, <1>3, <1>4, <1>5, <1>6 DEF Inv

\* The other calls of the application, and the return to the client.
LEMMA CallInv ==
  ASSUME Inv, NEW r, Disconnect(r) \/ Request(r) \/ PublishQos0(r) \/ Return(r) PROVE Inv'
<1>1. CASE Disconnect(r)
  <2>1. /\ conn' = close_transport /\ state' = "DISCONNECTED" /\ tcp' = NULL /\ tls' = NULL
        /\ told' = "over" /\ UNCHANGED <<parser, inflight, next_packet_id, ping_pending, pipe, rest,
                                         in_cb, ids>>
    BY <1>1 DEF Disconnect
  <2>2. SessionOK' BY <2>1, GivenUpType DEF SessionOK
  <2>3. QED BY <2>1, <2>2, Frames DEF Inv
<1>2. CASE Request(r)
  <2>1. PICK s \in Slots : inflight' = [inflight EXCEPT ![s] = alloc_packet_id]
    BY <1>2 DEF Request
  <2>2. /\ ids' = ids + 1 /\ next_packet_id' = alloc_packet_id
        /\ UNCHANGED <<ctx, parser, ping_pending, conn, pipe, rest, in_cb, told>>
    BY <1>2 DEF Request
  <2>3. alloc_packet_id \in 1 .. IdSpace - 1
    <3> DEFINE n == (next_packet_id + 1) % IdSpace
    <3>1. next_packet_id \in 0 .. IdSpace - 1 /\ IdSpace \in Nat \ {0, 1}
      BY SizesAssumption DEF Inv, IdsOK
    <3>2. n \in 0 .. IdSpace - 1 BY <3>1
    <3>3. alloc_packet_id = IF n = 0 THEN 1 ELSE n BY DEF alloc_packet_id
    <3> HIDE DEF n
    <3>4. QED BY <3>1, <3>2, <3>3
  <2>4. IdsOK'
    <3> DEFINE a == alloc_packet_id
    <3>1. a \in 0 .. IdSpace - 1 /\ a # 0 BY <2>3
    <3> HIDE DEF a
    <3>2. inflight' = [inflight EXCEPT ![s] = a] /\ next_packet_id' = a BY <2>1, <2>2 DEF a
    <3>3. QED BY <2>2, <3>1, <3>2 DEF Inv, IdsOK
  <2>5. QED BY <2>2, <2>4, Frames DEF Inv, ctx
<1>3. CASE PublishQos0(r) BY <1>3, Frames DEF PublishQos0, Inv, ctx
<1>4. CASE Return(r)
  <2>1. in_cb' = NoCb /\ UNCHANGED <<ctx, parser, inflight, next_packet_id, ping_pending, conn, pipe,
                                     rest, told, ids>>
    BY <1>4 DEF Return
  <2>2. CallOK' BY <2>1 DEF Inv, CallOK, NoCb
  <2>3. QED BY <2>1, <2>2, Frames DEF Inv, ctx
<1>5. QED BY <1>1, <1>2, <1>3, <1>4

\* What TCP, TLS and the clock do.
LEMMA TransportInv ==
  ASSUME Inv, \/ \E c \in Conns, r \in Results : Connected(c, r)
              \/ \E r \in Results : TlsConnected(r) \/ Periodic(r)
              \/ \E c \in Conns : \E e \in EndsAs(c) : Ended(c, e)
  PROVE  Inv'
<1>1. ASSUME NEW conns \in Connections, Over(conns),
             UNCHANGED <<parser, inflight, next_packet_id, ping_pending, rest, ids>>, BytesOK'
      PROVE  Inv'
  <2>1. SessionOK' /\ in_cb' = 0 BY <1>1, OverOK
  <2>2. CallOK' BY <1>1, <2>1 DEF Inv, CallOK, NoCb
  <2>3. QED BY <1>1, <2>1, <2>2, Frames DEF Inv
<1>2. ASSUME NEW c \in Conns, NEW r \in Results, Connected(c, r) PROVE Inv'
  <2> DEFINE up == [conn EXCEPT ![c] = "ESTABLISHED"]
  <2>1. UNCHANGED <<parser, inflight, next_packet_id, ping_pending, pipe, rest, ids>>
    BY <1>2 DEF Connected
  <2>2. BytesOK' BY <2>1, Frames
  <2>3. up \in Connections /\ \A d : [up EXCEPT ![d] = "FREE"] \in Connections
    BY DEF Inv, SessionOK, Connections
  <2>4. CASE r = "ok"
    <3>1. /\ tcp = c /\ conn' = up /\ state' \in Connecting /\ tls' \in {tcp, tls}
          /\ UNCHANGED <<tcp, told, in_cb>>
      BY <1>2, <2>4 DEF Connected, Connecting
    <3>2. SessionOK'
      <4>1. tcp # NULL BY <3>1, SizesAssumption
      <4>2. QED BY <2>3, <3>1, <4>1 DEF Inv, SessionOK, Connecting
    <3>3. QED BY <2>1, <2>2, <3>1, <3>2, Frames DEF Inv
  <2>5. CASE r # "ok"
    <3>1. Over(IF tcp = NULL THEN up ELSE [up EXCEPT ![tcp] = "FREE"]) BY <1>2, <2>5 DEF Connected
    <3>2. QED BY <1>1, <2>1, <2>2, <2>3, <3>1
  <2>6. QED BY <2>4, <2>5
<1>3. ASSUME NEW r \in Results, TlsConnected(r) PROVE Inv'
  <2>1. UNCHANGED <<parser, inflight, next_packet_id, ping_pending, pipe, rest, ids>>
    BY <1>3 DEF TlsConnected
  <2>2. BytesOK' BY <2>1, Frames
  <2>3. CASE r = "ok"
    <3>1. state = "TLS_CONNECTING" /\ state' = "CONNECTING" /\ UNCHANGED <<tcp, tls, conn, told, in_cb>>
      BY <1>3, <2>3 DEF TlsConnected
    <3>2. SessionOK' BY <3>1 DEF Inv, SessionOK, Connecting
    <3>3. QED BY <2>1, <2>2, <3>1, <3>2, Frames DEF Inv
  <2>4. CASE r # "ok"
    <3>1. Over(abort_transport) BY <1>3, <2>4 DEF TlsConnected
    <3>2. QED BY <1>1, <2>1, <2>2, <3>1, GivenUpType
  <2>5. QED BY <2>3, <2>4
<1>4. ASSUME NEW r \in Results, Periodic(r) PROVE Inv'
  <2>1. UNCHANGED <<parser, inflight, next_packet_id, pipe, rest, ids>> BY <1>4 DEF Periodic
  <2>2. BytesOK' BY <2>1, Frames
  <2>3. \/ Over(abort_transport) /\ ping_pending' = ping_pending
        \/ ping_pending' \in {TRUE, ping_pending} /\ UNCHANGED <<ctx, conn, told, in_cb>>
    BY <1>4 DEF Periodic
  <2>4. CASE Over(abort_transport) /\ ping_pending' = ping_pending
    BY <1>1, <2>1, <2>2, <2>4, GivenUpType
  <2>5. CASE ping_pending' \in {TRUE, ping_pending} /\ UNCHANGED <<ctx, conn, told, in_cb>>
    <3>1. CallOK' BY <2>5 DEF Inv, CallOK
    <3>2. QED BY <2>1, <2>2, <2>5, <3>1, Frames DEF Inv, ctx
  <2>6. QED BY <2>3, <2>4, <2>5
<1>5. ASSUME NEW c \in Conns, NEW e \in EndsAs(c), Ended(c, e) PROVE Inv'
  <2>1. UNCHANGED <<parser, inflight, next_packet_id, ping_pending, rest, ids>>
        /\ pipe' = [pipe EXCEPT ![c] = <<>>]
    BY <1>5 DEF Ended
  <2>2. BytesOK' BY <2>1 DEF Inv, BytesOK
  <2> DEFINE end == [conn EXCEPT ![c] = e]
  <2>3. end \in Connections BY DEF Inv, SessionOK, Connections, EndsAs
  <2>4. CASE state = "DISCONNECTED"
    <3>1. conn' = end /\ UNCHANGED <<ctx, told, in_cb>> BY <1>5, <2>4 DEF Ended
    <3>2. SessionOK' BY <2>3, <3>1 DEF Inv, SessionOK, ctx
    <3>3. QED BY <2>1, <2>2, <3>1, <3>2, Frames DEF Inv
  <2>5. CASE state # "DISCONNECTED"
    <3>1. Over(end) BY <1>5, <2>5 DEF Ended
    <3>2. QED BY <1>1, <2>1, <2>2, <2>3, <3>1
  <2>6. QED BY <2>4, <2>5
<1>6. QED BY <1>2, <1>3, <1>4, <1>5

\* The packet handlers, run on a packet that is complete.
LEMMA HandlersInv ==
  ASSUME Inv, NEW p \in Parsers({"DONE"}), Len(p.body) = p.len
  PROVE  /\ handle_connack(p) => SessionOK' /\ CallOK'
         /\ handle_publish(p) => SessionOK' /\ CallOK'
<1>1. ASSUME handle_connack(p) PROVE SessionOK' /\ CallOK'
  <2>1. CASE state # "CONNECTING" \/ p.len < 2
    <3>1. UNCHANGED <<ctx, conn, told, in_cb, ping_pending>> BY <1>1, <2>1 DEF handle_connack
    <3>2. QED BY <3>1, Frames DEF ctx
  <2>2. CASE ~(state # "CONNECTING" \/ p.len < 2) /\ p.body[2] = 0
    <3>1. /\ state = "CONNECTING" /\ state' = "CONNECTED" /\ ping_pending' = FALSE /\ in_cb' = 0
          /\ UNCHANGED <<tcp, tls, conn, told>>
      BY <1>1, <2>2 DEF handle_connack
    <3>2. SessionOK' BY <3>1 DEF Inv, SessionOK, Connecting
    <3>3. in_cb' \in Int /\ in_cb' >= NoCb BY <3>1 DEF NoCb
    <3>4. ping_pending' \in BOOLEAN BY <3>1, Zenon
    <3>5. QED BY <3>2, <3>3, <3>4 DEF CallOK
  <2>3. CASE ~(state # "CONNECTING" \/ p.len < 2) /\ p.body[2] # 0
    <3>1. Over(abort_transport) /\ ping_pending' = ping_pending BY <1>1, <2>3 DEF handle_connack
    <3>2. SessionOK' /\ in_cb' = 0 BY <3>1, GivenUpType, OverOK
    <3>3. CallOK' BY <3>1, <3>2 DEF Inv, CallOK, NoCb
    <3>4. QED BY <3>2, <3>3
  <2>4. QED BY <2>1, <2>2, <2>3
<1>2. ASSUME handle_publish(p) PROVE SessionOK' /\ CallOK'
  <2> DEFINE qos == (p.flags \div 2) % 4
             after == 2 + Word(p.body, 1)
             bad == \/ state # "CONNECTED" \/ p.len < 2 \/ qos > 1 \/ after > p.len
                    \/ qos = 1 /\ after + 2 > p.len
  <2>1. /\ in_cb' = IF bad THEN NoCb ELSE IF qos = 1 THEN Word(p.body, after + 1) ELSE 0
        /\ UNCHANGED <<ctx, conn, told, ping_pending>>
    BY <1>2 DEF handle_publish
  <2>2. ASSUME NEW i \in Nat, 1 <= i, i + 1 <= p.len PROVE Word(p.body, i) \in Nat
    <3>1. p.body \in Seq(Octets) /\ i \in 1 .. Len(p.body) /\ i + 1 \in 1 .. Len(p.body)
      BY <2>2 DEF Parsers
    <3>2. p.body[i] \in Octets /\ p.body[i + 1] \in Octets BY <3>1
    <3>3. \A x, y \in Octets : x * 256 + y \in Nat BY DEF Octets
    <3>4. PICK x \in Octets, y \in Octets : x = p.body[i] /\ y = p.body[i + 1] BY <3>2
    <3>5. x * 256 + y \in Nat BY <3>3
    <3>6. QED BY <3>4, <3>5, Zenon DEF Word
  <2>3. ASSUME ~bad, qos = 1 PROVE Word(p.body, after + 1) \in Nat
    <3>1. p.len \in Nat /\ p.len >= 2 BY <2>3 DEF Parsers
    <3>2. Word(p.body, 1) \in Nat BY <2>2, <3>1
    <3>3. after \in Nat /\ after + 2 <= p.len BY <2>3, <3>1, <3>2
    <3> HIDE DEF after
    <3>4. after + 1 \in Nat /\ 1 <= after + 1 /\ after + 1 + 1 <= p.len BY <3>1, <3>3
    <3>5. QED BY <2>2, <3>4
  <2> HIDE DEF bad, qos, after
  <2>4. in_cb' \in Int /\ in_cb' >= NoCb BY <2>1, <2>3 DEF NoCb
  <2>5. CallOK' BY <2>1, <2>4 DEF Inv, CallOK
  <2>6. QED BY <2>1, <2>5, Frames DEF ctx
<1>3. QED BY <1>1, <1>2

\* Freeing an entry.
LEMMA RemoveType ==
  ASSUME Inv, NEW id PROVE inflight_remove(id) \in [Slots -> 0 .. IdSpace - 1]
<1> DEFINE held == {s \in Slots : inflight[s] # 0 /\ inflight[s] = id}
           m == Min(held)
<1>1. inflight_remove(id) = IF held = {} THEN inflight ELSE [inflight EXCEPT ![m] = 0]
  BY DEF inflight_remove
<1>2. inflight \in [Slots -> 0 .. IdSpace - 1] /\ 0 \in 0 .. IdSpace - 1
  BY SizesAssumption DEF Inv, IdsOK
<1> HIDE DEF m, held
<1>3. [inflight EXCEPT ![m] = 0] \in [Slots -> 0 .. IdSpace - 1] BY <1>2
<1>4. QED BY <1>1, <1>2, <1>3

\* One byte fed.
LEMMA FeedInv == ASSUME Inv, Feed PROVE Inv'
<1> DEFINE p == FeedByte(parser, Head(rest))
<1>1. rest' = Tail(rest) /\ rest # <<>> /\ in_cb = NoCb
      /\ UNCHANGED <<next_packet_id, pipe, ids>>
  BY DEF Feed
<1>2. rest \in Seq(Octets) BY DEF Inv, BytesOK
<1>3. Head(rest) \in Octets /\ Tail(rest) \in Seq(Octets) BY <1>1, <1>2
<1>4. BytesOK' BY <1>1, <1>3 DEF Inv, BytesOK
<1>5. /\ p \in Parsers({"TYPE", "REMAINING", "PAYLOAD", "DONE"})
      /\ p.phase \in {"TYPE", "REMAINING"} => p.body = <<>>
      /\ p.phase = "PAYLOAD" => Len(p.body) < p.len /\ p.len <= RX_BUF_SIZE
      /\ p.phase = "DONE" => Len(p.body) = p.len
  BY <1>3, FeedByteType DEF Inv
<1>6. CASE p.phase # "DONE"
  <2>1. parser' = p /\ UNCHANGED <<ctx, conn, told, in_cb, ping_pending, inflight>>
    BY <1>6 DEF Feed
  <2> HIDE DEF p
  <2>2. ParserOK' BY <1>5, <1>6, <2>1 DEF ParserOK, Parsers
  <2>3. QED BY <1>1, <1>4, <2>1, <2>2, Frames DEF Inv, ctx
<1>7. CASE p.phase = "DONE"
  <2>1. parser' = ParserFresh BY <1>7 DEF Feed
  <2>2. ParserOK' BY <2>1 DEF ParserOK, Parsers, ParserFresh
  <2>3. \/ handle_connack(p) /\ inflight' = inflight
        \/ handle_publish(p) /\ inflight' = inflight
        \/ /\ inflight' = inflight_remove(Word(p.body, 1)) /\ in_cb' = 0
           /\ UNCHANGED <<ctx, conn, told, ping_pending>>
        \/ ping_pending' = FALSE /\ UNCHANGED <<ctx, conn, told, in_cb, inflight>>
        \/ UNCHANGED <<ctx, conn, told, in_cb, ping_pending, inflight>>
    BY <1>7, Zenon DEF Feed
  <2> HIDE DEF p
  <2>4. p \in Parsers({"DONE"}) /\ Len(p.body) = p.len BY <1>5, <1>7 DEF Parsers
  <2>5. SessionOK' /\ CallOK'
    <3>1. CASE handle_connack(p) \/ handle_publish(p) BY <2>4, <3>1, HandlersInv
    <3>2. CASE UNCHANGED <<ctx, conn, told>> /\ in_cb' \in {0, in_cb} /\ ping_pending' \in {FALSE, ping_pending}
      <4>1. in_cb' \in Int /\ in_cb' >= NoCb BY <3>2 DEF Inv, CallOK, NoCb
      <4>2. ping_pending' \in BOOLEAN BY <3>2, Zenon DEF Inv, CallOK
      <4>3. CallOK' BY <4>1, <4>2 DEF CallOK
      <4>4. QED BY <3>2, <4>3, Frames DEF ctx
    <3>3. QED BY <2>3, <3>1, <3>2
  <2>6. IdsOK'
    <3>1. inflight' = inflight \/ inflight' = inflight_remove(Word(p.body, 1)) BY <2>3
    <3>2. QED BY <1>1, <3>1, RemoveType DEF Inv, IdsOK
  <2>7. QED BY <1>4, <2>2, <2>5, <2>6 DEF Inv
<1>8. QED BY <1>6, <1>7

\* Bytes on their way.
LEMMA BytesInv ==
  ASSUME Inv, FeedStops \/ (\E n \in 1 .. CHUNK : Arrive(n)) \/ (\E p \in BrokerPackets : BrokerWrites(p))
  PROVE  Inv'
<1>1. BytesOK'
  <2>1. CASE FeedStops BY <2>1 DEF FeedStops, Inv, BytesOK
  <2>2. ASSUME NEW n \in 1 .. CHUNK, Arrive(n) PROVE BytesOK'
    <3>1. /\ tcp \in Conns /\ n \in 1 .. Len(pipe[tcp])
          /\ rest' = SubSeq(pipe[tcp], 1, n)
          /\ pipe' = [pipe EXCEPT ![tcp] = SubSeq(pipe[tcp], n + 1, Len(pipe[tcp]))]
      BY <2>2 DEF Arrive, Inv, SessionOK
    <3>2. pipe[tcp] \in Seq(Octets) BY <3>1 DEF Inv, BytesOK
    <3> DEFINE u == SubSeq(pipe[tcp], 1, n)
               v == SubSeq(pipe[tcp], n + 1, Len(pipe[tcp]))
    <3>3. u \in Seq(Octets) /\ v \in Seq(Octets) BY <3>1, <3>2
    <3> HIDE DEF u, v
    <3>4. rest' = u /\ pipe' = [pipe EXCEPT ![tcp] = v] BY <3>1 DEF u, v
    <3>5. QED BY <3>3, <3>4 DEF Inv, BytesOK
  <2>3. ASSUME NEW p \in BrokerPackets, BrokerWrites(p) PROVE BytesOK'
    <3>1. tcp \in Conns /\ pipe' = [pipe EXCEPT ![tcp] = pipe[tcp] \o Encode(p)] /\ rest' = rest
      BY <2>3 DEF BrokerWrites, Inv, SessionOK
    <3>2. pipe[tcp] \in Seq(Octets) BY <3>1 DEF Inv, BytesOK
    <3> DEFINE u == pipe[tcp] \o Encode(p)
    <3>3. u \in Seq(Octets) BY <3>2, EncodeType
    <3> HIDE DEF u
    <3>4. pipe' = [pipe EXCEPT ![tcp] = u] BY <3>1 DEF u
    <3>5. QED BY <3>1, <3>3, <3>4 DEF Inv, BytesOK
  <2>4. QED BY <2>1, <2>2, <2>3
<1>2. UNCHANGED <<ctx, parser, inflight, next_packet_id, ping_pending, conn, in_cb, told, ids>>
  BY DEF FeedStops, Arrive, BrokerWrites, ghosts
<1>3. QED BY <1>1, <1>2, Frames DEF Inv, ctx

LEMMA NextInv == Inv /\ [Next]_vars => Inv'
<1> SUFFICES ASSUME Inv, [Next]_vars PROVE Inv' OBVIOUS
<1>1. CASE UNCHANGED vars BY <1>1, Frames DEF Inv, vars, ctx, ghosts
<1>2. CASE Next BY <1>2, ConnectInv, CallInv, TransportInv, BytesInv, FeedInv DEF Next
<1>3. QED BY <1>1, <1>2

LEMMA InitInv == Init => Inv
<1> SUFFICES ASSUME Init PROVE Inv OBVIOUS
<1>1. ParserOK BY DEF Init, ParserOK, ParserFresh, Parsers
<1>2. BytesOK BY DEF Init, BytesOK
<1>3. SessionOK BY DEF Init, SessionOK, Connections
<1>4. IdsOK BY SizesAssumption DEF Init, IdsOK
<1>5. CallOK
  <2>1. in_cb = NoCb /\ ping_pending = FALSE BY DEF Init
  <2>2. in_cb \in Int /\ in_cb >= NoCb BY <2>1 DEF NoCb
  <2>3. QED BY <2>1, <2>2 DEF CallOK
<1>6. QED BY <1>1, <1>2, <1>3, <1>4, <1>5 DEF Inv

\* The client's variables keep their types: whatever the broker writes, the packet in
\* progress fits the receive buffer, no request has identifier 0, and a session
\* holds a connection exactly while it is not disconnected.
THEOREM TypeCorrect == Spec => []TypeOK
BY InitInv, NextInv, InvIsTypeOK, PTL DEF Spec

\* No session ends behind the application's back: connect() is answered by one end,
\* an event or disconnect(), whatever is lost, refused or called from a callback.
THEOREM EverySessionEndIsTold == Spec => []AppKnows
BY InitInv, NextInv, InvIsTypeOK, PTL DEF Spec
=============================================================================
