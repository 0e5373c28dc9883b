----------------------------- MODULE MCServices -----------------------------
(***************************************************************************)
(* TLC instances of the parts of the network between the wire and the      *)
(* application, TCP, MQTT and Bluetooth apart, which have runs of their    *)
(* own.  Each behaviour runs one of them.  They share the variables s1 to  *)
(* s10, which WITH gives the names they have in their module; the ones a   *)
(* scenario has no use for are NULL.                                       *)
(***************************************************************************)
EXTENDS Integers, Sequences

CONSTANTS
  NULL,
  \* The constants of the parts the theorems of ServiceProofs are about, a record of each instance.
  IpConst, StationConst, LifeConst, RouterConst, ServerConst, ClientConst, RestartConst, TftpConst, DnsConst,
  DhcpConst, DhcpsConst, HttpConst, SlipConst

VARIABLES scenario, s1, s2, s3, s4, s5, s6, s7, s8, s9, s10
vars == <<scenario, s1, s2, s3, s4, s5, s6, s7, s8, s9, s10>>

Strings(S, n) == UNION {[1 .. k -> S] : k \in 0 .. n}

(***************************************************************************)
(* Below the transports.                                                   *)
(***************************************************************************)
\* SLIP: every packet of up to two bytes of each kind, and packets of three, one
\* more than the buffer holds, that need escapes or not.
SlipValues ==
  [MTU |-> 2, Plain |-> {"x"}, EscapeNul |-> TRUE, MaxFrames |-> 2, Transmits |-> 1,
   Frames |-> Strings({"END", "ESC", "ESC_END", "ESC_ESC", "NUL", "x"}, 2) \cup [1 .. 3 -> {"END", "x"}]]
S == INSTANCE Slip WITH
  MTU <- SlipConst.MTU, Plain <- SlipConst.Plain, EscapeNul <- SlipConst.EscapeNul, Frames <- SlipConst.Frames,
  MaxFrames <- SlipConst.MaxFrames, Transmits <- SlipConst.Transmits,
  slip_state <- s1, slip_overflow <- s2, net_buf <- s3, uart <- s4, sent <- s5, got <- s6, sends <- s7

\* IPv4: a packet of every protocol and validity to each port, unicast and
\* broadcast; ports matter to UDP only.
Arrivals ==
  LET pkt(proto, valid, dst, port) == [proto |-> proto, valid |-> valid, src |-> "peer", dst |-> dst,
                                       sport |-> 0, dport |-> port, data |-> "d1"]
  IN  {pkt("UDP", TRUE, dst, port) : dst \in {"us", "all"}, port \in {0, 5, 7, 9}} \cup
      {pkt("UDP", valid, dst, 5) : valid \in BOOLEAN, dst \in {"us", "peer"}} \cup
      {pkt(proto, TRUE, "us", 0) : proto \in {"ICMP_REPLY", "ICMP_OTHER", "TCP", "OTHER"}} \cup
      {pkt("ICMP_REQUEST", TRUE, dst, 0) : dst \in {"us", "all"}}
IpValues ==
  [MAX_BINDS |-> 2, Ports |-> {0, 5, 7, 9}, Reserved |-> {9}, ECHO_PORT |-> 7, Cbs |-> {"c1"}, NoCb |-> "none",
   Addrs |-> {"us", "peer"}, Broadcast |-> "all", Data |-> {"d1", "d2"}, Inputs |-> Arrivals]
U == INSTANCE IpStack WITH
  MAX_BINDS <- IpConst.MAX_BINDS, Ports <- IpConst.Ports, Reserved <- IpConst.Reserved, ECHO_PORT <- IpConst.ECHO_PORT,
  Cbs <- IpConst.Cbs, NoCb <- IpConst.NoCb, Addrs <- IpConst.Addrs, Broadcast <- IpConst.Broadcast,
  Data <- IpConst.Data, Inputs <- IpConst.Inputs,
  inited <- s1, bind_table <- s2, in_rx <- s3, our_addr <- s4, owner <- s5, active_link <- s6, reply_cb <- s7,
  net_buf <- s8, running <- s9, out <- s10

\* Wi-Fi: a station among neighbours; one with connections, an access point,
\* another link in use and leases that end.
StationValues ==
  [Hosts |-> {"g", "h", "x"}, Local |-> {"g", "h"}, Gateway |-> "g", Macs |-> {"A", "B"}, Radios |-> {FALSE},
   ARP_CACHE_SIZE |-> 2, LEASE_TICKS |-> 1, MaxPackets |-> 2, MaxNetworks |-> 1, MaxTime |-> 0]
LifeValues ==
  [Hosts |-> {"g"}, Local |-> {"g"}, Gateway |-> "g", Macs |-> {"A"}, Radios |-> BOOLEAN,
   ARP_CACHE_SIZE |-> 2, LEASE_TICKS |-> 1, MaxPackets |-> 1, MaxNetworks |-> 2, MaxTime |-> 2]
W(k) == INSTANCE Wifi WITH
  Hosts <- k.Hosts, Local <- k.Local, Gateway <- k.Gateway, Macs <- k.Macs, Radios <- k.Radios,
  ARP_CACHE_SIZE <- k.ARP_CACHE_SIZE, LEASE_TICKS <- k.LEASE_TICKS, MaxPackets <- k.MaxPackets,
  MaxNetworks <- k.MaxNetworks, MaxTime <- k.MaxTime,
  w <- s1, radio <- s2, air <- s3, heard <- s4, n <- s5

\* The router: two clients that take turns on one address, fewer flows than ports.
RouterValues ==
  [Macs |-> {"a", "b"}, Pool |-> {"i"}, Sources |-> {1}, Remotes |-> {"s"}, Uplinks |-> {"u"}, FLOWS |-> 2, PORTS |-> 3,
   TcpTicks |-> 2, UdpTicks |-> 1, FinTicks |-> 1, MaxSent |-> 2, MaxTime |-> 2]
R == INSTANCE Router WITH
  Macs <- RouterConst.Macs, Pool <- RouterConst.Pool, Sources <- RouterConst.Sources, Remotes <- RouterConst.Remotes,
  Uplinks <- RouterConst.Uplinks, FLOWS <- RouterConst.FLOWS, PORTS <- RouterConst.PORTS,
  TcpTicks <- RouterConst.TcpTicks, UdpTicks <- RouterConst.UdpTicks, FinTicks <- RouterConst.FinTicks,
  MaxSent <- RouterConst.MaxSent, MaxTime <- RouterConst.MaxTime,
  r <- s1, net <- s2, now <- s3, given <- s4, owner <- s5

\* Message links: messages that are empty, fit, reach the limit and exceed it.
\* One link receives; two links compete for one table entry and send.
Messages == {<<>>, <<1>>, <<1, 2>>, <<3, 3, 3, 3, 3>>}
In == INSTANCE LinkIp WITH
  Links <- {"l1"}, LINK_IP_MAX <- 1, Conns <- {"c1"}, NULL <- "null", HEADER <- 2, Radix <- 4, SizeT <- 16,
  CAP <- 2, OUT <- 6, CHUNK <- 4, RING <- 6, MSS <- 2,
  Inbound <- Messages, Outbound <- {}, MaxMsgs <- 3, MaxDials <- 2,
  lk <- s1, links <- s2, dials <- s3, tcp <- s4, pipe <- s5, peer <- s6, got <- s7, acc <- s8, wrote <- s9
Out == INSTANCE LinkIp WITH
  Links <- {"l1", "l2"}, LINK_IP_MAX <- 1, Conns <- {"c1", "c2"}, NULL <- "null", HEADER <- 2, Radix <- 4,
  SizeT <- 16, CAP <- 2, OUT <- 6, CHUNK <- 4, RING <- 6, MSS <- 2,
  Inbound <- {}, Outbound <- Messages, MaxMsgs <- 2, MaxDials <- 3,
  lk <- s1, links <- s2, dials <- s3, tcp <- s4, pipe <- s5, peer <- s6, got <- s7, acc <- s8, wrote <- s9

(***************************************************************************)
(* Over UDP.                                                               *)
(***************************************************************************)
\* CoAP: a client and a server that both run this code; a client and a server of
\* another make; the same with a device that restarts.
ServerValues ==
  [Nodes |-> {"a", "b"}, Foreign |-> {}, Clients |-> {"a"}, Paths |-> {"p"}, MAX_RESOURCES |-> 1,
   MAX_RETRANSMIT |-> 0, IdSpace |-> 3, MaxRequests |-> 2, MaxReboots |-> 0]
ClientValues ==
  [Nodes |-> {"a", "f"}, Foreign |-> {"f"}, Clients |-> {"a"}, Paths |-> {"p", "q"}, MAX_RESOURCES |-> 1,
   MAX_RETRANSMIT |-> 1, IdSpace |-> 4, MaxRequests |-> 2, MaxReboots |-> 0]
RestartValues == [ClientValues EXCEPT !.Paths = {"p"}, !.MaxRequests = 1, !.MaxReboots = 1]
Exchange(k) == INSTANCE Coap WITH
  Nodes <- k.Nodes, Foreign <- k.Foreign, Clients <- k.Clients, Paths <- k.Paths, MAX_RESOURCES <- k.MAX_RESOURCES,
  MAX_RETRANSMIT <- k.MAX_RETRANSMIT, IdSpace <- k.IdSpace, MaxRequests <- k.MaxRequests, MaxReboots <- k.MaxReboots,
  node <- s1, net <- s2, got <- s3, ran <- s4, calls <- s5, asked <- s6, reboots <- s7, taken <- s8, ignored <- s9

\* TFTP: one transfer, of a file of one full block and one short one.
TftpValues == [Blocks |-> 2, Confusions |-> {}, MaxTransfers |-> 1, MaxGiven |-> 4]
File == INSTANCE Tftp WITH
  Blocks <- TftpConst.Blocks, Confusions <- TftpConst.Confusions, MaxTransfers <- TftpConst.MaxTransfers,
  MaxGiven <- TftpConst.MaxGiven,
  c <- s1, net <- s2, started <- s3, given <- s4, stored <- s5

\* DNS: two names, one of two labels, in a cache of one entry.
Replies ==
  LET reply(rcode, tc, records, fits) == [rcode |-> rcode, tc |-> tc, records |-> records, fits |-> fits]
  IN {reply(0, FALSE, <<"CNAME", "A">>, 2), reply(0, FALSE, <<"CNAME", "A">>, 1), reply(3, FALSE, <<>>, 0),
      reply(0, TRUE, <<"A">>, 1)}
DnsValues ==
  [Names |-> {<<3>>, <<4, 3>>}, Hash |-> [x \in {<<3>>, <<4, 3>>} |-> Len(x)], Servers |-> {"s", "t"},
   Shapes |-> Replies, Ttls |-> {0, 2}, CACHE_SIZE |-> 1, MAX_RETRIES |-> 2, MAX_HOSTNAME |-> 20, IdSpace |-> 2,
   MaxCalls |-> 4, MaxTime |-> 2]
Resolver == INSTANCE Dns WITH
  Names <- DnsConst.Names, Hash <- DnsConst.Hash, Servers <- DnsConst.Servers, Shapes <- DnsConst.Shapes,
  Ttls <- DnsConst.Ttls, CACHE_SIZE <- DnsConst.CACHE_SIZE, MAX_RETRIES <- DnsConst.MAX_RETRIES,
  MAX_HOSTNAME <- DnsConst.MAX_HOSTNAME, IdSpace <- DnsConst.IdSpace, MaxCalls <- DnsConst.MaxCalls,
  MaxTime <- DnsConst.MaxTime,
  d <- s1, net <- s2, now <- s3, cache <- s4, calls <- s5, asked <- s6

\* DHCP: a client between two servers; a server with three clients for two
\* addresses.
DhcpValues ==
  [Servers |-> {"s", "t"}, Offers |-> [x \in {"s", "t"} |-> IF x = "s" THEN "i" ELSE "j"], Static |-> "k",
   MAX_RETRIES |-> 3, MaxCalls |-> 3]
Lease == INSTANCE Dhcp WITH
  Servers <- DhcpConst.Servers, Offers <- DhcpConst.Offers, Static <- DhcpConst.Static,
  MAX_RETRIES <- DhcpConst.MAX_RETRIES, MaxCalls <- DhcpConst.MaxCalls,
  c <- s1, net <- s2, addr <- s3, acked <- s4, calls <- s5
DhcpsValues ==
  [Macs |-> {"a", "b", "c"}, CLIENTS |-> 2, OFFER_SEC |-> 1, LEASE_SEC |-> 3, DECLINE_SEC |-> 2, REPLY_SEC |-> 2,
   MaxTime |-> 5]
Leases == INSTANCE Dhcps WITH
  Macs <- DhcpsConst.Macs, CLIENTS <- DhcpsConst.CLIENTS, OFFER_SEC <- DhcpsConst.OFFER_SEC,
  LEASE_SEC <- DhcpsConst.LEASE_SEC, DECLINE_SEC <- DhcpsConst.DECLINE_SEC, REPLY_SEC <- DhcpsConst.REPLY_SEC,
  MaxTime <- DhcpsConst.MaxTime,
  up <- s1, leases <- s2, now <- s3, reply <- s4, held <- s5

\* Time: the days where years, leap years and centuries begin and end.
Clock == INSTANCE TimeAndLog WITH
  MAX_RETRIES <- 3, MaxPayload <- {24}, Texts <- {0, 1, 8, 9, 40}, MaxCalls <- 3,
  WireDays <- {0, 1, 25566, 25567, 25625, 25626, 26356, 36582, 36583, 36584, 36889, 36890, 49709, 49710},
  WireSeconds <- {0, 59, 3600, 86399},
  t <- s1, log <- s2, calls <- s3
Logger == INSTANCE TimeAndLog WITH
  MAX_RETRIES <- 3, MaxPayload <- 5..24, Texts <- {0, 1, 8, 9, 40}, MaxCalls <- 3,
  WireDays <- {0}, WireSeconds <- {0},
  t <- s1, log <- s2, calls <- s3

(***************************************************************************)
(* Over TCP.                                                               *)
(***************************************************************************)
\* TLS: servers of either version or both, whose chain and signature are good or not.
T == INSTANCE Tls WITH
  Servers <- [speaks : {{"12"}, {"13"}, {"12", "13"}}, chain : {"good", "bad", "unreadable"}, sig : BOOLEAN],
  HS_BUF <- 8, Request <- 2, Response <- 3, MaxRecord <- 2, MaxDials <- 0,
  c <- s1, s <- s2, up <- s3, down <- s4, broken <- s5, sink <- s6

\* TLS with a shared key: servers with the key, in each of their ways, and without.
PskServers ==
  LET server(psk, binder, ap) == [psk |-> psk, binder |-> binder, bundle |-> FALSE, ap |-> ap, big |-> FALSE]
      like == server("same", "lengths", "CF")
  IN {like, [like EXCEPT !.bundle = TRUE], [like EXCEPT !.big = TRUE], server("same", "lengths", "SF"),
      server("same", "identities", "SF")} \cup {[like EXCEPT !.psk = psk] : psk \in {"unknown", "none", "odd"}}
P == INSTANCE Tls WITH
  Servers <- PskServers, HS_BUF <- 0, Request <- 2, Response <- 3, MaxRecord <- 2, MaxDials <- 2,
  c <- s1, s <- s2, up <- s3, down <- s4, broken <- s5, sink <- s6

\* HTTP: a request and its answer, over the first connection or a second; and
\* the parser alone, on any bytes.
RequestLengths ==
  LET lengths(method, path, host, key, body) ==
        [method |-> method, path |-> path, host |-> host, key |-> key, body |-> body]
  IN {lengths(3, 3, 9, 0, 0), lengths(4, 8, 9, 0, 0)}
HttpValues ==
  [Answers |-> {<<118, 32, 50, 48, 48, 13, 10, 120, 13, 10, 13, 10, 65, 66, 67>>, <<118, 32, 52, 48, 52, 10, 13, 10,
    120>>},
   Lengths |-> RequestLengths, REQ_BUF |-> 60, BODY_MAX |-> 2, Bytes |-> {32, 50, 13, 10, 120}, MaxBytes |-> 7]
H == INSTANCE Http WITH
  Answers <- HttpConst.Answers, Lengths <- HttpConst.Lengths, REQ_BUF <- HttpConst.REQ_BUF,
  BODY_MAX <- HttpConst.BODY_MAX, Bytes <- HttpConst.Bytes, MaxBytes <- HttpConst.MaxBytes,
  h <- s1, conns <- s2, dns <- s3, srv <- s4

\* What the theorems of ServiceProofs assume of the constants holds of these values.
ASSUME ServiceBounds ==
  /\ U!Bounds /\ R!Bounds /\ File!Bounds /\ Resolver!Bounds /\ Leases!Bounds /\ H!Bounds /\ S!Bounds
  /\ W(StationConst)!Bounds /\ W(LifeConst)!Bounds /\ Exchange(ServerConst)!Bounds /\ Exchange(ClientConst)!Bounds

\* Certificates: two authorities under one root, and a leaf, each with the
\* faults a chain can have.
Day(y) == [tag |-> "gen", y |-> y, m |-> 1, d |-> 1]
Cert(subject, issuer, ca, path) ==
  [subject |-> subject, issuer |-> issuer, key |-> subject, signer |-> issuer, alg |-> "p256", ca |-> ca, path |-> path,
   from |-> Day(2020), to |-> Day(2030), ku |-> "none", eku |-> "none", san |-> {<<"www", "org">>}]
Leaf == Cert("leaf", "A", FALSE, -1)
Shown ==
  {Leaf, [Leaf EXCEPT !.san = {<<"*", "org">>}], [Leaf EXCEPT !.san = {<<"www">>, <<"*", "www", "org">>}],
   [Leaf EXCEPT !.eku = "server"], [Leaf EXCEPT !.eku = "other"], [Leaf EXCEPT !.to = [Day(23) EXCEPT !.tag = "utc"]],
   [Leaf EXCEPT !.from = [Day(2020) EXCEPT !.m = 13]], [Leaf EXCEPT !.signer = "forger"], [Leaf EXCEPT !.alg = "rsa"],
   Cert("leaf", "root", FALSE, -1), Cert("A", "root", TRUE, -1), Cert("root", "root", TRUE, -1)} \union
  {Cert(ab[1], ab[2], ca, path) : ab \in {<<"A", "B">>, <<"B", "root">>}, ca \in BOOLEAN, path \in {-1, 0, 1}} \union
  {[Cert("A", "root", TRUE, -1) EXCEPT !.ku = ku] : ku \in {"sign", "other"}}
X == INSTANCE X509 WITH
  Certs <- Shown, Roots <- <<Cert("old", "old", TRUE, -1), Cert("root", "root", TRUE, -1)>>,
  Host <- <<"www", "org">>, Now <- 20000, MaxChain <- 3,
  chain <- s1, verdict <- s2

(***************************************************************************)
(* The scenarios.                                                          *)
(***************************************************************************)
Unused10 == s10 = NULL
Unused8 == s8 = NULL /\ s9 = NULL /\ Unused10
Unused7 == s7 = NULL /\ Unused8
Unused6 == s6 = NULL /\ Unused7
Unused5 == s5 = NULL /\ Unused6
Unused4 == s4 = NULL /\ Unused5
Unused3 == s3 = NULL /\ Unused4
InitIs(name, init, rest) == scenario = name /\ init /\ rest
Init ==
  \/ InitIs("slip", S!Init, Unused8)
  \/ InitIs("ip", U!Init, TRUE)
  \/ InitIs("station", W(StationConst)!Init, Unused6)
  \/ InitIs("life", W(LifeConst)!Init, Unused6)
  \/ InitIs("router", R!Init, Unused6)
  \/ InitIs("receive", In!Init, Unused10)
  \/ InitIs("send", Out!Init, Unused10)
  \/ InitIs("server", Exchange(ServerConst)!Init, Unused10)
  \/ InitIs("client", Exchange(ClientConst)!Init, Unused10)
  \/ InitIs("restart", Exchange(RestartConst)!Init, Unused10)
  \/ InitIs("tftp", File!Init, Unused6)
  \/ InitIs("dns", Resolver!Init, Unused7)
  \/ InitIs("dhcp", Lease!Init, Unused6)
  \/ InitIs("dhcps", Leases!Init, Unused6)
  \/ InitIs("time", Clock!Init, Unused4)
  \/ InitIs("log", Logger!Init, Unused4)
  \/ InitIs("tls", T!Init, Unused7)
  \/ InitIs("psk", P!PskInit, Unused7)
  \/ InitIs("http", H!Init, Unused5)
  \/ InitIs("parser", H!Init, Unused5)
  \/ InitIs("chain", X!Init, Unused3)

NextIs(name, next, rest) == scenario = name /\ next /\ UNCHANGED <<scenario, rest>>
ClientNext == NextIs("client", Exchange(ClientConst)!Next, <<s10>>)
TftpNext == NextIs("tftp", File!Next, <<s6, s7, s8, s9, s10>>)
PskNext == NextIs("psk", P!PskNext, <<s7, s8, s9, s10>>)
Next ==
  \/ NextIs("slip", S!Next, <<s8, s9, s10>>)
  \/ NextIs("ip", U!Next, <<>>)
  \/ NextIs("station", W(StationConst)!StationNext, <<s6, s7, s8, s9, s10>>)
  \/ NextIs("life", W(LifeConst)!Next, <<s6, s7, s8, s9, s10>>)
  \/ NextIs("router", R!Next, <<s6, s7, s8, s9, s10>>)
  \/ NextIs("receive", In!Next, <<s10>>)
  \/ NextIs("send", Out!Next, <<s10>>)
  \/ NextIs("server", Exchange(ServerConst)!Next, <<s10>>)
  \/ ClientNext
  \/ NextIs("restart", Exchange(RestartConst)!Next, <<s10>>)
  \/ TftpNext
  \/ NextIs("dns", Resolver!Next, <<s7, s8, s9, s10>>)
  \/ NextIs("dhcp", Lease!Next, <<s6, s7, s8, s9, s10>>)
  \/ NextIs("dhcps", Leases!Next, <<s6, s7, s8, s9, s10>>)
  \/ NextIs("time", Clock!NtpNext, <<s4, s5, s6, s7, s8, s9, s10>>)
  \/ NextIs("log", Logger!LogNext, <<s4, s5, s6, s7, s8, s9, s10>>)
  \/ NextIs("tls", T!Next, <<s7, s8, s9, s10>>)
  \/ PskNext
  \/ NextIs("http", H!Next, <<s5, s6, s7, s8, s9, s10>>)
  \/ NextIs("parser", H!FeedNext, <<s5, s6, s7, s8, s9, s10>>)
  \/ NextIs("chain", X!Next, <<s3, s4, s5, s6, s7, s8, s9, s10>>)

\* The CoAP process calls coap_poll for ever, the caller of resolve dns_poll and
\* the network process dhcp_poll.
CoapPoll == NextIs("restart", \E sent \in BOOLEAN : Exchange(RestartConst)!Poll("a", TRUE, sent), <<s10>>)
DnsPoll == NextIs("dns", Resolver!Poll, <<s7, s8, s9, s10>>)
DhcpPoll == NextIs("dhcp", Lease!ProcessPoll, <<s6, s7, s8, s9, s10>>)
Spec == Init /\ [][Next]_vars /\ WF_vars(CoapPoll) /\ WF_vars(DnsPoll) /\ WF_vars(DhcpPoll)

\* One scenario alone.
ClientSpec == Init /\ scenario = "client" /\ [][ClientNext]_vars
TftpSpec == Init /\ scenario = "tftp" /\ [][TftpNext]_vars
PskSpec == Init /\ scenario = "psk" /\ [][PskNext]_vars

(***************************************************************************)
(* Properties.                                                             *)
(***************************************************************************)
\* slip_decode and slip_send: whatever bytes the packets hold, they come out
\* whole, once and in order; an oversize packet is dropped alone, and
\* ipv4_get_buf in the middle of a frame costs that frame and no other.
FramesIntact == scenario = "slip" => S!Transparent /\ S!LossIsLocal

\* udp_input: a datagram goes to the one callback bound to the port it names,
\* which sees that datagram for as long as it runs; the guard is up exactly then.
DatagramsIntact == scenario = "ip" => U!DispatchIsExact /\ U!CallbackDataIntact /\ U!GuardIsTight

\* wifi_send and the link process: a frame goes to the station its next hop was
\* last heard from, and nothing of a network that is lost remains.
StationSound ==
  /\ scenario = "station" => W(StationConst)!Addressed /\ W(StationConst)!NothingOfTheLast
  /\ scenario = "life" => W(LifeConst)!Addressed /\ W(LifeConst)!NothingOfTheLast

\* router_input: a client is only given answers to packets of its own.
Translates == scenario = "router" => R!Translates

\* absorb and flush_out: however TCP cuts the streams, messages that fit are
\* delivered once and in order, what TCP took and what waits are the accepted
\* messages, and a link that is open has a connection, a redial or a flush coming.
MessagesWhole ==
  /\ scenario = "receive" => In!InStep
  /\ scenario = "send" => Out!WholeMessages /\ Out!NotStranded

\* coap_poll: with late and repeated answers about, a callback is called at most
\* once, and with the response to its own request; handle_request: "duplicate,
\* ignore (response already sent)".
ExchangesMatch ==
  /\ scenario = "client" => Exchange(ClientConst)!ResponseMatches
  /\ scenario = "server" => Exchange(ServerConst)!IgnoredWereTaken

\* tftp_poll: a get that completes has given data_cb every block of the file, and
\* a block of a put is sent under its own number, however the ACKs come; the port
\* is held exactly while a transfer is active.
TransferSound == scenario = "tftp" => File!GetWhole /\ File!BlocksInPlace /\ File!PortHeld

\* dns_poll and resolve: an address is the one a server gave for that very name,
\* fresh or from the cache; the port is held exactly while a query is out.
NamesResolve == scenario = "dns" => Resolver!AnswersTheQuestion /\ Resolver!PortHeld

\* dhcp_poll and the server's request handler: the client has no address but one
\* that was acknowledged to it, and no two clients one address.
LeasesHeld ==
  /\ scenario = "dhcp" => Lease!AddressGranted /\ Lease!PortHeld
  /\ scenario = "dhcps" => Leases!OneOwner

\* ntp_poll, get_tm and syslog_send: the date of every day is the calendar's, also
\* by the reckoning the certificates use; a log line never outgrows its buffer.
TimesAndLines ==
  /\ scenario = "time" =>
       /\ Clock!Calendar /\ Clock!PortHeld
       /\ LET tm == Clock!time_to_tm(s1.time) IN X!days_from_civil(tm.year, tm.month, tm.day) = s1.time.day
  /\ scenario = "log" => Logger!LogFits

\* tls13_connect, tls12_connect and verify_chain_store: a connection opens only to
\* a server that showed a chain from a root to the name asked for and signed
\* this very handshake, or that holds the shared key, and what it sends is read
\* in order.
PeerIsGenuine ==
  /\ scenario = "psk" => P!PskExact /\ P!PskInOrder
  /\ scenario = "tls" => T!HandshakeExact /\ T!AnswerInOrder
  /\ scenario = "chain" => X!ChainAuthentic

\* http_execute: the body is the answer's, cut only where there is no more room;
\* when it returns nothing is left open.
AnswerSound ==
  /\ scenario \in {"http", "parser"} => H!AnswerSound
  /\ scenario = "http" => H!NothingLeft

\* Every confirmable request and query ends, with the network silent for ever too;
\* and every negotiation, once no more offers come.
Resolves ==
  /\ (scenario = "restart" /\ s1["a"].con.active) ~> (scenario = "restart" /\ ~s1["a"].con.active)
  /\ (scenario = "dns" /\ s1.st = "SENT") ~> (scenario = "dns" /\ s1.st # "SENT")
  /\ <>[](scenario = "dhcp" /\ s1.evt = "NONE")
       => ((scenario = "dhcp" /\ Lease!Negotiating) ~> (scenario = "dhcp" /\ ~Lease!Negotiating))

\* response_cb_t: "Called from coap_poll() when a matching response arrives."
SeparateHeard == [][Exchange(ClientConst)!SeparateHeard]_vars

\* tftp_poll: "the ACK for it, the transfer is complete".
PutComplete == File!PutComplete

\* tiku_kits_crypto_tls_keysched.h: "client_app_traffic_secret (CH..SF transcript)".
AppKeysOverFinished == P!AppKeysOverFinished
=============================================================================
