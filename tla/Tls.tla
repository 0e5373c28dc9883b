-------------------------------- MODULE Tls --------------------------------
(***************************************************************************)
(* TLS.  First, HTTPS with certificates: the TLS 1.3 and TLS 1.2 clients   *)
(* (tiku_kits_crypto_tls13.c, tiku_kits_crypto_tls12.c) under              *)
(* tiku_kits_http_cert_exchange, with a server of another make that cuts   *)
(* its messages into records as it likes, over a connection that may end   *)
(* at any moment.  A hash is the sequence it was taken of and a key names  *)
(* the transcript it was derived from, so that two sides hold one key      *)
(* exactly when they hashed the same messages.  Then the client with a      *)
(* shared key, which is a program of its own.                              *)
(***************************************************************************)
EXTENDS Integers, Sequences

CONSTANTS
  Servers,     \* what the server speaks and shows: [speaks, chain, sig]
  HS_BUF,      \* room for the server's flight, in halves of a message
  Request, Response,        \* units of data either way
  MaxRecord,   \* bound on the units in a record of the server
  MaxDials     \* bound on the connections with a shared key

VARIABLES
  c,           \* the client: the call it is in and the connection it keeps
  s,           \* the server
  up, down,    \* records under way, client to server and back
  broken,      \* the connection has ended
  sink         \* what the sink of the response was given

vars == <<c, s, up, down, broken, sink>>

(***************************************************************************)
(* State.                                                                  *)
(***************************************************************************)
Key(name, th) == <<name, th>>
Client(ver) ==
  [ver |-> ver, st |-> "hello", th |-> <<"CH" \o ver>>, buf |-> <<>>, total |-> 0, cv |-> <<>>,
   certs |-> FALSE, leaf |-> FALSE, fin |-> FALSE, key |-> Key("none", <<>>), cseq |-> 0, sseq |-> 0,
   rx |-> <<>>, closed |-> FALSE, sent |-> 0]
Server(cfg) ==
  [cfg |-> cfg, st |-> "idle", th |-> <<>>, todo |-> <<>>, cseq |-> 0, sseq |-> 0, got |-> 0,
   given |-> 0, empty |-> FALSE, ticket |-> FALSE]

Plain(type, body) == [type |-> type, key |-> Key("none", <<>>), seq |-> 0, inner |-> type, body |-> body]
Sealed(key, seq, inner, body) == [type |-> "app", key |-> key, seq |-> seq, inner |-> inner, body |-> body]
Sealed12(type, key, seq, body) == [type |-> type, key |-> key, seq |-> seq, inner |-> type, body |-> body]

Init ==
  /\ c = Client("13")
  /\ \E cfg \in Servers : s = Server(cfg)
  /\ up = <<Plain("hs", <<"CH13">>)>> /\ down = <<>> /\ broken = FALSE /\ sink = <<>>

\* A message with what its author hashed before it.
Hashed(m, th) == [m |-> m, over |-> th]
\* Both halves of a message; the second holds what it covers.
Halves(m) == <<[m |-> m, half |-> 1], [m |-> m, half |-> 2]>>
Parts(fl) == [i \in 1..(2 * Len(fl)) |-> Halves(fl[(i + 1) \div 2])[2 - (i % 2)]]

(***************************************************************************)
(* The server: another make, which does what the protocol says.            *)
(***************************************************************************)
Flight13(th) ==
  LET ee == th \o <<"EE">>
      cert == ee \o <<"CERT">>
      cv == cert \o <<"CV">>
  IN <<Hashed("EE", <<>>), Hashed("CERT", <<>>), Hashed("CV", cert), Hashed("FIN", cv)>>
Flight12 == <<Hashed("SH", <<>>), Hashed("CERT", <<>>), Hashed("SKE", <<>>), Hashed("SHD", <<>>)>>
Names(flight) == [i \in DOMAIN flight |-> flight[i].m]

\* Middle boxes make servers send a change of cipher spec after their hello.
ServerHello ==
  /\ s.st = "idle" /\ up # <<>> /\ ~broken
  /\ LET ver == c.ver
         th == <<"CH" \o ver>>
     IN IF ver \notin s.cfg.speaks
        THEN s' = [s EXCEPT !.st = "over"] /\ down' = <<Plain("alert", <<>>)>>
        ELSE IF ver = "13"
        THEN LET fl == Flight13(th \o <<"SH">>) IN
             /\ \E ccs \in BOOLEAN :
                  down' = <<Plain("hs", <<"SH">>)>> \o (IF ccs THEN <<Plain("ccs", <<>>)>> ELSE <<>>)
             /\ s' = [s EXCEPT !.st = "flight", !.th = th \o <<"SH">> \o Names(fl), !.sseq = 0,
                               !.todo = Parts(fl)]
        ELSE /\ down' = <<>>
             /\ s' = [s EXCEPT !.st = "flight", !.th = th \o Names(Flight12),
                               !.todo = Parts(Flight12)]
  /\ up' = Tail(up)
  /\ UNCHANGED <<c, broken, sink>>

\* The next halves of its flight, as many in a record as it likes.
ServerFlight(n) ==
  /\ s.st = "flight" /\ n \in 1..Len(s.todo) /\ ~broken
  /\ LET part == SubSeq(s.todo, 1, n)
     IN down' = Append(down, IF c.ver = "13" THEN Sealed(Key("hs", SubSeq(s.th, 1, 2)), s.sseq, "hs", part)
                             ELSE Plain("hs", part))
  /\ s' = [s EXCEPT !.todo = SubSeq(@, n + 1, Len(@)), !.sseq = IF c.ver = "13" THEN @ + 1 ELSE @,
                    !.st = IF n = Len(s.todo) THEN "finish" ELSE @]
  /\ UNCHANGED <<c, up, broken, sink>>

\* The client's last messages; in TLS 1.2 the server's Finished follows.
ServerFinish ==
  /\ s.st = "finish" /\ ~broken
  /\ IF c.ver = "13"
     THEN /\ Len(up) >= 2
          /\ s' = [s EXCEPT !.cseq = 0, !.sseq = 0,
                            !.st = IF up[2].key = Key("c hs", SubSeq(s.th, 1, 2)) /\ up[2].seq = 0
                                      /\ up[2].body = <<Hashed("FIN", s.th)>> THEN "open" ELSE "over"]
          /\ up' = SubSeq(up, 3, Len(up)) /\ UNCHANGED down
     ELSE /\ Len(up) >= 3
          /\ LET th == s.th \o <<"CKE">>
                 all == th \o <<"FIN">>
                 ok == up[3].key = Key("12", SubSeq(s.th, 1, 2)) /\ up[3].seq = 0
                       /\ up[3].body = <<Hashed("FIN", th)>>
             IN /\ s' = [s EXCEPT !.th = all, !.cseq = 1, !.sseq = 1, !.st = IF ok THEN "open" ELSE "over"]
                /\ down' = down \o (IF ok THEN <<Plain("ccs", <<>>), Sealed12("hs", Key("12", SubSeq(s.th, 1, 2)), 0,
                                                                              <<Hashed("FIN", all)>>)>> ELSE <<>>)
          /\ up' = SubSeq(up, 4, Len(up))
  /\ UNCHANGED <<c, broken, sink>>

AppKey(side) ==
  CASE c.ver = "13" -> Key(side, s.th)
    [] c.ver = "12" -> Key("12", SubSeq(s.th, 1, 2))
    [] c.ver = "psk" -> Key(side, IF s.cfg.ap = "SF" THEN s.th ELSE Append(s.th, "CF"))
ServerTakes ==
  /\ s.st = "open" /\ up # <<>> /\ ~broken
  /\ s' = IF Head(up).key = AppKey("c ap") /\ Head(up).seq = s.cseq
          THEN [s EXCEPT !.cseq = @ + 1, !.got = @ + Len(Head(up).body)] ELSE [s EXCEPT !.st = "over"]
  /\ up' = Tail(up)
  /\ UNCHANGED <<c, down, broken, sink>>

ServerRecord(inner, n) ==
  IF c.ver # "12" THEN Sealed(AppKey("s ap"), s.sseq, inner, [i \in 1..n |-> s.given + i])
  ELSE Sealed12(IF inner = "app" THEN "app" ELSE inner, AppKey("s ap"), s.sseq, [i \in 1..n |-> s.given + i])

\* A record of the answer, which may be empty, a session ticket, or the close.
ServerGives(inner, n) ==
  /\ s.st = "open" /\ s.got = Request /\ s.given + n <= Response /\ ~broken
  /\ down' = Append(down, ServerRecord(inner, n))
  /\ \/ inner = "app" /\ (n = 0 => ~s.empty)
     \/ inner = "hs" /\ n = 0 /\ c.ver # "12" /\ s.sseq = 0
     \/ inner = "alert" /\ n = 0 /\ s.given = Response
  /\ s' = [s EXCEPT !.sseq = @ + 1, !.given = @ + n, !.empty = @ \/ (inner = "app" /\ n = 0),
                    !.ticket = @ \/ inner = "hs", !.st = IF inner = "alert" THEN "over" ELSE @]
  /\ UNCHANGED <<c, up, broken, sink>>

\* The connection ends, with the last records or without, or the deadline of
\* http_cert_recv passes.
Break ==
  /\ ~broken /\ broken' = TRUE
  /\ \E n \in 0..Len(down) : down' = SubSeq(down, 1, n)
  /\ UNCHANGED <<c, s, up, sink>>

(***************************************************************************)
(* The client's handshake.                                                 *)
(***************************************************************************)
Fail(k) == [k EXCEPT !.st = "failed"]
Receiving == down # <<>> \/ broken

\* One message of the flight; the transcript is read before it is hashed in.
Takes13(k, m) ==
  LET in == [k EXCEPT !.th = Append(@, m.m)]
  IN CASE k.st = "failed" -> k
       [] m.m = "CERT" -> IF s.cfg.chain = "unreadable" THEN Fail(k) ELSE [in EXCEPT !.certs = TRUE]
       [] m.m = "CV" -> IF k.certs /\ m.over = k.th /\ s.cfg.sig THEN [in EXCEPT !.leaf = TRUE] ELSE Fail(k)
       [] m.m = "FIN" -> IF m.over = k.th THEN [in EXCEPT !.fin = TRUE] ELSE Fail(k)
       [] OTHER -> in
\* In TLS 1.2 the signature is in the SKE.  The mutant hashes the SKE not at all.
Takes12_late_hash(k, m) ==
  LET in == [k EXCEPT !.th = Append(@, m.m)]
  IN CASE k.st = "failed" \/ k.fin -> k
       [] m.m = "CERT" -> IF s.cfg.chain = "unreadable" THEN Fail(k) ELSE [in EXCEPT !.certs = TRUE]
       [] m.m = "SKE" -> [k EXCEPT !.leaf = TRUE]
       [] m.m = "SHD" -> [in EXCEPT !.fin = TRUE]
       [] OTHER -> in
Takes12(k, m) ==
  LET in == [k EXCEPT !.th = Append(@, m.m)]
  IN CASE k.st = "failed" \/ k.fin -> k
       [] m.m = "CERT" -> IF s.cfg.chain = "unreadable" THEN Fail(k) ELSE [in EXCEPT !.certs = TRUE]
       [] m.m = "SKE" -> [in EXCEPT !.leaf = TRUE]
       [] m.m = "SHD" -> [in EXCEPT !.fin = TRUE]
       [] OTHER -> in

\* The whole messages at the front of the buffer.
Whole(buf) == LET n == Len(buf) \div 2 IN [i \in 1..n |-> buf[2 * i].m]
Fed(k, part) ==
  LET buf == k.buf \o part
      msgs == Whole(buf)
      k1 == [k EXCEPT !.total = @ + Len(part), !.buf = SubSeq(buf, 2 * Len(msgs) + 1, Len(buf))]
      after[i \in 0..Len(msgs)] ==
        IF i = 0 THEN k1
        ELSE IF c.ver = "13" THEN Takes13(after[i - 1], msgs[i]) ELSE Takes12(after[i - 1], msgs[i])
  IN after[Len(msgs)]

\* verify_chain_store, and in TLS 1.2 the signature of the key exchange.
Trusted(k) == k.certs /\ k.leaf /\ s.cfg.chain = "good" /\ (c.ver = "12" => s.cfg.sig)

\* Client Finished and the keys of the data.
Finish13(k) ==
  IF ~Trusted(k) THEN /\ c' = Fail(k) /\ UNCHANGED up
  ELSE /\ c' = [k EXCEPT !.st = "open", !.cseq = 0, !.sseq = 0, !.key = Key("ap", k.th)]
       /\ up' = up \o <<Plain("ccs", <<>>), Sealed(Key("c hs", SubSeq(k.th, 1, 2)), 0, "hs", <<Hashed("FIN", k.th)>>)>>
Finish12(k) ==
  IF ~Trusted(k) THEN /\ c' = Fail(k) /\ UNCHANGED up
  ELSE LET th == Append(k.th, "CKE")
       IN /\ c' = [k EXCEPT !.st = "finish", !.th = Append(th, "FIN"), !.cseq = 1,
                           !.key = Key("12", SubSeq(k.th, 1, 2))]
          /\ up' = up \o <<Plain("hs", <<"CKE">>), Plain("ccs", <<>>),
                           Sealed12("hs", Key("12", SubSeq(k.th, 1, 2)), 0, <<Hashed("FIN", th)>>)>>

\* TLS 1.3 reads its hello alone; every record after that is sealed.
Hello13 ==
  /\ c.st = "hello" /\ c.ver = "13" /\ Receiving
  /\ c' = IF down # <<>> /\ Head(down).type = "hs" THEN [c EXCEPT !.st = "flight", !.th = Append(@, "SH")]
          ELSE Fail(c)
  /\ down' = IF down # <<>> THEN Tail(down) ELSE down
  /\ UNCHANGED <<s, up, broken, sink>>

Flight13Record ==
  /\ c.st = "flight" /\ c.ver = "13" /\ Receiving
  /\ IF down = <<>> THEN c' = Fail(c) /\ UNCHANGED <<up, down>>
     ELSE LET r == Head(down)
              opens == r.type = "app" /\ c.total + Len(r.body) <= HS_BUF
                       /\ r.key = Key("hs", SubSeq(c.th, 1, 2)) /\ r.seq = c.sseq /\ r.inner = "hs"
              k == Fed([c EXCEPT !.sseq = @ + 1], r.body)
          IN /\ down' = Tail(down)
             /\ IF r.type = "ccs" THEN UNCHANGED <<c, up>>
                ELSE IF ~opens THEN c' = Fail(c) /\ UNCHANGED up
                ELSE IF k.st = "failed" \/ ~k.fin THEN c' = k /\ UNCHANGED up
                ELSE Finish13(k)
  /\ UNCHANGED <<s, broken, sink>>

Flight12Record ==
  /\ c.st = "hello" /\ c.ver = "12" /\ Receiving
  /\ IF down = <<>> THEN c' = Fail(c) /\ UNCHANGED <<up, down>>
     ELSE LET r == Head(down)
              k == Fed(c, r.body)
          IN /\ down' = Tail(down)
             /\ IF r.type = "ccs" THEN UNCHANGED <<c, up>>
                ELSE IF r.type # "hs" \/ c.total + Len(r.body) > HS_BUF THEN c' = Fail(c) /\ UNCHANGED up
                ELSE IF k.st = "failed" \/ ~k.fin THEN c' = k /\ UNCHANGED up
                ELSE Finish12(k)
  /\ UNCHANGED <<s, broken, sink>>

\* TLS 1.2 waits for the server's change of cipher spec and its Finished.
Finished12 ==
  /\ c.st = "finish" /\ (Len(down) >= 2 \/ broken)
  /\ c' = IF Len(down) >= 2 /\ down[1].type = "ccs" /\ down[2].type = "hs" /\ down[2].key = c.key
             /\ down[2].seq = c.sseq /\ down[2].body = <<Hashed("FIN", c.th)>>
          THEN [c EXCEPT !.st = "open", !.sseq = @ + 1] ELSE Fail(c)
  /\ down' = IF Len(down) >= 2 THEN SubSeq(down, 3, Len(down)) ELSE <<>>
  /\ UNCHANGED <<s, up, broken, sink>>

\* A TLS 1.3 handshake that failed, whatever the reason, is tried as TLS 1.2 over
\* a connection of its own.
Reconnect ==
  /\ c.st = "failed" /\ c.ver = "13"
  /\ c' = Client("12")
  /\ s' = Server(s.cfg)
  /\ up' = <<Plain("hs", <<"CH12">>)>> /\ down' = <<>> /\ broken' = FALSE
  /\ UNCHANGED sink

(***************************************************************************)
(* Data.                                                                   *)
(***************************************************************************)
\* One record a chunk, each with a sequence number of its own.
Write ==
  /\ c.st = "open" /\ c.sent < Request
  /\ IF broken THEN c' = Fail(c) /\ UNCHANGED up
     ELSE /\ up' = Append(up, IF c.ver = "13" THEN Sealed(Key("c ap", c.key[2]), c.cseq, "app", <<c.sent + 1>>)
                              ELSE Sealed12("app", c.key, c.cseq, <<c.sent + 1>>))
          /\ c' = [c EXCEPT !.cseq = @ + 1, !.sent = @ + 1]
  /\ UNCHANGED <<s, down, broken, sink>>

Opens(r) ==
  /\ r.type = "app" /\ r.seq = c.sseq
  /\ r.key = IF c.ver = "13" THEN Key("s ap", c.key[2]) ELSE c.key

\* A record that is not the answer, or does not open, ends the answer; a ticket is
\* passed over.
ReadRecord ==
  /\ c.st = "open" /\ c.sent = Request /\ c.rx = <<>> /\ ~c.closed /\ Receiving
  /\ down' = IF down = <<>> THEN down ELSE Tail(down)
  /\ LET r == Head(down)
     IN c' = CASE down = <<>> -> [c EXCEPT !.closed = TRUE]
               [] down # <<>> /\ ~Opens(r) -> [c EXCEPT !.closed = TRUE]
               [] down # <<>> /\ Opens(r) /\ r.inner = "hs" -> [c EXCEPT !.sseq = @ + 1]
               [] down # <<>> /\ Opens(r) /\ r.inner = "alert" -> [c EXCEPT !.sseq = @ + 1, !.closed = TRUE]
               [] OTHER -> [c EXCEPT !.sseq = @ + 1, !.rx = r.body, !.closed = r.body = <<>>]
  /\ UNCHANGED <<s, up, broken, sink>>

\* tls13_read gives what is left of the record, as far as the buffer goes.
ReadMore ==
  /\ c.st = "open" /\ c.rx # <<>>
  /\ sink' = Append(sink, Head(c.rx))
  /\ c' = [c EXCEPT !.rx = Tail(@)]
  /\ UNCHANGED <<s, up, down, broken>>

Next ==
  \/ ServerHello \/ ServerFinish \/ ServerTakes \/ Break
  \/ \E n \in 1..8 : ServerFlight(n)
  \/ \E inner \in {"app", "hs", "alert"}, n \in 0..MaxRecord : ServerGives(inner, n)
  \/ Hello13 \/ Flight13Record \/ Flight12Record \/ Finished12 \/ Reconnect
  \/ Write \/ ReadRecord \/ ReadMore

(***************************************************************************)
(* The client with a shared key (psk/tiku_kits_crypto_tls.c), which has     *)
(* one connection and reads it in pieces, as TCP has them: a record has     *)
(* two units, and a piece up to three.  A transcript begins with the key    *)
(* the secrets come from.  Its callbacks are those of the TCP connection,   *)
(* as tiku_kits_crypto_tls.h says of connect, although no code of the tree  *)
(* installs them.  A server is a record [psk, binder, bundle, ap, big]:     *)
(* which key it answers with, what it holds that the binder of a hello      *)
(* covers, whether it puts its flight in one record, where the transcript   *)
(* of its application keys ends, and whether the records of its answer      *)
(* exceed RECORD_BUF_SIZE.                                                  *)
(***************************************************************************)
NoKey == Key("none", <<>>)
hs_traffic_secrets(th) == [client |-> Key("c hs", th), server |-> Key("hs", th)]
app_traffic_secrets(th) == [client |-> Key("c ap", th), server |-> Key("s ap", th)]
record_encrypt(k, inner, body) == Sealed(k.txkey, k.txseq, inner, body)
record_decrypt(k, r) == r.key = k.rxkey /\ r.seq = k.rxseq
\* The binder, by the key, covers the identities and, which the protocol leaves
\* out, the lengths that stand before the binder.
compute_binder(psk) == Hashed("CH", <<psk, "identities", "lengths">>)
parse_server_hello(r) == r.body = <<"SH">>
verify_finished(k, m) == m.over = k.th
build_finished(th) == Hashed("CF", th)

PskClient ==
  [ver |-> "psk", psk |-> FALSE, dials |-> 0, st |-> "idle", th |-> <<>>, rx |-> 0, off |-> FALSE,
   rxkey |-> NoKey, rxseq |-> 0, txkey |-> NoKey, txseq |-> 0, scratch |-> NoKey, avail |-> 0, hold |-> <<>>,
   sent |-> 0, crossed |-> FALSE, torn |-> FALSE, gap |-> FALSE, left |-> FALSE]
PskInit ==
  /\ c = PskClient
  /\ \E cfg \in Servers : s = Server(cfg)
  /\ up = <<>> /\ down = <<>> /\ broken = FALSE /\ sink = <<>>

set_psk ==
  /\ c.st = "idle" /\ ~c.psk /\ c' = [c EXCEPT !.psk = TRUE]
  /\ UNCHANGED <<s, up, down, broken, sink>>

\* Each connect has a TCP connection of its own.
PskConnect ==
  /\ c.psk /\ c.st \in {"idle", "error", "closing"} /\ c.dials < MaxDials
  /\ c' = [PskClient EXCEPT !.psk = TRUE, !.dials = c.dials + 1, !.st = "wait_sh", !.th = <<"psk", "CH">>]
  /\ s' = Server(s.cfg)
  /\ up' = <<Plain("hs", <<compute_binder("psk")>>)>> /\ down' = <<>> /\ broken' = FALSE /\ sink' = <<>>

\* A server that does not know the key, or does not agree with the binder, says
\* so; one may answer with another key, or with a hello that does not parse.
Binding == Hashed("CH", IF s.cfg.binder = "lengths" THEN <<"psk", "identities", "lengths">>
  ELSE <<"psk", "identities">>)
PskServerHello ==
  /\ s.st = "idle" /\ up # <<>> /\ ~broken
  /\ LET th == <<IF s.cfg.psk = "same" THEN "psk" ELSE "none", "CH", "SH">>
         fl == <<Hashed("EE", <<>>), Hashed("FIN", Append(th, "EE"))>>
         key == Key("hs", th)
     IN IF s.cfg.psk = "unknown" \/ Head(up).body # <<Binding>>
       THEN s' = [s EXCEPT !.st = "over"] /\ down' = <<Plain("alert", <<>>)>>
        ELSE /\ s' = [s EXCEPT !.st = "finish", !.th = th \o <<"EE", "FIN">>]
             /\ \E ccs \in BOOLEAN :
                  down' = <<Plain("hs", <<IF s.cfg.psk = "odd" THEN "odd" ELSE "SH">>)>>
                          \o (IF ccs THEN <<Plain("ccs", <<>>)>> ELSE <<>>)
                          \o (IF s.cfg.bundle THEN <<Sealed(key, 0, "hs", fl)>>
                              ELSE <<Sealed(key, 0, "hs", <<fl[1]>>), Sealed(key, 1, "hs", <<fl[2]>>)>>)
  /\ up' = Tail(up)
  /\ UNCHANGED <<c, broken, sink>>

PskServerFinish ==
  /\ s.st = "finish" /\ up # <<>> /\ ~broken
  /\ s' = [s EXCEPT !.st = IF Head(up) = Sealed(Key("c hs", SubSeq(s.th, 1, 3)), 0, "hs", <<Hashed("CF", s.th)>>)
                           THEN "open" ELSE "over"]
  /\ up' = Tail(up)
  /\ UNCHANGED <<c, down, broken, sink>>

\* tls_send_alert: sealed from WAIT_EE on, with a key that is zero until the
\* client's Finished.
Alerted(k) ==
  LET sealed == k.st \in {"wait_ee", "wait_fin", "established"}
  IN [c |-> [k EXCEPT !.st = "error", !.txseq = IF sealed THEN @ + 1 ELSE @],
      up |-> <<IF sealed THEN record_encrypt(k, "alert", <<>>) ELSE Plain("alert", <<>>)>>]
Quiet(k) == [c |-> k, up |-> <<>>]

\* The hello is hashed in before it is read; an extension that is absent counts
\* as index 0.
handle_server_hello(k, r) ==
  LET th == Append(k.th, "SH")
      in == [k EXCEPT !.th = th]
  IN CASE r.type # "hs" -> Alerted(k)
       [] r.type = "hs" /\ ~parse_server_hello(r) -> Alerted(in)
       [] OTHER -> Quiet([in EXCEPT !.st = "wait_ee", !.rxkey = hs_traffic_secrets(th).server, !.rxseq = 0,
                                    !.scratch = hs_traffic_secrets(th).client])

derive_app_keys(k, th) ==
  [k EXCEPT !.rxkey = app_traffic_secrets(th).server, !.rxseq = 0,
            !.txkey = app_traffic_secrets(th).client, !.txseq = 0]
\* The server's Finished, then the client's, then the keys of the data.
handle_finished(k, m) ==
  LET th == Append(k.th, "FIN")
      all == Append(th, "CF")
  IN IF ~verify_finished(k, m) THEN Alerted([k EXCEPT !.th = th])
     ELSE [c |-> derive_app_keys([k EXCEPT !.st = "established", !.th = all], all),
           up |-> <<Sealed(k.scratch, 0, "hs", <<build_finished(th)>>)>>]

\* One message a record is looked at.
handle_handshake(k, body) ==
  CASE k.st = "wait_ee" /\ Head(body).m = "EE" -> Quiet([k EXCEPT !.st = "wait_fin", !.th = Append(@, "EE")])
    [] k.st = "wait_fin" /\ Head(body).m = "FIN" -> handle_finished(k, Head(body))
    [] OTHER -> Alerted(k)

\* A record that was not read in time is lost to the next.
handle_application(k, body) ==
  IF k.st # "established" THEN Alerted(k)
  ELSE Quiet([k EXCEPT !.avail = Len(body), !.hold = body, !.torn = @ \/ k.avail > 0])

\* close_notify, the one alert the server sends.
handle_alert(k) == Quiet([k EXCEPT !.st = "closing"])

process_record(k, r) ==
  LET k1 == [k EXCEPT !.rxseq = @ + 1]
  IN CASE k.st = "wait_sh" -> handle_server_hello(k, r)
       [] k.st # "wait_sh" /\ r.type = "ccs" -> Quiet(k)
       [] k.st # "wait_sh" /\ r.type \notin {"ccs", "app"} -> Alerted(k)
       [] k.st # "wait_sh" /\ r.type = "app" ->
            IF ~record_decrypt(k, r) THEN Alerted(k)
            ELSE CASE r.inner = "hs" -> handle_handshake(k1, r.body)
                   [] r.inner = "app" -> handle_application(k1, r.body)
                   [] r.inner = "alert" -> handle_alert(k1)

\* tls_tcp_recv_cb: what a piece holds beyond the end of a record is dropped with
\* it, so that the rest of the next record is taken for a record of its own.
Dropped(n) == c.rx + n - 2
PskRecv(n) ==
  /\ c.st # "idle" /\ ~c.off /\ down # <<>> /\ c.rx + n <= 2 * Len(down)
  /\ IF Dropped(n) < 0
     THEN c' = [c EXCEPT !.rx = @ + n] /\ UNCHANGED <<up, down>>
     ELSE LET r == Head(down)
              big == r.inner = "app" /\ s.cfg.big
              done == IF big THEN Quiet([c EXCEPT !.st = "error", !.off = TRUE]) ELSE process_record(c, r)
          IN /\ c' = [done.c EXCEPT !.rx = 0, !.crossed = @ \/ Dropped(n) > 0,
                                    !.off = @ \/ Dropped(n) = 1]
             /\ up' = up \o done.up
             /\ down' = SubSeq(down, IF Dropped(n) = 2 THEN 3 ELSE 2, Len(down))
  /\ UNCHANGED <<s, broken, sink>>

\* Out of step: the rest of a record may end as one, of any type, wait for more
\* than there is room for, or leave the client in step again.
PskGarbage ==
  /\ c.off /\ down # <<>> /\ down' = Tail(down)
  /\ \E again \in BOOLEAN :
       LET k == [c EXCEPT !.off = ~again]
       IN \/ c' = k /\ UNCHANGED up
          \/ c' = [k EXCEPT !.st = "error"] /\ UNCHANGED up
          \/ c' = Alerted(k).c /\ up' = up \o Alerted(k).up
  /\ UNCHANGED <<s, broken, sink>>

\* tls_read: always from the start of the buffer, whatever came into it since.
PskRead(n) ==
  /\ n \in 1..c.avail
  /\ sink' = sink \o IF c.rx > 0 \/ c.off THEN [i \in 1..n |-> 0] ELSE SubSeq(c.hold, 1, n)
  /\ c' = [c EXCEPT !.avail = @ - n, !.torn = @ \/ c.avail < Len(c.hold) \/ c.rx > 0 \/ c.off]
  /\ UNCHANGED <<s, up, down, broken>>

\* tls_send: TCP may have no room for the record, whose number is used up.
PskSend(taken) ==
  /\ c.st = "established" /\ c.sent < Request /\ ~c.gap
  /\ up' = IF taken THEN Append(up, record_encrypt(c, "app", <<c.sent + 1>>)) ELSE up
  /\ c' = [c EXCEPT !.txseq = @ + 1, !.sent = IF taken THEN @ + 1 ELSE @, !.gap = ~taken]
  /\ UNCHANGED <<s, down, broken, sink>>

PskClose ==
  /\ c.st = "established"
  /\ up' = Append(up, record_encrypt(c, "alert", <<>>))
  /\ c' = [c EXCEPT !.st = "closing", !.txseq = @ + 1, !.left = TRUE]
  /\ UNCHANGED <<s, down, broken, sink>>

\* tls_tcp_event_cb.
PskEnds ==
  /\ broken /\ c.st # "error" /\ c' = [c EXCEPT !.st = "error"]
  /\ UNCHANGED <<s, up, down, broken, sink>>

PskNext ==
  \/ set_psk \/ PskConnect \/ PskServerHello \/ PskServerFinish \/ ServerTakes \/ Break
  \/ \E inner \in {"app", "hs", "alert"}, n \in 0..MaxRecord : ServerGives(inner, n)
  \/ \E n \in 1..3 : PskRecv(n)
  \/ PskGarbage \/ PskClose \/ PskEnds
  \/ \E n \in 1..MaxRecord : PskRead(n)
  \/ \E taken \in BOOLEAN : PskSend(taken)

(***************************************************************************)
(* Properties.                                                             *)
(***************************************************************************)
\* tls13_connect and tls12_connect: whatever the records, a handshake succeeds
\* exactly with a server that speaks the version, shows a good chain and signs
\* with its key, unless the connection ends; both sides have hashed the same
\* messages then, and a server never meets a record it cannot open.
HandshakeExact ==
  /\ c.st = "open" => s.cfg.chain = "good" /\ s.cfg.sig /\ c.ver \in s.cfg.speaks
                      /\ (s.st \in {"open", "over"} => c.th = s.th)
  /\ c.st = "failed" => broken \/ s.cfg.chain # "good" \/ ~s.cfg.sig \/ c.ver \notin s.cfg.speaks
  /\ s.st = "over" /\ ~broken => c.ver \notin s.cfg.speaks \/ (s.got = Request /\ s.given = Response)

\* tls13_read and tls12_read: the sink gets the answer from its start, without a
\* gap and nothing twice, and all of it when the server closes and sent no empty
\* record.
AnswerInOrder ==
  /\ sink = [i \in DOMAIN sink |-> i]
  /\ c.closed /\ c.rx = <<>> /\ ~broken /\ ~s.empty => Len(sink) = Response

\* tls_process_record: a client is established only with a server that holds its
\* key and hashed the same messages; and while no piece crosses the end of a
\* record, a server that holds the key and speaks as the client expects, one
\* message a record and no ticket, is not refused until the application closes.
PskExact ==
  /\ c.st = "established" => s.cfg.psk = "same" /\ c.th = Append(s.th, "CF")
  /\ c.st = "error" =>
       \/ broken \/ c.crossed \/ s.cfg.psk # "same" \/ s.cfg.bundle \/ s.cfg.big \/ s.cfg.ap = "SF"
       \/ s.cfg.binder = "identities" \/ s.ticket \/ c.left

\* tls_read and tls_send: the application that reads each record whole before the
\* next begins gets the answer from its start, without a gap, even if pieces
\* were dropped; and the server opens every record while TCP took them all.
PskInOrder ==
  /\ ~c.torn => sink = [i \in DOMAIN sink |-> i]
  /\ s.st = "over" /\ c.st = "established" => c.gap \/ s.cfg.ap = "SF" \/ s.given = Response

\* tiku_kits_crypto_tls_keysched.h: "client_app_traffic_secret (CH..SF transcript)".
AppKeysOverFinished == c.st = "established" => c.rxkey = Key("s ap", s.th)
=============================================================================
