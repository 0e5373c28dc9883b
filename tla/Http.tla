-------------------------------- MODULE Http --------------------------------
(***************************************************************************)
(* An HTTPS request (tiku_kits_net_http.c): a blocking call that resolves  *)
(* the host, opens a connection, hands it to TLS, and feeds the answer to  *)
(* a byte-wise parser.  The events of TCP, of the connection in use and of *)
(* the one given up before it, all land in one cell, which the call reads  *)
(* after each poll of the link.  Tls.tla has what goes on in the records.  *)
(***************************************************************************)
EXTENDS Integers, Sequences, FiniteSets, WellFoundedInduction, SequenceTheorems, TLAPS

CONSTANTS
  NULL,
  Answers,         \* answers of servers, as sequences of bytes
  Lengths,         \* lengths of the fields of a request: method, path, host, key, body
  REQ_BUF,         \* TIKU_KITS_NET_HTTP_REQ_BUF_SIZE
  BODY_MAX,        \* room for the body of the answer
  Bytes, MaxBytes  \* what the parser is fed on its own, and a bound on how much

VARIABLES
  h,               \* the call: where it is, what it returned, http_ctx
  conns,           \* the connections it opened: the first and, for TLS 1.2, a second
  dns,
  srv              \* the server: whether it speaks TLS 1.3, what it has yet to send

vars == <<h, conns, dns, srv>>

(***************************************************************************)
(* The parser.                                                             *)
(***************************************************************************)
SP == 32
CR == 13
LF == 10
Digit(b) == b \in 48..57

ParserInit == [st |-> "STATUS", sub |-> "VERSION", seq |-> 0, code |-> 0, body |-> <<>>]

FeedStatus(p, b) ==
  LET q == CASE p.sub = "VERSION" /\ b = SP -> [p EXCEPT !.sub = "CODE"]
             [] p.sub = "CODE" /\ Digit(b) -> [p EXCEPT !.code = (@ * 10 + (b - 48)) % 65536]
             [] p.sub = "CODE" /\ ~Digit(b) -> [p EXCEPT !.sub = "REASON"]
             [] OTHER -> p
  IN IF b = LF THEN [q EXCEPT !.st = "HEADERS", !.seq = 2] ELSE q
\* The mutant forgets a CR that follows another.
FeedHeader_cr_resets(p, b) ==
  CASE b = CR -> [p EXCEPT !.seq = IF @ \in {0, 2} THEN @ + 1 ELSE 0]
    [] b = LF /\ p.seq = 3 -> [p EXCEPT !.st = "BODY"]
    [] b = LF /\ p.seq # 3 -> [p EXCEPT !.seq = IF @ = 1 THEN 2 ELSE 0]
    [] OTHER -> [p EXCEPT !.seq = 0]
FeedHeader(p, b) ==
  CASE b = CR -> [p EXCEPT !.seq = IF @ \in {0, 2} THEN @ + 1 ELSE 1]
    [] b = LF /\ p.seq = 3 -> [p EXCEPT !.st = "BODY"]
    [] b = LF /\ p.seq # 3 -> [p EXCEPT !.seq = IF @ = 1 THEN 2 ELSE 0]
    [] OTHER -> [p EXCEPT !.seq = 0]
Feed(p, b) ==
  CASE p.st = "STATUS" -> FeedStatus(p, b)
    [] p.st = "HEADERS" -> FeedHeader(p, b)
    [] p.st = "BODY" -> [p EXCEPT !.body = IF Len(@) < BODY_MAX THEN Append(@, b) ELSE @]
\* http_parser_feed: the bytes one after another.
Fed(p, bytes) ==
  LET fed[i \in 0..Len(bytes)] == IF i = 0 THEN p ELSE Feed(fed[i - 1], bytes[i]) IN fed[Len(bytes)]

(***************************************************************************)
(* The request: http_append stops at the end of the buffer.                *)
(***************************************************************************)
Fields(r) ==
  <<r.method + 1 + r.path + 11, 6 + r.host + 2>>
  \o (IF r.body > 0 THEN <<32>> ELSE <<>>)
  \o (IF r.key > 0 THEN <<11 + r.key + 2, 31>> ELSE <<>>)
  \o (IF r.body > 0 THEN <<16 + (IF r.body >= 100 THEN 3 ELSE IF r.body >= 10 THEN 2 ELSE 1) + 2>> ELSE <<>>)
  \o <<21>>
Whole(r) ==
  LET pos[i \in 0..Len(Fields(r))] == IF i = 0 THEN 0 ELSE pos[i - 1] + Fields(r)[i]
  IN pos[Len(Fields(r))]
BuildRequest(r) ==
  LET pos[i \in 0..Len(Fields(r))] ==
        IF i = 0 THEN 0
        ELSE IF pos[i - 1] + Fields(r)[i] <= REQ_BUF THEN pos[i - 1] + Fields(r)[i] ELSE REQ_BUF
  IN pos[Len(Fields(r))]

(***************************************************************************)
(* State.  A connection is opened, open, half closed by its peer, closed   *)
(* by us with events yet to come, or gone.                                 *)
(***************************************************************************)
Init ==
  /\ h = [pc |-> "idle", rc |-> NULL, trust |-> NULL, req |-> NULL, cur |-> NULL, cell |-> "none",
          parser |-> ParserInit, got |-> <<>>, cut |-> FALSE]
  /\ conns = [i \in {1, 2} |-> "none"]
  /\ dns = "IDLE"
  /\ srv = [tls13 |-> TRUE, answer |-> <<>>, wire |-> <<>>, left |-> <<>>]

Live == {"syn", "open", "half"}
Closed(c) == CASE c \in {"open", "half"} -> "closing" [] c = "syn" -> "gone" [] OTHER -> c
Returns(k, rc) == [k EXCEPT !.pc = "done", !.rc = rc]
\* tiku_kits_tcp_abort at the end of a call that failed.
Fails(k, rc) ==
  /\ h' = Returns(k, rc)
  /\ conns' = IF k.cur = NULL THEN conns ELSE [conns EXCEPT ![k.cur] = "gone"]

(***************************************************************************)
(* http_execute.                                                           *)
(***************************************************************************)
\* refused, answered from the cache, or asked.
Start(r, trust, answer, tls13, d) ==
  /\ h.pc = "idle"
  /\ dns' = d
  /\ srv' = [tls13 |-> tls13, answer |-> answer, wire |-> <<>>, left |-> answer]
  /\ LET k == [h EXCEPT !.req = r, !.trust = trust]
     IN h' = IF d = "REFUSED" THEN Returns(k, "DNS") ELSE [k EXCEPT !.pc = "dns"]
  /\ UNCHANGED conns

DnsComes(d) == h.pc = "dns" /\ dns = "SENT" /\ dns' = d /\ UNCHANGED <<h, conns, srv>>

\* http_tcp_open begins: it clears the cell, which the connection before this
\* one may still write to.
Opens(k, i, free) ==
  IF free THEN /\ h' = [k EXCEPT !.pc = "open", !.cur = i, !.cell = "none"]
               /\ conns' = [conns EXCEPT ![i] = "syn"]
  ELSE h' = Returns([k EXCEPT !.cur = NULL], "TCP") /\ UNCHANGED conns

\* A resolution that does not end is aborted.
Resolved(free, timeout) ==
  /\ h.pc = "dns"
  /\ CASE dns = "DONE" -> Opens(h, 1, free) /\ UNCHANGED dns
       [] dns = "ERROR" -> h' = Returns(h, "DNS") /\ UNCHANGED <<dns, conns>>
       [] OTHER -> timeout /\ dns' = "IDLE" /\ h' = Returns(h, "DNS") /\ UNCHANGED conns
  /\ UNCHANGED srv

\* The loop leaves when the cell says so, or after HTTP_TIMEOUT polls.  A request
\* that does not fit closes the connection.
Opened(timeout) ==
  /\ h.pc = "open"
  /\ CASE h.cell = "CONNECTED" /\ h.cur = 1 ->
            IF BuildRequest(h.req) >= REQ_BUF
            THEN h' = Returns(h, "OVERFLOW") /\ conns' = [conns EXCEPT ![1] = Closed(@)]
            ELSE h' = [h EXCEPT !.pc = IF h.trust = "cert" THEN "hand" ELSE "psk"] /\ UNCHANGED conns
       [] h.cell = "CONNECTED" /\ h.cur = 2 -> h' = [h EXCEPT !.pc = "hand"] /\ UNCHANGED conns
       [] OTHER ->
            /\ h.cell = "ABORTED" \/ timeout
            /\ h' = Returns([h EXCEPT !.cur = NULL], "TCP")
            /\ conns' = [conns EXCEPT ![h.cur] = "gone"]
  /\ UNCHANGED <<dns, srv>>

\* http_drive_psk: nothing installs the callbacks through which the TLS of
\* net/tls/psk hears the connection, so the wait for tls_event runs out.
DrivePsk ==
  /\ h.pc = "psk"
  /\ Fails(h, "TLS")
  /\ UNCHANGED <<dns, srv>>

\* Hand(ok): tls13_connect and tls12_connect.  A TLS 1.3 handshake that fails,
\* whatever the reason, is tried as TLS 1.2 over a connection of its own.
Hand(ok, free) ==
  /\ h.pc = "hand"
  /\ IF ok
     THEN /\ conns[h.cur] \in {"open", "half"} /\ (srv.tls13 <=> h.cur = 1)
          /\ h' = [h EXCEPT !.pc = "write"] /\ UNCHANGED conns
     ELSE IF h.cur = 1
     THEN LET k == [h EXCEPT !.cur = 2]
          IN IF free THEN /\ h' = [k EXCEPT !.pc = "open", !.cell = "none", !.cut = FALSE]
                          /\ conns' = [conns EXCEPT ![1] = Closed(@), ![2] = "syn"]
             ELSE h' = Returns([k EXCEPT !.cur = NULL], "TCP") /\ conns' = [conns EXCEPT ![1] = Closed(@)]
     ELSE Fails(h, "TLS")
  /\ UNCHANGED <<dns, srv>>

\* http_cert_send keeps trying until its deadline.
Write(ok) ==
  /\ h.pc = "write"
  /\ IF ok THEN conns[h.cur] \in {"open", "half"} /\ h' = [h EXCEPT !.pc = "read"] /\ UNCHANGED conns
     ELSE Fails(h, "TLS")
  /\ UNCHANGED <<dns, srv>>

\* What has come is fed before the cell is looked at.
ReadData ==
  /\ h.pc = "read" /\ srv.wire # <<>>
  /\ h' = [h EXCEPT !.parser = Fed(@, srv.wire), !.got = @ \o srv.wire]
  /\ srv' = [srv EXCEPT !.wire = <<>>]
  /\ UNCHANGED <<conns, dns>>

\* The end of the connection and the deadline both end the answer, which is
\* looked at as it stands.
ReadEnd(deadline) ==
  /\ h.pc = "read" /\ srv.wire = <<>>
  /\ deadline \/ h.cell \in {"CLOSED", "ABORTED"}
  /\ LET k == IF h.cell \in {"CLOSED", "ABORTED"} THEN h ELSE [h EXCEPT !.cut = TRUE]
     IN h' = Returns(k, IF h.parser.code = 200 THEN "OK" ELSE "STATUS")
  /\ conns' = [conns EXCEPT ![h.cur] = Closed(@)]
  /\ UNCHANGED <<dns, srv>>

(***************************************************************************)
(* Inside http_net_poll.                                                   *)
(***************************************************************************)
Polling == h.pc \in {"open", "psk", "hand", "write", "read"}
Event(i, from, to, e) ==
  /\ Polling /\ conns[i] \in from
  /\ conns' = [conns EXCEPT ![i] = to]
  /\ UNCHANGED dns
  /\ h' = [h EXCEPT !.cell = e, !.cut = @ \/ (i = h.cur /\ (e = "ABORTED" \/ srv.left # <<>>))]
Established(i) ==
  /\ Polling /\ conns[i] = "syn" /\ conns' = [conns EXCEPT ![i] = "open"]
  /\ h' = [h EXCEPT !.cell = "CONNECTED"] /\ UNCHANGED <<dns, srv>>
PeerCloses(i) == Event(i, {"open"}, "half", "CLOSED") /\ UNCHANGED srv
\* The end of our own close: the last ACK, or TIME_WAIT.
CloseEnds(i) == Event(i, {"closing"}, "gone", "CLOSED") /\ UNCHANGED srv
Reset(i) ==
  /\ Event(i, {"syn", "open", "half", "closing"}, "gone", "ABORTED")
  /\ srv' = IF i = h.cur THEN [srv EXCEPT !.wire = <<>>] ELSE srv
Gives(n) ==
  /\ h.pc = "read" /\ conns[h.cur] = "open" /\ n \in 1..Len(srv.left)
  /\ srv' = [srv EXCEPT !.wire = @ \o SubSeq(srv.left, 1, n), !.left = SubSeq(@, n + 1, Len(@))]
  /\ UNCHANGED <<h, conns, dns>>

\* http_parser_feed on its own, with any bytes.
FeedByte(b) ==
  /\ h.pc = "idle"
  /\ h' = [h EXCEPT !.parser = Feed(@, b), !.got = Append(@, b)]
  /\ srv' = [srv EXCEPT !.answer = Append(@, b)]
  /\ UNCHANGED <<conns, dns>>
FeedNext == Len(h.got) < MaxBytes /\ \E b \in Bytes : FeedByte(b)

Next ==
  \/ \E r \in Lengths, trust \in {"psk", "cert"}, a \in Answers, tls13 \in BOOLEAN,
        d \in {"REFUSED", "SENT", "DONE"} : Start(r, trust, a, tls13, d)
  \/ \E d \in {"DONE", "ERROR"} : DnsComes(d)
  \/ \E free, timeout \in BOOLEAN : Resolved(free, timeout)
  \/ \E yes \in BOOLEAN : Opened(yes) \/ Write(yes) \/ ReadEnd(yes)
  \/ \E ok, free \in BOOLEAN : Hand(ok, free)
  \/ DrivePsk \/ ReadData
  \/ \E i \in {1, 2} : Established(i) \/ PeerCloses(i) \/ CloseEnds(i) \/ Reset(i)
  \/ \E n \in 1..Len(srv.left) : Gives(n)

(***************************************************************************)
(* Properties.                                                             *)
(***************************************************************************)
\* http_execute: whatever fails and however the events of two connections fall,
\* nothing of the call stays behind: no connection is left open or opening, and
\* the resolver is not left waiting.
NothingLeft ==
  h.pc = "done" => (\A i \in {1, 2} : conns[i] \notin Live) /\ dns # "SENT"

\* http_parser_feed against a definition on the whole of what was fed: the first
\* number after the first blank, and what follows the first empty line.
StatusEnd(s) ==
  IF \E i \in DOMAIN s : s[i] = LF
  THEN CHOOSE i \in DOMAIN s : s[i] = LF /\ \A j \in 1..(i - 1) : s[j] # LF
  ELSE Len(s)
LineEnds(s, i) == i = StatusEnd(s) \/ (i > StatusEnd(s) + 1 /\ s[i] = LF /\ s[i - 1] = CR)
EmptyLines(s) == {i \in (StatusEnd(s) + 2)..Len(s) : s[i] = LF /\ s[i - 1] = CR /\ LineEnds(s, i - 2)}
BodyOf(s) ==
  IF EmptyLines(s) = {} THEN <<>>
  ELSE LET i == CHOOSE x \in EmptyLines(s) : \A y \in EmptyLines(s) : x <= y
       IN SubSeq(s, i + 1, IF Len(s) - i > BODY_MAX THEN i + BODY_MAX ELSE Len(s))
Begun == Len(h.got) <= Len(srv.answer) /\ h.got = SubSeq(srv.answer, 1, Len(h.got))
\* The answer that a call returns: its body is a start of the server's, all of it
\* unless the connection broke, when the first connection served (over the
\* second, the CLOSED of the first ends the answer in its middle); a request
\* that was cut is never sent.
AnswerSound ==
  /\ h.parser.body = BodyOf(h.got)
  /\ Begun
  /\ h.pc = "done" /\ h.rc = "OK" => h.parser.code = 200 /\ BuildRequest(h.req) = Whole(h.req)
  /\ h.pc = "done" /\ h.rc \in {"OK", "STATUS"} /\ ~h.cut /\ h.cur = 1 => h.got = srv.answer

(***************************************************************************)
(* The inductive invariants: of the parser alone, that what it remembers   *)
(* of the bytes it was fed is enough; of a call, where the answer's bytes  *)
(* are, and what its program counter says of the connections.              *)
(***************************************************************************)
Bounds ==
  /\ BODY_MAX \in Nat /\ REQ_BUF \in Nat /\ Bytes \subseteq Nat /\ Answers \subseteq Seq(Nat) /\ NULL \notin {1, 2}
     /\ NULL \notin Lengths
  /\ Lengths \subseteq [method : Nat, path : Nat, host : Nat, key : Nat, body : Nat]

Parsers ==
  [st : {"STATUS", "HEADERS", "BODY"}, sub : {"VERSION", "CODE", "REASON"}, seq : 0..3, code : Nat, body : Seq(Nat)]
\* Of the header: whether the last byte ends a line, is a CR behind the end of one, another CR, or none of these.
Remembered(s) ==
  CASE LineEnds(s, Len(s)) -> 2
    [] ~LineEnds(s, Len(s)) /\ s[Len(s)] = CR -> IF LineEnds(s, Len(s) - 1) THEN 3 ELSE 1
    [] OTHER -> 0
ParserOK(p, s) ==
  /\ p.st = "STATUS" <=> \A i \in DOMAIN s : s[i] # LF
  /\ p.st = "BODY" <=> EmptyLines(s) # {}
  /\ p.st = "HEADERS" => p.seq = Remembered(s)
  /\ p.body = BodyOf(s)

Sound(r) == BuildRequest(r) < REQ_BUF
Calls ==
  [pc : {"idle", "dns", "open", "psk", "hand", "write", "read", "done"},
   rc : {NULL, "DNS", "TCP", "OVERFLOW", "TLS", "OK", "STATUS"}, trust : {NULL, "psk", "cert"},
   req : Lengths \union {NULL}, cur : {NULL, 1, 2}, cell : {"none", "CONNECTED", "CLOSED", "ABORTED"},
   parser : Parsers, got : Seq(Nat), cut : BOOLEAN]
Shapes ==
  /\ h \in Calls
  /\ conns \in [{1, 2} -> {"none", "syn", "open", "half", "closing", "gone"}]
  /\ dns \in {"IDLE", "REFUSED", "SENT", "DONE", "ERROR"}
  /\ srv \in [tls13 : BOOLEAN, answer : Seq(Nat), wire : Seq(Nat), left : Seq(Nat)]
\* The parser alone.
FeedInv == Shapes /\ h.pc = "idle" /\ srv.answer = h.got /\ ParserOK(h.parser, h.got)

\* Before anything is read; while all that was given is here; and after a reset took what was on its way.
Unread == h.got = <<>> /\ h.parser = ParserInit /\ srv.wire = <<>> /\ srv.left = srv.answer
Reading ==
  \/ h.got \o srv.wire \o srv.left = srv.answer
  \/ h.cut /\ srv.wire = <<>> /\ conns[h.cur] = "gone" /\ Begun
\* The connection in use, and the one given up before it.
Used ==
  /\ h.cur = 1 => conns[2] = "none"
  /\ h.cur = 2 => conns[1] \notin Live
Cell ==
  h.cur = 1 /\ ~h.cut =>
    /\ h.cell # "ABORTED"
    /\ conns[1] \in {"half", "closing", "gone"} \/ h.cell = "CLOSED" => srv.left = <<>>
HttpInv ==
  /\ Shapes /\ ParserOK(h.parser, h.got)
  /\ h.pc \in {"idle", "dns"} => (\A i \in {1, 2} : conns[i] = "none") /\ h.cur = NULL
  /\ h.pc \in {"idle", "dns", "open", "psk", "hand", "write"} => Unread
  /\ h.pc \notin {"idle", "done"} => h.req # NULL
  /\ Polling => h.cur # NULL /\ dns # "SENT" /\ Used /\ Cell
  /\ h.pc \in {"psk", "hand", "write", "read"} \/ (h.pc = "open" /\ h.cur = 2) => Sound(h.req)
  /\ h.pc = "read" => Reading
  /\ h.pc = "done" =>
       /\ Begun
       /\ h.rc = "OK" => h.parser.code = 200 /\ Sound(h.req) /\ h.req \in Lengths
       /\ h.rc \in {"OK", "STATUS"} /\ ~h.cut /\ h.cur = 1 => h.got = srv.answer
       /\ (\A i \in {1, 2} : conns[i] \notin Live) /\ dns # "SENT"

(***************************************************************************)
(* Proofs, for any answers, requests and order of events.  What recursive  *)
(* functions compute is shown by the least step at which it would not hold. *)
(***************************************************************************)
\* Among some numbers one is the least.
LEMMA LeastOfSome == ASSUME NEW set \in SUBSET Nat, set # {} PROVE \E i \in set : \A j \in set : i <= j
  <1>1. PICK i \in set : \A j \in set : ~(<<j, i>> \in OpToRel(<, Nat))
    BY NatLessThanWellFounded, WFMin
  <1>2. ASSUME NEW j \in set PROVE i <= j
    <2>1. ~(j < i)
      BY <1>1 DEF OpToRel
    <2> QED
      BY <2>1
  <1> QED
    BY <1>2

\* A recursion over 0 .. n has a function that solves it.
Steps(A, n) == [1 .. n -> [A -> A]]
Solves(g, A, n, x, step) == g \in [0 .. n -> A] /\ g[0] = x /\ \A i \in 1 .. n : g[i] = step[i][g[i - 1]]

LEMMA FoldExists ==
  ASSUME NEW A, NEW n \in Nat, NEW x \in A, NEW step \in Steps(A, n)
  PROVE  \E g : Solves(g, A, n, x, step)
  <1> USE DEF Steps
  <1> DEFINE Solved(m) == \E g \in [0 .. m -> A] : g[0] = x /\ \A i \in 1 .. m : g[i] = step[i][g[i - 1]]
             open == {m \in 0 .. n : ~Solved(m)}
  <1>1. open \in SUBSET Nat /\ \A m \in 0 .. n : m \in open <=> ~Solved(m)
    OBVIOUS
  <1>2. Solved(0)
    <2>1. [i \in 0 .. 0 |-> x] \in [0 .. 0 -> A] /\ [i \in 0 .. 0 |-> x][0] = x /\ 1 .. 0 = {}
      OBVIOUS
    <2> QED
      BY <2>1
  <1>3. ASSUME NEW m \in 1 .. n, Solved(m - 1) PROVE Solved(m)
    <2>1. PICK g \in [0 .. m - 1 -> A] : g[0] = x /\ \A i \in 1 .. m - 1 : g[i] = step[i][g[i - 1]]
      BY <1>3
    <2> DEFINE f == [i \in 0 .. m |-> IF i = m THEN step[m][g[m - 1]] ELSE g[i]]
    <2>2. step[m][g[m - 1]] \in A
      BY <2>1
    <2>3. f \in [0 .. m -> A] /\ f[0] = x
      BY <2>1, <2>2
    <2>4. ASSUME NEW i \in 1 .. m PROVE f[i] = step[i][f[i - 1]]
      <3>1. i - 1 \in 0 .. m - 1 /\ i - 1 # m /\ i - 1 \in 0 .. m
        OBVIOUS
      <3>2. f[i - 1] = g[i - 1]
        BY <3>1
      <3>3. CASE i = m
        BY <3>2, <3>3
      <3>4. CASE i # m
        <4>1. i \in 1 .. m - 1 /\ f[i] = g[i]
          BY <3>4
        <4> QED
          BY <2>1, <3>2, <4>1
      <3> QED
        BY <3>3, <3>4
    <2> HIDE DEF f
    <2> QED
      BY <2>3, <2>4
  <1> HIDE DEF Solved, open
  <1>4. CASE open # {}
    <2>1. PICK m \in open : \A j \in open : m <= j
      BY <1>1, <1>4, LeastOfSome
    <2>2. m \in 0 .. n /\ ~Solved(m)
      BY <1>1, <2>1 DEF open
    <2>3. m \in 1 .. n /\ m - 1 \in 0 .. n /\ ~(m <= m - 1)
      BY <1>2, <2>2
    <2> QED
      BY <1>1, <1>3, <2>1, <2>2, <2>3
  <1>5. CASE open = {}
    <2>1. Solved(n)
      BY <1>1, <1>5
    <2> QED
      BY <2>1 DEF Solved, Solves
  <1> QED
    BY <1>4, <1>5

(***************************************************************************)
(* The parser.                                                             *)
(***************************************************************************)
\* The status line ends at the first line feed.
LEMMA StatusFacts ==
  ASSUME NEW s \in Seq(Nat), NEW f \in DOMAIN s, s[f] = LF, \A j \in 1 .. f - 1 : s[j] # LF
  PROVE  StatusEnd(s) = f
  <1>1. \E i \in DOMAIN s : s[i] = LF
    OBVIOUS
  <1>2. StatusEnd(s) = CHOOSE i \in DOMAIN s : s[i] = LF /\ \A j \in 1 .. (i - 1) : s[j] # LF
    BY <1>1 DEF StatusEnd
  <1>3. StatusEnd(s) \in DOMAIN s /\ s[StatusEnd(s)] = LF /\ \A j \in 1 .. (StatusEnd(s) - 1) : s[j] # LF
    BY <1>2
  <1>4. f \in Nat /\ StatusEnd(s) \in Nat /\ f >= 1 /\ StatusEnd(s) >= 1
    BY <1>3
  <1>5. ~(StatusEnd(s) < f) /\ ~(f < StatusEnd(s))
    BY <1>3, <1>4
  <1> QED
    BY <1>4, <1>5

LEMMA FirstLineFeed ==
  ASSUME NEW s \in Seq(Nat), \E i \in DOMAIN s : s[i] = LF
  PROVE  \E f \in DOMAIN s : StatusEnd(s) = f /\ s[f] = LF /\ \A j \in 1 .. f - 1 : s[j] # LF
  <1>1. {i \in DOMAIN s : s[i] = LF} \in SUBSET Nat /\ {i \in DOMAIN s : s[i] = LF} # {}
    OBVIOUS
  <1>2. PICK f \in {i \in DOMAIN s : s[i] = LF} : \A j \in {i \in DOMAIN s : s[i] = LF} : f <= j
    BY <1>1, LeastOfSome
  <1>3. f \in DOMAIN s /\ s[f] = LF /\ f \in 1 .. Len(s)
    BY <1>2
  <1>4. \A j \in 1 .. f - 1 : s[j] # LF
    <2>1. ASSUME NEW j \in 1 .. f - 1, s[j] = LF PROVE FALSE
      <3>1. j \in DOMAIN s /\ ~(f <= j)
        BY <1>3
      <3> QED
        BY <1>2, <2>1, <3>1
    <2> QED
      BY <2>1
  <1> QED
    BY <1>3, <1>4, StatusFacts

\* What one more byte changes.
LEMMA OneMore ==
  ASSUME NEW s \in Seq(Nat), NEW b \in Nat, NEW f \in DOMAIN s, StatusEnd(s) = f, s[f] = LF,
         \A j \in 1 .. f - 1 : s[j] # LF
  PROVE  /\ StatusEnd(Append(s, b)) = f
         /\ \A i \in f .. Len(s) : LineEnds(Append(s, b), i) <=> LineEnds(s, i)
         /\ EmptyLines(Append(s, b)) =
              EmptyLines(s) \union {i \in {Len(s) + 1} : /\ Len(s) + 1 >= f + 2 /\ b = LF /\ s[Len(s)] = CR
                                                         /\ LineEnds(s, Len(s) - 1)}
         /\ LineEnds(Append(s, b), Len(s) + 1) <=> Len(s) + 1 > f + 1 /\ b = LF /\ s[Len(s)] = CR
  <1> DEFINE t == Append(s, b)
  <1>1. /\ t \in Seq(Nat) /\ Len(t) = Len(s) + 1 /\ t[Len(s) + 1] = b /\ \A i \in 1 .. Len(s) : t[i] = s[i]
        /\ DOMAIN t = 1 .. Len(s) + 1 /\ Len(s) \in Nat /\ DOMAIN s = 1 .. Len(s) /\ f \in 1 .. Len(s)
    OBVIOUS
  <1> HIDE DEF t
  <1>2. StatusEnd(t) = f
    BY <1>1, StatusFacts
  <1>3. ASSUME NEW i \in f .. Len(s) PROVE LineEnds(t, i) <=> LineEnds(s, i)
    <2>1. i \in 1 .. Len(s) /\ (i > f + 1 => i - 1 \in 1 .. Len(s))
      BY <1>1
    <2>2. t[i] = s[i] /\ (i > f + 1 => t[i - 1] = s[i - 1])
      BY <1>1, <2>1
    <2> QED
      BY <1>2, <2>2 DEF LineEnds
  <1>4. LineEnds(t, Len(s) + 1) <=> Len(s) + 1 > f + 1 /\ b = LF /\ s[Len(s)] = CR
    <2>1. Len(s) + 1 - 1 = Len(s) /\ Len(s) \in 1 .. Len(s) /\ Len(s) + 1 # f
      BY <1>1
    <2>2. t[Len(s) + 1 - 1] = s[Len(s)]
      BY <1>1, <2>1
    <2> QED
      BY <1>1, <1>2, <2>1, <2>2 DEF LineEnds
  <1>5. ASSUME NEW i \in Int
        PROVE  i \in EmptyLines(t) <=> \/ i \in EmptyLines(s)
                                       \/ /\ i = Len(s) + 1 /\ i >= f + 2 /\ b = LF /\ s[Len(s)] = CR
                                          /\ LineEnds(s, i - 2)
    <2>1. CASE i = Len(s) + 1
      <3>1. i \notin EmptyLines(s) /\ t[i] = b /\ i - 1 = Len(s) /\ Len(s) \in 1 .. Len(s) /\ i \in 1 .. Len(t)
        BY <1>1, <2>1 DEF EmptyLines
      <3>2. t[i - 1] = s[Len(s)]
        BY <1>1, <3>1
      <3>3. i >= f + 2 => i - 2 \in f .. Len(s)
        BY <1>1, <2>1
      <3>4. i \in EmptyLines(t) <=> i >= f + 2 /\ b = LF /\ s[Len(s)] = CR /\ LineEnds(t, i - 2)
        BY <1>1, <1>2, <3>1, <3>2 DEF EmptyLines
      <3> QED
        BY <1>3, <2>1, <3>1, <3>3, <3>4
    <2>2. CASE i # Len(s) + 1
      <3>1. i \in f + 2 .. Len(s) => i \in 1 .. Len(s) /\ i - 1 \in 1 .. Len(s) /\ i - 2 \in f .. Len(s)
        BY <1>1
      <3>2. i \in f + 2 .. Len(s) => t[i] = s[i] /\ t[i - 1] = s[i - 1] /\ (LineEnds(t, i - 2) <=> LineEnds(s, i - 2))
        BY <1>1, <1>3, <3>1
      <3>3. i \in f + 2 .. Len(t) <=> i \in f + 2 .. Len(s)
        BY <1>1, <2>2
      <3>4. i \in EmptyLines(s) <=> i \in f + 2 .. Len(s) /\ s[i] = LF /\ s[i - 1] = CR /\ LineEnds(s, i - 2)
        BY DEF EmptyLines
      <3>5. i \in EmptyLines(t) <=> i \in f + 2 .. Len(t) /\ t[i] = LF /\ t[i - 1] = CR /\ LineEnds(t, i - 2)
        BY <1>2 DEF EmptyLines
      <3> QED
        BY <2>2, <3>2, <3>3, <3>4, <3>5
    <2> QED
      BY <2>1, <2>2
  <1>6. EmptyLines(t) \in SUBSET Int /\ EmptyLines(s) \in SUBSET Int
    BY <1>1, <1>2 DEF EmptyLines
  <1>7. EmptyLines(t) = EmptyLines(s) \union {i \in {Len(s) + 1} : /\ Len(s) + 1 >= f + 2 /\ b = LF /\ s[Len(s)] = CR
                                                                   /\ LineEnds(s, Len(s) - 1)}
    <2>1. Len(s) + 1 - 2 = Len(s) - 1 /\ Len(s) + 1 \in Int
      BY <1>1
    <2> QED
      BY <1>5, <1>6, <2>1
  <1> QED
    BY <1>2, <1>3, <1>4, <1>7 DEF t

\* Before the status line ends, no header has begun.
LEMMA NoLine ==
  ASSUME NEW s \in Seq(Nat), \A i \in DOMAIN s : s[i] # LF
  PROVE  StatusEnd(s) = Len(s) /\ EmptyLines(s) = {} /\ BodyOf(s) = <<>>
BY DEF StatusEnd, EmptyLines, BodyOf

\* The first of the empty lines is where the body begins.
LEMMA BodyFacts ==
  ASSUME NEW s \in Seq(Nat), NEW i \in EmptyLines(s), \A j \in EmptyLines(s) : i <= j, i \in Nat
  PROVE  BodyOf(s) = SubSeq(s, i + 1, IF Len(s) - i > BODY_MAX THEN i + BODY_MAX ELSE Len(s))
  <1>1. EmptyLines(s) # {} /\ EmptyLines(s) \in SUBSET Int
    BY DEF EmptyLines
  <1> DEFINE first == CHOOSE x \in EmptyLines(s) : \A y \in EmptyLines(s) : x <= y
  <1>2. first \in EmptyLines(s) /\ \A y \in EmptyLines(s) : first <= y
    OBVIOUS
  <1>3. first = i
    <2>1. first <= i /\ i <= first /\ first \in Int
      BY <1>1, <1>2
    <2> QED
      BY <2>1
  <1> QED
    BY <1>1, <1>3 DEF BodyOf

\* A stretch of a sequence.
Follows(x, s, i, n) == x \in Seq(Nat) /\ Len(x) = n /\ \A j \in 1 .. n : x[j] = s[i + j]
LEMMA Stretch ==
  ASSUME NEW s \in Seq(Nat), NEW i \in Nat, NEW n \in Nat, i + n <= Len(s)
  PROVE  Follows(SubSeq(s, i + 1, i + n), s, i, n)
  <1>1. i + 1 \in Int /\ i + n \in Int /\ Len(s) \in Nat
    OBVIOUS
  <1>2. \A j \in i + 1 .. i + n : s[j] \in Nat
    <2>1. \A j \in i + 1 .. i + n : j \in 1 .. Len(s)
      BY <1>1
    <2> QED
      BY <2>1
  <1> DEFINE x == SubSeq(s, i + 1, i + n)
  <1>3. /\ x \in Seq(Nat) /\ Len(x) = IF i + 1 <= i + n THEN i + n - (i + 1) + 1 ELSE 0
        /\ \A j \in 1 .. i + n - (i + 1) + 1 : x[j] = s[i + 1 + j - 1]
    BY <1>1, <1>2, SubSeqProperties
  <1> HIDE DEF x
  <1>4. Len(x) = n /\ i + n - (i + 1) + 1 = n
    BY <1>1, <1>3
  <1>5. ASSUME NEW j \in 1 .. n PROVE x[j] = s[i + j]
    <2>1. i + 1 + j - 1 = i + j
      OBVIOUS
    <2> QED
      BY <1>3, <1>4, <2>1
  <1> QED
    BY <1>3, <1>4, <1>5 DEF x, Follows

LEMMA Assoc ==
  ASSUME NEW x \in Seq(Nat), NEW y \in Seq(Nat), NEW z \in Seq(Nat)
  PROVE  (x \o y) \o z = x \o (y \o z)
BY ConcatAssociative

\* The parser remembers enough of what it was fed.
LEMMA StatusKeeps ==
  ASSUME Bounds, NEW p \in Parsers, NEW s \in Seq(Nat), NEW b \in Nat, ParserOK(p, s), p.st = "STATUS"
  PROVE  ParserOK(Feed(p, b), Append(s, b))
  <1> DEFINE t == Append(s, b)
             q == Feed(p, b)
  <1>1. /\ t \in Seq(Nat) /\ Len(t) = Len(s) + 1 /\ t[Len(s) + 1] = b /\ \A i \in 1 .. Len(s) : t[i] = s[i]
        /\ DOMAIN t = 1 .. Len(s) + 1 /\ Len(s) \in Nat /\ DOMAIN s = 1 .. Len(s)
    OBVIOUS
  <1>2. /\ q.body = p.body
        /\ b = LF => q.st = "HEADERS" /\ q.seq = 2
        /\ b # LF => q.st = "STATUS"
    BY DEF Feed, FeedStatus, Parsers
  <1>3. (\A i \in DOMAIN s : s[i] # LF) /\ BodyOf(s) = <<>> /\ p.body = <<>>
    BY NoLine DEF ParserOK
  <1> HIDE DEF t, q
  <1>4. CASE b # LF
    <2>1. \A i \in DOMAIN t : t[i] # LF
      BY <1>1, <1>3, <1>4
    <2>2. EmptyLines(t) = {} /\ BodyOf(t) = <<>>
      BY <1>1, <2>1, NoLine
    <2> QED
      BY <1>2, <1>3, <1>4, <2>1, <2>2 DEF ParserOK, t, q
  <1>5. CASE b = LF
    <2>1. Len(t) \in DOMAIN t /\ t[Len(t)] = LF /\ \A j \in 1 .. Len(t) - 1 : t[j] # LF
      BY <1>1, <1>3, <1>5
    <2>2. StatusEnd(t) = Len(t)
      BY <1>1, <2>1, StatusFacts
    <2>3. EmptyLines(t) = {}
      BY <1>1, <2>2 DEF EmptyLines
    <2>4. LineEnds(t, Len(t))
      BY <2>2 DEF LineEnds
    <2>5. Remembered(t) = 2
      BY <2>4 DEF Remembered
    <2>6. BodyOf(t) = <<>>
      BY <2>3 DEF BodyOf
    <2> QED
      BY <1>2, <1>3, <1>5, <2>1, <2>3, <2>5, <2>6 DEF ParserOK, t, q
  <1> QED
    BY <1>4, <1>5

LEMMA HeaderKeeps ==
  ASSUME Bounds, NEW p \in Parsers, NEW s \in Seq(Nat), NEW b \in Nat, ParserOK(p, s), p.st = "HEADERS"
  PROVE  ParserOK(Feed(p, b), Append(s, b))
  <1> DEFINE t == Append(s, b)
             q == Feed(p, b)
             l == Len(s)
  <1>1. /\ t \in Seq(Nat) /\ Len(t) = l + 1 /\ t[l + 1] = b /\ \A i \in 1 .. l : t[i] = s[i]
        /\ DOMAIN t = 1 .. l + 1 /\ l \in Nat /\ DOMAIN s = 1 .. l
    OBVIOUS
  <1>2. /\ q.body = p.body
        /\ b = CR => q.st = "HEADERS" /\ q.seq = IF p.seq \in {0, 2} THEN p.seq + 1 ELSE 1
        /\ b = LF /\ p.seq = 3 => q.st = "BODY"
        /\ b = LF /\ p.seq # 3 => q.st = "HEADERS" /\ q.seq = IF p.seq = 1 THEN 2 ELSE 0
        /\ b # LF /\ b # CR => q.st = "HEADERS" /\ q.seq = 0
    BY DEF Feed, FeedHeader, Parsers, CR, LF
  <1>3. (\E i \in DOMAIN s : s[i] = LF) /\ EmptyLines(s) = {} /\ p.seq = Remembered(s) /\ p.body = <<>>
    BY DEF ParserOK, BodyOf
  <1>4. PICK f \in DOMAIN s : StatusEnd(s) = f /\ s[f] = LF /\ \A j \in 1 .. f - 1 : s[j] # LF
    BY <1>3, FirstLineFeed
  <1>5. f \in 1 .. l /\ f <= l
    BY <1>1, <1>4
  <1> HIDE DEF t, q
  <1>6. /\ \A i \in f .. l : LineEnds(t, i) <=> LineEnds(s, i)
        /\ EmptyLines(t) = EmptyLines(s) \union {i \in {l + 1} : l + 1 >= f + 2 /\ b = LF /\ s[l] = CR
           /\ LineEnds(s, l - 1)}
        /\ LineEnds(t, l + 1) <=> l + 1 > f + 1 /\ b = LF /\ s[l] = CR
    BY <1>4, OneMore DEF t
  <1>7. \E i \in DOMAIN t : t[i] = LF
    BY <1>1, <1>4, <1>5
  <1>8. LineEnds(s, l) <=> l = f \/ (l > f + 1 /\ s[l] = LF /\ s[l - 1] = CR)
    BY <1>4 DEF LineEnds
  <1>9. LineEnds(t, l) <=> LineEnds(s, l)
    BY <1>1, <1>5, <1>6
  <1>10. PICK e \in BOOLEAN : e <=> LineEnds(s, l)
    OBVIOUS
  <1>11. PICK k \in BOOLEAN : k <=> LineEnds(s, l - 1)
    OBVIOUS
  <1>12. PICK cr \in BOOLEAN : cr <=> s[l] = CR
    OBVIOUS
  <1>13. /\ p.seq \in 0 .. 3 /\ (p.seq = 2 <=> e) /\ (p.seq = 3 <=> ~e /\ cr /\ k) /\ (p.seq = 1 <=> ~e /\ cr /\ ~k)
         /\ e => ~cr
    <2>1. e => ~cr
      BY <1>4, <1>8, <1>10, <1>12 DEF CR, LF
    <2> QED
      BY <1>3, <1>10, <1>11, <1>12, <2>1 DEF Remembered
  <1>14. /\ Remembered(t) \in 0 .. 3
         /\ Remembered(t) = 2 <=> l > f /\ b = LF /\ cr
         /\ b = CR => Remembered(t) = IF e THEN 3 ELSE 1
         /\ b # CR /\ ~(l > f /\ b = LF /\ cr) => Remembered(t) = 0
    <2>1. l + 1 - 1 = l /\ (l + 1 > f + 1 <=> l > f)
      BY <1>1, <1>5
    <2>2. LineEnds(t, Len(t)) <=> l > f /\ b = LF /\ cr
      BY <1>1, <1>6, <1>12, <2>1
    <2>3. LineEnds(t, Len(t) - 1) <=> e
      BY <1>1, <1>9, <1>10, <2>1
    <2>4. t[Len(t)] = b
      BY <1>1
    <2> QED
      BY <2>2, <2>3, <2>4 DEF Remembered, CR, LF
  <1>15. l > f <=> l # f
    BY <1>1, <1>5
  <1>16. ~e => l # f
    BY <1>8, <1>10
  <1>17. CASE b = LF /\ p.seq = 3
    <2>1. ~e /\ cr /\ k /\ l >= f + 1 /\ l + 1 >= f + 2
      BY <1>1, <1>5, <1>13, <1>15, <1>16, <1>17
    <2>2. EmptyLines(t) = {l + 1}
      BY <1>3, <1>6, <1>11, <1>12, <1>17, <2>1
    <2>3. BodyOf(t) = <<>>
      <3>1. l + 1 \in Nat /\ ~(Len(t) - (l + 1) > BODY_MAX) /\ l + 1 <= l + 1
        BY <1>1 DEF Bounds
      <3>2. BodyOf(t) = SubSeq(t, l + 1 + 1, Len(t))
        BY <1>1, <2>2, <3>1, BodyFacts
      <3> QED
        BY <1>1, <3>2
    <2> QED
      BY <1>2, <1>3, <1>7, <1>17, <2>2, <2>3 DEF ParserOK, t, q
  <1>18. CASE ~(b = LF /\ p.seq = 3)
    <2>1. EmptyLines(t) = {}
      <3>1. ~(l + 1 >= f + 2 /\ b = LF /\ s[l] = CR /\ LineEnds(s, l - 1))
        BY <1>11, <1>12, <1>13, <1>18
      <3> QED
        BY <1>3, <1>6, <3>1
    <2>2. q.st = "HEADERS" /\ q.body = <<>> /\ BodyOf(t) = <<>>
      BY <1>2, <1>3, <1>18, <2>1 DEF BodyOf
    <2>3. q.seq = Remembered(t)
      <3>1. CASE b = CR
        BY <1>2, <1>13, <1>14, <3>1
      <3>2. CASE b = LF
        <4>1. p.seq # 3 /\ (l > f /\ b = LF /\ cr <=> p.seq = 1) /\ b # CR
          BY <1>13, <1>15, <1>16, <1>18, <3>2 DEF CR, LF
        <4> QED
          BY <1>2, <1>14, <3>2, <4>1
      <3>3. CASE b # CR /\ b # LF
        BY <1>2, <1>14, <3>3
      <3> QED
        BY <3>1, <3>2, <3>3
    <2> QED
      BY <1>7, <2>1, <2>2, <2>3 DEF ParserOK, t, q
  <1> QED
    BY <1>17, <1>18

LEMMA BodyKeeps ==
  ASSUME Bounds, NEW p \in Parsers, NEW s \in Seq(Nat), NEW b \in Nat, ParserOK(p, s), p.st = "BODY"
  PROVE  ParserOK(Feed(p, b), Append(s, b))
  <1> DEFINE t == Append(s, b)
             q == Feed(p, b)
             l == Len(s)
  <1>1. /\ t \in Seq(Nat) /\ Len(t) = l + 1 /\ t[l + 1] = b /\ \A i \in 1 .. l : t[i] = s[i]
        /\ DOMAIN t = 1 .. l + 1 /\ l \in Nat /\ DOMAIN s = 1 .. l
    OBVIOUS
  <1>2. q.st = "BODY" /\ q.body = IF Len(p.body) < BODY_MAX THEN Append(p.body, b) ELSE p.body
    BY DEF Feed, Parsers
  <1>3. (\E i \in DOMAIN s : s[i] = LF) /\ EmptyLines(s) # {} /\ p.body = BodyOf(s)
    BY DEF ParserOK
  <1>4. PICK f \in DOMAIN s : StatusEnd(s) = f /\ s[f] = LF /\ \A j \in 1 .. f - 1 : s[j] # LF
    BY <1>3, FirstLineFeed
  <1>5. f \in 1 .. l
    BY <1>1, <1>4
  <1>6. EmptyLines(s) \in SUBSET Nat /\ EmptyLines(s) \in SUBSET (1 .. l)
    BY <1>1, <1>4, <1>5 DEF EmptyLines
  <1>7. PICK i \in EmptyLines(s) : \A j \in EmptyLines(s) : i <= j
    BY <1>3, <1>6, LeastOfSome
  <1>8. i \in 1 .. l /\ i \in Nat
    BY <1>6, <1>7
  <1>9. EmptyLines(t) \subseteq EmptyLines(s) \union {l + 1} /\ i \in EmptyLines(t)
    BY <1>4, <1>7, OneMore
  <1>10. \A j \in EmptyLines(t) : i <= j
    BY <1>1, <1>7, <1>8, <1>9
  <1>11. BodyOf(s) = SubSeq(s, i + 1, IF l - i > BODY_MAX THEN i + BODY_MAX ELSE l)
    BY <1>7, <1>8, BodyFacts
  <1> HIDE DEF t, q
  <1>12. BodyOf(t) = SubSeq(t, i + 1, IF Len(t) - i > BODY_MAX THEN i + BODY_MAX ELSE Len(t))
    BY <1>1, <1>8, <1>9, <1>10, BodyFacts
  <1>13. \E j \in DOMAIN t : t[j] = LF
    BY <1>1, <1>4, <1>5
  <1>14. BODY_MAX \in Nat
    BY DEF Bounds
  <1>15. q.body = BodyOf(t)
    <2>1. PICK m \in Nat : l = i + m
      <3>1. l - i \in Nat /\ l = i + (l - i)
        BY <1>1, <1>8
      <3> QED
        BY <3>1
    <2>2. l - i = m /\ Len(t) - i = m + 1 /\ Len(t) = i + (m + 1) /\ l <= Len(s) /\ i + (m + 1) <= Len(t)
      BY <1>1, <1>8, <2>1
    <2>3. CASE m < BODY_MAX
      <3>1. ~(m > BODY_MAX) /\ ~(m + 1 > BODY_MAX)
        BY <1>14, <2>3
      <3>2. p.body = SubSeq(s, i + 1, i + m) /\ BodyOf(t) = SubSeq(t, i + 1, i + (m + 1))
        BY <1>3, <1>11, <1>12, <2>1, <2>2, <3>1
      <3>3. Len(p.body) = m /\ p.body \in Seq(Nat) /\ \A j \in 1 .. m : p.body[j] = s[i + j]
        <4>1. Follows(SubSeq(s, i + 1, i + m), s, i, m)
          BY <1>8, <2>1, <2>2, Stretch
        <4> QED
          BY <3>2, <4>1 DEF Follows
      <3>4. Len(BodyOf(t)) = m + 1 /\ BodyOf(t) \in Seq(Nat) /\ \A j \in 1 .. m + 1 : BodyOf(t)[j] = t[i + j]
        <4>1. m + 1 \in Nat
          OBVIOUS
        <4>2. PICK k \in Nat : k = m + 1
          BY <4>1
        <4>3. i + k <= Len(t) /\ BodyOf(t) = SubSeq(t, i + 1, i + k)
          BY <2>2, <3>2, <4>2
        <4>4. Len(BodyOf(t)) = k /\ BodyOf(t) \in Seq(Nat) /\ \A j \in 1 .. k : BodyOf(t)[j] = t[i + j]
          <5>1. Follows(SubSeq(t, i + 1, i + k), t, i, k)
            BY <1>1, <1>8, <4>3, Stretch
          <5> QED
            BY <4>3, <5>1 DEF Follows
        <4> QED
          BY <4>2, <4>4
      <3>5. q.body = Append(p.body, b)
        BY <1>2, <2>3, <3>3
      <3>6. PICK x \in Seq(Nat) : x = p.body
        BY <3>3
      <3>7. /\ Len(q.body) = m + 1 /\ q.body \in Seq(Nat) /\ q.body[m + 1] = b
            /\ \A j \in 1 .. m : q.body[j] = p.body[j]
        <4>1. Len(x) = m /\ q.body = Append(x, b)
          BY <3>3, <3>5, <3>6
        <4> QED
          BY <3>6, <4>1, AppendProperties
      <3>8. ASSUME NEW j \in 1 .. m + 1 PROVE q.body[j] = BodyOf(t)[j]
        <4>1. CASE j = m + 1
          <5>1. i + j = l + 1
            BY <1>1, <1>8, <2>1, <4>1
          <5> QED
            BY <1>1, <3>4, <3>7, <4>1, <5>1
        <4>2. CASE j # m + 1
          <5>1. j \in 1 .. m /\ i + j \in 1 .. l
            BY <1>1, <1>8, <2>1, <4>2
          <5> QED
            BY <1>1, <3>3, <3>4, <3>7, <5>1
        <4> QED
          BY <4>1, <4>2
      <3> QED
        BY <3>4, <3>7, <3>8
    <2>4. CASE ~(m < BODY_MAX)
      <3>1. i + BODY_MAX <= Len(s) /\ i + BODY_MAX <= Len(t) /\ m + 1 > BODY_MAX
        BY <1>1, <1>8, <1>14, <2>1, <2>4
      <3>2. m > BODY_MAX \/ l = i + BODY_MAX
        BY <1>14, <2>1, <2>4
      <3>3. p.body = SubSeq(s, i + 1, i + BODY_MAX) /\ BodyOf(t) = SubSeq(t, i + 1, i + BODY_MAX)
        BY <1>3, <1>11, <1>12, <2>2, <3>1, <3>2
      <3>4. Len(p.body) = BODY_MAX /\ p.body \in Seq(Nat) /\ \A j \in 1 .. BODY_MAX : p.body[j] = s[i + j]
        <4>1. PICK k \in Nat : k = BODY_MAX
          BY <1>14
        <4>2. i + k <= Len(s) /\ p.body = SubSeq(s, i + 1, i + k)
          BY <3>1, <3>3, <4>1
        <4>3. Len(p.body) = k /\ p.body \in Seq(Nat) /\ \A j \in 1 .. k : p.body[j] = s[i + j]
          <5>1. Follows(SubSeq(s, i + 1, i + k), s, i, k)
            BY <1>8, <4>2, Stretch
          <5> QED
            BY <4>2, <5>1 DEF Follows
        <4> QED
          BY <4>1, <4>3
      <3>5. Len(BodyOf(t)) = BODY_MAX /\ BodyOf(t) \in Seq(Nat) /\ \A j \in 1 .. BODY_MAX : BodyOf(t)[j] = t[i + j]
        <4>1. PICK k \in Nat : k = BODY_MAX
          BY <1>14
        <4>2. i + k <= Len(t) /\ BodyOf(t) = SubSeq(t, i + 1, i + k)
          BY <3>1, <3>3, <4>1
        <4>3. Len(BodyOf(t)) = k /\ BodyOf(t) \in Seq(Nat) /\ \A j \in 1 .. k : BodyOf(t)[j] = t[i + j]
          <5>1. Follows(SubSeq(t, i + 1, i + k), t, i, k)
            BY <1>1, <1>8, <4>2, Stretch
          <5> QED
            BY <4>2, <5>1 DEF Follows
        <4> QED
          BY <4>1, <4>3
      <3>6. ASSUME NEW j \in 1 .. BODY_MAX PROVE p.body[j] = BodyOf(t)[j]
        <4>1. i + j \in 1 .. l
          BY <1>1, <1>8, <1>14, <3>1
        <4> QED
          BY <1>1, <3>4, <3>5, <4>1
      <3>7. p.body = BodyOf(t)
        BY <3>4, <3>5, <3>6
      <3>8. ~(BODY_MAX < BODY_MAX)
        BY <1>14
      <3> QED
        BY <1>2, <3>4, <3>7, <3>8
    <2> QED
      BY <2>3, <2>4
  <1> QED
    BY <1>2, <1>9, <1>13, <1>15 DEF ParserOK, t, q

LEMMA FeedType == ASSUME NEW p \in Parsers, NEW b \in Nat PROVE Feed(p, b) \in Parsers
  <1>1. p.st \in {"STATUS", "HEADERS", "BODY"} /\ p.body \in Seq(Nat) /\ p.seq \in 0 .. 3 /\ p.code \in Nat
    BY DEF Parsers
  <1>2. CASE p.st = "STATUS"
    <2> DEFINE q == CASE p.sub = "VERSION" /\ b = SP -> [p EXCEPT !.sub = "CODE"]
                      [] p.sub = "CODE" /\ Digit(b) -> [p EXCEPT !.code = (p.code * 10 + (b - 48)) % 65536]
                      [] p.sub = "CODE" /\ ~Digit(b) -> [p EXCEPT !.sub = "REASON"]
                      [] OTHER -> p
    <2>1. ASSUME Digit(b) PROVE [p EXCEPT !.code = (p.code * 10 + (b - 48)) % 65536] \in Parsers
      <3>1. b - 48 \in Nat
        BY <2>1 DEF Digit
      <3>2. PICK c \in Nat : c = p.code * 10 + (b - 48)
        BY <1>1, <3>1
      <3>3. c % 65536 \in Nat
        OBVIOUS
      <3> QED
        <4>1. [p EXCEPT !.code = c % 65536] \in Parsers
          BY <3>3 DEF Parsers
        <4> QED
          BY <3>2, <4>1
    <2>2. [p EXCEPT !.sub = "CODE"] \in Parsers /\ [p EXCEPT !.sub = "REASON"] \in Parsers
      BY DEF Parsers
    <2>3. q \in Parsers
      BY <2>1, <2>2
    <2>4. Feed(p, b) = IF b = LF THEN [q EXCEPT !.st = "HEADERS", !.seq = 2] ELSE q
      BY <1>2 DEF Feed, FeedStatus
    <2> HIDE DEF q
    <2>5. PICK x \in Parsers : x = q
      BY <2>3
    <2>6. [x EXCEPT !.st = "HEADERS", !.seq = 2] \in Parsers
      <3>1. 2 \in 0 .. 3
        OBVIOUS
      <3>2. PICK two \in 0 .. 3 : two = 2
        BY <3>1
      <3>3. [x EXCEPT !.st = "HEADERS", !.seq = two] \in Parsers
        BY DEF Parsers
      <3> QED
        BY <3>2, <3>3
    <2> QED
      BY <2>3, <2>4, <2>5, <2>6
  <1>3. CASE p.st = "HEADERS"
    BY <1>1, <1>3 DEF Feed, FeedHeader, Parsers
  <1>4. CASE p.st = "BODY"
    <2>1. Append(p.body, b) \in Seq(Nat)
      BY <1>1
    <2> QED
      BY <1>1, <1>4, <2>1 DEF Feed, Parsers
  <1> QED
    BY <1>1, <1>2, <1>3, <1>4

LEMMA FeedKeeps ==
  ASSUME Bounds, NEW p \in Parsers, NEW s \in Seq(Nat), NEW b \in Nat, ParserOK(p, s)
  PROVE  Feed(p, b) \in Parsers /\ ParserOK(Feed(p, b), Append(s, b))
  <1>1. p.st \in {"STATUS", "HEADERS", "BODY"}
    BY DEF Parsers
  <1> QED
    BY <1>1, FeedType, StatusKeeps, HeaderKeeps, BodyKeeps

LEMMA AppendOne ==
  ASSUME NEW s \in Seq(Nat), NEW w \in Seq(Nat), NEW i \in 1 .. Len(w)
  PROVE  Append(s \o SubSeq(w, 1, i - 1), w[i]) = s \o SubSeq(w, 1, i)
  <1>1. i \in 1 .. Len(w) /\ 1 \in 1 .. Len(w) /\ i - 1 \in Nat /\ 0 + (i - 1) <= Len(w) /\ w[i] \in Nat
    OBVIOUS
  <1>2. SubSeq(w, 0 + 1, 0 + (i - 1)) \in Seq(Nat)
    BY <1>1, Stretch DEF Follows
  <1> DEFINE a == SubSeq(w, 1, i - 1)
  <1>3. a \in Seq(Nat)
    BY <1>1, <1>2
  <1>4. SubSeq(w, 1, i) = a \o <<w[i]>>
    <2>1. 1 \in 1 .. Len(w) /\ i \in 1 .. Len(w)
      OBVIOUS
    <2> QED
      BY <2>1, SubSeqRecursiveSecond
  <1> HIDE DEF a
  <1>5. <<w[i]>> \in Seq(Nat) /\ s \o a \in Seq(Nat)
    BY <1>1, <1>3
  <1>6. (s \o a) \o <<w[i]>> = s \o (a \o <<w[i]>>)
    BY <1>3, <1>5, Assoc
  <1>7. Append(s \o a, w[i]) = (s \o a) \o <<w[i]>>
    BY <1>1, <1>5, AppendIsConcat
  <1> QED
    BY <1>4, <1>6, <1>7 DEF a

\* The bytes of a read, one after another.
LEMMA FedFacts ==
  ASSUME Bounds, NEW p \in Parsers, NEW s \in Seq(Nat), NEW bytes \in Seq(Nat), ParserOK(p, s)
  PROVE  Fed(p, bytes) \in Parsers /\ ParserOK(Fed(p, bytes), s \o bytes)
  <1> DEFINE n == Len(bytes)
             step == [i \in 1 .. n |-> [q \in Parsers |-> Feed(q, bytes[i])]]
             fed == CHOOSE fed : fed = [i \in 0 .. n |-> IF i = 0 THEN p ELSE Feed(fed[i - 1], bytes[i])]
  <1>1. n \in Nat /\ \A i \in 1 .. n : bytes[i] \in Nat
    OBVIOUS
  <1>2. step \in [1 .. n -> [Parsers -> Parsers]]
    BY <1>1, FeedType
  <1> HIDE DEF step, n, fed
  <1>3. PICK g \in [0 .. n -> Parsers] : g[0] = p /\ \A i \in 1 .. n : g[i] = step[i][g[i - 1]]
    <2>1. n \in Nat /\ step \in Steps(Parsers, n)
      BY <1>1, <1>2 DEF Steps
    <2>2. \E g : Solves(g, Parsers, n, p, step)
      BY <2>1, FoldExists
    <2> QED
      BY <2>2 DEF Solves
  <1> USE DEF fed
  <1> USE DEF n
  <1>4. g = [i \in 0 .. n |-> IF i = 0 THEN p ELSE Feed(g[i - 1], bytes[i])]
    <2>1. ASSUME NEW i \in 0 .. n, i # 0 PROVE g[i] = Feed(g[i - 1], bytes[i])
      <3>1. i \in 1 .. n /\ i - 1 \in 0 .. n
        BY <1>1, <2>1
      <3>2. g[i - 1] \in Parsers
        BY <1>3, <3>1
      <3> QED
        BY <1>3, <3>1, <3>2 DEF step
    <2> QED
      BY <1>3, <2>1
  <1>5. fed = [i \in 0 .. n |-> IF i = 0 THEN p ELSE Feed(fed[i - 1], bytes[i])]
    BY <1>4
  <1>6. Fed(p, bytes) = fed[n]
    BY DEF Fed
  <1> HIDE DEF fed, step
  <1>7. fed[0] = p /\ \A i \in 1 .. n : fed[i] = Feed(fed[i - 1], bytes[i])
    <2>1. 0 \in 0 .. n /\ \A i \in 1 .. n : i \in 0 .. n /\ i # 0
      BY <1>1
    <2> QED
      BY <1>5, <2>1
  <1> DEFINE Good(i) == fed[i] \in Parsers /\ ParserOK(fed[i], s \o SubSeq(bytes, 1, i))
             bad == {i \in 0 .. n : ~Good(i)}
  <1>8. bad \in SUBSET Nat /\ \A i \in 0 .. n : i \in bad <=> ~Good(i)
    OBVIOUS
  <1>9. Good(0)
    <2>1. SubSeq(bytes, 1, 0) = <<>> /\ s \o <<>> = s
      OBVIOUS
    <2> QED
      BY <1>7, <2>1
  <1>10. ASSUME NEW i \in 1 .. n, Good(i - 1) PROVE Good(i)
    <2>1. s \o SubSeq(bytes, 1, i - 1) \in Seq(Nat)
      BY <1>1
    <2>2. Append(s \o SubSeq(bytes, 1, i - 1), bytes[i]) = s \o SubSeq(bytes, 1, i)
      BY <1>1, AppendOne
    <2>3. bytes[i] \in Nat
      BY <1>1
    <2> QED
      BY <1>7, <1>10, <2>1, <2>2, <2>3, FeedKeeps
  <1> HIDE DEF Good, bad
  <1>11. bad = {}
    <2>1. CASE bad # {}
      <3>1. PICK i \in bad : \A j \in bad : i <= j
        BY <1>8, <2>1, LeastOfSome
      <3>2. i \in 0 .. n /\ ~Good(i)
        BY <1>8, <3>1 DEF bad
      <3>3. i \in 1 .. n /\ i - 1 \in 0 .. n /\ ~(i <= i - 1)
        BY <1>1, <1>9, <3>2
      <3> QED
        BY <1>8, <1>10, <3>1, <3>2, <3>3
    <2> QED
      BY <2>1
  <1>12. Good(n)
    BY <1>1, <1>8, <1>11
  <1>13. SubSeq(bytes, 1, n) = bytes
    OBVIOUS
  <1> QED
    BY <1>6, <1>12, <1>13 DEF Good

(***************************************************************************)
(* The request.                                                            *)
(***************************************************************************)
LEMMA FieldsType == ASSUME Bounds, NEW r \in Lengths PROVE Fields(r) \in Seq(Nat)
  <1>1. r.method \in Nat /\ r.path \in Nat /\ r.host \in Nat /\ r.key \in Nat /\ r.body \in Nat
    BY DEF Bounds
  <1> DEFINE s1 == <<r.method + 1 + r.path + 11, 6 + r.host + 2>>
             s2 == IF r.body > 0 THEN <<32>> ELSE <<>>
             s3 == IF r.key > 0 THEN <<11 + r.key + 2, 31>> ELSE <<>>
             s4 == IF r.body > 0 THEN <<16 + (IF r.body >= 100 THEN 3 ELSE IF r.body >= 10 THEN 2 ELSE 1) + 2>>
                ELSE <<>>
  <1>2. s1 \in Seq(Nat) /\ s2 \in Seq(Nat) /\ s3 \in Seq(Nat)
    BY <1>1
  <1>3. s4 \in Seq(Nat)
    BY <1>1
  <1>4. <<21>> \in Seq(Nat)
    OBVIOUS
  <1>5. Fields(r) = s1 \o s2 \o s3 \o s4 \o <<21>>
    BY DEF Fields
  <1> HIDE DEF s1, s2, s3, s4
  <1> QED
    BY <1>2, <1>3, <1>4, <1>5

\* What does not reach the end of the buffer was not cut.
LEMMA UncutIsWhole ==
  ASSUME Bounds, NEW r \in Lengths
  PROVE  BuildRequest(r) \in 0 .. REQ_BUF /\ (BuildRequest(r) < REQ_BUF => BuildRequest(r) = Whole(r))
  <1> DEFINE f == Fields(r)
             n == Len(f)
             Cut(x, i) == IF x + f[i] <= REQ_BUF THEN x + f[i] ELSE REQ_BUF
             w == CHOOSE pos : pos = [i \in 0 .. n |-> IF i = 0 THEN 0 ELSE pos[i - 1] + f[i]]
             b == CHOOSE pos : pos = [i \in 0 .. n |-> IF i = 0 THEN 0 ELSE IF pos[i - 1] + f[i] <= REQ_BUF
                                                                            THEN pos[i - 1] + f[i] ELSE REQ_BUF]
             adds == [i \in 1 .. n |-> [x \in Nat |-> x + f[i]]]
             cuts == [i \in 1 .. n |-> [x \in Nat |-> Cut(x, i)]]
  <1>1. f \in Seq(Nat) /\ n \in Nat /\ REQ_BUF \in Nat
    BY FieldsType DEF Bounds
  <1>2. \A i \in 1 .. n : f[i] \in Nat
    BY <1>1
  <1>3. Whole(r) = w[n] /\ BuildRequest(r) = b[n]
    BY DEF Whole, BuildRequest
  <1> HIDE DEF f
  <1>4. w[0] = 0 /\ \A i \in 1 .. n : w[i] = w[i - 1] + f[i]
    <2>1. adds \in [1 .. n -> [Nat -> Nat]]
      BY <1>1, <1>2
    <2> HIDE DEF adds, n
    <2>2. PICK g \in [0 .. n -> Nat] : g[0] = 0 /\ \A i \in 1 .. n : g[i] = adds[i][g[i - 1]]
      <3>1. n \in Nat /\ 0 \in Nat /\ adds \in Steps(Nat, n)
        BY <1>1, <2>1 DEF Steps
      <3>2. \E g : Solves(g, Nat, n, 0, adds)
        BY <3>1, FoldExists
      <3> QED
        BY <3>2 DEF Solves
    <2> USE DEF adds, n
    <2>3. g = [i \in 0 .. n |-> IF i = 0 THEN 0 ELSE g[i - 1] + f[i]]
      <3>1. ASSUME NEW i \in 0 .. n, i # 0 PROVE g[i] = g[i - 1] + f[i]
        <4>1. i \in 1 .. n /\ i - 1 \in 0 .. n
          BY <1>1, <3>1
        <4>2. g[i - 1] \in Nat
          BY <2>2, <4>1
        <4> QED
          BY <2>2, <4>1, <4>2
      <3> QED
        BY <2>2, <3>1
    <2>4. w = [i \in 0 .. n |-> IF i = 0 THEN 0 ELSE w[i - 1] + f[i]]
      BY <2>3
    <2> HIDE DEF w
    <2>5. 0 \in 0 .. n /\ \A i \in 1 .. n : i \in 0 .. n /\ i # 0
      BY <1>1
    <2> QED
      BY <2>4, <2>5
  <1>5. b[0] = 0 /\ \A i \in 1 .. n : b[i] = IF b[i - 1] + f[i] <= REQ_BUF THEN b[i - 1] + f[i] ELSE REQ_BUF
    <2>1. cuts \in [1 .. n -> [Nat -> Nat]]
      BY <1>1, <1>2
    <2> HIDE DEF cuts, n
    <2>2. PICK g \in [0 .. n -> Nat] : g[0] = 0 /\ \A i \in 1 .. n : g[i] = cuts[i][g[i - 1]]
      <3>1. n \in Nat /\ 0 \in Nat /\ cuts \in Steps(Nat, n)
        BY <1>1, <2>1 DEF Steps
      <3>2. \E g : Solves(g, Nat, n, 0, cuts)
        BY <3>1, FoldExists
      <3> QED
        BY <3>2 DEF Solves
    <2> USE DEF cuts, n
    <2>3. g = [i \in 0 .. n |-> IF i = 0 THEN 0 ELSE IF g[i - 1] + f[i] <= REQ_BUF THEN g[i - 1] + f[i] ELSE REQ_BUF]
      <3>1. ASSUME NEW i \in 0 .. n, i # 0
            PROVE  g[i] = IF g[i - 1] + f[i] <= REQ_BUF THEN g[i - 1] + f[i] ELSE REQ_BUF
        <4>1. i \in 1 .. n /\ i - 1 \in 0 .. n
          BY <1>1, <3>1
        <4>2. g[i - 1] \in Nat
          BY <2>2, <4>1
        <4> QED
          BY <2>2, <4>1, <4>2
      <3> QED
        BY <2>2, <3>1
    <2>4. b = [i \in 0 .. n |-> IF i = 0 THEN 0 ELSE IF b[i - 1] + f[i] <= REQ_BUF THEN b[i - 1] + f[i] ELSE REQ_BUF]
      BY <2>3
    <2> HIDE DEF b
    <2>5. 0 \in 0 .. n /\ \A i \in 1 .. n : i \in 0 .. n /\ i # 0
      BY <1>1
    <2> QED
      BY <2>4, <2>5
  <1> DEFINE Good(i) == b[i] \in 0 .. REQ_BUF /\ (b[i] < REQ_BUF => b[i] = w[i])
             bad == {i \in 0 .. n : ~Good(i)}
  <1> HIDE DEF w, b
  <1>6. bad \in SUBSET Nat /\ \A i \in 0 .. n : i \in bad <=> ~Good(i)
    OBVIOUS
  <1>7. Good(0)
    BY <1>1, <1>4, <1>5
  <1>8. ASSUME NEW i \in 1 .. n, Good(i - 1) PROVE Good(i)
    <2>1. PICK y \in Nat : y = f[i]
      BY <1>2
    <2>2. PICK x \in 0 .. REQ_BUF : x = b[i - 1] /\ (x < REQ_BUF => x = w[i - 1])
      BY <1>8
    <2>3. b[i] = IF x + y <= REQ_BUF THEN x + y ELSE REQ_BUF
      BY <1>5, <2>1, <2>2
    <2>4. w[i] = w[i - 1] + y
      BY <1>4, <2>1
    <2> QED
      BY <1>1, <2>2, <2>3, <2>4
  <1> HIDE DEF Good, bad
  <1>9. bad = {}
    <2>1. CASE bad # {}
      <3>1. PICK i \in bad : \A j \in bad : i <= j
        BY <1>6, <2>1, LeastOfSome
      <3>2. i \in 0 .. n /\ ~Good(i)
        BY <1>6, <3>1 DEF bad
      <3>3. i \in 1 .. n /\ i - 1 \in 0 .. n /\ ~(i <= i - 1)
        BY <1>1, <1>7, <3>2
      <3> QED
        BY <1>6, <1>8, <3>1, <3>2, <3>3
    <2> QED
      BY <2>1
  <1>10. Good(n)
    BY <1>1, <1>6, <1>9
  <1> QED
    BY <1>3, <1>10 DEF Good

(***************************************************************************)
(* The call.                                                               *)
(***************************************************************************)
LEMMA Starts ==
  ASSUME Bounds, Init
  PROVE  HttpInv /\ FeedInv
  <1>1. <<>> \in Seq(Nat) /\ \A i \in DOMAIN <<>> : <<>>[i] # LF
    OBVIOUS
  <1>2. StatusEnd(<<>>) = 0 /\ EmptyLines(<<>>) = {} /\ BodyOf(<<>>) = <<>>
    BY <1>1, NoLine
  <1>3. ParserInit \in Parsers /\ ParserInit.st = "STATUS" /\ ParserInit.body = <<>>
    BY DEF ParserInit, Parsers
  <1>4. ParserOK(ParserInit, <<>>)
    BY <1>1, <1>2, <1>3 DEF ParserOK
  <1>5. Shapes
    BY <1>3 DEF Init, Shapes, Calls
  <1> QED
    BY <1>3, <1>4, <1>5 DEF Init, HttpInv, FeedInv, Unread, Polling

LEMMA FeedStepKeeps ==
  ASSUME Bounds, FeedInv, FeedNext \/ UNCHANGED vars
  PROVE  FeedInv'
  <1>1. CASE UNCHANGED vars
    BY <1>1 DEF vars, FeedInv, Shapes
  <1>2. SUFFICES ASSUME FeedNext PROVE FeedInv'
    BY <1>1
  <1>3. PICK b \in Bytes : FeedByte(b)
    BY <1>2 DEF FeedNext
  <1>4. b \in Nat
    BY DEF Bounds
  <1>5. h \in Calls /\ h.parser \in Parsers /\ h.got \in Seq(Nat) /\ srv.answer \in Seq(Nat)
    BY DEF FeedInv, Shapes, Calls
  <1>6. /\ h' = [h EXCEPT !.parser = Feed(h.parser, b), !.got = Append(h.got, b)]
        /\ srv' = [srv EXCEPT !.answer = Append(srv.answer, b)] /\ UNCHANGED <<conns, dns>>
    BY <1>3 DEF FeedByte
  <1>7. Feed(h.parser, b) \in Parsers /\ ParserOK(Feed(h.parser, b), Append(h.got, b))
    BY <1>4, <1>5, FeedKeeps DEF FeedInv
  <1>8. Append(h.got, b) \in Seq(Nat) /\ Append(srv.answer, b) \in Seq(Nat)
    BY <1>4, <1>5
  <1>9. h' \in Calls /\ h'.parser = Feed(h.parser, b) /\ h'.got = Append(h.got, b) /\ h'.pc = h.pc
    BY <1>5, <1>6, <1>7, <1>8 DEF Calls
  <1>10. Shapes'
    BY <1>6, <1>8, <1>9 DEF FeedInv, Shapes
  <1>11. srv'.answer = h'.got
    BY <1>6, <1>9 DEF FeedInv, Shapes
  <1> QED
    BY <1>7, <1>9, <1>10, <1>11 DEF FeedInv

\* What is a start of the answer.
LEMMA StartOf ==
  ASSUME NEW a \in Seq(Nat), NEW x \in Seq(Nat), NEW y \in Seq(Nat), x \o y = a
  PROVE  Len(x) <= Len(a) /\ x = SubSeq(a, 1, Len(x)) /\ (y = <<>> => x = a)
  <1>1. Len(x) \in Nat /\ Len(y) \in Nat /\ Len(a) = Len(x) + Len(y)
    OBVIOUS
  <1>2. \A i \in 1 .. Len(x) : a[i] = x[i]
    BY <1>1
  <1>3. SubSeq(a, 1, Len(x)) \in Seq(Nat) /\ Len(SubSeq(a, 1, Len(x))) = Len(x)
        /\ \A i \in 1 .. Len(x) : SubSeq(a, 1, Len(x))[i] = a[i]
    BY <1>1
  <1>4. x = SubSeq(a, 1, Len(x))
    BY <1>1, <1>2, <1>3
  <1>5. y = <<>> => x \o y = x
    OBVIOUS
  <1> QED
    BY <1>1, <1>4, <1>5

LEMMA StartKeeps ==
  ASSUME Bounds, HttpInv, NEW r \in Lengths, NEW trust \in {"psk", "cert"}, NEW a \in Answers, NEW tls13 \in BOOLEAN,
         NEW d \in {"REFUSED", "SENT", "DONE"}, Start(r, trust, a, tls13, d)
  PROVE  HttpInv'
  <1>1. h \in Calls /\ h.pc = "idle" /\ Unread /\ h.cur = NULL /\ \A i \in {1, 2} : conns[i] = "none"
    BY DEF HttpInv, Shapes, Start
  <1>2. a \in Seq(Nat) /\ r # NULL
    BY DEF Bounds
  <1>3. /\ h' \in Calls /\ h'.pc \in {"dns", "done"} /\ (h'.pc = "done" => h'.rc = "DNS" /\ d = "REFUSED")
        /\ h'.req = r /\ h'.cur = NULL /\ h'.parser = h.parser /\ h'.got = h.got
    BY <1>1 DEF Start, Returns, Calls
  <1>4. srv' = [tls13 |-> tls13, answer |-> a, wire |-> <<>>, left |-> a] /\ conns' = conns /\ dns' = d
    BY DEF Start
  <1>5. Shapes'
    BY <1>2, <1>3, <1>4 DEF HttpInv, Shapes
  <1>6. ParserOK(h'.parser, h'.got)
    BY <1>3 DEF HttpInv
  <1>7. Unread'
    BY <1>1, <1>3, <1>4 DEF Unread
  <1>8. Begun'
    BY <1>1, <1>2, <1>3, <1>4 DEF Unread, Begun
  <1> QED
    BY <1>1, <1>2, <1>3, <1>4, <1>5, <1>6, <1>7, <1>8 DEF HttpInv, Polling, Live

LEMMA DnsComesKeeps ==
  ASSUME HttpInv, NEW d \in {"DONE", "ERROR"}, DnsComes(d)
  PROVE  HttpInv'
  <1>1. UNCHANGED <<h, conns, srv>> /\ h.pc = "dns" /\ dns' = d
    BY DEF DnsComes
  <1>2. Shapes' /\ Unread' /\ ParserOK(h'.parser, h'.got)
    BY <1>1 DEF HttpInv, Shapes, Unread
  <1> QED
    BY <1>1, <1>2 DEF HttpInv, Polling

\* Of a call that has read nothing.
LEMMA NothingRead ==
  ASSUME Shapes, Unread, srv' = srv, h'.got = h.got, h'.parser = h.parser
  PROVE  Unread' /\ Begun'
  <1>1. srv.answer \in Seq(Nat)
    BY DEF Shapes
  <1>2. Len(<<>>) <= Len(srv.answer) /\ <<>> = SubSeq(srv.answer, 1, Len(<<>>))
    BY <1>1
  <1> QED
    BY <1>2 DEF Unread, Begun

LEMMA ResolvedKeeps ==
  ASSUME Bounds, HttpInv, NEW free \in BOOLEAN, NEW timeout \in BOOLEAN, Resolved(free, timeout)
  PROVE  HttpInv'
  <1>1. /\ h \in Calls /\ h.pc = "dns" /\ Shapes /\ Unread /\ h.req # NULL /\ h.cur = NULL
        /\ conns[1] = "none" /\ conns[2] = "none" /\ srv' = srv /\ ParserOK(h.parser, h.got)
    BY DEF HttpInv, Shapes, Resolved
  <1>2. /\ h' \in Calls /\ h'.req = h.req /\ h'.got = h.got /\ h'.parser = h.parser
        /\ \/ h'.pc = "done" /\ h'.rc \in {"TCP", "DNS"} /\ conns' = conns
           \/ h'.pc = "open" /\ h'.cur = 1 /\ h'.cell = "none" /\ conns' = [conns EXCEPT ![1] = "syn"]
        /\ dns' \in {"DONE", "ERROR", "IDLE"}
    <2>1. CASE dns = "DONE" /\ free
      <3>1. /\ h' = [h EXCEPT !.pc = "open", !.cur = 1, !.cell = "none"]
            /\ conns' = [conns EXCEPT ![1] = "syn"] /\ dns' = dns
        BY <2>1 DEF Resolved, Opens
      <3> QED
        BY <1>1, <2>1, <3>1 DEF Calls
    <2>2. CASE dns = "DONE" /\ ~free
      <3>1. h' = [h EXCEPT !.cur = NULL, !.pc = "done", !.rc = "TCP"] /\ conns' = conns /\ dns' = dns
        BY <2>2 DEF Resolved, Opens, Returns
      <3> QED
        BY <1>1, <2>2, <3>1 DEF Calls
    <2>3. CASE dns = "ERROR"
      <3>1. h' = [h EXCEPT !.pc = "done", !.rc = "DNS"] /\ conns' = conns /\ dns' = dns
        BY <2>3 DEF Resolved, Returns
      <3> QED
        BY <1>1, <2>3, <3>1 DEF Calls
    <2>4. CASE dns \notin {"DONE", "ERROR"}
      <3>1. h' = [h EXCEPT !.pc = "done", !.rc = "DNS"] /\ conns' = conns /\ dns' = "IDLE"
        BY <2>4 DEF Resolved, Returns
      <3> QED
        BY <1>1, <2>4, <3>1 DEF Calls
    <2> QED
      BY <2>1, <2>2, <2>3, <2>4
  <1>3. Shapes'
    BY <1>1, <1>2 DEF Shapes
  <1>4. Unread' /\ Begun' /\ ParserOK(h'.parser, h'.got)
    BY <1>1, <1>2, NothingRead
  <1>5. NULL # 1
    BY DEF Bounds
  <1>6. CASE h'.pc = "done"
    BY <1>1, <1>2, <1>3, <1>4, <1>6 DEF HttpInv, Polling, Live
  <1>7. CASE h'.pc = "open"
    <2>1. conns'[1] = "syn" /\ conns'[2] = "none" /\ h'.cur = 1 /\ h'.cell = "none"
      BY <1>1, <1>2, <1>7 DEF Shapes
    <2>2. Used' /\ Cell'
      BY <2>1 DEF Used, Cell
    <2> QED
      BY <1>1, <1>2, <1>3, <1>4, <1>5, <1>7, <2>1, <2>2 DEF HttpInv, Polling
  <1> QED
    BY <1>2, <1>6, <1>7

\* The end of a call that has read nothing.
LEMMA EndsUnread ==
  ASSUME HttpInv, Unread, srv' = srv, dns' = dns, dns # "SENT", h' \in Calls, h'.got = h.got, h'.parser = h.parser,
         h'.pc = "done", h'.rc \in {"TCP", "TLS", "OVERFLOW"},
            conns' \in [{1, 2} -> {"none", "syn", "open", "half", "closing", "gone"}],
         \A i \in {1, 2} : conns'[i] \notin Live
  PROVE  HttpInv'
  <1>1. Shapes' /\ Shapes /\ ParserOK(h'.parser, h'.got)
    BY DEF HttpInv, Shapes
  <1>2. Begun'
    BY <1>1, NothingRead
  <1> QED
    BY <1>1, <1>2 DEF HttpInv, Polling

LEMMA ClosedFacts ==
  ASSUME NEW x \in {"none", "syn", "open", "half", "closing", "gone"}
  PROVE  Closed(x) \in {"none", "closing", "gone"} /\ Closed(x) \notin Live
BY DEF Closed, Live

\* What is known while the call waits for its connection.
LEMMA Waiting ==
  ASSUME Bounds, HttpInv, Polling
  PROVE  /\ h \in Calls /\ Shapes /\ ParserOK(h.parser, h.got) /\ h.req \in Lengths /\ h.cur \in {1, 2} /\ dns # "SENT"
         /\ Used /\ Cell /\ (h.cur = 1 => conns[2] = "none") /\ (h.cur = 2 => conns[1] \notin Live)
         /\ \A i \in {1, 2} : conns[i] \in {"none", "syn", "open", "half", "closing", "gone"}
         /\ DOMAIN conns = {1, 2} /\ (h.pc # "read" => Unread) /\ (h.pc = "read" => Reading)
         /\ (h.pc # "open" \/ h.cur = 2 => Sound(h.req)) /\ h.pc \notin {"idle", "dns", "done"}
  <1>1. Shapes /\ ParserOK(h.parser, h.got) /\ h.req # NULL /\ h.cur # NULL
    BY DEF HttpInv, Polling
  <1>2. h \in Calls /\ h.req \in Lengths /\ h.cur \in {1, 2} /\ DOMAIN conns = {1, 2}
        /\ \A i \in {1, 2} : conns[i] \in {"none", "syn", "open", "half", "closing", "gone"}
    BY <1>1 DEF Shapes, Calls
  <1> QED
    BY <1>1, <1>2 DEF HttpInv, Polling, Used

\* A step of the call that leaves its connections and what it read alone.
LEMMA OnlyPc ==
  ASSUME Bounds, HttpInv, Polling, NEW pc \in {"hand", "psk", "write", "read"}, h' = [h EXCEPT !.pc = pc],
     h.pc # "read",
         UNCHANGED <<conns, dns, srv>>, Sound(h.req)
  PROVE  HttpInv'
  <1>1. /\ h \in Calls /\ Shapes /\ ParserOK(h.parser, h.got) /\ h.req \in Lengths /\ h.cur \in {1, 2} /\ dns # "SENT"
        /\ Used /\ Cell /\ Unread
    BY Waiting
  <1>2. /\ h' \in Calls /\ h'.pc = pc /\ h'.cur = h.cur /\ h'.req = h.req /\ h'.got = h.got /\ h'.parser = h.parser
        /\ h'.cut = h.cut /\ h'.cell = h.cell
    BY <1>1 DEF Calls
  <1>3. Shapes' /\ Used' /\ Cell' /\ ParserOK(h'.parser, h'.got) /\ Unread' /\ Sound(h'.req)
    BY <1>1, <1>2 DEF Shapes, Used, Cell, Unread, Sound
  <1>4. Reading'
    <2>1. h'.got = <<>> /\ srv'.wire = <<>> /\ srv'.left = srv'.answer /\ srv'.answer \in Seq(Nat)
      BY <1>1, <1>2 DEF Unread, Shapes
    <2>2. <<>> \o <<>> \o srv'.answer = srv'.answer
      BY <2>1
    <2> QED
      BY <2>1, <2>2 DEF Reading
  <1>5. h'.req # NULL /\ h'.cur # NULL
    BY <1>1, <1>2 DEF Bounds
  <1> QED
    BY <1>1, <1>2, <1>3, <1>4, <1>5 DEF HttpInv, Polling

LEMMA OpenedKeeps ==
  ASSUME Bounds, HttpInv, NEW timeout \in BOOLEAN, Opened(timeout)
  PROVE  HttpInv'
  <1>1. h.pc = "open" /\ Polling /\ UNCHANGED <<dns, srv>>
    BY DEF Opened, Polling
  <1>2. /\ h \in Calls /\ Shapes /\ h.req \in Lengths /\ h.cur \in {1, 2} /\ dns # "SENT" /\ Unread
        /\ (h.cur = 1 => conns[2] = "none") /\ (h.cur = 2 => conns[1] \notin Live) /\ (h.cur = 2 => Sound(h.req))
        /\ DOMAIN conns = {1, 2} /\ \A i \in {1, 2} : conns[i] \in {"none", "syn", "open", "half", "closing", "gone"}
    BY <1>1, Waiting
  <1>3. CASE h.cell = "CONNECTED" /\ h.cur = 1 /\ BuildRequest(h.req) >= REQ_BUF
    <2>1. h' = Returns(h, "OVERFLOW") /\ conns' = [conns EXCEPT ![1] = Closed(conns[1])]
      BY <1>3 DEF Opened
    <2>2. h' \in Calls /\ h'.got = h.got /\ h'.parser = h.parser /\ h'.pc = "done" /\ h'.rc = "OVERFLOW"
      BY <1>2, <2>1 DEF Returns, Calls
    <2>3. Closed(conns[1]) \in {"none", "closing", "gone"} /\ Closed(conns[1]) \notin Live
      BY <1>2, ClosedFacts
    <2>4. conns' \in [{1, 2} -> {"none", "syn", "open", "half", "closing", "gone"}]
         /\ \A i \in {1, 2} : conns'[i] \notin Live
      BY <1>2, <1>3, <2>1, <2>3 DEF Shapes, Live
    <2> QED
      BY <1>1, <1>2, <2>2, <2>4, EndsUnread
  <1>4. CASE h.cell = "CONNECTED" /\ h.cur = 1 /\ ~(BuildRequest(h.req) >= REQ_BUF)
    <2>1. PICK pc \in {"hand", "psk"} : h' = [h EXCEPT !.pc = pc] /\ UNCHANGED conns
      BY <1>4 DEF Opened
    <2>2. Sound(h.req)
      BY <1>2, <1>4, UncutIsWhole DEF Sound, Bounds
    <2> QED
      BY <1>1, <2>1, <2>2, OnlyPc
  <1>5. CASE h.cell = "CONNECTED" /\ h.cur = 2
    <2>1. h' = [h EXCEPT !.pc = "hand"] /\ UNCHANGED conns
      BY <1>5 DEF Opened
    <2> QED
      BY <1>1, <1>2, <1>5, <2>1, OnlyPc
  <1>6. CASE h.cell # "CONNECTED"
    <2>1. h' = Returns([h EXCEPT !.cur = NULL], "TCP") /\ conns' = [conns EXCEPT ![h.cur] = "gone"]
      BY <1>6 DEF Opened
    <2>2. h' \in Calls /\ h'.got = h.got /\ h'.parser = h.parser /\ h'.pc = "done" /\ h'.rc = "TCP"
      BY <1>2, <2>1 DEF Returns, Calls
    <2>3. conns' \in [{1, 2} -> {"none", "syn", "open", "half", "closing", "gone"}]
         /\ \A i \in {1, 2} : conns'[i] \notin Live
      BY <1>2, <2>1 DEF Shapes, Live
    <2> QED
      BY <1>1, <1>2, <2>2, <2>3, EndsUnread
  <1> QED
    BY <1>2, <1>3, <1>4, <1>5, <1>6

LEMMA FailsKeeps ==
  ASSUME Bounds, HttpInv, Polling, h.pc # "read", Fails(h, "TLS"), UNCHANGED <<dns, srv>>
  PROVE  HttpInv'
  <1>1. /\ h \in Calls /\ Shapes /\ h.cur \in {1, 2} /\ dns # "SENT" /\ Unread
        /\ (h.cur = 1 => conns[2] = "none") /\ (h.cur = 2 => conns[1] \notin Live)
    BY Waiting
  <1>2. h' = Returns(h, "TLS") /\ conns' = [conns EXCEPT ![h.cur] = "gone"]
    BY <1>1 DEF Fails, Bounds
  <1>3. h' \in Calls /\ h'.got = h.got /\ h'.parser = h.parser /\ h'.pc = "done" /\ h'.rc = "TLS"
    BY <1>1, <1>2 DEF Returns, Calls
  <1>4. conns' \in [{1, 2} -> {"none", "syn", "open", "half", "closing", "gone"}]
       /\ \A i \in {1, 2} : conns'[i] \notin Live
    BY <1>1, <1>2 DEF Shapes, Live
  <1> QED
    BY <1>1, <1>3, <1>4, EndsUnread

LEMMA HandKeeps ==
  ASSUME Bounds, HttpInv, NEW ok \in BOOLEAN, NEW free \in BOOLEAN, Hand(ok, free)
  PROVE  HttpInv'
  <1>1. h.pc = "hand" /\ Polling /\ UNCHANGED <<dns, srv>>
    BY DEF Hand, Polling
  <1>2. /\ h \in Calls /\ Shapes /\ ParserOK(h.parser, h.got) /\ h.req \in Lengths /\ h.cur \in {1, 2} /\ dns # "SENT"
        /\ Unread /\ (h.cur = 1 => conns[2] = "none") /\ Sound(h.req)
        /\ DOMAIN conns = {1, 2} /\ \A i \in {1, 2} : conns[i] \in {"none", "syn", "open", "half", "closing", "gone"}
    BY <1>1, Waiting
  <1>3. CASE ok
    BY <1>1, <1>2, <1>3, OnlyPc DEF Hand
  <1>4. CASE ~ok /\ h.cur = 1 /\ free
    <2>1. /\ h' = [h EXCEPT !.cur = 2, !.pc = "open", !.cell = "none", !.cut = FALSE]
          /\ conns' = [conns EXCEPT ![1] = Closed(conns[1]), ![2] = "syn"]
      BY <1>4 DEF Hand
    <2>2. /\ h' \in Calls /\ h'.got = h.got /\ h'.parser = h.parser /\ h'.pc = "open" /\ h'.cur = 2 /\ h'.req = h.req
      BY <1>2, <2>1 DEF Calls
    <2>3. Closed(conns[1]) \in {"none", "closing", "gone"} /\ Closed(conns[1]) \notin Live
      BY <1>2, ClosedFacts
    <2>4. conns' \in [{1, 2} -> {"none", "syn", "open", "half", "closing", "gone"}] /\ conns'[1] \notin Live
      BY <1>2, <2>1, <2>3 DEF Shapes
    <2>5. Shapes' /\ Used' /\ Cell' /\ Unread' /\ ParserOK(h'.parser, h'.got) /\ Sound(h'.req)
      BY <1>1, <1>2, <2>2, <2>4, NothingRead DEF Shapes, Used, Cell, Sound
    <2>6. h'.req # NULL /\ h'.cur # NULL
      BY <1>2, <2>2 DEF Bounds
    <2> QED
      BY <1>1, <1>2, <2>2, <2>5, <2>6 DEF HttpInv, Polling
  <1>5. CASE ~ok /\ h.cur = 1 /\ ~free
    <2>1. h' = Returns([h EXCEPT !.cur = NULL], "TCP") /\ conns' = [conns EXCEPT ![1] = Closed(conns[1])]
      BY <1>5 DEF Hand, Returns
    <2>2. h' \in Calls /\ h'.got = h.got /\ h'.parser = h.parser /\ h'.pc = "done" /\ h'.rc = "TCP"
      BY <1>2, <2>1 DEF Returns, Calls
    <2>3. Closed(conns[1]) \in {"none", "closing", "gone"} /\ Closed(conns[1]) \notin Live
      BY <1>2, ClosedFacts
    <2>4. conns' \in [{1, 2} -> {"none", "syn", "open", "half", "closing", "gone"}]
         /\ \A i \in {1, 2} : conns'[i] \notin Live
      BY <1>2, <1>5, <2>1, <2>3 DEF Shapes, Live
    <2> QED
      BY <1>1, <1>2, <2>2, <2>4, EndsUnread
  <1>6. CASE ~ok /\ h.cur # 1
    <2>1. Fails(h, "TLS")
      BY <1>6 DEF Hand
    <2> QED
      BY <1>1, <2>1, FailsKeeps
  <1> QED
    BY <1>3, <1>4, <1>5, <1>6

LEMMA WriteKeeps ==
  ASSUME Bounds, HttpInv, NEW ok \in BOOLEAN, Write(ok)
  PROVE  HttpInv'
  <1>1. h.pc = "write" /\ Polling /\ UNCHANGED <<dns, srv>>
    BY DEF Write, Polling
  <1>2. Sound(h.req)
    BY <1>1, Waiting
  <1>3. CASE ok
    BY <1>1, <1>2, <1>3, OnlyPc DEF Write
  <1>4. CASE ~ok
    BY <1>1, <1>4, FailsKeeps DEF Write
  <1> QED
    BY <1>3, <1>4

LEMMA ReadDataKeeps ==
  ASSUME Bounds, HttpInv, ReadData
  PROVE  HttpInv'
  <1>1. h.pc = "read" /\ Polling /\ UNCHANGED <<conns, dns>> /\ srv.wire # <<>>
    BY DEF ReadData, Polling
  <1>2. /\ h \in Calls /\ Shapes /\ ParserOK(h.parser, h.got) /\ h.req \in Lengths /\ h.cur \in {1, 2} /\ dns # "SENT"
        /\ Used /\ Cell /\ Reading /\ Sound(h.req)
    BY <1>1, Waiting
  <1>3. h.parser \in Parsers /\ h.got \in Seq(Nat) /\ srv.wire \in Seq(Nat) /\ srv.left \in Seq(Nat)
    BY <1>2 DEF Shapes, Calls
  <1>4. Fed(h.parser, srv.wire) \in Parsers /\ ParserOK(Fed(h.parser, srv.wire), h.got \o srv.wire)
    BY <1>2, <1>3, FedFacts
  <1>5. h.got \o srv.wire \in Seq(Nat)
    BY <1>3
  <1>6. /\ h' = [h EXCEPT !.parser = Fed(h.parser, srv.wire), !.got = h.got \o srv.wire]
        /\ srv' = [srv EXCEPT !.wire = <<>>]
    BY DEF ReadData
  <1>7. /\ h' \in Calls /\ h'.parser = Fed(h.parser, srv.wire) /\ h'.got = h.got \o srv.wire /\ h'.pc = "read"
        /\ h'.req = h.req /\ h'.cur = h.cur /\ h'.cell = h.cell /\ h'.cut = h.cut
    BY <1>1, <1>2, <1>4, <1>5, <1>6 DEF Calls
  <1>8. Shapes' /\ srv'.left = srv.left /\ srv'.answer = srv.answer /\ srv'.wire = <<>>
    <2>1. <<>> \in Seq(Nat) /\ srv \in [tls13 : BOOLEAN, answer : Seq(Nat), wire : Seq(Nat), left : Seq(Nat)]
      BY <1>2 DEF Shapes
    <2>2. /\ srv' \in [tls13 : BOOLEAN, answer : Seq(Nat), wire : Seq(Nat), left : Seq(Nat)]
          /\ srv'.left = srv.left /\ srv'.answer = srv.answer /\ srv'.wire = <<>>
      BY <1>6, <2>1
    <2> QED
      BY <1>1, <1>2, <1>7, <2>2 DEF Shapes
  <1>9. Used' /\ Cell' /\ Sound(h'.req)
    BY <1>1, <1>2, <1>7, <1>8 DEF Used, Cell, Sound
  <1>10. Reading'
    <2>1. h.got \o srv.wire \o srv.left = srv.answer
      BY <1>1, <1>2 DEF Reading
    <2>2. h.got \o srv.wire \o <<>> = h.got \o srv.wire
      BY <1>5
    <2> QED
      BY <1>7, <1>8, <2>1, <2>2 DEF Reading
  <1>11. h'.req # NULL /\ h'.cur # NULL
    BY <1>2, <1>7 DEF Bounds
  <1> QED
    BY <1>1, <1>2, <1>4, <1>7, <1>8, <1>9, <1>10, <1>11 DEF HttpInv, Polling

\* What was read is a start of the answer, and all of it when there is no more.
LEMMA ReadIsStart ==
  ASSUME Shapes, Reading
  PROVE  Begun /\ (~h.cut /\ srv.wire = <<>> /\ srv.left = <<>> => h.got = srv.answer)
  <1>1. h.got \in Seq(Nat) /\ srv.wire \in Seq(Nat) /\ srv.left \in Seq(Nat) /\ srv.answer \in Seq(Nat)
    BY DEF Shapes, Calls
  <1>2. CASE h.got \o srv.wire \o srv.left = srv.answer
    <2>1. h.got \o srv.wire \in Seq(Nat) /\ srv.wire \o srv.left \in Seq(Nat)
      BY <1>1
    <2>2. h.got \o (srv.wire \o srv.left) = srv.answer
      BY <1>1, <1>2, Assoc
    <2>3. srv.wire = <<>> /\ srv.left = <<>> => srv.wire \o srv.left = <<>>
      OBVIOUS
    <2>4. Len(h.got) <= Len(srv.answer) /\ h.got = SubSeq(srv.answer, 1, Len(h.got))
          /\ (srv.wire \o srv.left = <<>> => h.got = srv.answer)
      <3>1. PICK y \in Seq(Nat) : y = srv.wire \o srv.left
        BY <2>1
      <3>2. h.got \o y = srv.answer
        BY <2>2, <3>1
      <3> QED
        BY <1>1, <3>1, <3>2, StartOf
    <2> QED
      BY <2>3, <2>4 DEF Begun
  <1> QED
    BY <1>2 DEF Reading

LEMMA ReadEndKeeps ==
  ASSUME Bounds, HttpInv, NEW deadline \in BOOLEAN, ReadEnd(deadline)
  PROVE  HttpInv'
  <1>1. h.pc = "read" /\ Polling /\ UNCHANGED <<dns, srv>> /\ srv.wire = <<>>
    BY DEF ReadEnd, Polling
  <1>2. /\ h \in Calls /\ Shapes /\ ParserOK(h.parser, h.got) /\ h.req \in Lengths /\ h.cur \in {1, 2} /\ dns # "SENT"
        /\ Used /\ Cell /\ Reading /\ Sound(h.req) /\ (h.cur = 1 => conns[2] = "none")
        /\ (h.cur = 2 => conns[1] \notin Live) /\ DOMAIN conns = {1, 2}
        /\ \A i \in {1, 2} : conns[i] \in {"none", "syn", "open", "half", "closing", "gone"}
    BY <1>1, Waiting
  <1>3. /\ h' \in Calls /\ h'.pc = "done" /\ h'.rc = (IF h.parser.code = 200 THEN "OK" ELSE "STATUS") /\ h'.req = h.req
        /\ h'.parser = h.parser /\ h'.got = h.got /\ h'.cur = h.cur
        /\ (~h'.cut => ~h.cut /\ h.cell \in {"CLOSED", "ABORTED"})
    BY <1>2 DEF ReadEnd, Returns, Calls
  <1>4. conns' = [conns EXCEPT ![h.cur] = Closed(conns[h.cur])]
    BY DEF ReadEnd
  <1>5. Closed(conns[h.cur]) \in {"none", "closing", "gone"} /\ Closed(conns[h.cur]) \notin Live
    BY <1>2, ClosedFacts
  <1>6. conns' \in [{1, 2} -> {"none", "syn", "open", "half", "closing", "gone"}]
       /\ \A i \in {1, 2} : conns'[i] \notin Live
    BY <1>2, <1>4, <1>5 DEF Shapes, Live
  <1>7. Shapes' /\ ParserOK(h'.parser, h'.got) /\ Sound(h'.req)
    BY <1>1, <1>2, <1>3, <1>6 DEF Shapes, Sound
  <1>8. Begun'
    BY <1>1, <1>2, <1>3, ReadIsStart DEF Begun
  <1>9. ~h'.cut /\ h'.cur = 1 => h'.got = srv'.answer
    <2>1. ~h.cut /\ h.cur = 1 /\ h.cell \in {"CLOSED", "ABORTED"} => srv.left = <<>>
      BY <1>2 DEF Cell
    <2> QED
      BY <1>1, <1>2, <1>3, <2>1, ReadIsStart
  <1> QED
    BY <1>1, <1>2, <1>3, <1>6, <1>7, <1>8, <1>9 DEF HttpInv, Polling

(***************************************************************************)
(* What TCP says.                                                          *)
(***************************************************************************)
LEMMA GivesKeeps ==
  ASSUME Bounds, HttpInv, NEW n \in 1 .. Len(srv.left), Gives(n)
  PROVE  HttpInv'
  <1>1. h.pc = "read" /\ Polling /\ UNCHANGED <<h, conns, dns>> /\ conns[h.cur] = "open"
    BY DEF Gives, Polling
  <1>2. /\ h \in Calls /\ Shapes /\ ParserOK(h.parser, h.got) /\ h.req \in Lengths /\ h.cur \in {1, 2} /\ dns # "SENT"
        /\ Used /\ Cell /\ Reading /\ Sound(h.req)
    BY <1>1, Waiting
  <1>3. h.got \in Seq(Nat) /\ srv.wire \in Seq(Nat) /\ srv.left \in Seq(Nat) /\ srv.answer \in Seq(Nat)
       /\ srv.tls13 \in BOOLEAN
    BY <1>2 DEF Shapes, Calls
  <1> DEFINE x == SubSeq(srv.left, 1, n)
             y == SubSeq(srv.left, n + 1, Len(srv.left))
  <1>4. x \in Seq(Nat) /\ y \in Seq(Nat) /\ x \o y = srv.left
    <2>1. Len(srv.left) \in Nat /\ n \in Nat /\ n + 1 \in 1 .. Len(srv.left) + 1
      BY <1>3
    <2>2. SubSeq(srv.left, 1, n) \o SubSeq(srv.left, n + 1, Len(srv.left)) = SubSeq(srv.left, 1, Len(srv.left))
      BY <1>3, <2>1, ConcatAdjacentSubSeq
    <2>3. SubSeq(srv.left, 1, Len(srv.left)) = srv.left
      BY <1>3
    <2>4. (\A i \in 1 .. n : srv.left[i] \in Nat) /\ (\A i \in n + 1 .. Len(srv.left) : srv.left[i] \in Nat)
      BY <1>3, <2>1
    <2>5. SubSeq(srv.left, 1, n) \in Seq(Nat)
      BY <2>1, <2>4, SubSeqProperties
    <2>6. SubSeq(srv.left, n + 1, Len(srv.left)) \in Seq(Nat)
      BY <2>1, <2>4, SubSeqProperties
    <2> QED
      BY <2>2, <2>3, <2>5, <2>6
  <1>5. srv' = [srv EXCEPT !.wire = srv.wire \o x, !.left = y]
    BY DEF Gives
  <1> HIDE DEF x, y
  <1>6. srv.wire \o x \in Seq(Nat)
    BY <1>3, <1>4
  <1>7. Shapes' /\ srv'.wire = srv.wire \o x /\ srv'.left = y /\ srv'.answer = srv.answer
    BY <1>1, <1>2, <1>4, <1>5, <1>6 DEF Shapes
  <1>8. Used' /\ Sound(h'.req) /\ ParserOK(h'.parser, h'.got)
    BY <1>1, <1>2 DEF Used, Sound
  <1>9. Cell'
    <2>1. srv.left # <<>>
      BY <1>3
    <2> QED
      BY <1>1, <1>2, <2>1 DEF Cell
  <1>10. Reading'
    <2>1. h.got \o srv.wire \o srv.left = srv.answer
      BY <1>1, <1>2 DEF Reading
    <2>2. h.got \o srv.wire \in Seq(Nat)
      BY <1>3
    <2>3. (h.got \o srv.wire) \o x = h.got \o (srv.wire \o x)
      BY <1>3, <1>4, Assoc
    <2>4. ((h.got \o srv.wire) \o x) \o y = (h.got \o srv.wire) \o (x \o y)
      BY <1>4, <2>2, Assoc
    <2>5. h'.got \o srv'.wire \o srv'.left = srv'.answer
      BY <1>1, <1>4, <1>7, <2>1, <2>3, <2>4
    <2> QED
      BY <2>5 DEF Reading
  <1>11. h'.req # NULL /\ h'.cur # NULL
    BY <1>1, <1>2 DEF Bounds
  <1> QED
    BY <1>1, <1>2, <1>7, <1>8, <1>9, <1>10, <1>11 DEF HttpInv, Polling

\* Of an event of one of the connections: what it does to the call, if it marks
\* an answer that it cuts.
LEMMA EventKeeps ==
  ASSUME Bounds, HttpInv, Polling, NEW i \in {1, 2}, NEW to \in {"open", "half", "gone"},
         NEW e \in {"CONNECTED", "CLOSED", "ABORTED"}, NEW cut \in BOOLEAN,
         conns[i] \in {"syn", "open", "half", "closing"}, to \in Live => conns[i] \in Live,
         conns' = [conns EXCEPT ![i] = to], h' = [h EXCEPT !.cell = e, !.cut = cut], dns' = dns, srv' = srv,
         h.cut => cut, i = 1 /\ h.cur = 1 /\ ~cut => e # "ABORTED" /\ (e = "CLOSED" \/ to # "open" => srv.left = <<>>)
  PROVE  HttpInv'
  <1>1. /\ h \in Calls /\ Shapes /\ ParserOK(h.parser, h.got) /\ h.req \in Lengths /\ h.cur \in {1, 2} /\ dns # "SENT"
        /\ Used /\ Cell /\ (h.cur = 1 => conns[2] = "none") /\ (h.cur = 2 => conns[1] \notin Live)
        /\ DOMAIN conns = {1, 2} /\ (h.pc # "read" => Unread) /\ (h.pc = "read" => Reading)
        /\ (h.pc # "open" \/ h.cur = 2 => Sound(h.req)) /\ h.pc \notin {"idle", "dns", "done"}
    BY Waiting
  <1>2. /\ h' \in Calls /\ h'.pc = h.pc /\ h'.parser = h.parser /\ h'.got = h.got /\ h'.req = h.req /\ h'.cur = h.cur
        /\ h'.cell = e /\ h'.cut = cut
    BY <1>1 DEF Calls
  <1>3. conns'[i] = to /\ \A j \in {1, 2} : j # i => conns'[j] = conns[j]
    BY <1>1
  <1>4. Shapes' /\ ParserOK(h'.parser, h'.got)
    <2>1. conns' \in [{1, 2} -> {"none", "syn", "open", "half", "closing", "gone"}]
      BY <1>1 DEF Shapes
    <2> QED
      BY <1>1, <1>2, <2>1 DEF Shapes
  <1>5. h.cur = 1 => i = 1
    BY <1>1
  <1>6. Used'
    BY <1>1, <1>2, <1>3, <1>5 DEF Used, Live
  <1>7. Cell'
    BY <1>1, <1>2, <1>3, <1>5 DEF Cell
  <1>8. h.pc # "read" => Unread'
    BY <1>1, <1>2 DEF Unread
  <1>9. h.pc = "read" => Reading'
    <2>1. h.pc = "read" /\ ~(h.got \o srv.wire \o srv.left = srv.answer)
            => h.cut /\ srv.wire = <<>> /\ conns[h.cur] = "gone" /\ Begun
      BY <1>1 DEF Reading
    <2>2. conns[h.cur] = "gone" => conns'[h.cur] = "gone"
      BY <1>1, <1>3
    <2>3. Begun => Begun'
      BY <1>2 DEF Begun
    <2> QED
      BY <1>2, <2>1, <2>2, <2>3 DEF Reading
  <1>10. h'.req # NULL /\ h'.cur # NULL /\ (h.pc # "open" \/ h.cur = 2 => Sound(h'.req))
    BY <1>1, <1>2 DEF Bounds, Sound
  <1> QED
    BY <1>1, <1>2, <1>4, <1>6, <1>7, <1>8, <1>9, <1>10 DEF HttpInv, Polling

\* A reset takes with it what was on its way.
LEMMA ResetKeeps ==
  ASSUME Bounds, HttpInv, NEW i \in {1, 2}, Reset(i), i = h.cur, srv.wire # <<>>
  PROVE  HttpInv'
  <1>1. Polling /\ dns' = dns
    BY DEF Reset, Event
  <1>2. /\ h \in Calls /\ Shapes /\ ParserOK(h.parser, h.got) /\ h.req \in Lengths /\ h.cur \in {1, 2} /\ dns # "SENT"
        /\ Used /\ (h.cur = 1 => conns[2] = "none") /\ (h.cur = 2 => conns[1] \notin Live) /\ DOMAIN conns = {1, 2}
        /\ (h.pc # "read" => Unread) /\ (h.pc = "read" => Reading)
        /\ (h.pc # "open" \/ h.cur = 2 => Sound(h.req)) /\ h.pc \notin {"idle", "dns", "done"}
    BY <1>1, Waiting
  <1>3. h.pc = "read" /\ Reading /\ Sound(h.req)
    BY <1>2 DEF Unread
  <1>4. /\ h' = [h EXCEPT !.cell = "ABORTED", !.cut = TRUE] /\ conns' = [conns EXCEPT ![i] = "gone"]
        /\ srv' = [srv EXCEPT !.wire = <<>>]
    BY <1>2 DEF Reset, Event, Calls
  <1>5. /\ h' \in Calls /\ h'.pc = h.pc /\ h'.parser = h.parser /\ h'.got = h.got /\ h'.req = h.req /\ h'.cur = h.cur
        /\ h'.cut = TRUE
    BY <1>2, <1>4 DEF Calls
  <1>6. conns'[h.cur] = "gone" /\ srv'.wire = <<>> /\ srv'.answer = srv.answer /\ \A j \in {1, 2} : j # i
       => conns'[j] = conns[j]
    BY <1>2, <1>4 DEF Shapes
  <1>7. Shapes' /\ ParserOK(h'.parser, h'.got)
    <2>1. <<>> \in Seq(Nat) /\ srv \in [tls13 : BOOLEAN, answer : Seq(Nat), wire : Seq(Nat), left : Seq(Nat)]
      BY <1>2 DEF Shapes
    <2>2. srv' \in [tls13 : BOOLEAN, answer : Seq(Nat), wire : Seq(Nat), left : Seq(Nat)]
      BY <1>4, <2>1
    <2>3. conns' \in [{1, 2} -> {"none", "syn", "open", "half", "closing", "gone"}]
      BY <1>2, <1>4 DEF Shapes
    <2> QED
      BY <1>1, <1>2, <1>5, <2>2, <2>3 DEF Shapes
  <1>8. Used' /\ Cell' /\ Sound(h'.req)
    BY <1>2, <1>3, <1>5, <1>6 DEF Used, Cell, Sound
  <1>9. Reading'
    <2>1. Begun
      BY <1>2, <1>3, ReadIsStart
    <2> QED
      BY <1>5, <1>6, <2>1 DEF Reading, Begun
  <1>10. h'.req # NULL /\ h'.cur # NULL
    BY <1>2, <1>5 DEF Bounds
  <1> QED
    BY <1>1, <1>2, <1>3, <1>5, <1>7, <1>8, <1>9, <1>10 DEF HttpInv, Polling

LEMMA TcpKeeps ==
  ASSUME Bounds, HttpInv, NEW i \in {1, 2}, Established(i) \/ PeerCloses(i) \/ CloseEnds(i) \/ Reset(i)
  PROVE  HttpInv'
  <1>1. Polling
    BY DEF Established, PeerCloses, CloseEnds, Reset, Event
  <1>2. /\ h \in Calls /\ Shapes /\ h.cur \in {1, 2} /\ Cell /\ (h.cur = 1 => conns[2] = "none")
        /\ (h.pc # "read" => Unread) /\ (h.pc = "read" => Reading)
    BY <1>1, Waiting
  <1>3. h.cut \in BOOLEAN
    BY <1>2 DEF Calls
  <1>4. CASE Established(i)
    <2>1. h' = [h EXCEPT !.cell = "CONNECTED", !.cut = h.cut]
      BY <1>2, <1>4 DEF Established, Calls
    <2> QED
      BY <1>1, <1>3, <1>4, <2>1, EventKeeps DEF Established, Live
  <1> DEFINE Cut(e) == h.cut \/ (i = h.cur /\ (e = "ABORTED" \/ srv.left # <<>>))
  <1>5. CASE PeerCloses(i)
    <2>1. h' = [h EXCEPT !.cell = "CLOSED", !.cut = Cut("CLOSED")]
      BY <1>5 DEF PeerCloses, Event
    <2> QED
      BY <1>1, <1>3, <1>5, <2>1, EventKeeps DEF PeerCloses, Event, Live
  <1>6. CASE CloseEnds(i)
    <2>1. h' = [h EXCEPT !.cell = "CLOSED", !.cut = Cut("CLOSED")]
      BY <1>6 DEF CloseEnds, Event
    <2> QED
      BY <1>1, <1>3, <1>6, <2>1, EventKeeps DEF CloseEnds, Event, Live
  <1>7. CASE Reset(i) /\ (i # h.cur \/ srv.wire = <<>>)
    <2>1. h' = [h EXCEPT !.cell = "ABORTED", !.cut = Cut("ABORTED")]
      BY <1>7 DEF Reset, Event
    <2>2. srv' = srv
      BY <1>2, <1>7 DEF Reset, Shapes
    <2>3. i = 1 /\ h.cur = 1 => Cut("ABORTED")
      OBVIOUS
    <2> QED
      BY <1>1, <1>3, <1>7, <2>1, <2>2, <2>3, EventKeeps DEF Reset, Event, Live
  <1>8. CASE Reset(i) /\ i = h.cur /\ srv.wire # <<>>
    BY <1>1, <1>2, <1>8, ResetKeeps
  <1> QED
    BY <1>4, <1>5, <1>6, <1>7, <1>8

LEMMA HttpKeeps ==
  ASSUME Bounds, HttpInv, Next \/ UNCHANGED vars
  PROVE  HttpInv'
  <1>1. CASE UNCHANGED vars
    BY <1>1 DEF vars, HttpInv, Shapes, Unread, Begun, Polling, Used, Cell, Reading, Sound
  <1>2. ASSUME NEW r \in Lengths, NEW trust \in {"psk", "cert"}, NEW a \in Answers, NEW tls13 \in BOOLEAN,
               NEW d \in {"REFUSED", "SENT", "DONE"}, Start(r, trust, a, tls13, d)
        PROVE  HttpInv'
    BY <1>2, StartKeeps
  <1>3. ASSUME NEW d \in {"DONE", "ERROR"}, DnsComes(d) PROVE HttpInv'
    BY <1>3, DnsComesKeeps
  <1>4. ASSUME NEW free \in BOOLEAN, NEW timeout \in BOOLEAN, Resolved(free, timeout) PROVE HttpInv'
    BY <1>4, ResolvedKeeps
  <1>5. ASSUME NEW yes \in BOOLEAN, Opened(yes) \/ Write(yes) \/ ReadEnd(yes) PROVE HttpInv'
    BY <1>5, OpenedKeeps, WriteKeeps, ReadEndKeeps
  <1>6. ASSUME NEW ok \in BOOLEAN, NEW free \in BOOLEAN, Hand(ok, free) PROVE HttpInv'
    BY <1>6, HandKeeps
  <1>7. CASE DrivePsk
    <2>1. Polling /\ h.pc # "read" /\ Fails(h, "TLS") /\ UNCHANGED <<dns, srv>>
      BY <1>7 DEF DrivePsk, Polling
    <2> QED
      BY <2>1, FailsKeeps
  <1>8. CASE ReadData
    BY <1>8, ReadDataKeeps
  <1>9. ASSUME NEW i \in {1, 2}, Established(i) \/ PeerCloses(i) \/ CloseEnds(i) \/ Reset(i) PROVE HttpInv'
    BY <1>9, TcpKeeps
  <1>10. ASSUME NEW n \in 1 .. Len(srv.left), Gives(n) PROVE HttpInv'
    BY <1>10, GivesKeeps
  <1> QED
    BY <1>1, <1>2, <1>3, <1>4, <1>5, <1>6, <1>7, <1>8, <1>9, <1>10 DEF Next

LEMMA AnswerFollows ==
  ASSUME Bounds, HttpInv
  PROVE  AnswerSound /\ NothingLeft
  <1>1. Shapes /\ ParserOK(h.parser, h.got)
    BY DEF HttpInv
  <1>2. Begun
    <2>1. CASE h.pc \in {"idle", "dns", "open", "psk", "hand", "write"}
      <3>1. Unread /\ srv.answer \in Seq(Nat)
        BY <1>1, <2>1 DEF HttpInv, Shapes
      <3>2. Len(<<>>) <= Len(srv.answer) /\ <<>> = SubSeq(srv.answer, 1, Len(<<>>))
        BY <3>1
      <3> QED
        BY <3>1, <3>2 DEF Unread, Begun
    <2>2. CASE h.pc = "read"
      BY <1>1, <2>2, ReadIsStart DEF HttpInv
    <2>3. CASE h.pc = "done"
      BY <2>3 DEF HttpInv
    <2> QED
      BY <1>1, <2>1, <2>2, <2>3 DEF Shapes, Calls
  <1>3. h.pc = "done" /\ h.rc = "OK" => h.parser.code = 200 /\ BuildRequest(h.req) = Whole(h.req)
    BY UncutIsWhole DEF HttpInv, Sound
  <1>4. h.pc = "done" /\ h.rc \in {"OK", "STATUS"} /\ ~h.cut /\ h.cur = 1 => h.got = srv.answer
    BY DEF HttpInv
  <1>5. NothingLeft
    BY DEF HttpInv, NothingLeft
  <1> QED
    BY <1>1, <1>2, <1>3, <1>4, <1>5 DEF AnswerSound, ParserOK

LEMMA FeedFollows ==
  ASSUME FeedInv
  PROVE  AnswerSound
  <1>1. h.got \in Seq(Nat) /\ h.pc = "idle" /\ srv.answer = h.got /\ h.parser.body = BodyOf(h.got)
    BY DEF FeedInv, Shapes, Calls, ParserOK
  <1>2. Begun
    <2>1. Len(h.got) <= Len(h.got) /\ h.got = SubSeq(h.got, 1, Len(h.got))
      BY <1>1
    <2> QED
      BY <1>1, <2>1 DEF Begun
  <1> QED
    BY <1>1, <1>2 DEF AnswerSound

=============================================================================
