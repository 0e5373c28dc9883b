-------------------------------- MODULE Coap --------------------------------
(***************************************************************************)
(* CoAP client and server: net/coap/tiku_kits_net_coap.c, on every one of  *)
(* Nodes, over UDP that loses, duplicates and reorders.  Nodes of Foreign  *)
(* run some other CoAP server and answer in every way RFC 7252 allows.     *)
(***************************************************************************)
EXTENDS Integers, FiniteSets

CONSTANTS
  Nodes, Foreign, NULL,
  Clients,         \* nodes whose application sends requests
  Paths,           \* resources a request may name
  MAX_RESOURCES, MAX_RETRANSMIT,
  IdSpace,         \* values of a message id and of a token (65536)
  MaxRequests,     \* bound: requests in all
  MaxReboots       \* bound: coap_init calls after the first

VARIABLES
  node,     \* the static state of each node
  net,      \* every datagram sent so far: any of them may arrive, any number of times
  asked,    \* requests sent; a request is known by its number
  reboots,
  calls,    \* times the response callback of each request was called
  got,      \* the requests whose responses it was given, and NULL for a timeout
  ran,      \* times a resource handler ran for each request
  taken,    \* requests that a server looked up among its resources
  ignored   \* requests that a server dropped as duplicates
vars == <<node, net, asked, reboots, calls, got, ran, taken, ignored>>

Requests == 1 .. MaxRequests

NoCon == [active |-> FALSE, dst |-> NULL, mid |-> 0, token |-> 0, retries |-> 0, req |-> 0]
\* tiku_kits_net_coap_init.
Fresh == [bound |-> TRUE, rx |-> NULL, con |-> NoCon, dedup |-> NULL,
          mid |-> 1 % IdSpace, token |-> 0, resources |-> {}]

Init ==
  /\ node = [n \in Nodes |-> Fresh] /\ net = {} /\ asked = 0 /\ reboots = 0
  /\ calls = [q \in Requests |-> 0] /\ got = [q \in Requests |-> {}]
  /\ ran = [q \in Requests |-> 0] /\ taken = {} /\ ignored = {}

Message(type, code, mid, token, src, dst, path, q) ==
  [type |-> type, code |-> code, mid |-> mid, token |-> token, src |-> src, dst |-> dst,
   path |-> path, req |-> q]

(***************************************************************************)
(* API.                                                                    *)
(***************************************************************************)
Register(n, p) ==
  /\ p \notin node[n].resources /\ Cardinality(node[n].resources) < MAX_RESOURCES
  /\ node' = [node EXCEPT ![n].resources = @ \cup {p}]
  /\ UNCHANGED <<net, asked, reboots, calls, got, ran, taken, ignored>>

Unregister(n, p) ==
  /\ p \in node[n].resources
  /\ node' = [node EXCEPT ![n].resources = @ \ {p}]
  /\ UNCHANGED <<net, asked, reboots, calls, got, ran, taken, ignored>>

\* send_request.  One that cannot be built or sent has used up its id and token.
Request(n, d, type, p, ok) ==
  /\ asked < MaxRequests /\ n # d
  /\ type = "CON" => ~node[n].con.active
  /\ LET t == (node[n].token + 1) % IdSpace
         m == Message(type, "REQ", node[n].mid, t, n, d, p, asked + 1)
         tx == [active |-> TRUE, dst |-> d, mid |-> node[n].mid, token |-> t, retries |-> 0, req |-> asked + 1]
     IN  /\ node' = [node EXCEPT ![n].mid = (@ + 1) % IdSpace, ![n].token = t,
                                 ![n].con = IF ok /\ type = "CON" THEN tx ELSE @]
         /\ net' = IF ok THEN net \cup {m} ELSE net
  /\ asked' = asked + 1
  /\ UNCHANGED <<reboots, calls, got, ran, taken, ignored>>

Shutdown(n) ==
  /\ node[n].bound
  /\ node' = [node EXCEPT ![n].bound = FALSE, ![n].con = NoCon, ![n].rx = NULL]
  /\ UNCHANGED <<net, asked, reboots, calls, got, ran, taken, ignored>>

\* coap_init again: after a restart of the device, or of CoAP.
Reboot(n) ==
  /\ reboots < MaxReboots /\ reboots' = reboots + 1
  /\ node' = [node EXCEPT ![n] = Fresh]
  /\ UNCHANGED <<net, asked, calls, got, ran, taken, ignored>>

(***************************************************************************)
(* coap_recv_cb: a datagram is kept if the last one was taken.             *)
(***************************************************************************)
Receive(n, m) ==
  /\ node[n].bound /\ node[n].rx = NULL /\ m.dst = n
  /\ node' = [node EXCEPT ![n].rx = m]
  /\ UNCHANGED <<net, asked, reboots, calls, got, ran, taken, ignored>>

(***************************************************************************)
(* tiku_kits_net_coap_poll.  Each part takes the node's state and returns  *)
(* it with the datagrams sent, the callback made and the handler run.      *)
(***************************************************************************)
Quiet(s) == [s |-> s, out |-> {}, call |-> {}, taken |-> {}, handled |-> {}, dropped |-> {}]

\* The transaction matched by message id.
Acknowledged_by_any(s, m) ==
  IF ~s.con.active THEN Quiet(s)
  ELSE [Quiet([s EXCEPT !.con = NoCon]) EXCEPT
          !.call = IF m.type = "ACK" /\ m.code # "EMPTY" THEN {<<s.con.req, m.req>>} ELSE {}]
Acknowledged(s, m) ==
  IF ~s.con.active \/ m.mid # s.con.mid THEN Quiet(s)
  ELSE [Quiet([s EXCEPT !.con = NoCon]) EXCEPT
          !.call = IF m.type = "ACK" /\ m.code # "EMPTY" THEN {<<s.con.req, m.req>>} ELSE {}]

\* A separate response, matched by token.
Separate(n, s, m) ==
  IF ~s.con.active \/ m.token # s.con.token THEN Quiet(s)
  ELSE [Quiet([s EXCEPT !.con = NoCon]) EXCEPT
          !.call = {<<s.con.req, m.req>>},
          !.out = IF m.type = "CON" THEN {Message("ACK", "EMPTY", m.mid, 0, n, m.src, NULL, m.req)} ELSE {}]

Duplicate(s, m) == s.dedup = <<m.mid, m.src>>

handle_request(n, s, m) ==
  IF m.type = "CON" /\ Duplicate(s, m) THEN [Quiet(s) EXCEPT !.dropped = {m.req}]
  ELSE LET t == IF m.type = "CON" THEN [s EXCEPT !.dedup = <<m.mid, m.src>>] ELSE s IN
       IF m.path \notin t.resources
       THEN [Quiet(t) EXCEPT !.taken = {m.req}, !.out = IF m.type = "CON"
                                     THEN {Message("RST", "EMPTY", m.mid, 0, n, m.src, NULL, m.req)} ELSE {}]
       ELSE LET con == m.type = "CON"
                u == IF con THEN t ELSE [t EXCEPT !.mid = (@ + 1) % IdSpace]
            IN  [Quiet(u) EXCEPT
                   !.taken = {m.req}, !.handled = {m.req},
                   !.out = {Message(IF con THEN "ACK" ELSE "NON", "RESP", IF con THEN m.mid ELSE t.mid,
                                    m.token, n, m.src, NULL, m.req)}]

Rx(n) ==
  LET m == node[n].rx
      s == [node[n] EXCEPT !.rx = NULL]
  IN  IF m = NULL THEN Quiet(s)
      ELSE IF m.type \in {"ACK", "RST"} THEN Acknowledged(s, m)
      ELSE IF m.code = "RESP" THEN Separate(n, s, m)
      ELSE IF m.code = "REQ" THEN handle_request(n, s, m)
      ELSE Quiet(s)

\* The retransmission timer.  What is sent again is already in net.
Timer_stays(r) ==
  IF r.s.con.retries < MAX_RETRANSMIT THEN [r EXCEPT !.s.con.retries = @ + 1]
  ELSE r
Timer(r) ==
  IF r.s.con.retries < MAX_RETRANSMIT THEN [r EXCEPT !.s.con.retries = @ + 1]
  ELSE [r EXCEPT !.s.con = NoCon, !.call = {<<r.s.con.req, NULL>>}]

\* sent: udp_send accepts what the poll sends; a response too large is not sent either.
Poll(n, expired, sent) ==
  /\ expired \/ node[n].rx # NULL
  /\ LET a == Rx(n)
         r == IF expired /\ a.s.con.active THEN Timer(a) ELSE a
     IN  /\ expired => node[n].con.active
         /\ node' = [node EXCEPT ![n] = r.s]
         /\ net' = IF sent THEN net \cup r.out ELSE net
         /\ taken' = taken \cup r.taken
         /\ calls' = [q \in Requests |-> IF \E c \in r.call : c[1] = q THEN calls[q] + 1 ELSE calls[q]]
         /\ got' = [q \in Requests |-> got[q] \cup {c[2] : c \in {d \in r.call : d[1] = q}}]
         /\ ran' = [q \in Requests |-> IF q \in r.handled /\ ran[q] < 2 THEN ran[q] + 1 ELSE ran[q]]
         /\ ignored' = ignored \cup r.dropped
  /\ UNCHANGED <<asked, reboots>>

(***************************************************************************)
(* Another implementation of the server: it may answer in the ACK, reset,  *)
(* or acknowledge first and respond in a message of its own.               *)
(***************************************************************************)
ForeignReply(f, m) ==
  /\ m.dst = f /\ m.code = "REQ" /\ m.src \notin Foreign
  /\ \A r \in net : ~(r.src = f /\ r.req = m.req)
  /\ \E out \in {{Message("ACK", "RESP", m.mid, m.token, f, m.src, NULL, m.req)},
                 {Message("RST", "EMPTY", m.mid, 0, f, m.src, NULL, m.req)},
                 {Message("ACK", "EMPTY", m.mid, 0, f, m.src, NULL, m.req),
                  Message("CON", "RESP", 0, m.token, f, m.src, NULL, m.req)},
                 {Message("NON", "RESP", 0, m.token, f, m.src, NULL, m.req)}} :
       net' = net \cup out
  /\ UNCHANGED <<node, asked, reboots, calls, got, ran, taken, ignored>>

Own == Nodes \ Foreign
Next ==
  \/ \E n \in Own, p \in Paths : Register(n, p) \/ Unregister(n, p)
  \/ \E n \in Clients, d \in Nodes, type \in {"CON", "NON"}, p \in Paths, ok \in BOOLEAN : Request(n, d, type, p, ok)
  \/ \E n \in Own : Shutdown(n) \/ Reboot(n)
  \/ \E n \in Own, m \in net : Receive(n, m)
  \/ \E n \in Own, expired \in BOOLEAN, sent \in BOOLEAN : Poll(n, expired, sent)
  \/ \E f \in Foreign, m \in net : ForeignReply(f, m)
Spec == Init /\ [][Next]_vars

(***************************************************************************)
(* Properties.                                                             *)
(***************************************************************************)
\* Every variable keeps its type; the retransmissions stay within their limit.
TypeOK ==
  /\ \A n \in Nodes :
       LET s == node[n] IN
       /\ s.bound \in BOOLEAN /\ s.rx \in net \cup {NULL}
       /\ s.con.active \in BOOLEAN /\ s.con.retries \in 0 .. MAX_RETRANSMIT /\ s.con.req \in 0 .. asked
       /\ s.mid \in 0 .. IdSpace - 1 /\ s.token \in 0 .. IdSpace - 1
       /\ s.resources \subseteq Paths /\ Cardinality(s.resources) <= MAX_RESOURCES
  /\ asked \in 0 .. MaxRequests /\ reboots \in 0 .. MaxReboots

\* With late and repeated answers on the network, a callback is called at most
\* once, and a response it is given answers the request it was registered for.
ResponseMatches == \A q \in Requests : calls[q] <= 1 /\ got[q] \subseteq {q, NULL}

\* "duplicate, ignore (response already sent)" (handle_request): a request is
\* dropped as a duplicate only after that same request was handled or refused.
IgnoredWereTaken == ignored \subseteq taken

\* "Called from coap_poll() when a matching response arrives. Called with NULL
\* on timeout" (response_cb_t): once a separate response to a confirmable request
\* has been polled, the callback of that request has been called.
SeparateHeard ==
  \A n \in Own :
    LET m == node[n].rx IN
    /\ m # NULL /\ node'[n].rx = NULL /\ node'[n].bound
    /\ m.code = "RESP" /\ m.type # "ACK"
    /\ \E q \in net : q.req = m.req /\ q.code = "REQ" /\ q.type = "CON"
    => calls'[m.req] = 1

(***************************************************************************)
(* An inductive invariant, of one client that does not restart and sends   *)
(* fewer requests than there are ids: the number of a request is its       *)
(* message id and its token.                                               *)
(***************************************************************************)
Bounds ==
  /\ Foreign \subseteq Nodes /\ \E n \in Nodes : Clients = {n}
  /\ MaxReboots = 0 /\ MaxRequests \in Nat /\ IdSpace \in Nat /\ MaxRequests < IdSpace
  /\ NULL \notin Nat \X Nodes
Messages ==
  [type : {"CON", "NON", "ACK", "RST"}, code : {"REQ", "RESP", "EMPTY"}, mid : Nat, token : Nat,
   src : Nodes, dst : Nodes, path : Paths \union {NULL}, req : Requests]
States ==
  [bound : BOOLEAN, rx : Messages \union {NULL}, dedup : (Nat \X Nodes) \union {NULL}, mid : Nat, token : Nat,
   resources : SUBSET Paths,
   con : [active : BOOLEAN, dst : Nodes \union {NULL}, mid : Nat, token : Nat, retries : Nat, req : Nat]]
Shapes ==
  /\ node \in [Nodes -> States] /\ net \in SUBSET Messages /\ asked \in 0 .. MaxRequests /\ reboots = 0
  /\ calls \in [Requests -> {0, 1}] /\ got \in [Requests -> SUBSET (Requests \union {NULL})]
\* A request carries its number twice, and an answer once.
Sound(m) ==
  /\ m.req <= asked
  /\ m.code = "REQ" => m.src \in Clients /\ m.dst \notin Clients /\ m.mid = m.req /\ m.token = m.req
  /\ m.dst \in Clients => m.src \notin Clients
  /\ m.dst \in Clients /\ m.type \in {"ACK", "RST"} => m.mid = m.req
  /\ m.dst \in Clients /\ m.code = "RESP" /\ m.type \notin {"ACK", "RST"} => m.token = m.req
NetOK == \A m \in net : Sound(m)
NodeOK ==
  \A n \in Nodes :
    /\ node[n].rx # NULL => node[n].rx \in net /\ node[n].rx.dst = n
    /\ node[n].dedup # NULL => \E q \in taken : node[n].dedup[1] = q
    /\ n \notin Clients => ~node[n].con.active
ClientOK ==
  \A n \in Clients :
    /\ node[n].mid = (asked + 1) % IdSpace /\ node[n].token = asked
    /\ node[n].con.active => /\ node[n].con.req \in 1 .. asked /\ calls[node[n].con.req] = 0
                             /\ node[n].con.mid = node[n].con.req /\ node[n].con.token = node[n].con.req
CoapInv ==
  /\ Shapes /\ NetOK /\ NodeOK /\ ClientOK /\ \A q \in Requests : q > asked => calls[q] = 0
  /\ ResponseMatches /\ IgnoredWereTaken
=============================================================================
