------------------------------- MODULE LinkIp -------------------------------
(***************************************************************************)
(* The window session over a dialled TCP connection:                       *)
(* net/link/tiku_kits_net_link_ip.c.  TCP is external here: a connection   *)
(* is dialled, comes up, carries two ordered byte streams and ends, and    *)
(* may refuse a dial or a send.                                            *)
(***************************************************************************)
EXTENDS Integers, Sequences, FiniteSets

CONSTANTS
  Links,       \* the tiku_kits_net_link_ip_t objects
  LINK_IP_MAX, \* entries of the links table
  Conns,       \* TCP connection slots
  NULL,
  HEADER, Radix, \* bytes of a length, values of a byte (4 and 256)
  SizeT,       \* values of size_t
  CAP,         \* the caller's receive buffer
  OUT,         \* sizeof l->out
  CHUNK,       \* sizeof chunk
  RING,        \* TCP's receive ring
  MSS,         \* the connection's snd_mss
  Inbound, Outbound, \* what the peer and what the application may send
  MaxMsgs,     \* bound: messages each way on one connection
  MaxDials     \* bound: stats.dials

VARIABLES
  lk,       \* the link objects
  links,    \* the table
  dials,    \* stats.dials
  tcp,      \* state of each connection slot
  pipe,     \* bytes the peer has written that have not arrived
  peer, got, acc, wrote   \* on the present connection: messages the peer wrote,
                          \* messages delivered, messages ip_send accepted and
                          \* bytes TCP took
vars == <<lk, links, dials, tcp, pipe, peer, got, acc, wrote>>
ghosts == <<peer, got, acc, wrote>>

Closed == [state |-> "DOWN", conn |-> NULL, head |-> <<>>, need |-> 0, body |-> <<>>, skip |-> 0,
           out |-> <<>>, redial |-> FALSE, flush |-> FALSE]

Least(a, b) == IF a <= b THEN a ELSE b

\* The length of a message as HEADER bytes, low byte first, and back.
Header(n) == [i \in 1 .. HEADER |-> (n \div Radix ^ (i - 1)) % Radix]
Value(h) ==
  LET sum[i \in 0 .. HEADER] == IF i = 0 THEN 0 ELSE sum[i - 1] + h[i] * Radix ^ (i - 1) IN sum[HEADER]
Frame(m) == Header(Len(m)) \o m

Init ==
  /\ lk = [l \in Links |-> Closed] /\ links = {}
  /\ dials = 0 /\ tcp = [c \in Conns |-> "FREE"] /\ pipe = [c \in Conns |-> <<>>]
  /\ peer = [l \in Links |-> <<>>] /\ got = [l \in Links |-> <<>>]
  /\ acc = [l \in Links |-> <<>>] /\ wrote = [l \in Links |-> <<>>]

link_of(c) == {l \in links : lk[l].conn = c}

rewind_stream(r) ==
  [r EXCEPT !.head = <<>>, !.body = <<>>, !.need = 0, !.skip = 0, !.out = <<>>, !.flush = FALSE]

(***************************************************************************)
(* Dialling.  dial returns the link and the slot it got, NULL if refused.  *)
(***************************************************************************)
Dial(l, r) ==
  \/ /\ lk' = [lk EXCEPT ![l] = [rewind_stream(r) EXCEPT !.conn = NULL, !.redial = TRUE]]
     /\ UNCHANGED tcp
  \/ \E c \in Conns :
       /\ tcp[c] = "FREE"
       /\ tcp' = [tcp EXCEPT ![c] = "SYN_SENT"]
       /\ lk' = [lk EXCEPT ![l] = [rewind_stream(r) EXCEPT !.conn = c, !.state = "DIALLING"]]

\* tiku_kits_net_link_ip_open.
Open(l) ==
  /\ l \notin links /\ Cardinality(links) < LINK_IP_MAX
  /\ dials < MaxDials /\ dials' = dials + 1
  /\ links' = links \cup {l}
  /\ Dial(l, Closed)
  /\ UNCHANGED <<pipe, ghosts>>

\* The redial timer.
Redial(l) ==
  /\ lk[l].redial
  /\ dials < MaxDials /\ dials' = dials + 1
  /\ lk[l].state = "DOWN" /\ Dial(l, [lk[l] EXCEPT !.redial = FALSE])
  /\ UNCHANGED <<links, pipe, ghosts>>

went_down(r) == [rewind_stream([r EXCEPT !.conn = NULL, !.state = "DOWN"]) EXCEPT !.redial = TRUE]

(***************************************************************************)
(* ip_event_cb, from a TCP that comes up, is closed by the peer, or aborts *)
(* (a reset, a lost link, or its idle limit).                              *)
(***************************************************************************)
Connected(c) ==
  /\ tcp[c] = "SYN_SENT" /\ tcp' = [tcp EXCEPT ![c] = "ESTABLISHED"]
  /\ LET L == link_of(c) IN
     /\ lk' = [l \in Links |->
                 IF l \in L THEN [rewind_stream(lk[l]) EXCEPT !.state = "UP"] ELSE lk[l]]
     /\ peer' = [l \in Links |-> IF l \in L THEN <<>> ELSE peer[l]]
     /\ got' = [l \in Links |-> IF l \in L THEN <<>> ELSE got[l]]
     /\ acc' = [l \in Links |-> IF l \in L THEN <<>> ELSE acc[l]]
     /\ wrote' = [l \in Links |-> IF l \in L THEN <<>> ELSE wrote[l]]
  /\ UNCHANGED <<links, dials, pipe>>

Ended(c) ==
  /\ \/ tcp[c] = "ESTABLISHED" /\ pipe[c] = <<>> /\ tcp' = [tcp EXCEPT ![c] = "CLOSE_WAIT"]
     \/ tcp[c] # "FREE" /\ tcp' = [tcp EXCEPT ![c] = "FREE"]
  /\ lk' = [l \in Links |-> IF l \in link_of(c) THEN went_down(lk[l]) ELSE lk[l]]
  /\ pipe' = [pipe EXCEPT ![c] = <<>>]
  /\ UNCHANGED <<links, dials, ghosts>>

(***************************************************************************)
(* In: absorb takes the stream a byte at a time.                           *)
(***************************************************************************)
HeadByte(r, b) ==
  LET h == Append(r.head, b) IN
  IF Len(h) < HEADER THEN [r EXCEPT !.head = h]
  ELSE IF Value(h) > CAP
  THEN [r EXCEPT !.head = <<>>, !.body = <<>>, !.need = 0, !.skip = Value(h) % SizeT]
  ELSE IF Value(h) = 0 THEN [r EXCEPT !.head = <<>>, !.body = <<>>]
  ELSE [r EXCEPT !.head = h, !.need = Value(h), !.body = <<>>]

BodyByte(r, b) ==
  LET d == Append(r.body, b) IN
  IF Len(d) < r.need THEN [r EXCEPT !.body = d]
  ELSE [r EXCEPT !.head = <<>>, !.need = 0, !.body = <<>>, !.msgs = Append(@, d)]

\* r carries in msgs what was delivered, and in at the count after each byte.
AbsorbByte(r, b) ==
  LET s == IF r.skip > 0 THEN [r EXCEPT !.skip = @ - 1]
           ELSE IF Len(r.head) < HEADER THEN HeadByte(r, b)
           ELSE BodyByte(r, b)
  IN  [s EXCEPT !.at = Append(@, Len(s.msgs))]
absorb(r, bytes) ==
  LET start == [f \in DOMAIN r \union {"msgs", "at"} |-> IF f \in DOMAIN r THEN r[f] ELSE <<>>]
      after[i \in 0 .. Len(bytes)] == IF i = 0 THEN start ELSE AbsorbByte(after[i - 1], bytes[i])
  IN after[Len(bytes)]
Link(r) == [f \in DOMAIN Closed |-> r[f]]

\* ip_recv_cb: TCP has taken n more bytes and calls back, and the loop reads
\* them all, a chunk at a time.
ip_recv_cb(c, n) ==
  /\ tcp[c] = "ESTABLISHED" /\ n \in 1 .. Len(pipe[c])
  /\ \E l \in link_of(c) :
       LET r == absorb(lk[l], SubSeq(pipe[c], 1, n)) IN
       /\ lk' = [lk EXCEPT ![l] = Link(r)]
       /\ got' = [got EXCEPT ![l] = @ \o r.msgs]
  /\ pipe' = [pipe EXCEPT ![c] = SubSeq(@, n + 1, Len(@))]
  /\ UNCHANGED <<links, dials, tcp, peer, acc, wrote>>

Hangup(l) ==
  /\ lk' = [lk EXCEPT ![l] = Closed]
  /\ links' = links \ {l}
  /\ tcp' = IF lk[l].conn = NULL THEN tcp ELSE [tcp EXCEPT ![lk[l].conn] = "FREE"]

\* The same, in which the application's callback closes the link at the k-th
\* message.  The connection's ring is then empty, but the chunk that message
\* came in is absorbed to its end, and its messages are delivered.
ip_recv_cb_closes(c, n, k) ==
  /\ tcp[c] = "ESTABLISHED" /\ n \in 1 .. Len(pipe[c])
  /\ \E l \in link_of(c) :
       LET r == absorb(lk[l], SubSeq(pipe[c], 1, n)) IN
       /\ k \in 1 .. Len(r.msgs)
       /\ LET i == CHOOSE j \in 1 .. n : r.at[j] >= k /\ \A j1 \in 1 .. j - 1 : r.at[j1] < k
              e == Least(n, ((i + CHUNK - 1) \div CHUNK) * CHUNK)
          IN  got' = [got EXCEPT ![l] = @ \o SubSeq(r.msgs, 1, r.at[e])]
       /\ Hangup(l)
  /\ pipe' = [pipe EXCEPT ![c] = <<>>]
  /\ UNCHANGED <<dials, peer, acc, wrote>>

(***************************************************************************)
(* Out.  TCP takes k segments and then refuses, or takes all.              *)
(***************************************************************************)
flush_out_abandons(l, out, k) ==
  LET n == Least(k * MSS, Len(out)) IN
  /\ wrote' = [wrote EXCEPT ![l] = @ \o SubSeq(out, 1, n)]
  /\ lk' = [lk EXCEPT ![l].out = <<>>, ![l].flush = FALSE]
flush_out(l, out, k) ==
  LET n == Least(k * MSS, Len(out)) IN
  /\ wrote' = [wrote EXCEPT ![l] = @ \o SubSeq(out, 1, n)]
  /\ lk' = [lk EXCEPT ![l].out = SubSeq(out, n + 1, Len(out)), ![l].flush = n < Len(out)]

Segments == 0 .. (OUT \div MSS) + 1

ip_send(l, m, k) ==
  /\ lk[l].state = "UP" /\ lk[l].conn # NULL
  /\ Len(Frame(m)) <= OUT - Len(lk[l].out)
  /\ Len(acc[l]) < MaxMsgs /\ acc' = [acc EXCEPT ![l] = Append(@, m)]
  /\ flush_out(l, lk[l].out \o Frame(m), k)
  /\ UNCHANGED <<links, dials, tcp, pipe, peer, got>>

flush_later(l, k) ==
  /\ lk[l].flush /\ lk[l].state = "UP"
  /\ flush_out(l, lk[l].out, k)
  /\ UNCHANGED <<links, dials, tcp, pipe, peer, got, acc>>

ip_close(l) ==
  /\ l \in links
  /\ Hangup(l)
  /\ pipe' = [c \in Conns |-> IF c = lk[l].conn THEN <<>> ELSE pipe[c]]
  /\ UNCHANGED <<dials, ghosts>>

\* The desktop writes a message.
PeerSends(l, m) ==
  /\ lk[l].state = "UP" /\ Len(peer[l]) < MaxMsgs
  /\ peer' = [peer EXCEPT ![l] = Append(@, m)]
  /\ pipe' = [pipe EXCEPT ![lk[l].conn] = @ \o Frame(m)]
  /\ UNCHANGED <<lk, links, dials, tcp, got, acc, wrote>>

Next ==
  \/ \E l \in Links : Open(l) \/ Redial(l) \/ ip_close(l)
  \/ \E c \in Conns : Connected(c) \/ Ended(c)
  \/ \E c \in Conns, n \in 1 .. RING : ip_recv_cb(c, n) \/ \E k \in 1 .. RING : ip_recv_cb_closes(c, n, k)
  \/ \E l \in Links, m \in Inbound : PeerSends(l, m)
  \/ \E l \in Links, m \in Outbound, k \in Segments : ip_send(l, m, k)
  \/ \E l \in Links, k \in Segments : flush_later(l, k)
Spec == Init /\ [][Next]_vars

(***************************************************************************)
(* Properties.                                                             *)
(***************************************************************************)
\* Every variable keeps its type: the buffers hold no more than they can, and
\* a link has a connection exactly when it is not down.
TypeOK ==
  /\ \A l \in Links :
       LET r == lk[l] IN
       /\ r.state \in {"DOWN", "DIALLING", "UP"} /\ r.conn \in Conns \cup {NULL}
       /\ (r.conn = NULL) = (r.state = "DOWN")
       /\ Len(r.head) <= HEADER /\ Len(r.body) <= CAP /\ Len(r.out) <= OUT
       /\ r.need \in 0 .. CAP /\ r.skip \in 0 .. SizeT - 1
       /\ r.redial \in BOOLEAN /\ r.flush \in BOOLEAN
  /\ links \subseteq Links /\ Cardinality(links) <= LINK_IP_MAX /\ dials \in 0 .. MaxDials
  /\ tcp \in [Conns -> {"FREE", "SYN_SENT", "ESTABLISHED", "CLOSE_WAIT"}]

Deliverable(m) == Len(m) \in 1 .. CAP

\* "A message larger than the buffer is passed over rather than delivered
\* short, so the stream stays in step" (absorb): however TCP cuts the stream,
\* the application gets the peer's messages that fit, each once and in order,
\* and when everything has arrived nothing is half read.
InStep ==
  \A l \in Links : lk[l].state = "UP" =>
    /\ Len(got[l]) <= Len(SelectSeq(peer[l], Deliverable))
    /\ got[l] = SubSeq(SelectSeq(peer[l], Deliverable), 1, Len(got[l]))
    /\ pipe[lk[l].conn] = <<>> =>
         /\ got[l] = SelectSeq(peer[l], Deliverable)
         /\ lk[l].head = <<>> /\ lk[l].skip = 0

\* "a message is never half written and then abandoned" (flush_out): what TCP
\* took followed by what waits is exactly the messages accepted, whole.
WholeMessages ==
  \A l \in Links : lk[l].state = "UP" =>
    LET frames[i \in 0 .. Len(acc[l])] == IF i = 0 THEN <<>> ELSE frames[i - 1] \o Frame(acc[l][i])
    IN wrote[l] \o lk[l].out = frames[Len(acc[l])]

\* A link that is open is never stranded: down means a redial is coming, and
\* bytes that wait have a flush coming.  A connection it dialled is its own,
\* live, and reset when it is closed.
NotStranded ==
  /\ \A l \in links : /\ (lk[l].state = "DOWN") = lk[l].redial
                      /\ lk[l].out # <<>> <=> lk[l].flush
                      /\ lk[l].state = "DIALLING" => tcp[lk[l].conn] = "SYN_SENT"
                      /\ lk[l].state = "UP" => tcp[lk[l].conn] = "ESTABLISHED"
  /\ \A c \in Conns : tcp[c] \in {"SYN_SENT", "ESTABLISHED"} => Cardinality(link_of(c)) = 1
=============================================================================
