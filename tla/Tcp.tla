-------------------------------- MODULE Tcp --------------------------------
(***************************************************************************)
(* One host's TCP: net/ipv4/tiku_kits_net_tcp.c.                           *)
(*                                                                         *)
(* The state is the connection table, the per-slot receive rings, the      *)
(* per-slot retransmission queues, the pool the queues' segments come      *)
(* from, the listener table and the ISS counter.  Every function of the    *)
(* public API is an action, and so are tiku_kits_net_tcp_input (split by   *)
(* the branches it returns from) and tiku_kits_net_tcp_periodic.  The      *)
(* stack runs in one process, so a call is one step; what interleaves is   *)
(* the network, the timer and the application.                             *)
(*                                                                         *)
(* Left out, because no code reads them: snd_wnd, peer_mss and tx_count.   *)
(* A segment's window field only sets snd_wnd and is left out with it.     *)
(* A remote is an (address, port) pair.  Callbacks belong to the           *)
(* application: what they do is a later step of the application here.      *)
(***************************************************************************)
EXTENDS Integers, Sequences, FiniteSets

CONSTANTS
  MAX_CONNS,        \* connection slots, numbered 0 .. MAX_CONNS-1
  MAX_LISTENERS,    \* listener slots
  TX_POOL_COUNT,    \* blocks of the segment pool
  RX_BUF_SIZE,      \* bytes of one receive ring (one is kept empty)
  MSS,              \* largest payload this host sends or offers
  SeqSpace,         \* 2^32 in the code: sequence arithmetic is modulo this
  ISS_INIT,         \* 0x10000 in tiku_kits_net_tcp_init
  ISS_STEP,         \* 64000 in tcp_gen_iss
  RTO_INIT, RTO_LIMIT, MAX_RETRIES, TIME_WAIT_TICKS, IDLE_REAP_TICKS,
  Remotes,          \* peers, each an (address, port) pair
  Ports,            \* local ports that occur, 0 among them
  Reserved,         \* tiku_kits_net_port_reserved: owned by the modem (Wi-Fi offload)
  ECHO_PORT,        \* 7 when the echo service is built in, 0 when it is not
  Bytes,            \* payload bytes
  Payloads,         \* what the application may send: sequences of bytes
  ReadSizes,        \* buffer sizes the application reads with
  Inputs,           \* segments an arbitrary network may deliver
  WireCap,          \* bound: segments of this host in flight at a time
  Lossy             \* whether the network may lose what this host sends

ASSUME SizesAssumption ==
  /\ MAX_CONNS \in Nat \ {0} /\ MAX_LISTENERS \in Nat \ {0}
  /\ TX_POOL_COUNT \in Nat /\ RX_BUF_SIZE \in Nat \ {0, 1}
  /\ MSS \in Nat \ {0} /\ SeqSpace \in Nat \ {0, 1, 2} /\ ISS_STEP \in Nat
  /\ ISS_INIT \in 0 .. SeqSpace - 1
\* What the pool can hold unacknowledged, a SYN and a FIN beside it, is less
\* than half the sequence space (24 blocks of under 2 KiB against 2^32).
ASSUME SpaceAssumption == 2 * (TX_POOL_COUNT * MSS + 2) <= SeqSpace
ASSUME TimersAssumption ==
  /\ RTO_LIMIT \in Nat \ {0} /\ RTO_INIT \in 1 .. RTO_LIMIT
  /\ MAX_RETRIES \in Nat /\ TIME_WAIT_TICKS \in Nat \ {0}
  /\ IDLE_REAP_TICKS \in Nat \ {0}

Flags == {"SYN", "ACK", "FIN", "RST"}
SeqNums == 0 .. SeqSpace - 1
Segments == [remote : Remotes, port : Ports, seq : SeqNums, ack : SeqNums,
             flags : SUBSET Flags, data : Seq(Bytes), mss : Nat]

ASSUME InputsAssumption ==
  /\ Inputs \subseteq Segments
  /\ 0 \in Ports /\ Ports \subseteq Nat /\ Reserved \subseteq Ports \ {0}
  /\ ECHO_PORT \in Ports \ Reserved
  /\ Payloads \subseteq Seq(Bytes) \ {<<>>}
  /\ ReadSizes \subseteq Nat \ {0}
  /\ Remotes # {} /\ Bytes # {}

Slots == 0 .. MAX_CONNS - 1
LSlots == 0 .. MAX_LISTENERS - 1
Blocks == 1 .. TX_POOL_COUNT

VARIABLES
  conn,        \* conn_table
  rx,          \* tcp_rx_bufs: the bytes of each ring
  txq,         \* each slot's tx_head .. tx_tail list
  free,        \* seg_pool: the free blocks
  listeners,   \* listening port of each listener slot, 0 = free
  iss_counter,
  wire,        \* segments this host put on the network
  told         \* what the application last heard, or did, about the slot

vars == <<conn, rx, txq, free, listeners, iss_counter, wire, told>>

(***************************************************************************)
(* States, in the numeric order the code compares.                         *)
(***************************************************************************)
CLOSED == 0
SYN_SENT == 2
SYN_RCVD == 3
ESTABLISHED == 4
FIN_WAIT_1 == 5
FIN_WAIT_2 == 6
CLOSE_WAIT == 7
CLOSING == 8
LAST_ACK == 9
TIME_WAIT == 10
States == {CLOSED} \cup (SYN_SENT .. TIME_WAIT)

Conns == [active : BOOLEAN, state : States, remote : Remotes, local : Ports,
          cb : BOOLEAN, snd_una : SeqNums, snd_nxt : SeqNums, snd_mss : 0 .. MSS,
          rcv_nxt : SeqNums, rcv_wnd : 0 .. RX_BUF_SIZE - 1,
          rx_head : 0 .. RX_BUF_SIZE - 1, rx_tail : 0 .. RX_BUF_SIZE - 1,
          rto_ticks : 0 .. 2 * RTO_LIMIT, rto_counter : Nat,
          retries : 0 .. MAX_RETRIES, tw_counter : 0 .. TIME_WAIT_TICKS,
          idle_counter : 0 .. IDLE_REAP_TICKS]
TxSegs == [blk : Blocks, seq : SeqNums, data : Seq(Bytes), flags : SUBSET Flags]

\* The memset of tcp_alloc_conn: an all-zero control block.
ZeroConn ==
  [active |-> FALSE, state |-> CLOSED, remote |-> CHOOSE r \in Remotes : TRUE,
   local |-> 0, cb |-> FALSE, snd_una |-> 0, snd_nxt |-> 0, snd_mss |-> 0,
   rcv_nxt |-> 0, rcv_wnd |-> 0, rx_head |-> 0, rx_tail |-> 0, rto_ticks |-> 0,
   rto_counter |-> 0, retries |-> 0, tw_counter |-> 0, idle_counter |-> 0]

(***************************************************************************)
(* Sequence arithmetic: (int32_t)(a - b) > 0, and its complement.          *)
(***************************************************************************)
Add(a, n) == (a + n) % SeqSpace
SEQ_GT(a, b) == LET d == (a - b) % SeqSpace IN 0 < d /\ 2 * d < SeqSpace
SEQ_LEQ(a, b) == ~SEQ_GT(a, b)

(***************************************************************************)
(* The receive ring.                                                       *)
(***************************************************************************)
rx_available(c) ==
  IF c.rx_head >= c.rx_tail THEN c.rx_head - c.rx_tail
                            ELSE RX_BUF_SIZE - c.rx_tail + c.rx_head

rx_free(c) == (RX_BUF_SIZE - 1) - rx_available(c)

\* The ring after `n` bytes of `data` are written at `head`.
rx_write(buf, head, data, n) ==
  [i \in 0 .. RX_BUF_SIZE - 1 |->
     LET k == (i - head) % RX_BUF_SIZE IN IF k < n THEN data[k + 1] ELSE buf[i]]

\* The unread bytes of a ring, oldest first.
rx_bytes(c, buf) ==
  [k \in 1 .. rx_available(c) |-> buf[(c.rx_tail + k - 1) % RX_BUF_SIZE]]

(***************************************************************************)
(* Retransmission queue.                                                   *)
(***************************************************************************)
Weight(flags) == (IF "SYN" \in flags THEN 1 ELSE 0) + (IF "FIN" \in flags THEN 1 ELSE 0)
SegEnd(seg) == Add(seg.seq, Len(seg.data) + Weight(seg.flags))
BlksOf(q, I) == {q[i].blk : i \in I}
Blks(q) == BlksOf(q, 1 .. Len(q))

\* Number of leading segments tcp_tx_ack frees.
AckedCount(q, ack) ==
  Cardinality({i \in 1 .. Len(q) : \A j \in 1 .. i : SEQ_LEQ(SegEnd(q[j]), ack)})

tcp_tx_ack_forgets_blocks(q, ack) ==
  LET n == AckedCount(q, ack) IN [q |-> SubSeq(q, n + 1, Len(q)), freed |-> BlksOf(q, 2 .. n)]
\* A queue's own segments below `ack` leave it, and their blocks are freed.
tcp_tx_ack(q, ack) ==
  LET n == AckedCount(q, ack)
  IN  [q |-> SubSeq(q, n + 1, Len(q)), freed |-> BlksOf(q, 1 .. n)]

(***************************************************************************)
(* A handler run on one slot: its control block, its queue, the blocks it  *)
(* gave back to the pool, the segments it sent, and the event it raised.   *)
(***************************************************************************)
Result(c, q, freed, out, ev) ==
  [c |-> c, q |-> q, freed |-> freed, out |-> out, ev |-> ev]

Event(c, ev) == IF c.cb THEN ev ELSE "none"

\* tcp_free_conn.  The fields nothing reads of a closed slot are set to zero
\* (the next tcp_alloc_conn clears them); the ring stays readable.
Freed(c) ==
  [ZeroConn EXCEPT !.rx_head = c.rx_head, !.rx_tail = c.rx_tail,
                   !.rcv_wnd = c.rcv_wnd, !.cb = c.cb]
tcp_free_conn_keeps_queue(c, q, out, ev) == Result(Freed(c), q, {}, out, ev)
tcp_free_conn(c, q, out, ev) == Result(Freed(c), <<>>, Blks(q), out, ev)

tcp_send_segment(c, flags, seq, data) ==
  [remote |-> c.remote, port |-> c.local, seq |-> seq, ack |-> c.rcv_nxt,
   flags |-> flags, data |-> data, mss |-> MSS]
PlainAck(c) == tcp_send_segment(c, {"ACK"}, c.snd_nxt, <<>>)

(***************************************************************************)
(* tcp_process, sections 5 to 7, as functions of the control block.        *)
(***************************************************************************)
AckTakes_beyond_sent(c, seg) ==
  c.state \in {SYN_RCVD, ESTABLISHED, CLOSE_WAIT, FIN_WAIT_1, CLOSING} /\ SEQ_GT(seg.ack, c.snd_una)
AckTakes_any_for_syn(c, seg) ==
  \/ c.state = SYN_RCVD
  \/ /\ c.state \in {ESTABLISHED, CLOSE_WAIT, FIN_WAIT_1, CLOSING}
     /\ SEQ_GT(seg.ack, c.snd_una) /\ SEQ_LEQ(seg.ack, c.snd_nxt)
\* Does section 5 take the acknowledgment?
AckTakes(c, seg) ==
  IF c.state = SYN_RCVD
  THEN SEQ_LEQ(c.snd_una, seg.ack) /\ SEQ_LEQ(seg.ack, c.snd_nxt)
  ELSE /\ c.state \in {ESTABLISHED, CLOSE_WAIT, FIN_WAIT_1, CLOSING}
       /\ SEQ_GT(seg.ack, c.snd_una) /\ SEQ_LEQ(seg.ack, c.snd_nxt)

TimersAfterAck(c) ==
  [c EXCEPT !.rto_ticks = IF c.state \in {SYN_RCVD, ESTABLISHED, CLOSE_WAIT}
                          THEN RTO_INIT ELSE @,
            !.rto_counter = IF c.state = CLOSING THEN @ ELSE 0,
            !.retries = IF c.state = CLOSING THEN @ ELSE 0]

EnterTimeWait(c) == [c EXCEPT !.state = TIME_WAIT, !.tw_counter = TIME_WAIT_TICKS]

AckedConn(c, seg) ==
  IF AckTakes(c, seg) THEN [TimersAfterAck(c) EXCEPT !.snd_una = seg.ack] ELSE c

\* 5. ACK processing (LAST_ACK, which returns, is InputLastAck).
AckConn(c, seg) ==
  LET a == AckedConn(c, seg)
  IN  IF "ACK" \notin seg.flags THEN c
      ELSE IF c.state = SYN_RCVD /\ AckTakes(c, seg) THEN [a EXCEPT !.state = ESTABLISHED]
      ELSE IF c.state = FIN_WAIT_1 /\ a.snd_una = a.snd_nxt
           THEN [a EXCEPT !.state = FIN_WAIT_2]
      ELSE IF c.state = TIME_WAIT \/ (c.state = CLOSING /\ a.snd_una = a.snd_nxt)
           THEN EnterTimeWait(a)
      ELSE a

AckQueue(c, q, seg) ==
  IF "ACK" \in seg.flags /\ AckTakes(c, seg) THEN tcp_tx_ack(q, seg.ack)
                                             ELSE [q |-> q, freed |-> {}]

\* 6. Data processing.
TakesData(c, seg) ==
  Len(seg.data) > 0 /\ c.state \in {ESTABLISHED, FIN_WAIT_1, FIN_WAIT_2}
Accept(c, seg) ==
  IF ~TakesData(c, seg) THEN 0
  ELSE IF Len(seg.data) <= rx_free(c) THEN Len(seg.data) ELSE rx_free(c)

WrittenConn(c, n) ==
  [c EXCEPT !.rx_head = (c.rx_head + n) % RX_BUF_SIZE, !.rcv_nxt = Add(@, n)]
DataConn_acks_dropped(c, seg) ==
  LET w == [WrittenConn(c, Accept(c, seg)) EXCEPT !.rcv_nxt = Add(c.rcv_nxt, Len(seg.data))]
  IN  IF TakesData(c, seg) THEN [w EXCEPT !.rcv_wnd = rx_free(w)] ELSE c
DataConn_stale_window(c, seg) == WrittenConn(c, Accept(c, seg))
DataConn(c, seg) ==
  LET w == WrittenConn(c, Accept(c, seg))
  IN  IF Accept(c, seg) > 0 THEN [w EXCEPT !.rcv_wnd = rx_free(w)] ELSE c

\* 7. FIN processing: no look at the segment's sequence number.
FinConn(c, seg) ==
  LET f == [c EXCEPT !.rcv_nxt = Add(@, 1), !.rcv_wnd = rx_free(c)]
  IN  IF "FIN" \notin seg.flags THEN c
      ELSE IF c.state \in {SYN_RCVD, ESTABLISHED} THEN [f EXCEPT !.state = CLOSE_WAIT]
      ELSE IF c.state = FIN_WAIT_1 /\ c.snd_una # c.snd_nxt THEN [f EXCEPT !.state = CLOSING]
      ELSE IF c.state \in {FIN_WAIT_1, FIN_WAIT_2, TIME_WAIT} THEN EnterTimeWait(f)
      ELSE f

\* The last event sections 5 to 7 raise; a is the block after section 5,
\* d after section 6.
EventOfProcess(c, a, d, seg) ==
  IF "FIN" \in seg.flags /\ d.state \in {SYN_RCVD, ESTABLISHED} THEN Event(c, "CLOSED")
  ELSE IF c.state = SYN_RCVD /\ a.state = ESTABLISHED THEN Event(c, "CONNECTED")
  ELSE "none"

Accepted(c, q, seg) ==
  LET a == AckConn(c, seg)
      d == DataConn(a, seg)
      f == FinConn(d, seg)
      t == AckQueue(c, q, seg)
  IN  Result(f, t.q, t.freed,
             (IF TakesData(a, seg) THEN {PlainAck(d)} ELSE {}) \cup
             (IF "FIN" \in seg.flags
              THEN {PlainAck([d EXCEPT !.rcv_nxt = f.rcv_nxt, !.rcv_wnd = f.rcv_wnd])}
              ELSE {}),
             EventOfProcess(c, a, d, seg))

(***************************************************************************)
(* Effects shared by the actions.                                          *)
(***************************************************************************)
\* The network holds at most WireCap segments; a lossy one drops any subset.
Emit(S) ==
  \E T \in IF Lossy THEN SUBSET S ELSE {S} :
    Cardinality(wire \cup T) <= WireCap /\ wire' = wire \cup T

Apply(s, r) ==
  /\ conn' = [conn EXCEPT ![s] = r.c]
  /\ txq' = [txq EXCEPT ![s] = r.q]
  /\ free' = free \cup r.freed
  /\ told' = [told EXCEPT ![s] = IF r.ev = "none" THEN @ ELSE r.ev]
  /\ Emit(r.out)

\* tcp_tx_enqueue on slot s whose control block becomes c: the segment is
\* appended if the pool has a block, and silently missing if it has not.
tcp_tx_enqueue(s, q, seq, flags, data) ==
  /\ free # {}
  /\ LET b == CHOOSE b \in free : TRUE
     IN  /\ txq' = [txq EXCEPT ![s] =
                      Append(q, [blk |-> b, seq |-> seq, data |-> data, flags |-> flags])]
         /\ free' = free \ {b}
EnqueueOrSkip(s, q, seq, flags) ==
  \/ tcp_tx_enqueue(s, q, seq, flags, <<>>)
  \/ free = {} /\ txq' = [txq EXCEPT ![s] = q] /\ UNCHANGED free

\* First free slot of tcp_alloc_conn, first match of tcp_find_conn.
IsFreeSlot(s) == ~conn[s].active /\ \A t \in Slots : t < s => conn[t].active
Matches(s, seg) ==
  conn[s].active /\ conn[s].local = seg.port /\ conn[s].remote = seg.remote
IsConnOf(s, seg) == Matches(s, seg) /\ \A t \in Slots : t < s => ~Matches(t, seg)
NoConn(seg) == \A s \in Slots : ~Matches(s, seg)
tcp_find_listener(l, port) ==
  listeners[l] = port /\ \A k \in LSlots : k < l => listeners[k] # port

tcp_gen_iss == Add(iss_counter, ISS_STEP)
ClampMss(mss) == IF mss < MSS THEN mss ELSE MSS

\* A fresh control block, as tcp_connect and the passive open fill it.
OpenConn(state, r, p, cb, mss, iss, rcv) ==
  [ZeroConn EXCEPT !.active = TRUE, !.state = state, !.remote = r, !.local = p, !.cb = cb,
                   !.snd_una = iss, !.snd_nxt = Add(iss, 1), !.snd_mss = mss,
                   !.rcv_nxt = rcv, !.rcv_wnd = RX_BUF_SIZE - 1, !.rto_ticks = RTO_INIT]

(***************************************************************************)
(* Init: tiku_kits_net_tcp_init.                                           *)
(***************************************************************************)
Init ==
  /\ conn = [s \in Slots |-> ZeroConn]
  /\ rx = [s \in Slots |-> [i \in 0 .. RX_BUF_SIZE - 1 |-> CHOOSE b \in Bytes : TRUE]]
  /\ txq = [s \in Slots |-> <<>>]
  /\ free = Blocks
  /\ listeners = [l \in LSlots |-> IF l = 0 THEN ECHO_PORT ELSE 0]
  /\ iss_counter = ISS_INIT
  /\ wire = {}
  /\ told = [s \in Slots |-> "unused"]

(***************************************************************************)
(* The application's calls.                                                *)
(***************************************************************************)
Listen(port) ==
  /\ port # 0 /\ port \notin Reserved
  /\ \A l \in LSlots : listeners[l] # port
  /\ \E l \in LSlots : tcp_find_listener(l, 0)
                       /\ listeners' = [listeners EXCEPT ![l] = port]
  /\ UNCHANGED <<conn, rx, txq, free, iss_counter, wire, told>>

Unlisten(port) ==
  /\ \E l \in LSlots : tcp_find_listener(l, port)
                       /\ listeners' = [listeners EXCEPT ![l] = 0]
  /\ UNCHANGED <<conn, rx, txq, free, iss_counter, wire, told>>

Connect(r, src) ==
  \E s \in Slots :
    LET iss == tcp_gen_iss
        c == OpenConn(SYN_SENT, r, src, TRUE, MSS, iss, 0)
    IN  /\ src \notin Reserved /\ IsFreeSlot(s)
        /\ EnqueueOrSkip(s, <<>>, iss, {"SYN"})
        /\ Emit({tcp_send_segment(c, {"SYN"}, iss, <<>>)})
        /\ conn' = [conn EXCEPT ![s] = c]
        /\ iss_counter' = iss
        /\ told' = [told EXCEPT ![s] = "opening"]
        /\ UNCHANGED <<rx, listeners>>

\* tcp_send_segment reports no link: the slot is freed again.  The SYN's
\* block, if one was allocated, went back to the pool.
ConnectFails(r, src) ==
  \E s \in Slots :
    /\ src \notin Reserved /\ IsFreeSlot(s)
    /\ conn' = [conn EXCEPT ![s] = Freed(OpenConn(SYN_SENT, r, src, TRUE, MSS, 0, 0))]
    /\ iss_counter' = tcp_gen_iss
    /\ told' = [told EXCEPT ![s] = "local"]
    /\ UNCHANGED <<rx, txq, free, listeners, wire>>

Send(s, data) ==
  LET c == conn[s]
  IN  /\ c.state \in {ESTABLISHED, CLOSE_WAIT} /\ Len(data) <= c.snd_mss
      /\ tcp_tx_enqueue(s, txq[s], c.snd_nxt, {}, data)
      /\ Emit({tcp_send_segment(c, {"ACK"}, c.snd_nxt, data)})
      /\ conn' = [conn EXCEPT ![s].snd_nxt = Add(c.snd_nxt, Len(data)),
                              ![s].rto_counter = 0, ![s].retries = 0]
      /\ UNCHANGED <<rx, listeners, iss_counter, told>>

ReadLen(c, n) == IF n < rx_available(c) THEN n ELSE rx_available(c)
ReadConn(c, n) ==
  LET t == [c EXCEPT !.rx_tail = (c.rx_tail + ReadLen(c, n)) % RX_BUF_SIZE]
  IN  [t EXCEPT !.rcv_wnd = rx_free(t)]

Read(s, n) ==
  LET c == conn[s]
      d == ReadConn(c, n)
  IN  /\ rx_available(c) > 0
      /\ conn' = [conn EXCEPT ![s] = d]
      /\ Emit(IF c.rcv_wnd = 0 /\ d.rcv_wnd > 0 /\ c.state = ESTABLISHED
              THEN {PlainAck(d)} ELSE {})
      /\ UNCHANGED <<rx, txq, free, listeners, iss_counter, told>>

\* tiku_kits_net_tcp_close with the handshake done: a FIN is queued and sent.
CloseGraceful(s) ==
  LET c == conn[s]
  IN  /\ c.state \in {ESTABLISHED, CLOSE_WAIT}
      /\ EnqueueOrSkip(s, txq[s], c.snd_nxt, {"FIN"})
      /\ Emit({tcp_send_segment(c, {"FIN", "ACK"}, c.snd_nxt, <<>>)})
      /\ conn' = [conn EXCEPT ![s].snd_nxt = Add(c.snd_nxt, 1),
                              ![s].state = IF c.state = ESTABLISHED
                                           THEN FIN_WAIT_1 ELSE LAST_ACK,
                              ![s].rto_counter = 0, ![s].retries = 0]
      /\ UNCHANGED <<rx, listeners, iss_counter, told>>

\* tiku_kits_net_tcp_close during the handshake.
CloseHandshake(s) ==
  /\ conn[s].state \in {SYN_SENT, SYN_RCVD}
  /\ Apply(s, tcp_free_conn(conn[s], txq[s], {}, "local"))
  /\ UNCHANGED <<rx, listeners, iss_counter>>

Abort(s) ==
  LET c == conn[s]
  IN  /\ c.active
      /\ Apply(s, tcp_free_conn(c, txq[s],
                    IF c.state >= SYN_RCVD
                    THEN {tcp_send_segment(c, {"RST"}, c.snd_nxt, <<>>)} ELSE {}, "local"))
      /\ UNCHANGED <<rx, listeners, iss_counter>>

(***************************************************************************)
(* The result of a handler run over every slot, for the two functions that *)
(* loop over conn_table.                                                   *)
(***************************************************************************)
ApplyAll(R(_)) ==
  /\ conn' = [s \in Slots |-> R(s).c]
  /\ txq' = [s \in Slots |-> R(s).q]
  /\ free' = free \cup UNION {R(s).freed : s \in Slots}
  /\ told' = [s \in Slots |-> IF R(s).ev = "none" THEN told[s] ELSE R(s).ev]
  /\ Emit(UNION {R(s).out : s \in Slots})
  /\ UNCHANGED <<rx, listeners, iss_counter>>

Untouched(s) == Result(conn[s], txq[s], {}, {}, "none")

DownOf(s) ==
  IF conn[s].active
  THEN tcp_free_conn(conn[s], txq[s], {}, Event(conn[s], "ABORTED")) ELSE Untouched(s)

\* tiku_kits_net_tcp_link_down, called when the Wi-Fi link drops.
LinkDown == (\E s \in Slots : conn[s].active) /\ ApplyAll(DownOf)

(***************************************************************************)
(* tiku_kits_net_tcp_periodic on one slot.                                 *)
(***************************************************************************)
TimeWaitTick(s, c) ==
  LET n == IF c.tw_counter > 0 THEN c.tw_counter - 1 ELSE 0
  IN  IF n = 0 THEN tcp_free_conn(c, txq[s], {}, Event(c, "CLOSED"))
      ELSE Result([c EXCEPT !.tw_counter = n], txq[s], {}, {}, "none")

IdleTick_never(s, c) ==
  Result([c EXCEPT !.idle_counter = IDLE_REAP_TICKS], txq[s], {}, {}, "none")
IdleTick_silent(s, c) ==
  IF c.idle_counter + 1 >= IDLE_REAP_TICKS
  THEN tcp_free_conn(c, txq[s], {}, "none")
  ELSE Result([c EXCEPT !.idle_counter = @ + 1], txq[s], {}, {}, "none")
\* The idle reaper, for a transient state with an empty queue.
IdleTick(s, c) ==
  IF c.idle_counter + 1 >= IDLE_REAP_TICKS
  THEN tcp_free_conn(c, txq[s], {}, Event(c, "ABORTED"))
  ELSE Result([c EXCEPT !.idle_counter = @ + 1], txq[s], {}, {}, "none")

\* tcp_retransmit_head: the head segment again, always with ACK set.
tcp_retransmit_head(c, q) ==
  {tcp_send_segment(c, {"ACK"} \cup q[1].flags, q[1].seq, q[1].data)}

BackedOff(t) == IF t < RTO_LIMIT THEN 2 * t ELSE t
RtoTick_one_retry_more(s, c) ==
  IF c.retries > MAX_RETRIES
  THEN tcp_free_conn(c, txq[s], {}, Event(c, "ABORTED"))
  ELSE Result([c EXCEPT !.rto_counter = 0, !.retries = @ + 1], txq[s], {},
              tcp_retransmit_head(c, txq[s]), "none")
\* The retransmission timer, for a slot with a non-empty queue.
RtoTick(s, c) ==
  LET k == c.rto_counter + 1
  IN  IF k < c.rto_ticks
      THEN Result([c EXCEPT !.idle_counter = 0, !.rto_counter = k], txq[s], {}, {}, "none")
      ELSE IF c.retries + 1 > MAX_RETRIES
      THEN tcp_free_conn(c, txq[s], {}, Event(c, "ABORTED"))
      ELSE Result([c EXCEPT !.idle_counter = 0, !.rto_counter = 0, !.retries = @ + 1,
                            !.rto_ticks = BackedOff(@)],
                  txq[s], {}, tcp_retransmit_head(c, txq[s]), "none")

Tick(s) ==
  LET c == conn[s]
  IN  IF ~c.active \/ c.state = CLOSED THEN Untouched(s)
      ELSE IF c.state = TIME_WAIT THEN TimeWaitTick(s, c)
      ELSE IF txq[s] # <<>> THEN RtoTick(s, c)
      ELSE IF c.state = ESTABLISHED
           THEN Result([c EXCEPT !.idle_counter = 0], txq[s], {}, {}, "none")
      ELSE IdleTick(s, c)

Periodic == (\E s \in Slots : conn[s].active) /\ ApplyAll(Tick)

(***************************************************************************)
(* tiku_kits_net_tcp_input.  A segment arrives with its header and         *)
(* checksum verified (others are dropped and change nothing).              *)
(***************************************************************************)
\* The slot's control block as tcp_process finds it: a SYN sets the MSS.
Known(s, seg) ==
  IF "SYN" \in seg.flags THEN [conn[s] EXCEPT !.snd_mss = ClampMss(seg.mss)] ELSE conn[s]

OutOfOrder_unchecked(c, seg) == FALSE
OutOfOrder(c, seg) == Len(seg.data) > 0 /\ seg.seq # c.rcv_nxt
BadSyn(c, seg) == "SYN" \in seg.flags /\ c.state >= ESTABLISHED
LastAck(c, seg) ==
  c.state = LAST_ACK /\ "ACK" \in seg.flags /\ SEQ_LEQ(seg.ack, c.snd_nxt)

InputReset(s, seg) ==
  /\ "RST" \in seg.flags
  /\ Apply(s, tcp_free_conn(conn[s], txq[s], {}, Event(conn[s], "ABORTED")))
  /\ UNCHANGED <<rx, listeners, iss_counter>>

\* SYN_SENT: a SYN+ACK that acknowledges our SYN opens the connection.
InputSynAck(s, seg) ==
  LET c == Known(s, seg)
      d == [c EXCEPT !.rcv_nxt = Add(seg.seq, 1), !.snd_una = seg.ack,
                     !.state = ESTABLISHED, !.rto_ticks = RTO_INIT,
                     !.rto_counter = 0, !.retries = 0]
      t == tcp_tx_ack(txq[s], seg.ack)
  IN  /\ c.state = SYN_SENT /\ "RST" \notin seg.flags /\ {"SYN", "ACK"} \subseteq seg.flags
      /\ SEQ_GT(seg.ack, c.snd_una) /\ SEQ_LEQ(seg.ack, c.snd_nxt)
      /\ Apply(s, Result(d, t.q, t.freed, {PlainAck(d)}, Event(c, "CONNECTED")))
      /\ UNCHANGED <<rx, listeners, iss_counter>>

\* SYN_SENT: a SYN without ACK is a simultaneous open.
InputSynSyn(s, seg) ==
  LET d == [Known(s, seg) EXCEPT !.rcv_nxt = Add(seg.seq, 1), !.state = SYN_RCVD]
  IN  /\ conn[s].state = SYN_SENT /\ "SYN" \in seg.flags
      /\ "RST" \notin seg.flags /\ "ACK" \notin seg.flags
      /\ Apply(s, Result(d, txq[s], {},
                         {tcp_send_segment(d, {"SYN", "ACK"}, d.snd_una, <<>>)}, "none"))
      /\ UNCHANGED <<rx, listeners, iss_counter>>

\* SYN_SENT: anything else is dropped; a SYN has set the MSS by then.
InputSynDrop(s, seg) ==
  LET c == Known(s, seg)
  IN  /\ c.state = SYN_SENT /\ "RST" \notin seg.flags
      /\ \/ "SYN" \notin seg.flags
         \/ /\ "ACK" \in seg.flags
            /\ SEQ_LEQ(seg.ack, c.snd_una) \/ SEQ_GT(seg.ack, c.snd_nxt)
      /\ Apply(s, Result(c, txq[s], {}, {}, "none"))
      /\ UNCHANGED <<rx, listeners, iss_counter>>

InputOutOfOrder(s, seg) ==
  LET c == Known(s, seg)
  IN  /\ c.state >= SYN_RCVD /\ "RST" \notin seg.flags /\ OutOfOrder(c, seg)
      /\ Apply(s, Result(c, txq[s], {}, {PlainAck(c)}, "none"))
      /\ UNCHANGED <<rx, listeners, iss_counter>>

InputBadSyn(s, seg) ==
  LET c == Known(s, seg)
  IN  /\ "RST" \notin seg.flags /\ ~OutOfOrder(c, seg) /\ BadSyn(c, seg)
      /\ Apply(s, tcp_free_conn(c, txq[s], {}, Event(c, "ABORTED")))
      /\ UNCHANGED <<rx, listeners, iss_counter>>

InputLastAck(s, seg) ==
  LET c == Known(s, seg)
  IN  /\ "RST" \notin seg.flags /\ ~OutOfOrder(c, seg) /\ ~BadSyn(c, seg) /\ LastAck(c, seg)
      /\ Apply(s, tcp_free_conn(c, txq[s], {}, Event(c, "CLOSED")))
      /\ UNCHANGED <<rx, listeners, iss_counter>>

\* Sections 5, 6 and 7 run to the end.
InputAccept(s, seg) ==
  LET c == Known(s, seg)
      a == AckConn(c, seg)
  IN  /\ c.state >= SYN_RCVD /\ "RST" \notin seg.flags
      /\ ~OutOfOrder(c, seg) /\ ~BadSyn(c, seg) /\ ~LastAck(c, seg)
      /\ Apply(s, Accepted(c, txq[s], seg))
      /\ rx' = [rx EXCEPT ![s] = rx_write(@, a.rx_head, seg.data, Accept(a, seg))]
      /\ UNCHANGED <<listeners, iss_counter>>

InputConn(seg) ==
  \E s \in Slots :
    /\ IsConnOf(s, seg)
    /\ \/ InputReset(s, seg) \/ InputSynAck(s, seg) \/ InputSynSyn(s, seg)
       \/ InputSynDrop(s, seg) \/ InputOutOfOrder(s, seg) \/ InputBadSyn(s, seg)
       \/ InputLastAck(s, seg) \/ InputAccept(s, seg)

Listening(seg) == "SYN" \in seg.flags /\ \E l \in LSlots : tcp_find_listener(l, seg.port)

\* Passive open.  A free listener slot (port 0) matches a SYN for port 0 and
\* hands the connection its null callbacks.
InputListen(seg) ==
  \E s \in Slots :
    LET iss == tcp_gen_iss
        c == OpenConn(SYN_RCVD, seg.remote, seg.port, seg.port # 0,
                      ClampMss(seg.mss), iss, Add(seg.seq, 1))
    IN  /\ NoConn(seg) /\ "RST" \notin seg.flags /\ Listening(seg) /\ IsFreeSlot(s)
        /\ EnqueueOrSkip(s, <<>>, iss, {"SYN", "ACK"})
        /\ Emit({tcp_send_segment(c, {"SYN", "ACK"}, iss, <<>>)})
        /\ conn' = [conn EXCEPT ![s] = c]
        /\ iss_counter' = iss
        /\ told' = [told EXCEPT ![s] = "opening"]
        /\ UNCHANGED <<rx, listeners>>

\* A SYN with every slot taken is dropped, and so is a stray RST.
InputDropped(seg) ==
  /\ NoConn(seg)
  /\ \/ "RST" \in seg.flags
     \/ Listening(seg) /\ \A s \in Slots : conn[s].active
  /\ UNCHANGED vars

tcp_send_rst_reply(seg) ==
  [remote |-> seg.remote, port |-> seg.port, data |-> <<>>, mss |-> MSS,
   seq |-> IF "ACK" \in seg.flags THEN seg.ack ELSE 0,
   ack |-> IF "ACK" \in seg.flags THEN 0 ELSE SegEnd(seg),
   flags |-> IF "ACK" \in seg.flags THEN {"RST"} ELSE {"RST", "ACK"}]

InputStray(seg) ==
  /\ NoConn(seg) /\ "RST" \notin seg.flags /\ ~Listening(seg)
  /\ Emit({tcp_send_rst_reply(seg)})
  /\ UNCHANGED <<conn, rx, txq, free, listeners, iss_counter, told>>

Input(seg) == InputConn(seg) \/ InputListen(seg) \/ InputDropped(seg) \/ InputStray(seg)

(***************************************************************************)
(* The specification, in an arbitrary network.                             *)
(***************************************************************************)
Next ==
  \/ \E p \in Ports : Listen(p) \/ Unlisten(p)
  \/ \E r \in Remotes, p \in Ports : Connect(r, p) \/ ConnectFails(r, p)
  \/ \E s \in Slots : \/ \E d \in Payloads : Send(s, d)
                      \/ \E n \in ReadSizes : Read(s, n)
                      \/ CloseGraceful(s) \/ CloseHandshake(s) \/ Abort(s)
  \/ LinkDown
  \/ Periodic
  \/ \E seg \in Inputs : Input(seg)

Spec == Init /\ [][Next]_vars

(***************************************************************************)
(* Properties.                                                             *)
(***************************************************************************)
\* Every variable keeps its type: control blocks and queued segments are well
\* formed, ring indices stay inside the ring, retries never pass MAX_RETRIES and
\* the back-off never passes twice RTO_LIMIT.
TypeOK ==
  /\ conn \in [Slots -> Conns]
  /\ rx \in [Slots -> [0 .. RX_BUF_SIZE - 1 -> Bytes]]
  /\ txq \in [Slots -> Seq(TxSegs)]
  /\ free \in SUBSET Blocks
  /\ listeners \in [LSlots -> Ports]
  /\ iss_counter \in SeqNums
  /\ wire \subseteq Segments
  /\ told \in [Slots -> {"unused", "opening", "CONNECTED", "CLOSED", "ABORTED", "local"}]

\* Each block of the segment pool is either free or in exactly one place of
\* exactly one connection's queue: ACKs, aborts, timeouts, resets and link loss
\* neither leak a block nor free one twice.
PoolOwnership ==
  /\ \A s \in Slots : Blks(txq[s]) \cap free = {}
  /\ \A s \in Slots : \A i, j \in 1 .. Len(txq[s]) :
        i # j => txq[s][i].blk # txq[s][j].blk
  /\ \A s, t \in Slots : s # t => Blks(txq[s]) \cap Blks(txq[t]) = {}
  /\ \A b \in Blocks : b \in free \/ \E s \in Slots : b \in Blks(txq[s])

\* A live connection advertises exactly the space its ring has: the window
\* never promises a byte that section 6 of tcp_process would have to cut off.
RingWindow == \A s \in Slots : conn[s].active => conn[s].rcv_wnd = rx_free(conn[s])

\* A free slot has an empty queue and a closed state; a used one is past CLOSED.
ClosedIsEmpty ==
  \A s \in Slots : IF conn[s].active THEN conn[s].state # CLOSED
                                     ELSE conn[s].state = CLOSED /\ txq[s] = <<>>

FinSent(c) == c.state \in {FIN_WAIT_1, FIN_WAIT_2, CLOSING, LAST_ACK, TIME_WAIT}

\* Whatever the peer has not acknowledged can be sent again: the queue is
\* contiguous, starts at the first unacknowledged byte (or within its segment)
\* and ends at snd_nxt.  Only a SYN or FIN that found the pool empty is missing.
TxCoversUnacked ==
  \A s \in Slots : conn[s].active =>
    LET c == conn[s]
        q == txq[s]
        Gap(a, b) == (b - a) % SeqSpace
    IN  /\ \A i \in 1 .. Len(q) - 1 : SegEnd(q[i]) = q[i + 1].seq
        /\ q # <<>> =>
             /\ SEQ_GT(SegEnd(q[1]), c.snd_una)
             /\ SEQ_LEQ(q[1].seq, c.snd_una) \/ Gap(c.snd_una, q[1].seq) = 1
             /\ Gap(SegEnd(q[Len(q)]), c.snd_nxt) <= IF FinSent(c) THEN 1 ELSE 0
        /\ q = <<>> => Gap(c.snd_una, c.snd_nxt) <= IF FinSent(c) THEN 2 ELSE 1

\* The application is never left holding a dead connection: a slot that is gone
\* was closed or aborted by the application or said so through the event
\* callback, and an ESTABLISHED one has been announced as CONNECTED.  (A
\* connection accepted on port 0 has no callback to tell.)
TerminalNotice ==
  \A s \in Slots :
    /\ ~conn[s].active /\ conn[s].cb => told[s] \in {"local", "CLOSED", "ABORTED"}
    /\ conn[s].active /\ conn[s].cb /\ conn[s].state = ESTABLISHED => told[s] = "CONNECTED"
    /\ conn[s].active /\ conn[s].cb /\ conn[s].state = CLOSE_WAIT => told[s] = "CLOSED"
=============================================================================
