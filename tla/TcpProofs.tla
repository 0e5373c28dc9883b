----------------------------- MODULE TcpProofs -----------------------------
(***************************************************************************)
(* Theorems about Tcp, for every number of slots, every pool, ring and     *)
(* sequence-space size, every timer setting and every set of segments the  *)
(* network may deliver.                                                    *)
(***************************************************************************)
EXTENDS Tcp, FiniteSetTheorems, SequenceTheorems, TLAPS

Events == {"none", "opening", "CONNECTED", "CLOSED", "ABORTED", "local"}
Results == [c : Conns, q : Seq(TxSegs), freed : SUBSET Blocks, out : SUBSET Segments,
            ev : Events]

\* A receive ring never holds more than RX_BUF_SIZE - 1 bytes.
LEMMA RxAvailableType ==
  ASSUME NEW c \in Conns
  PROVE  rx_available(c) \in 0 .. RX_BUF_SIZE - 1 /\ rx_free(c) \in 0 .. RX_BUF_SIZE - 1
<1>1. c.rx_head \in 0 .. RX_BUF_SIZE - 1 /\ c.rx_tail \in 0 .. RX_BUF_SIZE - 1
  BY DEF Conns
<1>2. QED BY <1>1, SizesAssumption DEF rx_available, rx_free

\* Sequence arithmetic stays in the sequence space.
LEMMA AddType == ASSUME NEW x \in Int, NEW n \in Int PROVE Add(x, n) \in SeqNums
BY SizesAssumption DEF Add, SeqNums

\* The end of a segment is a sequence number.
LEMMA SegEndType ==
  ASSUME NEW x, x.seq \in SeqNums, x.data \in Seq(Bytes) PROVE SegEnd(x) \in SeqNums
<1>1. Len(x.data) + Weight(x.flags) \in Int BY DEF Weight
<1>2. x.seq \in Int BY DEF SeqNums
<1>3. QED BY <1>1, <1>2, AddType DEF SegEnd

\* An all-zero control block is a control block.
LEMMA ZeroConnType == ZeroConn \in Conns
<1>1. (CHOOSE r \in Remotes : TRUE) \in Remotes BY InputsAssumption
<1>2. QED
  BY <1>1, SizesAssumption, TimersAssumption, InputsAssumption
  DEF ZeroConn, Conns, States, SeqNums, CLOSED

\* tcp_free_conn leaves a control block.
LEMMA FreedType == ASSUME NEW c \in Conns PROVE Freed(c) \in Conns
BY ZeroConnType DEF Freed, Conns

\* An opened control block is one.
LEMMA OpenConnType ==
  ASSUME NEW st \in States, NEW r \in Remotes, NEW p \in Ports, NEW cb \in BOOLEAN,
         NEW m \in 0 .. MSS, NEW iss \in SeqNums, NEW rcv \in SeqNums
  PROVE  OpenConn(st, r, p, cb, m, iss, rcv) \in Conns
<1>1. Add(iss, 1) \in SeqNums BY AddType DEF SeqNums
<1>2. RX_BUF_SIZE - 1 \in 0 .. RX_BUF_SIZE - 1 /\ RTO_INIT \in 0 .. 2 * RTO_LIMIT
  BY SizesAssumption, TimersAssumption
<1>3. QED BY <1>1, <1>2, ZeroConnType DEF OpenConn, Conns

\* tcp_tx_ack takes a prefix of the queue.
LEMMA AckedCountType ==
  ASSUME NEW q \in Seq(TxSegs), NEW ack PROVE AckedCount(q, ack) \in 0 .. Len(q)
<1> DEFINE D == {i \in 1 .. Len(q) : \A j \in 1 .. i : SEQ_LEQ(SegEnd(q[j]), ack)}
<1>0. Len(q) \in Nat /\ 1 \in Int /\ Len(q) \in Int OBVIOUS
<1>1. IsFiniteSet(1 .. Len(q)) /\ Cardinality(1 .. Len(q)) = Len(q)
  <2>1. /\ IsFiniteSet(1 .. Len(q))
        /\ Cardinality(1 .. Len(q)) = IF 1 > Len(q) THEN 0 ELSE Len(q) - 1 + 1
    BY <1>0, FS_Interval, Zenon
  <2>2. QED BY <1>0, <2>1
<1>2. D \subseteq 1 .. Len(q) OBVIOUS
<1>3. IsFiniteSet(D) /\ Cardinality(D) <= Len(q) BY <1>1, <1>2, FS_Subset
<1>4. Cardinality(D) \in Nat BY <1>3, FS_CardinalityType
<1>5. QED BY <1>3, <1>4 DEF AckedCount

\* Blocks in any part of a queue are blocks of the pool.
LEMMA BlksOfType ==
  ASSUME NEW q \in Seq(TxSegs), NEW I, I \subseteq 1 .. Len(q)
  PROVE  BlksOf(q, I) \subseteq Blocks
<1>1. \A i \in I : q[i] \in TxSegs OBVIOUS
<1>2. \A i \in I : q[i].blk \in Blocks BY <1>1 DEF TxSegs
<1>3. QED BY <1>2 DEF BlksOf

\* What is left of the queue is a queue, and blocks it frees are blocks.
LEMMA TxAckType ==
  ASSUME NEW q \in Seq(TxSegs), NEW ack
  PROVE  tcp_tx_ack(q, ack) \in [q : Seq(TxSegs), freed : SUBSET Blocks]
<1>1. AckedCount(q, ack) \in 0 .. Len(q) BY AckedCountType
<1>2. SubSeq(q, AckedCount(q, ack) + 1, Len(q)) \in Seq(TxSegs)
  BY <1>1
<1>3. 1 .. AckedCount(q, ack) \subseteq 1 .. Len(q) BY <1>1
<1>4. BlksOf(q, 1 .. AckedCount(q, ack)) \subseteq Blocks BY <1>3, BlksOfType
<1>5. QED BY <1>2, <1>4 DEF tcp_tx_ack

\* Blocks of a queue are blocks of the pool.
LEMMA BlksType == ASSUME NEW q \in Seq(TxSegs) PROVE Blks(q) \subseteq Blocks
BY BlksOfType DEF Blks

\* A segment this host builds is a segment.
LEMMA SendSegmentType ==
  ASSUME NEW c \in Conns, NEW f \in SUBSET Flags, NEW n \in SeqNums, NEW d \in Seq(Bytes)
  PROVE  tcp_send_segment(c, f, n, d) \in Segments
BY SizesAssumption DEF tcp_send_segment, Segments, Conns

\* A plain acknowledgment is a segment.
LEMMA PlainAckType == ASSUME NEW c \in Conns PROVE PlainAck(c) \in Segments
<1>1. c.snd_nxt \in SeqNums /\ {"ACK"} \in SUBSET Flags /\ <<>> \in Seq(Bytes)
  BY DEF Conns, Flags
<1>2. QED BY <1>1, SendSegmentType DEF PlainAck

\* Freeing a connection is a well-formed handler result.
LEMMA FreeConnType ==
  ASSUME NEW c \in Conns, NEW q \in Seq(TxSegs), NEW out \in SUBSET Segments, NEW ev \in Events
  PROVE  tcp_free_conn(c, q, out, ev) \in Results
BY FreedType, BlksType DEF tcp_free_conn, Result, Results

\* So is any result built from well-formed parts.
LEMMA ResultType ==
  ASSUME NEW c \in Conns, NEW q \in Seq(TxSegs), NEW fr \in SUBSET Blocks,
         NEW out \in SUBSET Segments, NEW ev \in Events
  PROVE  Result(c, q, fr, out, ev) \in Results
BY DEF Result, Results
(***************************************************************************)
(* tcp_process keeps control blocks well formed.                           *)
(***************************************************************************)
\* A control block may enter any state; TIME_WAIT also arms its counter.
LEMMA StateChangeType ==
  ASSUME NEW x \in Conns
  PROVE  /\ \A st \in States : [x EXCEPT !.state = st] \in Conns
         /\ EnterTimeWait(x) \in Conns
<1>1. \A st \in States : [x EXCEPT !.state = st] \in Conns BY DEF Conns
<1>2. TIME_WAIT \in States BY DEF States, TIME_WAIT, SYN_SENT
<1>3. TIME_WAIT_TICKS \in 0 .. TIME_WAIT_TICKS BY TimersAssumption
<1>4. EnterTimeWait(x) \in Conns BY <1>2, <1>3 DEF EnterTimeWait, Conns
<1>5. QED BY <1>1, <1>4

\* The states the handlers assign are states.
LEMMA StatesType ==
  {CLOSED, SYN_SENT, SYN_RCVD, ESTABLISHED, FIN_WAIT_1, FIN_WAIT_2, CLOSE_WAIT, CLOSING,
   LAST_ACK, TIME_WAIT} \subseteq States
BY DEF States, CLOSED, SYN_SENT, SYN_RCVD, ESTABLISHED, FIN_WAIT_1, FIN_WAIT_2, CLOSE_WAIT,
       CLOSING, LAST_ACK, TIME_WAIT

\* Section 5.
LEMMA AckConnType ==
  ASSUME NEW c \in Conns, NEW g \in Segments PROVE AckConn(c, g) \in Conns
<1>0. RTO_INIT \in 0 .. 2 * RTO_LIMIT /\ 0 \in Nat /\ 0 \in 0 .. MAX_RETRIES
  BY TimersAssumption
<1>1. TimersAfterAck(c) \in Conns BY <1>0 DEF TimersAfterAck, Conns
<1>2. AckedConn(c, g) \in Conns BY <1>1 DEF AckedConn, Conns, Segments
<1>3. QED BY <1>2, StateChangeType, StatesType DEF AckConn

\* The number of bytes section 6 takes fits the ring and the segment.
LEMMA AcceptType ==
  ASSUME NEW c \in Conns, NEW g \in Segments
  PROVE  Accept(c, g) \in 0 .. rx_free(c) /\ Accept(c, g) \in 0 .. Len(g.data)
<1>1. rx_free(c) \in Nat BY RxAvailableType, SizesAssumption
<1>2. Len(g.data) \in Nat BY DEF Segments
<1>3. QED BY <1>1, <1>2 DEF Accept, TakesData

\* Section 6.
LEMMA DataConnType ==
  ASSUME NEW c \in Conns, NEW g \in Segments PROVE DataConn(c, g) \in Conns
<1> DEFINE n == Accept(c, g)
           w == WrittenConn(c, n)
<1>1. n \in Nat BY AcceptType, RxAvailableType, SizesAssumption
<1> HIDE DEF n
<1>2. (c.rx_head + n) % RX_BUF_SIZE \in 0 .. RX_BUF_SIZE - 1
  BY <1>1, SizesAssumption DEF Conns
<1>3. c.rcv_nxt \in Int BY DEF Conns, SeqNums
<1>3a. Add(c.rcv_nxt, n) \in SeqNums BY <1>1, <1>3, AddType
<1>4. w \in Conns BY <1>2, <1>3a DEF WrittenConn, Conns
<1>5. rx_free(w) \in 0 .. RX_BUF_SIZE - 1 BY <1>4, RxAvailableType
<1>6. [w EXCEPT !.rcv_wnd = rx_free(w)] \in Conns BY <1>4, <1>5 DEF Conns
<1>7. QED BY <1>6 DEF DataConn, n

\* Section 7.
LEMMA FinConnType ==
  ASSUME NEW c \in Conns, NEW g \in Segments PROVE FinConn(c, g) \in Conns
<1> DEFINE f == [c EXCEPT !.rcv_nxt = Add(@, 1), !.rcv_wnd = rx_free(c)]
<1>1. Add(c.rcv_nxt, 1) \in SeqNums BY AddType DEF Conns, SeqNums
<1>2. f \in Conns BY <1>1, RxAvailableType DEF Conns
<1> HIDE DEF f
<1>3. QED BY <1>2, StateChangeType, StatesType DEF FinConn, f

\* Sections 5 to 7 together.
LEMMA AcceptedType ==
  ASSUME NEW c \in Conns, NEW q \in Seq(TxSegs), NEW g \in Segments
  PROVE  Accepted(c, q, g) \in Results
<1> DEFINE x == AckConn(c, g)
           d == DataConn(x, g)
           f == FinConn(d, g)
           t == AckQueue(c, q, g)
           e == [d EXCEPT !.rcv_nxt = f.rcv_nxt, !.rcv_wnd = f.rcv_wnd]
           out == (IF TakesData(x, g) THEN {PlainAck(d)} ELSE {}) \cup
                  (IF "FIN" \in g.flags THEN {PlainAck(e)} ELSE {})
           ev == EventOfProcess(c, x, d, g)
<1>1. x \in Conns BY AckConnType
<1>2. d \in Conns BY <1>1, DataConnType
<1>3. f \in Conns BY <1>2, FinConnType
<1>4. t \in [q : Seq(TxSegs), freed : SUBSET Blocks] BY TxAckType DEF AckQueue
<1> HIDE DEF x, d, f, t
<1>5. e \in Conns BY <1>2, <1>3 DEF Conns
<1>6. out \in SUBSET Segments BY <1>2, <1>5, PlainAckType
<1>7. ev \in Events BY DEF EventOfProcess, Event, Events
<1>8. t.q \in Seq(TxSegs) /\ t.freed \in SUBSET Blocks BY <1>4
<1>9. Accepted(c, q, g) = Result(f, t.q, t.freed, out, ev) BY DEF Accepted, x, d, f, t
<1>10. QED BY <1>3, <1>6, <1>7, <1>8, <1>9, ResultType
(***************************************************************************)
(* The timer handler and the effects.                                      *)
(***************************************************************************)
\* tiku_kits_net_tcp_periodic and link_down give well-formed results.
LEMMA TickType ==
  ASSUME TypeOK, NEW s \in Slots PROVE Tick(s) \in Results /\ DownOf(s) \in Results
<1> DEFINE c == conn[s]
           q == txq[s]
<1>1. c \in Conns /\ q \in Seq(TxSegs) BY DEF TypeOK
<1> HIDE DEF c, q
<1>2. \A ev \in {"none", "ABORTED", "CLOSED"} :
        ev \in Events /\ Event(c, ev) \in Events BY DEF Events, Event
<1>3. {} \in SUBSET Segments /\ {} \in SUBSET Blocks OBVIOUS
<1>4. Untouched(s) \in Results BY <1>1, <1>2, <1>3, ResultType DEF Untouched, c, q
<1>5. \A ev \in {"ABORTED", "CLOSED"} : tcp_free_conn(c, q, {}, Event(c, ev)) \in Results
  BY <1>1, <1>2, <1>3, FreeConnType
<1>6. TimeWaitTick(s, c) \in Results
  <2>1. SUFFICES ASSUME c.tw_counter > 0
                 PROVE  Result([c EXCEPT !.tw_counter = c.tw_counter - 1], q, {}, {}, "none")
                          \in Results
    BY <1>5 DEF TimeWaitTick, q
  <2>2. c.tw_counter - 1 \in 0 .. TIME_WAIT_TICKS
    BY <1>1, <2>1, TimersAssumption DEF Conns
  <2>3. [c EXCEPT !.tw_counter = c.tw_counter - 1] \in Conns BY <1>1, <2>2 DEF Conns
  <2>4. QED BY <1>1, <1>2, <1>3, <2>3, ResultType
<1>7. IdleTick(s, c) \in Results
  <2>1. SUFFICES ASSUME ~(c.idle_counter + 1 >= IDLE_REAP_TICKS)
                 PROVE  Result([c EXCEPT !.idle_counter = @ + 1], q, {}, {}, "none") \in Results
    BY <1>5 DEF IdleTick, q
  <2>2. c.idle_counter + 1 \in 0 .. IDLE_REAP_TICKS
    BY <1>1, <2>1, TimersAssumption DEF Conns
  <2>3. [c EXCEPT !.idle_counter = @ + 1] \in Conns BY <1>1, <2>2 DEF Conns
  <2>4. QED BY <1>1, <1>2, <1>3, <2>3, ResultType
<1>8. q # <<>> => RtoTick(s, c) \in Results
  <2>1. HAVE q # <<>>
  <2>2. c.rto_counter + 1 \in Nat /\ 0 \in 0 .. IDLE_REAP_TICKS /\ 0 \in Nat
    BY <1>1, TimersAssumption DEF Conns
  <2>3. [c EXCEPT !.idle_counter = 0, !.rto_counter = c.rto_counter + 1] \in Conns
    BY <1>1, <2>2 DEF Conns
  <2>4. BackedOff(c.rto_ticks) \in 0 .. 2 * RTO_LIMIT
    BY <1>1, TimersAssumption DEF BackedOff, Conns
  <2>5. ~(c.retries + 1 > MAX_RETRIES) => c.retries + 1 \in 0 .. MAX_RETRIES
    BY <1>1, TimersAssumption DEF Conns
  <2>6. ASSUME ~(c.retries + 1 > MAX_RETRIES)
        PROVE  [c EXCEPT !.idle_counter = 0, !.rto_counter = 0, !.retries = @ + 1,
                         !.rto_ticks = BackedOff(@)] \in Conns
    <3>1. c.retries + 1 \in 0 .. MAX_RETRIES BY <2>5, <2>6
    <3>2. QED BY <1>1, <2>2, <2>4, <3>1 DEF Conns
  <2>7. q[1] \in TxSegs BY <1>1, <2>1
  <2>8. {"ACK"} \cup q[1].flags \in SUBSET Flags BY <2>7 DEF TxSegs, Flags
  <2>9. tcp_retransmit_head(c, q) \in SUBSET Segments
    BY <1>1, <2>7, <2>8, SendSegmentType DEF tcp_retransmit_head, TxSegs
  <2>10. QED BY <1>1, <1>2, <1>3, <1>5, <2>3, <2>6, <2>9, ResultType DEF RtoTick, q
<1>9. Result([c EXCEPT !.idle_counter = 0], q, {}, {}, "none") \in Results
  <2>1. 0 \in 0 .. IDLE_REAP_TICKS BY TimersAssumption
  <2>2. [c EXCEPT !.idle_counter = 0] \in Conns BY <1>1, <2>1 DEF Conns
  <2>3. QED BY <1>1, <1>2, <1>3, <2>2, ResultType
<1>10. Tick(s) \in Results BY <1>4, <1>6, <1>7, <1>8, <1>9 DEF Tick, c, q
<1>11. DownOf(s) \in Results BY <1>4, <1>5 DEF DownOf, c, q
<1>12. QED BY <1>10, <1>11

\* What is put on the wire is made of segments.
LEMMA EmitType ==
  ASSUME TypeOK, NEW S \in SUBSET Segments, Emit(S) PROVE wire' \subseteq Segments
BY DEF Emit, TypeOK

\* Applying a well-formed result to a slot keeps the types.
LEMMA ApplyType ==
  ASSUME TypeOK, NEW s \in Slots, NEW r \in Results, Apply(s, r),
         UNCHANGED <<listeners, iss_counter>>,
         rx' \in [Slots -> [0 .. RX_BUF_SIZE - 1 -> Bytes]]
  PROVE  TypeOK'
<1>1. r.c \in Conns /\ r.q \in Seq(TxSegs) /\ r.freed \in SUBSET Blocks
      /\ r.out \in SUBSET Segments /\ r.ev \in Events
  BY DEF Results
<1>2. wire' \subseteq Segments BY <1>1, EmitType DEF Apply
<1>3. conn' \in [Slots -> Conns] BY <1>1 DEF Apply, TypeOK
<1>4. txq' \in [Slots -> Seq(TxSegs)] BY <1>1 DEF Apply, TypeOK
<1>5. free' \in SUBSET Blocks BY <1>1 DEF Apply, TypeOK
<1>6. told' \in [Slots -> {"unused", "opening", "CONNECTED", "CLOSED", "ABORTED", "local"}]
  BY <1>1 DEF Apply, TypeOK, Events
<1>7. QED BY <1>2, <1>3, <1>4, <1>5, <1>6 DEF TypeOK
\* The same for a handler run over every slot, f[s] being its result on s.
LEMMA ApplyAllType ==
  ASSUME TypeOK, NEW f \in [Slots -> Results],
         conn' = [s \in Slots |-> f[s].c],
         txq' = [s \in Slots |-> f[s].q],
         free' = free \cup UNION {f[s].freed : s \in Slots},
         told' = [s \in Slots |-> IF f[s].ev = "none" THEN told[s] ELSE f[s].ev],
         Emit(UNION {f[s].out : s \in Slots}),
         UNCHANGED <<rx, listeners, iss_counter>>
  PROVE  TypeOK'
<1>1. \A s \in Slots : f[s].c \in Conns /\ f[s].q \in Seq(TxSegs)
         /\ f[s].freed \in SUBSET Blocks /\ f[s].out \in SUBSET Segments /\ f[s].ev \in Events
  BY DEF Results
<1>2. UNION {f[s].out : s \in Slots} \in SUBSET Segments BY <1>1
<1>3. wire' \subseteq Segments BY <1>2, EmitType
<1>4. free' \in SUBSET Blocks BY <1>1 DEF TypeOK
<1>5. told' \in [Slots -> {"unused", "opening", "CONNECTED", "CLOSED", "ABORTED", "local"}]
  BY <1>1 DEF TypeOK, Events
<1>6. QED BY <1>1, <1>3, <1>4, <1>5 DEF TypeOK

\* Queueing a segment keeps queue and pool well formed.
LEMMA EnqueueType ==
  ASSUME TypeOK, NEW s \in Slots, NEW q \in Seq(TxSegs), NEW n \in SeqNums,
         NEW fl \in SUBSET Flags, NEW d \in Seq(Bytes),
         tcp_tx_enqueue(s, q, n, fl, d) \/ EnqueueOrSkip(s, q, n, fl)
  PROVE  txq' \in [Slots -> Seq(TxSegs)] /\ free' \in SUBSET Blocks
<1>1. ASSUME NEW dd \in Seq(Bytes), tcp_tx_enqueue(s, q, n, fl, dd)
      PROVE  txq' \in [Slots -> Seq(TxSegs)] /\ free' \in SUBSET Blocks
  <2> DEFINE bb == CHOOSE b \in free : TRUE
             sg == [blk |-> bb, seq |-> n, data |-> dd, flags |-> fl]
  <2>1. bb \in Blocks BY <1>1 DEF tcp_tx_enqueue, TypeOK
  <2>2. txq' = [txq EXCEPT ![s] = Append(q, sg)] /\ free' = free \ {bb}
    BY <1>1 DEF tcp_tx_enqueue
  <2> HIDE DEF bb
  <2>3. sg \in TxSegs BY <2>1 DEF TxSegs
  <2> HIDE DEF sg
  <2>4. Append(q, sg) \in Seq(TxSegs) BY <2>3
  <2>5. QED BY <2>2, <2>4 DEF TypeOK
<1>2. CASE free = {} /\ txq' = [txq EXCEPT ![s] = q] /\ UNCHANGED free
  BY <1>2 DEF TypeOK
<1>3. <<>> \in Seq(Bytes) OBVIOUS
<1>4. QED BY <1>1, <1>2, <1>3 DEF EnqueueOrSkip

(***************************************************************************)
(* TypeOK is an invariant: one step per action.                            *)
(***************************************************************************)
\* tiku_kits_net_tcp_init establishes the types.
LEMMA InitType == Init => TypeOK
<1> SUFFICES ASSUME Init PROVE TypeOK OBVIOUS
<1>1. (CHOOSE b \in Bytes : TRUE) \in Bytes BY InputsAssumption
<1>2. <<>> \in Seq(TxSegs) OBVIOUS
<1>3. ISS_INIT \in SeqNums BY SizesAssumption DEF SeqNums
<1>4. ECHO_PORT \in Ports /\ 0 \in Ports BY InputsAssumption
<1>5. QED BY <1>1, <1>2, <1>3, <1>4, ZeroConnType DEF Init, TypeOK

\* The control block a segment finds.
LEMMA KnownType ==
  ASSUME TypeOK, NEW s \in Slots, NEW g \in Segments PROVE Known(s, g) \in Conns
<1>1. conn[s] \in Conns BY DEF TypeOK
<1>2. ClampMss(g.mss) \in 0 .. MSS BY SizesAssumption DEF ClampMss, Segments
<1>3. QED BY <1>1, <1>2 DEF Known, Conns

\* A segment for an existing connection keeps the types.
LEMMA InputConnType ==
  ASSUME TypeOK, NEW g \in Segments, InputConn(g) PROVE TypeOK'
<1> PICK s \in Slots :
      \/ InputReset(s, g) \/ InputSynAck(s, g) \/ InputSynSyn(s, g)
      \/ InputSynDrop(s, g) \/ InputOutOfOrder(s, g) \/ InputBadSyn(s, g)
      \/ InputLastAck(s, g) \/ InputAccept(s, g)
  BY DEF InputConn
<1> DEFINE c == Known(s, g)
           q == txq[s]
<1>1. c \in Conns /\ q \in Seq(TxSegs) /\ conn[s] \in Conns BY KnownType DEF TypeOK
<1>2. \A x, ev : ev \in {"ABORTED", "CLOSED", "CONNECTED"} => Event(x, ev) \in Events
  BY DEF Event, Events
<1>3. {} \in SUBSET Segments /\ {} \in SUBSET Blocks /\ "none" \in Events BY DEF Events
<1>4. g.seq \in Int /\ g.ack \in SeqNums BY DEF Segments, SeqNums
<1>5. Add(g.seq, 1) \in SeqNums BY <1>4, AddType
<1>6. rx \in [Slots -> [0 .. RX_BUF_SIZE - 1 -> Bytes]] BY DEF TypeOK
<1> HIDE DEF c, q
<1>7. CASE InputReset(s, g)
  <2>1. tcp_free_conn(conn[s], q, {}, Event(conn[s], "ABORTED")) \in Results
    BY <1>1, <1>2, <1>3, FreeConnType
  <2>2. QED BY <1>6, <1>7, <2>1, ApplyType DEF InputReset, q
<1>8. CASE InputSynAck(s, g)
  <2> DEFINE d == [c EXCEPT !.rcv_nxt = Add(g.seq, 1), !.snd_una = g.ack,
                            !.state = ESTABLISHED, !.rto_ticks = RTO_INIT,
                            !.rto_counter = 0, !.retries = 0]
             t == tcp_tx_ack(q, g.ack)
  <2>1. RTO_INIT \in 0 .. 2 * RTO_LIMIT /\ 0 \in Nat /\ 0 \in 0 .. MAX_RETRIES
    BY TimersAssumption
  <2>2. d \in Conns BY <1>1, <1>4, <1>5, <2>1, StatesType DEF Conns
  <2>3. t.q \in Seq(TxSegs) /\ t.freed \in SUBSET Blocks BY <1>1, TxAckType
  <2>4. Apply(s, Result(d, t.q, t.freed, {PlainAck(d)}, Event(c, "CONNECTED")))
    BY <1>8 DEF InputSynAck, c, q
  <2> HIDE DEF d, t
  <2>5. Result(d, t.q, t.freed, {PlainAck(d)}, Event(c, "CONNECTED")) \in Results
    BY <1>2, <2>2, <2>3, PlainAckType, ResultType
  <2>6. QED BY <1>6, <1>8, <2>4, <2>5, ApplyType DEF InputSynAck
<1>9. CASE InputSynSyn(s, g)
  <2> DEFINE d == [c EXCEPT !.rcv_nxt = Add(g.seq, 1), !.state = SYN_RCVD]
             sa == tcp_send_segment(d, {"SYN", "ACK"}, d.snd_una, <<>>)
  <2>1. d \in Conns BY <1>1, <1>5, StatesType DEF Conns
  <2>2. Apply(s, Result(d, q, {}, {sa}, "none")) BY <1>9 DEF InputSynSyn, c, q
  <2> HIDE DEF d
  <2>3. d.snd_una \in SeqNums /\ {"SYN", "ACK"} \in SUBSET Flags /\ <<>> \in Seq(Bytes)
    BY <2>1 DEF Conns, Flags
  <2>4. sa \in Segments BY <2>1, <2>3, SendSegmentType
  <2> HIDE DEF sa
  <2>5. Result(d, q, {}, {sa}, "none") \in Results
    BY <1>1, <1>3, <2>1, <2>4, ResultType
  <2>6. QED BY <1>6, <1>9, <2>2, <2>5, ApplyType DEF InputSynSyn
<1>10. CASE InputSynDrop(s, g)
  <2>1. Result(c, q, {}, {}, "none") \in Results BY <1>1, <1>3, ResultType
  <2>2. QED BY <1>6, <1>10, <2>1, ApplyType DEF InputSynDrop, c, q
<1>11. CASE InputOutOfOrder(s, g)
  <2>1. Result(c, q, {}, {PlainAck(c)}, "none") \in Results
    BY <1>1, <1>3, PlainAckType, ResultType
  <2>2. QED BY <1>6, <1>11, <2>1, ApplyType DEF InputOutOfOrder, c, q
<1>12. CASE InputBadSyn(s, g)
  <2>1. tcp_free_conn(c, q, {}, Event(c, "ABORTED")) \in Results
    BY <1>1, <1>2, <1>3, FreeConnType
  <2>2. QED BY <1>6, <1>12, <2>1, ApplyType DEF InputBadSyn, c, q
<1>13. CASE InputLastAck(s, g)
  <2>1. tcp_free_conn(c, q, {}, Event(c, "CLOSED")) \in Results
    BY <1>1, <1>2, <1>3, FreeConnType
  <2>2. QED BY <1>6, <1>13, <2>1, ApplyType DEF InputLastAck, c, q
<1>14. CASE InputAccept(s, g)
  <2> DEFINE x == AckConn(c, g)
             n == Accept(x, g)
  <2>1. Accepted(c, q, g) \in Results BY <1>1, AcceptedType
  <2>2. x \in Conns BY <1>1, AckConnType
  <2>3. n \in 0 .. Len(g.data) BY <2>2, AcceptType
  <2>4. /\ Apply(s, Accepted(c, q, g))
        /\ rx' = [rx EXCEPT ![s] = rx_write(rx[s], x.rx_head, g.data, n)]
    BY <1>14 DEF InputAccept, c, q
  <2>5. x.rx_head \in Int BY <2>2 DEF Conns
  <2> HIDE DEF x, n
  <2>6. rx_write(rx[s], x.rx_head, g.data, n) \in [0 .. RX_BUF_SIZE - 1 -> Bytes]
    <3>1. g.data \in Seq(Bytes) BY DEF Segments
    <3>2. \A i \in 0 .. RX_BUF_SIZE - 1 :
            (i - x.rx_head) % RX_BUF_SIZE < n => g.data[((i - x.rx_head) % RX_BUF_SIZE) + 1] \in Bytes
      <4>1. TAKE i \in 0 .. RX_BUF_SIZE - 1
      <4>2. (i - x.rx_head) % RX_BUF_SIZE \in Nat BY <2>5, SizesAssumption
      <4>3. QED BY <2>3, <3>1, <4>2
    <3>3. rx[s] \in [0 .. RX_BUF_SIZE - 1 -> Bytes] BY <1>6
    <3>4. QED BY <3>2, <3>3 DEF rx_write
  <2>7. rx' \in [Slots -> [0 .. RX_BUF_SIZE - 1 -> Bytes]] BY <1>6, <2>4, <2>6
  <2>8. QED BY <1>14, <2>1, <2>4, <2>7, ApplyType DEF InputAccept
<1>15. QED BY <1>7, <1>8, <1>9, <1>10, <1>11, <1>12, <1>13, <1>14
\* A passive open, a dropped segment and a stray one keep the types.
LEMMA InputOtherType ==
  ASSUME TypeOK, NEW g \in Segments, InputListen(g) \/ InputDropped(g) \/ InputStray(g)
  PROVE  TypeOK'
<1>1. CASE InputListen(g)
  <2> DEFINE iss == tcp_gen_iss
             c == OpenConn(SYN_RCVD, g.remote, g.port, g.port # 0,
                           ClampMss(g.mss), iss, Add(g.seq, 1))
  <2>1. iss \in SeqNums BY AddType, SizesAssumption DEF tcp_gen_iss, TypeOK, SeqNums
  <2>2. Add(g.seq, 1) \in SeqNums BY AddType DEF Segments, SeqNums
  <2>3. ClampMss(g.mss) \in 0 .. MSS BY SizesAssumption DEF ClampMss, Segments
  <2>4. g.remote \in Remotes /\ g.port \in Ports BY DEF Segments
  <2>5. c \in Conns BY <2>1, <2>2, <2>3, <2>4, OpenConnType, StatesType
  <2>6. {"SYN", "ACK"} \in SUBSET Flags /\ <<>> \in Seq(Bytes) /\ <<>> \in Seq(TxSegs)
    BY DEF Flags
  <2>7. PICK s \in Slots :
          /\ EnqueueOrSkip(s, <<>>, iss, {"SYN", "ACK"})
          /\ Emit({tcp_send_segment(c, {"SYN", "ACK"}, iss, <<>>)})
          /\ conn' = [conn EXCEPT ![s] = c]
          /\ iss_counter' = iss
          /\ told' = [told EXCEPT ![s] = "opening"]
          /\ UNCHANGED <<rx, listeners>>
    BY <1>1 DEF InputListen
  <2> HIDE DEF c, iss
  <2>8. txq' \in [Slots -> Seq(TxSegs)] /\ free' \in SUBSET Blocks
    BY <2>1, <2>6, <2>7, EnqueueType
  <2>9. wire' \subseteq Segments
    <3>1. {tcp_send_segment(c, {"SYN", "ACK"}, iss, <<>>)} \in SUBSET Segments
      BY <2>1, <2>5, <2>6, SendSegmentType
    <3>2. QED BY <2>7, <3>1, EmitType
  <2>10. QED BY <2>1, <2>5, <2>7, <2>8, <2>9 DEF TypeOK
<1>2. CASE InputDropped(g) BY <1>2 DEF InputDropped, TypeOK, vars
<1>3. CASE InputStray(g)
  <2>1. SegEnd(g) \in SeqNums BY SegEndType DEF Segments
  <2>2. 0 \in SeqNums BY SizesAssumption DEF SeqNums
  <2>3. tcp_send_rst_reply(g) \in Segments
    BY <2>1, <2>2, SizesAssumption DEF tcp_send_rst_reply, Segments, Flags
  <2>4. wire' \subseteq Segments BY <1>3, <2>3, EmitType DEF InputStray
  <2>5. QED BY <1>3, <2>4 DEF InputStray, TypeOK
<1>4. QED BY <1>1, <1>2, <1>3

\* Each call of the application keeps the types.
LEMMA ApplicationType ==
  ASSUME TypeOK,
         \/ \E p \in Ports : Listen(p) \/ Unlisten(p)
         \/ \E r \in Remotes, p \in Ports : Connect(r, p) \/ ConnectFails(r, p)
         \/ \E s \in Slots : \/ \E d \in Payloads : Send(s, d)
                             \/ \E n \in ReadSizes : Read(s, n)
                             \/ CloseGraceful(s) \/ CloseHandshake(s) \/ Abort(s)
  PROVE  TypeOK'
<1> DEFINE iss == tcp_gen_iss
<1>0. iss_counter \in Int /\ ISS_STEP \in Int BY SizesAssumption DEF TypeOK, SeqNums
<1>1. iss \in SeqNums BY <1>0, AddType DEF tcp_gen_iss
<1>2. MSS \in 0 .. MSS /\ 0 \in SeqNums /\ 0 \in Ports /\ 0 \in Nat /\ 0 \in 0 .. MAX_RETRIES
  BY SizesAssumption, TimersAssumption, InputsAssumption DEF SeqNums
<1>3. <<>> \in Seq(Bytes) /\ <<>> \in Seq(TxSegs) OBVIOUS
<1> HIDE DEF iss
<1>4. ASSUME NEW p \in Ports, Listen(p) \/ Unlisten(p) PROVE TypeOK'
  BY <1>2, <1>4 DEF Listen, Unlisten, TypeOK
<1>5. ASSUME NEW r \in Remotes, NEW p \in Ports, Connect(r, p) PROVE TypeOK'
  <2> DEFINE c == OpenConn(SYN_SENT, r, p, TRUE, MSS, iss, 0)
  <2>1. c \in Conns BY <1>1, <1>2, OpenConnType, StatesType
  <2>2. PICK s \in Slots :
          /\ EnqueueOrSkip(s, <<>>, iss, {"SYN"})
          /\ Emit({tcp_send_segment(c, {"SYN"}, iss, <<>>)})
          /\ conn' = [conn EXCEPT ![s] = c]
          /\ iss_counter' = iss
          /\ told' = [told EXCEPT ![s] = "opening"]
          /\ UNCHANGED <<rx, listeners>>
    BY <1>5 DEF Connect, iss
  <2> HIDE DEF c
  <2>3. {"SYN"} \in SUBSET Flags BY DEF Flags
  <2>4. txq' \in [Slots -> Seq(TxSegs)] /\ free' \in SUBSET Blocks
    BY <1>1, <1>3, <2>2, <2>3, EnqueueType
  <2>5. {tcp_send_segment(c, {"SYN"}, iss, <<>>)} \in SUBSET Segments
    BY <1>1, <1>3, <2>1, <2>3, SendSegmentType
  <2>6. wire' \subseteq Segments BY <2>2, <2>5, EmitType
  <2>7. QED BY <1>1, <2>1, <2>2, <2>4, <2>6 DEF TypeOK
<1>6. ASSUME NEW r \in Remotes, NEW p \in Ports, ConnectFails(r, p) PROVE TypeOK'
  <2>1. Freed(OpenConn(SYN_SENT, r, p, TRUE, MSS, 0, 0)) \in Conns
    BY <1>2, OpenConnType, FreedType, StatesType
  <2>2. QED BY <1>1, <1>6, <2>1 DEF ConnectFails, TypeOK, iss
<1>7. ASSUME NEW s \in Slots, NEW d \in Payloads, Send(s, d) PROVE TypeOK'
  <2> DEFINE c == conn[s]
  <2>1. c \in Conns /\ txq[s] \in Seq(TxSegs) /\ d \in Seq(Bytes)
    BY InputsAssumption DEF TypeOK
  <2>2. c.snd_nxt \in SeqNums /\ c.snd_nxt \in Int /\ Len(d) \in Int
    BY <2>1 DEF Conns, SeqNums
  <2>3. Add(c.snd_nxt, Len(d)) \in SeqNums BY <2>2, AddType
  <2>4. {} \in SUBSET Flags /\ {"ACK"} \in SUBSET Flags BY DEF Flags
  <2>5. txq' \in [Slots -> Seq(TxSegs)] /\ free' \in SUBSET Blocks
    BY <1>7, <2>1, <2>2, <2>4, EnqueueType DEF Send
  <2>6. {tcp_send_segment(c, {"ACK"}, c.snd_nxt, d)} \in SUBSET Segments
    BY <2>1, <2>2, <2>4, SendSegmentType
  <2>7. wire' \subseteq Segments BY <1>7, <2>6, EmitType DEF Send
  <2>8. [c EXCEPT !.snd_nxt = Add(c.snd_nxt, Len(d)), !.rto_counter = 0, !.retries = 0] \in Conns
    BY <1>2, <2>1, <2>3 DEF Conns
  <2>9. conn' = [conn EXCEPT ![s] = [c EXCEPT !.snd_nxt = Add(c.snd_nxt, Len(d)),
                                              !.rto_counter = 0, !.retries = 0]]
    BY <1>7, <2>1 DEF Send, TypeOK
  <2>10. conn' \in [Slots -> Conns] BY <2>8, <2>9 DEF TypeOK
  <2>11. QED BY <1>7, <2>5, <2>7, <2>10 DEF Send, TypeOK
<1>8. ASSUME NEW s \in Slots, NEW n \in ReadSizes, Read(s, n) PROVE TypeOK'
  <2> DEFINE c == conn[s]
             t == [c EXCEPT !.rx_tail = (c.rx_tail + ReadLen(c, n)) % RX_BUF_SIZE]
             d == ReadConn(c, n)
  <2>1. c \in Conns BY DEF TypeOK
  <2>2. ReadLen(c, n) \in Nat
    BY <2>1, RxAvailableType, SizesAssumption, InputsAssumption DEF ReadLen
  <2>3. (c.rx_tail + ReadLen(c, n)) % RX_BUF_SIZE \in 0 .. RX_BUF_SIZE - 1
    BY <2>1, <2>2, SizesAssumption DEF Conns
  <2>4. t \in Conns BY <2>1, <2>3 DEF Conns
  <2>5. rx_free(t) \in 0 .. RX_BUF_SIZE - 1 BY <2>4, RxAvailableType
  <2>6. d = [t EXCEPT !.rcv_wnd = rx_free(t)] BY DEF ReadConn
  <2> HIDE DEF t
  <2>7. d \in Conns BY <2>4, <2>5, <2>6 DEF Conns
  <2>8. wire' \subseteq Segments BY <1>8, <2>7, PlainAckType, EmitType DEF Read
  <2>9. QED BY <1>8, <2>7, <2>8 DEF Read, TypeOK
<1>9. ASSUME NEW s \in Slots, CloseGraceful(s) PROVE TypeOK'
  <2> DEFINE c == conn[s]
             st == IF c.state = ESTABLISHED THEN FIN_WAIT_1 ELSE LAST_ACK
             d == [c EXCEPT !.snd_nxt = Add(c.snd_nxt, 1), !.state = st,
                            !.rto_counter = 0, !.retries = 0]
  <2>1. c \in Conns /\ txq[s] \in Seq(TxSegs) BY DEF TypeOK
  <2>2. c.snd_nxt \in SeqNums /\ c.snd_nxt \in Int BY <2>1 DEF Conns, SeqNums
  <2>3. Add(c.snd_nxt, 1) \in SeqNums BY <2>2, AddType
  <2>4. {"FIN"} \in SUBSET Flags /\ {"FIN", "ACK"} \in SUBSET Flags BY DEF Flags
  <2>5. txq' \in [Slots -> Seq(TxSegs)] /\ free' \in SUBSET Blocks
    BY <1>3, <1>9, <2>1, <2>2, <2>4, EnqueueType DEF CloseGraceful
  <2>6. {tcp_send_segment(c, {"FIN", "ACK"}, c.snd_nxt, <<>>)} \in SUBSET Segments
    BY <1>3, <2>1, <2>2, <2>4, SendSegmentType
  <2>7. wire' \subseteq Segments BY <1>9, <2>6, EmitType DEF CloseGraceful
  <2>8. st \in States BY StatesType
  <2>9. conn' = [conn EXCEPT ![s] = d] BY <1>9, <2>1 DEF CloseGraceful, TypeOK
  <2> HIDE DEF st
  <2>10. d \in Conns BY <1>2, <2>1, <2>3, <2>8 DEF Conns
  <2> HIDE DEF d
  <2>11. conn' \in [Slots -> Conns] BY <2>9, <2>10 DEF TypeOK
  <2>12. QED BY <1>9, <2>5, <2>7, <2>11 DEF CloseGraceful, TypeOK
<1>10. ASSUME NEW s \in Slots, CloseHandshake(s) PROVE TypeOK'
  <2>1. conn[s] \in Conns /\ txq[s] \in Seq(TxSegs) /\ "local" \in Events BY DEF TypeOK, Events
  <2>2. tcp_free_conn(conn[s], txq[s], {}, "local") \in Results BY <2>1, FreeConnType
  <2>3. QED BY <1>10, <2>2, ApplyType DEF CloseHandshake, TypeOK
<1>11. ASSUME NEW s \in Slots, Abort(s) PROVE TypeOK'
  <2> DEFINE out == IF conn[s].state >= SYN_RCVD
                    THEN {tcp_send_segment(conn[s], {"RST"}, conn[s].snd_nxt, <<>>)} ELSE {}
  <2>1. conn[s] \in Conns /\ txq[s] \in Seq(TxSegs) /\ "local" \in Events BY DEF TypeOK, Events
  <2>2. {"RST"} \in SUBSET Flags /\ conn[s].snd_nxt \in SeqNums BY <2>1 DEF Flags, Conns
  <2>3. out \in SUBSET Segments BY <1>3, <2>1, <2>2, SendSegmentType
  <2>4. Apply(s, tcp_free_conn(conn[s], txq[s], out, "local")) BY <1>11 DEF Abort
  <2> HIDE DEF out
  <2>5. tcp_free_conn(conn[s], txq[s], out, "local") \in Results BY <2>1, <2>3, FreeConnType
  <2>6. QED BY <1>11, <2>4, <2>5, ApplyType DEF Abort, TypeOK
<1>12. QED BY <1>4, <1>5, <1>6, <1>7, <1>8, <1>9, <1>10, <1>11

\* The two loops over conn_table keep the types.
LEMMA LoopsType == ASSUME TypeOK, LinkDown \/ Periodic PROVE TypeOK'
<1>1. CASE LinkDown
  <2> DEFINE f == [s \in Slots |-> DownOf(s)]
  <2>1. f \in [Slots -> Results] BY TickType
  <2>2. /\ conn' = [s \in Slots |-> f[s].c] /\ txq' = [s \in Slots |-> f[s].q]
        /\ free' = free \cup UNION {f[s].freed : s \in Slots}
        /\ told' = [s \in Slots |-> IF f[s].ev = "none" THEN told[s] ELSE f[s].ev]
        /\ Emit(UNION {f[s].out : s \in Slots}) /\ UNCHANGED <<rx, listeners, iss_counter>>
    <3>1. \A s \in Slots : f[s] = DownOf(s) OBVIOUS
    <3>2. /\ conn' = [s \in Slots |-> DownOf(s).c] /\ txq' = [s \in Slots |-> DownOf(s).q]
          /\ free' = free \cup UNION {DownOf(s).freed : s \in Slots}
          /\ told' = [s \in Slots |-> IF DownOf(s).ev = "none" THEN told[s] ELSE DownOf(s).ev]
          /\ Emit(UNION {DownOf(s).out : s \in Slots}) /\ UNCHANGED <<rx, listeners, iss_counter>>
      BY <1>1 DEF LinkDown, ApplyAll
    <3> HIDE DEF f
    <3>3. /\ {f[s].freed : s \in Slots} = {DownOf(s).freed : s \in Slots}
          /\ {f[s].out : s \in Slots} = {DownOf(s).out : s \in Slots}
      BY <3>1, Zenon
    <3>4. QED BY <3>1, <3>2, <3>3, Zenon
  <2> HIDE DEF f
  <2>3. QED BY <2>1, <2>2, ApplyAllType
<1>2. CASE Periodic
  <2> DEFINE f == [s \in Slots |-> Tick(s)]
  <2>1. f \in [Slots -> Results] BY TickType
  <2>2. /\ conn' = [s \in Slots |-> f[s].c] /\ txq' = [s \in Slots |-> f[s].q]
        /\ free' = free \cup UNION {f[s].freed : s \in Slots}
        /\ told' = [s \in Slots |-> IF f[s].ev = "none" THEN told[s] ELSE f[s].ev]
        /\ Emit(UNION {f[s].out : s \in Slots}) /\ UNCHANGED <<rx, listeners, iss_counter>>
    <3>1. \A s \in Slots : f[s] = Tick(s) OBVIOUS
    <3>2. /\ conn' = [s \in Slots |-> Tick(s).c] /\ txq' = [s \in Slots |-> Tick(s).q]
          /\ free' = free \cup UNION {Tick(s).freed : s \in Slots}
          /\ told' = [s \in Slots |-> IF Tick(s).ev = "none" THEN told[s] ELSE Tick(s).ev]
          /\ Emit(UNION {Tick(s).out : s \in Slots}) /\ UNCHANGED <<rx, listeners, iss_counter>>
      BY <1>2 DEF Periodic, ApplyAll
    <3> HIDE DEF f
    <3>3. /\ {f[s].freed : s \in Slots} = {Tick(s).freed : s \in Slots}
          /\ {f[s].out : s \in Slots} = {Tick(s).out : s \in Slots}
      BY <3>1, Zenon
    <3>4. QED BY <3>1, <3>2, <3>3, Zenon
  <2> HIDE DEF f
  <2>3. QED BY <2>1, <2>2, ApplyAllType
<1>3. QED BY <1>1, <1>2

\* Every step keeps TypeOK.
LEMMA NextType == TypeOK /\ [Next]_vars => TypeOK'
<1> SUFFICES ASSUME TypeOK, [Next]_vars PROVE TypeOK' OBVIOUS
<1>1. ASSUME NEW g \in Inputs, Input(g) PROVE TypeOK'
  <2>1. g \in Segments BY InputsAssumption
  <2>2. QED BY <1>1, <2>1, InputConnType, InputOtherType DEF Input
<1>2. CASE LinkDown \/ Periodic BY <1>2, LoopsType
<1>3. CASE UNCHANGED vars BY <1>3 DEF vars, TypeOK
<1>4. QED BY <1>1, <1>2, <1>3, ApplicationType DEF Next

\* Type correctness: ring indices, timers, retries, queues and pool stay well
\* formed in every behaviour.
THEOREM TypeCorrect == Spec => []TypeOK
BY InitType, NextType, PTL DEF Spec
(***************************************************************************)
(* The segment pool and the receive window.                                *)
(*                                                                         *)
(* PoolOwnership is not inductive: a connection opened on a free slot      *)
(* starts with an empty queue, so a free slot must not own blocks.  And a  *)
(* handler's step is safe when what it frees and what it keeps are, with   *)
(* no overlap, exactly what the slot owned.                                *)
(***************************************************************************)
Distinct(q) == \A i, j \in 1 .. Len(q) : i # j => q[i].blk # q[j].blk
SlotOK(c, q) ==
  IF c.active THEN c.rcv_wnd = rx_free(c) /\ c.state # CLOSED ELSE q = <<>> /\ c.state = CLOSED
SlotsOK == \A s \in Slots : SlotOK(conn[s], txq[s])
PoolInv == TypeOK /\ PoolOwnership /\ SlotsOK

Conserves(q, r) ==
  /\ r.freed \cup Blks(r.q) = Blks(q)
  /\ Distinct(q) => Distinct(r.q) /\ r.freed \cap Blks(r.q) = {}

\* tcp_tx_ack splits the queue: every block is freed or kept, none both.
LEMMA TxAckConserves ==
  ASSUME NEW q \in Seq(TxSegs), NEW ack, NEW r, r.q = tcp_tx_ack(q, ack).q,
         r.freed = tcp_tx_ack(q, ack).freed
  PROVE  Conserves(q, r)
<1> DEFINE n == AckedCount(q, ack)
           k == SubSeq(q, n + 1, Len(q))
<1>1. n \in 0 .. Len(q) BY AckedCountType
<1> HIDE DEF n
<1>2. Len(k) = Len(q) - n /\ \A i \in 1 .. Len(q) - n : k[i] = q[n + i]
  BY <1>1
<1>3. r.q = k /\ r.freed = BlksOf(q, 1 .. n) BY DEF tcp_tx_ack, n
<1> HIDE DEF k
<1>4. \A x : x \in Blks(k) <=> \E i \in n + 1 .. Len(q) : x = q[i].blk
  <2>1. ASSUME NEW x, x \in Blks(k) PROVE \E i \in n + 1 .. Len(q) : x = q[i].blk
    <3>1. PICK i \in 1 .. Len(k) : x = k[i].blk BY <2>1 DEF Blks, BlksOf
    <3>2. n + i \in n + 1 .. Len(q) /\ k[i] = q[n + i] BY <1>1, <1>2
    <3>3. QED BY <3>1, <3>2
  <2>2. ASSUME NEW i \in n + 1 .. Len(q) PROVE q[i].blk \in Blks(k)
    <3>1. i - n \in 1 .. Len(k) /\ k[i - n] = q[i] BY <1>1, <1>2
    <3>2. QED BY <3>1 DEF Blks, BlksOf
  <2>3. QED BY <2>1, <2>2
<1>5. r.freed \cup Blks(k) = Blks(q)
  <2>1. \A x : x \in r.freed <=> \E i \in 1 .. n : x = q[i].blk BY <1>3 DEF BlksOf
  <2>2. \A x : x \in Blks(q) <=> \E i \in 1 .. Len(q) : x = q[i].blk BY DEF Blks, BlksOf
  <2>3. \A i : i \in 1 .. Len(q) <=> i \in 1 .. n \/ i \in n + 1 .. Len(q) BY <1>1
  <2>4. QED BY <1>4, <2>1, <2>2, <2>3
<1>6. ASSUME Distinct(q) PROVE Distinct(k) /\ r.freed \cap Blks(k) = {}
  <2>1. ASSUME NEW i \in 1 .. Len(k), NEW j \in 1 .. Len(k), i # j PROVE k[i].blk # k[j].blk
    <3>1. n + i \in 1 .. Len(q) /\ n + j \in 1 .. Len(q) /\ n + i # n + j
      BY <1>1, <1>2, <2>1
    <3>2. k[i] = q[n + i] /\ k[j] = q[n + j] BY <1>2
    <3>3. QED BY <1>6, <3>1, <3>2 DEF Distinct
  <2>2. ASSUME NEW x \in r.freed, x \in Blks(k) PROVE FALSE
    <3>1. PICK i \in 1 .. n : x = q[i].blk BY <1>3 DEF BlksOf
    <3>2. PICK j \in n + 1 .. Len(q) : x = q[j].blk BY <1>4, <2>2
    <3>3. i \in 1 .. Len(q) /\ j \in 1 .. Len(q) /\ i # j BY <1>1
    <3>4. QED BY <1>6, <3>1, <3>2, <3>3 DEF Distinct
  <2>3. QED BY <2>1, <2>2 DEF Distinct
<1>7. QED BY <1>3, <1>5, <1>6 DEF Conserves

\* A handler that frees the connection, or leaves its queue alone, conserves.
LEMMA PlainConserves ==
  ASSUME NEW q, NEW c, NEW out, NEW ev
  PROVE  Conserves(q, Result(c, q, {}, out, ev)) /\ Conserves(q, tcp_free_conn(c, q, out, ev))
<1>1. Blks(<<>>) = {} BY DEF Blks, BlksOf
<1>2. Distinct(<<>>) BY DEF Distinct
<1>3. QED BY <1>1, <1>2 DEF Conserves, Result, tcp_free_conn

\* A result that conserves its slot's blocks keeps the pool.
LEMMA ApplyPool ==
  ASSUME PoolInv, NEW s \in Slots, NEW r, Conserves(txq[s], r), SlotOK(r.c, r.q), Apply(s, r)
  PROVE  PoolOwnership' /\ SlotsOK'
<1>1. txq' = [txq EXCEPT ![s] = r.q] /\ free' = free \cup r.freed
      /\ conn' = [conn EXCEPT ![s] = r.c]
  BY DEF Apply
<1>2. txq'[s] = r.q /\ conn'[s] = r.c
      /\ \A t \in Slots : t # s => txq'[t] = txq[t] /\ conn'[t] = conn[t]
  BY <1>1 DEF PoolInv, TypeOK
<1>3. Distinct(txq[s]) BY DEF PoolInv, PoolOwnership, Distinct
<1>4. r.freed \cup Blks(r.q) = Blks(txq[s]) /\ Distinct(r.q) /\ r.freed \cap Blks(r.q) = {}
  BY <1>3 DEF Conserves
<1>5. SlotsOK' BY <1>2 DEF SlotsOK, SlotOK, PoolInv, rx_free, rx_available
<1>6. /\ \A t \in Slots : Blks(txq[t]) \cap free = {}
      /\ \A t, u \in Slots : t # u => Blks(txq[t]) \cap Blks(txq[u]) = {}
      /\ \A b \in Blocks : b \in free \/ \E t \in Slots : b \in Blks(txq[t])
  BY DEF PoolInv, PoolOwnership
<1>7. \A t \in Slots : Blks(txq'[t]) \subseteq Blks(txq[t]) BY <1>2, <1>4
<1>8. \A t \in Slots : Blks(txq'[t]) \cap free' = {}
  <2>1. TAKE t \in Slots
  <2>2. Blks(txq'[t]) \cap free = {} BY <1>6, <1>7
  <2>3. CASE t = s BY <1>1, <1>2, <1>4, <2>2, <2>3
  <2>4. CASE t # s
    <3>1. Blks(txq[t]) \cap Blks(txq[s]) = {} BY <1>6, <2>4
    <3>2. QED BY <1>1, <1>4, <1>7, <2>2, <3>1
  <2>5. QED BY <2>3, <2>4
<1>9. \A t, u \in Slots : t # u => Blks(txq'[t]) \cap Blks(txq'[u]) = {} BY <1>6, <1>7
<1>10. \A b \in Blocks : b \in free' \/ \E t \in Slots : b \in Blks(txq'[t])
  <2>1. TAKE b \in Blocks
  <2>2. CASE b \in free BY <1>1, <2>2
  <2>3. ASSUME NEW t \in Slots, b \in Blks(txq[t])
        PROVE  b \in free' \/ \E u \in Slots : b \in Blks(txq'[u])
    BY <1>1, <1>2, <1>4, <2>3
  <2>4. QED BY <1>6, <2>2, <2>3
<1>11. \A t \in Slots : Distinct(txq'[t])
  <2>1. \A t \in Slots : Distinct(txq[t]) BY DEF PoolInv, PoolOwnership, Distinct
  <2>2. QED BY <1>2, <1>4, <2>1
<1>12. PoolOwnership'
  <2>1. \A t \in Slots : \A i, j \in 1 .. Len(txq'[t]) : i # j => txq'[t][i].blk # txq'[t][j].blk
    BY <1>11 DEF Distinct
  <2>2. QED BY <1>8, <1>9, <1>10, <2>1 DEF PoolOwnership, Blks, BlksOf, Blocks
<1>13. QED BY <1>5, <1>12
\* Handlers run over every slot, f[s] being the result on s, keep the pool.
LEMMA ApplyAllPool ==
  ASSUME PoolInv, NEW f,
         conn' = [s \in Slots |-> f[s].c],
         txq' = [s \in Slots |-> f[s].q],
         free' = free \cup UNION {f[s].freed : s \in Slots},
         \A s \in Slots : Conserves(txq[s], f[s]) /\ SlotOK(f[s].c, f[s].q)
  PROVE  PoolOwnership' /\ SlotsOK'
<1>1. \A s \in Slots : txq'[s] = f[s].q /\ conn'[s] = f[s].c OBVIOUS
<1>2. \A s \in Slots : Distinct(txq[s]) BY DEF PoolInv, PoolOwnership, Distinct
<1>3. \A s \in Slots : /\ f[s].freed \cup Blks(txq'[s]) = Blks(txq[s])
                       /\ Distinct(txq'[s]) /\ f[s].freed \cap Blks(txq'[s]) = {}
  BY <1>1, <1>2 DEF Conserves
<1>4. SlotsOK' BY <1>1 DEF SlotsOK, SlotOK, rx_free, rx_available
<1>5. /\ \A t \in Slots : Blks(txq[t]) \cap free = {}
      /\ \A t, u \in Slots : t # u => Blks(txq[t]) \cap Blks(txq[u]) = {}
      /\ \A b \in Blocks : b \in free \/ \E t \in Slots : b \in Blks(txq[t])
  BY DEF PoolInv, PoolOwnership
<1>6. \A b : b \in free' <=> b \in free \/ \E t \in Slots : b \in f[t].freed OBVIOUS
<1>7. \A t \in Slots : Blks(txq'[t]) \cap free' = {}
  <2>1. ASSUME NEW t \in Slots, NEW b, b \in Blks(txq'[t]), b \in free' PROVE FALSE
    <3>1. b \in Blks(txq[t]) /\ b \notin free BY <1>3, <1>5, <2>1
    <3>2. PICK u \in Slots : b \in f[u].freed BY <1>6, <2>1, <3>1
    <3>3. b \in Blks(txq[u]) BY <1>3, <3>2
    <3>4. u = t BY <1>5, <3>1, <3>3
    <3>5. QED BY <1>3, <2>1, <3>2, <3>4
  <2>2. QED BY <2>1
<1>8. \A t, u \in Slots : t # u => Blks(txq'[t]) \cap Blks(txq'[u]) = {}
  <2>1. \A t \in Slots : Blks(txq'[t]) \subseteq Blks(txq[t]) BY <1>3
  <2>2. QED BY <1>5, <2>1
<1>9. \A b \in Blocks : b \in free' \/ \E t \in Slots : b \in Blks(txq'[t])
  BY <1>3, <1>5, <1>6
<1>10. \A t \in Slots : \A i, j \in 1 .. Len(txq'[t]) : i # j => txq'[t][i].blk # txq'[t][j].blk
  BY <1>3 DEF Distinct
<1>11. PoolOwnership' BY <1>7, <1>8, <1>9, <1>10 DEF PoolOwnership, Blks, BlksOf, Blocks
<1>12. QED BY <1>4, <1>11

\* PoolOwnership is about the queues and the pool alone.
LEMMA PoolFrame == ASSUME PoolOwnership, txq' = txq, free' = free PROVE PoolOwnership'
<1>1. /\ \A t \in Slots : Blks(txq'[t]) \cap free' = {}
      /\ \A t, u \in Slots : t # u => Blks(txq'[t]) \cap Blks(txq'[u]) = {}
      /\ \A b \in Blocks : b \in free' \/ \E t \in Slots : b \in Blks(txq'[t])
      /\ \A t \in Slots : \A i, j \in 1 .. Len(txq'[t]) :
           i # j => txq'[t][i].blk # txq'[t][j].blk
  <2>1. /\ \A t \in Slots : Blks(txq[t]) \cap free = {}
        /\ \A t, u \in Slots : t # u => Blks(txq[t]) \cap Blks(txq[u]) = {}
        /\ \A b \in Blocks : b \in free \/ \E t \in Slots : b \in Blks(txq[t])
        /\ \A t \in Slots : \A i, j \in 1 .. Len(txq[t]) : i # j => txq[t][i].blk # txq[t][j].blk
    BY DEF PoolOwnership
  <2>2. \A t \in Slots : Blks(txq'[t]) \cap free' = {} BY <2>1
  <2>3. \A t, u \in Slots : t # u => Blks(txq'[t]) \cap Blks(txq'[u]) = {} BY <2>1
  <2>4. \A b \in Blocks : b \in free' \/ \E t \in Slots : b \in Blks(txq'[t]) BY <2>1
  <2>5. \A t \in Slots : \A i, j \in 1 .. Len(txq'[t]) : i # j => txq'[t][i].blk # txq'[t][j].blk
    BY <2>1
  <2>6. QED BY <2>2, <2>3, <2>4, <2>5
<1>2. QED BY <1>1 DEF PoolOwnership, Blks, BlksOf, Blocks

\* Queueing a segment moves one block from the pool to one queue.
LEMMA EnqueuePool ==
  ASSUME PoolInv, NEW s \in Slots, NEW n, NEW fl, NEW d,
         tcp_tx_enqueue(s, txq[s], n, fl, d) \/ EnqueueOrSkip(s, txq[s], n, fl)
  PROVE  PoolOwnership' /\ \A t \in Slots : t # s => txq'[t] = txq[t]
<1>0. txq \in [Slots -> Seq(TxSegs)] /\ txq[s] \in Seq(TxSegs) BY DEF PoolInv, TypeOK
<1>1. ASSUME NEW dd, tcp_tx_enqueue(s, txq[s], n, fl, dd)
      PROVE  PoolOwnership' /\ \A t \in Slots : t # s => txq'[t] = txq[t]
  <2> DEFINE bb == CHOOSE b \in free : TRUE
             sg == [blk |-> bb, seq |-> n, data |-> dd, flags |-> fl]
             q == Append(txq[s], sg)
  <2>1. bb \in free /\ free' = free \ {bb} /\ txq' = [txq EXCEPT ![s] = q]
    BY <1>1 DEF tcp_tx_enqueue
  <2> HIDE DEF bb
  <2>2. sg.blk = bb OBVIOUS
  <2> HIDE DEF sg
  <2>3. /\ Len(q) = Len(txq[s]) + 1 /\ q[Len(txq[s]) + 1] = sg
        /\ \A i \in 1 .. Len(txq[s]) : q[i] = txq[s][i]
    BY <1>0
  <2>4. txq'[s] = q /\ \A t \in Slots : t # s => txq'[t] = txq[t] BY <1>0, <2>1
  <2> HIDE DEF q
  <2>4a. Len(txq[s]) \in Nat BY <1>0
  <2>5. Blks(q) = Blks(txq[s]) \cup {bb}
    <3>1. \A x : x \in Blks(q) <=> \E i \in 1 .. Len(q) : x = q[i].blk BY DEF Blks, BlksOf
    <3>2. \A x : x \in Blks(txq[s]) <=> \E i \in 1 .. Len(txq[s]) : x = txq[s][i].blk
      BY DEF Blks, BlksOf
    <3>3. \A i : i \in 1 .. Len(q) <=> i \in 1 .. Len(txq[s]) \/ i = Len(txq[s]) + 1
      BY <2>3, <2>4a
    <3>4. QED BY <2>2, <2>3, <3>1, <3>2, <3>3
  <2>6. /\ \A t \in Slots : Blks(txq[t]) \cap free = {}
        /\ \A t, u \in Slots : t # u => Blks(txq[t]) \cap Blks(txq[u]) = {}
        /\ \A b \in Blocks : b \in free \/ \E t \in Slots : b \in Blks(txq[t])
        /\ \A t \in Slots : Distinct(txq[t])
    BY DEF PoolInv, PoolOwnership, Distinct
  <2>7. Distinct(q)
    <3>1. ASSUME NEW i \in 1 .. Len(q), NEW j \in 1 .. Len(q), i # j, i \in 1 .. Len(txq[s])
          PROVE  q[i].blk # q[j].blk
      <4>1. q[i] = txq[s][i] /\ q[i].blk \in Blks(txq[s]) BY <2>3, <3>1 DEF Blks, BlksOf
      <4>2. CASE j \in 1 .. Len(txq[s]) BY <2>3, <2>6, <3>1, <4>1, <4>2 DEF Distinct
      <4>3. CASE j = Len(txq[s]) + 1 BY <2>1, <2>2, <2>3, <2>6, <4>1, <4>3
      <4>4. QED BY <2>3, <2>4a, <4>2, <4>3
    <3>2. \A i \in 1 .. Len(q) : i \in 1 .. Len(txq[s]) \/ i = Len(txq[s]) + 1 BY <2>3, <2>4a
    <3>3. SUFFICES ASSUME NEW i \in 1 .. Len(q), NEW j \in 1 .. Len(q), i # j
                   PROVE  q[i].blk # q[j].blk
      BY DEF Distinct
    <3>4. i \in 1 .. Len(txq[s]) \/ j \in 1 .. Len(txq[s]) BY <3>2, <3>3
    <3>5. QED BY <3>1, <3>3, <3>4
  <2>8. \A t \in Slots : Blks(txq'[t]) \cap free' = {} BY <2>1, <2>4, <2>5, <2>6
  <2>9. \A t, u \in Slots : t # u => Blks(txq'[t]) \cap Blks(txq'[u]) = {}
    BY <2>1, <2>4, <2>5, <2>6
  <2>10. \A b \in Blocks : b \in free' \/ \E t \in Slots : b \in Blks(txq'[t])
    BY <2>1, <2>4, <2>5, <2>6
  <2>11. \A t \in Slots : \A i, j \in 1 .. Len(txq'[t]) :
           i # j => txq'[t][i].blk # txq'[t][j].blk
    BY <2>4, <2>6, <2>7 DEF Distinct
  <2>12. PoolOwnership' BY <2>8, <2>9, <2>10, <2>11 DEF PoolOwnership, Blks, BlksOf, Blocks
  <2>13. QED BY <2>4, <2>12
<1>2. CASE free = {} /\ txq' = [txq EXCEPT ![s] = txq[s]] /\ UNCHANGED free
  <2>1. txq' = txq BY <1>0, <1>2
  <2>2. PoolOwnership /\ free' = free BY <1>2 DEF PoolInv
  <2>3. QED BY <2>1, <2>2, PoolFrame
<1>3. QED BY <1>1, <1>2 DEF EnqueueOrSkip

(***************************************************************************)
(* Each handler leaves its slot in order.                                  *)
(***************************************************************************)
\* Free space depends on the ring's two indices alone.
LEMMA RxFreeFrame ==
  ASSUME NEW c, NEW d, c.rx_head = d.rx_head, c.rx_tail = d.rx_tail PROVE rx_free(c) = rx_free(d)
BY DEF rx_free, rx_available

\* A freed connection is inactive, its queue empty.
LEMMA FreeSlotOK ==
  ASSUME NEW c, NEW q, NEW out, NEW ev, NEW r, r = tcp_free_conn(c, q, out, ev)
  PROVE  SlotOK(r.c, r.q)
<1>1. Freed(c).active = FALSE /\ Freed(c).state = CLOSED BY DEF Freed, ZeroConn
<1>2. QED BY <1>1 DEF tcp_free_conn, Result, SlotOK

\* A freshly opened connection advertises its whole, empty ring.
LEMMA OpenSlotOK ==
  ASSUME NEW st, NEW r, NEW p, NEW cb, NEW m, NEW iss, NEW rcv, NEW q, st # CLOSED
  PROVE  SlotOK(OpenConn(st, r, p, cb, m, iss, rcv), q)
<1> DEFINE c == OpenConn(st, r, p, cb, m, iss, rcv)
<1>1. c.active = TRUE /\ c.rcv_wnd = RX_BUF_SIZE - 1 /\ c.rx_head = 0 /\ c.rx_tail = 0
      /\ c.state = st
  BY DEF OpenConn, ZeroConn
<1> HIDE DEF c
<1>2. SlotOK(c, q) BY <1>1, SizesAssumption DEF SlotOK, rx_free, rx_available
<1>3. QED BY <1>2 DEF c

\* tcp_process, sections 5 to 7, leaves the window equal to the free space.
LEMMA AcceptedSlotOK ==
  ASSUME NEW c \in Conns, NEW q \in Seq(TxSegs), NEW g \in Segments, c.active, SlotOK(c, q),
         NEW r, r = Accepted(c, q, g)
  PROVE  SlotOK(r.c, r.q) /\ Conserves(q, r)
<1> DEFINE x == AckConn(c, g)
           d == DataConn(x, g)
           f == FinConn(d, g)
           t == AckQueue(c, q, g)
<1>1. x \in Conns BY AckConnType
<1>2. d \in Conns BY <1>1, DataConnType
<1>3. x.active = c.active /\ x.rcv_wnd = c.rcv_wnd /\ x.rx_head = c.rx_head /\ x.rx_tail = c.rx_tail
  BY DEF AckConn, AckedConn, TimersAfterAck, EnterTimeWait, Conns
<1>3a. x.state # CLOSED
  BY DEF SlotOK, AckConn, AckedConn, TimersAfterAck, EnterTimeWait, Conns, CLOSED, SYN_RCVD,
         ESTABLISHED, FIN_WAIT_1, FIN_WAIT_2, CLOSING, TIME_WAIT
<1> HIDE DEF x
<1>4. x.active /\ x.rcv_wnd = rx_free(x) BY <1>3, RxFreeFrame DEF SlotOK
<1>4a. d.state = x.state BY <1>1 DEF DataConn, WrittenConn, Conns
<1>5. d.active /\ d.rcv_wnd = rx_free(d)
  <2> DEFINE w == WrittenConn(x, Accept(x, g))
  <2>1. w.active = x.active BY <1>1 DEF WrittenConn, Conns
  <2>2. rx_free([w EXCEPT !.rcv_wnd = rx_free(w)]) = rx_free(w)
    <3>1. w.rx_head = (x.rx_head + Accept(x, g)) % RX_BUF_SIZE /\ w.rx_tail = x.rx_tail
      BY <1>1 DEF WrittenConn, Conns
    <3>2. \A n : [w EXCEPT !.rcv_wnd = n].rx_head = w.rx_head
               /\ [w EXCEPT !.rcv_wnd = n].rx_tail = w.rx_tail
      BY <1>1 DEF WrittenConn, Conns
    <3> HIDE DEF w
    <3>3. QED BY <3>2, RxFreeFrame
  <2>3. \A n : [w EXCEPT !.rcv_wnd = n].rcv_wnd = n /\ [w EXCEPT !.rcv_wnd = n].active = w.active
    BY <1>1 DEF WrittenConn, Conns
  <2> HIDE DEF w
  <2>4. QED BY <1>4, <2>1, <2>2, <2>3 DEF DataConn, w
<1> HIDE DEF d
<1>5a. f.state # CLOSED
  <2> DEFINE e == [d EXCEPT !.rcv_nxt = Add(@, 1), !.rcv_wnd = rx_free(d)]
  <2>1. e.state = d.state /\ \A s : [e EXCEPT !.state = s].state = s BY <1>2 DEF Conns
  <2>2. EnterTimeWait(e).state = TIME_WAIT BY <1>2 DEF EnterTimeWait, Conns
  <2> HIDE DEF e
  <2>3. QED BY <1>3a, <1>4a, <2>1, <2>2 DEF FinConn, e, CLOSED, CLOSE_WAIT, CLOSING, TIME_WAIT
<1>6. f.active /\ f.rcv_wnd = rx_free(f)
  <2>1. f.active = d.active /\ f.rx_head = d.rx_head /\ f.rx_tail = d.rx_tail
    BY <1>2 DEF FinConn, EnterTimeWait, Conns
  <2>2. f.rcv_wnd = d.rcv_wnd \/ f.rcv_wnd = rx_free(d) BY <1>2 DEF FinConn, EnterTimeWait, Conns
  <2> HIDE DEF f
  <2>3. rx_free(f) = rx_free(d) BY <2>1, RxFreeFrame
  <2>4. QED BY <1>5, <2>1, <2>2, <2>3
<1>7. r.c = f /\ r.q = t.q /\ r.freed = t.freed BY DEF Accepted, Result, x, d
<1> HIDE DEF f
<1>8. SlotOK(r.c, r.q) BY <1>5a, <1>6, <1>7 DEF SlotOK
<1>9. Conserves(q, r)
  <2>1. CASE "ACK" \in g.flags /\ AckTakes(c, g)
    <3>1. t = tcp_tx_ack(q, g.ack) BY <2>1 DEF AckQueue
    <3> HIDE DEF t
    <3>2. QED BY <1>7, <3>1, TxAckConserves
  <2>2. CASE ~("ACK" \in g.flags /\ AckTakes(c, g))
    <3>1. t.q = q /\ t.freed = {} BY <2>2 DEF AckQueue
    <3> HIDE DEF t
    <3>2. QED BY <1>7, <3>1 DEF Conserves
  <2>3. QED BY <2>1, <2>2
<1>10. QED BY <1>8, <1>9
\* The timer handler and link_down.
LEMMA TickSlotOK ==
  ASSUME PoolInv, NEW s \in Slots
  PROVE  /\ SlotOK(Tick(s).c, Tick(s).q) /\ Conserves(txq[s], Tick(s))
         /\ SlotOK(DownOf(s).c, DownOf(s).q) /\ Conserves(txq[s], DownOf(s))
<1> DEFINE c == conn[s]
           q == txq[s]
           Good(r) == SlotOK(r.c, r.q) /\ Conserves(q, r)
<1>1. c \in Conns /\ SlotOK(c, q) BY DEF PoolInv, TypeOK, SlotsOK
<1> HIDE DEF c, q
<1>2. \A ev : Good(tcp_free_conn(c, q, {}, ev)) BY FreeSlotOK, PlainConserves
<1>3. ASSUME NEW d, NEW out, c.active, d.active = c.active, d.rcv_wnd = c.rcv_wnd,
             d.rx_head = c.rx_head, d.rx_tail = c.rx_tail, d.state = c.state
      PROVE  Good(Result(d, q, {}, out, "none"))
  <2>1. SlotOK(d, q) BY <1>1, <1>3, RxFreeFrame DEF SlotOK
  <2>2. QED BY <2>1, PlainConserves DEF Result
<1>4. Good(Untouched(s)) BY <1>1, PlainConserves DEF Untouched, Result, c, q
<1>5. c.active => Good(TimeWaitTick(s, c))
  <2>1. \A n : LET d == [c EXCEPT !.tw_counter = n]
              IN  /\ d.active = c.active /\ d.rcv_wnd = c.rcv_wnd
                  /\ d.rx_head = c.rx_head /\ d.rx_tail = c.rx_tail /\ d.state = c.state
    BY <1>1 DEF Conns
  <2>2. \A n : c.active => Good(Result([c EXCEPT !.tw_counter = n], q, {}, {}, "none"))
    BY <1>3, <2>1
  <2> HIDE DEF Good
  <2>3. QED BY <1>2, <2>2 DEF TimeWaitTick, q
<1>6. c.active => Good(IdleTick(s, c)) /\ Good(Result([c EXCEPT !.idle_counter = 0], q, {}, {}, "none"))
  <2>1. \A n : LET d == [c EXCEPT !.idle_counter = n]
              IN  /\ d.active = c.active /\ d.rcv_wnd = c.rcv_wnd
                  /\ d.rx_head = c.rx_head /\ d.rx_tail = c.rx_tail /\ d.state = c.state
    BY <1>1 DEF Conns
  <2>2. \A n : c.active => Good(Result([c EXCEPT !.idle_counter = n], q, {}, {}, "none"))
    BY <1>3, <2>1
  <2> HIDE DEF Good
  <2>3. QED BY <1>2, <2>2 DEF IdleTick, q
<1>7. c.active => Good(RtoTick(s, c))
  <2>2. \A n, k : LET d == [c EXCEPT !.idle_counter = n, !.rto_counter = k]
                 IN  /\ d.active = c.active /\ d.rcv_wnd = c.rcv_wnd
                     /\ d.rx_head = c.rx_head /\ d.rx_tail = c.rx_tail /\ d.state = c.state
    BY <1>1 DEF Conns
  <2>3. ASSUME NEW n, NEW k, NEW m, NEW u, NEW out, c.active
        PROVE  Good(Result([c EXCEPT !.idle_counter = n, !.rto_counter = k, !.retries = m,
                                     !.rto_ticks = u], q, {}, out, "none"))
    <3> DEFINE d == [c EXCEPT !.idle_counter = n, !.rto_counter = k, !.retries = m,
                              !.rto_ticks = u]
    <3>1. /\ d.active = c.active /\ d.rcv_wnd = c.rcv_wnd
          /\ d.rx_head = c.rx_head /\ d.rx_tail = c.rx_tail /\ d.state = c.state
      BY <1>1 DEF Conns
    <3> HIDE DEF d, Good
    <3>2. Good(Result(d, q, {}, out, "none")) BY <1>3, <2>3, <3>1
    <3>3. QED BY <3>2 DEF d
  <2>4. \A n, k, out : c.active =>
          Good(Result([c EXCEPT !.idle_counter = n, !.rto_counter = k], q, {}, out, "none"))
    BY <1>3, <2>2
  <2> HIDE DEF Good
  <2>5. QED BY <1>2, <2>3, <2>4 DEF RtoTick, q
<1> HIDE DEF Good
<1>8. Good(Tick(s)) BY <1>4, <1>5, <1>6, <1>7 DEF Tick, c, q
<1>9. Good(DownOf(s)) BY <1>2, <1>4 DEF DownOf, c, q
<1>10. QED BY <1>8, <1>9 DEF Good, q

\* A segment for an existing connection keeps the pool and the window.
LEMMA InputConnPool ==
  ASSUME PoolInv, NEW g \in Segments, InputConn(g) PROVE PoolOwnership' /\ SlotsOK'
<1> PICK s \in Slots :
      /\ IsConnOf(s, g)
      /\ \/ InputReset(s, g) \/ InputSynAck(s, g) \/ InputSynSyn(s, g)
         \/ InputSynDrop(s, g) \/ InputOutOfOrder(s, g) \/ InputBadSyn(s, g)
         \/ InputLastAck(s, g) \/ InputAccept(s, g)
  BY DEF InputConn
<1> DEFINE c == Known(s, g)
           q == txq[s]
<1>1. c \in Conns /\ q \in Seq(TxSegs) /\ conn[s] \in Conns BY KnownType DEF PoolInv, TypeOK
<1>2. conn[s].active /\ SlotOK(conn[s], q) BY DEF IsConnOf, Matches, PoolInv, SlotsOK
<1>3. c.active = conn[s].active /\ c.rcv_wnd = conn[s].rcv_wnd
      /\ c.rx_head = conn[s].rx_head /\ c.rx_tail = conn[s].rx_tail /\ c.state = conn[s].state
  BY <1>1 DEF Known, Conns
<1> HIDE DEF c, q
<1>4. c.active /\ SlotOK(c, q) BY <1>2, <1>3, RxFreeFrame DEF SlotOK
<1>5. ASSUME NEW d, d.active = c.active, d.rcv_wnd = c.rcv_wnd, d.rx_head = c.rx_head,
             d.rx_tail = c.rx_tail, d.state # CLOSED
      PROVE  \A k : SlotOK(d, k)
  <2>1. rx_free(d) = rx_free(c) BY <1>5, RxFreeFrame
  <2>2. QED BY <1>4, <1>5, <2>1 DEF SlotOK
<1>6. \A d, out, ev : SlotOK(tcp_free_conn(d, q, out, ev).c, tcp_free_conn(d, q, out, ev).q)
                     /\ Conserves(q, tcp_free_conn(d, q, out, ev))
  BY FreeSlotOK, PlainConserves
<1>7. CASE InputReset(s, g) BY <1>6, <1>7, ApplyPool DEF InputReset, q
<1>8. CASE InputSynAck(s, g)
  <2> DEFINE d == [c EXCEPT !.rcv_nxt = Add(g.seq, 1), !.snd_una = g.ack,
                            !.state = ESTABLISHED, !.rto_ticks = RTO_INIT,
                            !.rto_counter = 0, !.retries = 0]
             t == tcp_tx_ack(q, g.ack)
             r == Result(d, t.q, t.freed, {PlainAck(d)}, Event(c, "CONNECTED"))
  <2>1. d.active = c.active /\ d.rcv_wnd = c.rcv_wnd /\ d.rx_head = c.rx_head
        /\ d.rx_tail = c.rx_tail /\ d.state # CLOSED
    BY <1>1 DEF Conns, CLOSED, ESTABLISHED
  <2>2. Apply(s, r) BY <1>8 DEF InputSynAck, c, q
  <2> HIDE DEF d
  <2>3. r.q = t.q /\ r.freed = t.freed BY DEF Result
  <2>4. SlotOK(r.c, r.q) BY <1>5, <2>1 DEF Result
  <2> HIDE DEF r
  <2>5. Conserves(q, r) BY <1>1, <2>3, TxAckConserves
  <2>6. QED BY <2>2, <2>4, <2>5, ApplyPool DEF q
<1>9. CASE InputSynSyn(s, g)
  <2> DEFINE d == [c EXCEPT !.rcv_nxt = Add(g.seq, 1), !.state = SYN_RCVD]
             r == Result(d, q, {}, {tcp_send_segment(d, {"SYN", "ACK"}, d.snd_una, <<>>)}, "none")
  <2>1. d.active = c.active /\ d.rcv_wnd = c.rcv_wnd /\ d.rx_head = c.rx_head
        /\ d.rx_tail = c.rx_tail /\ d.state # CLOSED
    BY <1>1 DEF Conns, CLOSED, SYN_RCVD
  <2>2. Apply(s, r) BY <1>9 DEF InputSynSyn, c, q
  <2> HIDE DEF d
  <2>3. SlotOK(r.c, r.q) /\ Conserves(q, r) BY <1>5, <2>1, PlainConserves DEF Result
  <2> HIDE DEF r
  <2>4. QED BY <2>2, <2>3, ApplyPool DEF q
<1>10. CASE InputSynDrop(s, g)
  <2> DEFINE r == Result(c, q, {}, {}, "none")
  <2>1. Apply(s, r) BY <1>10 DEF InputSynDrop, c, q
  <2>2. SlotOK(r.c, r.q) /\ Conserves(q, r) BY <1>4, PlainConserves DEF Result
  <2> HIDE DEF r
  <2>3. QED BY <2>1, <2>2, ApplyPool DEF q
<1>11. CASE InputOutOfOrder(s, g)
  <2> DEFINE r == Result(c, q, {}, {PlainAck(c)}, "none")
  <2>1. Apply(s, r) BY <1>11 DEF InputOutOfOrder, c, q
  <2>2. SlotOK(r.c, r.q) /\ Conserves(q, r) BY <1>4, PlainConserves DEF Result
  <2> HIDE DEF r
  <2>3. QED BY <2>1, <2>2, ApplyPool DEF q
<1>12. CASE InputBadSyn(s, g) BY <1>6, <1>12, ApplyPool DEF InputBadSyn, c, q
<1>13. CASE InputLastAck(s, g) BY <1>6, <1>13, ApplyPool DEF InputLastAck, c, q
<1>14. CASE InputAccept(s, g)
  <2>1. Apply(s, Accepted(c, q, g)) BY <1>14 DEF InputAccept, c, q
  <2>2. SlotOK(Accepted(c, q, g).c, Accepted(c, q, g).q) /\ Conserves(q, Accepted(c, q, g))
    BY <1>1, <1>4, AcceptedSlotOK
  <2>3. QED BY <2>1, <2>2, ApplyPool DEF q
<1>15. QED BY <1>7, <1>8, <1>9, <1>10, <1>11, <1>12, <1>13, <1>14
\* When nothing the pool or the window depends on changes, both are kept.
LEMMA FramePool ==
  ASSUME PoolInv, UNCHANGED <<conn, txq, free>> PROVE PoolOwnership' /\ SlotsOK'
<1>1. SlotsOK' BY DEF PoolInv, SlotsOK, SlotOK, rx_free, rx_available
<1>2. QED BY <1>1, PoolFrame DEF PoolInv

\* Opening a connection on a free slot, actively or passively.
LEMMA OpenPool ==
  ASSUME PoolInv, NEW s \in Slots, IsFreeSlot(s), NEW n, NEW fl, EnqueueOrSkip(s, <<>>, n, fl),
         NEW c, \A q : SlotOK(c, q), conn' = [conn EXCEPT ![s] = c]
  PROVE  PoolOwnership' /\ SlotsOK'
<1>1. txq[s] = <<>> BY DEF IsFreeSlot, PoolInv, SlotsOK, SlotOK
<1>2. EnqueueOrSkip(s, txq[s], n, fl) BY <1>1
<1>3. PoolOwnership' /\ \A t \in Slots : t # s => txq'[t] = txq[t] BY <1>2, EnqueuePool
<1>4. \A t \in Slots : SlotOK(conn'[t], txq'[t])
  BY <1>3 DEF PoolInv, TypeOK, SlotsOK
<1>5. SlotsOK' BY <1>4 DEF SlotsOK, SlotOK, rx_free, rx_available
<1>6. QED BY <1>3, <1>5

\* Each call of the application keeps the pool and the window.
LEMMA ApplicationPool ==
  ASSUME PoolInv,
         \/ \E p \in Ports : Listen(p) \/ Unlisten(p)
         \/ \E r \in Remotes, p \in Ports : Connect(r, p) \/ ConnectFails(r, p)
         \/ \E s \in Slots : \/ \E d \in Payloads : Send(s, d)
                             \/ \E n \in ReadSizes : Read(s, n)
                             \/ CloseGraceful(s) \/ CloseHandshake(s) \/ Abort(s)
  PROVE  PoolOwnership' /\ SlotsOK'
<1>0. /\ conn \in [Slots -> Conns] /\ txq \in [Slots -> Seq(TxSegs)]
      /\ \A s \in Slots : SlotOK(conn[s], txq[s])
  BY DEF PoolInv, TypeOK, SlotsOK
<1>1. ASSUME NEW p, Listen(p) \/ Unlisten(p) PROVE PoolOwnership' /\ SlotsOK'
  BY <1>1, FramePool DEF Listen, Unlisten
<1>2. ASSUME NEW r, NEW p, Connect(r, p) PROVE PoolOwnership' /\ SlotsOK'
  <2> DEFINE c == OpenConn(SYN_SENT, r, p, TRUE, MSS, tcp_gen_iss, 0)
  <2>1. PICK s \in Slots : /\ IsFreeSlot(s) /\ EnqueueOrSkip(s, <<>>, tcp_gen_iss, {"SYN"})
                           /\ conn' = [conn EXCEPT ![s] = c]
    BY <1>2 DEF Connect
  <2>1a. SYN_SENT # CLOSED BY DEF SYN_SENT, CLOSED
  <2>2. \A q : SlotOK(c, q) BY <2>1a, OpenSlotOK
  <2> HIDE DEF c
  <2>3. QED BY <2>1, <2>2, OpenPool
<1>3. ASSUME NEW r, NEW p, ConnectFails(r, p) PROVE PoolOwnership' /\ SlotsOK'
  <2> DEFINE c == Freed(OpenConn(SYN_SENT, r, p, TRUE, MSS, 0, 0))
  <2>1. PICK s \in Slots : IsFreeSlot(s) /\ conn' = [conn EXCEPT ![s] = c] /\ UNCHANGED <<txq, free>>
    BY <1>3 DEF ConnectFails
  <2>2. c.active = FALSE /\ c.state = CLOSED BY DEF Freed, ZeroConn
  <2> HIDE DEF c
  <2>3. txq[s] = <<>> BY <1>0, <2>1 DEF IsFreeSlot, SlotOK
  <2>4. \A t \in Slots : SlotOK(conn'[t], txq'[t]) BY <1>0, <2>1, <2>2, <2>3 DEF SlotOK
  <2>5. SlotsOK' BY <2>4 DEF SlotsOK, SlotOK, rx_free, rx_available
  <2>6. QED BY <2>1, <2>5, PoolFrame DEF PoolInv
<1>4. ASSUME NEW s \in Slots, NEW c, conn' = [conn EXCEPT ![s] = c], c.active = conn[s].active,
             c.rcv_wnd = conn[s].rcv_wnd, c.rx_head = conn[s].rx_head, c.rx_tail = conn[s].rx_tail,
             c.state # CLOSED, conn[s].active, \A t \in Slots : t # s => txq'[t] = txq[t]
      PROVE  SlotsOK'
  <2>1. \A k : SlotOK(c, k) BY <1>0, <1>4, RxFreeFrame DEF SlotOK
  <2>2. \A t \in Slots : SlotOK(conn'[t], txq'[t]) BY <1>0, <1>4, <2>1
  <2>3. QED BY <2>2 DEF SlotsOK, SlotOK, rx_free, rx_available
<1>5. ASSUME NEW s \in Slots, NEW d \in Payloads, Send(s, d) PROVE PoolOwnership' /\ SlotsOK'
  <2> DEFINE c == [conn[s] EXCEPT !.snd_nxt = Add(conn[s].snd_nxt, Len(d)),
                                  !.rto_counter = 0, !.retries = 0]
  <2>1. conn' = [conn EXCEPT ![s] = c] BY <1>0, <1>5 DEF Send
  <2>2. c.active = conn[s].active /\ c.rcv_wnd = conn[s].rcv_wnd
        /\ c.rx_head = conn[s].rx_head /\ c.rx_tail = conn[s].rx_tail
    BY <1>0 DEF Conns
  <2>3. PoolOwnership' /\ \A t \in Slots : t # s => txq'[t] = txq[t]
    BY <1>5, EnqueuePool DEF Send
  <2>4. conn[s].active /\ c.state # CLOSED
    <3>0. conn[s].state \in {ESTABLISHED, CLOSE_WAIT} BY <1>5 DEF Send
    <3>1. conn[s].state # CLOSED BY <3>0 DEF ESTABLISHED, CLOSE_WAIT, CLOSED
    <3>2. c.state = conn[s].state BY <1>0 DEF Conns
    <3>3. QED BY <1>0, <3>1, <3>2 DEF SlotOK
  <2> HIDE DEF c
  <2>5. QED BY <1>4, <2>1, <2>2, <2>3, <2>4
<1>6. ASSUME NEW s \in Slots, NEW n \in ReadSizes, Read(s, n) PROVE PoolOwnership' /\ SlotsOK'
  <2> DEFINE c == conn[s]
             t == [c EXCEPT !.rx_tail = (c.rx_tail + ReadLen(c, n)) % RX_BUF_SIZE]
             d == [t EXCEPT !.rcv_wnd = rx_free(t)]
  <2>1. conn' = [conn EXCEPT ![s] = d] /\ UNCHANGED <<txq, free>>
    BY <1>6 DEF Read, ReadConn
  <2>2. d.active = c.active /\ d.state = c.state /\ d.rx_head = t.rx_head /\ d.rx_tail = t.rx_tail
        /\ d.rcv_wnd = rx_free(t)
    BY <1>0 DEF Conns
  <2> HIDE DEF t, d
  <2>3. rx_free(d) = rx_free(t) BY <2>2, RxFreeFrame
  <2>4. SlotOK(d, txq[s]) BY <1>0, <2>2, <2>3 DEF SlotOK
  <2>5. \A u \in Slots : SlotOK(conn'[u], txq'[u]) BY <1>0, <2>1, <2>4
  <2>6. SlotsOK' BY <2>5 DEF SlotsOK, SlotOK, rx_free, rx_available
  <2>7. QED BY <2>1, <2>6, PoolFrame DEF PoolInv
<1>7. ASSUME NEW s \in Slots, CloseGraceful(s) PROVE PoolOwnership' /\ SlotsOK'
  <2> DEFINE st == IF conn[s].state = ESTABLISHED THEN FIN_WAIT_1 ELSE LAST_ACK
             c == [conn[s] EXCEPT !.snd_nxt = Add(conn[s].snd_nxt, 1), !.state = st,
                                  !.rto_counter = 0, !.retries = 0]
  <2>1. conn' = [conn EXCEPT ![s] = c] BY <1>0, <1>7 DEF CloseGraceful
  <2>2. c.active = conn[s].active /\ c.rcv_wnd = conn[s].rcv_wnd /\ c.state = st
        /\ c.rx_head = conn[s].rx_head /\ c.rx_tail = conn[s].rx_tail
    BY <1>0 DEF Conns
  <2>3. PoolOwnership' /\ \A t \in Slots : t # s => txq'[t] = txq[t]
    BY <1>7, EnqueuePool DEF CloseGraceful
  <2>4. conn[s].active /\ c.state # CLOSED
    <3>0. conn[s].state \in {ESTABLISHED, CLOSE_WAIT} BY <1>7 DEF CloseGraceful
    <3>1. conn[s].state # CLOSED BY <3>0 DEF ESTABLISHED, CLOSE_WAIT, CLOSED
    <3>2. st # CLOSED BY DEF FIN_WAIT_1, LAST_ACK, CLOSED
    <3>3. QED BY <1>0, <2>2, <3>1, <3>2 DEF SlotOK
  <2> HIDE DEF c
  <2>5. QED BY <1>4, <2>1, <2>2, <2>3, <2>4
<1>8. ASSUME NEW s \in Slots, CloseHandshake(s) \/ Abort(s) PROVE PoolOwnership' /\ SlotsOK'
  <2>1. PICK out : Apply(s, tcp_free_conn(conn[s], txq[s], out, "local"))
    BY <1>8 DEF CloseHandshake, Abort
  <2> DEFINE r == tcp_free_conn(conn[s], txq[s], out, "local")
  <2>2. SlotOK(r.c, r.q) /\ Conserves(txq[s], r) BY FreeSlotOK, PlainConserves
  <2> HIDE DEF r
  <2>3. QED BY <2>1, <2>2, ApplyPool DEF r
<1>9. QED BY <1>1, <1>2, <1>3, <1>5, <1>6, <1>7, <1>8

\* Every step keeps PoolInv.
LEMMA NextPool == PoolInv /\ [Next]_vars => PoolInv'
<1> SUFFICES ASSUME PoolInv, [Next]_vars PROVE PoolInv' OBVIOUS
<1>1. TypeOK' BY NextType DEF PoolInv
<1>2. ASSUME NEW g \in Inputs, Input(g) PROVE PoolOwnership' /\ SlotsOK'
  <2>1. g \in Segments BY InputsAssumption
  <2>2. CASE InputConn(g) BY <2>1, <2>2, InputConnPool
  <2>3. CASE InputListen(g)
    <3> DEFINE c == OpenConn(SYN_RCVD, g.remote, g.port, g.port # 0,
                             ClampMss(g.mss), tcp_gen_iss, Add(g.seq, 1))
    <3>1. PICK s \in Slots : /\ IsFreeSlot(s)
                             /\ EnqueueOrSkip(s, <<>>, tcp_gen_iss, {"SYN", "ACK"})
                             /\ conn' = [conn EXCEPT ![s] = c]
      BY <2>3 DEF InputListen
    <3>1a. SYN_RCVD # CLOSED BY DEF SYN_RCVD, CLOSED
    <3>2. \A q : SlotOK(c, q) BY <3>1a, OpenSlotOK
    <3> HIDE DEF c
    <3>3. QED BY <3>1, <3>2, OpenPool
  <2>4. CASE InputDropped(g) BY <2>4, FramePool DEF InputDropped, vars
  <2>5. CASE InputStray(g) BY <2>5, FramePool DEF InputStray
  <2>6. QED BY <1>2, <2>2, <2>3, <2>4, <2>5 DEF Input
<1>3. CASE LinkDown
  <2> DEFINE f == [s \in Slots |-> DownOf(s)]
  <2>1. \A s \in Slots : f[s] = DownOf(s) OBVIOUS
  <2>2. /\ conn' = [s \in Slots |-> DownOf(s).c] /\ txq' = [s \in Slots |-> DownOf(s).q]
        /\ free' = free \cup UNION {DownOf(s).freed : s \in Slots}
    BY <1>3 DEF LinkDown, ApplyAll
  <2> HIDE DEF f
  <2>3. {f[s].freed : s \in Slots} = {DownOf(s).freed : s \in Slots} BY <2>1, Zenon
  <2>4. conn' = [s \in Slots |-> f[s].c] /\ txq' = [s \in Slots |-> f[s].q]
        /\ free' = free \cup UNION {f[s].freed : s \in Slots}
    BY <2>1, <2>2, <2>3, Zenon
  <2>5. \A s \in Slots : Conserves(txq[s], f[s]) /\ SlotOK(f[s].c, f[s].q)
    BY <2>1, TickSlotOK, Zenon
  <2>6. QED BY <2>4, <2>5, ApplyAllPool, <1>1 DEF PoolInv
<1>4. CASE Periodic
  <2> DEFINE f == [s \in Slots |-> Tick(s)]
  <2>1. \A s \in Slots : f[s] = Tick(s) OBVIOUS
  <2>2. /\ conn' = [s \in Slots |-> Tick(s).c] /\ txq' = [s \in Slots |-> Tick(s).q]
        /\ free' = free \cup UNION {Tick(s).freed : s \in Slots}
    BY <1>4 DEF Periodic, ApplyAll
  <2> HIDE DEF f
  <2>3. {f[s].freed : s \in Slots} = {Tick(s).freed : s \in Slots} BY <2>1, Zenon
  <2>4. conn' = [s \in Slots |-> f[s].c] /\ txq' = [s \in Slots |-> f[s].q]
        /\ free' = free \cup UNION {f[s].freed : s \in Slots}
    BY <2>1, <2>2, <2>3, Zenon
  <2>5. \A s \in Slots : Conserves(txq[s], f[s]) /\ SlotOK(f[s].c, f[s].q)
    BY <2>1, TickSlotOK, Zenon
  <2>6. QED BY <2>4, <2>5, ApplyAllPool, <1>1 DEF PoolInv
<1>5. CASE UNCHANGED vars BY <1>1, <1>5, FramePool DEF vars, PoolInv
<1>6. QED BY <1>1, <1>2, <1>3, <1>4, <1>5, ApplicationPool DEF Next, PoolInv

\* tiku_kits_net_tcp_init establishes it.
LEMMA InitPool == Init => PoolInv
<1> SUFFICES ASSUME Init PROVE PoolInv OBVIOUS
<1>1. TypeOK BY InitType
<1>2. \A s \in Slots : txq[s] = <<>> /\ conn[s] = ZeroConn BY DEF Init
<1>3. Blks(<<>>) = {} BY DEF Blks, BlksOf
<1>4. PoolOwnership BY <1>2, <1>3 DEF PoolOwnership, Init
<1>5. ZeroConn.active = FALSE /\ ZeroConn.state = CLOSED BY DEF ZeroConn
<1>6. SlotsOK BY <1>2, <1>5 DEF SlotsOK, SlotOK
<1>7. QED BY <1>1, <1>4, <1>6 DEF PoolInv

\* No segment block is ever leaked or owned twice, whatever the network, the
\* timers and the application do.
THEOREM PoolNeverLeaks == Spec => []PoolOwnership
<1>1. PoolInv => PoolOwnership BY DEF PoolInv
<1>2. QED BY <1>1, InitPool, NextPool, PTL DEF Spec

\* The advertised window is always the ring's free space.
THEOREM WindowIsFreeSpace == Spec => []RingWindow
<1>1. PoolInv => RingWindow BY DEF PoolInv, SlotsOK, SlotOK, RingWindow
<1>2. QED BY <1>1, InitPool, NextPool, PTL DEF Spec

\* A free slot owns nothing, and a used one is in a live state.
THEOREM FreeSlotsAreEmpty == Spec => []ClosedIsEmpty
<1>1. PoolInv => ClosedIsEmpty BY DEF PoolInv, SlotsOK, SlotOK, ClosedIsEmpty
<1>2. QED BY <1>1, InitPool, NextPool, PTL DEF Spec

(***************************************************************************)
(* The application hears of every end of a connection.  Handlers change    *)
(* one slot's control block and raise one event; Noticed(c, t) is the      *)
(* promise about a block c whose application last heard t, and a handler   *)
(* keeps it when the event it raised, if any, takes t's place.             *)
(***************************************************************************)
Noticed(c, t) ==
  /\ ~c.active /\ c.cb => t \in {"local", "CLOSED", "ABORTED"}
  /\ c.active /\ c.cb /\ c.state = ESTABLISHED => t = "CONNECTED"
  /\ c.active /\ c.cb /\ c.state = CLOSE_WAIT => t = "CLOSED"
Heard(t, r) == IF r.ev = "none" THEN t ELSE r.ev
NoticeInv == PoolInv /\ TerminalNotice

LEMMA NoticeOfSlots == TerminalNotice <=> \A s \in Slots : Noticed(conn[s], told[s])
BY DEF TerminalNotice, Noticed

\* A handler's result that keeps the promise for its slot keeps it for all.
LEMMA ApplyNotice ==
  ASSUME NoticeInv, NEW s \in Slots, NEW r, Noticed(r.c, Heard(told[s], r)), Apply(s, r)
  PROVE  TerminalNotice'
<1>1. /\ conn' = [conn EXCEPT ![s] = r.c]
      /\ told' = [told EXCEPT ![s] = Heard(told[s], r)]
  BY DEF Apply, Heard, NoticeInv, PoolInv, TypeOK
<1>2. \A t \in Slots : Noticed(conn[t], told[t]) BY NoticeOfSlots DEF NoticeInv
<1>3. \A t \in Slots : Noticed(conn'[t], told'[t])
  BY <1>1, <1>2 DEF NoticeInv, PoolInv, TypeOK
<1>4. QED BY <1>3 DEF TerminalNotice, Noticed

\* A freed connection was announced, or had nobody to hear of it.
LEMMA FreedNotice ==
  ASSUME NEW c \in Conns, NEW d \in Conns, d.cb = c.cb, NEW q, NEW out, NEW t,
         NEW ev \in {"CLOSED", "ABORTED"}
  PROVE  LET r == tcp_free_conn(c, q, out, Event(d, ev)) IN Noticed(r.c, Heard(t, r))
<1> DEFINE r == tcp_free_conn(c, q, out, Event(d, ev))
<1>1. r.c.active = FALSE /\ r.c.cb = c.cb /\ r.ev = Event(d, ev)
  BY DEF tcp_free_conn, Result, Freed, ZeroConn
<1>2. c.cb => r.ev = ev BY <1>1 DEF Event
<1> HIDE DEF r
<1>3. Noticed(r.c, Heard(t, r)) BY <1>1, <1>2 DEF Noticed, Heard
<1>4. QED BY <1>3 DEF r

\* tcp_process announces CONNECTED on the way to ESTABLISHED and CLOSED on the
\* way to CLOSE_WAIT, and enters neither state in another way.
LEMMA AcceptedNotice ==
  ASSUME NEW c \in Conns, NEW q \in Seq(TxSegs), NEW g \in Segments, c.active, NEW t,
         Noticed(c, t), NEW r, r = Accepted(c, q, g)
  PROVE  Noticed(r.c, Heard(t, r))
<1> USE DEF CLOSED, SYN_SENT, SYN_RCVD, ESTABLISHED, FIN_WAIT_1, FIN_WAIT_2, CLOSE_WAIT, CLOSING,
            LAST_ACK, TIME_WAIT
<1> DEFINE x == AckConn(c, g)
           d == DataConn(x, g)
           f == FinConn(d, g)
<1>1. x \in Conns BY AckConnType
<1>2. d \in Conns BY <1>1, DataConnType
<1>3. /\ x.active = c.active /\ x.cb = c.cb
      /\ x.state = ESTABLISHED => c.state \in {ESTABLISHED, SYN_RCVD}
      /\ x.state = CLOSE_WAIT => c.state = CLOSE_WAIT
      /\ x.state = SYN_RCVD => c.state = SYN_RCVD
  <2> DEFINE y == AckedConn(c, g)
  <2>1. y.active = c.active /\ y.cb = c.cb /\ y.state = c.state
    BY DEF AckedConn, TimersAfterAck, Conns
  <2>2. y \in Conns
    <3>1. RTO_INIT \in 0 .. 2 * RTO_LIMIT /\ 0 \in Nat /\ 0 \in 0 .. MAX_RETRIES
      BY TimersAssumption
    <3>2. TimersAfterAck(c) \in Conns BY <3>1 DEF TimersAfterAck, Conns
    <3>3. QED BY <3>2 DEF AckedConn, Conns, Segments
  <2> HIDE DEF y
  <2>3. PICK e, w, tw : /\ e = [y EXCEPT !.state = ESTABLISHED]
                        /\ w = [y EXCEPT !.state = FIN_WAIT_2]
                        /\ tw = EnterTimeWait(y)
    OBVIOUS
  <2>4. /\ e.active = y.active /\ e.cb = y.cb /\ e.state = ESTABLISHED
        /\ w.active = y.active /\ w.cb = y.cb /\ w.state = FIN_WAIT_2
        /\ tw.active = y.active /\ tw.cb = y.cb /\ tw.state = TIME_WAIT
    BY <2>2, <2>3 DEF EnterTimeWait, Conns
  <2>5. x = c \/ x = y \/ (c.state = SYN_RCVD /\ x = e) \/ x = w \/ x = tw
    BY <2>3 DEF AckConn, y
  <2> HIDE DEF x
  <2>6. x.active = c.active /\ x.cb = c.cb BY <2>1, <2>4, <2>5, Zenon
  <2>7. \/ x.state = c.state \/ (c.state = SYN_RCVD /\ x.state = ESTABLISHED)
        \/ x.state = FIN_WAIT_2 \/ x.state = TIME_WAIT
    BY <2>1, <2>4, <2>5, Zenon
  <2>8. PICK i, j : i = c.state /\ j = x.state OBVIOUS
  <2>9. j = i \/ (i = SYN_RCVD /\ j = ESTABLISHED) \/ j = FIN_WAIT_2 \/ j = TIME_WAIT
    BY <2>7, <2>8, Zenon
  <2>10. QED BY <2>6, <2>8, <2>9
<1> HIDE DEF x
<1>4. d.active = x.active /\ d.cb = x.cb /\ d.state = x.state
  BY <1>1 DEF DataConn, WrittenConn, Conns
<1> HIDE DEF d
<1>5. /\ f.active <=> d.active
      /\ f.cb <=> d.cb
      /\ f.state = ESTABLISHED => d.state = ESTABLISHED /\ "FIN" \notin g.flags
      /\ f.state = CLOSE_WAIT =>
           \/ d.state = CLOSE_WAIT
           \/ d.state \in {SYN_RCVD, ESTABLISHED} /\ "FIN" \in g.flags
  <2> DEFINE e == [d EXCEPT !.rcv_nxt = Add(@, 1), !.rcv_wnd = rx_free(d)]
  <2>1. e.active = d.active /\ e.cb = d.cb /\ e.state = d.state BY <1>2 DEF Conns
  <2>2. \A n : [e EXCEPT !.state = n].active = d.active /\ [e EXCEPT !.state = n].cb = d.cb
               /\ [e EXCEPT !.state = n].state = n
    BY <1>2 DEF Conns
  <2>3. EnterTimeWait(e).active = d.active /\ EnterTimeWait(e).cb = d.cb
        /\ EnterTimeWait(e).state = TIME_WAIT
    BY <1>2 DEF EnterTimeWait, Conns
  <2> HIDE DEF e
  <2>4. \/ f = d /\ "FIN" \notin g.flags
        \/ /\ "FIN" \in g.flags /\ d.state \in {SYN_RCVD, ESTABLISHED}
           /\ f = [e EXCEPT !.state = CLOSE_WAIT]
        \/ f = [e EXCEPT !.state = CLOSING] \/ f = EnterTimeWait(e)
        \/ f = e /\ d.state \notin {SYN_RCVD, ESTABLISHED}
    BY DEF FinConn, e
  <2> HIDE DEF f
  <2>5. (f.active <=> d.active) /\ (f.cb <=> d.cb) BY <2>1, <2>2, <2>3, <2>4
  <2>6. \/ f.state \in {CLOSING, TIME_WAIT}
        \/ f.state = d.state /\ ("FIN" \in g.flags => d.state \notin {SYN_RCVD, ESTABLISHED})
        \/ f.state = CLOSE_WAIT /\ "FIN" \in g.flags /\ d.state \in {SYN_RCVD, ESTABLISHED}
    BY <2>1, <2>2, <2>3, <2>4
  <2>7. QED BY <2>5, <2>6
<1>6. r.c = f /\ r.ev = EventOfProcess(c, x, d, g) BY DEF Accepted, Result, x, d
<1> HIDE DEF f
<1>7. CASE f.cb /\ f.state = ESTABLISHED
  BY <1>3, <1>4, <1>5, <1>6, <1>7 DEF Noticed, Heard, EventOfProcess, Event
<1>8. CASE f.cb /\ f.state = CLOSE_WAIT
  <2>1. CASE d.state = CLOSE_WAIT
    BY <1>3, <1>4, <1>5, <1>6, <1>8, <2>1 DEF Noticed, Heard, EventOfProcess, Event
  <2>2. CASE d.state \in {SYN_RCVD, ESTABLISHED} /\ "FIN" \in g.flags
    BY <1>3, <1>4, <1>5, <1>6, <1>8, <2>2 DEF Noticed, Heard, EventOfProcess, Event
  <2>3. QED BY <1>5, <1>8, <2>1, <2>2
<1>9. QED BY <1>3, <1>4, <1>5, <1>6, <1>7, <1>8 DEF Noticed

\* The timer reports every connection it gives up; link_down reports all.
LEMMA TickNotice ==
  ASSUME NoticeInv, NEW s \in Slots
  PROVE  /\ Noticed(Tick(s).c, Heard(told[s], Tick(s)))
         /\ Noticed(DownOf(s).c, Heard(told[s], DownOf(s)))
<1> DEFINE c == conn[s]
           q == txq[s]
           Good(r) == Noticed(r.c, Heard(told[s], r))
<1>1. c \in Conns /\ Noticed(c, told[s]) BY NoticeOfSlots DEF NoticeInv, PoolInv, TypeOK
<1> HIDE DEF c, q
<1>2. \A ev \in {"CLOSED", "ABORTED"} : Good(tcp_free_conn(c, q, {}, Event(c, ev)))
  BY <1>1, FreedNotice
<1>3. ASSUME NEW d, NEW out, d.active = c.active, d.cb = c.cb, d.state = c.state
      PROVE  Good(Result(d, q, {}, out, "none"))
  BY <1>1, <1>3 DEF Noticed, Heard, Result
<1>4. Good(Untouched(s)) BY <1>1, <1>3 DEF Untouched, c, q
<1>5. Good(TimeWaitTick(s, c))
  <2>1. \A n : Good(Result([c EXCEPT !.tw_counter = n], q, {}, {}, "none"))
    <3>1. \A n : LET d == [c EXCEPT !.tw_counter = n]
                 IN  d.active = c.active /\ d.cb = c.cb /\ d.state = c.state
      BY <1>1 DEF Conns
    <3>2. QED BY <1>3, <3>1
  <2> HIDE DEF Good
  <2>2. QED BY <1>2, <2>1 DEF TimeWaitTick, q
<1>6. \A n : Good(Result([c EXCEPT !.idle_counter = n], q, {}, {}, "none"))
  <2>1. \A n : LET d == [c EXCEPT !.idle_counter = n]
               IN  d.active = c.active /\ d.cb = c.cb /\ d.state = c.state
    BY <1>1 DEF Conns
  <2>2. QED BY <1>3, <2>1
<1>7. Good(RtoTick(s, c))
  <2>1. ASSUME NEW n, NEW k PROVE Good(Result([c EXCEPT !.idle_counter = n, !.rto_counter = k],
                                              q, {}, {}, "none"))
    <3> DEFINE d == [c EXCEPT !.idle_counter = n, !.rto_counter = k]
    <3>1. d.active = c.active /\ d.cb = c.cb /\ d.state = c.state BY <1>1 DEF Conns
    <3> HIDE DEF d, Good
    <3>2. Good(Result(d, q, {}, {}, "none")) BY <1>3, <3>1
    <3>3. QED BY <3>2 DEF d
  <2>2. ASSUME NEW n, NEW k, NEW m, NEW u, NEW out
        PROVE  Good(Result([c EXCEPT !.idle_counter = n, !.rto_counter = k, !.retries = m,
                                     !.rto_ticks = u], q, {}, out, "none"))
    <3> DEFINE d == [c EXCEPT !.idle_counter = n, !.rto_counter = k, !.retries = m,
                              !.rto_ticks = u]
    <3>1. d.active = c.active /\ d.cb = c.cb /\ d.state = c.state BY <1>1 DEF Conns
    <3> HIDE DEF d, Good
    <3>2. Good(Result(d, q, {}, out, "none")) BY <1>3, <3>1
    <3>3. QED BY <3>2 DEF d
  <2> HIDE DEF Good
  <2>3. QED BY <1>2, <2>1, <2>2 DEF RtoTick, q
<1> HIDE DEF Good
<1>8. Good(Tick(s)) BY <1>2, <1>4, <1>5, <1>6, <1>7 DEF Tick, IdleTick, c, q
<1>9. Good(DownOf(s)) BY <1>2, <1>4 DEF DownOf, c, q
<1>10. QED BY <1>8, <1>9 DEF Good

\* A segment for an existing connection.
LEMMA InputConnNotice ==
  ASSUME NoticeInv, NEW g \in Segments, InputConn(g) PROVE TerminalNotice'
<1> USE DEF CLOSED, SYN_SENT, SYN_RCVD, ESTABLISHED, CLOSE_WAIT
<1> PICK s \in Slots :
      /\ IsConnOf(s, g)
      /\ \/ InputReset(s, g) \/ InputSynAck(s, g) \/ InputSynSyn(s, g)
         \/ InputSynDrop(s, g) \/ InputOutOfOrder(s, g) \/ InputBadSyn(s, g)
         \/ InputLastAck(s, g) \/ InputAccept(s, g)
  BY DEF InputConn
<1> DEFINE c == Known(s, g)
           q == txq[s]
           t == told[s]
<1>1. c \in Conns /\ q \in Seq(TxSegs) /\ conn[s] \in Conns
  BY KnownType DEF NoticeInv, PoolInv, TypeOK
<1>2. conn[s].active BY DEF IsConnOf, Matches
<1>3. c.active = conn[s].active /\ c.cb = conn[s].cb /\ c.state = conn[s].state
  BY <1>1 DEF Known, Conns
<1>4. Noticed(conn[s], t) BY NoticeOfSlots DEF NoticeInv
<1> HIDE DEF c, q, t
<1>5. c.active /\ Noticed(c, t) BY <1>2, <1>3, <1>4 DEF Noticed
<1>6. CASE InputReset(s, g)
  BY <1>1, <1>6, FreedNotice, ApplyNotice DEF InputReset, t
<1>7. CASE InputSynAck(s, g)
  <2> DEFINE d == [c EXCEPT !.rcv_nxt = Add(g.seq, 1), !.snd_una = g.ack,
                            !.state = ESTABLISHED, !.rto_ticks = RTO_INIT,
                            !.rto_counter = 0, !.retries = 0]
             u == tcp_tx_ack(q, g.ack)
             r == Result(d, u.q, u.freed, {PlainAck(d)}, Event(c, "CONNECTED"))
  <2>1. d.active = TRUE /\ (d.cb <=> c.cb) /\ d.state = ESTABLISHED BY <1>1, <1>5 DEF Conns
  <2>2. Apply(s, r) BY <1>7 DEF InputSynAck, c, q
  <2>2a. Event(c, "CONNECTED") = IF c.cb THEN "CONNECTED" ELSE "none" BY DEF Event
  <2> HIDE DEF d, u
  <2>3. r.c = d /\ r.ev = Event(c, "CONNECTED") BY DEF Result
  <2>3a. c.cb \in BOOLEAN BY <1>1 DEF Conns
  <2> HIDE DEF r
  <2>4. Noticed(r.c, Heard(t, r)) BY <2>1, <2>2a, <2>3 DEF Noticed, Heard
  <2>5. QED BY <2>2, <2>4, ApplyNotice DEF t
<1>8. CASE InputSynSyn(s, g)
  <2> DEFINE d == [c EXCEPT !.rcv_nxt = Add(g.seq, 1), !.state = SYN_RCVD]
             r == Result(d, q, {}, {tcp_send_segment(d, {"SYN", "ACK"}, d.snd_una, <<>>)}, "none")
  <2>1. d.active = TRUE /\ d.state = SYN_RCVD BY <1>1, <1>5 DEF Conns
  <2>2. Apply(s, r) BY <1>8 DEF InputSynSyn, c, q
  <2> HIDE DEF d
  <2>3. r.c = d BY DEF Result
  <2> HIDE DEF r
  <2>4. Noticed(r.c, Heard(t, r)) BY <2>1, <2>3 DEF Noticed
  <2>5. QED BY <2>2, <2>4, ApplyNotice DEF t
<1>9. ASSUME NEW out, Apply(s, Result(c, q, {}, out, "none")) PROVE TerminalNotice'
  <2> DEFINE r == Result(c, q, {}, out, "none")
  <2>1. Noticed(r.c, Heard(t, r)) BY <1>5 DEF Result, Heard
  <2> HIDE DEF r
  <2>2. QED BY <1>9, <2>1, ApplyNotice DEF t, r
<1>10. CASE InputSynDrop(s, g) \/ InputOutOfOrder(s, g)
  BY <1>9, <1>10 DEF InputSynDrop, InputOutOfOrder, c, q
<1>11. CASE InputBadSyn(s, g)
  BY <1>1, <1>11, FreedNotice, ApplyNotice DEF InputBadSyn, c, q, t
<1>12. CASE InputLastAck(s, g)
  BY <1>1, <1>12, FreedNotice, ApplyNotice DEF InputLastAck, c, q, t
<1>13. CASE InputAccept(s, g)
  <2>1. Apply(s, Accepted(c, q, g)) BY <1>13 DEF InputAccept, c, q
  <2>2. Noticed(Accepted(c, q, g).c, Heard(t, Accepted(c, q, g)))
    BY <1>1, <1>5, AcceptedNotice
  <2>3. QED BY <2>1, <2>2, ApplyNotice DEF t
<1>14. QED BY <1>6, <1>7, <1>8, <1>10, <1>11, <1>12, <1>13

\* The calls of the application.
LEMMA ApplicationNotice ==
  ASSUME NoticeInv,
         \/ \E p \in Ports : Listen(p) \/ Unlisten(p)
         \/ \E r \in Remotes, p \in Ports : Connect(r, p) \/ ConnectFails(r, p)
         \/ \E s \in Slots : \/ \E d \in Payloads : Send(s, d)
                             \/ \E n \in ReadSizes : Read(s, n)
                             \/ CloseGraceful(s) \/ CloseHandshake(s) \/ Abort(s)
  PROVE  TerminalNotice'
<1> USE DEF CLOSED, SYN_SENT, SYN_RCVD, ESTABLISHED, CLOSE_WAIT, FIN_WAIT_1, LAST_ACK
<1>0. /\ conn \in [Slots -> Conns]
      /\ told \in [Slots -> {"unused", "opening", "CONNECTED", "CLOSED", "ABORTED", "local"}]
      /\ \A s \in Slots : Noticed(conn[s], told[s])
  BY NoticeOfSlots DEF NoticeInv, PoolInv, TypeOK
<1>1. CASE \E p \in Ports : Listen(p) \/ Unlisten(p)
  <2>1. conn' = conn /\ told' = told BY <1>1 DEF Listen, Unlisten
  <2>2. QED BY <1>0, <2>1 DEF TerminalNotice, Noticed
<1>2. ASSUME NEW s \in Slots, NEW c, conn' = [conn EXCEPT ![s] = c], Noticed(c, told'[s]),
             \A u \in Slots : u # s => told'[u] = told[u]
      PROVE  TerminalNotice'
  <2>1. \A u \in Slots : Noticed(conn'[u], told'[u]) BY <1>0, <1>2
  <2>2. QED BY <2>1 DEF TerminalNotice, Noticed
<1>3. ASSUME NEW r, NEW p, Connect(r, p) PROVE TerminalNotice'
  <2> DEFINE c == OpenConn(SYN_SENT, r, p, TRUE, MSS, tcp_gen_iss, 0)
  <2>1. PICK s \in Slots : conn' = [conn EXCEPT ![s] = c] /\ told' = [told EXCEPT ![s] = "opening"]
    BY <1>3 DEF Connect
  <2>2. Noticed(c, told'[s]) BY DEF OpenConn, ZeroConn, Noticed
  <2> HIDE DEF c
  <2>3. QED BY <1>0, <1>2, <2>1, <2>2
<1>4. ASSUME NEW r, NEW p, ConnectFails(r, p) PROVE TerminalNotice'
  <2> DEFINE c == Freed(OpenConn(SYN_SENT, r, p, TRUE, MSS, 0, 0))
  <2>1. PICK s \in Slots : conn' = [conn EXCEPT ![s] = c] /\ told' = [told EXCEPT ![s] = "local"]
    BY <1>4 DEF ConnectFails
  <2>2. c.active = FALSE BY DEF Freed, ZeroConn
  <2> HIDE DEF c
  <2>3. told'[s] = "local" BY <1>0, <2>1
  <2>4. Noticed(c, told'[s]) BY <2>2, <2>3 DEF Noticed
  <2>5. QED BY <1>0, <1>2, <2>1, <2>4
<1>5. ASSUME NEW s \in Slots, NEW d \in Payloads, Send(s, d) PROVE TerminalNotice'
  <2> DEFINE c == [conn[s] EXCEPT !.snd_nxt = Add(conn[s].snd_nxt, Len(d)),
                                  !.rto_counter = 0, !.retries = 0]
  <2>1. conn' = [conn EXCEPT ![s] = c] /\ told' = told BY <1>0, <1>5 DEF Send
  <2>2. c.active = conn[s].active /\ c.cb = conn[s].cb /\ c.state = conn[s].state
    BY <1>0 DEF Conns
  <2> HIDE DEF c
  <2>3. Noticed(c, told'[s]) BY <1>0, <2>1, <2>2 DEF Noticed
  <2>4. QED BY <1>2, <2>1, <2>3
<1>6. ASSUME NEW s \in Slots, NEW n \in ReadSizes, Read(s, n) PROVE TerminalNotice'
  <2> DEFINE t == [conn[s] EXCEPT !.rx_tail = (conn[s].rx_tail + ReadLen(conn[s], n)) % RX_BUF_SIZE]
             c == [t EXCEPT !.rcv_wnd = rx_free(t)]
  <2>1. conn' = [conn EXCEPT ![s] = c] /\ told' = told BY <1>6 DEF Read, ReadConn
  <2>2. c.active = conn[s].active /\ c.cb = conn[s].cb /\ c.state = conn[s].state
    BY <1>0 DEF Conns
  <2> HIDE DEF c, t
  <2>3. Noticed(c, told'[s]) BY <1>0, <2>1, <2>2 DEF Noticed
  <2>4. QED BY <1>2, <2>1, <2>3
<1>7. ASSUME NEW s \in Slots, CloseGraceful(s) PROVE TerminalNotice'
  <2> DEFINE st == IF conn[s].state = ESTABLISHED THEN FIN_WAIT_1 ELSE LAST_ACK
             c == [conn[s] EXCEPT !.snd_nxt = Add(conn[s].snd_nxt, 1), !.state = st,
                                  !.rto_counter = 0, !.retries = 0]
  <2>1. conn' = [conn EXCEPT ![s] = c] /\ told' = told BY <1>0, <1>7 DEF CloseGraceful
  <2>2. c.active = conn[s].active /\ c.cb = conn[s].cb /\ c.state = st BY <1>0 DEF Conns
  <2> HIDE DEF c
  <2>3. Noticed(c, told'[s]) BY <1>0, <2>1, <2>2 DEF Noticed
  <2>4. QED BY <1>2, <2>1, <2>3
<1>8. ASSUME NEW s \in Slots, CloseHandshake(s) \/ Abort(s) PROVE TerminalNotice'
  <2>1. PICK out : Apply(s, tcp_free_conn(conn[s], txq[s], out, "local"))
    BY <1>8 DEF CloseHandshake, Abort
  <2> DEFINE r == tcp_free_conn(conn[s], txq[s], out, "local")
  <2>2. r.c.active = FALSE /\ r.ev = "local" BY DEF tcp_free_conn, Result, Freed, ZeroConn
  <2> HIDE DEF r
  <2>3. Noticed(r.c, Heard(told[s], r)) BY <2>2 DEF Noticed, Heard
  <2>4. QED BY <2>1, <2>3, ApplyNotice DEF r
<1>9. QED BY <1>1, <1>3, <1>4, <1>5, <1>6, <1>7, <1>8

\* Every step keeps the promise.
LEMMA NextNotice == NoticeInv /\ [Next]_vars => NoticeInv'
<1> SUFFICES ASSUME NoticeInv, [Next]_vars PROVE NoticeInv' OBVIOUS
<1>0. PoolInv' BY NextPool DEF NoticeInv
<1>1. \A s \in Slots : Noticed(conn[s], told[s]) BY NoticeOfSlots DEF NoticeInv
<1>2. ASSUME conn' = conn, told' = told PROVE TerminalNotice'
  BY <1>1, <1>2 DEF TerminalNotice, Noticed
<1>3. ASSUME NEW g \in Inputs, Input(g) PROVE TerminalNotice'
  <2>1. g \in Segments BY InputsAssumption
  <2>2. CASE InputConn(g) BY <2>1, <2>2, InputConnNotice
  <2>3. CASE InputListen(g)
    <3> DEFINE c == OpenConn(SYN_RCVD, g.remote, g.port, g.port # 0,
                             ClampMss(g.mss), tcp_gen_iss, Add(g.seq, 1))
    <3>1. PICK s \in Slots : conn' = [conn EXCEPT ![s] = c]
                             /\ told' = [told EXCEPT ![s] = "opening"]
      BY <2>3 DEF InputListen
    <3>2. c.active = TRUE /\ c.state = SYN_RCVD BY DEF OpenConn, ZeroConn
    <3> HIDE DEF c
    <3>3. \A t : Noticed(c, t) BY <3>2 DEF Noticed, SYN_RCVD, ESTABLISHED, CLOSE_WAIT
    <3>4. \A u \in Slots : Noticed(conn'[u], told'[u])
      BY <1>1, <3>1, <3>3 DEF NoticeInv, PoolInv, TypeOK
    <3>5. QED BY <3>4 DEF TerminalNotice, Noticed
  <2>4. CASE InputDropped(g) \/ InputStray(g) BY <1>2, <2>4 DEF InputDropped, InputStray, vars
  <2>5. QED BY <1>3, <2>2, <2>3, <2>4 DEF Input
<1>4. ASSUME LinkDown \/ Periodic PROVE TerminalNotice'
  <2>1. \/ \A s \in Slots : conn'[s] = DownOf(s).c /\ told'[s] = Heard(told[s], DownOf(s))
        \/ \A s \in Slots : conn'[s] = Tick(s).c /\ told'[s] = Heard(told[s], Tick(s))
    BY <1>4 DEF LinkDown, Periodic, ApplyAll, Heard
  <2>2. \A s \in Slots : Noticed(conn'[s], told'[s]) BY <2>1, TickNotice, Zenon
  <2>3. QED BY <2>2 DEF TerminalNotice, Noticed
<1>5. ASSUME UNCHANGED vars PROVE TerminalNotice' BY <1>2, <1>5 DEF vars
<1>6. TerminalNotice' BY <1>3, <1>4, <1>5, ApplicationNotice DEF Next
<1>7. QED BY <1>0, <1>6 DEF NoticeInv

\* No connection dies behind the application's back: whatever the peer, the
\* network and the timers do, a slot that is gone was closed or aborted by the
\* application or reported to it, and what it takes for open was announced.
THEOREM EveryEndIsReported == Spec => []TerminalNotice
<1>1. Init => NoticeInv
  <2>1. Init => TerminalNotice BY DEF Init, TerminalNotice, ZeroConn
  <2>2. QED BY <2>1, InitPool DEF NoticeInv
<1>2. NoticeInv => TerminalNotice BY DEF NoticeInv
<1>3. QED BY <1>1, <1>2, NextNotice, PTL DEF Spec

(***************************************************************************)
(* Whatever is unacknowledged can be sent again.  Places in the sequence   *)
(* space are compared by how far snd_nxt is ahead of them: on the part of  *)
(* the space in use that is an ordinary order, and SpaceAssumption keeps   *)
(* the part in use below half the space.  Cov is the invariant for one     *)
(* slot with k the segments (a FIN without a block) missing at the end.    *)
(***************************************************************************)
Dist(a, b) == (b - a) % SeqSpace
SegSize(x) == Len(x.data) + Weight(x.flags)
Slack(c) == IF FinSent(c) THEN 1 ELSE 0
Cov(una, nxt, k, q) ==
  /\ \A i \in 1 .. Len(q) :
       /\ SegSize(q[i]) \in 1 .. MSS
       /\ Dist(q[i].seq, nxt) <= (Len(q) - i + 1) * MSS + k
       /\ Dist(SegEnd(q[i]), nxt) = Dist(q[i].seq, nxt) - SegSize(q[i])
       /\ i < Len(q) => SegEnd(q[i]) = q[i + 1].seq
  /\ q # <<>> =>
       /\ Dist(SegEnd(q[1]), nxt) < Dist(una, nxt)
       /\ Dist(una, nxt) <= Dist(q[1].seq, nxt) \/ Dist(una, q[1].seq) = 1
       /\ Dist(SegEnd(q[Len(q)]), nxt) <= k
  /\ q = <<>> => Dist(una, nxt) <= 1 + k
Covered(c, q) ==
  c.active => /\ Cov(c.snd_una, c.snd_nxt, Slack(c), q)
              /\ c.state \in {SYN_SENT, SYN_RCVD} => Dist(c.snd_una, c.snd_nxt) = 1
AllCovered == \A s \in Slots : Covered(conn[s], txq[s])
TxInv == PoolInv /\ AllCovered

\* Distances, as a case split instead of a remainder.
LEMMA DistValue ==
  ASSUME NEW a \in SeqNums, NEW b \in SeqNums
  PROVE  /\ Dist(a, b) = IF b >= a THEN b - a ELSE b - a + SeqSpace
         /\ Dist(a, b) \in SeqNums
BY SizesAssumption DEF Dist, SeqNums

LEMMA AddValue ==
  ASSUME NEW a \in SeqNums, NEW n \in SeqNums
  PROVE  /\ Add(a, n) = IF a + n < SeqSpace THEN a + n ELSE a + n - SeqSpace
         /\ Add(a, n) \in SeqNums
BY SizesAssumption DEF Add, SeqNums

\* Moving snd_nxt forward moves it away from everything behind it.
LEMMA DistGrows ==
  ASSUME NEW a \in SeqNums, NEW b \in SeqNums, NEW n \in SeqNums, Dist(a, b) + n < SeqSpace
  PROVE  Dist(a, Add(b, n)) = Dist(a, b) + n
<1>1. Add(b, n) \in SeqNums BY AddValue
<1>2. Dist(a, Add(b, n)) = IF Add(b, n) >= a THEN Add(b, n) - a ELSE Add(b, n) - a + SeqSpace
  BY <1>1, DistValue
<1>3. Dist(a, b) = IF b >= a THEN b - a ELSE b - a + SeqSpace BY DistValue
<1>4. Add(b, n) = IF b + n < SeqSpace THEN b + n ELSE b + n - SeqSpace BY AddValue
<1>5. QED BY <1>2, <1>3, <1>4, SizesAssumption DEF SeqNums

\* Two places at no distance are one.
LEMMA DistZero ==
  ASSUME NEW a \in SeqNums, NEW b \in SeqNums, Dist(a, b) <= 0 PROVE a = b
<1>1. Dist(a, b) = IF b >= a THEN b - a ELSE b - a + SeqSpace BY DistValue
<1>2. QED BY <1>1, SizesAssumption DEF SeqNums

\* One step behind a place is at most one further from snd_nxt.
LEMMA DistStep ==
  ASSUME NEW a \in SeqNums, NEW b \in SeqNums, NEW z \in SeqNums,
         Dist(a, z) <= Dist(b, z) \/ Dist(a, b) = 1
  PROVE  Dist(a, z) <= Dist(b, z) + 1
<1>1. Dist(a, z) = (IF z >= a THEN z - a ELSE z - a + SeqSpace)
      /\ Dist(b, z) = (IF z >= b THEN z - b ELSE z - b + SeqSpace)
      /\ Dist(a, b) = (IF b >= a THEN b - a ELSE b - a + SeqSpace)
  BY DistValue
<1>2. QED BY <1>1, SizesAssumption DEF SeqNums

\* SEQ_GT is the order of the distances, when both are within half the space.
LEMMA GtByDist ==
  ASSUME NEW a \in SeqNums, NEW b \in SeqNums, NEW z \in SeqNums,
         2 * Dist(a, z) <= SeqSpace, 2 * Dist(b, z) <= SeqSpace
  PROVE  /\ SEQ_GT(a, b) => Dist(a, z) < Dist(b, z)
         /\ Dist(a, z) < Dist(b, z) /\ 2 * (Dist(b, z) - Dist(a, z)) < SeqSpace => SEQ_GT(a, b)
<1>1. Dist(a, z) = (IF z >= a THEN z - a ELSE z - a + SeqSpace)
      /\ Dist(b, z) = (IF z >= b THEN z - b ELSE z - b + SeqSpace)
      /\ Dist(b, a) = (IF a >= b THEN a - b ELSE a - b + SeqSpace)
  BY DistValue
<1>2. SEQ_GT(a, b) <=> 0 < Dist(b, a) /\ 2 * Dist(b, a) < SeqSpace BY DEF SEQ_GT, Dist
<1>3. QED BY <1>1, <1>2, SizesAssumption DEF SeqNums

\* An acknowledgment that is taken lies between snd_una and snd_nxt.
LEMMA AckInWindow ==
  ASSUME NEW una \in SeqNums, NEW nxt \in SeqNums, NEW ack \in SeqNums,
         2 * Dist(una, nxt) <= SeqSpace, SEQ_GT(ack, una), SEQ_LEQ(ack, nxt)
  PROVE  Dist(ack, nxt) < Dist(una, nxt)
<1>1. Dist(una, nxt) = (IF nxt >= una THEN nxt - una ELSE nxt - una + SeqSpace)
      /\ Dist(ack, nxt) = (IF nxt >= ack THEN nxt - ack ELSE nxt - ack + SeqSpace)
      /\ Dist(una, ack) = (IF ack >= una THEN ack - una ELSE ack - una + SeqSpace)
      /\ Dist(nxt, ack) = (IF ack >= nxt THEN ack - nxt ELSE ack - nxt + SeqSpace)
  BY DistValue
<1>2. 0 < Dist(una, ack) /\ 2 * Dist(una, ack) < SeqSpace BY DEF SEQ_GT, Dist
<1>3. ~(0 < Dist(nxt, ack) /\ 2 * Dist(nxt, ack) < SeqSpace) BY DEF SEQ_LEQ, SEQ_GT, Dist
<1>4. QED BY <1>1, <1>2, <1>3, SizesAssumption DEF SeqNums

\* During the handshake there are two places an acknowledgment can name.
LEMMA AckOfSyn ==
  ASSUME NEW una \in SeqNums, NEW nxt \in SeqNums, NEW ack \in SeqNums,
         Dist(una, nxt) = 1, SEQ_LEQ(una, ack), SEQ_LEQ(ack, nxt)
  PROVE  ack \in {una, nxt}
<1>1. Dist(una, nxt) = (IF nxt >= una THEN nxt - una ELSE nxt - una + SeqSpace)
      /\ Dist(ack, una) = (IF una >= ack THEN una - ack ELSE una - ack + SeqSpace)
      /\ Dist(nxt, ack) = (IF ack >= nxt THEN ack - nxt ELSE ack - nxt + SeqSpace)
  BY DistValue
<1>2. ~(0 < Dist(nxt, ack) /\ 2 * Dist(nxt, ack) < SeqSpace) BY DEF SEQ_LEQ, SEQ_GT, Dist
<1>3. ~(0 < Dist(ack, una) /\ 2 * Dist(ack, una) < SeqSpace) BY DEF SEQ_LEQ, SEQ_GT, Dist
<1>4. QED BY <1>1, <1>2, <1>3, SizesAssumption DEF SeqNums

\* tcp_tx_ack stops at the first segment the acknowledgment does not reach.
LEMMA AckedPrefix ==
  ASSUME NEW q \in Seq(TxSegs), NEW ack
  PROVE  LET n == AckedCount(q, ack)
         IN  /\ n \in 0 .. Len(q)
             /\ \A i \in 1 .. n : SEQ_LEQ(SegEnd(q[i]), ack)
             /\ n < Len(q) => SEQ_GT(SegEnd(q[n + 1]), ack)
<1> DEFINE n == AckedCount(q, ack)
           P(j) == SEQ_LEQ(SegEnd(q[j]), ack)
           D == {i \in 1 .. Len(q) : \A j \in 1 .. i : P(j)}
<1>1. n \in 0 .. Len(q) BY AckedCountType
<1>2. n = Cardinality(D) BY DEF AckedCount
<1> HIDE DEF n, P
<1>2a. Len(q) \in Nat OBVIOUS
<1>3. IsFiniteSet(D)
  <2>1. IsFiniteSet(1 .. Len(q)) BY <1>2a, FS_Interval
  <2>2. D \in SUBSET (1 .. Len(q)) OBVIOUS
  <2>3. QED BY <2>1, <2>2, FS_Subset
<1>4. \A i \in D : 1 .. i \subseteq D BY <1>2a
<1>5. ASSUME NEW i \in Nat PROVE IsFiniteSet(1 .. i) /\ Cardinality(1 .. i) = i
  <2>1. i \in Int /\ 1 \in Int OBVIOUS
  <2>2. Cardinality(1 .. i) = IF 1 > i THEN 0 ELSE i - 1 + 1 BY <2>1, FS_Interval
  <2>3. QED BY <2>1, <2>2, FS_Interval
<1>6. D \subseteq 1 .. n
  <2>1. ASSUME NEW i \in D PROVE i \in 1 .. n
    <3>1. i \in 1 .. Len(q) /\ 1 .. i \in SUBSET D BY <1>4, <2>1
    <3> HIDE DEF D
    <3>1a. i \in Nat BY <3>1
    <3>2. Cardinality(1 .. i) <= Cardinality(D) BY <1>3, <3>1, FS_Subset
    <3>3. i <= n BY <1>2, <1>5, <3>1a, <3>2
    <3>4. QED BY <1>1, <3>1, <3>3
  <2>2. QED BY <2>1
<1>7. D = 1 .. n
  <2> HIDE DEF D
  <2>1. D \in SUBSET (1 .. n) BY <1>6
  <2>1a. n \in Nat BY <1>1
  <2>2. IsFiniteSet(1 .. n) /\ Cardinality(1 .. n) = Cardinality(D) BY <1>2, <1>5, <2>1a
  <2>3. QED BY <2>1, <2>2, FS_Subset
<1>8. \A i \in 1 .. n : P(i) BY <1>1, <1>7
<1>9. n < Len(q) => ~P(n + 1)
  <2>1. HAVE n < Len(q)
  <2>1a. n + 1 \in 1 .. Len(q) /\ n + 1 \notin 1 .. n BY <1>1, <1>2a, <2>1
  <2>2. n + 1 \in 1 .. Len(q) /\ n + 1 \notin D BY <1>7, <2>1a, Zenon
  <2>3. PICK j \in 1 .. n + 1 : ~P(j) BY <2>2
  <2>4. j = n + 1 BY <1>1, <1>8, <2>3
  <2>5. QED BY <2>3, <2>4
<1>10. QED BY <1>1, <1>8, <1>9 DEF n, P, SEQ_LEQ


\* A slot queues no more segments than the pool has blocks.
LEMMA QueueFitsPool ==
  ASSUME NEW q \in Seq(TxSegs), Distinct(q) PROVE Len(q) <= TX_POOL_COUNT
<1> DEFINE f == [i \in 1 .. Len(q) |-> q[i].blk]
<1>0. Len(q) \in Nat /\ TX_POOL_COUNT \in Nat BY SizesAssumption
<1>1. f \in [1 .. Len(q) -> Blocks]
  <2>1. \A i \in 1 .. Len(q) : q[i].blk \in Blocks
    <3>1. \A i \in 1 .. Len(q) : q[i] \in TxSegs OBVIOUS
    <3>2. QED BY <3>1 DEF TxSegs
  <2>2. QED BY <2>1
<1>2. \A x, y \in 1 .. Len(q) : x # y => f[x] # f[y] BY DEF Distinct
<1> HIDE DEF f
<1>3. ASSUME NEW m \in Nat PROVE IsFiniteSet(1 .. m) /\ Cardinality(1 .. m) = m
  <2>1. m \in Int /\ 1 \in Int OBVIOUS
  <2>2. Cardinality(1 .. m) = IF 1 > m THEN 0 ELSE m - 1 + 1 BY <2>1, FS_Interval
  <2>3. QED BY <2>1, <2>2, FS_Interval
<1>4. ~(Cardinality(Blocks) < Cardinality(1 .. Len(q)))
  <2>1. IsFiniteSet(1 .. Len(q)) /\ IsFiniteSet(Blocks) BY <1>0, <1>3 DEF Blocks
  <2>2. QED BY <1>1, <1>2, <2>1, FS_PigeonHole
<1>5. QED BY <1>0, <1>3, <1>4 DEF Blocks

\* What the pool can hold is below half the space.
LEMMA RoomInSpace ==
  ASSUME NEW n \in Nat, n <= TX_POOL_COUNT, NEW i \in 1 .. n
  PROVE  /\ (n - i + 1) * MSS \in Nat
         /\ 2 * ((n - i + 1) * MSS + 2) <= SeqSpace /\ MSS <= (n - i + 1) * MSS
<1>1. n - i + 1 \in Nat /\ n - i + 1 <= TX_POOL_COUNT /\ n - i + 1 >= 1 BY SizesAssumption
<1>2. MSS \in Nat /\ TX_POOL_COUNT \in Nat BY SizesAssumption
<1>3. \A x, y, m \in Nat : x <= y => x * m <= y * m OBVIOUS
<1>4. (n - i + 1) * MSS <= TX_POOL_COUNT * MSS BY <1>1, <1>2, <1>3
<1>5. 1 * MSS <= (n - i + 1) * MSS BY <1>1, <1>2, <1>3
<1>6. (n - i + 1) * MSS \in Nat /\ TX_POOL_COUNT * MSS \in Nat BY <1>1, <1>2
<1>7. QED BY <1>2, <1>4, <1>5, <1>6, SpaceAssumption, SizesAssumption

\* What a covered slot has outstanding is below half the space.
LEMMA CovRoom ==
  ASSUME NEW una \in SeqNums, NEW nxt \in SeqNums, NEW k \in 0 .. 1, NEW q \in Seq(TxSegs),
         Len(q) <= TX_POOL_COUNT, Cov(una, nxt, k, q)
  PROVE  /\ 2 * Dist(una, nxt) <= SeqSpace
         /\ \A i \in 1 .. Len(q) :
              /\ SegEnd(q[i]) \in SeqNums /\ q[i].seq \in SeqNums
              /\ 2 * (Dist(q[i].seq, nxt) + 1) <= SeqSpace
              /\ 2 * (Dist(SegEnd(q[i]), nxt) + 2) <= SeqSpace
<1>0. \A i \in 1 .. Len(q) : SegEnd(q[i]) \in SeqNums /\ q[i].seq \in SeqNums
  <2>1. TAKE i \in 1 .. Len(q)
  <2>2. q[i] \in TxSegs OBVIOUS
  <2>3. QED BY <2>2, SegEndType DEF TxSegs
<1>1. ASSUME NEW i \in 1 .. Len(q)
      PROVE  /\ 2 * (Dist(q[i].seq, nxt) + 1) <= SeqSpace
             /\ 2 * (Dist(SegEnd(q[i]), nxt) + 2) <= SeqSpace
  <2>0. Len(q) \in Nat /\ i \in 1 .. Len(q) BY <1>1
  <2>1. /\ Dist(q[i].seq, nxt) <= (Len(q) - i + 1) * MSS + k
        /\ Dist(SegEnd(q[i]), nxt) = Dist(q[i].seq, nxt) - SegSize(q[i])
        /\ SegSize(q[i]) \in 1 .. MSS
    BY DEF Cov
  <2>2. 2 * ((Len(q) - i + 1) * MSS + 2) <= SeqSpace /\ (Len(q) - i + 1) * MSS \in Nat
    BY <2>0, RoomInSpace
  <2>3. q[i].seq \in SeqNums BY <1>0, <2>0
  <2>3a. Dist(q[i].seq, nxt) \in SeqNums BY <2>3, DistValue
  <2>3b. Dist(q[i].seq, nxt) \in Int BY <2>3a DEF SeqNums
  <2>4. PICK d, e, u : d = Dist(q[i].seq, nxt) /\ e = Dist(SegEnd(q[i]), nxt) /\ u = (Len(q) - i + 1) * MSS
    OBVIOUS
  <2>5. /\ d \in Int /\ e = d - SegSize(q[i]) /\ d <= u + k
        /\ u \in Nat /\ 2 * (u + 2) <= SeqSpace
    BY <2>1, <2>2, <2>3b, <2>4, Zenon
  <2>6. 2 * (d + 1) <= SeqSpace /\ 2 * (e + 2) <= SeqSpace BY <2>1, <2>5, SizesAssumption
  <2>7. QED BY <2>4, <2>6, Zenon
<1>2. 2 * Dist(una, nxt) <= SeqSpace
  <2>1. CASE q = <<>>
    <3>1. Dist(una, nxt) <= 1 + k /\ Dist(una, nxt) \in Int BY <2>1, DistValue DEF Cov, SeqNums
    <3>2. 4 <= SeqSpace BY SpaceAssumption, SizesAssumption
    <3>3. QED BY <3>1, <3>2, SizesAssumption
  <2>2. CASE q # <<>>
    <3>1. 1 \in 1 .. Len(q) BY <2>2
    <3>2. Dist(una, nxt) <= Dist(q[1].seq, nxt) \/ Dist(una, q[1].seq) = 1 BY <2>2 DEF Cov
    <3>3. 2 * (Dist(q[1].seq, nxt) + 1) <= SeqSpace /\ q[1].seq \in SeqNums BY <1>0, <1>1, <3>1
    <3>4. Dist(una, nxt) <= Dist(q[1].seq, nxt) + 1 BY <3>2, <3>3, DistStep
    <3>5. Dist(una, nxt) \in SeqNums /\ Dist(q[1].seq, nxt) \in SeqNums BY <3>3, DistValue
    <3>6. QED BY <3>3, <3>4, <3>5, SizesAssumption DEF SeqNums
  <2>3. QED BY <2>1, <2>2
<1>3. QED BY <1>0, <1>1, <1>2


\* Taking an acknowledgment: what is left still covers what is outstanding.
LEMMA AckCovers ==
  ASSUME NEW una \in SeqNums, NEW nxt \in SeqNums, NEW k \in 0 .. 1, NEW q \in Seq(TxSegs),
         Len(q) <= TX_POOL_COUNT, Cov(una, nxt, k, q), NEW ack \in SeqNums,
         \/ SEQ_GT(ack, una) /\ SEQ_LEQ(ack, nxt)
         \/ ack = una /\ Dist(una, nxt) = 1
  PROVE  Cov(ack, nxt, k, tcp_tx_ack(q, ack).q)
<1> DEFINE n == AckedCount(q, ack)
           p == SubSeq(q, n + 1, Len(q))
           L == Len(q)
           g(x) == Dist(x, nxt)
<1>1. /\ n \in 0 .. L
      /\ \A i \in 1 .. n : SEQ_LEQ(SegEnd(q[i]), ack)
      /\ n < L => SEQ_GT(SegEnd(q[n + 1]), ack)
  BY AckedPrefix
<1> HIDE DEF n
<1>2. /\ L \in Nat /\ Len(p) = L - n /\ \A i \in 1 .. L - n : p[i] = q[n + i]
      /\ p = <<>> <=> n = L
  <2>1. Len(p) = Len(q) - n /\ \A i \in 1 .. Len(q) - n : p[i] = q[n + i]
    BY <1>1
  <2>2. p \in Seq(TxSegs) /\ L \in Nat BY <1>1
  <2> HIDE DEF p
  <2>3. p = <<>> <=> Len(p) = 0 BY <2>2
  <2>4. p = <<>> <=> n = L BY <1>1, <2>1, <2>2, <2>3
  <2>5. QED BY <2>1, <2>2, <2>4
<1>3. tcp_tx_ack(q, ack).q = p BY DEF tcp_tx_ack, n
<1> HIDE DEF p
<1>4. /\ 2 * g(una) <= SeqSpace
      /\ \A i \in 1 .. L : /\ SegEnd(q[i]) \in SeqNums /\ q[i].seq \in SeqNums
                          /\ 2 * (g(q[i].seq) + 1) <= SeqSpace
                          /\ 2 * (g(SegEnd(q[i])) + 2) <= SeqSpace
  BY CovRoom
<1>5. /\ g(ack) \in Nat /\ g(una) \in Nat /\ g(ack) <= g(una) /\ 2 * g(ack) < SeqSpace
      /\ ack # una => g(ack) < g(una)
  <2>1. g(ack) \in SeqNums /\ g(una) \in SeqNums BY DistValue
  <2>2. CASE SEQ_GT(ack, una) /\ SEQ_LEQ(ack, nxt)
    <3>1. g(ack) < g(una) BY <1>4, <2>2, AckInWindow
    <3>2. QED BY <1>4, <2>1, <3>1, SizesAssumption DEF SeqNums
  <2>3. CASE ack = una /\ Dist(una, nxt) = 1 BY <2>1, <2>3, SizesAssumption DEF SeqNums
  <2>4. QED BY <2>2, <2>3
<1>6. \A i \in 1 .. L : g(SegEnd(q[i])) \in Nat /\ g(q[i].seq) \in Nat
  <2>1. \A i \in 1 .. L : g(SegEnd(q[i])) \in SeqNums /\ g(q[i].seq) \in SeqNums
    BY <1>4, DistValue
  <2>2. QED BY <2>1 DEF SeqNums
<1>7. \A i \in 1 .. n : g(ack) <= g(SegEnd(q[i]))
  <2>1. TAKE i \in 1 .. n
  <2>2. i \in 1 .. L BY <1>1
  <2>3. SUFFICES ASSUME g(SegEnd(q[i])) < g(ack) PROVE SEQ_GT(SegEnd(q[i]), ack)
    BY <1>1, <1>5, <1>6, <2>2 DEF SEQ_LEQ
  <2>4. 2 * g(SegEnd(q[i])) <= SeqSpace /\ SegEnd(q[i]) \in SeqNums
    BY <1>4, <1>6, <2>2, SizesAssumption
  <2>5. 2 * g(ack) <= SeqSpace /\ 2 * (g(ack) - g(SegEnd(q[i]))) < SeqSpace
    BY <1>5, <1>6, <2>2, SizesAssumption
  <2>6. QED BY <2>3, <2>4, <2>5, GtByDist
<1>8. n < L => g(SegEnd(q[n + 1])) < g(ack)
  <2>1. HAVE n < L
  <2>2. n + 1 \in 1 .. L BY <1>1, <2>1
  <2>3. SegEnd(q[n + 1]) \in SeqNums /\ 2 * g(SegEnd(q[n + 1])) <= SeqSpace
    BY <1>4, <1>6, <2>2, SizesAssumption
  <2>4. 2 * g(ack) <= SeqSpace BY <1>5, SizesAssumption
  <2>5. QED BY <1>1, <2>1, <2>3, <2>4, GtByDist
<1>9. \A i \in 1 .. Len(p) :
        /\ SegSize(p[i]) \in 1 .. MSS
        /\ Dist(p[i].seq, nxt) <= (Len(p) - i + 1) * MSS + k
        /\ Dist(SegEnd(p[i]), nxt) = Dist(p[i].seq, nxt) - SegSize(p[i])
        /\ i < Len(p) => SegEnd(p[i]) = p[i + 1].seq
  <2>1. TAKE i \in 1 .. Len(p)
  <2>2. p[i] = q[n + i] /\ n + i \in 1 .. L /\ L - (n + i) + 1 = Len(p) - i + 1
    BY <1>1, <1>2
  <2>3. i < Len(p) => p[i + 1] = q[n + i + 1] /\ n + i < L BY <1>1, <1>2
  <2>4. QED BY <2>2, <2>3 DEF Cov
<1>10. ASSUME p # <<>>
       PROVE  /\ g(SegEnd(p[1])) < g(ack)
              /\ g(ack) <= g(p[1].seq) \/ Dist(ack, p[1].seq) = 1
              /\ g(SegEnd(p[Len(p)])) <= k
  <2>1. n < L /\ p[1] = q[n + 1] /\ p[Len(p)] = q[L] /\ q # <<>> BY <1>1, <1>2, <1>10
  <2>2. g(SegEnd(p[Len(p)])) <= k BY <2>1 DEF Cov
  <2>3. CASE n > 0
    <3>1. n \in 1 .. n /\ n \in 1 .. L BY <1>1, <2>3
    <3>2. SegEnd(q[n]) = q[n + 1].seq BY <2>1, <3>1 DEF Cov
    <3>3. g(ack) <= g(q[n + 1].seq) BY <1>7, <3>1, <3>2
    <3>4. QED BY <1>8, <2>1, <2>2, <3>3
  <2>4. CASE n = 0
    <3>1. p[1] = q[1] /\ 1 \in 1 .. L BY <2>1, <2>4, <1>2
    <3>2. g(una) <= g(q[1].seq) \/ Dist(una, q[1].seq) = 1 BY <2>1 DEF Cov
    <3>3. ack = una \/ g(ack) <= g(q[1].seq)
      <4>1. g(una) <= g(q[1].seq) + 1 BY <1>4, <3>1, <3>2, DistStep
      <4>2. QED BY <1>5, <1>6, <3>1, <4>1
    <3>4. QED BY <1>8, <2>1, <2>2, <3>1, <3>2, <3>3
  <2>5. QED BY <1>1, <2>3, <2>4
<1>11. ASSUME p = <<>> PROVE g(ack) <= 1 + k
  <2>1. n = L BY <1>2, <1>11
  <2>2. CASE L = 0
    <3>1. q = <<>> BY <2>2
    <3>2. g(una) <= 1 + k BY <3>1 DEF Cov
    <3>3. QED BY <1>5, <3>2
  <2>3. CASE L > 0
    <3>1. L \in 1 .. n /\ L \in 1 .. L /\ q # <<>> BY <1>2, <2>1, <2>3
    <3>2. g(ack) <= g(SegEnd(q[L])) BY <1>7, <3>1
    <3>3. g(SegEnd(q[L])) <= k BY <3>1 DEF Cov
    <3>4. QED BY <1>5, <1>6, <3>1, <3>2, <3>3
  <2>4. QED BY <1>2, <2>2, <2>3
<1>12. Cov(ack, nxt, k, p) BY <1>9, <1>10, <1>11 DEF Cov
<1>13. QED BY <1>3, <1>12


\* A segment appended at snd_nxt, and snd_nxt moved behind it.
LEMMA AppendCovers ==
  ASSUME NEW una \in SeqNums, NEW nxt \in SeqNums, NEW k \in 0 .. 1, NEW q \in Seq(TxSegs),
         Len(q) + 1 <= TX_POOL_COUNT, Cov(una, nxt, 0, q),
         NEW x \in TxSegs, x.seq = nxt, SegSize(x) \in 1 .. MSS
  PROVE  Cov(una, Add(nxt, SegSize(x)), k, Append(q, x))
<1> DEFINE m == SegSize(x)
           z == Add(nxt, m)
           p == Append(q, x)
           L == Len(q)
<1>0. L \in Nat /\ Len(p) = L + 1 /\ p[L + 1] = x /\ (\A i \in 1 .. L : p[i] = q[i]) /\ p # <<>>
  OBVIOUS
<1>1. /\ 2 * Dist(una, nxt) <= SeqSpace
      /\ \A i \in 1 .. L : SegEnd(q[i]) \in SeqNums /\ q[i].seq \in SeqNums
  BY CovRoom, <1>0, SizesAssumption
<1>2. m \in SeqNums /\ 2 * (MSS + 2) <= SeqSpace /\ m \in 1 .. MSS /\ MSS \in Nat
  <2>1. TX_POOL_COUNT >= 1 /\ TX_POOL_COUNT \in Nat /\ MSS \in Nat BY <1>0, SizesAssumption
  <2>2. MSS <= TX_POOL_COUNT * MSS
    <3>1. \A a, b, c \in Nat : a <= b => a * c <= b * c OBVIOUS
    <3>2. 1 * MSS <= TX_POOL_COUNT * MSS BY <2>1, <3>1
    <3>3. QED BY <2>1, <3>2
  <2>3. TX_POOL_COUNT * MSS \in Nat BY <2>1
  <2>4. QED BY <2>1, <2>2, <2>3, SpaceAssumption, SizesAssumption DEF SeqNums
<1> HIDE DEF p, m
<1>3. z \in SeqNums BY <1>2, AddValue
<1>4. ASSUME NEW a \in SeqNums, Dist(a, nxt) + m < SeqSpace PROVE Dist(a, z) = Dist(a, nxt) + m
  BY <1>2, <1>4, DistGrows
<1>5. SegEnd(x) = z /\ Dist(nxt, nxt) = 0 /\ Dist(z, z) = 0 /\ Dist(nxt, z) = m
  <2>1. SegEnd(x) = z BY DEF SegEnd, SegSize, m
  <2>2. Dist(nxt, nxt) = 0 /\ Dist(z, z) = 0
    BY <1>3, DistValue, SizesAssumption DEF SeqNums
  <2>3. Dist(nxt, z) = 0 + m BY <1>2, <1>4, <2>2, SizesAssumption DEF SeqNums
  <2>4. QED BY <1>2, <2>1, <2>2, <2>3
<1>6. Dist(una, z) = Dist(una, nxt) + m /\ Dist(una, nxt) \in Nat
  <2>1. Dist(una, nxt) \in SeqNums BY DistValue
  <2>2. Dist(una, nxt) + m < SeqSpace BY <1>1, <1>2, <2>1, SizesAssumption DEF SeqNums
  <2>3. QED BY <1>4, <2>1, <2>2 DEF SeqNums
<1>7. ASSUME NEW i \in 1 .. L
      PROVE  /\ Dist(q[i].seq, z) = Dist(q[i].seq, nxt) + m
             /\ Dist(SegEnd(q[i]), z) = Dist(SegEnd(q[i]), nxt) + m
             /\ Dist(q[i].seq, nxt) + m <= (L - i + 2) * MSS
             /\ Dist(q[i].seq, nxt) \in Nat /\ Dist(SegEnd(q[i]), nxt) \in Nat
             /\ SegSize(q[i]) \in Nat
  <2>1. /\ Dist(q[i].seq, nxt) <= (L - i + 1) * MSS
        /\ Dist(SegEnd(q[i]), nxt) = Dist(q[i].seq, nxt) - SegSize(q[i])
        /\ SegSize(q[i]) \in 1 .. MSS
    <3>1. (L - i + 1) * MSS + 0 = (L - i + 1) * MSS BY <1>0, <1>2
    <3>2. QED BY <3>1 DEF Cov
  <2>2. Dist(q[i].seq, nxt) \in SeqNums /\ Dist(SegEnd(q[i]), nxt) \in SeqNums
    BY <1>1, DistValue
  <2>3. i \in 1 .. L + 1 /\ L + 1 \in Nat /\ L - i + 2 = L + 1 - i + 1 BY <1>0
  <2>4. (L - i + 2) * MSS \in Nat /\ 2 * ((L - i + 2) * MSS + 2) <= SeqSpace
    <3> DEFINE N == L + 1
    <3>1. N <= TX_POOL_COUNT /\ N \in Nat /\ i \in 1 .. N BY <2>3
    <3>1a. L - i + 2 = N - i + 1 BY <2>3
    <3> HIDE DEF N
    <3>2. (N - i + 1) * MSS \in Nat /\ 2 * ((N - i + 1) * MSS + 2) <= SeqSpace
      BY <3>1, RoomInSpace
    <3>3. QED BY <3>1a, <3>2
  <2>5. (L - i + 1) * MSS + MSS = (L - i + 2) * MSS /\ (L - i + 1) * MSS \in Int BY <1>0, <1>2
  <2>5a. PICK d, e, u, v : /\ d = Dist(q[i].seq, nxt) /\ e = Dist(SegEnd(q[i]), nxt)
                          /\ u = (L - i + 1) * MSS /\ v = (L - i + 2) * MSS
    OBVIOUS
  <2>5b. d \in Nat /\ e \in Nat /\ e <= d
    BY <2>1, <2>2, <2>5a DEF SeqNums
  <2>5c. u \in Int /\ v \in Nat /\ d <= u /\ u + MSS = v /\ 2 * (v + 2) <= SeqSpace
    BY <2>1, <2>4, <2>5, <2>5a, Zenon
  <2>5d. m \in Nat /\ MSS \in Nat /\ m <= MSS /\ SeqSpace \in Nat BY <1>2, SizesAssumption
  <2>5e. d + m <= v /\ d + m < SeqSpace /\ e + m < SeqSpace BY <2>5b, <2>5c, <2>5d
  <2>6. Dist(q[i].seq, nxt) + m <= (L - i + 2) * MSS BY <2>5a, <2>5e, Zenon
  <2>7. Dist(q[i].seq, nxt) + m < SeqSpace /\ Dist(SegEnd(q[i]), nxt) + m < SeqSpace
    BY <2>5a, <2>5e, Zenon
  <2>8. Dist(q[i].seq, z) = Dist(q[i].seq, nxt) + m /\ Dist(SegEnd(q[i]), z) = Dist(SegEnd(q[i]), nxt) + m
    BY <1>1, <1>4, <2>7
  <2>9. Dist(q[i].seq, nxt) \in Nat /\ Dist(SegEnd(q[i]), nxt) \in Nat BY <2>2 DEF SeqNums
  <2>10. QED BY <2>1, <2>6, <2>8, <2>9
<1>8. \A i \in 1 .. Len(p) :
        /\ SegSize(p[i]) \in 1 .. MSS
        /\ Dist(p[i].seq, z) <= (Len(p) - i + 1) * MSS + k
        /\ Dist(SegEnd(p[i]), z) = Dist(p[i].seq, z) - SegSize(p[i])
        /\ i < Len(p) => SegEnd(p[i]) = p[i + 1].seq
  <2>1. TAKE i \in 1 .. Len(p)
  <2>2. CASE i = L + 1
    <3>1. (Len(p) - i + 1) * MSS = MSS BY <1>0, <1>2, <2>2
    <3>2. p[i] = x /\ SegSize(p[i]) = m /\ ~(i < Len(p)) BY <1>0, <2>2 DEF m
    <3>3. Dist(p[i].seq, z) = m /\ Dist(SegEnd(p[i]), z) = 0 BY <1>5, <3>2
    <3>4. QED BY <1>2, <3>1, <3>2, <3>3
  <2>3. CASE i \in 1 .. L
    <3>1. p[i] = q[i] BY <1>0, <2>3
    <3>2. SegSize(q[i]) \in 1 .. MSS
          /\ Dist(SegEnd(q[i]), nxt) = Dist(q[i].seq, nxt) - SegSize(q[i])
      BY <2>3 DEF Cov
    <3>3. Len(p) - i + 1 = L - i + 2 /\ (L - i + 2) * MSS \in Int BY <1>0, <1>2, <2>3
    <3>4. i < Len(p) => SegEnd(p[i]) = p[i + 1].seq
      <4>1. CASE i < L
        <5>1. i + 1 \in 1 .. L BY <1>0, <2>3, <4>1
        <5>2. SegEnd(q[i]) = q[i + 1].seq BY <2>3, <4>1 DEF Cov
        <5>3. QED BY <1>0, <3>1, <5>1, <5>2
      <4>2. CASE i = L
        <5>1. q # <<>> BY <1>0, <2>3
        <5>2. Dist(SegEnd(q[L]), nxt) <= 0 BY <5>1 DEF Cov
        <5>3. SegEnd(q[L]) \in SeqNums BY <1>1, <2>3, <4>2
        <5>4. SegEnd(q[L]) = nxt BY <5>2, <5>3, DistZero
        <5>5. QED BY <1>0, <3>1, <4>2, <5>4
      <4>3. QED BY <1>0, <2>3, <4>1, <4>2
    <3>5. Dist(q[i].seq, z) <= (Len(p) - i + 1) * MSS + k
      <4>1. Dist(q[i].seq, z) <= (L - i + 2) * MSS BY <1>7, <2>3
      <4>2. Dist(q[i].seq, z) \in Int BY <1>2, <1>7, <2>3
      <4>3. QED BY <3>3, <4>1, <4>2
    <3>6. Dist(SegEnd(q[i]), z) = Dist(q[i].seq, z) - SegSize(q[i]) BY <1>2, <1>7, <2>3, <3>2
    <3>7. QED BY <3>1, <3>2, <3>4, <3>5, <3>6
  <2>4. QED BY <1>0, <2>1, <2>2, <2>3
<1>9. /\ Dist(SegEnd(p[1]), z) < Dist(una, z)
      /\ Dist(una, z) <= Dist(p[1].seq, z) \/ Dist(una, p[1].seq) = 1
      /\ Dist(SegEnd(p[Len(p)]), z) <= k
  <2>1. Dist(SegEnd(p[Len(p)]), z) <= k BY <1>0, <1>5
  <2>2. CASE L = 0
    <3>1. q = <<>> /\ p[1] = x BY <1>0, <2>2
    <3>2. Dist(una, nxt) <= 1 BY <3>1 DEF Cov
    <3>3. QED BY <1>2, <1>5, <1>6, <2>1, <3>1, <3>2
  <2>3. CASE L > 0
    <3>1. 1 \in 1 .. L /\ p[1] = q[1] /\ q # <<>> BY <1>0, <2>3
    <3>2. /\ Dist(SegEnd(q[1]), nxt) < Dist(una, nxt)
          /\ Dist(una, nxt) <= Dist(q[1].seq, nxt) \/ Dist(una, q[1].seq) = 1
      BY <3>1 DEF Cov
    <3>3. Dist(SegEnd(p[1]), z) < Dist(una, z)
      <4>1. Dist(SegEnd(q[1]), nxt) + m < Dist(una, nxt) + m BY <1>2, <1>6, <1>7, <3>1, <3>2
      <4>2. QED BY <1>6, <1>7, <3>1, <4>1
    <3>4. Dist(una, z) <= Dist(p[1].seq, z) \/ Dist(una, p[1].seq) = 1
      <4>1. Dist(una, nxt) + m <= Dist(q[1].seq, nxt) + m \/ Dist(una, q[1].seq) = 1
        BY <1>2, <1>6, <1>7, <3>1, <3>2
      <4>2. QED BY <1>6, <1>7, <3>1, <4>1
    <3>5. QED BY <2>1, <3>3, <3>4
  <2>4. QED BY <1>0, <2>2, <2>3
<1>10. Cov(una, z, k, p) BY <1>0, <1>8, <1>9 DEF Cov
<1>11. QED BY <1>10 DEF p, m


\* snd_nxt moves over a FIN for which the pool has no block.
LEMMA SkipCovers ==
  ASSUME NEW una \in SeqNums, NEW nxt \in SeqNums, NEW q \in Seq(TxSegs),
         Len(q) <= TX_POOL_COUNT, Cov(una, nxt, 0, q)
  PROVE  Cov(una, Add(nxt, 1), 1, q)
<1> DEFINE z == Add(nxt, 1)
           L == Len(q)
<1>1. /\ 2 * Dist(una, nxt) <= SeqSpace
      /\ \A i \in 1 .. L : /\ SegEnd(q[i]) \in SeqNums /\ q[i].seq \in SeqNums
                          /\ 2 * (Dist(q[i].seq, nxt) + 1) <= SeqSpace
                          /\ 2 * (Dist(SegEnd(q[i]), nxt) + 2) <= SeqSpace
  BY CovRoom
<1>2. 1 \in SeqNums /\ L \in Nat BY SizesAssumption DEF SeqNums
<1>3. ASSUME NEW a \in SeqNums, 2 * Dist(a, nxt) <= SeqSpace
      PROVE  Dist(a, z) = Dist(a, nxt) + 1 /\ Dist(a, nxt) \in Nat
  <2>1. Dist(a, nxt) \in SeqNums BY DistValue
  <2>2. Dist(a, nxt) + 1 < SeqSpace BY <1>3, <2>1, SizesAssumption DEF SeqNums
  <2>3. QED BY <1>2, <2>1, <2>2, DistGrows DEF SeqNums
<1>4. Dist(una, z) = Dist(una, nxt) + 1 /\ Dist(una, nxt) \in Nat BY <1>1, <1>3
<1>5. ASSUME NEW i \in 1 .. L
      PROVE  /\ Dist(q[i].seq, z) = Dist(q[i].seq, nxt) + 1 /\ Dist(q[i].seq, nxt) \in Nat
             /\ Dist(SegEnd(q[i]), z) = Dist(SegEnd(q[i]), nxt) + 1
             /\ Dist(SegEnd(q[i]), nxt) \in Nat
  <2>1. Dist(q[i].seq, nxt) \in SeqNums /\ Dist(SegEnd(q[i]), nxt) \in SeqNums
    BY <1>1, DistValue
  <2>2. 2 * Dist(q[i].seq, nxt) <= SeqSpace /\ 2 * Dist(SegEnd(q[i]), nxt) <= SeqSpace
    BY <1>1, <2>1, SizesAssumption DEF SeqNums
  <2>3. QED BY <1>1, <1>3, <2>2
<1> HIDE DEF z
<1>6. ASSUME NEW i \in 1 .. L
      PROVE  /\ SegSize(q[i]) \in 1 .. MSS
             /\ Dist(q[i].seq, z) <= (L - i + 1) * MSS + 1
             /\ Dist(SegEnd(q[i]), z) = Dist(q[i].seq, z) - SegSize(q[i])
             /\ i < L => SegEnd(q[i]) = q[i + 1].seq
  <2>1. /\ SegSize(q[i]) \in 1 .. MSS
        /\ Dist(q[i].seq, nxt) <= (L - i + 1) * MSS + 0
        /\ Dist(SegEnd(q[i]), nxt) = Dist(q[i].seq, nxt) - SegSize(q[i])
        /\ i < L => SegEnd(q[i]) = q[i + 1].seq
    BY DEF Cov
  <2>2. (L - i + 1) * MSS \in Int BY <1>2, SizesAssumption
  <2>3. QED BY <1>5, <2>1, <2>2, SizesAssumption
<1>7. ASSUME q # <<>>
      PROVE  /\ Dist(SegEnd(q[1]), z) < Dist(una, z)
             /\ Dist(una, z) <= Dist(q[1].seq, z) \/ Dist(una, q[1].seq) = 1
             /\ Dist(SegEnd(q[Len(q)]), z) <= 1
  <2>1. 1 \in 1 .. L /\ L \in 1 .. L BY <1>2, <1>7
  <2>2. /\ Dist(SegEnd(q[1]), nxt) < Dist(una, nxt)
        /\ Dist(una, nxt) <= Dist(q[1].seq, nxt) \/ Dist(una, q[1].seq) = 1
        /\ Dist(SegEnd(q[L]), nxt) <= 0
    BY <1>7 DEF Cov
  <2>3. Dist(SegEnd(q[L]), z) <= 1
    <3>1. Dist(SegEnd(q[L]), z) = Dist(SegEnd(q[L]), nxt) + 1 /\ Dist(SegEnd(q[L]), nxt) \in Nat
      BY <1>5, <2>1
    <3> HIDE DEF L
    <3>2. QED BY <2>2, <3>1
  <2>4. Dist(SegEnd(q[1]), z) < Dist(una, z) BY <1>4, <1>5, <2>1, <2>2
  <2>5. Dist(una, z) <= Dist(q[1].seq, z) \/ Dist(una, q[1].seq) = 1
    BY <1>4, <1>5, <2>1, <2>2
  <2>6. QED BY <2>3, <2>4, <2>5
<1>8. q = <<>> => Dist(una, z) <= 2
  <2>1. q = <<>> => Dist(una, nxt) <= 1 BY DEF Cov
  <2>2. QED BY <1>4, <2>1
<1>9. Cov(una, z, 1, q) BY <1>6, <1>7, <1>8 DEF Cov
<1>10. QED BY <1>9 DEF z

\* A connection starts covered, with its SYN queued or not.
LEMMA OpenCovers ==
  ASSUME NEW iss \in SeqNums
  PROVE  /\ Cov(iss, iss, 0, <<>>) /\ Cov(iss, Add(iss, 1), 0, <<>>)
         /\ Dist(iss, Add(iss, 1)) = 1
<1>1. Dist(iss, iss) = 0 BY DistValue, SizesAssumption DEF SeqNums
<1>2. 1 \in SeqNums BY SizesAssumption DEF SeqNums
<1>3. Dist(iss, iss) + 1 < SeqSpace BY <1>1, SizesAssumption
<1>4. Dist(iss, Add(iss, 1)) = 1 BY <1>1, <1>2, <1>3, DistGrows
<1>5. QED BY <1>1, <1>4 DEF Cov

(***************************************************************************)
(* The handlers.                                                           *)
(***************************************************************************)
\* A result that covers its slot keeps every slot covered.
LEMMA ApplyCovers ==
  ASSUME TxInv, NEW s \in Slots, NEW r, Covered(r.c, r.q), Apply(s, r) PROVE AllCovered'
<1>1. txq' = [txq EXCEPT ![s] = r.q] /\ conn' = [conn EXCEPT ![s] = r.c] BY DEF Apply
<1>2. \A t \in Slots : Covered(conn[t], txq[t]) BY DEF TxInv, AllCovered
<1>3. \A t \in Slots : Covered(conn'[t], txq'[t]) BY <1>1, <1>2 DEF TxInv, PoolInv, TypeOK
<1>4. QED BY <1>3 DEF AllCovered

\* A slot is as covered as another with the same state and sequence numbers.
LEMMA CoveredFrame ==
  ASSUME NEW c, NEW d, NEW q, Covered(c, q), c.active <=> d.active, d.state = c.state,
         d.snd_una = c.snd_una, d.snd_nxt = c.snd_nxt
  PROVE  Covered(d, q)
<1>1. Slack(d) = Slack(c) BY DEF Slack, FinSent
<1>2. QED BY <1>1 DEF Covered

\* A freed slot has nothing to cover.
LEMMA FreedCovered ==
  ASSUME NEW c, NEW q, NEW out, NEW ev
  PROVE  LET r == tcp_free_conn(c, q, out, ev) IN Covered(r.c, r.q)
<1>1. Freed(c).active = FALSE BY DEF Freed, ZeroConn
<1>2. QED BY <1>1 DEF tcp_free_conn, Result, Covered

\* tcp_process.
LEMMA AcceptedCovers ==
  ASSUME NEW c \in Conns, NEW q \in Seq(TxSegs), NEW g \in Segments, c.active, Covered(c, q),
         Len(q) <= TX_POOL_COUNT, c.state # SYN_SENT, NEW r, r = Accepted(c, q, g)
  PROVE  Covered(r.c, r.q)
<1> USE DEF CLOSED, SYN_SENT, SYN_RCVD, ESTABLISHED, FIN_WAIT_1, FIN_WAIT_2, CLOSE_WAIT, CLOSING,
            LAST_ACK, TIME_WAIT
<1> DEFINE x == AckConn(c, g)
           d == DataConn(x, g)
           f == FinConn(d, g)
           t == AckQueue(c, q, g)
           takes == "ACK" \in g.flags /\ AckTakes(c, g)
<1>1. x \in Conns BY AckConnType
<1>2. d \in Conns BY <1>1, DataConnType
<1>3. f \in Conns BY <1>2, FinConnType
<1>4. /\ x.snd_una = (IF takes THEN g.ack ELSE c.snd_una) /\ x.snd_nxt = c.snd_nxt
      /\ \/ x.state = c.state /\ ~(takes /\ c.state = SYN_RCVD)
         \/ c.state = SYN_RCVD /\ x.state = ESTABLISHED
         \/ FinSent(c) /\ x.state \in {FIN_WAIT_2, TIME_WAIT}
  <2> DEFINE y == AckedConn(c, g)
  <2>1. y.state = c.state /\ y.snd_una = (IF AckTakes(c, g) THEN g.ack ELSE c.snd_una)
        /\ y.snd_nxt = c.snd_nxt
    BY DEF AckedConn, TimersAfterAck, Conns
  <2>2. y \in Conns
    <3>1. RTO_INIT \in 0 .. 2 * RTO_LIMIT /\ 0 \in Nat /\ 0 \in 0 .. MAX_RETRIES
      BY TimersAssumption
    <3>2. TimersAfterAck(c) \in Conns BY <3>1 DEF TimersAfterAck, Conns
    <3>3. QED BY <3>2 DEF AckedConn, Conns, Segments
  <2> DEFINE y1 == [y EXCEPT !.state = ESTABLISHED]
             y2 == [y EXCEPT !.state = FIN_WAIT_2]
             y3 == EnterTimeWait(y)
  <2> HIDE DEF y
  <2>3. /\ y1.snd_una = y.snd_una /\ y1.snd_nxt = y.snd_nxt /\ y1.state = ESTABLISHED
        /\ y2.snd_una = y.snd_una /\ y2.snd_nxt = y.snd_nxt /\ y2.state = FIN_WAIT_2
    BY <2>2 DEF Conns
  <2>4. y3.snd_una = y.snd_una /\ y3.snd_nxt = y.snd_nxt /\ y3.state = TIME_WAIT
    BY <2>2 DEF EnterTimeWait, Conns
  <2>5. \/ x = c /\ "ACK" \notin g.flags
        \/ x = y /\ "ACK" \in g.flags /\ ~(c.state = SYN_RCVD /\ AckTakes(c, g))
        \/ c.state = SYN_RCVD /\ takes /\ x = y1
        \/ c.state = FIN_WAIT_1 /\ "ACK" \in g.flags /\ x = y2
        \/ c.state \in {TIME_WAIT, CLOSING} /\ "ACK" \in g.flags /\ x = y3
    BY DEF AckConn, y
  <2> HIDE DEF x, y1, y2, y3
  <2>6. x.snd_una = (IF takes THEN g.ack ELSE c.snd_una) BY <2>1, <2>3, <2>4, <2>5
  <2>7. x.snd_nxt = c.snd_nxt BY <2>1, <2>3, <2>4, <2>5
  <2>8. \/ x.state = c.state /\ ~(takes /\ c.state = SYN_RCVD)
        \/ c.state = SYN_RCVD /\ x.state = ESTABLISHED
        \/ FinSent(c) /\ x.state \in {FIN_WAIT_2, TIME_WAIT}
    BY <2>1, <2>3, <2>4, <2>5 DEF FinSent
  <2>9. QED BY <2>6, <2>7, <2>8
<1> HIDE DEF x
<1>5. d.state = x.state /\ d.snd_una = x.snd_una /\ d.snd_nxt = x.snd_nxt
  BY <1>1 DEF DataConn, WrittenConn, Conns
<1> HIDE DEF d
<1>6. /\ f.snd_una = d.snd_una /\ f.snd_nxt = d.snd_nxt
      /\ \/ f.state = d.state
         \/ d.state \in {SYN_RCVD, ESTABLISHED} /\ f.state = CLOSE_WAIT
         \/ FinSent(d) /\ f.state \in {CLOSING, TIME_WAIT}
  <2> DEFINE e == [d EXCEPT !.rcv_nxt = Add(@, 1), !.rcv_wnd = rx_free(d)]
             e1 == [e EXCEPT !.state = CLOSE_WAIT]
             e2 == [e EXCEPT !.state = CLOSING]
             e3 == EnterTimeWait(e)
  <2>1. e.state = d.state /\ e.snd_una = d.snd_una /\ e.snd_nxt = d.snd_nxt BY <1>2 DEF Conns
  <2>2. /\ e1.snd_una = d.snd_una /\ e1.snd_nxt = d.snd_nxt /\ e1.state = CLOSE_WAIT
        /\ e2.snd_una = d.snd_una /\ e2.snd_nxt = d.snd_nxt /\ e2.state = CLOSING
    BY <1>2 DEF Conns
  <2>3. e3.snd_una = d.snd_una /\ e3.snd_nxt = d.snd_nxt /\ e3.state = TIME_WAIT
    BY <1>2 DEF EnterTimeWait, Conns
  <2> HIDE DEF e
  <2>4. \/ f = d \/ f = e
        \/ d.state \in {SYN_RCVD, ESTABLISHED} /\ f = e1
        \/ d.state = FIN_WAIT_1 /\ f = e2
        \/ d.state \in {FIN_WAIT_1, FIN_WAIT_2, TIME_WAIT} /\ f = e3
    BY DEF FinConn, e
  <2> HIDE DEF f, e1, e2, e3
  <2>5. f.snd_una = d.snd_una /\ f.snd_nxt = d.snd_nxt BY <2>1, <2>2, <2>3, <2>4
  <2>6. \/ f.state = d.state
        \/ d.state \in {SYN_RCVD, ESTABLISHED} /\ f.state = CLOSE_WAIT
        \/ FinSent(d) /\ f.state \in {CLOSING, TIME_WAIT}
    BY <2>1, <2>2, <2>3, <2>4 DEF FinSent
  <2>7. QED BY <2>5, <2>6
<1>7. r.c = f /\ r.q = t.q BY DEF Accepted, Result, x, d
<1> HIDE DEF f
<1>8. Slack(f) = Slack(c) /\ (f.state \in {SYN_SENT, SYN_RCVD} => c.state = SYN_RCVD /\ ~takes)
  <2>1. x.state \in {SYN_SENT, SYN_RCVD} => c.state = SYN_RCVD /\ ~takes BY <1>4
  <2>2. FinSent(x) <=> FinSent(c) BY <1>4 DEF FinSent
  <2>3. FinSent(f) <=> FinSent(x) BY <1>5, <1>6 DEF FinSent
  <2>4. f.state \in {SYN_SENT, SYN_RCVD} => x.state = f.state BY <1>5, <1>6
  <2>5. QED BY <2>1, <2>2, <2>3, <2>4 DEF Slack
<1>9. Cov(c.snd_una, c.snd_nxt, Slack(c), q) /\ Slack(c) \in 0 .. 1
      /\ (c.state = SYN_RCVD => Dist(c.snd_una, c.snd_nxt) = 1)
  BY DEF Covered, Slack
<1>10. c.snd_una \in SeqNums /\ c.snd_nxt \in SeqNums /\ g.ack \in SeqNums BY DEF Conns, Segments
<1>11. CASE takes
  <2>1. t.q = tcp_tx_ack(q, g.ack).q BY <1>11 DEF AckQueue
  <2>2. \/ SEQ_GT(g.ack, c.snd_una) /\ SEQ_LEQ(g.ack, c.snd_nxt)
        \/ g.ack = c.snd_una /\ Dist(c.snd_una, c.snd_nxt) = 1
    <3>1. CASE c.state = SYN_RCVD
      <4>1. g.ack \in {c.snd_una, c.snd_nxt} BY <1>9, <1>10, <1>11, <3>1, AckOfSyn DEF AckTakes
      <4>2. SEQ_LEQ(g.ack, c.snd_nxt) BY <1>11, <3>1 DEF AckTakes
      <4>3. SEQ_GT(c.snd_nxt, c.snd_una) BY <1>9, <3>1, SizesAssumption DEF SEQ_GT, Dist
      <4>4. QED BY <1>9, <3>1, <4>1, <4>2, <4>3
    <3>2. CASE c.state # SYN_RCVD BY <1>11, <3>2 DEF AckTakes
    <3>3. QED BY <3>1, <3>2
  <2>3. Cov(g.ack, c.snd_nxt, Slack(c), t.q) BY <1>9, <1>10, <2>1, <2>2, AckCovers
  <2>4. QED BY <1>4, <1>5, <1>6, <1>7, <1>8, <1>11, <2>3 DEF Covered
<1>12. CASE ~takes
  <2>1. t.q = q BY <1>12 DEF AckQueue
  <2>2. QED BY <1>4, <1>5, <1>6, <1>7, <1>8, <1>9, <1>12, <2>1 DEF Covered
<1>13. QED BY <1>11, <1>12


\* The timer and link_down.
LEMMA TickCovers ==
  ASSUME TxInv, NEW s \in Slots
  PROVE  Covered(Tick(s).c, Tick(s).q) /\ Covered(DownOf(s).c, DownOf(s).q)
<1> DEFINE c == conn[s]
           q == txq[s]
           Good(r) == Covered(r.c, r.q)
<1>1. c \in Conns /\ Covered(c, q) BY DEF TxInv, AllCovered, PoolInv, TypeOK
<1> HIDE DEF c, q
<1>2. \A ev : Good(tcp_free_conn(c, q, {}, ev)) BY FreedCovered
<1>3. ASSUME NEW d, NEW out, d.active <=> c.active, d.state = c.state, d.snd_una = c.snd_una,
             d.snd_nxt = c.snd_nxt
      PROVE  Good(Result(d, q, {}, out, "none"))
  <2>1. Covered(d, q) BY <1>1, <1>3, CoveredFrame
  <2>2. QED BY <2>1 DEF Result
<1>4. Good(Untouched(s)) BY <1>1 DEF Untouched, Result, c, q
<1>5. Good(TimeWaitTick(s, c))
  <2>1. ASSUME NEW n PROVE Good(Result([c EXCEPT !.tw_counter = n], q, {}, {}, "none"))
    <3> DEFINE d == [c EXCEPT !.tw_counter = n]
    <3>1. (d.active <=> c.active) /\ d.state = c.state /\ d.snd_una = c.snd_una
          /\ d.snd_nxt = c.snd_nxt
      BY <1>1 DEF Conns
    <3> HIDE DEF d, Good
    <3>2. Good(Result(d, q, {}, {}, "none")) BY <1>3, <3>1
    <3>3. QED BY <3>2 DEF d
  <2> HIDE DEF Good
  <2>2. QED BY <1>2, <2>1 DEF TimeWaitTick, q
<1>6. ASSUME NEW n PROVE Good(Result([c EXCEPT !.idle_counter = n], q, {}, {}, "none"))
  <2> DEFINE d == [c EXCEPT !.idle_counter = n]
  <2>1. (d.active <=> c.active) /\ d.state = c.state /\ d.snd_una = c.snd_una
        /\ d.snd_nxt = c.snd_nxt
    BY <1>1 DEF Conns
  <2> HIDE DEF d, Good
  <2>2. Good(Result(d, q, {}, {}, "none")) BY <1>3, <2>1
  <2>3. QED BY <2>2 DEF d
<1>7. Good(RtoTick(s, c))
  <2>1. ASSUME NEW n, NEW k PROVE Good(Result([c EXCEPT !.idle_counter = n, !.rto_counter = k],
                                              q, {}, {}, "none"))
    <3> DEFINE d == [c EXCEPT !.idle_counter = n, !.rto_counter = k]
    <3>1. (d.active <=> c.active) /\ d.state = c.state /\ d.snd_una = c.snd_una
          /\ d.snd_nxt = c.snd_nxt
      BY <1>1 DEF Conns
    <3> HIDE DEF d, Good
    <3>2. Good(Result(d, q, {}, {}, "none")) BY <1>3, <3>1
    <3>3. QED BY <3>2 DEF d
  <2>2. ASSUME NEW n, NEW k, NEW m, NEW u, NEW out
        PROVE  Good(Result([c EXCEPT !.idle_counter = n, !.rto_counter = k, !.retries = m,
                                     !.rto_ticks = u], q, {}, out, "none"))
    <3> DEFINE d == [c EXCEPT !.idle_counter = n, !.rto_counter = k, !.retries = m,
                              !.rto_ticks = u]
    <3>1. (d.active <=> c.active) /\ d.state = c.state /\ d.snd_una = c.snd_una
          /\ d.snd_nxt = c.snd_nxt
      BY <1>1 DEF Conns
    <3> HIDE DEF d, Good
    <3>2. Good(Result(d, q, {}, out, "none")) BY <1>3, <3>1
    <3>3. QED BY <3>2 DEF d
  <2> HIDE DEF Good
  <2>3. QED BY <1>2, <2>1, <2>2 DEF RtoTick, q
<1> HIDE DEF Good
<1>8. Good(Tick(s)) BY <1>2, <1>4, <1>5, <1>6, <1>7 DEF Tick, IdleTick, c, q
<1>9. Good(DownOf(s)) BY <1>2, <1>4 DEF DownOf, c, q
<1>10. QED BY <1>8, <1>9 DEF Good

\* Each queue fits the pool, in this state and in the next.
LEMMA QueuesFit ==
  ASSUME PoolInv PROVE \A s \in Slots : txq[s] \in Seq(TxSegs) /\ Len(txq[s]) <= TX_POOL_COUNT
<1>1. \A s \in Slots : Distinct(txq[s]) BY DEF PoolInv, PoolOwnership, Distinct
<1>2. QED BY <1>1, QueueFitsPool DEF PoolInv, TypeOK

\* A segment for an existing connection.
LEMMA InputConnCovers ==
  ASSUME TxInv, NEW g \in Segments, InputConn(g) PROVE AllCovered'
<1> USE DEF CLOSED, SYN_SENT, SYN_RCVD, ESTABLISHED
<1> PICK s \in Slots :
      /\ IsConnOf(s, g)
      /\ \/ InputReset(s, g) \/ InputSynAck(s, g) \/ InputSynSyn(s, g)
         \/ InputSynDrop(s, g) \/ InputOutOfOrder(s, g) \/ InputBadSyn(s, g)
         \/ InputLastAck(s, g) \/ InputAccept(s, g)
  BY DEF InputConn
<1> DEFINE c == Known(s, g)
           q == txq[s]
<1>1. c \in Conns /\ q \in Seq(TxSegs) /\ conn[s] \in Conns /\ Len(q) <= TX_POOL_COUNT
  BY KnownType, QueuesFit DEF TxInv, PoolInv, TypeOK
<1>2. conn[s].active /\ Covered(conn[s], q) BY DEF IsConnOf, Matches, TxInv, AllCovered
<1>3. (c.active <=> conn[s].active) /\ c.state = conn[s].state
      /\ c.snd_una = conn[s].snd_una /\ c.snd_nxt = conn[s].snd_nxt
  BY <1>1 DEF Known, Conns
<1> HIDE DEF c, q
<1>4. c.active /\ Covered(c, q) BY <1>2, <1>3, CoveredFrame
<1>5. \A d, out, ev : LET r == tcp_free_conn(d, q, out, ev) IN Covered(r.c, r.q)
  BY FreedCovered
<1>6. CASE InputReset(s, g) BY <1>5, <1>6, ApplyCovers DEF InputReset, q
<1>7. CASE InputSynAck(s, g)
  <2> DEFINE d == [c EXCEPT !.rcv_nxt = Add(g.seq, 1), !.snd_una = g.ack,
                            !.state = ESTABLISHED, !.rto_ticks = RTO_INIT,
                            !.rto_counter = 0, !.retries = 0]
             t == tcp_tx_ack(q, g.ack)
             r == Result(d, t.q, t.freed, {PlainAck(d)}, Event(c, "CONNECTED"))
  <2>1. (d.active <=> c.active) /\ d.state = ESTABLISHED /\ d.snd_una = g.ack /\ d.snd_nxt = c.snd_nxt
    BY <1>1 DEF Conns
  <2>2. Apply(s, r) BY <1>7 DEF InputSynAck, c, q
  <2> HIDE DEF d
  <2>3. r.c = d /\ r.q = t.q BY DEF Result
  <2> HIDE DEF r, t
  <2>4. c.state = SYN_SENT /\ SEQ_GT(g.ack, c.snd_una) /\ SEQ_LEQ(g.ack, c.snd_nxt)
    BY <1>7 DEF InputSynAck, c
  <2>5. Slack(c) = 0 /\ Slack(d) = 0
    BY <2>1, <2>4 DEF Slack, FinSent, FIN_WAIT_1, FIN_WAIT_2, CLOSING, LAST_ACK, TIME_WAIT
  <2>6. c.snd_una \in SeqNums /\ c.snd_nxt \in SeqNums /\ g.ack \in SeqNums
    BY <1>1 DEF Conns, Segments
  <2>7. Cov(c.snd_una, c.snd_nxt, 0, q) BY <1>4, <2>5 DEF Covered
  <2>8. Cov(g.ack, c.snd_nxt, 0, t.q) BY <1>1, <2>4, <2>6, <2>7, AckCovers DEF t
  <2>9. Covered(r.c, r.q) BY <2>1, <2>3, <2>5, <2>8 DEF Covered
  <2>10. QED BY <2>2, <2>9, ApplyCovers
<1>8. CASE InputSynSyn(s, g)
  <2> DEFINE d == [c EXCEPT !.rcv_nxt = Add(g.seq, 1), !.state = SYN_RCVD]
             r == Result(d, q, {}, {tcp_send_segment(d, {"SYN", "ACK"}, d.snd_una, <<>>)}, "none")
  <2>1. (d.active <=> c.active) /\ d.state = SYN_RCVD /\ d.snd_una = c.snd_una /\ d.snd_nxt = c.snd_nxt
    BY <1>1 DEF Conns
  <2>2. Apply(s, r) BY <1>8 DEF InputSynSyn, c, q
  <2> HIDE DEF d
  <2>3. r.c = d /\ r.q = q BY DEF Result
  <2> HIDE DEF r
  <2>4. c.state = SYN_SENT BY <1>3, <1>8 DEF InputSynSyn
  <2>5. Slack(c) = 0 /\ Slack(d) = 0
    BY <2>1, <2>4 DEF Slack, FinSent, FIN_WAIT_1, FIN_WAIT_2, CLOSING, LAST_ACK, TIME_WAIT
  <2>6. Covered(r.c, r.q) BY <1>4, <2>1, <2>3, <2>4, <2>5 DEF Covered
  <2>7. QED BY <2>2, <2>6, ApplyCovers
<1>9. ASSUME NEW out, Apply(s, Result(c, q, {}, out, "none")) PROVE AllCovered'
  <2> DEFINE r == Result(c, q, {}, out, "none")
  <2>1. Covered(r.c, r.q) BY <1>4 DEF Result
  <2> HIDE DEF r
  <2>2. QED BY <1>9, <2>1, ApplyCovers DEF r
<1>10. CASE InputSynDrop(s, g) \/ InputOutOfOrder(s, g)
  BY <1>9, <1>10 DEF InputSynDrop, InputOutOfOrder, c, q
<1>11. CASE InputBadSyn(s, g) BY <1>5, <1>11, ApplyCovers DEF InputBadSyn, c, q
<1>12. CASE InputLastAck(s, g) BY <1>5, <1>12, ApplyCovers DEF InputLastAck, c, q
<1>13. CASE InputAccept(s, g)
  <2>1. Apply(s, Accepted(c, q, g)) /\ c.state >= SYN_RCVD BY <1>13 DEF InputAccept, c, q
  <2>1a. c.state # SYN_SENT BY <2>1
  <2>2. Covered(Accepted(c, q, g).c, Accepted(c, q, g).q)
    BY <1>1, <1>4, <2>1a, AcceptedCovers
  <2>3. QED BY <2>1, <2>2, ApplyCovers
<1>14. QED BY <1>6, <1>7, <1>8, <1>10, <1>11, <1>12, <1>13

(***************************************************************************)
(* The calls.                                                              *)
(***************************************************************************)
\* What tcp_tx_enqueue appends, and that there is room for it.
Enqueued(s, n, fl, d) ==
  \E x \in TxSegs : /\ x.seq = n /\ x.data = d /\ x.flags = fl
                    /\ txq' = [txq EXCEPT ![s] = Append(txq[s], x)]
                    /\ Len(txq[s]) + 1 <= TX_POOL_COUNT

LEMMA EnqueueShape ==
  ASSUME PoolInv, PoolInv', NEW s \in Slots, NEW n \in SeqNums, NEW fl \in SUBSET Flags,
         NEW d \in Seq(Bytes), tcp_tx_enqueue(s, txq[s], n, fl, d)
  PROVE  Enqueued(s, n, fl, d)
<1> DEFINE bb == CHOOSE b \in free : TRUE
           x == [blk |-> bb, seq |-> n, data |-> d, flags |-> fl]
<1>1. bb \in Blocks BY DEF tcp_tx_enqueue, PoolInv, TypeOK
<1>2. txq' = [txq EXCEPT ![s] = Append(txq[s], x)] BY DEF tcp_tx_enqueue
<1> HIDE DEF bb
<1>3. x \in TxSegs /\ x.seq = n /\ x.data = d /\ x.flags = fl BY <1>1 DEF TxSegs
<1> HIDE DEF x
<1>4. txq[s] \in Seq(TxSegs) /\ txq'[s] = Append(txq[s], x) BY <1>2 DEF PoolInv, TypeOK
<1>5. Len(txq'[s]) = Len(txq[s]) + 1 BY <1>3, <1>4
<1>6. Len(txq'[s]) <= TX_POOL_COUNT
  <2>1. txq'[s] \in Seq(TxSegs) BY <1>3, <1>4
  <2>2. Distinct(txq'[s]) BY DEF PoolInv, PoolOwnership, Distinct
  <2>3. QED BY <2>1, <2>2, QueueFitsPool
<1>7. QED BY <1>2, <1>3, <1>5, <1>6 DEF Enqueued

\* One slot changed, and covered: all are.
LEMMA SlotCovers ==
  ASSUME TxInv, NEW s \in Slots, NEW c, NEW q, Covered(c, q), conn' = [conn EXCEPT ![s] = c],
         txq' = [txq EXCEPT ![s] = q]
  PROVE  AllCovered'
<1>1. \A t \in Slots : Covered(conn[t], txq[t]) BY DEF TxInv, AllCovered
<1>2. \A t \in Slots : Covered(conn'[t], txq'[t]) BY <1>1 DEF TxInv, PoolInv, TypeOK
<1>3. QED BY <1>2 DEF AllCovered

\* A connection opened on a free slot, actively or passively.
LEMMA OpenSlotCovers ==
  ASSUME TxInv, PoolInv', NEW s \in Slots, IsFreeSlot(s), NEW st \in {SYN_SENT, SYN_RCVD},
         NEW r, NEW p, NEW cb, NEW m, NEW iss \in SeqNums, NEW rcv,
         NEW fl \in {{"SYN"}, {"SYN", "ACK"}},
         EnqueueOrSkip(s, <<>>, iss, fl),
         conn' = [conn EXCEPT ![s] = OpenConn(st, r, p, cb, m, iss, rcv)]
  PROVE  AllCovered'
<1> USE DEF SYN_SENT, SYN_RCVD
<1> DEFINE c == OpenConn(st, r, p, cb, m, iss, rcv)
<1>1. c.active = TRUE /\ c.state = st /\ c.snd_una = iss /\ c.snd_nxt = Add(iss, 1)
  BY DEF OpenConn, ZeroConn
<1> HIDE DEF c
<1>2. Slack(c) = 0
  BY <1>1 DEF Slack, FinSent, FIN_WAIT_1, FIN_WAIT_2, CLOSING, LAST_ACK, TIME_WAIT
<1>3. txq[s] = <<>> BY DEF IsFreeSlot, TxInv, PoolInv, SlotsOK, SlotOK
<1>4. \A q : Cov(iss, Add(iss, 1), 0, q) => Covered(c, q) BY <1>1, <1>2, OpenCovers DEF Covered
<1>5. CASE tcp_tx_enqueue(s, <<>>, iss, fl, <<>>)
  <2>1. fl \in SUBSET Flags /\ <<>> \in Seq(Bytes) BY DEF Flags
  <2>1a. PoolInv /\ tcp_tx_enqueue(s, txq[s], iss, fl, <<>>) BY <1>3, <1>5 DEF TxInv
  <2>1b. PICK x \in TxSegs : /\ x.seq = iss /\ x.data = <<>> /\ x.flags = fl
                             /\ txq' = [txq EXCEPT ![s] = Append(txq[s], x)]
                             /\ Len(txq[s]) + 1 <= TX_POOL_COUNT
    <3>1. Enqueued(s, iss, fl, <<>>) BY <2>1, <2>1a, EnqueueShape
    <3>2. QED BY <3>1 DEF Enqueued
  <2>2. /\ x.seq = iss /\ x.data = <<>> /\ x.flags = fl
        /\ txq' = [txq EXCEPT ![s] = Append(<<>>, x)] /\ Len(<<>>) + 1 <= TX_POOL_COUNT
    BY <1>3, <2>1b
  <2>3. SegSize(x) = 1
    <3>1. Weight(fl) = 1 BY DEF Weight
    <3>2. QED BY <2>2, <3>1 DEF SegSize
  <2>4. 1 \in 1 .. MSS /\ 0 \in 0 .. 1 BY SizesAssumption
  <2>5. Cov(iss, Add(iss, SegSize(x)), 0, Append(<<>>, x))
    <3>1. <<>> \in Seq(TxSegs) /\ Cov(iss, iss, 0, <<>>) BY OpenCovers
    <3>2. SegSize(x) \in 1 .. MSS BY <2>3, <2>4
    <3>3. QED BY <2>2, <2>4, <3>1, <3>2, AppendCovers
  <2>6. Covered(c, Append(<<>>, x)) BY <1>4, <2>3, <2>5
  <2>7. QED BY <2>2, <2>6, SlotCovers DEF c
<1>6. CASE free = {} /\ txq' = [txq EXCEPT ![s] = <<>>] /\ UNCHANGED free
  <2>1. Covered(c, <<>>) BY <1>4, OpenCovers
  <2>2. QED BY <1>6, <2>1, SlotCovers DEF c
<1>7. QED BY <1>5, <1>6 DEF EnqueueOrSkip

\* Each call of the application leaves every slot covered.
LEMMA ApplicationCovers ==
  ASSUME TxInv, PoolInv',
         \/ \E p \in Ports : Listen(p) \/ Unlisten(p)
         \/ \E r \in Remotes, p \in Ports : Connect(r, p) \/ ConnectFails(r, p)
         \/ \E s \in Slots : \/ \E d \in Payloads : Send(s, d)
                             \/ \E n \in ReadSizes : Read(s, n)
                             \/ CloseGraceful(s) \/ CloseHandshake(s) \/ Abort(s)
  PROVE  AllCovered'
<1> USE DEF CLOSED, SYN_SENT, SYN_RCVD, ESTABLISHED, CLOSE_WAIT, FIN_WAIT_1, FIN_WAIT_2, CLOSING,
            LAST_ACK, TIME_WAIT
<1>0. /\ PoolInv
      /\ \A s \in Slots : /\ conn[s] \in Conns /\ Covered(conn[s], txq[s])
                          /\ txq[s] \in Seq(TxSegs) /\ Len(txq[s]) <= TX_POOL_COUNT
  BY QueuesFit DEF TxInv, AllCovered, PoolInv, TypeOK
<1>1. CASE \E p \in Ports : Listen(p) \/ Unlisten(p)
  <2>1. conn' = conn /\ txq' = txq BY <1>1 DEF Listen, Unlisten
  <2>2. QED BY <1>0, <2>1 DEF AllCovered, Covered, Cov
<1>2. ASSUME NEW r, NEW p, Connect(r, p) PROVE AllCovered'
  <2>1. PICK s \in Slots :
          /\ IsFreeSlot(s) /\ EnqueueOrSkip(s, <<>>, tcp_gen_iss, {"SYN"})
          /\ conn' = [conn EXCEPT ![s] = OpenConn(SYN_SENT, r, p, TRUE, MSS, tcp_gen_iss, 0)]
    BY <1>2 DEF Connect
  <2>2. tcp_gen_iss \in SeqNums BY SizesAssumption DEF tcp_gen_iss, Add, SeqNums, PoolInv, TypeOK, TxInv
  <2>3. SYN_SENT \in {SYN_SENT, SYN_RCVD} /\ {"SYN"} \in {{"SYN"}, {"SYN", "ACK"}} OBVIOUS
  <2>4. QED BY <2>1, <2>2, <2>3, OpenSlotCovers
<1>3. ASSUME NEW r, NEW p, ConnectFails(r, p) PROVE AllCovered'
  <2> DEFINE c == Freed(OpenConn(SYN_SENT, r, p, TRUE, MSS, 0, 0))
  <2>1. PICK s \in Slots : conn' = [conn EXCEPT ![s] = c] /\ txq' = txq BY <1>3 DEF ConnectFails
  <2>2. c.active = FALSE BY DEF Freed, ZeroConn
  <2> HIDE DEF c
  <2>3. Covered(c, txq[s]) BY <2>2 DEF Covered
  <2>4. txq' = [txq EXCEPT ![s] = txq[s]] BY <2>1 DEF TxInv, PoolInv, TypeOK
  <2>5. QED BY <2>1, <2>3, <2>4, SlotCovers
<1>4. ASSUME NEW s \in Slots, NEW d \in Payloads, Send(s, d) PROVE AllCovered'
  <2> DEFINE c == conn[s]
             e == [c EXCEPT !.snd_nxt = Add(c.snd_nxt, Len(d)), !.rto_counter = 0, !.retries = 0]
  <2>1. /\ c.state \in {ESTABLISHED, CLOSE_WAIT} /\ Len(d) <= c.snd_mss
        /\ tcp_tx_enqueue(s, txq[s], c.snd_nxt, {}, d)
    BY <1>4 DEF Send
  <2>2. conn' = [conn EXCEPT ![s] = e] BY <1>0, <1>4 DEF Send, TxInv, PoolInv, TypeOK
  <2>3. c \in Conns /\ c.snd_una \in SeqNums /\ c.snd_nxt \in SeqNums /\ c.snd_mss \in 0 .. MSS
    BY <1>0 DEF Conns
  <2>4. (e.active <=> c.active) /\ e.state = c.state /\ e.snd_una = c.snd_una
        /\ e.snd_nxt = Add(c.snd_nxt, Len(d))
    BY <2>3 DEF Conns
  <2> HIDE DEF c, e
  <2>5. d \in Seq(Bytes) /\ Len(d) \in 1 .. MSS
    <3>1. d \in Seq(Bytes) /\ d # <<>> BY InputsAssumption
    <3>2. Len(d) \in Nat /\ Len(d) # 0 BY <3>1
    <3>3. QED BY <2>1, <2>3, <3>1, <3>2, SizesAssumption
  <2>6. {} \in SUBSET Flags OBVIOUS
  <2>7. PICK x \in TxSegs : /\ x.seq = c.snd_nxt /\ x.data = d /\ x.flags = {}
                            /\ txq' = [txq EXCEPT ![s] = Append(txq[s], x)]
                            /\ Len(txq[s]) + 1 <= TX_POOL_COUNT
    <3>1. Enqueued(s, c.snd_nxt, {}, d) BY <1>0, <2>1, <2>3, <2>5, <2>6, EnqueueShape
    <3>2. QED BY <3>1 DEF Enqueued
  <2>8. SegSize(x) = Len(d) /\ SegSize(x) \in 1 .. MSS
    <3>1. Weight({}) = 0 BY DEF Weight
    <3>2. QED BY <2>5, <2>7, <3>1 DEF SegSize
  <2>9. Slack(c) = 0 /\ Slack(e) = 0 /\ ~(e.state \in {SYN_SENT, SYN_RCVD})
    BY <2>1, <2>4 DEF Slack, FinSent
  <2>10. Covered(e, Append(txq[s], x))
    <3>1. SUFFICES ASSUME c.active PROVE Cov(c.snd_una, Add(c.snd_nxt, Len(d)), 0, Append(txq[s], x))
      BY <2>4, <2>9 DEF Covered
    <3>2. Cov(c.snd_una, c.snd_nxt, 0, txq[s]) BY <1>0, <2>9, <3>1 DEF Covered, c
    <3>3. Cov(c.snd_una, Add(c.snd_nxt, SegSize(x)), 0, Append(txq[s], x))
      <4>1. 0 \in 0 .. 1 /\ txq[s] \in Seq(TxSegs) BY <1>0
      <4>2. QED BY <2>3, <2>7, <2>8, <3>2, <4>1, AppendCovers
    <3>4. QED BY <2>8, <3>3
  <2>11. QED BY <2>2, <2>7, <2>10, SlotCovers
<1>5. ASSUME NEW s \in Slots, NEW n \in ReadSizes, Read(s, n) PROVE AllCovered'
  <2> DEFINE c == conn[s]
             t == [c EXCEPT !.rx_tail = (c.rx_tail + ReadLen(c, n)) % RX_BUF_SIZE]
             e == [t EXCEPT !.rcv_wnd = rx_free(t)]
  <2>1. conn' = [conn EXCEPT ![s] = e] /\ txq' = txq BY <1>5 DEF Read, ReadConn
  <2>2. (c.active <=> e.active) /\ e.state = c.state /\ e.snd_una = c.snd_una /\ e.snd_nxt = c.snd_nxt
    BY <1>0 DEF Conns
  <2> HIDE DEF t, e
  <2>3. Covered(e, txq[s]) BY <1>0, <2>2, CoveredFrame
  <2>4. txq' = [txq EXCEPT ![s] = txq[s]] BY <2>1 DEF TxInv, PoolInv, TypeOK
  <2>5. QED BY <2>1, <2>3, <2>4, SlotCovers
<1>6. ASSUME NEW s \in Slots, CloseGraceful(s) PROVE AllCovered'
  <2> DEFINE c == conn[s]
             st == IF c.state = ESTABLISHED THEN FIN_WAIT_1 ELSE LAST_ACK
             e == [c EXCEPT !.snd_nxt = Add(c.snd_nxt, 1), !.state = st,
                            !.rto_counter = 0, !.retries = 0]
  <2>1. c.state \in {ESTABLISHED, CLOSE_WAIT} /\ EnqueueOrSkip(s, txq[s], c.snd_nxt, {"FIN"})
    BY <1>6 DEF CloseGraceful
  <2>2. conn' = [conn EXCEPT ![s] = e] BY <1>0, <1>6 DEF CloseGraceful, TxInv, PoolInv, TypeOK
  <2>3. c \in Conns /\ c.snd_una \in SeqNums /\ c.snd_nxt \in SeqNums BY <1>0 DEF Conns
  <2>4. (e.active <=> c.active) /\ e.state = st /\ e.snd_una = c.snd_una
        /\ e.snd_nxt = Add(c.snd_nxt, 1)
    BY <2>3 DEF Conns
  <2>5. st \in {FIN_WAIT_1, LAST_ACK} OBVIOUS
  <2> HIDE DEF c, e, st
  <2>6. Slack(c) = 0 /\ Slack(e) = 1 /\ ~(e.state \in {SYN_SENT, SYN_RCVD})
    BY <2>1, <2>4, <2>5 DEF Slack, FinSent
  <2>7. \A q : (c.active => Cov(c.snd_una, Add(c.snd_nxt, 1), 1, q)) => Covered(e, q)
    BY <2>4, <2>6 DEF Covered
  <2>8. c.active => Cov(c.snd_una, c.snd_nxt, 0, txq[s]) BY <1>0, <2>6 DEF Covered, c
  <2>9. CASE tcp_tx_enqueue(s, txq[s], c.snd_nxt, {"FIN"}, <<>>)
    <3>1. {"FIN"} \in SUBSET Flags /\ <<>> \in Seq(Bytes) BY DEF Flags
    <3>2. PICK x \in TxSegs : /\ x.seq = c.snd_nxt /\ x.data = <<>> /\ x.flags = {"FIN"}
                              /\ txq' = [txq EXCEPT ![s] = Append(txq[s], x)]
                              /\ Len(txq[s]) + 1 <= TX_POOL_COUNT
      <4>1. Enqueued(s, c.snd_nxt, {"FIN"}, <<>>) BY <1>0, <2>3, <2>9, <3>1, EnqueueShape
      <4>2. QED BY <4>1 DEF Enqueued
    <3>3. SegSize(x) = 1 /\ SegSize(x) \in 1 .. MSS
      <4>1. Weight({"FIN"}) = 1 BY DEF Weight
      <4>2. QED BY <3>2, <4>1, SizesAssumption DEF SegSize
    <3>4. ASSUME c.active PROVE Cov(c.snd_una, Add(c.snd_nxt, SegSize(x)), 1, Append(txq[s], x))
      <4>1. 1 \in 0 .. 1 /\ txq[s] \in Seq(TxSegs) /\ Cov(c.snd_una, c.snd_nxt, 0, txq[s])
        BY <1>0, <2>8, <3>4
      <4>2. QED BY <2>3, <3>2, <3>3, <4>1, AppendCovers
    <3>5. Covered(e, Append(txq[s], x)) BY <2>7, <3>3, <3>4
    <3>6. QED BY <2>2, <3>2, <3>5, SlotCovers
  <2>10. CASE free = {} /\ txq' = [txq EXCEPT ![s] = txq[s]] /\ UNCHANGED free
    <3>1. ASSUME c.active PROVE Cov(c.snd_una, Add(c.snd_nxt, 1), 1, txq[s])
      BY <1>0, <2>3, <2>8, <3>1, SkipCovers
    <3>2. Covered(e, txq[s]) BY <2>7, <3>1
    <3>3. QED BY <2>2, <2>10, <3>2, SlotCovers
  <2>11. QED BY <2>1, <2>9, <2>10 DEF EnqueueOrSkip
<1>7. ASSUME NEW s \in Slots, CloseHandshake(s) \/ Abort(s) PROVE AllCovered'
  <2>1. PICK out : Apply(s, tcp_free_conn(conn[s], txq[s], out, "local"))
    BY <1>7 DEF CloseHandshake, Abort
  <2> DEFINE r == tcp_free_conn(conn[s], txq[s], out, "local")
  <2>2. Covered(r.c, r.q) BY FreedCovered
  <2> HIDE DEF r
  <2>3. QED BY <2>1, <2>2, ApplyCovers DEF r
<1>8. QED BY <1>1, <1>2, <1>3, <1>4, <1>5, <1>6, <1>7

\* Every step keeps TxInv.
LEMMA NextTx == TxInv /\ [Next]_vars => TxInv'
<1> SUFFICES ASSUME TxInv, [Next]_vars PROVE TxInv' OBVIOUS
<1>0. PoolInv' BY NextPool DEF TxInv
<1>1. \A s \in Slots : Covered(conn[s], txq[s]) BY DEF TxInv, AllCovered
<1>2. ASSUME conn' = conn, txq' = txq PROVE AllCovered'
  BY <1>1, <1>2 DEF AllCovered, Covered, Cov
<1>3. ASSUME NEW g \in Inputs, Input(g) PROVE AllCovered'
  <2>1. g \in Segments BY InputsAssumption
  <2>2. CASE InputConn(g) BY <2>1, <2>2, InputConnCovers
  <2>3. CASE InputListen(g)
    <3>1. PICK s \in Slots :
            /\ IsFreeSlot(s) /\ EnqueueOrSkip(s, <<>>, tcp_gen_iss, {"SYN", "ACK"})
            /\ conn' = [conn EXCEPT ![s] = OpenConn(SYN_RCVD, g.remote, g.port, g.port # 0,
                                                    ClampMss(g.mss), tcp_gen_iss, Add(g.seq, 1))]
      BY <2>3 DEF InputListen
    <3>2. tcp_gen_iss \in SeqNums
      BY SizesAssumption DEF tcp_gen_iss, Add, SeqNums, PoolInv, TypeOK, TxInv
    <3>3. SYN_RCVD \in {SYN_SENT, SYN_RCVD} /\ {"SYN", "ACK"} \in {{"SYN"}, {"SYN", "ACK"}} OBVIOUS
    <3>4. QED BY <1>0, <3>1, <3>2, <3>3, OpenSlotCovers
  <2>4. CASE InputDropped(g) \/ InputStray(g) BY <1>2, <2>4 DEF InputDropped, InputStray, vars
  <2>5. QED BY <1>3, <2>2, <2>3, <2>4 DEF Input
<1>4. ASSUME LinkDown \/ Periodic PROVE AllCovered'
  <2>1. \/ \A s \in Slots : conn'[s] = DownOf(s).c /\ txq'[s] = DownOf(s).q
        \/ \A s \in Slots : conn'[s] = Tick(s).c /\ txq'[s] = Tick(s).q
    BY <1>4 DEF LinkDown, Periodic, ApplyAll
  <2>2. \A s \in Slots : Covered(conn'[s], txq'[s]) BY <2>1, TickCovers, Zenon
  <2>3. QED BY <2>2 DEF AllCovered
<1>5. ASSUME UNCHANGED vars PROVE AllCovered' BY <1>2, <1>5 DEF vars
<1>6. AllCovered' BY <1>0, <1>3, <1>4, <1>5, ApplicationCovers DEF Next
<1>7. QED BY <1>0, <1>6 DEF TxInv

\* In terms of the code's comparisons.
LEMMA CoveredIsResendable == TxInv => TxCoversUnacked
<1> SUFFICES ASSUME TxInv, NEW s \in Slots, conn[s].active
             PROVE  LET c == conn[s]
                        q == txq[s]
                        Gap(a, b) == (b - a) % SeqSpace
                    IN  /\ \A i \in 1 .. Len(q) - 1 : SegEnd(q[i]) = q[i + 1].seq
                        /\ q # <<>> =>
                             /\ SEQ_GT(SegEnd(q[1]), c.snd_una)
                             /\ SEQ_LEQ(q[1].seq, c.snd_una) \/ Gap(c.snd_una, q[1].seq) = 1
                             /\ Gap(SegEnd(q[Len(q)]), c.snd_nxt) <= IF FinSent(c) THEN 1 ELSE 0
                        /\ q = <<>> => Gap(c.snd_una, c.snd_nxt) <= IF FinSent(c) THEN 2 ELSE 1
  BY DEF TxCoversUnacked
<1> DEFINE una == conn[s].snd_una
           nxt == conn[s].snd_nxt
           k == Slack(conn[s])
           q == txq[s]
<1>1. /\ Cov(una, nxt, k, q) /\ una \in SeqNums /\ nxt \in SeqNums
      /\ q \in Seq(TxSegs) /\ Len(q) <= TX_POOL_COUNT /\ k \in 0 .. 1
      /\ k = IF FinSent(conn[s]) THEN 1 ELSE 0
  <2>1. PoolInv /\ Covered(conn[s], txq[s]) /\ conn[s] \in Conns
    BY DEF TxInv, AllCovered, PoolInv, TypeOK
  <2>2. q \in Seq(TxSegs) /\ Len(q) <= TX_POOL_COUNT BY <2>1, QueuesFit
  <2>3. una \in SeqNums /\ nxt \in SeqNums BY <2>1 DEF Conns
  <2>4. Cov(una, nxt, k, q) BY <2>1 DEF Covered
  <2>5. k \in 0 .. 1 /\ k = IF FinSent(conn[s]) THEN 1 ELSE 0 BY DEF Slack
  <2> HIDE DEF una, nxt, k, q
  <2>6. QED BY <2>2, <2>3, <2>4, <2>5
<1> HIDE DEF una, nxt, k, q
<1>2. \A i \in 1 .. Len(q) - 1 : SegEnd(q[i]) = q[i + 1].seq BY <1>1 DEF Cov
<1>3. ASSUME q # <<>>
      PROVE  /\ SEQ_GT(SegEnd(q[1]), una)
             /\ SEQ_LEQ(q[1].seq, una) \/ Dist(una, q[1].seq) = 1
             /\ Dist(SegEnd(q[Len(q)]), nxt) <= k
  <2>1. 1 \in 1 .. Len(q) /\ Len(q) \in Nat BY <1>1, <1>3
  <2>2. /\ Dist(SegEnd(q[1]), nxt) < Dist(una, nxt)
        /\ Dist(una, nxt) <= Dist(q[1].seq, nxt) \/ Dist(una, q[1].seq) = 1
        /\ Dist(SegEnd(q[Len(q)]), nxt) <= k
        /\ Dist(SegEnd(q[1]), nxt) = Dist(q[1].seq, nxt) - SegSize(q[1])
        /\ SegSize(q[1]) \in 1 .. MSS
    BY <1>1, <1>3, <2>1 DEF Cov
  <2>3. /\ 2 * Dist(una, nxt) <= SeqSpace
        /\ SegEnd(q[1]) \in SeqNums /\ q[1].seq \in SeqNums
        /\ 2 * (Dist(q[1].seq, nxt) + 1) <= SeqSpace
        /\ 2 * (Dist(SegEnd(q[1]), nxt) + 2) <= SeqSpace
    BY <1>1, <2>1, CovRoom
  <2>4. /\ Dist(una, nxt) \in SeqNums /\ Dist(q[1].seq, nxt) \in SeqNums
        /\ Dist(SegEnd(q[1]), nxt) \in SeqNums
    BY <1>1, <2>3, DistValue
  <2>5. 2 * Dist(SegEnd(q[1]), nxt) <= SeqSpace /\ 2 * Dist(q[1].seq, nxt) <= SeqSpace
        /\ (Dist(SegEnd(q[1]), nxt) > 0 \/ 2 * Dist(una, nxt) < SeqSpace
            => 2 * (Dist(una, nxt) - Dist(SegEnd(q[1]), nxt)) < SeqSpace)
    BY <2>3, <2>4, SizesAssumption DEF SeqNums
  <2>6. 2 * (Dist(una, nxt) - Dist(SegEnd(q[1]), nxt)) < SeqSpace
    <3>1. Dist(una, nxt) <= Dist(q[1].seq, nxt) + 1 BY <1>1, <2>2, <2>3, DistStep
    <3>2. 2 * (MSS + 2) <= SeqSpace
      <4>1. TX_POOL_COUNT \in Nat /\ TX_POOL_COUNT >= 1 BY <1>1, <2>1, SizesAssumption
      <4>2. 1 \in 1 .. TX_POOL_COUNT /\ TX_POOL_COUNT <= TX_POOL_COUNT BY <4>1
      <4>3. /\ (TX_POOL_COUNT - 1 + 1) * MSS \in Nat
            /\ 2 * ((TX_POOL_COUNT - 1 + 1) * MSS + 2) <= SeqSpace
            /\ MSS <= (TX_POOL_COUNT - 1 + 1) * MSS
        BY <4>1, <4>2, RoomInSpace
      <4> DEFINE N == (TX_POOL_COUNT - 1 + 1) * MSS
      <4>4. N \in Nat /\ 2 * (N + 2) <= SeqSpace /\ MSS <= N BY <4>3
      <4> HIDE DEF N
      <4>5. QED BY <4>4, SizesAssumption
    <3>3. QED BY <2>2, <2>4, <3>1, <3>2, SizesAssumption DEF SeqNums
  <2>7. SEQ_GT(SegEnd(q[1]), una) BY <1>1, <2>2, <2>3, <2>5, <2>6, GtByDist
  <2>8. SEQ_GT(q[1].seq, una) => Dist(q[1].seq, nxt) < Dist(una, nxt)
    BY <1>1, <2>3, <2>5, GtByDist
  <2>9. SEQ_LEQ(q[1].seq, una) \/ Dist(una, q[1].seq) = 1 BY <2>2, <2>4, <2>8 DEF SEQ_LEQ, SeqNums
  <2>10. QED BY <2>2, <2>7, <2>9
<1>4. q = <<>> => Dist(una, nxt) <= 1 + k BY <1>1 DEF Cov
<1>5. QED BY <1>1, <1>2, <1>3, <1>4 DEF Dist, una, nxt, q

\* The retransmission queue always covers what the peer has not acknowledged:
\* no ACK, stale or ahead, no overlap of close, send and reset, and no pool that
\* runs dry makes a byte leave the queue before the peer has taken it.
THEOREM UnackedCanBeResent == Spec => []TxCoversUnacked
<1>1. Init => TxInv
  <2>1. Init => AllCovered BY DEF Init, AllCovered, Covered, ZeroConn
  <2>2. QED BY <2>1, InitPool DEF TxInv
<1>2. QED BY <1>1, NextTx, CoveredIsResendable, PTL DEF Spec

(***************************************************************************)
(* What the handlers do to one direction of a stream (TcpPair): to the     *)
(* bytes of the ring, to the number of the next one, and to what is sent.  *)
(***************************************************************************)
\* Slots of the ring, counted on from one and back from one.
LEMMA RingIndex ==
  ASSUME NEW i \in 0 .. RX_BUF_SIZE - 1, NEW n \in 0 .. RX_BUF_SIZE
  PROVE  (i + n) % RX_BUF_SIZE = IF i + n < RX_BUF_SIZE THEN i + n ELSE i + n - RX_BUF_SIZE
<1>1. RX_BUF_SIZE \in Nat \ {0} BY SizesAssumption
<1>2. CASE i + n < RX_BUF_SIZE BY <1>1, <1>2
<1>3. CASE i + n >= RX_BUF_SIZE
  <2>1. i + n - RX_BUF_SIZE \in 0 .. RX_BUF_SIZE - 1 BY <1>1, <1>3
  <2>2. (i + n) % RX_BUF_SIZE = i + n - RX_BUF_SIZE BY <1>1, <1>3, <2>1
  <2>3. QED BY <1>1, <1>3, <2>2
<1>4. QED BY <1>1, <1>2, <1>3
LEMMA RingDistance ==
  ASSUME NEW i \in 0 .. RX_BUF_SIZE - 1, NEW j \in 0 .. RX_BUF_SIZE - 1
  PROVE  (i - j) % RX_BUF_SIZE = IF i >= j THEN i - j ELSE i - j + RX_BUF_SIZE
<1>1. RX_BUF_SIZE \in Nat \ {0} BY SizesAssumption
<1>2. CASE i >= j BY <1>1, <1>2
<1>3. CASE i < j
  <2>1. i - j + RX_BUF_SIZE \in 0 .. RX_BUF_SIZE - 1 BY <1>1, <1>3
  <2>2. (i - j) % RX_BUF_SIZE = i - j + RX_BUF_SIZE BY <1>1, <1>3, <2>1
  <2>3. QED BY <1>3, <2>2
<1>4. QED BY <1>1, <1>2, <1>3

\* The unread bytes are a sequence of rx_available bytes.
LEMMA RxBytesType ==
  ASSUME NEW c \in Conns, NEW buf \in [0 .. RX_BUF_SIZE - 1 -> Bytes]
  PROVE  rx_bytes(c, buf) \in Seq(Bytes) /\ Len(rx_bytes(c, buf)) = rx_available(c)
<1>1. rx_available(c) \in Nat BY RxAvailableType, SizesAssumption
<1>2. \A k \in 1 .. rx_available(c) : (c.rx_tail + k - 1) % RX_BUF_SIZE \in 0 .. RX_BUF_SIZE - 1
  <2>1. c.rx_tail \in Int /\ RX_BUF_SIZE \in Nat \ {0} BY SizesAssumption DEF Conns
  <2>2. \A z \in Int : z % RX_BUF_SIZE \in 0 .. RX_BUF_SIZE - 1 BY <2>1
  <2>3. \A k \in 1 .. rx_available(c) : c.rx_tail + k - 1 \in Int BY <1>1, <2>1
  <2>4. QED BY <2>2, <2>3
<1>3. \A k \in 1 .. rx_available(c) : buf[(c.rx_tail + k - 1) % RX_BUF_SIZE] \in Bytes BY <1>2
<1>4. QED BY <1>1, <1>3 DEF rx_bytes

\* The first n of a sequence.
Leading(s, n) == SubSeq(s, 1, n)

\* Bytes written behind the unread ones come after them and spoil none.
Written(c, d, buf, new, data, n) ==
  /\ c \in Conns /\ d \in Conns /\ d.rx_tail = c.rx_tail
  /\ d.rx_head = (c.rx_head + n) % RX_BUF_SIZE
  /\ buf \in [0 .. RX_BUF_SIZE - 1 -> Bytes] /\ new \in [0 .. RX_BUF_SIZE - 1 -> Bytes]
  /\ new = rx_write(buf, c.rx_head, data, n)
  /\ data \in Seq(Bytes) /\ n \in 0 .. rx_free(c) /\ n <= Len(data)
LEMMA RingTakes ==
  ASSUME NEW c, NEW d, NEW buf, NEW new, NEW data, NEW n, Written(c, d, buf, new, data, n)
  PROVE  rx_bytes(d, new) = rx_bytes(c, buf) \o Leading(data, n)
<1> USE DEF Written
<1> DEFINE R == RX_BUF_SIZE
           h == c.rx_head
           t == c.rx_tail
           m == rx_available(c)
           x == rx_bytes(d, new)
           y == rx_bytes(c, buf)
           z == Leading(data, n)
<1>1. R \in Nat \ {0, 1} /\ h \in 0 .. R - 1 /\ t \in 0 .. R - 1 BY SizesAssumption DEF Conns
<1>2. m \in 0 .. R - 1 /\ rx_free(c) = R - 1 - m /\ m = IF h >= t THEN h - t ELSE R - t + h
  BY RxAvailableType DEF rx_free, rx_available
<1>3. n \in Nat /\ m + n <= R - 1 BY <1>1, <1>2
<1>4. d.rx_head = IF h + n < R THEN h + n ELSE h + n - R
  <2>1. n \in 0 .. R BY <1>1, <1>2
  <2>2. QED BY <1>1, <2>1, RingIndex
<1>5. rx_available(d) = m + n
  <2>1. rx_available(d) = IF d.rx_head >= t THEN d.rx_head - t ELSE R - t + d.rx_head
    BY DEF rx_available
  <2> HIDE DEF m, h, t, R
  <2>2. QED BY <1>1, <1>2, <1>3, <1>4, <2>1
<1>6. /\ x \in Seq(Bytes) /\ Len(x) = m + n /\ y \in Seq(Bytes) /\ Len(y) = m
  BY <1>5, RxBytesType
<1>7. z \in Seq(Bytes) /\ Len(z) = n /\ \A k \in 1 .. n : z[k] = data[k] BY <1>3 DEF Leading
<1>8. \A k \in 1 .. m + n : x[k] = new[(t + k - 1) % R] BY <1>5 DEF rx_bytes
<1>9. \A k \in 1 .. m : y[k] = buf[(t + k - 1) % R] BY DEF rx_bytes
<1>10. \A i \in 0 .. R - 1 : new[i] = IF (i - h) % R < n THEN data[((i - h) % R) + 1] ELSE buf[i]
  BY DEF rx_write
<1> HIDE DEF R, h, t, m, x, y, z
<1>11. ASSUME NEW k \in 1 .. m + n PROVE x[k] = IF k <= m THEN y[k] ELSE z[k - m]
  <2>1. k - 1 \in 0 .. R /\ t + (k - 1) = t + k - 1 BY <1>1, <1>2, <1>3
  <2>2. PICK i : i = (t + k - 1) % R OBVIOUS
  <2>3. i = IF t + k - 1 < R THEN t + k - 1 ELSE t + k - 1 - R
    BY <1>1, <2>1, <2>2, RingIndex DEF R
  <2>4. i \in 0 .. R - 1 BY <1>1, <1>2, <1>3, <2>3
  <2>5. PICK j : j = (i - h) % R OBVIOUS
  <2>6. j = IF i >= h THEN i - h ELSE i - h + R BY <1>1, <2>4, <2>5, RingDistance DEF R
  <2>7. x[k] = new[i] BY <1>8, <2>2
  <2>8. new[i] = IF j < n THEN data[j + 1] ELSE buf[i] BY <1>10, <2>4, <2>5
  <2>9. CASE k <= m
    <3>1. ~(j < n) BY <1>1, <1>2, <1>3, <2>3, <2>4, <2>6, <2>9
    <3>2. y[k] = buf[i] BY <1>1, <1>2, <1>9, <2>2, <2>9
    <3>3. QED BY <2>7, <2>8, <2>9, <3>1, <3>2
  <2>10. CASE ~(k <= m)
    <3>1. j = k - m - 1 BY <1>1, <1>2, <1>3, <2>3, <2>4, <2>6, <2>10
    <3>2. k - m \in 1 .. n /\ j < n /\ j + 1 = k - m BY <1>1, <1>2, <1>3, <2>10, <3>1
    <3>3. z[k - m] = data[k - m] BY <1>7, <3>2
    <3>4. QED BY <2>7, <2>8, <2>10, <3>2, <3>3
  <2>11. QED BY <2>9, <2>10
<1>12. /\ y \o z \in Seq(Bytes) /\ Len(y \o z) = m + n
       /\ \A k \in 1 .. m + n : (y \o z)[k] = IF k <= m THEN y[k] ELSE z[k - m]
  <2>1. /\ y \o z \in Seq(Bytes) /\ Len(y \o z) = Len(y) + Len(z)
        /\ \A k \in 1 .. Len(y) + Len(z) : (y \o z)[k] = IF k <= Len(y) THEN y[k] ELSE z[k - Len(y)]
    BY <1>6, <1>7, ConcatProperties
  <2>2. QED BY <1>6, <1>7, <2>1
<1>13. x = y \o z
  <2>1. \A k \in 1 .. Len(x) : x[k] = (y \o z)[k] BY <1>6, <1>11, <1>12
  <2>2. QED BY <1>6, <1>12, <2>1, SeqEqual
<1>14. QED BY <1>13 DEF x, y, z

\* What is read and what is then left are what there was.
LEMMA RingGives ==
  ASSUME NEW c \in Conns, NEW buf \in [0 .. RX_BUF_SIZE - 1 -> Bytes], NEW n \in Nat,
         ReadConn(c, n) \in Conns
  PROVE  /\ ReadLen(c, n) \in 0 .. rx_available(c)
         /\ Leading(rx_bytes(c, buf), ReadLen(c, n)) \o rx_bytes(ReadConn(c, n), buf) = rx_bytes(c, buf)
<1> DEFINE R == RX_BUF_SIZE
           h == c.rx_head
           t == c.rx_tail
           m == rx_available(c)
           l == ReadLen(c, n)
           d == ReadConn(c, n)
           x == rx_bytes(d, buf)
           y == rx_bytes(c, buf)
           z == Leading(y, l)
<1>1. R \in Nat \ {0, 1} /\ h \in 0 .. R - 1 /\ t \in 0 .. R - 1 BY SizesAssumption DEF Conns
<1>2. m \in 0 .. R - 1 /\ m = IF h >= t THEN h - t ELSE R - t + h
  BY RxAvailableType DEF rx_available
<1>3. l \in 0 .. m BY <1>1, <1>2 DEF ReadLen
<1>4. d.rx_head = h /\ d.rx_tail = IF t + l < R THEN t + l ELSE t + l - R
  <2>1. l \in 0 .. R BY <1>1, <1>2, <1>3
  <2>2. (t + l) % R = IF t + l < R THEN t + l ELSE t + l - R BY <1>1, <2>1, RingIndex
  <2>3. d.rx_head = h /\ d.rx_tail = (t + l) % R
    <3> HIDE DEF l
    <3>1. QED BY DEF ReadConn, Conns, l
  <2>4. QED BY <2>2, <2>3
<1>5. rx_available(d) = m - l
  <2> HIDE DEF R, h, t, l, d, m
  <2>1. PICK a, b : a = d.rx_head /\ b = d.rx_tail OBVIOUS
  <2>2. a = h /\ b = IF t + l < R THEN t + l ELSE t + l - R BY <1>4, <2>1
  <2>3. (IF a >= b THEN a - b ELSE R - b + a) = m - l
    <3>1. R \in Nat /\ h \in Nat /\ t \in Nat /\ l \in Nat /\ h < R /\ t < R /\ l <= m
      BY <1>1, <1>2, <1>3
    <3>2. CASE t + l < R
      <4>1. a = h /\ b = t + l BY <2>2, <3>2
      <4>2. CASE h >= t BY <1>2, <3>1, <4>1, <4>2
      <4>3. CASE ~(h >= t) BY <1>2, <3>1, <4>1, <4>3
      <4>4. QED BY <4>2, <4>3
    <3>3. CASE ~(t + l < R)
      <4>1. a = h /\ b = t + l - R BY <2>2, <3>3
      <4>2. ~(h >= t) /\ m = R - t + h BY <1>2, <3>1, <3>3
      <4>3. QED BY <3>1, <4>1, <4>2
    <3>4. QED BY <3>2, <3>3
  <2>4. QED BY <2>1, <2>3 DEF rx_available, R
<1>6. /\ x \in Seq(Bytes) /\ Len(x) = m - l /\ y \in Seq(Bytes) /\ Len(y) = m
  BY <1>5, RxBytesType
<1>7. z \in Seq(Bytes) /\ Len(z) = l /\ \A k \in 1 .. l : z[k] = y[k]
  <2> HIDE DEF l, y, m
  <2>1. QED BY <1>1, <1>2, <1>3, <1>6 DEF Leading
<1>8. \A k \in 1 .. m - l : x[k] = buf[(d.rx_tail + k - 1) % R] BY <1>5 DEF rx_bytes
<1>9. \A k \in 1 .. m : y[k] = buf[(t + k - 1) % R] BY DEF rx_bytes
<1> HIDE DEF R, h, t, m, l, d, x, y, z
<1>10. ASSUME NEW k \in 1 .. m - l PROVE x[k] = y[k + l]
  <2>1. k - 1 \in 0 .. R /\ k + l - 1 \in 0 .. R /\ k + l \in 1 .. m BY <1>1, <1>2, <1>3
  <2>2. d.rx_tail \in 0 .. R - 1 BY <1>1, <1>2, <1>3, <1>4
  <2>3. /\ (d.rx_tail + (k - 1)) % R = IF d.rx_tail + (k - 1) < R THEN d.rx_tail + (k - 1) ELSE d.rx_tail + (k - 1) - R
        /\ (t + (k + l - 1)) % R = IF t + (k + l - 1) < R THEN t + (k + l - 1) ELSE t + (k + l - 1) - R
    BY <1>1, <2>1, <2>2, RingIndex DEF R
  <2>4. (d.rx_tail + (k - 1)) % R = (t + (k + l - 1)) % R BY <1>1, <1>2, <1>3, <1>4, <2>1, <2>2, <2>3
  <2>5. d.rx_tail + (k - 1) = d.rx_tail + k - 1 /\ t + (k + l - 1) = t + (k + l) - 1 BY <1>1, <1>3, <2>2
  <2>6. QED BY <1>8, <1>9, <2>1, <2>4, <2>5
<1>11. /\ z \o x \in Seq(Bytes) /\ Len(z \o x) = m
       /\ \A k \in 1 .. m : (z \o x)[k] = IF k <= l THEN z[k] ELSE x[k - l]
  <2>1. l + (m - l) = m BY <1>1, <1>2, <1>3
  <2>2. /\ z \o x \in Seq(Bytes) /\ Len(z \o x) = l + (m - l)
        /\ \A k \in 1 .. l + (m - l) : (z \o x)[k] = IF k <= l THEN z[k] ELSE x[k - l]
    <3>1. /\ z \o x \in Seq(Bytes) /\ Len(z \o x) = Len(z) + Len(x)
          /\ \A k \in 1 .. Len(z) + Len(x) : (z \o x)[k] = IF k <= Len(z) THEN z[k] ELSE x[k - Len(z)]
      BY <1>6, <1>7, ConcatProperties
    <3>2. QED BY <1>6, <1>7, <3>1
  <2>3. QED BY <2>1, <2>2
<1>12. \A k \in 1 .. m : (z \o x)[k] = y[k]
  <2> TAKE k \in 1 .. m
  <2>1. CASE k <= l BY <1>2, <1>3, <1>7, <1>11, <2>1
  <2>2. CASE ~(k <= l)
    <3>1. k - l \in 1 .. m - l /\ k - l + l = k BY <1>1, <1>2, <1>3, <2>2
    <3>2. x[k - l] = y[k] BY <1>10, <3>1
    <3>3. QED BY <1>11, <2>2, <3>2
  <2>3. QED BY <2>1, <2>2
<1>13. z \o x = y BY <1>6, <1>11, <1>12, SeqEqual
<1>14. QED BY <1>3, <1>13 DEF x, y, z, l, d, m

\* A slot that is freed keeps its ring, and is closed.
LEMMA FreedShape ==
  ASSUME NEW c \in Conns
  PROVE  /\ ~Freed(c).active /\ Freed(c).state = CLOSED
         /\ Freed(c).rx_head = c.rx_head /\ Freed(c).rx_tail = c.rx_tail
BY ZeroConnType DEF Freed, ZeroConn, Conns

Taking == {SYN_RCVD, ESTABLISHED, FIN_WAIT_1, FIN_WAIT_2}
Sending == {SYN_RCVD, ESTABLISHED, CLOSE_WAIT}

\* Section 5 moves the states on, and no byte.
LEMMA AckShape ==
  ASSUME NEW c \in Conns, NEW g \in Segments, c.state >= SYN_RCVD, NEW x, x = AckConn(c, g)
  PROVE  /\ x \in Conns /\ x.active = c.active /\ x.local = c.local /\ x.snd_nxt = c.snd_nxt
         /\ x.rx_head = c.rx_head /\ x.rx_tail = c.rx_tail /\ x.rcv_nxt = c.rcv_nxt
         /\ \/ x.state = c.state
            \/ c.state = SYN_RCVD /\ x.state = ESTABLISHED
            \/ c.state = FIN_WAIT_1 /\ x.state = FIN_WAIT_2
            \/ c.state \in {CLOSING, TIME_WAIT} /\ x.state = TIME_WAIT
<1> DEFINE y == AckedConn(c, g)
<1>1. /\ y.active = c.active /\ y.local = c.local /\ y.snd_nxt = c.snd_nxt /\ y.rx_head = c.rx_head
      /\ y.rx_tail = c.rx_tail /\ y.rcv_nxt = c.rcv_nxt /\ y.state = c.state
  BY DEF AckedConn, TimersAfterAck, Conns
<1>2. y \in Conns
  <2>1. RTO_INIT \in 0 .. 2 * RTO_LIMIT /\ 0 \in Nat /\ 0 \in 0 .. MAX_RETRIES BY TimersAssumption
  <2>2. TimersAfterAck(c) \in Conns BY <2>1 DEF TimersAfterAck, Conns
  <2>3. QED BY <2>2 DEF AckedConn, Conns, Segments
<1> DEFINE y1 == [y EXCEPT !.state = ESTABLISHED]
           y2 == [y EXCEPT !.state = FIN_WAIT_2]
           y3 == EnterTimeWait(y)
           Same(z) == /\ z.active = y.active /\ z.local = y.local /\ z.snd_nxt = y.snd_nxt
                      /\ z.rx_head = y.rx_head /\ z.rx_tail = y.rx_tail /\ z.rcv_nxt = y.rcv_nxt
<1> HIDE DEF y
<1>3. Same(y1) /\ y1.state = ESTABLISHED /\ Same(y2) /\ y2.state = FIN_WAIT_2 BY <1>2 DEF Conns
<1>4. Same(y3) /\ y3.state = TIME_WAIT BY <1>2 DEF EnterTimeWait, Conns
<1>5. \/ x = c \/ x = y
      \/ c.state = SYN_RCVD /\ x = y1
      \/ c.state = FIN_WAIT_1 /\ x = y2
      \/ c.state \in {TIME_WAIT, CLOSING} /\ x = y3
  BY DEF AckConn, y
<1>6. x \in Conns BY AckConnType
<1> HIDE DEF y1, y2, y3
<1>7. QED BY <1>1, <1>3, <1>4, <1>5, <1>6

\* Section 6 takes as many bytes as it counts, section 7 none.
LEMMA AcceptedShape ==
  ASSUME NEW c \in Conns, NEW q \in Seq(TxSegs), NEW g \in Segments, c.state >= SYN_RCVD,
         NEW r, r = Accepted(c, q, g), NEW n, n = Accept(AckConn(c, g), g)
  PROVE  /\ r.c \in Conns /\ r.c.active = c.active /\ r.c.local = c.local /\ r.c.snd_nxt = c.snd_nxt
         /\ r.c.rx_tail = c.rx_tail /\ r.c.rx_head = (c.rx_head + n) % RX_BUF_SIZE
         /\ r.c.state \in Taking => c.state \in Taking /\ r.c.rcv_nxt = Add(c.rcv_nxt, n)
         /\ r.c.state # SYN_SENT /\ (r.c.state = SYN_RCVD => c.state = SYN_RCVD)
         /\ r.c.state \in {ESTABLISHED, CLOSE_WAIT} => c.state \in Sending
         /\ n > 0 => c.state \in Taking
         /\ n \in 0 .. rx_free(c) /\ n \in 0 .. Len(g.data)
<1> USE DEF CLOSED, SYN_SENT, SYN_RCVD, ESTABLISHED, FIN_WAIT_1, FIN_WAIT_2, CLOSE_WAIT, CLOSING,
            LAST_ACK, TIME_WAIT
<1> DEFINE x == AckConn(c, g)
           d == DataConn(x, g)
           f == FinConn(d, g)
<1>1. /\ x \in Conns /\ x.active = c.active /\ x.local = c.local /\ x.snd_nxt = c.snd_nxt
      /\ x.rx_head = c.rx_head /\ x.rx_tail = c.rx_tail /\ x.rcv_nxt = c.rcv_nxt
      /\ \/ x.state = c.state
         \/ c.state = SYN_RCVD /\ x.state = ESTABLISHED
         \/ c.state = FIN_WAIT_1 /\ x.state = FIN_WAIT_2
         \/ c.state \in {CLOSING, TIME_WAIT} /\ x.state = TIME_WAIT
  BY AckShape
<1>1a. n = Accept(x, g) OBVIOUS
<1> HIDE DEF x
<1>2. n \in 0 .. rx_free(c) /\ n \in 0 .. Len(g.data) /\ (n > 0 => x.state \in {ESTABLISHED, FIN_WAIT_1, FIN_WAIT_2})
  <2>1. rx_free(x) = rx_free(c) BY <1>1, RxFreeFrame
  <2>2. Accept(x, g) \in 0 .. rx_free(x) /\ Accept(x, g) \in 0 .. Len(g.data) BY <1>1, AcceptType
  <2>3. n > 0 => TakesData(x, g) BY <1>1a DEF Accept
  <2>4. QED BY <1>1a, <2>1, <2>2, <2>3 DEF TakesData
<1>3. d \in Conns BY <1>1, DataConnType
<1>4. /\ d.active = x.active /\ d.local = x.local /\ d.snd_nxt = x.snd_nxt /\ d.rx_tail = x.rx_tail
      /\ d.state = x.state /\ d.rx_head = (x.rx_head + n) % RX_BUF_SIZE /\ d.rcv_nxt = Add(x.rcv_nxt, n)
  <2> DEFINE w == WrittenConn(x, n)
  <2>1. /\ w.active = x.active /\ w.local = x.local /\ w.snd_nxt = x.snd_nxt /\ w.rx_tail = x.rx_tail
        /\ w.state = x.state /\ w.rx_head = (x.rx_head + n) % RX_BUF_SIZE /\ w.rcv_nxt = Add(x.rcv_nxt, n)
    BY <1>1 DEF WrittenConn, Conns
  <2>2. w \in Conns
    <3>1. n \in Int /\ RX_BUF_SIZE \in Nat \ {0} /\ x.rx_head \in Int /\ x.rcv_nxt \in Int
      BY <1>1, <1>2, SizesAssumption DEF Conns, SeqNums
    <3>2. (x.rx_head + n) % RX_BUF_SIZE \in 0 .. RX_BUF_SIZE - 1 BY <3>1
    <3>3. Add(x.rcv_nxt, n) \in SeqNums BY <3>1, AddType
    <3>4. QED BY <1>1, <3>2, <3>3 DEF WrittenConn, Conns
  <2>3. CASE n > 0
    <3>1. d = [w EXCEPT !.rcv_wnd = rx_free(w)] BY <1>1a, <2>3 DEF DataConn
    <3> HIDE DEF w, d
    <3>2. QED BY <2>1, <2>2, <3>1 DEF Conns
  <2>4. CASE ~(n > 0)
    <3>1. n = 0 /\ d = x BY <1>1a, <1>2, <2>4 DEF DataConn
    <3>2. x.rx_head \in 0 .. RX_BUF_SIZE - 1 /\ x.rcv_nxt \in 0 .. SeqSpace - 1 BY <1>1 DEF Conns, SeqNums
    <3>3. \A i \in Nat, m \in Nat : i <= m - 1 => (i + 0) % m = i OBVIOUS
    <3>4. (x.rx_head + 0) % RX_BUF_SIZE = x.rx_head BY <3>2, <3>3, SizesAssumption
    <3>5. Add(x.rcv_nxt, 0) = x.rcv_nxt BY <3>2, <3>3, SizesAssumption DEF Add
    <3>6. QED BY <3>1, <3>4, <3>5
  <2>5. QED BY <2>3, <2>4
<1> HIDE DEF d
<1>5. f \in Conns BY <1>3, FinConnType
<1>6. /\ f.active = d.active /\ f.local = d.local /\ f.snd_nxt = d.snd_nxt
      /\ f.rx_head = d.rx_head /\ f.rx_tail = d.rx_tail
      /\ \/ f = d
         \/ f.state = d.state /\ d.state \notin Taking
         \/ d.state \in {SYN_RCVD, ESTABLISHED} /\ f.state = CLOSE_WAIT
         \/ f.state \in {CLOSING, TIME_WAIT}
  <2> DEFINE e == [d EXCEPT !.rcv_nxt = Add(@, 1), !.rcv_wnd = rx_free(d)]
             e1 == [e EXCEPT !.state = CLOSE_WAIT]
             e2 == [e EXCEPT !.state = CLOSING]
             e3 == EnterTimeWait(e)
             Same(z) == /\ z.active = d.active /\ z.local = d.local /\ z.snd_nxt = d.snd_nxt
                        /\ z.rx_head = d.rx_head /\ z.rx_tail = d.rx_tail
  <2>1. Same(e) /\ e.state = d.state BY <1>3 DEF Conns
  <2>2. Same(e1) /\ e1.state = CLOSE_WAIT /\ Same(e2) /\ e2.state = CLOSING BY <1>3 DEF Conns
  <2>3. Same(e3) /\ e3.state = TIME_WAIT BY <1>3 DEF EnterTimeWait, Conns
  <2> HIDE DEF e
  <2>4. \/ f = d
        \/ f = e /\ d.state \notin Taking
        \/ d.state \in {SYN_RCVD, ESTABLISHED} /\ f = e1
        \/ f = e2 \/ f = e3
    BY DEF FinConn, e, Taking
  <2> HIDE DEF f, e1, e2, e3
  <2>5. QED BY <2>1, <2>2, <2>3, <2>4
<1>7. r.c = f BY DEF Accepted, Result, x, d
<1> HIDE DEF f
<1>8. f.state \in Taking => f = d /\ x.state \in Taking BY <1>4, <1>6 DEF Taking
<1>9. f.state \in Taking => c.state \in Taking /\ f.rcv_nxt = Add(c.rcv_nxt, n)
  BY <1>1, <1>4, <1>8 DEF Taking
<1>10. f.state # SYN_SENT /\ (f.state = SYN_RCVD => c.state = SYN_RCVD)
  <2>1. c.state \in Int BY DEF Conns, States
  <2>2. x.state # SYN_SENT /\ (x.state = SYN_RCVD => c.state = SYN_RCVD) BY <1>1, <2>1
  <2>3. d.state # SYN_SENT /\ (d.state = SYN_RCVD => c.state = SYN_RCVD) BY <1>4, <2>2
  <2>4. CASE f = d BY <2>3, <2>4
  <2>5. CASE f.state = d.state BY <2>3, <2>5
  <2>6. CASE f.state = CLOSE_WAIT BY <2>6
  <2>7. CASE f.state \in {CLOSING, TIME_WAIT} BY <2>7
  <2>8. QED BY <1>6, <2>4, <2>5, <2>6, <2>7
<1>11. f.state \in {ESTABLISHED, CLOSE_WAIT} => c.state \in Sending
  BY <1>1, <1>4, <1>6 DEF Taking, Sending
<1>12. n > 0 => c.state \in Taking BY <1>1, <1>2 DEF Taking
<1>13. QED BY <1>1, <1>2, <1>4, <1>5, <1>6, <1>7, <1>9, <1>10, <1>11, <1>12

\* An acknowledgment takes segments off the front of the queue, and answers carry
\* no data.
LEMMA AcceptedSends ==
  ASSUME NEW c \in Conns, NEW q \in Seq(TxSegs), NEW g \in Segments, c.state >= SYN_RCVD,
         NEW r, r = Accepted(c, q, g)
  PROVE  /\ \A i \in 1 .. Len(r.q) : \E j \in 1 .. Len(q) : r.q[i] = q[j]
         /\ \A x \in r.out : x.data = <<>> /\ x.flags = {"ACK"} /\ x.port = c.local
<1>1. r.q = AckQueue(c, q, g).q BY DEF Accepted, Result
<1>2. \A i \in 1 .. Len(r.q) : \E j \in 1 .. Len(q) : r.q[i] = q[j]
  <2>1. CASE r.q = q BY <2>1
  <2>2. CASE r.q # q
    <3> DEFINE n == AckedCount(q, g.ack)
    <3>1. r.q = SubSeq(q, n + 1, Len(q)) BY <1>1, <2>2 DEF AckQueue, tcp_tx_ack
    <3>2. n \in 0 .. Len(q) BY AckedCountType
    <3> HIDE DEF n
    <3>3. Len(r.q) = Len(q) - n /\ \A i \in 1 .. Len(q) - n : r.q[i] = q[n + i] BY <3>1, <3>2
    <3>4. \A i \in 1 .. Len(q) - n : n + i \in 1 .. Len(q) BY <3>2
    <3>5. QED BY <3>3, <3>4
  <2>3. QED BY <2>1, <2>2
<1>3. \A x \in r.out : x.data = <<>> /\ x.flags = {"ACK"} /\ x.port = c.local
  <2> DEFINE x == AckConn(c, g)
             d == DataConn(x, g)
             f == FinConn(d, g)
             e == [d EXCEPT !.rcv_nxt = f.rcv_nxt, !.rcv_wnd = f.rcv_wnd]
  <2>1. x \in Conns /\ x.local = c.local BY AckShape
  <2> HIDE DEF x
  <2>2. d \in Conns BY <2>1, DataConnType
  <2>3. d.local = c.local BY <2>1 DEF DataConn, WrittenConn, Conns
  <2> HIDE DEF d
  <2>4. e.local = c.local BY <2>2, <2>3 DEF Conns
  <2>5. r.out \subseteq {PlainAck(d), PlainAck(e)} BY DEF Accepted, Result, x, d
  <2> HIDE DEF e
  <2>6. QED BY <2>3, <2>4, <2>5 DEF PlainAck, tcp_send_segment
<1>4. QED BY <1>2, <1>3

\* The timer keeps a connection's ring and numbers, or closes it; what it sends is
\* the head of the queue again.
LEMMA TickShape ==
  ASSUME TypeOK, NEW s \in Slots, NEW r, r = Tick(s)
  PROVE  /\ r.c.rx_head = conn[s].rx_head /\ r.c.rx_tail = conn[s].rx_tail
         /\ \/ ~r.c.active /\ r.c.state = CLOSED /\ r.q = <<>>
            \/ /\ r.c.active <=> conn[s].active
               /\ r.c.state = conn[s].state /\ r.c.local = conn[s].local
               /\ r.c.snd_una = conn[s].snd_una /\ r.c.snd_nxt = conn[s].snd_nxt
               /\ r.c.rcv_nxt = conn[s].rcv_nxt /\ r.q = txq[s]
         /\ \A x \in r.out : /\ txq[s] # <<>> /\ x.port = conn[s].local
                            /\ x.seq = txq[s][1].seq /\ x.data = txq[s][1].data
                            /\ x.flags = {"ACK"} \cup txq[s][1].flags
                            /\ x.ack = conn[s].rcv_nxt
<1> DEFINE c == conn[s]
           Kept(d) == /\ d.rx_head = c.rx_head /\ d.rx_tail = c.rx_tail /\ (d.active <=> c.active)
                      /\ d.state = c.state /\ d.local = c.local /\ d.snd_una = c.snd_una
                      /\ d.snd_nxt = c.snd_nxt /\ d.rcv_nxt = c.rcv_nxt
           Repeats(out) == \A x \in out : /\ txq[s] # <<>> /\ x.port = c.local
                                      /\ x.seq = txq[s][1].seq /\ x.data = txq[s][1].data
                                      /\ x.flags = {"ACK"} \cup txq[s][1].flags
                                      /\ x.ack = c.rcv_nxt
           Held(d, out) == r.c = d /\ Kept(d) /\ r.q = txq[s] /\ r.out = out /\ Repeats(out)
           Ended == r.c = Freed(c) /\ r.q = <<>> /\ r.out = {}
<1>1. c \in Conns BY DEF TypeOK
<1>2. ASSUME NEW ev, r = tcp_free_conn(c, txq[s], {}, ev) PROVE Ended
  BY <1>2 DEF tcp_free_conn, Result
<1>3. ASSUME NEW d, NEW out, r = Result(d, txq[s], {}, out, "none"), Kept(d), Repeats(out)
      PROVE  Held(d, out)
  BY <1>3 DEF Result
<1>4. Ended \/ \E d, out : Held(d, out)
  <2> HIDE DEF Held, Ended, Kept, Repeats, c
  <2>1. CASE ~c.active \/ c.state = CLOSED
    <3>1. r = Result(c, txq[s], {}, {}, "none") BY <2>1 DEF Tick, Untouched, c
    <3>2. Kept(c) /\ Repeats({}) BY DEF Kept, Repeats
    <3>3. QED BY <1>3, <3>1, <3>2
  <2>2. CASE c.active /\ c.state # CLOSED /\ c.state = TIME_WAIT
    <3> DEFINE n == IF c.tw_counter > 0 THEN c.tw_counter - 1 ELSE 0
               d == [c EXCEPT !.tw_counter = n]
    <3>1. r = TimeWaitTick(s, c) BY <2>2 DEF Tick, c
    <3>2. Kept(d) /\ Repeats({}) BY <1>1 DEF Kept, Repeats, Conns
    <3>3. \/ \E ev : r = tcp_free_conn(c, txq[s], {}, ev)
          \/ r = Result(d, txq[s], {}, {}, "none")
      BY <3>1 DEF TimeWaitTick
    <3> HIDE DEF d
    <3>4. QED BY <1>2, <1>3, <3>2, <3>3
  <2>3. CASE c.active /\ c.state # CLOSED /\ c.state # TIME_WAIT /\ txq[s] # <<>>
    <3> DEFINE d1 == [c EXCEPT !.idle_counter = 0, !.rto_counter = c.rto_counter + 1]
               d2 == [c EXCEPT !.idle_counter = 0, !.rto_counter = 0, !.retries = @ + 1,
                               !.rto_ticks = BackedOff(@)]
               o == tcp_retransmit_head(c, txq[s])
    <3>1. r = RtoTick(s, c) BY <2>3 DEF Tick, c
    <3>2. Kept(d1) /\ Kept(d2) BY <1>1 DEF Kept, Conns
    <3>3. Repeats({}) /\ Repeats(o) BY <2>3 DEF Repeats, tcp_retransmit_head, tcp_send_segment
    <3>4. \/ \E ev : r = tcp_free_conn(c, txq[s], {}, ev)
          \/ r = Result(d1, txq[s], {}, {}, "none")
          \/ r = Result(d2, txq[s], {}, o, "none")
      BY <3>1 DEF RtoTick
    <3> HIDE DEF d1, d2, o
    <3>5. QED BY <1>2, <1>3, <3>2, <3>3, <3>4
  <2>4. CASE c.active /\ c.state # CLOSED /\ c.state # TIME_WAIT /\ txq[s] = <<>> /\ c.state = ESTABLISHED
    <3> DEFINE d == [c EXCEPT !.idle_counter = 0]
    <3>1. r = Result(d, txq[s], {}, {}, "none") BY <2>4 DEF Tick, c
    <3>2. Kept(d) /\ Repeats({}) BY <1>1 DEF Kept, Repeats, Conns
    <3> HIDE DEF d
    <3>3. QED BY <1>3, <3>1, <3>2
  <2>5. CASE c.active /\ c.state # CLOSED /\ c.state # TIME_WAIT /\ txq[s] = <<>> /\ c.state # ESTABLISHED
    <3> DEFINE d == [c EXCEPT !.idle_counter = @ + 1]
    <3>1. r = IdleTick(s, c) BY <2>5 DEF Tick, c
    <3>2. Kept(d) /\ Repeats({}) BY <1>1 DEF Kept, Repeats, Conns
    <3>3. \/ \E ev : r = tcp_free_conn(c, txq[s], {}, ev)
          \/ r = Result(d, txq[s], {}, {}, "none")
      BY <3>1 DEF IdleTick
    <3> HIDE DEF d
    <3>4. QED BY <1>2, <1>3, <3>2, <3>3
  <2>6. QED BY <2>1, <2>2, <2>3, <2>4, <2>5
<1>5. CASE Ended BY <1>1, <1>5, FreedShape
<1>6. CASE \E d, out : Held(d, out)
  <2>1. PICK d, out : Held(d, out) BY <1>6
  <2>2. Kept(d) /\ r.c = d /\ r.q = txq[s] /\ r.out = out /\ Repeats(out) BY <2>1
  <2>3. QED BY <2>2
<1>7. QED BY <1>4, <1>5, <1>6

\* What a segment does to the sending half of the connection it is for: its
\* numbers stay, it sends no data, and a SYN only while opening.
Sends(s) ==
  LET c == conn[s]
      d == conn'[s]
  IN  /\ \/ ~d.active /\ d.state = CLOSED
         \/ /\ d.active /\ d.local = c.local /\ d.snd_nxt = c.snd_nxt
            /\ d.state = SYN_SENT => c.state = SYN_SENT /\ d.snd_una = c.snd_una
            /\ d.state = SYN_RCVD => c.state \in {SYN_SENT, SYN_RCVD}
            /\ d.state \in {ESTABLISHED, CLOSE_WAIT} => c.state \in {SYN_SENT} \cup Sending
      /\ \A i \in 1 .. Len(txq'[s]) : \E j \in 1 .. Len(txq[s]) : txq'[s][i] = txq[s][j]
      /\ \A x \in wire' \ wire : /\ x.data = <<>> /\ x.port = c.local
                                 /\ "SYN" \in x.flags => c.state = SYN_SENT /\ x.seq = c.snd_una
\* And to the receiving half: the n bytes it takes come next in the stream.
Takes(s, g, n) ==
  LET c == conn[s]
      d == conn'[s]
  IN  /\ rx_bytes(d, rx'[s]) = rx_bytes(c, rx[s]) \o Leading(g.data, n)
      /\ n > 0 => g.seq = c.rcv_nxt /\ c.state \in Taking
      /\ c.state # SYN_SENT => d.state # SYN_SENT
      /\ c.state # SYN_SENT /\ d.state \in Taking =>
           c.state \in Taking /\ d.rcv_nxt = Add(c.rcv_nxt, n)
\* The segment has found its connection, and opens no other.
Found(s, g) ==
  /\ conn[s].active /\ conn[s].local = g.port
  /\ UNCHANGED <<listeners, iss_counter>>
  /\ told'[s] = "unused" => told[s] = "unused"

LEMMA RxBytesFrame ==
  ASSUME NEW c \in Conns, NEW d \in Conns, NEW buf \in [0 .. RX_BUF_SIZE - 1 -> Bytes],
         NEW data \in Seq(Bytes), c.rx_head = d.rx_head, c.rx_tail = d.rx_tail
  PROVE  rx_bytes(d, buf) = rx_bytes(c, buf) \o Leading(data, 0)
<1> DEFINE y == rx_bytes(c, buf)
           e == Leading(data, 0)
<1>1. rx_bytes(d, buf) = y BY DEF rx_bytes, rx_available
<1>2. y \in Seq(Bytes) BY RxBytesType
<1>3. e \in Seq(Bytes) /\ Len(e) = 0 BY DEF Leading
<1> HIDE DEF y, e
<1>4. /\ y \o e \in Seq(Bytes) /\ Len(y \o e) = Len(y) + 0
      /\ \A k \in 1 .. Len(y) + 0 : (y \o e)[k] = IF k <= Len(y) THEN y[k] ELSE e[k - Len(y)]
  BY <1>2, <1>3, ConcatProperties
<1>5. Len(y) \in Nat BY <1>2
<1>6. y \o e = y BY <1>2, <1>4, <1>5, SeqEqual
<1>7. QED BY <1>1, <1>6 DEF y, e

\* A handler's result for slot s, seen from the sending half.
LEMMA ApplySends ==
  ASSUME TypeOK, NEW s \in Slots, NEW r, Apply(s, r)
  PROVE  /\ conn'[s] = r.c /\ txq'[s] = r.q /\ wire' \ wire \subseteq r.out
         /\ told'[s] = "unused" => told[s] = "unused" \/ r.ev = "unused"
  BY DEF Apply, Emit, TypeOK

LEMMA InputConnShape ==
  ASSUME TypeOK, NEW g \in Segments, InputConn(g)
  PROVE  \E s \in Slots : Found(s, g) /\ Sends(s) /\ \E n \in 0 .. Len(g.data) : Takes(s, g, n)
<1> USE DEF CLOSED, SYN_SENT, SYN_RCVD, ESTABLISHED, FIN_WAIT_1, FIN_WAIT_2, CLOSE_WAIT, CLOSING,
            LAST_ACK, TIME_WAIT
<1> PICK s \in Slots :
      /\ IsConnOf(s, g)
      /\ \/ InputReset(s, g) \/ InputSynAck(s, g) \/ InputSynSyn(s, g)
         \/ InputSynDrop(s, g) \/ InputOutOfOrder(s, g) \/ InputBadSyn(s, g)
         \/ InputLastAck(s, g) \/ InputAccept(s, g)
  BY DEF InputConn
<1> DEFINE k == Known(s, g)
           c == conn[s]
           d == conn'[s]
           q == txq[s]
           Kept(x) == /\ x.active /\ x.local = c.local /\ x.snd_nxt = c.snd_nxt
                      /\ x.rx_head = c.rx_head /\ x.rx_tail = c.rx_tail
           Quiet(r) == /\ \A i \in 1 .. Len(r.q) : \E j \in 1 .. Len(q) : r.q[i] = q[j]
                       /\ \A x \in r.out : /\ x.data = <<>> /\ x.port = c.local
                                           /\ "SYN" \in x.flags => c.state = SYN_SENT /\ x.seq = c.snd_una
<1>1. c \in Conns /\ d \in Conns /\ k \in Conns /\ q \in Seq(TxSegs)
  BY InputConnType, KnownType DEF TypeOK
<1>2. c.active /\ c.local = g.port BY DEF IsConnOf, Matches
<1>3. Kept(k) /\ k.state = c.state /\ k.snd_una = c.snd_una /\ k.rcv_nxt = c.rcv_nxt
  BY <1>1, <1>2 DEF Known, Conns
<1>4. g.data \in Seq(Bytes) /\ 0 \in 0 .. Len(g.data) BY DEF Segments
<1>5. rx[s] \in [0 .. RX_BUF_SIZE - 1 -> Bytes] /\ rx'[s] \in [0 .. RX_BUF_SIZE - 1 -> Bytes]
  BY InputConnType DEF TypeOK
<1> HIDE DEF k, c, d, q
<1>6. ASSUME NEW r, Apply(s, r), UNCHANGED <<listeners, iss_counter>>, r.ev # "unused", Quiet(r),
             \/ ~r.c.active /\ r.c.state = CLOSED
             \/ /\ Kept(r.c)
                /\ r.c.state = SYN_SENT => c.state = SYN_SENT /\ r.c.snd_una = c.snd_una
                /\ r.c.state = SYN_RCVD => c.state \in {SYN_SENT, SYN_RCVD}
                /\ r.c.state \in {ESTABLISHED, CLOSE_WAIT} => c.state \in {SYN_SENT} \cup Sending
      PROVE  Found(s, g) /\ Sends(s) /\ d = r.c
  <2>1. /\ d = r.c /\ txq'[s] = r.q /\ wire' \ wire \subseteq r.out
        /\ told'[s] = "unused" => told[s] = "unused"
    BY <1>6, ApplySends DEF d
  <2>2. Found(s, g) BY <1>2, <1>6, <2>1 DEF Found, c
  <2>3. Sends(s) BY <1>6, <2>1 DEF Sends, c, d, q
  <2>4. QED BY <2>1, <2>2, <2>3
\* Every branch but the last leaves the ring as it is.
<1>7. ASSUME UNCHANGED rx, d.rx_head = c.rx_head, d.rx_tail = c.rx_tail,
             c.state # SYN_SENT => \/ d.state = CLOSED
                                   \/ d.state = c.state /\ d.rcv_nxt = c.rcv_nxt
      PROVE  \E n \in 0 .. Len(g.data) : Takes(s, g, n)
  <2>1. rx_bytes(d, rx[s]) = rx_bytes(c, rx[s]) \o Leading(g.data, 0)
    BY <1>1, <1>4, <1>5, <1>7, RxBytesFrame
  <2>2. c.rcv_nxt = Add(c.rcv_nxt, 0)
    <3>1. c.rcv_nxt \in 0 .. SeqSpace - 1 BY <1>1 DEF Conns, SeqNums
    <3>2. \A i \in Nat, m \in Nat : i <= m - 1 => (i + 0) % m = i OBVIOUS
    <3>3. QED BY <3>1, <3>2, SizesAssumption DEF Add
  <2>3. Takes(s, g, 0) BY <1>7, <2>1, <2>2 DEF Takes, c, d, Taking
  <2>4. QED BY <1>4, <2>3
<1>8. ASSUME NEW x \in Conns, NEW ev \in {"ABORTED", "CLOSED"}, Kept(x) \/ x = c,
             Apply(s, tcp_free_conn(x, q, {}, Event(x, ev))),
             UNCHANGED <<rx, listeners, iss_counter>>
      PROVE  Found(s, g) /\ Sends(s) /\ \E n \in 0 .. Len(g.data) : Takes(s, g, n)
  <2> DEFINE r == tcp_free_conn(x, q, {}, Event(x, ev))
  <2>1. /\ r.c = Freed(x) /\ r.q = <<>> /\ r.out = {} /\ r.ev = Event(x, ev)
    BY DEF tcp_free_conn, Result
  <2>2. r.ev # "unused" BY <2>1 DEF Event
  <2>3. ~r.c.active /\ r.c.state = CLOSED /\ r.c.rx_head = c.rx_head /\ r.c.rx_tail = c.rx_tail
    BY <1>8, <2>1, FreedShape
  <2>4. Quiet(r) BY <2>1
  <2> HIDE DEF r
  <2>5. Found(s, g) /\ Sends(s) /\ d = r.c BY <1>6, <1>8, <2>2, <2>3, <2>4 DEF r
  <2>6. QED BY <1>7, <1>8, <2>3, <2>5
<1>9. ASSUME NEW x \in Conns, NEW q2, NEW fr, NEW out, NEW ev,
             Apply(s, Result(x, q2, fr, out, ev)), ev # "unused", Kept(x),
             Quiet(Result(x, q2, fr, out, ev)),
             \/ c.state = SYN_SENT /\ x.state \in {SYN_RCVD, ESTABLISHED}
             \/ x.state = c.state /\ x.snd_una = c.snd_una /\ x.rcv_nxt = c.rcv_nxt,
             UNCHANGED <<rx, listeners, iss_counter>>
      PROVE  Found(s, g) /\ Sends(s) /\ \E n \in 0 .. Len(g.data) : Takes(s, g, n)
  <2> DEFINE r == Result(x, q2, fr, out, ev)
  <2>1. r.c = x /\ r.ev = ev BY DEF Result
  <2> HIDE DEF r
  <2>2. Found(s, g) /\ Sends(s) /\ d = r.c BY <1>6, <1>9, <2>1 DEF r, Sending
  <2>3. QED BY <1>7, <1>9, <2>1, <2>2
<1>10. Kept(c) BY <1>2
<1>11. CASE InputReset(s, g) BY <1>1, <1>8, <1>11 DEF InputReset, c, q
<1>12. CASE InputSynAck(s, g)
  <2> DEFINE x == [k EXCEPT !.rcv_nxt = Add(g.seq, 1), !.snd_una = g.ack,
                            !.state = ESTABLISHED, !.rto_ticks = RTO_INIT,
                            !.rto_counter = 0, !.retries = 0]
             t == tcp_tx_ack(q, g.ack)
             r == Result(x, t.q, t.freed, {PlainAck(x)}, Event(k, "CONNECTED"))
  <2>1. Apply(s, r) /\ UNCHANGED <<rx, listeners, iss_counter>> /\ c.state = SYN_SENT
    BY <1>3, <1>12 DEF InputSynAck, k, q
  <2>2. Kept(x) /\ x.state = ESTABLISHED BY <1>1, <1>3 DEF Conns
  <2>3. x \in Conns
    <3>1. d = r.c BY <2>1, ApplySends DEF d
    <3>2. QED BY <1>1, <3>1 DEF Result
  <2>4. Event(k, "CONNECTED") # "unused" BY DEF Event
  <2>5. r.q = t.q /\ r.out = {PlainAck(x)} BY DEF Result
  <2> HIDE DEF x
  <2>6. \A i \in 1 .. Len(t.q) : \E j \in 1 .. Len(q) : t.q[i] = q[j]
    <3> DEFINE n == AckedCount(q, g.ack)
    <3>1. t.q = SubSeq(q, n + 1, Len(q)) BY DEF tcp_tx_ack
    <3>2. n \in 0 .. Len(q) BY <1>1, AckedCountType DEF Segments
    <3> HIDE DEF n, t
    <3>3. Len(t.q) = Len(q) - n /\ \A i \in 1 .. Len(q) - n : t.q[i] = q[n + i] BY <1>1, <3>1, <3>2
    <3>4. \A i \in 1 .. Len(q) - n : n + i \in 1 .. Len(q) BY <3>2
    <3>5. QED BY <3>3, <3>4
  <2>7. Quiet(r)
    <3>1. PlainAck(x).data = <<>> /\ PlainAck(x).port = c.local /\ "SYN" \notin PlainAck(x).flags
      BY <2>2 DEF PlainAck, tcp_send_segment
    <3> HIDE DEF r, t
    <3>2. QED BY <2>5, <2>6, <3>1
  <2> HIDE DEF t
  <2>8. QED BY <1>9, <2>1, <2>2, <2>3, <2>4, <2>7
<1>13. CASE InputSynSyn(s, g)
  <2> DEFINE x == [k EXCEPT !.rcv_nxt = Add(g.seq, 1), !.state = SYN_RCVD]
             sa == tcp_send_segment(x, {"SYN", "ACK"}, x.snd_una, <<>>)
             r == Result(x, q, {}, {sa}, "none")
  <2>1. Apply(s, r) /\ UNCHANGED <<rx, listeners, iss_counter>> /\ c.state = SYN_SENT
    BY <1>13 DEF InputSynSyn, k, q, c
  <2>2. Kept(x) /\ x.state = SYN_RCVD /\ x.snd_una = c.snd_una BY <1>1, <1>3 DEF Conns
  <2>3. x \in Conns
    <3>1. d = r.c BY <2>1, ApplySends DEF d
    <3>2. QED BY <1>1, <3>1 DEF Result
  <2> HIDE DEF x
  <2>4. Quiet(r) BY <2>1, <2>2 DEF Result, tcp_send_segment
  <2>5. QED BY <1>9, <2>1, <2>2, <2>3, <2>4
<1>14. CASE InputSynDrop(s, g)
  <2> DEFINE r == Result(k, q, {}, {}, "none")
  <2>1. Apply(s, r) /\ UNCHANGED <<rx, listeners, iss_counter>>
    BY <1>14 DEF InputSynDrop, k, q
  <2>2. r.q = q /\ r.out = {} BY DEF Result
  <2>3. Quiet(r) BY <2>2
  <2>4. QED BY <1>1, <1>3, <1>9, <2>1, <2>3
<1>15. CASE InputOutOfOrder(s, g)
  <2> DEFINE r == Result(k, q, {}, {PlainAck(k)}, "none")
  <2>1. Apply(s, r) /\ UNCHANGED <<rx, listeners, iss_counter>>
    BY <1>15 DEF InputOutOfOrder, k, q
  <2>2. Quiet(r) BY <1>3 DEF Result, PlainAck, tcp_send_segment
  <2>3. QED BY <1>1, <1>3, <1>9, <2>1, <2>2
<1>16. CASE InputBadSyn(s, g) BY <1>1, <1>3, <1>8, <1>16 DEF InputBadSyn, k, q
<1>17. CASE InputLastAck(s, g) BY <1>1, <1>3, <1>8, <1>17 DEF InputLastAck, k, q
<1>18. CASE InputAccept(s, g)
  <2> DEFINE a == AckConn(k, g)
             n == Accept(a, g)
             r == Accepted(k, q, g)
             new == rx_write(rx[s], a.rx_head, g.data, n)
  <2>1. /\ Apply(s, r) /\ UNCHANGED <<listeners, iss_counter>> /\ k.state >= SYN_RCVD
        /\ rx' = [rx EXCEPT ![s] = new] /\ ~OutOfOrder(k, g)
    BY <1>18 DEF InputAccept, k, q
  <2>2. rx'[s] = new BY <2>1 DEF TypeOK
  <2>3. a.rx_head = k.rx_head BY <1>1, <2>1, AckShape
  <2>4. n > 0 => g.seq = k.rcv_nxt
    <3>1. n > 0 => Len(g.data) > 0 BY DEF Accept, TakesData
    <3>2. QED BY <2>1, <3>1 DEF OutOfOrder
  <2> HIDE DEF a, n, r
  <2>5. /\ r.c \in Conns /\ r.c.active = k.active /\ r.c.local = k.local /\ r.c.snd_nxt = k.snd_nxt
        /\ r.c.rx_tail = k.rx_tail /\ r.c.rx_head = (k.rx_head + n) % RX_BUF_SIZE
        /\ r.c.state \in Taking => k.state \in Taking /\ r.c.rcv_nxt = Add(k.rcv_nxt, n)
        /\ r.c.state # SYN_SENT /\ (r.c.state = SYN_RCVD => k.state = SYN_RCVD)
        /\ r.c.state \in {ESTABLISHED, CLOSE_WAIT} => k.state \in Sending
        /\ n > 0 => k.state \in Taking
        /\ n \in 0 .. rx_free(k) /\ n \in 0 .. Len(g.data)
    BY <1>1, <2>1, AcceptedShape DEF r, n, a
  <2>6. /\ \A i \in 1 .. Len(r.q) : \E j \in 1 .. Len(q) : r.q[i] = q[j]
        /\ \A x \in r.out : x.data = <<>> /\ x.flags = {"ACK"} /\ x.port = k.local
    BY <1>1, <2>1, AcceptedSends DEF r
  <2>7. Quiet(r) BY <1>3, <2>6
  <2>8. r.ev # "unused" BY DEF r, Accepted, Result, EventOfProcess, Event
  <2>9. Found(s, g) /\ Sends(s) /\ d = r.c
    <3>1. Apply(s, r) /\ UNCHANGED <<listeners, iss_counter>> BY <2>1
    <3>2. k.active /\ k.local = c.local /\ k.snd_nxt = c.snd_nxt /\ k.state = c.state BY <1>3
    <3>3. \/ ~d.active /\ d.state = CLOSED
          \/ /\ r.c.active /\ r.c.local = c.local /\ r.c.snd_nxt = c.snd_nxt
             /\ r.c.state = SYN_SENT => c.state = SYN_SENT /\ r.c.snd_una = c.snd_una
             /\ r.c.state = SYN_RCVD => c.state \in {SYN_SENT, SYN_RCVD}
             /\ r.c.state \in {ESTABLISHED, CLOSE_WAIT} => c.state \in {SYN_SENT} \cup Sending
      BY <2>5, <3>2
    <3>4. /\ d = r.c /\ txq'[s] = r.q /\ wire' \ wire \subseteq r.out
          /\ told'[s] = "unused" => told[s] = "unused"
      BY <2>8, <3>1, ApplySends DEF d
    <3>5. Found(s, g) BY <1>2, <3>1, <3>4 DEF Found, c
    <3>6. Sends(s) BY <2>7, <3>3, <3>4 DEF Sends, c, d, q
    <3>7. QED BY <3>4, <3>5, <3>6
  <2>10. rx_bytes(d, new) = rx_bytes(k, rx[s]) \o Leading(g.data, n)
    <3>1. new = rx_write(rx[s], k.rx_head, g.data, n) BY <2>3
    <3>2. new \in [0 .. RX_BUF_SIZE - 1 -> Bytes] BY <1>5, <2>2
    <3> HIDE DEF new
    <3>3. n <= Len(g.data) /\ n \in 0 .. rx_free(k) BY <2>5
    <3>4. d \in Conns /\ d.rx_tail = k.rx_tail /\ d.rx_head = (k.rx_head + n) % RX_BUF_SIZE
      BY <2>5, <2>9
    <3>5. Written(k, d, rx[s], new, g.data, n)
      BY <1>1, <1>4, <1>5, <3>1, <3>2, <3>3, <3>4 DEF Written
    <3>6. QED BY <3>5, RingTakes
  <2>11. rx_bytes(k, rx[s]) = rx_bytes(c, rx[s]) BY <1>3 DEF rx_bytes, rx_available
  <2>12. Takes(s, g, n)
    <3>1. rx_bytes(d, rx'[s]) = rx_bytes(c, rx[s]) \o Leading(g.data, n) BY <2>2, <2>10, <2>11
    <3> HIDE DEF new
    <3>2. n > 0 => g.seq = c.rcv_nxt /\ c.state \in Taking BY <1>3, <2>4, <2>5
    <3>3. d.state # SYN_SENT BY <2>5, <2>9
    <3>4. d.state \in Taking => c.state \in Taking /\ d.rcv_nxt = Add(c.rcv_nxt, n) BY <1>3, <2>5, <2>9
    <3>5. QED BY <3>1, <3>2, <3>3, <3>4 DEF Takes, c, d
  <2>13. QED BY <2>5, <2>9, <2>12
<1>19. QED BY <1>11, <1>12, <1>13, <1>14, <1>15, <1>16, <1>17, <1>18

\* The numbers after sections 5 to 7, and what their answers acknowledge.
LEMMA AcceptedNumbers ==
  ASSUME NEW c \in Conns, NEW q \in Seq(TxSegs), NEW g \in Segments, c.state >= SYN_RCVD,
         NEW r, r = Accepted(c, q, g)
  PROVE  /\ r.c.state \in Taking => \A y \in r.out : y.ack = r.c.rcv_nxt
         /\ r.c.state = SYN_RCVD =>
              c.state = SYN_RCVD /\ r.c.snd_una = c.snd_una /\ r.c.rcv_nxt = c.rcv_nxt
         /\ r.c.state = ESTABLISHED =>
              \/ /\ c.state = SYN_RCVD /\ "ACK" \in g.flags
                 /\ SEQ_LEQ(c.snd_una, g.ack) /\ SEQ_LEQ(g.ack, c.snd_nxt)
              \/ /\ c.state = ESTABLISHED
                 /\ r.c.snd_una = c.snd_una \/ ("ACK" \in g.flags /\ r.c.snd_una = g.ack)
         /\ r.c.state \in {FIN_WAIT_1, FIN_WAIT_2} => c.state \in {FIN_WAIT_1, FIN_WAIT_2}
         /\ c.state \in Taking /\ "FIN" \notin g.flags => r.c.state \in Taking
         /\ r.c.state # CLOSED
<1> USE DEF CLOSED, SYN_SENT, SYN_RCVD, ESTABLISHED, FIN_WAIT_1, FIN_WAIT_2, CLOSE_WAIT, CLOSING,
            LAST_ACK, TIME_WAIT
<1> DEFINE x == AckConn(c, g)
           d == DataConn(x, g)
           f == FinConn(d, g)
<1>1. /\ x \in Conns
      /\ \/ x.state = c.state
         \/ c.state = SYN_RCVD /\ x.state = ESTABLISHED
         \/ c.state = FIN_WAIT_1 /\ x.state = FIN_WAIT_2
         \/ c.state \in {CLOSING, TIME_WAIT} /\ x.state = TIME_WAIT
  BY AckShape
<1>2. /\ x.state = SYN_RCVD => x = c
      /\ x.state = ESTABLISHED =>
           \/ /\ c.state = SYN_RCVD /\ "ACK" \in g.flags
              /\ SEQ_LEQ(c.snd_una, g.ack) /\ SEQ_LEQ(g.ack, c.snd_nxt)
           \/ /\ c.state = ESTABLISHED
              /\ x.snd_una = c.snd_una \/ ("ACK" \in g.flags /\ x.snd_una = g.ack)
  <2>1. CASE "ACK" \notin g.flags BY <2>1 DEF AckConn
  <2>2. CASE "ACK" \in g.flags /\ ~AckTakes(c, g)
    <3>1. \/ x = c
          \/ c.state = FIN_WAIT_1 /\ x.state = FIN_WAIT_2
          \/ x.state = TIME_WAIT
      BY <1>1, <2>2 DEF AckConn, AckedConn, EnterTimeWait, Conns
    <3>2. QED BY <3>1
  <2>3. CASE "ACK" \in g.flags /\ AckTakes(c, g)
    <3>1. CASE c.state = SYN_RCVD
      <4>1. SEQ_LEQ(c.snd_una, g.ack) /\ SEQ_LEQ(g.ack, c.snd_nxt) BY <2>3, <3>1 DEF AckTakes
      <4>2. x.state = ESTABLISHED
        BY <2>3, <3>1 DEF AckConn, AckedConn, TimersAfterAck, Conns
      <4>3. QED BY <2>3, <3>1, <4>1, <4>2
    <3>2. CASE c.state = ESTABLISHED
      <4>1. x = AckedConn(c, g) BY <2>3, <3>2 DEF AckConn
      <4>2. x.snd_una = g.ack /\ x.state = ESTABLISHED
        BY <2>3, <3>2, <4>1 DEF AckedConn, TimersAfterAck, Conns
      <4>3. QED BY <2>3, <3>2, <4>2
    <3>3. CASE c.state \notin {SYN_RCVD, ESTABLISHED}
      <4>1. x.state \notin {SYN_RCVD, ESTABLISHED} BY <1>1, <3>3
      <4>2. QED BY <4>1
    <3>4. QED BY <3>1, <3>2, <3>3
  <2>4. QED BY <2>1, <2>2, <2>3
<1>2a. r.c = f /\ r.out = (IF TakesData(x, g) THEN {PlainAck(d)} ELSE {}) \cup
             (IF "FIN" \in g.flags
              THEN {PlainAck([d EXCEPT !.rcv_nxt = f.rcv_nxt, !.rcv_wnd = f.rcv_wnd])} ELSE {})
  BY DEF Accepted, Result
<1> HIDE DEF x
<1>3. d \in Conns BY <1>1, DataConnType
<1>4. d.state = x.state /\ d.snd_una = x.snd_una /\ (x.state = SYN_RCVD => d = x)
  <2>1. x.state = SYN_RCVD => d = x BY DEF DataConn, Accept, TakesData
  <2>2. d.state = x.state /\ d.snd_una = x.snd_una BY <1>1 DEF DataConn, WrittenConn, Conns
  <2>3. QED BY <2>1, <2>2
<1> HIDE DEF d
<1>5. /\ \/ f = d
         \/ f.state = d.state /\ d.state \notin Taking
         \/ d.state \in {SYN_RCVD, ESTABLISHED} /\ f.state = CLOSE_WAIT
         \/ f.state \in {CLOSING, TIME_WAIT}
      /\ "FIN" \notin g.flags => f = d
      /\ f \in Conns
  <2> DEFINE e == [d EXCEPT !.rcv_nxt = Add(@, 1), !.rcv_wnd = rx_free(d)]
             e1 == [e EXCEPT !.state = CLOSE_WAIT]
             e2 == [e EXCEPT !.state = CLOSING]
             e3 == EnterTimeWait(e)
  <2>1. e.state = d.state /\ e1.state = CLOSE_WAIT /\ e2.state = CLOSING BY <1>3 DEF Conns
  <2>2. e3.state = TIME_WAIT BY <1>3 DEF EnterTimeWait, Conns
  <2> HIDE DEF e
  <2>3. \/ f = d
        \/ f = e /\ d.state \notin Taking
        \/ d.state \in {SYN_RCVD, ESTABLISHED} /\ f = e1
        \/ f = e2 \/ f = e3
    BY DEF FinConn, e, Taking
  <2>4. f \in Conns BY <1>3, FinConnType
  <2>5. "FIN" \notin g.flags => f = d BY DEF FinConn
  <2> HIDE DEF f, e1, e2, e3
  <2>6. QED BY <2>1, <2>2, <2>3, <2>4, <2>5
<1>6. f.state \in Taking => \A y \in r.out : y.ack = f.rcv_nxt
  <2> SUFFICES ASSUME f.state \in Taking PROVE \A y \in r.out : y.ack = f.rcv_nxt OBVIOUS
  <2>1. f = d BY <1>5 DEF Taking
  <2> DEFINE e == [d EXCEPT !.rcv_nxt = f.rcv_nxt, !.rcv_wnd = f.rcv_wnd]
  <2>2. e.rcv_nxt = f.rcv_nxt /\ d.rcv_nxt = f.rcv_nxt BY <1>3, <2>1 DEF Conns
  <2>3. r.out \subseteq {PlainAck(d), PlainAck(e)} BY <1>2a
  <2> HIDE DEF e, f
  <2>4. PlainAck(d).ack = f.rcv_nxt /\ PlainAck(e).ack = f.rcv_nxt
    BY <2>2 DEF PlainAck, tcp_send_segment
  <2>5. QED BY <2>3, <2>4
<1> HIDE DEF f
<1>7. c.state \in Int BY DEF Conns, States
<1>8. f.state = SYN_RCVD => f = d /\ x.state = SYN_RCVD BY <1>4, <1>5 DEF Taking
<1>9. f.state = ESTABLISHED => f = d /\ x.state = ESTABLISHED BY <1>4, <1>5 DEF Taking
<1>10. f.state \in {FIN_WAIT_1, FIN_WAIT_2} => f = d /\ x.state = f.state BY <1>4, <1>5 DEF Taking
<1>11. f.state # CLOSED BY <1>1, <1>4, <1>5, <1>7
<1>12. c.state \in Taking /\ "FIN" \notin g.flags => f.state \in Taking BY <1>1, <1>4, <1>5 DEF Taking
<1>13. f.state \in {FIN_WAIT_1, FIN_WAIT_2} => c.state \in {FIN_WAIT_1, FIN_WAIT_2} BY <1>1, <1>10
<1>14. f.state = SYN_RCVD => c.state = SYN_RCVD /\ f.snd_una = c.snd_una /\ f.rcv_nxt = c.rcv_nxt
  BY <1>2, <1>4, <1>8
<1>15. f.state = ESTABLISHED =>
         \/ /\ c.state = SYN_RCVD /\ "ACK" \in g.flags
            /\ SEQ_LEQ(c.snd_una, g.ack) /\ SEQ_LEQ(g.ack, c.snd_nxt)
         \/ /\ c.state = ESTABLISHED
            /\ f.snd_una = c.snd_una \/ ("ACK" \in g.flags /\ f.snd_una = g.ack)
  BY <1>2, <1>4, <1>9
<1>16. QED BY <1>2a, <1>6, <1>11, <1>12, <1>13, <1>14, <1>15

\* What a segment does to the numbers of the connection it is for, and what the
\* answers acknowledge.
Numbers(s, g) ==
  LET c == conn[s]
      d == conn'[s]
  IN  /\ "RST" \in g.flags => d.state = CLOSED
      /\ \A x \in wire' \ wire :
           /\ "FIN" \notin x.flags /\ d.state \notin {CLOSED, SYN_SENT}
           /\ d.state \in Taking => x.ack = d.rcv_nxt
      /\ d.state = SYN_SENT => d.rcv_nxt = c.rcv_nxt
      /\ d.state = SYN_RCVD =>
           \/ c.state = SYN_RCVD /\ d.snd_una = c.snd_una /\ d.rcv_nxt = c.rcv_nxt
           \/ c.state = SYN_SENT /\ "SYN" \in g.flags /\ "ACK" \notin g.flags
      /\ d.state = ESTABLISHED =>
           \/ /\ c.state = SYN_SENT /\ {"SYN", "ACK"} \subseteq g.flags
              /\ d.rcv_nxt = Add(g.seq, 1) /\ d.snd_una = g.ack
           \/ /\ c.state = SYN_RCVD /\ "ACK" \in g.flags
              /\ SEQ_LEQ(c.snd_una, g.ack) /\ SEQ_LEQ(g.ack, c.snd_nxt)
           \/ /\ c.state = ESTABLISHED
              /\ d.snd_una = c.snd_una \/ ("ACK" \in g.flags /\ d.snd_una = g.ack)
      /\ d.state \in {FIN_WAIT_1, FIN_WAIT_2} => c.state \in {FIN_WAIT_1, FIN_WAIT_2}
      /\ c.state \in Taking /\ "FIN" \notin g.flags => d.state \in Taking \cup {CLOSED}
      /\ d.active /\ d.state = CLOSED => c.state = CLOSED

LEMMA InputNumbers ==
  ASSUME TypeOK, NEW s \in Slots, NEW g \in Segments, IsConnOf(s, g),
         \/ InputReset(s, g) \/ InputSynAck(s, g) \/ InputSynSyn(s, g)
         \/ InputSynDrop(s, g) \/ InputOutOfOrder(s, g) \/ InputBadSyn(s, g)
         \/ InputLastAck(s, g) \/ InputAccept(s, g)
  PROVE  Numbers(s, g)
<1> USE DEF CLOSED, SYN_SENT, SYN_RCVD, ESTABLISHED, FIN_WAIT_1, FIN_WAIT_2, CLOSE_WAIT, CLOSING,
            LAST_ACK, TIME_WAIT
<1> DEFINE k == Known(s, g)
           c == conn[s]
           d == conn'[s]
           q == txq[s]
<1>1. c \in Conns /\ k \in Conns /\ q \in Seq(TxSegs) BY KnownType DEF TypeOK
<1>2. /\ k.state = c.state /\ k.snd_una = c.snd_una /\ k.rcv_nxt = c.rcv_nxt /\ k.snd_nxt = c.snd_nxt
  BY <1>1 DEF Known, Conns
<1>3. ASSUME NEW r, Apply(s, r) PROVE d = r.c /\ wire' \ wire \subseteq r.out
  BY <1>3, ApplySends
<1> HIDE DEF k, c, d, q
<1>4. ASSUME NEW x \in Conns, NEW ev, Apply(s, tcp_free_conn(x, q, {}, ev)) PROVE Numbers(s, g)
  <2> DEFINE r == tcp_free_conn(x, q, {}, ev)
  <2>1. r.c = Freed(x) /\ r.out = {} BY DEF tcp_free_conn, Result
  <2>2. Freed(x).state = CLOSED /\ ~Freed(x).active BY FreedShape
  <2>3. d.state = CLOSED /\ ~d.active /\ wire' \ wire = {} BY <1>3, <1>4, <2>1, <2>2
  <2>4. QED BY <2>3 DEF Numbers, d
\* Nothing but an acknowledgment that repeats rcv_nxt.
<1>5. ASSUME NEW x \in Conns, NEW out, Apply(s, Result(x, q, {}, out, "none")), "RST" \notin g.flags,
             x.state = c.state, x.snd_una = c.snd_una, x.rcv_nxt = c.rcv_nxt,
             \A y \in out : c.state >= SYN_RCVD /\ y = PlainAck(x)
      PROVE  Numbers(s, g)
  <2>1. d = x /\ wire' \ wire \subseteq out BY <1>3, <1>5 DEF Result
  <2>2. \A y \in out : y.flags = {"ACK"} /\ y.ack = x.rcv_nxt BY <1>5 DEF PlainAck, tcp_send_segment
  <2>3. \A y \in wire' \ wire : /\ "FIN" \notin y.flags /\ y.ack = x.rcv_nxt
                                /\ x.state \notin {CLOSED, SYN_SENT}
    BY <1>5, <2>1, <2>2
  <2>4. QED BY <1>5, <2>1, <2>3 DEF Numbers, c, d
<1>6. CASE InputReset(s, g) BY <1>1, <1>4, <1>6 DEF InputReset, c, q
<1>7. CASE InputSynAck(s, g)
  <2> DEFINE x == [k EXCEPT !.rcv_nxt = Add(g.seq, 1), !.snd_una = g.ack,
                            !.state = ESTABLISHED, !.rto_ticks = RTO_INIT,
                            !.rto_counter = 0, !.retries = 0]
             t == tcp_tx_ack(q, g.ack)
             r == Result(x, t.q, t.freed, {PlainAck(x)}, Event(k, "CONNECTED"))
  <2>1. /\ Apply(s, r) /\ c.state = SYN_SENT /\ "RST" \notin g.flags /\ {"SYN", "ACK"} \subseteq g.flags
    BY <1>2, <1>7 DEF InputSynAck, k, q
  <2>2. x.state = ESTABLISHED /\ x.rcv_nxt = Add(g.seq, 1) /\ x.snd_una = g.ack BY <1>1 DEF Conns
  <2>3. r.c = x /\ r.out = {PlainAck(x)} BY DEF Result
  <2> HIDE DEF x, r
  <2>4. d = x /\ wire' \ wire \subseteq {PlainAck(x)} BY <1>3, <2>1, <2>3
  <2>5. PlainAck(x).flags = {"ACK"} /\ PlainAck(x).ack = x.rcv_nxt BY DEF PlainAck, tcp_send_segment
  <2>6. \A y \in wire' \ wire : "FIN" \notin y.flags /\ y.ack = d.rcv_nxt BY <2>4, <2>5
  <2>7. /\ d.state = ESTABLISHED /\ d.rcv_nxt = Add(g.seq, 1) /\ d.snd_una = g.ack
        /\ c.state \notin Taking
    BY <2>1, <2>2, <2>4 DEF Taking
  <2>8. QED BY <2>1, <2>6, <2>7 DEF Numbers, c, d
<1>8. CASE InputSynSyn(s, g)
  <2> DEFINE x == [k EXCEPT !.rcv_nxt = Add(g.seq, 1), !.state = SYN_RCVD]
             sa == tcp_send_segment(x, {"SYN", "ACK"}, x.snd_una, <<>>)
             r == Result(x, q, {}, {sa}, "none")
  <2>1. /\ Apply(s, r) /\ c.state = SYN_SENT /\ "RST" \notin g.flags
        /\ "SYN" \in g.flags /\ "ACK" \notin g.flags
    BY <1>8 DEF InputSynSyn, k, q, c
  <2>2. x.state = SYN_RCVD BY <1>1 DEF Conns
  <2>3. r.c = x /\ r.out = {sa} BY DEF Result
  <2>4. sa.flags = {"SYN", "ACK"} /\ sa.ack = x.rcv_nxt BY DEF tcp_send_segment
  <2> HIDE DEF x, sa, r
  <2>5. d = x /\ wire' \ wire \subseteq {sa} BY <1>3, <2>1, <2>3
  <2>6. \A y \in wire' \ wire : "FIN" \notin y.flags /\ y.ack = d.rcv_nxt BY <2>4, <2>5
  <2>7. d.state = SYN_RCVD /\ c.state \notin Taking BY <2>1, <2>2, <2>5 DEF Taking
  <2>8. QED BY <2>1, <2>6, <2>7 DEF Numbers, c, d
<1>9. CASE InputSynDrop(s, g)
  <2>1. Apply(s, Result(k, q, {}, {}, "none")) /\ "RST" \notin g.flags BY <1>9 DEF InputSynDrop, k, q
  <2>2. QED BY <1>1, <1>2, <1>5, <2>1
<1>10. CASE InputOutOfOrder(s, g)
  <2>1. /\ Apply(s, Result(k, q, {}, {PlainAck(k)}, "none")) /\ "RST" \notin g.flags
        /\ k.state >= SYN_RCVD
    BY <1>10 DEF InputOutOfOrder, k, q
  <2>2. QED BY <1>1, <1>2, <1>5, <2>1
<1>11. CASE InputBadSyn(s, g) BY <1>1, <1>4, <1>11 DEF InputBadSyn, k, q
<1>12. CASE InputLastAck(s, g) BY <1>1, <1>4, <1>12 DEF InputLastAck, k, q
<1>13. CASE InputAccept(s, g)
  <2> DEFINE r == Accepted(k, q, g)
  <2>1. Apply(s, r) /\ k.state >= SYN_RCVD /\ "RST" \notin g.flags BY <1>13 DEF InputAccept, k, q
  <2>2. /\ r.c.state \in Taking => \A y \in r.out : y.ack = r.c.rcv_nxt
        /\ r.c.state = SYN_RCVD =>
             k.state = SYN_RCVD /\ r.c.snd_una = k.snd_una /\ r.c.rcv_nxt = k.rcv_nxt
        /\ r.c.state = ESTABLISHED =>
             \/ /\ k.state = SYN_RCVD /\ "ACK" \in g.flags
                /\ SEQ_LEQ(k.snd_una, g.ack) /\ SEQ_LEQ(g.ack, k.snd_nxt)
             \/ /\ k.state = ESTABLISHED
                /\ r.c.snd_una = k.snd_una \/ ("ACK" \in g.flags /\ r.c.snd_una = g.ack)
        /\ r.c.state \in {FIN_WAIT_1, FIN_WAIT_2} => k.state \in {FIN_WAIT_1, FIN_WAIT_2}
        /\ k.state \in Taking /\ "FIN" \notin g.flags => r.c.state \in Taking
        /\ r.c.state # CLOSED
    BY <1>1, <2>1, AcceptedNumbers
  <2>3. \A y \in r.out : y.flags = {"ACK"} BY <1>1, <2>1, AcceptedSends
  <2>4. r.c.state # SYN_SENT BY <1>1, <2>1, AcceptedShape
  <2> HIDE DEF r
  <2>5. d = r.c /\ wire' \ wire \subseteq r.out BY <1>3, <2>1
  <2>6. \A y \in wire' \ wire : /\ "FIN" \notin y.flags /\ d.state \notin {CLOSED, SYN_SENT}
                                /\ d.state \in Taking => y.ack = d.rcv_nxt
    BY <2>2, <2>3, <2>4, <2>5
  <2>7. QED BY <1>2, <2>1, <2>2, <2>4, <2>5, <2>6 DEF Numbers, c, d
<1>14. QED BY <1>6, <1>7, <1>8, <1>9, <1>10, <1>11, <1>12, <1>13

LEMMA InputConnNumbers ==
  ASSUME TypeOK, NEW g \in Segments, InputConn(g) PROVE \E s \in Slots : Numbers(s, g)
BY InputNumbers DEF InputConn

\* Every queued segment of slot s was there before, or is a new one described so.
QueuedAnew(s, seq, flags, data) ==
  \A i \in 1 .. Len(txq'[s]) :
    \/ \E j \in 1 .. Len(txq[s]) : txq'[s][i] = txq[s][j]
    \/ txq'[s][i].seq = seq /\ txq'[s][i].flags = flags /\ txq'[s][i].data = data
SentAnew(port, seq, flags, data) ==
  \A x \in wire' \ wire : x.port = port /\ x.seq = seq /\ x.flags = flags /\ x.data = data

LEMMA EnqueuedAnew ==
  ASSUME TypeOK, NEW s \in Slots, NEW n, NEW fl, NEW d, tcp_tx_enqueue(s, txq[s], n, fl, d)
  PROVE  QueuedAnew(s, n, fl, d)
<1> DEFINE q == txq[s]
<1>1. q \in Seq(TxSegs) BY DEF TypeOK
<1>2. PICK b : txq'[s] = Append(q, [blk |-> b, seq |-> n, data |-> d, flags |-> fl])
  BY DEF tcp_tx_enqueue, TypeOK
<1> DEFINE e == [blk |-> b, seq |-> n, data |-> d, flags |-> fl]
<1>3. e.seq = n /\ e.flags = fl /\ e.data = d OBVIOUS
<1> HIDE DEF e, q
<1>4. txq'[s] = Append(q, e) BY <1>2 DEF e, q
<1>5. \A i \in 1 .. Len(txq'[s]) : \/ i \in 1 .. Len(q) /\ txq'[s][i] = q[i]
                                   \/ txq'[s][i] = e
  BY <1>1, <1>4
<1>6. QED BY <1>3, <1>5 DEF QueuedAnew, q

LEMMA ConnectShape ==
  ASSUME TypeOK, NEW r \in Remotes, NEW p \in Ports, Connect(r, p)
  PROVE  \E s \in Slots :
           /\ conn'[s].active /\ conn'[s].state = SYN_SENT /\ conn'[s].local = p
           /\ conn'[s].snd_una = tcp_gen_iss /\ conn'[s].snd_nxt = Add(tcp_gen_iss, 1)
           /\ conn'[s].rcv_nxt = 0
           /\ \A i \in 1 .. Len(txq'[s]) :
                txq'[s][i].seq = tcp_gen_iss /\ txq'[s][i].flags = {"SYN"} /\ txq'[s][i].data = <<>>
           /\ SentAnew(p, tcp_gen_iss, {"SYN"}, <<>>) /\ \A x \in wire' \ wire : x.ack = 0
           /\ iss_counter' = tcp_gen_iss /\ told'[s] = "opening" /\ UNCHANGED <<rx, listeners>>
<1> DEFINE iss == tcp_gen_iss
           c == OpenConn(SYN_SENT, r, p, TRUE, MSS, iss, 0)
<1>1. PICK s \in Slots : /\ EnqueueOrSkip(s, <<>>, iss, {"SYN"})
                         /\ Emit({tcp_send_segment(c, {"SYN"}, iss, <<>>)})
                         /\ conn' = [conn EXCEPT ![s] = c] /\ iss_counter' = iss
                         /\ told' = [told EXCEPT ![s] = "opening"] /\ UNCHANGED <<rx, listeners>>
  BY DEF Connect
<1>2. /\ c.active /\ c.state = SYN_SENT /\ c.local = p /\ c.snd_una = iss
      /\ c.snd_nxt = Add(iss, 1) /\ c.rcv_nxt = 0
  <2> HIDE DEF iss
  <2>1. QED BY DEF OpenConn, ZeroConn
<1> HIDE DEF c, iss
<1>3. conn'[s] = c /\ told'[s] = "opening" BY <1>1 DEF TypeOK
<1>4. \A i \in 1 .. Len(txq'[s]) :
        txq'[s][i].seq = iss /\ txq'[s][i].flags = {"SYN"} /\ txq'[s][i].data = <<>>
  <2>1. CASE tcp_tx_enqueue(s, <<>>, iss, {"SYN"}, <<>>)
    <3>1. PICK b : txq'[s] = Append(<<>>, [blk |-> b, seq |-> iss, data |-> <<>>, flags |-> {"SYN"}])
      BY <2>1 DEF tcp_tx_enqueue, TypeOK
    <3>2. Len(txq'[s]) = 1 /\ txq'[s][1] = [blk |-> b, seq |-> iss, data |-> <<>>, flags |-> {"SYN"}]
      BY <3>1
    <3>3. QED BY <3>2
  <2>2. CASE txq' = [txq EXCEPT ![s] = <<>>] BY <2>2 DEF TypeOK
  <2>3. QED BY <1>1, <2>1, <2>2 DEF EnqueueOrSkip
<1>5. SentAnew(p, iss, {"SYN"}, <<>>) /\ \A x \in wire' \ wire : x.ack = 0
  BY <1>1, <1>2 DEF SentAnew, Emit, tcp_send_segment
<1>6. QED BY <1>1, <1>2, <1>3, <1>4, <1>5 DEF iss

LEMMA SendShape ==
  ASSUME TypeOK, NEW s \in Slots, NEW data \in Seq(Bytes), Send(s, data)
  PROVE  /\ conn[s].state \in {ESTABLISHED, CLOSE_WAIT}
         /\ conn'[s].active <=> conn[s].active
         /\ conn'[s].state = conn[s].state /\ conn'[s].local = conn[s].local
         /\ conn'[s].snd_nxt = Add(conn[s].snd_nxt, Len(data))
         /\ conn'[s].snd_una = conn[s].snd_una /\ conn'[s].rcv_nxt = conn[s].rcv_nxt
         /\ QueuedAnew(s, conn[s].snd_nxt, {}, data)
         /\ SentAnew(conn[s].local, conn[s].snd_nxt, {"ACK"}, data)
         /\ \A x \in wire' \ wire : x.ack = conn[s].rcv_nxt
         /\ UNCHANGED <<rx, listeners, iss_counter, told>>
<1>1. conn[s] \in Conns BY DEF TypeOK
<1>2. /\ conn'[s].active <=> conn[s].active
      /\ conn'[s].state = conn[s].state /\ conn'[s].local = conn[s].local
      /\ conn'[s].snd_nxt = Add(conn[s].snd_nxt, Len(data))
      /\ conn'[s].snd_una = conn[s].snd_una /\ conn'[s].rcv_nxt = conn[s].rcv_nxt
  BY <1>1 DEF Send, Conns, TypeOK
<1>3. QueuedAnew(s, conn[s].snd_nxt, {}, data) BY EnqueuedAnew DEF Send
<1>4. /\ SentAnew(conn[s].local, conn[s].snd_nxt, {"ACK"}, data)
      /\ \A x \in wire' \ wire : x.ack = conn[s].rcv_nxt
  BY DEF Send, SentAnew, Emit, tcp_send_segment
<1>5. QED BY <1>2, <1>3, <1>4 DEF Send

LEMMA CloseShape ==
  ASSUME TypeOK, NEW s \in Slots, CloseGraceful(s)
  PROVE  /\ conn[s].state \in {ESTABLISHED, CLOSE_WAIT}
         /\ conn'[s].active <=> conn[s].active
         /\ conn'[s].state = (IF conn[s].state = ESTABLISHED THEN FIN_WAIT_1 ELSE LAST_ACK)
         /\ conn'[s].local = conn[s].local /\ conn'[s].rcv_nxt = conn[s].rcv_nxt
         /\ conn'[s].rx_head = conn[s].rx_head /\ conn'[s].rx_tail = conn[s].rx_tail
         /\ QueuedAnew(s, conn[s].snd_nxt, {"FIN"}, <<>>)
         /\ SentAnew(conn[s].local, conn[s].snd_nxt, {"FIN", "ACK"}, <<>>)
         /\ \A x \in wire' \ wire : x.ack = conn[s].rcv_nxt
         /\ UNCHANGED <<rx, listeners, iss_counter, told>>
<1>1. conn[s] \in Conns BY DEF TypeOK
<1>2. /\ conn'[s].active <=> conn[s].active
      /\ conn'[s].state = (IF conn[s].state = ESTABLISHED THEN FIN_WAIT_1 ELSE LAST_ACK)
      /\ conn'[s].local = conn[s].local /\ conn'[s].rcv_nxt = conn[s].rcv_nxt
      /\ conn'[s].rx_head = conn[s].rx_head /\ conn'[s].rx_tail = conn[s].rx_tail
  BY <1>1 DEF CloseGraceful, Conns, TypeOK
<1>3. QueuedAnew(s, conn[s].snd_nxt, {"FIN"}, <<>>)
  <2>1. CASE tcp_tx_enqueue(s, txq[s], conn[s].snd_nxt, {"FIN"}, <<>>) BY <2>1, EnqueuedAnew
  <2>2. CASE txq' = [txq EXCEPT ![s] = txq[s]] BY <2>2 DEF QueuedAnew, TypeOK
  <2>3. QED BY <2>1, <2>2 DEF CloseGraceful, EnqueueOrSkip
<1>4. /\ SentAnew(conn[s].local, conn[s].snd_nxt, {"FIN", "ACK"}, <<>>)
      /\ \A x \in wire' \ wire : x.ack = conn[s].rcv_nxt
  BY DEF CloseGraceful, SentAnew, Emit, tcp_send_segment
<1>5. QED BY <1>2, <1>3, <1>4 DEF CloseGraceful

LEMMA ReadShape ==
  ASSUME TypeOK, NEW s \in Slots, NEW n \in ReadSizes, Read(s, n)
  PROVE  /\ conn'[s] = ReadConn(conn[s], n) /\ conn'[s] \in Conns
         /\ conn'[s].active <=> conn[s].active
         /\ conn'[s].state = conn[s].state /\ conn'[s].local = conn[s].local
         /\ conn'[s].rcv_nxt = conn[s].rcv_nxt
         /\ conn'[s].snd_una = conn[s].snd_una /\ conn'[s].snd_nxt = conn[s].snd_nxt
         /\ \A x \in wire' \ wire :
              /\ x.port = conn[s].local /\ conn[s].state = ESTABLISHED
              /\ x.flags = {"ACK"} /\ x.data = <<>> /\ x.ack = conn[s].rcv_nxt
         /\ UNCHANGED <<rx, txq, listeners, iss_counter, told>>
<1>1. conn[s] \in Conns BY DEF TypeOK
<1>2. conn'[s] = ReadConn(conn[s], n) BY DEF Read, TypeOK
<1>3. conn'[s] \in Conns BY ApplicationType DEF TypeOK
<1>4. /\ ReadConn(conn[s], n).active <=> conn[s].active
      /\ ReadConn(conn[s], n).state = conn[s].state /\ ReadConn(conn[s], n).local = conn[s].local
      /\ ReadConn(conn[s], n).rcv_nxt = conn[s].rcv_nxt
      /\ ReadConn(conn[s], n).snd_una = conn[s].snd_una /\ ReadConn(conn[s], n).snd_nxt = conn[s].snd_nxt
  BY <1>1 DEF ReadConn, Conns
<1>5. \A x \in wire' \ wire :
        /\ x.port = conn[s].local /\ conn[s].state = ESTABLISHED
        /\ x.flags = {"ACK"} /\ x.data = <<>> /\ x.ack = conn[s].rcv_nxt
  <2> TAKE x \in wire' \ wire
  <2>1. x = PlainAck(ReadConn(conn[s], n)) /\ conn[s].state = ESTABLISHED BY DEF Read, Emit
  <2>2. QED BY <1>4, <2>1 DEF PlainAck, tcp_send_segment
<1>6. QED BY <1>2, <1>3, <1>4, <1>5 DEF Read

LEMMA ReadGives ==
  ASSUME TypeOK, NEW s \in Slots, NEW n \in ReadSizes, Read(s, n)
  PROVE  /\ ReadLen(conn[s], n) \in 0 .. rx_available(conn[s])
         /\ Leading(rx_bytes(conn[s], rx[s]), ReadLen(conn[s], n)) \o rx_bytes(ReadConn(conn[s], n), rx[s])
              = rx_bytes(conn[s], rx[s])
<1>1. conn[s] \in Conns /\ rx[s] \in [0 .. RX_BUF_SIZE - 1 -> Bytes] /\ n \in Nat
  BY InputsAssumption DEF TypeOK
<1>2. ReadConn(conn[s], n) \in Conns BY ReadShape
<1>3. QED BY <1>1, <1>2, RingGives

LEMMA ListenShape ==
  ASSUME TypeOK, NEW g \in Segments, InputListen(g)
  PROVE  /\ "SYN" \in g.flags /\ \E l \in LSlots : listeners[l] = g.port
         /\ SentAnew(g.port, tcp_gen_iss, {"SYN", "ACK"}, <<>>)
         /\ \A x \in wire' \ wire : x.ack = Add(g.seq, 1)
         /\ iss_counter' = tcp_gen_iss /\ UNCHANGED <<rx, listeners>>
         /\ \E s \in Slots :
              /\ ~conn[s].active
              /\ conn'[s].active /\ conn'[s].state = SYN_RCVD /\ conn'[s].local = g.port
              /\ conn'[s].rcv_nxt = Add(g.seq, 1) /\ rx_bytes(conn'[s], rx'[s]) = <<>>
              /\ conn'[s].snd_una = tcp_gen_iss /\ conn'[s].snd_nxt = Add(tcp_gen_iss, 1)
              /\ \A i \in 1 .. Len(txq'[s]) : txq'[s][i].seq = tcp_gen_iss /\ txq'[s][i].data = <<>>
<1> DEFINE iss == tcp_gen_iss
           c == OpenConn(SYN_RCVD, g.remote, g.port, g.port # 0, ClampMss(g.mss), iss, Add(g.seq, 1))
<1>1. PICK s \in Slots : /\ Listening(g) /\ Emit({tcp_send_segment(c, {"SYN", "ACK"}, iss, <<>>)})
                         /\ IsFreeSlot(s) /\ EnqueueOrSkip(s, <<>>, iss, {"SYN", "ACK"})
                         /\ conn' = [conn EXCEPT ![s] = c] /\ iss_counter' = iss
                         /\ UNCHANGED <<rx, listeners>>
  BY DEF InputListen
<1>2. /\ c.active /\ c.state = SYN_RCVD /\ c.local = g.port /\ c.rcv_nxt = Add(g.seq, 1)
      /\ c.rx_head = 0 /\ c.rx_tail = 0 /\ c.snd_una = iss /\ c.snd_nxt = Add(iss, 1)
  <2> HIDE DEF iss
  <2>1. QED BY DEF OpenConn, ZeroConn
<1> HIDE DEF c, iss
<1>3. conn'[s] = c BY <1>1 DEF TypeOK
<1>4. rx_bytes(c, rx'[s]) = <<>> BY <1>2 DEF rx_bytes, rx_available
<1>5. "SYN" \in g.flags /\ \E l \in LSlots : listeners[l] = g.port
  BY <1>1 DEF Listening, tcp_find_listener
<1>6. SentAnew(g.port, iss, {"SYN", "ACK"}, <<>>) /\ \A x \in wire' \ wire : x.ack = Add(g.seq, 1)
  BY <1>1, <1>2 DEF SentAnew, Emit, tcp_send_segment
<1>7. \A i \in 1 .. Len(txq'[s]) : txq'[s][i].seq = iss /\ txq'[s][i].data = <<>>
  <2>1. CASE tcp_tx_enqueue(s, <<>>, iss, {"SYN", "ACK"}, <<>>)
    <3>1. PICK b : txq'[s] = Append(<<>>, [blk |-> b, seq |-> iss, data |-> <<>>, flags |-> {"SYN", "ACK"}])
      BY <2>1 DEF tcp_tx_enqueue, TypeOK
    <3>2. Len(txq'[s]) = 1 /\ txq'[s][1] = [blk |-> b, seq |-> iss, data |-> <<>>, flags |-> {"SYN", "ACK"}]
      BY <3>1
    <3>3. QED BY <3>2
  <2>2. CASE txq' = [txq EXCEPT ![s] = <<>>] BY <2>2 DEF TypeOK
  <2>3. QED BY <1>1, <2>1, <2>2 DEF EnqueueOrSkip
<1>8. ~conn[s].active BY <1>1 DEF IsFreeSlot
<1>9. QED BY <1>1, <1>2, <1>3, <1>4, <1>5, <1>6, <1>7, <1>8 DEF iss

\* Segments that find no connection and open none.
LEMMA OtherShape ==
  ASSUME TypeOK, NEW g \in Segments, InputDropped(g) \/ InputStray(g)
  PROVE  /\ UNCHANGED <<conn, rx, txq, listeners, iss_counter, told>>
         /\ \A x \in wire' \ wire :
              x.port = g.port /\ x.data = <<>> /\ "SYN" \notin x.flags /\ "RST" \in x.flags
<1>1. CASE InputDropped(g) BY <1>1 DEF InputDropped, vars
<1>2. CASE InputStray(g)
  <2>1. /\ tcp_send_rst_reply(g).port = g.port /\ tcp_send_rst_reply(g).data = <<>>
        /\ "SYN" \notin tcp_send_rst_reply(g).flags /\ "RST" \in tcp_send_rst_reply(g).flags
    BY DEF tcp_send_rst_reply
  <2>2. QED BY <1>2, <2>1 DEF InputStray, Emit
<1>3. QED BY <1>1, <1>2

LEMMA PeriodicShape ==
  ASSUME TypeOK, Periodic, NEW s \in Slots
  PROVE  /\ conn'[s].rx_head = conn[s].rx_head /\ conn'[s].rx_tail = conn[s].rx_tail
         /\ \/ ~conn'[s].active /\ conn'[s].state = CLOSED /\ txq'[s] = <<>>
            \/ /\ conn'[s].active <=> conn[s].active
               /\ conn'[s].state = conn[s].state /\ conn'[s].local = conn[s].local
               /\ conn'[s].snd_una = conn[s].snd_una /\ conn'[s].snd_nxt = conn[s].snd_nxt
               /\ conn'[s].rcv_nxt = conn[s].rcv_nxt /\ txq'[s] = txq[s]
         /\ \A x \in wire' \ wire : \E t \in Slots :
              /\ conn[t].active /\ conn[t].state # CLOSED /\ txq[t] # <<>> /\ x.port = conn[t].local
              /\ x.seq = txq[t][1].seq /\ x.data = txq[t][1].data
              /\ x.flags = {"ACK"} \cup txq[t][1].flags /\ x.ack = conn[t].rcv_nxt
         /\ told'[s] = "unused" => told[s] = "unused"
         /\ UNCHANGED <<rx, listeners, iss_counter>>
<1>1. /\ conn'[s] = Tick(s).c /\ txq'[s] = Tick(s).q
      /\ told'[s] = IF Tick(s).ev = "none" THEN told[s] ELSE Tick(s).ev
      /\ wire' \ wire \subseteq UNION {Tick(t).out : t \in Slots}
      /\ UNCHANGED <<rx, listeners, iss_counter>>
  BY DEF Periodic, ApplyAll, Emit
<1>2. Tick(s).ev # "unused" BY TickType DEF Results, Events
<1>3. told'[s] = "unused" => told[s] = "unused" BY <1>1, <1>2
<1>4. \A t \in Slots : \A x \in Tick(t).out :
              /\ conn[t].active /\ conn[t].state # CLOSED /\ txq[t] # <<>> /\ x.port = conn[t].local
              /\ x.seq = txq[t][1].seq /\ x.data = txq[t][1].data
              /\ x.flags = {"ACK"} \cup txq[t][1].flags /\ x.ack = conn[t].rcv_nxt
  <2> TAKE t \in Slots
  <2> TAKE x \in Tick(t).out
  <2>1. conn[t].active /\ conn[t].state # CLOSED BY DEF Tick, Untouched, Result
  <2>2. QED BY <2>1, TickShape
<1>5. \A x \in wire' \ wire : \E t \in Slots : x \in Tick(t).out BY <1>1
<1>6. \A x \in wire' \ wire : \E t \in Slots :
              /\ conn[t].active /\ conn[t].state # CLOSED /\ txq[t] # <<>> /\ x.port = conn[t].local
              /\ x.seq = txq[t][1].seq /\ x.data = txq[t][1].data
              /\ x.flags = {"ACK"} \cup txq[t][1].flags /\ x.ack = conn[t].rcv_nxt
  BY <1>4, <1>5
<1> DEFINE r == Tick(s)
<1>7. /\ r.c.rx_head = conn[s].rx_head /\ r.c.rx_tail = conn[s].rx_tail
      /\ \/ ~r.c.active /\ r.c.state = CLOSED /\ r.q = <<>>
         \/ /\ r.c.active <=> conn[s].active
            /\ r.c.state = conn[s].state /\ r.c.local = conn[s].local
            /\ r.c.snd_una = conn[s].snd_una /\ r.c.snd_nxt = conn[s].snd_nxt
            /\ r.c.rcv_nxt = conn[s].rcv_nxt /\ r.q = txq[s]
  BY TickShape
<1>8. conn'[s] = r.c /\ txq'[s] = r.q BY <1>1
<1> HIDE DEF r
<1>9. QED BY <1>1, <1>3, <1>6, <1>7, <1>8
=============================================================================
