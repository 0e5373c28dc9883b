------------------------------ MODULE TcpPair ------------------------------
(***************************************************************************)
(* Two hosts running Tcp, joined by a network that loses, duplicates and   *)
(* reorders.  A opens one connection to B's listener and sends; B reads.   *)
(* Either application may close.  One connection slot on each side.        *)
(***************************************************************************)
EXTENDS Integers, Sequences, FiniteSets, SequencesExt, SequenceTheorems, TLAPS

CONSTANTS
  TX_POOL_COUNT, RX_BUF_SIZE, MSS, SeqSpace, ISS_STEP,
  RTO_INIT, RTO_LIMIT, MAX_RETRIES, TIME_WAIT_TICKS, IDLE_REAP_TICKS,
  Peer,          \* how each host names the other
  Port,          \* B's listening port
  Bytes, ReadSizes, Lossy,
  CapA, CapB,    \* bounds: segments in flight from A, from B
  Duplicates,    \* whether the network may deliver a segment twice
  Closers,       \* the hosts whose application closes, a subset of {"A", "B"}
  Payloads,      \* what A's application may send at a time
  MaxStream,     \* bound: bytes A's application sends
  MaxAccepts     \* bound: connections B accepts (old SYNs reopen it)

\* What Tcp assumes of each host.
ASSUME HostsAssumption ==
  /\ TX_POOL_COUNT \in Nat /\ RX_BUF_SIZE \in Nat \ {0, 1} /\ MSS \in Nat \ {0}
  /\ SeqSpace \in Nat \ {0, 1, 2} /\ 2 * (TX_POOL_COUNT * MSS + 2) <= SeqSpace
  /\ RTO_LIMIT \in Nat \ {0} /\ RTO_INIT \in 1 .. RTO_LIMIT /\ MAX_RETRIES \in Nat
  /\ TIME_WAIT_TICKS \in Nat \ {0} /\ IDLE_REAP_TICKS \in Nat \ {0}
  /\ Bytes # {} /\ Payloads \subseteq Seq(Bytes) \ {<<>>} /\ ReadSizes \subseteq Nat \ {0}
  /\ Port \in Nat \ {0}
\* Successive initial sequence numbers differ (64000 of 2^32), and the stream does not
\* come round: this network may keep a segment for ever.
ASSUME StreamAssumption ==
  ISS_STEP \in 1 .. SeqSpace - 1 /\ MaxStream \in Nat /\ MaxStream < SeqSpace
\* Nor do B's initial sequence numbers: after 67108 connections they would, and an
\* old acknowledgment could be taken for a new one.
ASSUME NumbersAssumption ==
  ISS_STEP > 1 /\ MaxAccepts \in Nat /\ (MaxAccepts + 1) * ISS_STEP + 1 < SeqSpace

VARIABLES connA, rxA, txqA, freeA, listenersA, issA, wireA, toldA,
          connB, rxB, txqB, freeB, listenersB, issB, wireB, toldB,
          wrote,     \* bytes A's application has sent
          got,       \* bytes B's application has read on B's connection
          accepts    \* connections B has accepted

varsA == <<connA, rxA, txqA, freeA, listenersA, issA, wireA, toldA>>
varsB == <<connB, rxB, txqB, freeB, listenersB, issB, wireB, toldB>>
vars == <<varsA, varsB, wrote, got, accepts>>

A == INSTANCE TcpProofs WITH
  conn <- connA, rx <- rxA, txq <- txqA, free <- freeA, listeners <- listenersA,
  iss_counter <- issA, wire <- wireA, told <- toldA,
  MAX_CONNS <- 1, MAX_LISTENERS <- 1, ISS_INIT <- 0, Remotes <- {Peer},
  Ports <- {0, Port}, Reserved <- {}, ECHO_PORT <- 0, WireCap <- CapA, Inputs <- {}
B == INSTANCE TcpProofs WITH
  conn <- connB, rx <- rxB, txq <- txqB, free <- freeB, listeners <- listenersB,
  iss_counter <- issB, wire <- wireB, told <- toldB,
  MAX_CONNS <- 1, MAX_LISTENERS <- 1, ISS_INIT <- ISS_STEP, Remotes <- {Peer},
  Ports <- {0, Port}, Reserved <- {}, ECHO_PORT <- Port, WireCap <- CapB, Inputs <- {}

a == connA[0]
b == connB[0]

Init == A!Init /\ B!Init /\ wrote = <<>> /\ got = <<>> /\ accepts = 0

\* The application at A: one connection, and what it sends on it.
AppA ==
  /\ \/ toldA[0] = "unused" /\ A!Connect(Peer, Port) /\ UNCHANGED wrote
     \/ \E d \in Payloads :
          Len(wrote) + Len(d) <= MaxStream /\ A!Send(0, d) /\ wrote' = wrote \o d
     \/ "A" \in Closers /\ A!CloseGraceful(0) /\ UNCHANGED wrote
  /\ UNCHANGED <<varsB, got, accepts>>

AppB ==
  /\ \/ \E n \in ReadSizes :
          B!Read(0, n) /\ got' = got \o SubSeq(B!rx_bytes(b, rxB[0]), 1, B!ReadLen(b, n))
     \/ "B" \in Closers /\ B!CloseGraceful(0) /\ UNCHANGED got
  /\ UNCHANGED <<varsA, wrote, accepts>>

TickA == A!Periodic /\ UNCHANGED <<varsB, wrote, got, accepts>>
TickB == B!Periodic /\ UNCHANGED <<varsA, wrote, got, accepts>>

\* A segment reaches the other host; a duplicating network may keep a copy.
Taken(w, wNext, seg) == wNext = w \ {seg} \/ (Duplicates /\ wNext = w)

DeliverToA ==
  \E seg \in wireB :
    /\ A!Input(seg) /\ Taken(wireB, wireB', seg)
    /\ UNCHANGED <<connB, rxB, txqB, freeB, listenersB, issB, toldB, wrote, got, accepts>>

DeliverToB ==
  \E seg \in wireA :
    /\ B!Input(seg) /\ Taken(wireA, wireA', seg)
    /\ IF issB' = issB THEN UNCHANGED <<got, accepts>>
       ELSE accepts < MaxAccepts /\ accepts' = accepts + 1 /\ got' = <<>>
    /\ UNCHANGED <<connA, rxA, txqA, freeA, listenersA, issA, toldA, wrote>>

Next == AppA \/ AppB \/ TickA \/ TickB \/ DeliverToA \/ DeliverToB

Spec == Init /\ [][Next]_vars

(***************************************************************************)
(* Properties.                                                             *)
(***************************************************************************)
Received == got \o B!rx_bytes(b, rxB[0])
Iss == ISS_STEP \* A's only initial sequence number

\* Loss, duplication, reordering and retransmission never corrupt the stream:
\* what B's application reads, and what waits in B's ring, is a prefix of what
\* A's application sent.
StreamPrefix == IsPrefix(Received, wrote)

\* Bytes A considers delivered (below snd_una) are bytes B really has: an
\* acknowledgment never covers a byte that section 6 of tcp_process dropped.
AckedWasReceived ==
  b.active /\ b.state >= 4 /\ a.active /\ a.state = 4 =>
    (a.snd_una - (Iss + 1)) % SeqSpace <= Len(Received)

\* When B's connection is up, A has seen B's SYN of this very connection, not
\* one of an earlier one: old duplicates cannot complete a handshake.
HandshakeIsCurrent ==
  b.active /\ b.state = 4 /\ a.active => a.rcv_nxt = (issB + 1) % SeqSpace \/ a.state > 4
(***************************************************************************)
(* What the comments of the code say and the code does not do.             *)
(***************************************************************************)
\* "only in-order segments are accepted [...] Out-of-order segments are dropped"
\* (section 3 of tcp_process): B hears CLOSED, entering CLOSE_WAIT, only when
\* it has everything A sent before its FIN.
FinIsInOrder == b.active /\ b.state = 7 => Received = wrote


(***************************************************************************)
(* Proof that the stream is a prefix.  Every segment and every queued      *)
(* block that carries bytes carries them at their place in A's stream, and *)
(* B's rcv_nxt is the place of the next byte B lacks.                      *)
(***************************************************************************)
At(n) == (Iss + 1 + n) % SeqSpace
CarriesAt(x, n, w) ==
  /\ n + Len(x.data) <= Len(w) /\ x.seq = At(n)
  /\ \A i \in 1 .. Len(x.data) : x.data[i] = w[n + i]
Genuine(x, w) ==
  /\ "SYN" \in x.flags => x.seq = Iss
  /\ x.data # <<>> => \E n \in 0 .. Len(w) : CarriesAt(x, n, w)
Starts(s, w) == Len(s) <= Len(w) /\ \A i \in 1 .. Len(s) : s[i] = w[i]

NetworkOK ==
  /\ wrote \in Seq(Bytes) /\ Len(wrote) <= MaxStream
  /\ \A x \in wireA : Genuine(x, wrote) /\ x.port = Port
  /\ \A x \in wireB : x.port = Port
SenderOK ==
  /\ \A l \in A!LSlots : listenersA[l] = 0
  /\ \A i \in 1 .. Len(txqA[0]) : Genuine(txqA[0][i], wrote)
  /\ a.active => a.local = Port
  /\ ~a.active => a.state = 0
  /\ toldA[0] = "unused" => ~a.active /\ issA = 0 /\ wrote = <<>>
  /\ a.state \in {2, 3} => wrote = <<>> /\ a.snd_nxt = At(0)
  /\ a.state = 2 => a.snd_una = Iss
  /\ a.state \in {4, 7} => a.snd_nxt = At(Len(wrote))
ReceiverOK ==
  /\ got \in Seq(Bytes)
  /\ Starts(Received, wrote)
  /\ b.state # 2
  /\ b.state \in B!Taking => b.rcv_nxt = At(Len(Received))
  /\ b.active => b.local = Port
  /\ ~b.active => b.state = 0

StreamInv == A!TypeOK /\ B!TypeOK /\ NetworkOK /\ SenderOK /\ ReceiverOK

LEMMA OneSlot == A!Slots = {0} /\ B!Slots = {0} /\ A!Segments = B!Segments
BY DEF A!Slots, B!Slots, A!Segments, B!Segments, A!SeqNums, B!SeqNums, A!Flags, B!Flags

\* Places in the stream, as a case split instead of a remainder.
LEMMA AtValue ==
  ASSUME NEW n \in 0 .. MaxStream
  PROVE  /\ At(n) = IF Iss + 1 + n < SeqSpace THEN Iss + 1 + n ELSE Iss + 1 + n - SeqSpace
         /\ At(n) \in 0 .. SeqSpace - 1
BY HostsAssumption, StreamAssumption DEF At, Iss
LEMMA AtInjective ==
  ASSUME NEW n \in 0 .. MaxStream, NEW m \in 0 .. MaxStream, At(n) = At(m) PROVE n = m
BY AtValue, HostsAssumption, StreamAssumption DEF Iss
LEMMA AtAdd ==
  ASSUME NEW n \in Nat, NEW k \in Nat, n + k <= MaxStream
  PROVE  A!Add(At(n), k) = At(n + k) /\ B!Add(At(n), k) = At(n + k)
<1>1. n \in 0 .. MaxStream /\ n + k \in 0 .. MaxStream BY StreamAssumption
<1>2. /\ At(n) = IF Iss + 1 + n < SeqSpace THEN Iss + 1 + n ELSE Iss + 1 + n - SeqSpace
      /\ At(n) \in 0 .. SeqSpace - 1
  BY <1>1, AtValue
<1>3. At(n + k) = IF Iss + 1 + (n + k) < SeqSpace THEN Iss + 1 + (n + k) ELSE Iss + 1 + (n + k) - SeqSpace
  BY <1>1, AtValue
<1>4. k < SeqSpace BY <1>1, StreamAssumption, HostsAssumption
<1>5. \A x \in 0 .. SeqSpace - 1 :
        (x + k) % SeqSpace = IF x + k < SeqSpace THEN x + k ELSE x + k - SeqSpace
  BY <1>4, HostsAssumption
<1>6. Iss \in 1 .. SeqSpace - 1 /\ SeqSpace \in Nat BY StreamAssumption, HostsAssumption DEF Iss
<1>7. (At(n) + k) % SeqSpace = At(n + k)
  <2>1. (At(n) + k) % SeqSpace = IF At(n) + k < SeqSpace THEN At(n) + k ELSE At(n) + k - SeqSpace
    BY <1>2, <1>5
  <2>2. PICK i \in Int : i = Iss BY <1>6
  <2>3. PICK x \in Int : x = At(n) BY <1>2
  <2>4. PICK y : y = At(n + k) OBVIOUS
  <2>5. PICK z : z = (x + k) % SeqSpace OBVIOUS
  <2>6. z = IF x + k < SeqSpace THEN x + k ELSE x + k - SeqSpace BY <2>1, <2>3, <2>5
  <2>7. x = (IF i + 1 + n < SeqSpace THEN i + 1 + n ELSE i + 1 + n - SeqSpace) BY <1>2, <2>2, <2>3
  <2>8. y = (IF i + 1 + (n + k) < SeqSpace THEN i + 1 + (n + k) ELSE i + 1 + (n + k) - SeqSpace)
    BY <1>3, <2>2, <2>4
  <2>9. i \in 1 .. SeqSpace - 1 /\ x \in 0 .. SeqSpace - 1 BY <1>2, <1>6, <2>2, <2>3
  <2>10. z = y BY <1>1, <1>4, <1>6, <2>6, <2>7, <2>8, <2>9, StreamAssumption
  <2>11. QED BY <2>3, <2>4, <2>5, <2>10
<1>8. QED BY <1>7 DEF A!Add, B!Add
LEMMA FirstNumber ==
  /\ A!Add(0, ISS_STEP) = Iss /\ A!Add(Iss, 1) = At(0) /\ B!Add(Iss, 1) = At(0)
  /\ \A i \in 0 .. SeqSpace - 1 : B!Add(i, ISS_STEP) # i
BY HostsAssumption, StreamAssumption DEF A!Add, B!Add, At, Iss

\* A longer stream keeps what was at its places.
LEMMA StartsConcat ==
  ASSUME NEW w \in Seq(Bytes), NEW d \in Seq(Bytes)
  PROVE  Starts(w, w \o d) /\ Len(w \o d) = Len(w) + Len(d)
<1>1. /\ w \o d \in Seq(Bytes) /\ Len(w \o d) = Len(w) + Len(d)
      /\ \A k \in 1 .. Len(w) + Len(d) : (w \o d)[k] = IF k <= Len(w) THEN w[k] ELSE d[k - Len(w)]
  BY ConcatProperties
<1>2. Len(w) \in Nat /\ Len(d) \in Nat OBVIOUS
<1>3. QED BY <1>1, <1>2 DEF Starts
LEMMA GenuineStays ==
  ASSUME NEW w \in Seq(Bytes), NEW v \in Seq(Bytes), Starts(w, v),
         NEW x, x.data \in Seq(Bytes), Genuine(x, w)
  PROVE  Genuine(x, v)
<1>1. CASE x.data = <<>> BY <1>1 DEF Genuine
<1>2. CASE x.data # <<>>
  <2>1. PICK n \in 0 .. Len(w) : CarriesAt(x, n, w) BY <1>2 DEF Genuine
  <2>2. Len(w) \in Nat /\ Len(v) \in Nat /\ Len(w) <= Len(v) /\ Len(x.data) \in Nat BY DEF Starts
  <2>3. \A i \in 1 .. Len(x.data) : n + i \in 1 .. Len(w) BY <2>1, <2>2 DEF CarriesAt
  <2>4. n \in 0 .. Len(v) /\ CarriesAt(x, n, v) BY <2>1, <2>2, <2>3 DEF CarriesAt, Starts
  <2>5. QED BY <2>4 DEF Genuine
<1>3. QED BY <1>1, <1>2
LEMMA GenuineNew ==
  ASSUME NEW w \in Seq(Bytes), NEW d \in Seq(Bytes), NEW x,
         x.data = d, x.seq = At(Len(w)), "SYN" \notin x.flags
  PROVE  Genuine(x, w \o d)
<1>1. /\ Len(w \o d) = Len(w) + Len(d) /\ Len(w) \in Nat /\ Len(d) \in Nat
      /\ \A k \in 1 .. Len(w) + Len(d) : (w \o d)[k] = IF k <= Len(w) THEN w[k] ELSE d[k - Len(w)]
  BY ConcatProperties
<1>2. \A i \in 1 .. Len(d) : d[i] = (w \o d)[Len(w) + i]
  <2> TAKE i \in 1 .. Len(d)
  <2>1. Len(w) + i \in 1 .. Len(w) + Len(d) /\ ~(Len(w) + i <= Len(w)) /\ Len(w) + i - Len(w) = i
    BY <1>1
  <2>2. QED BY <1>1, <2>1
<1>3. Len(w) \in 0 .. Len(w \o d) /\ CarriesAt(x, Len(w), w \o d) BY <1>1, <1>2 DEF CarriesAt
<1>4. QED BY <1>3 DEF Genuine
LEMMA GenuineEmpty ==
  ASSUME NEW w, NEW x, x.data = <<>>, "SYN" \in x.flags => x.seq = Iss PROVE Genuine(x, w)
BY DEF Genuine

(***************************************************************************)
(* A's steps.                                                              *)
(***************************************************************************)
GoodNews == \A x \in wireA' \ wireA : Genuine(x, wrote') /\ x.port = Port

\* Queued blocks stay genuine when none but genuine ones join them.
LEMMA QueueStays ==
  ASSUME A!TypeOK, SenderOK, NEW v \in Seq(Bytes), wrote \in Seq(Bytes), Starts(wrote, v),
         NEW x, \E j \in 1 .. Len(txqA[0]) : x = txqA[0][j]
  PROVE  Genuine(x, v)
<1>1. PICK j \in 1 .. Len(txqA[0]) : x = txqA[0][j] OBVIOUS
<1>2. txqA[0] \in Seq(A!TxSegs) BY OneSlot DEF A!TypeOK
<1>3. x \in A!TxSegs BY <1>1, <1>2
<1>4. x.data \in Seq(Bytes) BY <1>3 DEF A!TxSegs
<1>5. Genuine(x, wrote) BY <1>1 DEF SenderOK
<1>6. QED BY <1>4, <1>5, GenuineStays
LEMMA StartsSame == ASSUME NEW w \in Seq(Bytes) PROVE Starts(w, w)
BY DEF Starts

LEMMA ConnectStep ==
  ASSUME A!TypeOK, NetworkOK, SenderOK, toldA[0] = "unused", A!Connect(Peer, Port), UNCHANGED wrote
  PROVE  SenderOK' /\ GoodNews
<1> DEFINE iss == A!tcp_gen_iss
<1>1. Peer \in {Peer} /\ Port \in {0, Port} OBVIOUS
<1>2. PICK s \in A!Slots :
        /\ connA'[s].active /\ connA'[s].state = A!SYN_SENT /\ connA'[s].local = Port
        /\ connA'[s].snd_una = iss /\ connA'[s].snd_nxt = A!Add(iss, 1)
        /\ \A i \in 1 .. Len(txqA'[s]) : txqA'[s][i].seq = iss /\ txqA'[s][i].data = <<>>
        /\ A!SentAnew(Port, iss, {"SYN"}, <<>>)
        /\ issA' = iss /\ toldA'[s] = "opening" /\ UNCHANGED <<rxA, listenersA>>
  BY <1>1, A!ConnectShape, HostsAssumption, StreamAssumption
<1>3. s = 0 BY OneSlot
<1>4. iss = Iss BY FirstNumber DEF A!tcp_gen_iss, SenderOK
<1>5. wrote = <<>> BY DEF SenderOK
<1> HIDE DEF iss
<1>6. A!Add(iss, 1) = At(0) BY <1>4, FirstNumber
<1>7. \A i \in 1 .. Len(txqA'[0]) : Genuine(txqA'[0][i], wrote')
  BY <1>2, <1>3, <1>4, GenuineEmpty
<1>8. GoodNews
  <2> SUFFICES ASSUME NEW x \in wireA' \ wireA PROVE Genuine(x, wrote') /\ x.port = Port
    BY DEF GoodNews
  <2>1. x.port = Port /\ x.seq = iss /\ x.data = <<>> BY <1>2 DEF A!SentAnew
  <2>2. QED BY <1>4, <2>1, GenuineEmpty
<1>9. SenderOK'
  BY <1>2, <1>3, <1>4, <1>5, <1>6, <1>7 DEF SenderOK, a, A!SYN_SENT
<1>10. QED BY <1>8, <1>9

LEMMA SendStep ==
  ASSUME A!TypeOK, NetworkOK, SenderOK, NEW d \in Payloads, A!Send(0, d),
         Len(wrote) + Len(d) <= MaxStream, wrote' = wrote \o d
  PROVE  SenderOK' /\ GoodNews
<1>1. d \in Seq(Bytes) /\ wrote \in Seq(Bytes) BY HostsAssumption DEF NetworkOK
<1>2. 0 \in A!Slots BY OneSlot
<1>3. /\ a.state \in {A!ESTABLISHED, A!CLOSE_WAIT}
      /\ a'.active <=> a.active
      /\ a'.state = a.state /\ a'.local = a.local /\ a'.snd_nxt = A!Add(a.snd_nxt, Len(d))
      /\ A!QueuedAnew(0, a.snd_nxt, {}, d)
      /\ A!SentAnew(a.local, a.snd_nxt, {"ACK"}, d)
      /\ UNCHANGED <<rxA, listenersA, issA, toldA>>
  BY <1>1, <1>2, A!SendShape, HostsAssumption, StreamAssumption DEF a
<1>4. a.state \in {4, 7} /\ a.snd_nxt = At(Len(wrote)) /\ a.active /\ a.local = Port
  BY <1>3 DEF SenderOK, A!ESTABLISHED, A!CLOSE_WAIT
<1>5. Starts(wrote, wrote') /\ Len(wrote') = Len(wrote) + Len(d) /\ wrote' \in Seq(Bytes)
  BY <1>1, StartsConcat, ConcatProperties
<1>6. a'.snd_nxt = At(Len(wrote'))
  <2>1. Len(wrote) \in Nat /\ Len(d) \in Nat BY <1>1
  <2>2. A!Add(At(Len(wrote)), Len(d)) = At(Len(wrote) + Len(d)) BY <2>1, AtAdd
  <2>3. QED BY <1>3, <1>4, <1>5, <2>2
<1>7. \A x : x.data = d /\ x.seq = At(Len(wrote)) /\ "SYN" \notin x.flags => Genuine(x, wrote')
  BY <1>1, GenuineNew
<1>8. \A i \in 1 .. Len(txqA'[0]) : Genuine(txqA'[0][i], wrote')
  <2> TAKE i \in 1 .. Len(txqA'[0])
  <2> DEFINE x == txqA'[0][i]
  <2>1. CASE \E j \in 1 .. Len(txqA[0]) : x = txqA[0][j]
    <3> HIDE DEF x
    <3>1. QED BY <1>1, <1>5, <2>1, QueueStays DEF x
  <2>2. CASE x.seq = a.snd_nxt /\ x.flags = {} /\ x.data = d
    <3> HIDE DEF x
    <3>1. Genuine(x, wrote') BY <1>4, <1>7, <2>2
    <3>2. QED BY <3>1 DEF x
  <2>3. QED BY <1>3, <2>1, <2>2 DEF A!QueuedAnew
<1>9. GoodNews
  <2> SUFFICES ASSUME NEW x \in wireA' \ wireA PROVE Genuine(x, wrote') /\ x.port = Port
    BY DEF GoodNews
  <2>1. x.port = Port /\ x.seq = At(Len(wrote)) /\ x.data = d /\ "SYN" \notin x.flags
    BY <1>3, <1>4 DEF A!SentAnew
  <2>2. QED BY <1>7, <2>1
<1>10. toldA[0] # "unused" BY <1>4 DEF SenderOK
<1>11. SenderOK' BY <1>3, <1>4, <1>6, <1>8, <1>10 DEF SenderOK, a
<1>12. QED BY <1>9, <1>11

LEMMA CloseAStep ==
  ASSUME A!TypeOK, NetworkOK, SenderOK, A!CloseGraceful(0), UNCHANGED wrote
  PROVE  SenderOK' /\ GoodNews
<1>1. wrote \in Seq(Bytes) /\ 0 \in A!Slots BY OneSlot DEF NetworkOK
<1>2. /\ a.state \in {A!ESTABLISHED, A!CLOSE_WAIT}
      /\ a'.active <=> a.active
      /\ a'.state \in {A!FIN_WAIT_1, A!LAST_ACK} /\ a'.local = a.local
      /\ A!QueuedAnew(0, a.snd_nxt, {"FIN"}, <<>>)
      /\ A!SentAnew(a.local, a.snd_nxt, {"FIN", "ACK"}, <<>>)
      /\ UNCHANGED <<rxA, listenersA, issA, toldA>>
  BY <1>1, A!CloseShape, HostsAssumption, StreamAssumption DEF a
<1>3. a.active /\ a.local = Port BY <1>2 DEF SenderOK, A!ESTABLISHED, A!CLOSE_WAIT
<1>4. \A i \in 1 .. Len(txqA'[0]) : Genuine(txqA'[0][i], wrote')
  <2> TAKE i \in 1 .. Len(txqA'[0])
  <2>1. CASE \E j \in 1 .. Len(txqA[0]) : txqA'[0][i] = txqA[0][j]
    BY <1>1, <2>1, QueueStays, StartsSame
  <2>2. CASE txqA'[0][i].flags = {"FIN"} /\ txqA'[0][i].data = <<>> BY <2>2, GenuineEmpty
  <2>3. QED BY <1>2, <2>1, <2>2 DEF A!QueuedAnew
<1>5. GoodNews BY <1>2, <1>3, GenuineEmpty DEF GoodNews, A!SentAnew
<1>6. toldA[0] # "unused" BY <1>3 DEF SenderOK
<1>7. SenderOK' BY <1>2, <1>3, <1>4, <1>6 DEF SenderOK, a, A!FIN_WAIT_1, A!LAST_ACK
<1>8. QED BY <1>5, <1>7

LEMMA TickAStep ==
  ASSUME A!TypeOK, NetworkOK, SenderOK, A!Periodic, UNCHANGED wrote
  PROVE  SenderOK' /\ GoodNews
<1>1. wrote \in Seq(Bytes) /\ 0 \in A!Slots BY OneSlot DEF NetworkOK
<1>2. /\ \/ ~a'.active /\ a'.state = A!CLOSED /\ txqA'[0] = <<>>
         \/ /\ a'.active <=> a.active
            /\ a'.state = a.state /\ a'.local = a.local
            /\ a'.snd_una = a.snd_una /\ a'.snd_nxt = a.snd_nxt /\ txqA'[0] = txqA[0]
      /\ \A x \in wireA' \ wireA : \E t \in A!Slots :
              /\ connA[t].active /\ txqA[t] # <<>> /\ x.port = connA[t].local
              /\ x.seq = txqA[t][1].seq /\ x.data = txqA[t][1].data
              /\ x.flags = {"ACK"} \cup txqA[t][1].flags
      /\ toldA'[0] = "unused" => toldA[0] = "unused"
      /\ UNCHANGED <<rxA, listenersA, issA>>
  BY <1>1, A!PeriodicShape, HostsAssumption, StreamAssumption DEF a
<1>3. \A i \in 1 .. Len(txqA'[0]) : Genuine(txqA'[0][i], wrote') BY <1>2 DEF SenderOK
<1>4. GoodNews
  <2> SUFFICES ASSUME NEW x \in wireA' \ wireA PROVE Genuine(x, wrote') /\ x.port = Port
    BY DEF GoodNews
  <2> DEFINE h == txqA[0][1]
  <2>1. /\ a.active /\ txqA[0] # <<>> /\ x.port = a.local /\ x.seq = h.seq /\ x.data = h.data
        /\ x.flags = {"ACK"} \cup h.flags
    BY <1>2, OneSlot DEF a
  <2>2. txqA[0] \in Seq(A!TxSegs) BY <1>1 DEF A!TypeOK
  <2>3. Genuine(h, wrote) BY <2>1, <2>2 DEF SenderOK
  <2> HIDE DEF h
  <2>4. Genuine(x, wrote') BY <2>1, <2>3 DEF Genuine, CarriesAt
  <2>5. QED BY <2>1, <2>4 DEF SenderOK
<1>5. SenderOK' BY <1>2, <1>3 DEF SenderOK, a, A!CLOSED
<1>6. QED BY <1>4, <1>5

LEMMA InputAStep ==
  ASSUME A!TypeOK, NetworkOK, SenderOK, NEW g \in wireB, g \in A!Segments, A!Input(g), UNCHANGED wrote
  PROVE  SenderOK' /\ GoodNews
<1>1. wrote \in Seq(Bytes) /\ g.port = Port BY DEF NetworkOK
<1>2. CASE A!InputConn(g)
  <2>1. PICK s \in A!Slots : A!Found(s, g) /\ A!Sends(s)
    BY <1>2, A!InputConnShape, HostsAssumption, StreamAssumption
  <2>2. s = 0 BY OneSlot
  <2>3. /\ a.active /\ a.local = g.port /\ UNCHANGED <<listenersA, issA>>
        /\ toldA'[0] = "unused" => toldA[0] = "unused"
    BY <2>1, <2>2 DEF A!Found, a
  <2>4. /\ \/ ~a'.active /\ a'.state = A!CLOSED
           \/ /\ a'.active /\ a'.local = a.local /\ a'.snd_nxt = a.snd_nxt
              /\ a'.state = A!SYN_SENT => a.state = A!SYN_SENT /\ a'.snd_una = a.snd_una
              /\ a'.state = A!SYN_RCVD => a.state \in {A!SYN_SENT, A!SYN_RCVD}
              /\ a'.state \in {A!ESTABLISHED, A!CLOSE_WAIT} => a.state \in {A!SYN_SENT} \cup A!Sending
        /\ \A i \in 1 .. Len(txqA'[0]) : \E j \in 1 .. Len(txqA[0]) : txqA'[0][i] = txqA[0][j]
        /\ \A x \in wireA' \ wireA :
             /\ x.data = <<>> /\ x.port = a.local
             /\ "SYN" \in x.flags => a.state = A!SYN_SENT /\ x.seq = a.snd_una
    BY <2>1, <2>2 DEF A!Sends, a
  <2>5. \A i \in 1 .. Len(txqA'[0]) : Genuine(txqA'[0][i], wrote')
    BY <1>1, <2>4, QueueStays, StartsSame
  <2>6. GoodNews
    <3> SUFFICES ASSUME NEW x \in wireA' \ wireA PROVE Genuine(x, wrote') /\ x.port = Port
      BY DEF GoodNews
    <3>1. x.data = <<>> /\ x.port = Port /\ ("SYN" \in x.flags => a.state = 2 /\ x.seq = a.snd_una)
      BY <1>1, <2>3, <2>4 DEF A!SYN_SENT
    <3>2. "SYN" \in x.flags => x.seq = Iss BY <3>1 DEF SenderOK
    <3>3. QED BY <3>1, <3>2, GenuineEmpty
  <2>7. toldA[0] # "unused" BY <2>3 DEF SenderOK
  <2>8. a.state \in {2, 3} => a.snd_nxt = At(Len(wrote)) BY DEF SenderOK
  <2>9. SenderOK'
    BY <1>1, <2>3, <2>4, <2>5, <2>7, <2>8
    DEF SenderOK, a, A!CLOSED, A!SYN_SENT, A!SYN_RCVD, A!ESTABLISHED, A!CLOSE_WAIT, A!Sending
  <2>10. QED BY <2>6, <2>9
<1>3. CASE A!InputListen(g)
  <2>1. \E l \in A!LSlots : listenersA[l] = g.port
    BY <1>3, A!ListenShape, HostsAssumption, StreamAssumption
  <2>2. QED BY <1>1, <2>1, HostsAssumption DEF SenderOK
<1>4. CASE A!InputDropped(g) \/ A!InputStray(g)
  <2>1. /\ UNCHANGED <<connA, rxA, txqA, listenersA, issA, toldA>>
        /\ \A x \in wireA' \ wireA : x.port = g.port /\ x.data = <<>> /\ "SYN" \notin x.flags
    BY <1>4, A!OtherShape, HostsAssumption, StreamAssumption
  <2>2. GoodNews BY <1>1, <2>1, GenuineEmpty DEF GoodNews
  <2>3. SenderOK' BY <2>1 DEF SenderOK, a
  <2>4. QED BY <2>2, <2>3
<1>5. QED BY <1>2, <1>3, <1>4 DEF A!Input

(***************************************************************************)
(* B's steps.                                                              *)
(***************************************************************************)
RightPort == \A x \in wireB' \ wireB : x.port = Port

LEMMA UnreadType ==
  ASSUME B!TypeOK
  PROVE  b \in B!Conns /\ rxB[0] \in [0 .. RX_BUF_SIZE - 1 -> Bytes] /\ B!rx_bytes(b, rxB[0]) \in Seq(Bytes)
<1>1. b \in B!Conns /\ rxB[0] \in [0 .. RX_BUF_SIZE - 1 -> Bytes] BY OneSlot DEF B!TypeOK, b
<1>2. QED BY <1>1, B!RxBytesType, HostsAssumption, StreamAssumption

\* The stream grows with what A sends, and B's part of it stays a part.
LEMMA ReceiverStays ==
  ASSUME B!TypeOK, ReceiverOK, wrote \in Seq(Bytes), wrote' \in Seq(Bytes), Starts(wrote, wrote'),
         UNCHANGED <<connB, rxB, got>>
  PROVE  ReceiverOK'
<1>1. Received' = Received BY DEF Received, b, B!rx_bytes, B!rx_available
<1>2. Received \in Seq(Bytes) BY UnreadType, ConcatProperties DEF Received, ReceiverOK
<1>3. Starts(Received, wrote')
  <2> DEFINE s == Received
  <2>1. s \in Seq(Bytes) /\ Starts(s, wrote) BY <1>2 DEF ReceiverOK
  <2> HIDE DEF s
  <2>2. Len(s) \in Nat /\ Len(wrote) \in Nat /\ Len(wrote') \in Nat BY <2>1
  <2>3. Starts(s, wrote') BY <2>1, <2>2 DEF Starts
  <2>4. QED BY <2>3 DEF s
<1>4. QED BY <1>1, <1>3 DEF ReceiverOK, b

LEMMA Associative ==
  ASSUME NEW x \in Seq(Bytes), NEW y \in Seq(Bytes), NEW z \in Seq(Bytes)
  PROVE  x \o (y \o z) = (x \o y) \o z
BY ConcatAssociative

\* What was received and the n bytes taken now.
LEMMA ReceivedGrows ==
  ASSUME B!TypeOK, B!TypeOK', ReceiverOK, UNCHANGED got, NEW data \in Seq(Bytes), NEW n \in 0 .. Len(data),
         B!rx_bytes(connB'[0], rxB'[0]) = B!rx_bytes(b, rxB[0]) \o B!Leading(data, n)
  PROVE  /\ Received' \in Seq(Bytes) /\ Len(Received') = Len(Received) + n
         /\ \A k \in 1 .. Len(Received) : Received'[k] = Received[k]
         /\ \A k \in 1 .. n : Received'[Len(Received) + k] = data[k]
<1> DEFINE u == B!rx_bytes(b, rxB[0])
           v == B!rx_bytes(connB'[0], rxB'[0])
           z == B!Leading(data, n)
<1>1. u \in Seq(Bytes) /\ got \in Seq(Bytes) BY UnreadType DEF ReceiverOK
<1>2. z \in Seq(Bytes) /\ Len(z) = n /\ \A k \in 1 .. n : z[k] = data[k] BY DEF B!Leading
<1>3. Received = got \o u /\ Received' = got \o v
  BY DEF Received, b, B!rx_bytes, B!rx_available
<1>4. v = u \o z OBVIOUS
<1> HIDE DEF u, v, z
<1>5. Received' = Received \o z
  <2>1. got \o (u \o z) = (got \o u) \o z BY <1>1, <1>2, Associative
  <2>2. QED BY <1>3, <1>4, <2>1
<1>6. Received \in Seq(Bytes) BY <1>1, <1>3, ConcatProperties
<1> DEFINE s == Received
<1>7. s \in Seq(Bytes) /\ Received' = s \o z BY <1>5, <1>6
<1> HIDE DEF s
<1>8. /\ s \o z \in Seq(Bytes) /\ Len(s \o z) = Len(s) + Len(z)
      /\ \A k \in 1 .. Len(s) + Len(z) : (s \o z)[k] = IF k <= Len(s) THEN s[k] ELSE z[k - Len(s)]
  BY <1>2, <1>7, ConcatProperties
<1>9. Len(s) \in Nat /\ n \in Nat BY <1>7
<1>10. \A k \in 1 .. Len(s) : (s \o z)[k] = s[k] BY <1>2, <1>8, <1>9
<1>11. \A k \in 1 .. n : (s \o z)[Len(s) + k] = data[k]
  <2> TAKE k \in 1 .. n
  <2>1. Len(s) + k \in 1 .. Len(s) + Len(z) /\ ~(Len(s) + k <= Len(s)) /\ Len(s) + k - Len(s) = k
    BY <1>2, <1>9
  <2>2. QED BY <1>2, <1>8, <2>1
<1>12. QED BY <1>2, <1>7, <1>8, <1>10, <1>11 DEF s

LEMMA InputBStep ==
  ASSUME B!TypeOK, B!TypeOK', NetworkOK, ReceiverOK, NEW g \in wireA, g \in B!Segments, B!Input(g),
         got' = (IF issB' = issB THEN got ELSE <<>>), UNCHANGED wrote
  PROVE  ReceiverOK' /\ RightPort
<1>1. /\ g.port = Port /\ Genuine(g, wrote) /\ wrote \in Seq(Bytes) /\ Len(wrote) <= MaxStream
      /\ g.data \in Seq(Bytes)
  BY DEF NetworkOK, B!Segments
<1>2. CASE B!InputConn(g)
  <2>1. PICK s \in B!Slots : B!Found(s, g) /\ B!Sends(s) /\ \E n \in 0 .. Len(g.data) : B!Takes(s, g, n)
    BY <1>2, B!InputConnShape, HostsAssumption, StreamAssumption
  <2>2. s = 0 BY OneSlot
  <2>3. PICK n \in 0 .. Len(g.data) : B!Takes(0, g, n) BY <2>1, <2>2
  <2>4. /\ b.active /\ b.local = g.port /\ UNCHANGED <<listenersB, issB>>
    BY <2>1, <2>2 DEF B!Found, b
  <2>5. /\ \/ ~b'.active /\ b'.state = B!CLOSED
           \/ b'.active /\ b'.local = b.local
        /\ \A x \in wireB' \ wireB : x.port = b.local
    BY <2>1, <2>2 DEF B!Sends, b
  <2>6. /\ B!rx_bytes(connB'[0], rxB'[0]) = B!rx_bytes(b, rxB[0]) \o B!Leading(g.data, n)
        /\ n > 0 => g.seq = b.rcv_nxt /\ b.state \in B!Taking
        /\ b.state # B!SYN_SENT => b'.state # B!SYN_SENT
        /\ b.state # B!SYN_SENT /\ b'.state \in B!Taking =>
             b.state \in B!Taking /\ b'.rcv_nxt = B!Add(b.rcv_nxt, n)
    BY <2>3 DEF B!Takes, b
  <2>7. got' = got BY <2>4
  <2> DEFINE m == Len(Received)
  <2>8. /\ Received' \in Seq(Bytes) /\ Len(Received') = m + n
        /\ \A k \in 1 .. m : Received'[k] = Received[k]
        /\ \A k \in 1 .. n : Received'[m + k] = g.data[k]
    BY <1>1, <2>6, <2>7, ReceivedGrows
  <2>9. m \in Nat /\ Starts(Received, wrote) /\ Len(wrote) \in Nat /\ n \in Nat
    BY <1>1, UnreadType, ConcatProperties DEF ReceiverOK, Received
  \* The bytes taken are those A wrote next.
  <2>10. n > 0 => m + n <= Len(wrote) /\ \A k \in 1 .. n : g.data[k] = wrote[m + k]
    <3> SUFFICES ASSUME n > 0 PROVE m + n <= Len(wrote) /\ \A k \in 1 .. n : g.data[k] = wrote[m + k]
      OBVIOUS
    <3>1. g.data # <<>> BY <1>1, <2>9
    <3>2. PICK j \in 0 .. Len(wrote) : CarriesAt(g, j, wrote) BY <1>1, <3>1 DEF Genuine
    <3>3. g.seq = At(m) /\ g.seq = At(j) BY <2>6, <3>2 DEF ReceiverOK, CarriesAt
    <3>4. m \in 0 .. MaxStream /\ j \in 0 .. MaxStream
      BY <1>1, <2>9, <3>2, StreamAssumption DEF Starts
    <3> HIDE DEF m
    <3>5. j = m BY <3>3, <3>4, AtInjective
    <3>6. Len(g.data) \in Nat /\ n <= Len(g.data) BY <1>1
    <3>7. m + Len(g.data) <= Len(wrote) /\ \A k \in 1 .. Len(g.data) : g.data[k] = wrote[m + k]
      BY <3>2, <3>5 DEF CarriesAt
    <3>8. m + n <= Len(wrote) BY <2>9, <3>6, <3>7
    <3>9. \A k \in 1 .. n : k \in 1 .. Len(g.data) BY <2>9, <3>6
    <3>10. QED BY <3>7, <3>8, <3>9
  <2>11. m + n <= Len(wrote) BY <2>9, <2>10 DEF Starts
  <2>12. Starts(Received', wrote')
    <3>1. \A k \in 1 .. m + n : Received'[k] = wrote[k]
      <4> TAKE k \in 1 .. m + n
      <4>1. CASE k <= m
        <5>1. k \in 1 .. m BY <2>9, <4>1
        <5>2. Received'[k] = Received[k] /\ Received[k] = wrote[k] BY <2>8, <2>9, <5>1 DEF Starts
        <5>3. QED BY <5>2
      <4>2. CASE ~(k <= m)
        <5> HIDE DEF m
        <5>1. k - m \in 1 .. n /\ m + (k - m) = k /\ n > 0 BY <2>9, <4>2
        <5>2. Received'[m + (k - m)] = g.data[k - m] BY <2>8, <5>1
        <5>3. g.data[k - m] = wrote[m + (k - m)] BY <2>10, <5>1
        <5>4. QED BY <5>1, <5>2, <5>3
      <4>3. QED BY <4>1, <4>2
    <3> HIDE DEF m
    <3>2. QED BY <2>8, <2>11, <3>1 DEF Starts
  <2>13. b'.state \in B!Taking => b'.rcv_nxt = At(Len(Received'))
    <3>1. b.state # B!SYN_SENT BY DEF ReceiverOK, B!SYN_SENT
    <3>2. b.state \in B!Taking => b.rcv_nxt = At(m) BY DEF ReceiverOK
    <3>3. B!Add(At(m), n) = At(m + n)
      <4> HIDE DEF m
      <4>1. m + n <= MaxStream BY <1>1, <2>9, <2>11, StreamAssumption
      <4>2. QED BY <2>9, <4>1, AtAdd
    <3> HIDE DEF m
    <3>4. QED BY <2>6, <2>8, <3>1, <3>2, <3>3
  <2>14. ReceiverOK'
    <3>1. got' \in Seq(Bytes) BY <2>7 DEF ReceiverOK
    <3>2. b'.state # 2 BY <2>6 DEF ReceiverOK, B!SYN_SENT
    <3>3. (b'.active => b'.local = Port) /\ (~b'.active => b'.state = 0)
      BY <1>1, <2>4, <2>5 DEF B!CLOSED
    <3>4. QED BY <2>12, <2>13, <3>1, <3>2, <3>3 DEF ReceiverOK
  <2>15. RightPort BY <1>1, <2>4, <2>5 DEF RightPort
  <2>16. QED BY <2>14, <2>15
\* A new connection: A's SYN says where its stream starts.
<1>3. CASE B!InputListen(g)
  <2>0. /\ "SYN" \in g.flags /\ B!SentAnew(g.port, B!tcp_gen_iss, {"SYN", "ACK"}, <<>>)
        /\ issB' = B!tcp_gen_iss /\ UNCHANGED <<rxB, listenersB>>
        /\ \E s \in B!Slots :
             /\ connB'[s].active /\ connB'[s].state = B!SYN_RCVD /\ connB'[s].local = g.port
             /\ connB'[s].rcv_nxt = B!Add(g.seq, 1) /\ B!rx_bytes(connB'[s], rxB'[s]) = <<>>
    BY <1>3, B!ListenShape, HostsAssumption, StreamAssumption
  <2>1. /\ "SYN" \in g.flags /\ \A x \in wireB' \ wireB : x.port = g.port
        /\ issB' = B!tcp_gen_iss /\ UNCHANGED <<rxB, listenersB>>
        /\ \E s \in B!Slots :
             /\ connB'[s].active /\ connB'[s].state = B!SYN_RCVD /\ connB'[s].local = g.port
             /\ connB'[s].rcv_nxt = B!Add(g.seq, 1) /\ B!rx_bytes(connB'[s], rxB'[s]) = <<>>
    BY <2>0 DEF B!SentAnew
  <2>2. /\ b'.active /\ b'.state = B!SYN_RCVD /\ b'.local = g.port
        /\ b'.rcv_nxt = B!Add(g.seq, 1) /\ B!rx_bytes(connB'[0], rxB'[0]) = <<>>
    BY <2>1, OneSlot DEF b
  <2>3. issB' # issB BY <2>1, FirstNumber DEF B!tcp_gen_iss, B!TypeOK, B!SeqNums
  <2>4. got' = <<>> BY <2>3
  <2>5. Received' = <<>>
    <3>1. Received' = got' \o B!rx_bytes(connB'[0], rxB'[0])
      BY DEF Received, b, B!rx_bytes, B!rx_available
    <3>2. <<>> \o <<>> = <<>> OBVIOUS
    <3>3. QED BY <2>2, <2>4, <3>1, <3>2
  <2>6. b'.rcv_nxt = At(0) BY <1>1, <2>1, <2>2, FirstNumber DEF Genuine
  <2>7. Len(<<>>) = 0 /\ <<>> \in Seq(Bytes) /\ Len(wrote) \in Nat BY <1>1
  <2>8. Starts(<<>>, wrote) BY <2>7 DEF Starts
  <2>9. ReceiverOK' BY <1>1, <2>2, <2>4, <2>5, <2>6, <2>7, <2>8 DEF ReceiverOK, B!SYN_RCVD
  <2>10. QED BY <1>1, <2>1, <2>9 DEF RightPort
<1>4. CASE B!InputDropped(g) \/ B!InputStray(g)
  <2>1. /\ UNCHANGED <<connB, rxB, txqB, listenersB, issB, toldB>>
        /\ \A x \in wireB' \ wireB : x.port = g.port /\ x.data = <<>> /\ "SYN" \notin x.flags
    BY <1>4, B!OtherShape, HostsAssumption, StreamAssumption
  <2>2. ReceiverOK' BY <1>1, <2>1, ReceiverStays, StartsSame
  <2>3. QED BY <1>1, <2>1, <2>2 DEF RightPort
<1>5. QED BY <1>2, <1>3, <1>4 DEF B!Input

\* A step that leaves the ring and its indices alone.
LEMMA RingKept ==
  ASSUME B!TypeOK, ReceiverOK, UNCHANGED <<rxB, got, wrote>>,
         b'.rx_head = b.rx_head, b'.rx_tail = b.rx_tail, b'.state # 2,
         b'.state \in B!Taking => b.state \in B!Taking /\ b'.rcv_nxt = b.rcv_nxt,
         b'.active => b.active /\ b'.local = b.local,
         ~b'.active => b'.state = 0
  PROVE  ReceiverOK'
<1>1. Received' = Received BY DEF Received, b, B!rx_bytes, B!rx_available
<1>2. QED BY <1>1 DEF ReceiverOK

LEMMA TickBStep ==
  ASSUME B!TypeOK, ReceiverOK, B!Periodic, UNCHANGED <<got, wrote>>
  PROVE  ReceiverOK' /\ RightPort
<1>1. 0 \in B!Slots BY OneSlot
<1>2. /\ b'.rx_head = b.rx_head /\ b'.rx_tail = b.rx_tail
      /\ \/ ~b'.active /\ b'.state = B!CLOSED
         \/ /\ b'.active <=> b.active
            /\ b'.state = b.state /\ b'.local = b.local /\ b'.rcv_nxt = b.rcv_nxt
      /\ \A x \in wireB' \ wireB : \E t \in B!Slots : connB[t].active /\ x.port = connB[t].local
      /\ UNCHANGED rxB
  BY <1>1, B!PeriodicShape, HostsAssumption, StreamAssumption DEF b
<1>3. ReceiverOK' BY <1>2, RingKept DEF ReceiverOK, B!CLOSED, B!Taking, B!SYN_RCVD, B!ESTABLISHED, B!FIN_WAIT_1,
     B!FIN_WAIT_2
<1>4. RightPort BY <1>2, OneSlot DEF RightPort, ReceiverOK, b
<1>5. QED BY <1>3, <1>4

LEMMA CloseBStep ==
  ASSUME B!TypeOK, ReceiverOK, B!CloseGraceful(0), UNCHANGED <<got, wrote>>
  PROVE  ReceiverOK' /\ RightPort
<1> USE DEF B!ESTABLISHED, B!CLOSE_WAIT, B!FIN_WAIT_1, B!FIN_WAIT_2, B!LAST_ACK, B!SYN_RCVD, B!Taking
<1>1. 0 \in B!Slots BY OneSlot
<1>2. /\ b.state \in {B!ESTABLISHED, B!CLOSE_WAIT}
      /\ b'.active <=> b.active
      /\ b'.state = (IF b.state = B!ESTABLISHED THEN B!FIN_WAIT_1 ELSE B!LAST_ACK)
      /\ b'.local = b.local /\ b'.rcv_nxt = b.rcv_nxt
      /\ b'.rx_head = b.rx_head /\ b'.rx_tail = b.rx_tail
      /\ B!SentAnew(b.local, b.snd_nxt, {"FIN", "ACK"}, <<>>)
      /\ UNCHANGED rxB
  BY <1>1, B!CloseShape, HostsAssumption, StreamAssumption DEF b
<1>3. b.active BY <1>2 DEF ReceiverOK
<1>4. ReceiverOK' BY <1>2, <1>3, RingKept
<1>5. RightPort BY <1>2, <1>3 DEF RightPort, B!SentAnew, ReceiverOK
<1>6. QED BY <1>4, <1>5

\* B!ReadShape, for the one slot of B.
LEMMA BRead ==
  ASSUME B!TypeOK, NEW n \in ReadSizes, B!Read(0, n)
  PROVE  /\ b' = B!ReadConn(b, n) /\ b' \in B!Conns
         /\ b'.active <=> b.active
         /\ b'.state = b.state /\ b'.local = b.local /\ b'.rcv_nxt = b.rcv_nxt
         /\ b'.snd_una = b.snd_una /\ b'.snd_nxt = b.snd_nxt
         /\ \A x \in wireB' \ wireB :
              /\ x.port = b.local /\ b.state = B!ESTABLISHED
              /\ x.flags = {"ACK"} /\ x.data = <<>> /\ x.ack = b.rcv_nxt
         /\ UNCHANGED <<rxB, txqB, listenersB, issB, toldB>>
<1>1. 0 \in B!Slots BY OneSlot
<1>2. /\ connB'[0] = B!ReadConn(connB[0], n) /\ connB'[0] \in B!Conns
      /\ connB'[0].active <=> connB[0].active
      /\ connB'[0].state = connB[0].state /\ connB'[0].local = connB[0].local
      /\ connB'[0].rcv_nxt = connB[0].rcv_nxt
      /\ connB'[0].snd_una = connB[0].snd_una /\ connB'[0].snd_nxt = connB[0].snd_nxt
      /\ \A x \in wireB' \ wireB :
           /\ x.port = connB[0].local /\ connB[0].state = B!ESTABLISHED
           /\ x.flags = {"ACK"} /\ x.data = <<>> /\ x.ack = connB[0].rcv_nxt
      /\ UNCHANGED <<rxB, txqB, listenersB, issB, toldB>>
  BY <1>1, B!ReadShape, HostsAssumption, StreamAssumption
<1>3. QED BY <1>2 DEF b

\* What is read is no longer in the ring, and is what was received before the rest.
LEMMA ReadStep ==
  ASSUME B!TypeOK, ReceiverOK, NEW n \in ReadSizes, B!Read(0, n), UNCHANGED wrote,
         got' = got \o SubSeq(B!rx_bytes(b, rxB[0]), 1, B!ReadLen(b, n))
  PROVE  ReceiverOK' /\ RightPort /\ Received' = Received
<1> DEFINE u == B!rx_bytes(b, rxB[0])
           v == B!rx_bytes(B!ReadConn(b, n), rxB[0])
           z == B!Leading(u, B!ReadLen(b, n))
<1>1. 0 \in B!Slots /\ n \in Nat BY OneSlot, HostsAssumption
<1>2. /\ b' = B!ReadConn(b, n) /\ b' \in B!Conns
      /\ b'.active <=> b.active
      /\ b'.state = b.state /\ b'.local = b.local /\ b'.rcv_nxt = b.rcv_nxt
      /\ \A x \in wireB' \ wireB : x.port = b.local /\ b.state = B!ESTABLISHED
      /\ UNCHANGED rxB
  BY BRead
<1>3. u \in Seq(Bytes) /\ got \in Seq(Bytes) /\ b \in B!Conns /\ rxB[0] \in [0 .. RX_BUF_SIZE - 1 -> Bytes]
  BY UnreadType DEF ReceiverOK
<1>4. B!ReadLen(b, n) \in 0 .. B!rx_available(b) /\ z \o v = u
  <2>1. /\ B!ReadLen(connB[0], n) \in 0 .. B!rx_available(connB[0])
        /\ B!Leading(B!rx_bytes(connB[0], rxB[0]), B!ReadLen(connB[0], n)) \o
             B!rx_bytes(B!ReadConn(connB[0], n), rxB[0]) = B!rx_bytes(connB[0], rxB[0])
    BY <1>1, B!ReadGives, HostsAssumption, StreamAssumption
  <2>2. QED BY <2>1 DEF b
<1>5. v \in Seq(Bytes) BY <1>2, <1>3, B!RxBytesType, HostsAssumption, StreamAssumption
<1>6. Len(u) = B!rx_available(b) BY <1>3, B!RxBytesType, HostsAssumption, StreamAssumption
<1>7. Received = got \o u /\ Received' = got' \o v
  BY <1>2 DEF Received, b, B!rx_bytes, B!rx_available
<1>8. got' = got \o z BY DEF B!Leading
<1>9. z \in Seq(Bytes)
  <2> HIDE DEF u
  <2>1. QED BY <1>3, <1>4, <1>6 DEF B!Leading
<1> HIDE DEF u, v, z
<1>10. Received' = Received /\ got' \in Seq(Bytes)
  <2>1. got \o (z \o v) = (got \o z) \o v BY <1>3, <1>5, <1>9, Associative
  <2>2. got \o z \in Seq(Bytes) BY <1>3, <1>9, ConcatProperties
  <2>3. QED BY <1>4, <1>7, <1>8, <2>1, <2>2
<1>11. ReceiverOK' BY <1>2, <1>10 DEF ReceiverOK
<1>12. RightPort
  <2>1. b.state = B!ESTABLISHED => b.active BY DEF ReceiverOK, B!ESTABLISHED
  <2>2. QED BY <1>2, <2>1 DEF RightPort, ReceiverOK
<1>13. QED BY <1>10, <1>11, <1>12

(***************************************************************************)
(* Both hosts and the network.                                             *)
(***************************************************************************)
LEMMA NetworkStep ==
  ASSUME NetworkOK, A!TypeOK, wrote' \in Seq(Bytes), Len(wrote') <= MaxStream, Starts(wrote, wrote'),
         \A x \in wireA' : x \in wireA \/ (Genuine(x, wrote') /\ x.port = Port),
         \A x \in wireB' : x \in wireB \/ x.port = Port
  PROVE  NetworkOK'
<1>1. \A x \in wireA : x.data \in Seq(Bytes) BY DEF A!TypeOK, A!Segments
<1>2. \A x \in wireA : Genuine(x, wrote') BY <1>1, GenuineStays DEF NetworkOK
<1>3. QED BY <1>2 DEF NetworkOK

LEMMA AppAInv == StreamInv /\ AppA => StreamInv'
<1> SUFFICES ASSUME StreamInv, AppA PROVE StreamInv' OBVIOUS
<1>1. A!TypeOK /\ B!TypeOK /\ NetworkOK /\ SenderOK /\ ReceiverOK BY DEF StreamInv
<1>2. UNCHANGED <<varsB, got>> BY DEF AppA
<1>3. wrote \in Seq(Bytes) /\ Len(wrote) <= MaxStream BY <1>1 DEF NetworkOK
<1>4. B!TypeOK' BY <1>1, <1>2 DEF B!TypeOK, varsB
<1>5. ASSUME A!TypeOK', SenderOK', GoodNews, wrote' \in Seq(Bytes), Len(wrote') <= MaxStream,
             Starts(wrote, wrote')
      PROVE  StreamInv'
  <2>1. NetworkOK' BY <1>1, <1>2, <1>5, NetworkStep DEF GoodNews, varsB, NetworkOK
  <2>2. ReceiverOK' BY <1>1, <1>2, <1>3, <1>5, ReceiverStays DEF varsB
  <2>3. QED BY <1>4, <1>5, <2>1, <2>2 DEF StreamInv
<1>6. CASE toldA[0] = "unused" /\ A!Connect(Peer, Port) /\ UNCHANGED wrote
  <2>1. \E r \in {Peer}, p \in {0, Port} : A!Connect(r, p) \/ A!ConnectFails(r, p) BY <1>6
  <2>2. A!TypeOK' BY <1>1, <2>1, A!ApplicationType, HostsAssumption, StreamAssumption
  <2>3. SenderOK' /\ GoodNews BY <1>1, <1>6, ConnectStep
  <2>4. QED BY <1>3, <1>5, <1>6, <2>2, <2>3, StartsSame
<1>7. ASSUME NEW d \in Payloads, Len(wrote) + Len(d) <= MaxStream, A!Send(0, d), wrote' = wrote \o d
      PROVE  StreamInv'
  <2>1. \E s \in A!Slots : \/ \E e \in Payloads : A!Send(s, e)
                           \/ \E n \in ReadSizes : A!Read(s, n)
                           \/ A!CloseGraceful(s) \/ A!CloseHandshake(s) \/ A!Abort(s)
    BY <1>7, OneSlot
  <2>2. A!TypeOK' BY <1>1, <2>1, A!ApplicationType, HostsAssumption, StreamAssumption
  <2>3. SenderOK' /\ GoodNews BY <1>1, <1>7, SendStep
  <2>4. d \in Seq(Bytes) BY HostsAssumption
  <2>5. wrote \o d \in Seq(Bytes) /\ Starts(wrote, wrote \o d) /\ Len(wrote \o d) = Len(wrote) + Len(d)
    BY <1>3, <2>4, StartsConcat, ConcatProperties
  <2>6. QED BY <1>5, <1>7, <2>2, <2>3, <2>5
<1>8. CASE A!CloseGraceful(0) /\ UNCHANGED wrote
  <2>1. \E s \in A!Slots : \/ \E e \in Payloads : A!Send(s, e)
                           \/ \E n \in ReadSizes : A!Read(s, n)
                           \/ A!CloseGraceful(s) \/ A!CloseHandshake(s) \/ A!Abort(s)
    BY <1>8, OneSlot
  <2>2. A!TypeOK' BY <1>1, <2>1, A!ApplicationType, HostsAssumption, StreamAssumption
  <2>3. SenderOK' /\ GoodNews BY <1>1, <1>8, CloseAStep
  <2>4. QED BY <1>3, <1>5, <1>8, <2>2, <2>3, StartsSame
<1>9. QED BY <1>6, <1>7, <1>8 DEF AppA

LEMMA AppBInv == StreamInv /\ AppB => StreamInv'
<1> SUFFICES ASSUME StreamInv, AppB PROVE StreamInv' OBVIOUS
<1>1. A!TypeOK /\ B!TypeOK /\ NetworkOK /\ SenderOK /\ ReceiverOK BY DEF StreamInv
<1>2. UNCHANGED <<varsA, wrote>> BY DEF AppB
<1>3. wrote \in Seq(Bytes) /\ Len(wrote) <= MaxStream BY <1>1 DEF NetworkOK
<1>4. A!TypeOK' /\ SenderOK' BY <1>1, <1>2 DEF A!TypeOK, varsA, SenderOK, a
<1>5. ReceiverOK' /\ RightPort
  <2>1. ASSUME NEW n \in ReadSizes, B!Read(0, n),
               got' = got \o SubSeq(B!rx_bytes(b, rxB[0]), 1, B!ReadLen(b, n))
        PROVE  ReceiverOK' /\ RightPort
    BY <1>1, <1>2, <2>1, ReadStep
  <2>2. CASE B!CloseGraceful(0) /\ UNCHANGED got BY <1>1, <1>2, <2>2, CloseBStep
  <2>3. QED BY <2>1, <2>2 DEF AppB
<1>6. B!TypeOK'
  <2>1. \E s \in B!Slots : \/ \E e \in Payloads : B!Send(s, e)
                           \/ \E n \in ReadSizes : B!Read(s, n)
                           \/ B!CloseGraceful(s) \/ B!CloseHandshake(s) \/ B!Abort(s)
    BY OneSlot DEF AppB
  <2>2. QED BY <1>1, <2>1, B!ApplicationType, HostsAssumption, StreamAssumption
<1>7. NetworkOK' BY <1>1, <1>2, <1>3, <1>5, NetworkStep, StartsSame DEF RightPort, varsA
<1>8. QED BY <1>4, <1>5, <1>6, <1>7 DEF StreamInv

LEMMA TicksInv == StreamInv /\ (TickA \/ TickB) => StreamInv'
<1> SUFFICES ASSUME StreamInv, TickA \/ TickB PROVE StreamInv' OBVIOUS
<1>1. A!TypeOK /\ B!TypeOK /\ NetworkOK /\ SenderOK /\ ReceiverOK BY DEF StreamInv
<1>2. wrote \in Seq(Bytes) /\ Len(wrote) <= MaxStream BY <1>1 DEF NetworkOK
<1>3. CASE TickA
  <2>1. A!Periodic /\ UNCHANGED <<varsB, wrote, got>> BY <1>3 DEF TickA
  <2>2. A!TypeOK' BY <1>1, <2>1, A!LoopsType, HostsAssumption, StreamAssumption
  <2>3. B!TypeOK' BY <1>1, <2>1 DEF B!TypeOK, varsB
  <2>4. SenderOK' /\ GoodNews BY <1>1, <2>1, TickAStep
  <2>5. ReceiverOK' BY <1>1, <1>2, <2>1, ReceiverStays, StartsSame DEF varsB
  <2>6. NetworkOK' BY <1>1, <1>2, <2>1, <2>4, NetworkStep, StartsSame DEF GoodNews, varsB
  <2>7. QED BY <2>2, <2>3, <2>4, <2>5, <2>6 DEF StreamInv
<1>4. CASE TickB
  <2>1. B!Periodic /\ UNCHANGED <<varsA, wrote, got>> BY <1>4 DEF TickB
  <2>2. B!TypeOK' BY <1>1, <2>1, B!LoopsType, HostsAssumption, StreamAssumption
  <2>3. A!TypeOK' /\ SenderOK' BY <1>1, <2>1 DEF A!TypeOK, varsA, SenderOK, a
  <2>4. ReceiverOK' /\ RightPort BY <1>1, <2>1, TickBStep
  <2>5. NetworkOK' BY <1>1, <1>2, <2>1, <2>4, NetworkStep, StartsSame DEF RightPort, varsA
  <2>6. QED BY <2>2, <2>3, <2>4, <2>5 DEF StreamInv
<1>5. QED BY <1>3, <1>4

LEMMA DeliverToAInv == StreamInv /\ DeliverToA => StreamInv'
<1> SUFFICES ASSUME StreamInv, DeliverToA PROVE StreamInv' OBVIOUS
<1>1. A!TypeOK /\ B!TypeOK /\ NetworkOK /\ SenderOK /\ ReceiverOK BY DEF StreamInv
<1>2. wrote \in Seq(Bytes) /\ Len(wrote) <= MaxStream BY <1>1 DEF NetworkOK
<1>3. PICK g \in wireB :
        /\ A!Input(g) /\ Taken(wireB, wireB', g)
        /\ UNCHANGED <<connB, rxB, txqB, freeB, listenersB, issB, toldB, wrote, got, accepts>>
  BY DEF DeliverToA
<1>4. wireB' \subseteq wireB BY <1>3 DEF Taken
<1>5. g \in A!Segments BY <1>1, OneSlot DEF B!TypeOK
<1>6. A!TypeOK'
  <2>1. CASE A!InputConn(g) BY <1>1, <1>5, <2>1, A!InputConnType, HostsAssumption, StreamAssumption
  <2>2. CASE A!InputListen(g) \/ A!InputDropped(g) \/ A!InputStray(g)
    BY <1>1, <1>5, <2>2, A!InputOtherType, HostsAssumption, StreamAssumption
  <2>3. QED BY <1>3, <2>1, <2>2 DEF A!Input
<1>7. B!TypeOK' BY <1>1, <1>3, <1>4 DEF B!TypeOK
<1>8. SenderOK' /\ GoodNews BY <1>1, <1>3, <1>5, InputAStep
<1>9. ReceiverOK' BY <1>1, <1>2, <1>3, ReceiverStays, StartsSame
<1>10. NetworkOK' BY <1>1, <1>2, <1>3, <1>4, <1>8, NetworkStep, StartsSame DEF GoodNews
<1>11. QED BY <1>6, <1>7, <1>8, <1>9, <1>10 DEF StreamInv

LEMMA DeliverToBInv == StreamInv /\ DeliverToB => StreamInv'
<1> SUFFICES ASSUME StreamInv, DeliverToB PROVE StreamInv' OBVIOUS
<1>1. A!TypeOK /\ B!TypeOK /\ NetworkOK /\ SenderOK /\ ReceiverOK BY DEF StreamInv
<1>2. wrote \in Seq(Bytes) /\ Len(wrote) <= MaxStream BY <1>1 DEF NetworkOK
<1>3. PICK g \in wireA :
        /\ B!Input(g) /\ Taken(wireA, wireA', g)
        /\ got' = (IF issB' = issB THEN got ELSE <<>>)
        /\ UNCHANGED <<connA, rxA, txqA, freeA, listenersA, issA, toldA, wrote>>
  BY DEF DeliverToB
<1>4. wireA' \subseteq wireA BY <1>3 DEF Taken
<1>5. g \in B!Segments BY <1>1, OneSlot DEF A!TypeOK
<1>6. B!TypeOK'
  <2>1. CASE B!InputConn(g) BY <1>1, <1>5, <2>1, B!InputConnType, HostsAssumption, StreamAssumption
  <2>2. CASE B!InputListen(g) \/ B!InputDropped(g) \/ B!InputStray(g)
    BY <1>1, <1>5, <2>2, B!InputOtherType, HostsAssumption, StreamAssumption
  <2>3. QED BY <1>3, <2>1, <2>2 DEF B!Input
<1>7. A!TypeOK' /\ SenderOK' BY <1>1, <1>3, <1>4 DEF A!TypeOK, SenderOK, a
<1>8. ReceiverOK' /\ RightPort BY <1>1, <1>3, <1>5, <1>6, InputBStep
<1>9. NetworkOK' BY <1>1, <1>2, <1>3, <1>4, <1>8, NetworkStep, StartsSame DEF RightPort
<1>10. QED BY <1>6, <1>7, <1>8, <1>9 DEF StreamInv

LEMMA NextInv == StreamInv /\ [Next]_vars => StreamInv'
<1>1. StreamInv /\ UNCHANGED vars => StreamInv'
  <2> SUFFICES ASSUME StreamInv, UNCHANGED vars PROVE StreamInv' OBVIOUS
  <2>1. A!TypeOK' /\ B!TypeOK' BY DEF StreamInv, A!TypeOK, B!TypeOK, vars, varsA, varsB
  <2>2. NetworkOK' /\ SenderOK' BY DEF StreamInv, NetworkOK, SenderOK, vars, varsA, varsB, a
  <2>3. ReceiverOK'
    <3>1. wrote \in Seq(Bytes) BY DEF StreamInv, NetworkOK
    <3>2. QED BY <3>1, ReceiverStays, StartsSame DEF StreamInv, vars, varsB
  <2>4. QED BY <2>1, <2>2, <2>3 DEF StreamInv
<1>2. QED BY <1>1, AppAInv, AppBInv, TicksInv, DeliverToAInv, DeliverToBInv DEF Next

LEMMA InitInv == Init => StreamInv
<1> SUFFICES ASSUME Init PROVE StreamInv OBVIOUS
<1>1. A!Init /\ B!Init /\ wrote = <<>> /\ got = <<>> BY DEF Init
<1>2. A!TypeOK BY <1>1, A!InitType, HostsAssumption, StreamAssumption
<1>3. B!TypeOK BY <1>1, B!InitType, HostsAssumption, StreamAssumption
<1>4. <<>> \in Seq(Bytes) /\ Len(<<>>) = 0 OBVIOUS
<1>5. NetworkOK BY <1>1, <1>4, StreamAssumption DEF NetworkOK, A!Init, B!Init
<1>6. /\ a = A!ZeroConn /\ b = B!ZeroConn /\ txqA[0] = <<>> /\ toldA[0] = "unused" /\ issA = 0
      /\ \A l \in A!LSlots : listenersA[l] = 0
  BY <1>1, OneSlot DEF A!Init, B!Init, a, b
<1>7. ~a.active /\ a.state = 0 /\ ~b.active /\ b.state = 0 /\ b.rx_head = 0 /\ b.rx_tail = 0
  BY <1>6 DEF A!ZeroConn, B!ZeroConn, A!CLOSED, B!CLOSED
<1>8. SenderOK BY <1>1, <1>4, <1>6, <1>7 DEF SenderOK
<1>9. Received = <<>>
  <2>1. B!rx_bytes(b, rxB[0]) = <<>> BY <1>7 DEF B!rx_bytes, B!rx_available
  <2>2. <<>> \o <<>> = <<>> OBVIOUS
  <2>3. QED BY <1>1, <2>1, <2>2 DEF Received
<1>10. ReceiverOK
  BY <1>1, <1>4, <1>7, <1>9
  DEF ReceiverOK, Starts, B!Taking, B!SYN_RCVD, B!ESTABLISHED, B!FIN_WAIT_1, B!FIN_WAIT_2
<1>11. QED BY <1>2, <1>3, <1>5, <1>8, <1>10 DEF StreamInv

LEMMA PrefixOfInv == StreamInv => StreamPrefix
<1> SUFFICES ASSUME StreamInv PROVE StreamPrefix OBVIOUS
<1> DEFINE s == Received
<1>1. wrote \in Seq(Bytes) /\ Starts(s, wrote) BY DEF StreamInv, NetworkOK, ReceiverOK
<1>2. s \in Seq(Bytes) BY UnreadType, ConcatProperties DEF StreamInv, Received, ReceiverOK
<1> HIDE DEF s
<1>3. Len(s) \in Nat /\ Len(wrote) \in Nat /\ Len(s) <= Len(wrote) BY <1>1, <1>2 DEF Starts
<1>4. SubSeq(s, 1, Len(s)) = SubSeq(wrote, 1, Len(s)) BY <1>1, <1>2, <1>3 DEF Starts
<1>5. IsPrefix(s, wrote) BY <1>3, <1>4 DEF IsPrefix
<1>6. QED BY <1>5 DEF s, StreamPrefix

\* Whatever the network loses, repeats or reorders, and whenever the timers fire, what
\* B's application reads is a prefix of what A's wrote: for every size of ring, pool,
\* segment and sequence space, over streams shorter than the sequence space.
THEOREM StreamIsPrefix == Spec => []StreamPrefix
<1>1. Spec => []StreamInv BY InitInv, NextInv, PTL DEF Spec
<1>2. QED BY <1>1, PrefixOfInv, PTL

(***************************************************************************)
(* Proof that handshakes are of this connection and that acknowledged      *)
(* bytes have arrived.  A opens one connection; while it is opening or     *)
(* ESTABLISHED everything it sent acknowledges nothing or the SYN it took. *)
(***************************************************************************)
\* The initial sequence number of one of B's connections so far.
OneOfBs(n, iss) == n \in Nat /\ n > 1 /\ (n = iss \/ n + ISS_STEP <= iss)
Harmless(x, iss) ==
  x.data = <<>> /\ ("SYN" \in x.flags => "ACK" \in x.flags /\ OneOfBs(x.seq, iss))
Covered(y, m) == \E n \in 0 .. m : y = At(n)

NumbersOK ==
  /\ accepts \in 0 .. MaxAccepts /\ issB = (accepts + 1) * ISS_STEP
  /\ \A x \in wireB : Harmless(x, issB)
  /\ \A i \in 1 .. Len(txqB[0]) :
       txqB[0][i].data = <<>> /\ ("SYN" \in txqB[0][i].flags => OneOfBs(txqB[0][i].seq, issB))
  /\ b.active => b.state # 0
  /\ b.state = 3 => b.snd_una = issB /\ b.snd_nxt = issB + 1 /\ b.rcv_nxt = At(0)
HandshakeOK ==
  /\ a.active => a.state # 0
  /\ toldA[0] = "unused" => wireA = {} /\ wireB = {} /\ b.state = 0
  /\ a.state # 3
  /\ a.state \in {2, 4} =>
       /\ \A i \in 1 .. Len(txqA[0]) : "FIN" \notin txqA[0][i].flags
       /\ \A x \in wireA : "RST" \notin x.flags => "FIN" \notin x.flags /\ x.ack \in {0, a.rcv_nxt}
  /\ a.state = 2 =>
       /\ a.rcv_nxt = 0 /\ b.state \in {0, 3}
       /\ \A x \in wireB : "RST" \notin x.flags => x.ack = At(0)
  /\ a.state = 4 =>
       /\ OneOfBs(a.rcv_nxt - 1, issB) /\ b.state \in {0} \cup B!Taking
       /\ b.state \in {4, 5, 6} => a.rcv_nxt = issB + 1
AcksOK ==
  a.state = 4 /\ b.active /\ a.rcv_nxt = issB + 1 =>
    /\ Covered(a.snd_una, Len(Received))
    /\ \A x \in wireB : "RST" \notin x.flags => Covered(x.ack, Len(Received))
PairInv == StreamInv /\ NumbersOK /\ HandshakeOK /\ AcksOK

LEMMA Products ==
  ASSUME NEW i \in Nat, NEW j \in Nat, NEW k \in Nat, i <= j
  PROVE  i * k <= j * k /\ (i + 1) * k = i * k + k /\ i * k \in Nat
<1>1. PICK d \in Nat : j = i + d
  <2>1. j - i \in Nat /\ j = i + (j - i) OBVIOUS
  <2>2. QED BY <2>1
<1>2. (i + d) * k = i * k + d * k /\ d * k >= 0 /\ i * k \in Nat BY SMT
<1>3. (i + 1) * k = i * k + k BY SMT
<1>4. QED BY <1>1, <1>2, <1>3

\* B's initial sequence numbers do not come round.
LEMMA IssRoom ==
  ASSUME NumbersOK
  PROVE  /\ issB \in Nat /\ issB > 1 /\ issB + 1 < SeqSpace
         /\ accepts < MaxAccepts =>
              /\ B!Add(issB, ISS_STEP) = issB + ISS_STEP
              /\ issB + ISS_STEP = ((accepts + 1) + 1) * ISS_STEP /\ issB + ISS_STEP + 1 < SeqSpace
<1>1. /\ MaxAccepts \in Nat /\ ISS_STEP \in Nat /\ ISS_STEP > 1 /\ SeqSpace \in Nat
      /\ accepts \in Nat /\ accepts <= MaxAccepts /\ issB = (accepts + 1) * ISS_STEP
  BY NumbersAssumption, StreamAssumption, HostsAssumption DEF NumbersOK
<1> DEFINE top == (MaxAccepts + 1) * ISS_STEP
<1>2. top + 1 < SeqSpace BY NumbersAssumption
<1>3. (accepts + 1) * ISS_STEP <= top /\ (accepts + 1) * ISS_STEP \in Nat BY <1>1, Products
<1>4. 1 * ISS_STEP <= (accepts + 1) * ISS_STEP /\ 1 * ISS_STEP = ISS_STEP
  <2>1. accepts + 1 \in Nat /\ 1 <= accepts + 1 BY <1>1
  <2>2. 1 * ISS_STEP <= (accepts + 1) * ISS_STEP BY <1>1, <2>1, Products
  <2>3. QED BY <1>1, <2>2
<1>5. top \in Nat BY <1>1, Products
<1>6. issB \in Nat /\ issB > 1 /\ issB + 1 < SeqSpace
  <2> HIDE DEF top
  <2>1. QED BY <1>1, <1>2, <1>3, <1>4, <1>5
<1>7. ASSUME accepts < MaxAccepts
      PROVE  /\ B!Add(issB, ISS_STEP) = issB + ISS_STEP
             /\ issB + ISS_STEP = ((accepts + 1) + 1) * ISS_STEP /\ issB + ISS_STEP + 1 < SeqSpace
  <2>1. (accepts + 1) + 1 <= MaxAccepts + 1 /\ accepts + 1 \in Nat BY <1>1, <1>7
  <2>2. ((accepts + 1) + 1) * ISS_STEP <= top /\ ((accepts + 1) + 1) * ISS_STEP = issB + ISS_STEP
    BY <1>1, <2>1, Products
  <2> HIDE DEF top
  <2>3. issB + ISS_STEP + 1 < SeqSpace BY <1>1, <1>2, <1>5, <1>6, <2>2
  <2>4. \A x \in Nat : x < SeqSpace => x % SeqSpace = x BY <1>1
  <2>5. issB + ISS_STEP \in Nat /\ issB + ISS_STEP < SeqSpace BY <1>1, <1>6, <2>3
  <2>6. QED BY <2>2, <2>3, <2>4, <2>5 DEF B!Add
<1>8. QED BY <1>6, <1>7

LEMMA AddOne ==
  ASSUME NEW n \in Nat, n + 1 < SeqSpace PROVE A!Add(n, 1) = n + 1 /\ B!Add(n, 1) = n + 1
BY HostsAssumption DEF A!Add, B!Add

LEMMA Lengths ==
  ASSUME StreamInv
  PROVE  /\ Len(Received) \in 0 .. MaxStream /\ wrote \in Seq(Bytes)
         /\ b.state \in B!Taking => b.rcv_nxt = At(Len(Received))
<1>1. wrote \in Seq(Bytes) /\ Len(wrote) <= MaxStream /\ Starts(Received, wrote) /\ B!TypeOK
  BY DEF StreamInv, NetworkOK, ReceiverOK
<1>2. Received \in Seq(Bytes) BY UnreadType, ConcatProperties DEF StreamInv, Received, ReceiverOK
<1> DEFINE s == Received
<1>3. s \in Seq(Bytes) /\ Starts(s, wrote) BY <1>1, <1>2
<1>4. b.state \in B!Taking => b.rcv_nxt = At(Len(s)) BY DEF StreamInv, ReceiverOK
<1> HIDE DEF s
<1>5. Len(s) \in Nat /\ Len(s) <= MaxStream BY <1>1, <1>3, StreamAssumption DEF Starts
<1>6. QED BY <1>1, <1>4, <1>5, StreamAssumption DEF s

\* An acknowledgment completes B's handshake only if it names B's own SYN.
LEMMA AckNamesSyn ==
  ASSUME NumbersOK, NEW ack \in 0 .. SeqSpace - 1, b.state = 3,
         B!SEQ_LEQ(b.snd_una, ack), B!SEQ_LEQ(ack, b.snd_nxt)
  PROVE  ack \in {issB, issB + 1}
<1>1. issB \in Nat /\ issB > 1 /\ issB + 1 < SeqSpace BY IssRoom
<1>2. issB \in B!SeqNums /\ issB + 1 \in B!SeqNums /\ ack \in B!SeqNums BY <1>1, HostsAssumption DEF B!SeqNums
<1>3. B!Dist(issB, issB + 1) = 1
  <2>1. 1 % SeqSpace = 1 BY HostsAssumption
  <2>2. (issB + 1) - issB = 1 BY <1>1
  <2>3. QED BY <2>1, <2>2 DEF B!Dist
<1>4. b.snd_una = issB /\ b.snd_nxt = issB + 1 BY DEF NumbersOK
<1>5. QED BY <1>2, <1>3, <1>4, B!AckOfSyn, HostsAssumption, StreamAssumption

(***************************************************************************)
(* A's steps.  B and what B knows stay; of B's segments one may be gone.   *)
(***************************************************************************)
BStays == UNCHANGED <<connB, rxB, txqB, issB, got, accepts>> /\ wireB' \subseteq wireB

LEMMA BKnows ==
  ASSUME NumbersOK, BStays
  PROVE  NumbersOK' /\ Received' = Received /\ b' = b /\ issB' = issB
<1>1. b' = b /\ issB' = issB /\ accepts' = accepts /\ txqB' = txqB BY DEF BStays, b
<1>2. Received' = Received BY DEF BStays, Received, b, B!rx_bytes, B!rx_available
<1>3. \A x \in wireB' : Harmless(x, issB) BY DEF NumbersOK, BStays
<1>4. NumbersOK' BY <1>1, <1>3 DEF NumbersOK
<1>5. QED BY <1>1, <1>2, <1>4

\* A step of A that opens nothing: what it sends acknowledges as before.
LEMMA AMoves ==
  ASSUME PairInv, BStays, a'.active => a'.state # 0, a'.state # 3,
         toldA'[0] = "unused" => toldA[0] = "unused" /\ wireA' \subseteq wireA,
         a'.state \in {2, 4} =>
           /\ a'.state = a.state /\ a'.rcv_nxt = a.rcv_nxt
           /\ \A i \in 1 .. Len(txqA'[0]) : "FIN" \notin txqA'[0][i].flags
           /\ \A x \in wireA' \ wireA : "RST" \in x.flags \/ ("FIN" \notin x.flags /\ x.ack = a.rcv_nxt),
         a'.state = 4 =>
           a'.snd_una = a.snd_una \/ \E x \in wireB : "RST" \notin x.flags /\ a'.snd_una = x.ack
  PROVE  NumbersOK' /\ HandshakeOK' /\ AcksOK'
<1>1. NumbersOK /\ HandshakeOK /\ AcksOK BY DEF PairInv
<1>2. NumbersOK' /\ Received' = Received /\ b' = b /\ issB' = issB BY <1>1, BKnows
<1>3. wireB' \subseteq wireB BY DEF BStays
<1>4. toldA'[0] = "unused" => wireA' = {} /\ wireB' = {} /\ b'.state = 0
  BY <1>1, <1>2, <1>3 DEF HandshakeOK
<1>5. ASSUME a'.state \in {2, 4}
      PROVE  \A x \in wireA' : "RST" \notin x.flags => "FIN" \notin x.flags /\ x.ack \in {0, a'.rcv_nxt}
  BY <1>1, <1>5 DEF HandshakeOK
<1>6. ASSUME a'.state = 2
      PROVE  /\ a'.rcv_nxt = 0 /\ b'.state \in {0, 3}
             /\ \A x \in wireB' : "RST" \notin x.flags => x.ack = At(0)
  BY <1>1, <1>2, <1>3, <1>6 DEF HandshakeOK
<1>7. ASSUME a'.state = 4
      PROVE  /\ OneOfBs(a'.rcv_nxt - 1, issB') /\ b'.state \in {0} \cup B!Taking
             /\ b'.state \in {4, 5, 6} => a'.rcv_nxt = issB' + 1
  BY <1>1, <1>2, <1>7 DEF HandshakeOK
<1>8. HandshakeOK' BY <1>4, <1>5, <1>6, <1>7 DEF HandshakeOK
<1>9. AcksOK'
  <2> SUFFICES ASSUME a'.state = 4, b'.active, a'.rcv_nxt = issB' + 1
      PROVE  /\ Covered(a'.snd_una, Len(Received'))
             /\ \A x \in wireB' : "RST" \notin x.flags => Covered(x.ack, Len(Received'))
    BY DEF AcksOK
  <2>1. /\ Covered(a.snd_una, Len(Received))
        /\ \A x \in wireB : "RST" \notin x.flags => Covered(x.ack, Len(Received))
    BY <1>1, <1>2 DEF AcksOK
  <2>2. QED BY <1>2, <1>3, <2>1
<1>10. QED BY <1>2, <1>8, <1>9

LEMMA ConnectNumbers ==
  ASSUME PairInv, BStays, toldA[0] = "unused", A!Connect(Peer, Port)
  PROVE  NumbersOK' /\ HandshakeOK' /\ AcksOK'
<1>1. A!TypeOK /\ NumbersOK /\ wireA = {} /\ wireB = {} /\ b.state = 0
  BY DEF PairInv, StreamInv, HandshakeOK
<1>2. Peer \in {Peer} /\ Port \in {0, Port} OBVIOUS
<1>3. PICK s \in A!Slots :
        /\ connA'[s].active /\ connA'[s].state = A!SYN_SENT /\ connA'[s].rcv_nxt = 0
        /\ \A i \in 1 .. Len(txqA'[s]) : txqA'[s][i].flags = {"SYN"}
        /\ A!SentAnew(Port, A!tcp_gen_iss, {"SYN"}, <<>>) /\ \A x \in wireA' \ wireA : x.ack = 0
        /\ toldA'[s] = "opening"
  BY <1>1, <1>2, A!ConnectShape, HostsAssumption, StreamAssumption
<1>4. s = 0 BY OneSlot
<1>5. a'.state = 2 /\ a'.rcv_nxt = 0 /\ toldA'[0] # "unused" BY <1>3, <1>4 DEF a, A!SYN_SENT
<1>6. \A i \in 1 .. Len(txqA'[0]) : "FIN" \notin txqA'[0][i].flags BY <1>3, <1>4
<1>7. \A x \in wireA' : "FIN" \notin x.flags /\ x.ack = 0 BY <1>1, <1>3 DEF A!SentAnew
<1>8. NumbersOK' /\ b' = b BY <1>1, BKnows
<1>9. wireB' = {} BY <1>1 DEF BStays
<1>10. HandshakeOK' BY <1>1, <1>5, <1>6, <1>7, <1>8, <1>9 DEF HandshakeOK
<1>11. AcksOK' BY <1>5 DEF AcksOK
<1>12. QED BY <1>8, <1>10, <1>11

LEMMA SendNumbers ==
  ASSUME PairInv, BStays, NEW d \in Payloads, A!Send(0, d)
  PROVE  NumbersOK' /\ HandshakeOK' /\ AcksOK'
<1>1. A!TypeOK /\ HandshakeOK /\ SenderOK BY DEF PairInv, StreamInv
<1>2. 0 \in A!Slots /\ d \in Seq(Bytes) BY OneSlot, HostsAssumption
<1>3. /\ a.state \in {A!ESTABLISHED, A!CLOSE_WAIT}
      /\ a'.active <=> a.active
      /\ a'.state = a.state /\ a'.snd_una = a.snd_una /\ a'.rcv_nxt = a.rcv_nxt
      /\ A!QueuedAnew(0, a.snd_nxt, {}, d)
      /\ A!SentAnew(a.local, a.snd_nxt, {"ACK"}, d)
      /\ \A x \in wireA' \ wireA : x.ack = a.rcv_nxt
      /\ UNCHANGED toldA
  BY <1>1, <1>2, A!SendShape, HostsAssumption, StreamAssumption DEF a
<1>4. a.state \in {4, 7} /\ toldA[0] # "unused"
  BY <1>1, <1>3 DEF A!ESTABLISHED, A!CLOSE_WAIT, SenderOK
<1>5. a.state = 4 => \A i \in 1 .. Len(txqA'[0]) : "FIN" \notin txqA'[0][i].flags
  BY <1>1, <1>3 DEF A!QueuedAnew, HandshakeOK
<1>6. \A x \in wireA' \ wireA : "FIN" \notin x.flags /\ x.ack = a.rcv_nxt BY <1>3 DEF A!SentAnew
<1>7. QED BY <1>3, <1>4, <1>5, <1>6, AMoves

LEMMA CloseANumbers ==
  ASSUME PairInv, BStays, A!CloseGraceful(0)
  PROVE  NumbersOK' /\ HandshakeOK' /\ AcksOK'
<1>1. A!TypeOK /\ SenderOK BY DEF PairInv, StreamInv
<1>2. 0 \in A!Slots BY OneSlot
<1>3. /\ a.state \in {A!ESTABLISHED, A!CLOSE_WAIT}
      /\ a'.state = (IF a.state = A!ESTABLISHED THEN A!FIN_WAIT_1 ELSE A!LAST_ACK)
      /\ UNCHANGED toldA
  BY <1>1, <1>2, A!CloseShape, HostsAssumption, StreamAssumption DEF a
<1>4. a.state \in {4, 7} /\ a'.state \in {5, 9} /\ toldA'[0] # "unused"
  BY <1>1, <1>3 DEF A!ESTABLISHED, A!CLOSE_WAIT, A!FIN_WAIT_1, A!LAST_ACK, SenderOK
<1>5. QED BY <1>4, AMoves

LEMMA TickANumbers ==
  ASSUME PairInv, BStays, A!Periodic
  PROVE  NumbersOK' /\ HandshakeOK' /\ AcksOK'
<1>1. A!TypeOK /\ SenderOK /\ HandshakeOK BY DEF PairInv, StreamInv
<1>2. 0 \in A!Slots BY OneSlot
<1>3. /\ \/ ~a'.active /\ a'.state = A!CLOSED
         \/ /\ a'.active <=> a.active
            /\ a'.state = a.state /\ a'.rcv_nxt = a.rcv_nxt
            /\ a'.snd_una = a.snd_una /\ txqA'[0] = txqA[0]
      /\ \A x \in wireA' \ wireA : \E t \in A!Slots :
           /\ connA[t].active /\ txqA[t] # <<>>
           /\ x.flags = {"ACK"} \cup txqA[t][1].flags /\ x.ack = connA[t].rcv_nxt
      /\ toldA'[0] = "unused" => toldA[0] = "unused"
  BY <1>1, <1>2, A!PeriodicShape, HostsAssumption, StreamAssumption DEF a
<1>4. \A x \in wireA' \ wireA : /\ a.active /\ txqA[0] # <<>> /\ x.ack = a.rcv_nxt
                                /\ x.flags = {"ACK"} \cup txqA[0][1].flags
  BY <1>3, OneSlot DEF a
<1>5. toldA'[0] = "unused" => toldA[0] = "unused" /\ wireA' \subseteq wireA
  BY <1>1, <1>3, <1>4 DEF SenderOK
<1>6. txqA[0] # <<>> => 1 \in 1 .. Len(txqA[0])
  <2>1. txqA[0] \in Seq(A!TxSegs) BY <1>1, <1>2 DEF A!TypeOK
  <2>2. QED BY <2>1
<1>7. a.state \in {2, 4} => \A x \in wireA' \ wireA : "FIN" \notin x.flags /\ x.ack = a.rcv_nxt
  BY <1>1, <1>4, <1>6 DEF HandshakeOK
<1>8. CASE ~a'.active /\ a'.state = A!CLOSED BY <1>5, <1>8, AMoves DEF A!CLOSED
<1>9. CASE /\ a'.active <=> a.active
           /\ a'.state = a.state /\ a'.rcv_nxt = a.rcv_nxt
           /\ a'.snd_una = a.snd_una /\ txqA'[0] = txqA[0]
  <2>1. /\ a.active => a.state # 0
        /\ a.state # 3
        /\ a.state \in {2, 4} => \A i \in 1 .. Len(txqA[0]) : "FIN" \notin txqA[0][i].flags
    BY <1>1 DEF HandshakeOK
  <2>2. QED BY <1>5, <1>7, <1>9, <2>1, AMoves
<1>10. QED BY <1>3, <1>8, <1>9

\* A's SYN is answered: B's SYN, of whichever connection, is the one A takes.
LEMMA OpenNumbers ==
  ASSUME PairInv, BStays, NEW g \in wireB, "RST" \notin g.flags, {"SYN", "ACK"} \subseteq g.flags,
         a.state = 2, a'.state = 4, toldA'[0] # "unused",
         a'.rcv_nxt = A!Add(g.seq, 1), a'.snd_una = g.ack,
         \A i \in 1 .. Len(txqA'[0]) : "FIN" \notin txqA'[0][i].flags,
         \A x \in wireA' \ wireA : "FIN" \notin x.flags /\ x.ack = a'.rcv_nxt
  PROVE  NumbersOK' /\ HandshakeOK' /\ AcksOK'
<1>1. NumbersOK /\ HandshakeOK /\ StreamInv BY DEF PairInv
<1>2. NumbersOK' /\ Received' = Received /\ b' = b /\ issB' = issB BY <1>1, BKnows
<1>3. wireB' \subseteq wireB BY DEF BStays
<1>4. OneOfBs(g.seq, issB) BY <1>1 DEF NumbersOK, Harmless
<1>5. a'.rcv_nxt = g.seq + 1 /\ a'.rcv_nxt - 1 = g.seq
  <2>1. issB \in Nat /\ issB + 1 < SeqSpace BY <1>1, IssRoom
  <2>2. g.seq \in Nat /\ g.seq <= issB
    BY <1>4, <2>1, NumbersAssumption, StreamAssumption, HostsAssumption DEF OneOfBs
  <2>3. g.seq + 1 < SeqSpace BY <2>1, <2>2, HostsAssumption
  <2>4. A!Add(g.seq, 1) = g.seq + 1 BY <2>2, <2>3, AddOne
  <2>5. QED BY <2>2, <2>4
<1>6. b.state \in {0, 3} /\ \A x \in wireB : "RST" \notin x.flags => x.ack = At(0)
  BY <1>1 DEF HandshakeOK
<1>7. \A x \in wireA' : "RST" \notin x.flags => "FIN" \notin x.flags /\ x.ack \in {0, a'.rcv_nxt}
  BY <1>1 DEF HandshakeOK
<1>8. HandshakeOK' BY <1>2, <1>4, <1>5, <1>6, <1>7 DEF HandshakeOK, B!Taking, B!SYN_RCVD
<1>9. Covered(At(0), Len(Received))
  <2>1. Len(Received) \in Nat BY <1>1, Lengths
  <2>2. 0 \in 0 .. Len(Received) BY <2>1
  <2>3. QED BY <2>2 DEF Covered
<1>10. AcksOK' BY <1>2, <1>3, <1>6, <1>9 DEF AcksOK
<1>11. QED BY <1>2, <1>8, <1>10

LEMMA InputANumbers ==
  ASSUME PairInv, BStays, NEW g \in wireB, A!Input(g)
  PROVE  NumbersOK' /\ HandshakeOK' /\ AcksOK'
<1>1. /\ A!TypeOK /\ B!TypeOK /\ NetworkOK /\ SenderOK /\ HandshakeOK /\ NumbersOK
      /\ g \in A!Segments /\ g.port = Port /\ Harmless(g, issB) /\ toldA[0] # "unused"
  BY OneSlot DEF PairInv, StreamInv, HandshakeOK, NumbersOK, NetworkOK, B!TypeOK
<1>2. CASE A!InputConn(g)
  <2>1. PICK s \in A!Slots : A!Found(s, g) /\ A!Sends(s) /\ \E n \in 0 .. Len(g.data) : A!Takes(s, g, n)
    BY <1>1, <1>2, A!InputConnShape, HostsAssumption, StreamAssumption
  <2>2. s = 0 BY OneSlot
  <2>3. A!Numbers(0, g)
    <3>1. \E t \in A!Slots : A!Numbers(t, g)
      BY <1>1, <1>2, A!InputConnNumbers, HostsAssumption, StreamAssumption
    <3>2. QED BY <3>1, OneSlot
  <2>4. a.active /\ toldA'[0] # "unused" BY <1>1, <2>1, <2>2 DEF A!Found, a
  <2>5. \A i \in 1 .. Len(txqA'[0]) : \E j \in 1 .. Len(txqA[0]) : txqA'[0][i] = txqA[0][j]
    BY <2>1, <2>2 DEF A!Sends
  <2>6. /\ "RST" \in g.flags => a'.state = 0
        /\ \A x \in wireA' \ wireA :
             /\ "FIN" \notin x.flags /\ a'.state \notin {0, 2}
             /\ a'.state = 4 => x.ack = a'.rcv_nxt
        /\ a'.state = 2 => a'.rcv_nxt = a.rcv_nxt
        /\ a'.state = 3 => a.state = 3 \/ (a.state = 2 /\ "SYN" \in g.flags /\ "ACK" \notin g.flags)
        /\ a'.state = 4 =>
             \/ /\ a.state = 2 /\ {"SYN", "ACK"} \subseteq g.flags
                /\ a'.rcv_nxt = A!Add(g.seq, 1) /\ a'.snd_una = g.ack
             \/ a.state = 3
             \/ a.state = 4 /\ (a'.snd_una = a.snd_una \/ a'.snd_una = g.ack)
        /\ a'.active /\ a'.state = 0 => a.state = 0
    BY <2>3 DEF A!Numbers, a, A!CLOSED, A!SYN_SENT, A!SYN_RCVD, A!ESTABLISHED, A!Taking
  <2>7. a'.state = 2 => a.state = 2
    BY <2>1, <2>2 DEF A!Sends, a, A!CLOSED, A!SYN_SENT
  <2>8. a.state # 3 /\ a.state # 0 BY <1>1, <2>4 DEF HandshakeOK
  <2>9. a'.state # 3 BY <1>1, <2>6, <2>8 DEF Harmless
  <2>10. a'.active => a'.state # 0 BY <2>6, <2>8
  <2>11. a'.state \in {2, 4} => \A i \in 1 .. Len(txqA'[0]) : "FIN" \notin txqA'[0][i].flags
    BY <1>1, <2>5, <2>6, <2>7, <2>8 DEF HandshakeOK
  <2>12. CASE a.state = 2 /\ a'.state = 4
    <3>1. "RST" \notin g.flags /\ {"SYN", "ACK"} \subseteq g.flags BY <2>6, <2>12
    <3>2. a'.rcv_nxt = A!Add(g.seq, 1) /\ a'.snd_una = g.ack BY <2>6, <2>12
    <3>3. QED BY <2>4, <2>6, <2>11, <2>12, <3>1, <3>2, OpenNumbers
  <2>13. CASE ~(a.state = 2 /\ a'.state = 4)
    <3>1. a'.state \in {2, 4} => a'.state = a.state BY <2>6, <2>7, <2>8, <2>13
    <3>2. a'.state = 4 => a'.rcv_nxt = a.rcv_nxt
      <4> SUFFICES ASSUME a'.state = 4, a.state = 4 PROVE a'.rcv_nxt = a.rcv_nxt BY <3>1
      <4>1. PICK n \in 0 .. Len(g.data) : A!Takes(0, g, n) BY <2>1, <2>2
      <4>2. n = 0 BY <1>1 DEF Harmless
      <4>3. a'.rcv_nxt = A!Add(a.rcv_nxt, n)
        BY <4>1 DEF A!Takes, a, A!SYN_SENT, A!Taking, A!ESTABLISHED
      <4>4. a.rcv_nxt \in 0 .. SeqSpace - 1
        BY <1>1, OneSlot DEF A!TypeOK, A!Conns, A!SeqNums, a
      <4>5. \A i \in 0 .. SeqSpace - 1 : (i + 0) % SeqSpace = i BY HostsAssumption
      <4>6. QED BY <4>2, <4>3, <4>4, <4>5 DEF A!Add
    <3>3. a'.state = 4 =>
            a'.snd_una = a.snd_una \/ \E x \in wireB : "RST" \notin x.flags /\ a'.snd_una = x.ack
      BY <2>6, <2>8, <3>1
    <3>4. a'.state \in {2, 4} =>
            \A x \in wireA' \ wireA : "FIN" \notin x.flags /\ x.ack = a.rcv_nxt
      BY <2>6, <3>2
    <3>5. a'.state \in {2, 4} => a'.rcv_nxt = a.rcv_nxt BY <2>6, <3>2
    <3>6. QED BY <2>4, <2>9, <2>10, <2>11, <3>1, <3>3, <3>4, <3>5, AMoves
  <2>14. QED BY <2>12, <2>13
<1>3. CASE A!InputListen(g)
  <2>1. \E l \in A!LSlots : listenersA[l] = g.port
    BY <1>1, <1>3, A!ListenShape, HostsAssumption, StreamAssumption
  <2>2. QED BY <1>1, <2>1, HostsAssumption DEF SenderOK
<1>4. CASE A!InputDropped(g) \/ A!InputStray(g)
  <2>1. /\ UNCHANGED <<connA, txqA, toldA>>
        /\ \A x \in wireA' \ wireA : "RST" \in x.flags
    BY <1>1, <1>4, A!OtherShape, HostsAssumption, StreamAssumption
  <2>2. a' = a BY <2>1 DEF a
  <2>3. /\ a.active => a.state # 0
        /\ a.state # 3
        /\ a.state \in {2, 4} => \A i \in 1 .. Len(txqA[0]) : "FIN" \notin txqA[0][i].flags
    BY <1>1 DEF HandshakeOK
  <2>4. QED BY <1>1, <2>1, <2>2, <2>3, AMoves
<1>5. QED BY <1>2, <1>3, <1>4 DEF A!Input

(***************************************************************************)
(* B's steps.  A stays; of A's segments one may be gone.                   *)
(***************************************************************************)
AStays == UNCHANGED <<connA, txqA, toldA>> /\ wireA' \subseteq wireA

\* A step of B that accepts nothing.
LEMMA BMoves ==
  ASSUME PairInv, StreamInv', AStays, issB' = issB, accepts' = accepts,
         Len(Received) <= Len(Received'),
         b'.active => b.active /\ b'.state # 0,
         b'.state = 3 => /\ b.state = 3 /\ b'.snd_una = b.snd_una
                         /\ b'.snd_nxt = b.snd_nxt /\ b'.rcv_nxt = b.rcv_nxt,
         \A x \in wireB' \ wireB : Harmless(x, issB),
         \A i \in 1 .. Len(txqB'[0]) :
           txqB'[0][i].data = <<>> /\ ("SYN" \in txqB'[0][i].flags => OneOfBs(txqB'[0][i].seq, issB)),
         toldA[0] = "unused" => wireB' \subseteq wireB /\ b'.state = 0,
         a.state \in {2, 4} => \A x \in wireB' \ wireB :
           \/ "RST" \in x.flags
           \/ b.state # 0 /\ x.ack = b.rcv_nxt
           \/ b'.state # 0 /\ x.ack = b'.rcv_nxt,
         a.state = 2 => b'.state \in {0, 3},
         a.state = 4 => /\ b'.state \in {0} \cup B!Taking
                        /\ b'.state \in {4, 5, 6} => a.rcv_nxt = issB + 1
  PROVE  NumbersOK' /\ HandshakeOK' /\ AcksOK'
<1>1. NumbersOK /\ HandshakeOK /\ AcksOK /\ StreamInv BY DEF PairInv
<1>2. a' = a /\ UNCHANGED <<txqA, toldA>> /\ wireA' \subseteq wireA BY DEF AStays, a
<1>3. NumbersOK'
  <2>1. \A x \in wireB' : Harmless(x, issB) BY <1>1 DEF NumbersOK
  <2>2. b'.state = 3 => b'.snd_una = issB /\ b'.snd_nxt = issB + 1 /\ b'.rcv_nxt = At(0)
    BY <1>1 DEF NumbersOK
  <2>3. accepts \in 0 .. MaxAccepts /\ issB = (accepts + 1) * ISS_STEP BY <1>1 DEF NumbersOK
  <2>4. QED BY <2>1, <2>2, <2>3 DEF NumbersOK
<1>4. /\ Len(Received) \in Nat /\ Len(Received') \in Nat
      /\ b.state \in B!Taking => b.rcv_nxt = At(Len(Received))
      /\ b'.state \in B!Taking => b'.rcv_nxt = At(Len(Received'))
  <2>1. Len(Received) \in 0 .. MaxStream /\ (b.state \in B!Taking => b.rcv_nxt = At(Len(Received)))
    BY <1>1, Lengths
  <2>2. (StreamInv => Len(Received) \in 0 .. MaxStream)' BY Lengths, PTL
  <2>3. (StreamInv => (b.state \in B!Taking => b.rcv_nxt = At(Len(Received))))' BY Lengths, PTL
  <2>4. Len(Received') \in 0 .. MaxStream /\ (b'.state \in B!Taking => b'.rcv_nxt = At(Len(Received')))
    BY <2>2, <2>3
  <2>5. QED BY <2>1, <2>4
<1>5. \A y : Covered(y, Len(Received)) => Covered(y, Len(Received'))
  <2> DEFINE m == Len(Received)
             k == Len(Received')
  <2>1. m \in Nat /\ k \in Nat /\ m <= k BY <1>4
  <2> HIDE DEF m, k
  <2>2. \A y : Covered(y, m) => Covered(y, k) BY <2>1 DEF Covered
  <2>3. QED BY <2>2 DEF m, k
<1>6. /\ Covered(At(Len(Received)), Len(Received)) /\ Covered(At(Len(Received')), Len(Received'))
  BY <1>4 DEF Covered
\* What B sends now acknowledges what it has.
<1>7. ASSUME a.state = 4, NEW x \in wireB' \ wireB, "RST" \notin x.flags
      PROVE  Covered(x.ack, Len(Received'))
  <2>1. b.state \in {0} \cup B!Taking /\ b'.state \in {0} \cup B!Taking
    BY <1>1, <1>7 DEF HandshakeOK
  <2>2. x.ack \in {At(Len(Received)), At(Len(Received'))} BY <1>4, <1>7, <2>1
  <2>3. QED BY <1>5, <1>6, <2>2
<1>8. ASSUME a.state = 2, NEW x \in wireB' \ wireB, "RST" \notin x.flags
      PROVE  x.ack = At(0)
  <2>1. b.state \in {0, 3} /\ b'.state \in {0, 3} BY <1>1, <1>8 DEF HandshakeOK
  <2>2. (b.state = 3 => b.rcv_nxt = At(0)) /\ (b'.state = 3 => b'.rcv_nxt = At(0))
    BY <1>1 DEF NumbersOK
  <2>3. QED BY <1>8, <2>1, <2>2
<1>9. HandshakeOK'
  <2>1. toldA[0] = "unused" => wireA' = {} /\ wireB' = {} /\ b'.state = 0
    BY <1>1, <1>2 DEF HandshakeOK
  <2>2. a.state = 2 => /\ a.rcv_nxt = 0 /\ b'.state \in {0, 3}
                       /\ \A x \in wireB' : "RST" \notin x.flags => x.ack = At(0)
    BY <1>1, <1>8 DEF HandshakeOK
  <2>3. a.state = 4 => /\ OneOfBs(a.rcv_nxt - 1, issB) /\ b'.state \in {0} \cup B!Taking
                       /\ b'.state \in {4, 5, 6} => a.rcv_nxt = issB + 1
    BY <1>1 DEF HandshakeOK
  <2>4. QED BY <1>1, <1>2, <2>1, <2>2, <2>3 DEF HandshakeOK
<1>10. AcksOK'
  <2> SUFFICES ASSUME a.state = 4, b'.active, a.rcv_nxt = issB + 1
      PROVE  /\ Covered(a.snd_una, Len(Received'))
             /\ \A x \in wireB' : "RST" \notin x.flags => Covered(x.ack, Len(Received'))
    BY <1>2 DEF AcksOK
  <2>1. /\ Covered(a.snd_una, Len(Received))
        /\ \A x \in wireB : "RST" \notin x.flags => Covered(x.ack, Len(Received))
    BY <1>1 DEF AcksOK
  <2>2. QED BY <1>5, <1>7, <2>1
<1>11. QED BY <1>3, <1>9, <1>10

\* What PairInv says of B, at the state before a step.
LEMMA BNow ==
  ASSUME PairInv
  PROVE  /\ b.active => b.state # 0
         /\ ~b.active => b.state = 0
         /\ b.state # 2
         /\ \A i \in 1 .. Len(txqB[0]) :
              txqB[0][i].data = <<>> /\ ("SYN" \in txqB[0][i].flags => OneOfBs(txqB[0][i].seq, issB))
         /\ toldA[0] = "unused" => b.state = 0
         /\ a.state = 2 => b.state \in {0, 3}
         /\ a.state = 4 => /\ b.state \in {0} \cup B!Taking
                           /\ b.state \in {4, 5, 6} => a.rcv_nxt = issB + 1
         /\ Len(Received) \in Nat
BY Lengths DEF PairInv, NumbersOK, HandshakeOK, StreamInv, ReceiverOK

LEMMA ReadNumbers ==
  ASSUME PairInv, StreamInv', AStays, UNCHANGED <<wrote, accepts>>, NEW n \in ReadSizes, B!Read(0, n),
         got' = got \o SubSeq(B!rx_bytes(b, rxB[0]), 1, B!ReadLen(b, n))
  PROVE  NumbersOK' /\ HandshakeOK' /\ AcksOK'
<1>1. B!TypeOK /\ ReceiverOK BY DEF PairInv, StreamInv
<1>2. /\ b'.active <=> b.active
      /\ b'.state = b.state /\ b'.rcv_nxt = b.rcv_nxt
      /\ b'.snd_una = b.snd_una /\ b'.snd_nxt = b.snd_nxt
      /\ \A x \in wireB' \ wireB :
           b.state = 4 /\ x.flags = {"ACK"} /\ x.data = <<>> /\ x.ack = b.rcv_nxt
      /\ UNCHANGED <<txqB, issB>>
  BY <1>1, BRead DEF B!ESTABLISHED
<1>3. Received' = Received BY <1>1, ReadStep
<1>4. \A x \in wireB' \ wireB : Harmless(x, issB) BY <1>2 DEF Harmless
<1>5. toldA[0] = "unused" => wireB' \subseteq wireB BY <1>2, BNow
<1>6. Len(Received) <= Len(Received') BY <1>3, BNow
<1>7. QED BY <1>2, <1>4, <1>5, <1>6, BNow, BMoves

LEMMA CloseBNumbers ==
  ASSUME PairInv, StreamInv', AStays, UNCHANGED <<got, wrote, accepts>>, B!CloseGraceful(0)
  PROVE  NumbersOK' /\ HandshakeOK' /\ AcksOK'
<1> USE DEF B!ESTABLISHED, B!CLOSE_WAIT, B!FIN_WAIT_1, B!LAST_ACK
<1>1. B!TypeOK /\ ReceiverOK BY DEF PairInv, StreamInv
<1>2. 0 \in B!Slots BY OneSlot
<1>3. /\ b.state \in {4, 7}
      /\ b'.active <=> b.active
      /\ b'.state = (IF b.state = 4 THEN 5 ELSE 9)
      /\ b'.rcv_nxt = b.rcv_nxt /\ b'.rx_head = b.rx_head /\ b'.rx_tail = b.rx_tail
      /\ B!QueuedAnew(0, b.snd_nxt, {"FIN"}, <<>>)
      /\ B!SentAnew(b.local, b.snd_nxt, {"FIN", "ACK"}, <<>>)
      /\ \A x \in wireB' \ wireB : x.ack = b.rcv_nxt
      /\ UNCHANGED <<rxB, issB>>
  BY <1>1, <1>2, B!CloseShape, HostsAssumption, StreamAssumption DEF b
<1>4. Received' = Received BY <1>3 DEF Received, b, B!rx_bytes, B!rx_available
<1>5. \A x \in wireB' \ wireB : Harmless(x, issB) BY <1>3 DEF Harmless, B!SentAnew
<1>6. \A i \in 1 .. Len(txqB'[0]) :
        txqB'[0][i].data = <<>> /\ ("SYN" \in txqB'[0][i].flags => OneOfBs(txqB'[0][i].seq, issB))
  BY <1>3, BNow DEF B!QueuedAnew
<1>7. toldA[0] # "unused" /\ a.state # 2 BY <1>3, BNow
<1>8. a.state = 4 => b.state = 4 /\ b'.state \in B!Taking /\ a.rcv_nxt = issB + 1
  BY <1>3, BNow DEF B!Taking, B!SYN_RCVD, B!FIN_WAIT_2
<1>9. b'.active => b.active /\ b'.state # 0 BY <1>3
<1>10. b'.state # 3 BY <1>3
<1>11. Len(Received) <= Len(Received') BY <1>4, BNow
<1>12. \A x \in wireB' \ wireB : b.state # 0 /\ x.ack = b.rcv_nxt BY <1>3
<1>13. issB' = issB /\ accepts' = accepts BY <1>3
<1>14. QED BY <1>5, <1>6, <1>7, <1>8, <1>9, <1>10, <1>11, <1>12, <1>13, BMoves

LEMMA TickBNumbers ==
  ASSUME PairInv, StreamInv', AStays, UNCHANGED <<got, wrote, accepts>>, B!Periodic
  PROVE  NumbersOK' /\ HandshakeOK' /\ AcksOK'
<1>1. B!TypeOK /\ ReceiverOK BY DEF PairInv, StreamInv
<1>2. 0 \in B!Slots BY OneSlot
<1>3. /\ b'.rx_head = b.rx_head /\ b'.rx_tail = b.rx_tail
      /\ \/ ~b'.active /\ b'.state = 0 /\ txqB'[0] = <<>>
         \/ /\ b'.active <=> b.active
            /\ b'.state = b.state /\ b'.snd_una = b.snd_una /\ b'.snd_nxt = b.snd_nxt
            /\ b'.rcv_nxt = b.rcv_nxt /\ txqB'[0] = txqB[0]
      /\ \A x \in wireB' \ wireB : \E t \in B!Slots :
           /\ connB[t].active /\ connB[t].state # 0 /\ txqB[t] # <<>>
           /\ x.seq = txqB[t][1].seq /\ x.data = txqB[t][1].data
           /\ x.flags = {"ACK"} \cup txqB[t][1].flags /\ x.ack = connB[t].rcv_nxt
      /\ UNCHANGED <<rxB, issB>>
  BY <1>1, <1>2, B!PeriodicShape, HostsAssumption, StreamAssumption DEF b, B!CLOSED
<1>4. Received' = Received BY <1>3 DEF Received, b, B!rx_bytes, B!rx_available
<1>5. \A x \in wireB' \ wireB :
        /\ b.state # 0 /\ txqB[0] # <<>> /\ x.seq = txqB[0][1].seq /\ x.data = txqB[0][1].data
        /\ x.flags = {"ACK"} \cup txqB[0][1].flags /\ x.ack = b.rcv_nxt
  BY <1>3, OneSlot DEF b
<1>6. txqB[0] # <<>> => 1 \in 1 .. Len(txqB[0])
  <2>1. txqB[0] \in Seq(B!TxSegs) BY <1>1, <1>2 DEF B!TypeOK
  <2>2. QED BY <2>1
<1>7. \A x \in wireB' \ wireB : Harmless(x, issB) BY <1>5, <1>6, BNow DEF Harmless
<1>8. toldA[0] = "unused" => wireB' \subseteq wireB BY <1>5, BNow
<1>9. Len(Received) <= Len(Received') BY <1>4, BNow
<1>10. issB' = issB /\ accepts' = accepts BY <1>3
<1>11. CASE ~b'.active /\ b'.state = 0 /\ txqB'[0] = <<>>
  <2>1. \A i \in 1 .. Len(txqB'[0]) :
          txqB'[0][i].data = <<>> /\ ("SYN" \in txqB'[0][i].flags => OneOfBs(txqB'[0][i].seq, issB))
    BY <1>11
  <2>2. QED BY <1>5, <1>7, <1>8, <1>9, <1>10, <1>11, <2>1, BMoves
<1>12. CASE /\ b'.active <=> b.active
            /\ b'.state = b.state /\ b'.snd_una = b.snd_una /\ b'.snd_nxt = b.snd_nxt
            /\ b'.rcv_nxt = b.rcv_nxt /\ txqB'[0] = txqB[0]
  BY <1>5, <1>7, <1>8, <1>9, <1>10, <1>12, BNow, BMoves
<1>13. QED BY <1>3, <1>11, <1>12

\* B's handshake completes only by an acknowledgment of B's own SYN; A, opening or
\* ESTABLISHED, sends one only having taken that SYN.
LEMMA InputConnBNumbers ==
  ASSUME PairInv, StreamInv', AStays, UNCHANGED <<got, wrote, accepts>>, NEW g \in wireA, B!InputConn(g)
  PROVE  NumbersOK' /\ HandshakeOK' /\ AcksOK'
<1>1. /\ A!TypeOK /\ B!TypeOK /\ B!TypeOK' /\ ReceiverOK /\ HandshakeOK /\ NumbersOK
      /\ g \in B!Segments /\ toldA[0] # "unused"
      /\ g.ack \in 0 .. SeqSpace - 1 /\ g.data \in Seq(Bytes)
  <2>1. /\ A!TypeOK /\ B!TypeOK /\ B!TypeOK' /\ ReceiverOK /\ HandshakeOK /\ NumbersOK
        /\ toldA[0] # "unused"
    BY DEF PairInv, StreamInv, HandshakeOK
  <2>2. g \in B!Segments BY <2>1, OneSlot DEF A!TypeOK
  <2>3. QED BY <2>1, <2>2 DEF B!Segments, B!SeqNums
<1>2. PICK s \in B!Slots : B!Found(s, g) /\ B!Sends(s) /\ \E n \in 0 .. Len(g.data) : B!Takes(s, g, n)
  BY <1>1, B!InputConnShape, HostsAssumption, StreamAssumption
<1>3. s = 0 BY OneSlot
<1>4. B!Numbers(0, g)
  <2>1. \E t \in B!Slots : B!Numbers(t, g)
    BY <1>1, B!InputConnNumbers, HostsAssumption, StreamAssumption
  <2>2. QED BY <2>1, OneSlot
<1>5. b.active /\ issB' = issB /\ b.state # 0 /\ b.state # 2 BY <1>2, <1>3, BNow DEF B!Found, b
<1>6. /\ \/ ~b'.active /\ b'.state = 0
         \/ b'.active /\ b'.snd_nxt = b.snd_nxt
      /\ \A i \in 1 .. Len(txqB'[0]) : \E j \in 1 .. Len(txqB[0]) : txqB'[0][i] = txqB[0][j]
      /\ \A x \in wireB' \ wireB : x.data = <<>> /\ "SYN" \notin x.flags
  BY <1>2, <1>3, <1>5 DEF B!Sends, b, B!CLOSED, B!SYN_SENT
<1>7. /\ "RST" \in g.flags => b'.state = 0
      /\ \A x \in wireB' \ wireB : b'.state # 0 /\ (b'.state \in B!Taking => x.ack = b'.rcv_nxt)
      /\ b'.state = 3 => b.state = 3 /\ b'.snd_una = b.snd_una /\ b'.rcv_nxt = b.rcv_nxt
      /\ b'.state = 4 => \/ /\ b.state = 3
                            /\ B!SEQ_LEQ(b.snd_una, g.ack) /\ B!SEQ_LEQ(g.ack, b.snd_nxt)
                         \/ b.state = 4
      /\ b'.state \in {5, 6} => b.state \in {5, 6}
      /\ b.state \in B!Taking /\ "FIN" \notin g.flags => b'.state \in B!Taking \cup {0}
      /\ b'.active /\ b'.state = 0 => b.state = 0
  BY <1>4, <1>5
  DEF B!Numbers, b, B!CLOSED, B!SYN_SENT, B!SYN_RCVD, B!ESTABLISHED, B!FIN_WAIT_1, B!FIN_WAIT_2
<1>8. Len(Received) <= Len(Received')
  <2>1. PICK n \in 0 .. Len(g.data) : B!Takes(0, g, n) BY <1>2, <1>3
  <2>2. B!rx_bytes(connB'[0], rxB'[0]) = B!rx_bytes(b, rxB[0]) \o B!Leading(g.data, n)
    BY <2>1 DEF B!Takes, b
  <2>3. Len(Received') = Len(Received) + n BY <1>1, <2>2, ReceivedGrows
  <2>4. n \in Nat BY <1>1
  <2>5. QED BY <2>3, <2>4, BNow
<1>9. \A x \in wireB' \ wireB : Harmless(x, issB) BY <1>6 DEF Harmless
<1>10. \A i \in 1 .. Len(txqB'[0]) :
         txqB'[0][i].data = <<>> /\ ("SYN" \in txqB'[0][i].flags => OneOfBs(txqB'[0][i].seq, issB))
  BY <1>6, BNow
<1>11. ASSUME a.state \in {2, 4}
       PROVE  /\ b'.state \in {0} \cup B!Taking
              /\ b'.state = 4 /\ b.state = 3 => a.state = 4 /\ a.rcv_nxt = issB + 1
  <2>1. b.state \in B!Taking BY <1>5, <1>11, BNow DEF B!Taking, B!SYN_RCVD
  <2>2. CASE "RST" \in g.flags BY <1>7, <2>2
  <2>3. CASE "RST" \notin g.flags
    <3>1. "FIN" \notin g.flags /\ g.ack \in {0, a.rcv_nxt} BY <1>1, <1>11, <2>3 DEF HandshakeOK
    <3>2. ASSUME b'.state = 4, b.state = 3 PROVE a.state = 4 /\ a.rcv_nxt = issB + 1
      <4>1. g.ack \in {issB, issB + 1} BY <1>1, <1>7, <3>2, AckNamesSyn
      <4>2. issB \in Nat /\ issB > 1 BY <1>1, IssRoom
      <4>3. g.ack # 0 BY <4>1, <4>2
      <4>4. g.ack = a.rcv_nxt /\ a.state = 4 BY <1>1, <1>11, <3>1, <4>3 DEF HandshakeOK
      <4>5. OneOfBs(a.rcv_nxt - 1, issB) BY <1>1, <4>4 DEF HandshakeOK
      <4>6. a.rcv_nxt \in Int BY <1>1, <4>4
      <4>7. a.rcv_nxt = issB + 1
        BY <4>1, <4>2, <4>4, <4>5, <4>6, NumbersAssumption, StreamAssumption, HostsAssumption DEF OneOfBs
      <4>8. QED BY <4>4, <4>7
    <3>3. QED BY <1>7, <2>1, <3>1, <3>2
  <2>4. QED BY <2>2, <2>3
<1>12. a.state = 2 => b'.state \in {0, 3}
  BY <1>7, <1>11, BNow DEF B!Taking, B!SYN_RCVD, B!ESTABLISHED, B!FIN_WAIT_1, B!FIN_WAIT_2
<1>13. a.state = 4 => /\ b'.state \in {0} \cup B!Taking
                      /\ b'.state \in {4, 5, 6} => a.rcv_nxt = issB + 1
  BY <1>7, <1>11, BNow
<1>14. a.state \in {2, 4} => \A x \in wireB' \ wireB : b'.state # 0 /\ x.ack = b'.rcv_nxt
  BY <1>7, <1>11
<1>15. b'.active => b.active /\ b'.state # 0 BY <1>5, <1>7
<1>16. b'.state = 3 => /\ b.state = 3 /\ b'.snd_una = b.snd_una
                       /\ b'.snd_nxt = b.snd_nxt /\ b'.rcv_nxt = b.rcv_nxt
  BY <1>6, <1>7
<1>17. accepts' = accepts OBVIOUS
<1>18. QED
  BY <1>1, <1>5, <1>8, <1>9, <1>10, <1>12, <1>13, <1>14, <1>15, <1>16, <1>17, BMoves

\* A SYN of A, perhaps an old one, opens a connection of B's with a new number.
LEMMA AcceptNumbers ==
  ASSUME PairInv, StreamInv', AStays, NEW g \in wireA, B!InputListen(g),
         issB' # issB => accepts < MaxAccepts /\ accepts' = accepts + 1
  PROVE  NumbersOK' /\ HandshakeOK' /\ AcksOK'
<1>1. /\ A!TypeOK /\ B!TypeOK /\ NetworkOK /\ HandshakeOK /\ NumbersOK
      /\ g \in B!Segments /\ toldA[0] # "unused" /\ Genuine(g, wrote)
  BY OneSlot DEF PairInv, StreamInv, HandshakeOK, NetworkOK, A!TypeOK
<1>2. /\ "SYN" \in g.flags
      /\ B!SentAnew(g.port, B!tcp_gen_iss, {"SYN", "ACK"}, <<>>)
      /\ \A x \in wireB' \ wireB : x.ack = B!Add(g.seq, 1)
      /\ issB' = B!tcp_gen_iss
      /\ \E s \in B!Slots :
           /\ connB'[s].active /\ connB'[s].state = B!SYN_RCVD
           /\ connB'[s].rcv_nxt = B!Add(g.seq, 1)
           /\ connB'[s].snd_una = B!tcp_gen_iss /\ connB'[s].snd_nxt = B!Add(B!tcp_gen_iss, 1)
           /\ \A i \in 1 .. Len(txqB'[s]) : txqB'[s][i].seq = B!tcp_gen_iss /\ txqB'[s][i].data = <<>>
  BY <1>1, B!ListenShape, HostsAssumption, StreamAssumption
<1>3. B!Add(g.seq, 1) = At(0) BY <1>1, <1>2, FirstNumber DEF Genuine
<1>4. issB' # issB BY <1>1, <1>2, FirstNumber DEF B!tcp_gen_iss, B!TypeOK, B!SeqNums
<1>5. accepts < MaxAccepts /\ accepts' = accepts + 1 BY <1>4
<1>6. /\ issB \in Nat /\ issB > 1 /\ ISS_STEP \in Nat /\ ISS_STEP > 1 /\ MaxAccepts \in Nat
      /\ accepts \in Nat /\ accepts + 1 \in 0 .. MaxAccepts /\ issB' = issB + ISS_STEP
      /\ issB' = (accepts' + 1) * ISS_STEP /\ issB' + 1 < SeqSpace
  <2>1. /\ issB \in Nat /\ issB > 1 /\ B!Add(issB, ISS_STEP) = issB + ISS_STEP
        /\ issB + ISS_STEP = ((accepts + 1) + 1) * ISS_STEP /\ issB + ISS_STEP + 1 < SeqSpace
    BY <1>1, <1>5, IssRoom
  <2>2. issB' = issB + ISS_STEP BY <1>2, <2>1 DEF B!tcp_gen_iss
  <2>3. ISS_STEP \in Nat /\ ISS_STEP > 1 /\ MaxAccepts \in Nat
    BY NumbersAssumption, StreamAssumption, HostsAssumption
  <2>4. accepts \in Nat /\ accepts + 1 \in 0 .. MaxAccepts BY <1>1, <1>5, <2>3 DEF NumbersOK
  <2>5. QED BY <1>5, <2>1, <2>2, <2>3, <2>4
<1>7. /\ b'.active /\ b'.state = 3 /\ b'.rcv_nxt = At(0)
      /\ b'.snd_una = issB' /\ b'.snd_nxt = issB' + 1
      /\ \A i \in 1 .. Len(txqB'[0]) : txqB'[0][i].seq = issB' /\ txqB'[0][i].data = <<>>
  <2>1. B!Add(issB', 1) = issB' + 1 BY <1>6, AddOne
  <2>2. QED BY <1>2, <1>3, <2>1, OneSlot DEF b, B!SYN_RCVD
<1>8. \A n : OneOfBs(n, issB) => OneOfBs(n, issB') /\ n # issB' BY <1>6 DEF OneOfBs
<1>9. OneOfBs(issB', issB') BY <1>6 DEF OneOfBs
<1>10. NumbersOK'
  <2>1. \A x \in wireB' : Harmless(x, issB')
    <3> TAKE x \in wireB'
    <3>1. CASE x \in wireB BY <1>1, <1>8, <3>1 DEF NumbersOK, Harmless
    <3>2. CASE x \notin wireB BY <1>2, <1>9, <3>2 DEF B!SentAnew, Harmless
    <3>3. QED BY <3>1, <3>2
  <2>2. \A i \in 1 .. Len(txqB'[0]) :
          txqB'[0][i].data = <<>> /\ ("SYN" \in txqB'[0][i].flags => OneOfBs(txqB'[0][i].seq, issB'))
    BY <1>7, <1>9
  <2>3. accepts' \in 0 .. MaxAccepts BY <1>5, <1>6
  <2>4. issB' = (accepts' + 1) * ISS_STEP BY <1>6
  <2>5. /\ b'.active => b'.state # 0
        /\ b'.state = 3 => b'.snd_una = issB' /\ b'.snd_nxt = issB' + 1 /\ b'.rcv_nxt = At(0)
    BY <1>7
  <2>6. QED BY <2>1, <2>2, <2>3, <2>4, <2>5 DEF NumbersOK
<1>11. a' = a /\ UNCHANGED <<txqA, toldA>> /\ wireA' \subseteq wireA BY DEF AStays, a
<1>12. HandshakeOK'
  <2>1. a.state = 2 => \A x \in wireB' : "RST" \notin x.flags => x.ack = At(0)
    BY <1>1, <1>2, <1>3 DEF HandshakeOK
  <2>2. a.state = 4 => OneOfBs(a.rcv_nxt - 1, issB') BY <1>1, <1>8 DEF HandshakeOK
  <2>3. QED BY <1>1, <1>7, <1>11, <2>1, <2>2 DEF HandshakeOK, B!Taking, B!SYN_RCVD
\* What A knows is of an earlier connection.
<1>13. AcksOK'
  <2>1. a.state = 4 => a.rcv_nxt # issB' + 1
    <3> SUFFICES ASSUME a.state = 4, a.rcv_nxt = issB' + 1 PROVE FALSE OBVIOUS
    <3>1. OneOfBs(a.rcv_nxt - 1, issB) BY <1>1 DEF HandshakeOK
    <3>2. a.rcv_nxt - 1 = issB' BY <1>6
    <3>3. QED BY <1>8, <3>1, <3>2
  <2>2. QED BY <1>11, <2>1 DEF AcksOK
<1>14. QED BY <1>10, <1>12, <1>13

LEMMA OtherBNumbers ==
  ASSUME PairInv, StreamInv', AStays, UNCHANGED <<got, wrote, accepts>>, NEW g \in wireA,
         B!InputDropped(g) \/ B!InputStray(g)
  PROVE  NumbersOK' /\ HandshakeOK' /\ AcksOK'
<1>1. A!TypeOK /\ B!TypeOK /\ toldA[0] # "unused" /\ g \in B!Segments
  BY OneSlot DEF PairInv, StreamInv, HandshakeOK, A!TypeOK
<1>2. /\ UNCHANGED <<connB, rxB, txqB, issB>>
      /\ \A x \in wireB' \ wireB : x.data = <<>> /\ "SYN" \notin x.flags /\ "RST" \in x.flags
  BY <1>1, B!OtherShape, HostsAssumption, StreamAssumption
<1>3. b' = b /\ issB' = issB /\ accepts' = accepts /\ txqB'[0] = txqB[0] BY <1>2 DEF b
<1>4. Received' = Received BY <1>2 DEF Received, b, B!rx_bytes, B!rx_available
<1>5. Len(Received) <= Len(Received') BY <1>4, BNow
<1>6. \A x \in wireB' \ wireB : Harmless(x, issB) BY <1>2 DEF Harmless
<1>7. QED BY <1>1, <1>2, <1>3, <1>5, <1>6, BNow, BMoves

LEMMA NumbersStay ==
  ASSUME PairInv, StreamInv', UNCHANGED vars PROVE NumbersOK' /\ HandshakeOK' /\ AcksOK'
<1>1. /\ UNCHANGED <<connA, txqA, toldA, wireA>> /\ UNCHANGED <<connB, rxB, txqB, issB, wireB>>
      /\ UNCHANGED <<got, accepts>>
  BY DEF vars, varsA, varsB
<1>2. a' = a /\ b' = b BY <1>1 DEF a, b
<1>3. Received' = Received BY <1>1 DEF Received, b, B!rx_bytes, B!rx_available
<1>4. NumbersOK /\ HandshakeOK /\ AcksOK BY DEF PairInv
<1>5. NumbersOK' BY <1>1, <1>2, <1>4 DEF NumbersOK
<1>6. HandshakeOK' BY <1>1, <1>2, <1>4 DEF HandshakeOK
<1>7. AcksOK' BY <1>1, <1>2, <1>3, <1>4 DEF AcksOK
<1>8. QED BY <1>5, <1>6, <1>7

LEMMA NextPair == PairInv /\ [Next]_vars => PairInv'
<1> SUFFICES ASSUME PairInv, [Next]_vars PROVE PairInv' OBVIOUS
<1>1. StreamInv /\ HandshakeOK /\ B!TypeOK BY DEF PairInv, StreamInv
<1>2. StreamInv' BY <1>1, NextInv
<1>3. SUFFICES NumbersOK' /\ HandshakeOK' /\ AcksOK' BY <1>2 DEF PairInv
<1>4. CASE AppA
  <2>1. BStays BY <1>4 DEF AppA, BStays, varsB
  <2>2. CASE toldA[0] = "unused" /\ A!Connect(Peer, Port) BY <2>1, <2>2, ConnectNumbers
  <2>3. ASSUME NEW d \in Payloads, A!Send(0, d) PROVE NumbersOK' /\ HandshakeOK' /\ AcksOK'
    BY <2>1, <2>3, SendNumbers
  <2>4. CASE A!CloseGraceful(0) BY <2>1, <2>4, CloseANumbers
  <2>5. QED BY <1>4, <2>2, <2>3, <2>4 DEF AppA
<1>5. CASE AppB
  <2>1. AStays /\ UNCHANGED <<wrote, accepts>> BY <1>5 DEF AppB, AStays, varsA
  <2>2. ASSUME NEW n \in ReadSizes, B!Read(0, n),
               got' = got \o SubSeq(B!rx_bytes(b, rxB[0]), 1, B!ReadLen(b, n))
        PROVE  NumbersOK' /\ HandshakeOK' /\ AcksOK'
    BY <1>2, <2>1, <2>2, ReadNumbers
  <2>3. CASE B!CloseGraceful(0) /\ UNCHANGED got BY <1>2, <2>1, <2>3, CloseBNumbers
  <2>4. QED BY <1>5, <2>2, <2>3 DEF AppB
<1>6. CASE TickA
  <2>1. A!Periodic /\ BStays BY <1>6 DEF TickA, BStays, varsB
  <2>2. QED BY <2>1, TickANumbers
<1>7. CASE TickB
  <2>1. B!Periodic /\ AStays /\ UNCHANGED <<got, wrote, accepts>> BY <1>7 DEF TickB, AStays, varsA
  <2>2. QED BY <1>2, <2>1, TickBNumbers
<1>8. CASE DeliverToA
  <2>1. PICK g \in wireB : A!Input(g) /\ BStays BY <1>8 DEF DeliverToA, BStays, Taken
  <2>2. QED BY <2>1, InputANumbers
<1>9. CASE DeliverToB
  <2>1. PICK g \in wireA :
          /\ B!Input(g) /\ AStays /\ UNCHANGED wrote
          /\ issB' = issB => UNCHANGED <<got, accepts>>
          /\ issB' # issB => accepts < MaxAccepts /\ accepts' = accepts + 1
    BY <1>9 DEF DeliverToB, AStays, Taken
  <2>2. g \in B!Segments BY <1>1, OneSlot DEF StreamInv, A!TypeOK
  <2>3. CASE B!InputConn(g)
    <3>1. issB' = issB
      <4>1. \E s \in B!Slots : B!Found(s, g)
        BY <1>1, <2>2, <2>3, B!InputConnShape, HostsAssumption, StreamAssumption
      <4>2. QED BY <4>1 DEF B!Found
    <3>2. QED BY <1>2, <2>1, <2>3, <3>1, InputConnBNumbers
  <2>4. CASE B!InputListen(g) BY <1>2, <2>1, <2>4, AcceptNumbers
  <2>5. CASE B!InputDropped(g) \/ B!InputStray(g)
    <3>1. issB' = issB BY <1>1, <2>2, <2>5, B!OtherShape, HostsAssumption, StreamAssumption
    <3>2. QED BY <1>2, <2>1, <2>5, <3>1, OtherBNumbers
  <2>6. QED BY <2>1, <2>3, <2>4, <2>5 DEF B!Input
<1>10. CASE UNCHANGED vars BY <1>2, <1>10, NumbersStay
<1>11. QED BY <1>4, <1>5, <1>6, <1>7, <1>8, <1>9, <1>10 DEF Next

LEMMA InitPair == Init => PairInv
<1> SUFFICES ASSUME Init PROVE PairInv OBVIOUS
<1>1. StreamInv BY InitInv
<1>2. /\ a = A!ZeroConn /\ b = B!ZeroConn /\ txqB[0] = <<>> /\ wireA = {} /\ wireB = {}
      /\ issB = ISS_STEP /\ accepts = 0
  BY OneSlot DEF Init, A!Init, B!Init, a, b
<1>3. ~a.active /\ a.state = 0 /\ ~b.active /\ b.state = 0
  BY <1>2 DEF A!ZeroConn, B!ZeroConn, A!CLOSED, B!CLOSED
<1>4. NumbersOK
  <2>1. ISS_STEP \in Nat BY StreamAssumption, HostsAssumption
  <2>2. issB = (accepts + 1) * ISS_STEP BY <1>2, <2>1
  <2>3. accepts \in 0 .. MaxAccepts BY <1>2, NumbersAssumption
  <2>4. QED BY <1>2, <1>3, <2>2, <2>3 DEF NumbersOK
<1>5. HandshakeOK BY <1>2, <1>3 DEF HandshakeOK
<1>6. AcksOK BY <1>3 DEF AcksOK
<1>7. QED BY <1>1, <1>4, <1>5, <1>6 DEF PairInv

LEMMA CurrentOfInv == PairInv => HandshakeIsCurrent
<1> SUFFICES ASSUME PairInv, b.active, b.state = 4, a.active
    PROVE  a.rcv_nxt = (issB + 1) % SeqSpace \/ a.state > 4
  BY DEF HandshakeIsCurrent
<1>1. a.state \in {0} \cup (2 .. 10)
  BY OneSlot DEF PairInv, StreamInv, A!TypeOK, A!Conns, A!States, a, A!CLOSED, A!SYN_SENT, A!TIME_WAIT
<1>2. a.state # 0 /\ a.state # 3 /\ a.state # 2 BY BNow DEF PairInv, HandshakeOK
<1>3. a.state = 4 => a.rcv_nxt = issB + 1 BY BNow
<1>4. (issB + 1) % SeqSpace = issB + 1
  <2>1. issB \in Nat /\ issB + 1 < SeqSpace BY IssRoom DEF PairInv
  <2>2. QED BY <2>1, HostsAssumption
<1>5. QED BY <1>1, <1>2, <1>3, <1>4

LEMMA AckedOfInv == PairInv => AckedWasReceived
<1> SUFFICES ASSUME PairInv, b.active, b.state >= 4, a.active, a.state = 4
    PROVE  (a.snd_una - (Iss + 1)) % SeqSpace <= Len(Received)
  BY DEF AckedWasReceived
<1>1. b.state \in {4, 5, 6} /\ a.rcv_nxt = issB + 1
  BY BNow DEF B!Taking, B!SYN_RCVD, B!ESTABLISHED, B!FIN_WAIT_1, B!FIN_WAIT_2
<1>2. Covered(a.snd_una, Len(Received)) BY <1>1 DEF PairInv, AcksOK
<1> DEFINE m == Len(Received)
<1>3. m \in 0 .. MaxStream BY Lengths DEF PairInv
<1>4. PICK n \in 0 .. m : a.snd_una = At(n) BY <1>2 DEF Covered
<1> HIDE DEF m
<1>5. n \in 0 .. MaxStream /\ n \in Nat /\ n <= m /\ n < SeqSpace
  BY <1>3, <1>4, StreamAssumption, HostsAssumption
<1>6. At(n) = IF Iss + 1 + n < SeqSpace THEN Iss + 1 + n ELSE Iss + 1 + n - SeqSpace BY <1>5, AtValue
<1>7. Iss \in Nat /\ SeqSpace \in Nat BY StreamAssumption, HostsAssumption DEF Iss
<1>8. At(n) - (Iss + 1) \in {n, n - SeqSpace} BY <1>5, <1>6, <1>7
<1>9. n % SeqSpace = n /\ (n - SeqSpace) % SeqSpace = n BY <1>5, <1>7
<1>10. (a.snd_una - (Iss + 1)) % SeqSpace = n BY <1>4, <1>8, <1>9
<1>11. QED BY <1>5, <1>10 DEF m

\* While A is ESTABLISHED, a connection that B takes to be up is the one A takes to be
\* up: duplicates of old SYNs, SYN+ACKs and acknowledgments never complete B's
\* handshake, for every number of connections whose initial numbers do not come round.
THEOREM HandshakesAreCurrent == Spec => []HandshakeIsCurrent
<1>1. Spec => []PairInv BY InitPair, NextPair, PTL DEF Spec
<1>2. QED BY <1>1, CurrentOfInv, PTL

\* What A has been told is delivered B really has: in its application or in its ring,
\* whatever the sizes of ring, pool and segment.
THEOREM AcknowledgedHasArrived == Spec => []AckedWasReceived
<1>1. Spec => []PairInv BY InitPair, NextPair, PTL DEF Spec
<1>2. QED BY <1>1, AckedOfInv, PTL
=============================================================================
