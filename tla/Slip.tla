-------------------------------- MODULE Slip --------------------------------
(***************************************************************************)
(* The serial link: net/slip/tiku_kits_net_slip.c, with the one packet     *)
(* buffer of net/ipv4/tiku_kits_net_ipv4.c that a frame is decoded into    *)
(* and that every transmission of this host is built in.                   *)
(*                                                                         *)
(* poll_rx is one step per byte: bytes arrive while it runs, and other     *)
(* processes transmit between two polls.                                   *)
(***************************************************************************)
EXTENDS Integers, Sequences, FiniteSets

CONSTANTS
  MTU,         \* capacity of net_buf
  Plain,       \* byte values without a meaning of their own
  EscapeNul,   \* TIKU_KITS_NET_SLIP_ESC_NUL_ENABLE at the sender
  Frames,      \* packets the peer may send
  MaxFrames,   \* bound: packets the peer sends
  Transmits    \* bound: transmissions of this host while frames arrive

Special == {"END", "ESC", "ESC_END", "ESC_ESC", "ESC_NUL", "NUL"}
Bytes == Special \cup Plain

VARIABLES
  slip_state, slip_overflow,
  net_buf,     \* the decoded bytes; net_buf_len is its length
  uart,        \* bytes received and not yet polled
  sent,        \* packets the peer has sent
  got,         \* packets handed to ipv4_input
  sends        \* transmissions so far
vars == <<slip_state, slip_overflow, net_buf, uart, sent, got, sends>>

(***************************************************************************)
(* tiku_kits_net_slip_send.                                                *)
(***************************************************************************)
Escape(b) ==
  CASE b = "END" -> <<"ESC", "ESC_END">>
    [] b = "ESC" -> <<"ESC", "ESC_ESC">>
    [] b = "NUL" /\ EscapeNul -> <<"ESC", "ESC_NUL">>
    [] OTHER -> <<b>>
\* What the first i of some sequences are together.
Joined(pieces) ==
  LET upto[i \in 0 .. Len(pieces)] == IF i = 0 THEN <<>> ELSE upto[i - 1] \o pieces[i] IN upto
Body(pkt) == Joined([i \in 1 .. Len(pkt) |-> Escape(pkt[i])])
Encode(pkt) == (<<"END">> \o Body(pkt)[Len(pkt)]) \o <<"END">>

Init ==
  /\ slip_state = "NORMAL" /\ slip_overflow = FALSE
  /\ net_buf = <<>> /\ uart = <<>> /\ sent = <<>> /\ got = <<>> /\ sends = 0

PeerSends(pkt) ==
  /\ Len(sent) < MaxFrames
  /\ uart' = uart \o Encode(pkt)
  /\ sent' = Append(sent, pkt)
  /\ UNCHANGED <<slip_state, slip_overflow, net_buf, got, sends>>

(***************************************************************************)
(* tiku_kits_net_slip_poll_rx, one byte of it.                             *)
(***************************************************************************)
Unescape(b) ==
  CASE b = "ESC_END" -> "END" [] b = "ESC_ESC" -> "ESC" [] b = "ESC_NUL" -> "NUL" [] OTHER -> b

Store(b) ==
  IF ~slip_overflow /\ Len(net_buf) < MTU
  THEN net_buf' = Append(net_buf, b) /\ UNCHANGED slip_overflow
  ELSE slip_overflow' = TRUE /\ UNCHANGED net_buf

Escaped(b) ==
  /\ slip_state = "ESC"
  /\ slip_state' = "NORMAL"
  /\ Store(Unescape(b))
  /\ UNCHANGED got

\* The frame boundary.  The process hands a complete frame to ipv4_input and
\* empties the buffer.
FrameEnd_keeps_overflow(b) ==
  /\ slip_state = "NORMAL" /\ b = "END"
  /\ got' = IF net_buf # <<>> /\ ~slip_overflow THEN Append(got, net_buf) ELSE got
  /\ net_buf' = <<>>
  /\ UNCHANGED <<slip_state, slip_overflow>>
FrameEnd(b) ==
  /\ slip_state = "NORMAL" /\ b = "END"
  /\ got' = IF net_buf # <<>> /\ ~slip_overflow THEN Append(got, net_buf) ELSE got
  /\ net_buf' = <<>>
  /\ slip_overflow' = FALSE
  /\ UNCHANGED slip_state

EscapeStarts(b) ==
  /\ slip_state = "NORMAL" /\ b = "ESC"
  /\ slip_state' = "ESC"
  /\ UNCHANGED <<slip_overflow, net_buf, got>>

Ordinary(b) ==
  /\ slip_state = "NORMAL" /\ b \notin {"END", "ESC"}
  /\ Store(b)
  /\ UNCHANGED <<slip_state, got>>

PollByte ==
  /\ uart # <<>>
  /\ LET b == Head(uart) IN Escaped(b) \/ FrameEnd(b) \/ EscapeStarts(b) \/ Ordinary(b)
  /\ uart' = Tail(uart)
  /\ UNCHANGED <<sent, sends>>

\* tiku_kits_net_ipv4_get_buf, called by every transmission.
GetBuf ==
  /\ sends < Transmits
  /\ net_buf' = <<>>
  /\ sends' = sends + 1
  /\ UNCHANGED <<slip_state, slip_overflow, uart, sent, got>>

Next == (\E pkt \in Frames : PeerSends(pkt)) \/ PollByte \/ GetBuf
Spec == Init /\ [][Next]_vars

(***************************************************************************)
(* Properties.                                                             *)
(***************************************************************************)
\* Every variable keeps its type, and a frame never outgrows net_buf.
TypeOK ==
  /\ slip_state \in {"NORMAL", "ESC"} /\ slip_overflow \in BOOLEAN
  /\ net_buf \in Seq(Bytes) /\ Len(net_buf) <= MTU
  /\ uart \in Seq(Bytes) /\ sent \in Seq(Frames) /\ got \in Seq(Seq(Bytes))
  /\ sends \in 0 .. Transmits

Fits(pkt) == pkt # <<>> /\ Len(pkt) <= MTU
\* Of the first i packets the peer sent, those that fit.
Fitting == Joined([i \in 1 .. Len(sent) |-> IF Fits(sent[i]) THEN <<sent[i]>> ELSE <<>>])

\* The framing is transparent: whatever bytes the packets hold, they come out
\* whole, once and in order while this host does not transmit; a packet larger than net_buf is dropped alone and
\* the decoder is in step again for the next.
Transparent == sends = 0 =>
  LET all == Fitting[Len(sent)] IN
  /\ Len(got) <= Len(all) /\ got = SubSeq(all, 1, Len(got))
  /\ uart = <<>> => got = all /\ net_buf = <<>> /\ slip_state = "NORMAL"

\* The frames the peer sent that fit, without those at the positions D.
Remaining(D) == LET I == {j \in 1 .. Len(sent) : Fits(sent[j]) /\ j \notin D}
                    nth == [n \in 1 .. Cardinality(I) |->
                              CHOOSE j \in I : Cardinality({k \in I : k <= j}) = n]
                IN  [n \in DOMAIN nth |-> sent[nth[n]]]
Within(s, t) == \E f \in [1 .. Len(s) -> 1 .. Len(t)] :
                  /\ \A i, j \in 1 .. Len(s) : i < j => f[i] < f[j]
                  /\ \A i \in 1 .. Len(s) : s[i] = t[f[i]]

\* A transmission in the middle of a frame costs that frame and no other: the
\* decoder finds the next frame again whatever state the loss left it in.
LossIsLocal ==
  uart = <<>> => \E D \in SUBSET (1 .. Len(sent)) : Cardinality(D) <= sends /\ Within(Remaining(D), got)

(***************************************************************************)
(* The inductive invariant: the decoder is never out of step.  Between     *)
(* frames it is as at first; within one, only what it has stored of that   *)
(* frame can be wrong, and is so only after a transmission.                *)
(***************************************************************************)
Bounds == MTU \in Nat /\ Transmits \in Nat /\ EscapeNul \in BOOLEAN /\ Frames \subseteq Seq(Bytes)

\* The bytes of the first k frames, and of the next one as far as byte j.
Wire == Joined([i \in 1 .. Len(sent) |-> Encode(sent[i])])
Upto(k, j) == (Wire[k] \o <<"END">>) \o Body(sent[k + 1])[j]

Between(k) ==
  /\ slip_state = "NORMAL" /\ ~slip_overflow /\ net_buf = <<>>
  /\ Wire[k] \o uart = Wire[Len(sent)]
Inside(k, j) ==
  /\ slip_state = "NORMAL" => Upto(k, j) \o uart = Wire[Len(sent)]
  /\ slip_state = "ESC" =>
       /\ j < Len(sent[k + 1]) /\ Len(Escape(sent[k + 1][j + 1])) = 2
       /\ (Upto(k, j) \o <<"ESC">>) \o uart = Wire[Len(sent)]
Clean(pkt, j) ==
  /\ net_buf = SubSeq(pkt, 1, IF j <= MTU THEN j ELSE MTU)
  /\ slip_overflow <=> j > MTU
\* Of the first k packets, those not in D came out, where and in the order that f says.
Came(i, D, f) ==
  /\ f[i] \in 1 .. Len(got) /\ got[f[i]] = sent[i]
  /\ \A m \in (1 .. i - 1) \ D : Fits(sent[m]) => f[m] < f[i]
CameOut(k, D, f) == \A i \in (1 .. k) \ D : Fits(sent[i]) => Came(i, D, f)
Position(k, D) ==
  \/ Between(k) /\ k + 1 \notin D
  \/ /\ k < Len(sent)
     /\ \E j \in 0 .. Len(sent[k + 1]) : Inside(k, j) /\ (k + 1 \notin D => Clean(sent[k + 1], j))
SlipInv ==
  /\ TypeOK
  /\ \E k \in 0 .. Len(sent) : \E D \in SUBSET (1 .. k + 1), f \in [1 .. k -> 0 .. Len(got)] :
       /\ Cardinality(D) <= sends /\ CameOut(k, D, f)
       /\ sends = 0 => got = Fitting[k]
       /\ Position(k, D)
=============================================================================
