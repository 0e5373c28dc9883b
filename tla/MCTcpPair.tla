---------------------------- MODULE MCTcpPair ----------------------------
(***************************************************************************)
(* TLC instances of TcpPair.  A behaviour plays one of two scenarios: a    *)
(* stream over a network that loses, repeats and reorders, with nobody     *)
(* closing; or a close from either side over a network that may lose all.  *)
(***************************************************************************)
EXTENDS TcpPair, TLC
OneByte == {<<1>>, <<2>>}

\* One segment in flight each way and one byte to send are enough for every
\* order in which the two closes and their acknowledgments can meet.
Closing == INSTANCE TcpPair WITH
  MAX_RETRIES <- 1, CapA <- 1, CapB <- 1, Duplicates <- FALSE, Closers <- {"A", "B"},
  Payloads <- {<<1>>}, MaxStream <- 1, MaxAccepts <- 1

VARIABLE scenario
StreamStep == scenario = "stream" /\ Next /\ UNCHANGED scenario
CloseStep == scenario = "close" /\ Closing!Next /\ UNCHANGED scenario
MCInit == Init /\ scenario \in {"stream", "close"}
MCSpec ==
  /\ MCInit
  /\ [][StreamStep \/ CloseStep]_<<vars, scenario>>
  /\ WF_vars(scenario = "close" /\ Closing!TickA) /\ WF_vars(scenario = "close" /\ Closing!TickB)

\* The stream scenario alone, for an application that closes.
FinSpec == MCInit /\ scenario = "stream" /\ [][StreamStep]_<<vars, scenario>>

\* A slot in any state but ESTABLISHED is given back: whatever the network
\* loses, the timers of tcp_periodic end every handshake and every close.
SlotReclaimed ==
  /\ (scenario = "close" /\ a.active /\ a.state # 4) ~> (~a.active \/ a.state = 4)
  /\ (scenario = "close" /\ b.active /\ b.state # 4) ~> (~b.active \/ b.state = 4)
=============================================================================
