-------------------------------- MODULE Tftp --------------------------------
(***************************************************************************)
(* TFTP client: net/ipv4/tiku_kits_net_tftp.c, with an RFC 1350 server     *)
(* that answers each request from a port (transfer id) of its own.  The    *)
(* network loses, repeats and reorders; a file has Blocks blocks, the last *)
(* one short, and block b of transfer t holds <<t, b>>.                    *)
(***************************************************************************)
EXTENDS Integers, Sequences

CONSTANTS
  Blocks,          \* blocks of every file
  Confusions,      \* directions in which get or put may be called during a transfer
  MaxTransfers,    \* bound: get and put calls that start a transfer
  MaxGiven         \* bound: blocks given to data_cb in one transfer

VARIABLES
  c,        \* the client's static variables
  net,      \* packets sent so far: any of them may arrive, any number of times
  started,  \* transfers started; the current one is the last
  given,    \* what data_cb was given in the current transfer
  stored    \* blocks that the server has stored of each put
vars == <<c, net, started, given, stored>>

Transfers == 1 .. MaxTransfers
\* No transfer is in progress: a packet that arrives is ignored.
Resting == {"IDLE", "COMPLETE", "ERROR"}
Active == {"RRQ_SENT", "WRQ_SENT", "TRANSFERRING", "SENDING"}

\* tiku_kits_net_tftp_init.
Idle == [state |-> "IDLE", evt |-> "NONE", tid |-> 0, block |-> 0, full |-> FALSE,
         dir |-> "get", bound |-> FALSE, data |-> <<0, 0>>]

Init ==
  /\ c = Idle /\ net = {} /\ started = 0 /\ given = <<>>
  /\ stored = [t \in Transfers |-> 0]

Packet(op, tid, block, data) == [op |-> op, tid |-> tid, block |-> block, data |-> data]
Empty == <<0, 0>>
IsFull(b) == b < Blocks

(***************************************************************************)
(* API.  get and put set the callbacks and the direction before            *)
(* start_transfer looks at the state.                                      *)
(***************************************************************************)
Start(dir, ok) ==
  /\ c.state = "IDLE" /\ started < MaxTransfers
  /\ LET request == IF dir = "get" THEN "RRQ" ELSE "WRQ" IN
     IF ok THEN
       /\ c' = [Idle EXCEPT !.state = IF dir = "get" THEN "RRQ_SENT" ELSE "WRQ_SENT", !.full = TRUE,
                            !.bound = TRUE, !.dir = dir]
       /\ started' = started + 1 /\ given' = <<>>
       /\ net' = net \cup {Packet(request, started + 1, 0, Empty)}
     ELSE c' = [c EXCEPT !.dir = dir] /\ UNCHANGED <<net, started, given>>
  /\ UNCHANGED stored

Refused(dir) ==
  /\ c.state # "IDLE"
  /\ c' = [c EXCEPT !.dir = dir]
  /\ UNCHANGED <<net, started, given, stored>>

Abort ==
  /\ c' = [c EXCEPT !.state = "IDLE", !.evt = "NONE", !.bound = FALSE]
  /\ UNCHANGED <<net, started, given, stored>>

Reset ==
  /\ c' = Idle
  /\ UNCHANGED <<net, started, given, stored>>

(***************************************************************************)
(* tftp_recv_cb: a packet from the server.                                 *)
(***************************************************************************)
\* Only the first answer to a request sets the server's transfer id.
FromServer(first, m) == c.state = first \/ m.tid = c.tid

RecvData(m) ==
  /\ m.op = "DATA" /\ FromServer("RRQ_SENT", m)
  /\ c' = [c EXCEPT !.tid = m.tid, !.block = m.block, !.data = m.data, !.full = IsFull(m.block),
                    !.state = "TRANSFERRING", !.evt = "DATA_READY"]
RecvAck(m) ==
  /\ m.op = "ACK" /\ FromServer("WRQ_SENT", m)
  /\ c' = [c EXCEPT !.tid = m.tid, !.block = m.block, !.evt = "ACK_RECV"]
RecvOack(m) ==
  /\ m.op = "OACK"
  /\ c' = [c EXCEPT !.tid = m.tid, !.evt = "OACK_RECV"]
RecvError(m) ==
  /\ m.op = "ERROR"
  /\ c' = [c EXCEPT !.state = "ERROR", !.evt = "ERROR_RECV"]

Receive(m) ==
  /\ c.bound /\ c.state \notin Resting
  /\ RecvData(m) \/ RecvAck(m) \/ RecvOack(m) \/ RecvError(m)
  /\ UNCHANGED <<net, started, given, stored>>

(***************************************************************************)
(* tiku_kits_net_tftp_poll, one action per event; ok: udp_send succeeds.   *)
(***************************************************************************)
Send(m, ok) == net' = IF ok THEN net \cup {m} ELSE net

Finish(s) == [s EXCEPT !.state = "COMPLETE", !.bound = FALSE]

PollData(ok) ==
  /\ c.evt = "DATA_READY" /\ Len(given) < MaxGiven
  /\ LET s == [c EXCEPT !.evt = "NONE"] IN c' = IF c.full THEN s ELSE Finish(s)
  /\ given' = IF c.dir = "get" THEN Append(given, c.data) ELSE given
  /\ Send(Packet("CACK", c.tid, c.block, Empty), ok)
  /\ UNCHANGED <<started, stored>>

\* Block b, as supply_cb fills it, goes out.
SendBlock(b, ok) ==
  /\ c' = [c EXCEPT !.evt = "NONE", !.block = b, !.state = "SENDING", !.full = @ /\ IsFull(b)]
  /\ Send(Packet("CDATA", c.tid, b, <<started, b>>), ok)

PollAck_repeats(ok) ==
  /\ c.evt = "ACK_RECV"
  /\ IF c.dir = "get" THEN c' = [c EXCEPT !.evt = "NONE"] /\ UNCHANGED net
     ELSE IF ~c.full /\ c.state = "SENDING" THEN c' = Finish([c EXCEPT !.evt = "NONE"]) /\ UNCHANGED net
     ELSE SendBlock(c.block, ok)
  /\ UNCHANGED <<started, given, stored>>
PollAck(ok) ==
  /\ c.evt = "ACK_RECV"
  /\ IF c.dir = "get" THEN c' = [c EXCEPT !.evt = "NONE"] /\ UNCHANGED net
     ELSE IF ~c.full /\ c.state = "SENDING" THEN c' = Finish([c EXCEPT !.evt = "NONE"]) /\ UNCHANGED net
     ELSE SendBlock(c.block + 1, ok)
  /\ UNCHANGED <<started, given, stored>>

PollOack(ok) ==
  /\ c.evt = "OACK_RECV"
  /\ IF c.dir = "get"
     THEN /\ c' = [c EXCEPT !.evt = "NONE", !.state = "TRANSFERRING"]
          /\ Send(Packet("CACK", c.tid, 0, Empty), ok)
     ELSE SendBlock(1, ok)
  /\ UNCHANGED <<started, given, stored>>

PollError ==
  /\ c.evt = "ERROR_RECV"
  /\ c' = [c EXCEPT !.evt = "NONE", !.bound = FALSE]
  /\ UNCHANGED <<net, started, given, stored>>

Poll == PollError \/ \E ok \in BOOLEAN : PollData(ok) \/ PollAck(ok) \/ PollOack(ok)

(***************************************************************************)
(* The server.                                                             *)
(***************************************************************************)
\* It may refuse, accept the block size, or begin at once.
ServerBegins(m) ==
  /\ m.op \in {"RRQ", "WRQ"}
  /\ \E reply \in {Packet("ERROR", m.tid, 0, Empty), Packet("OACK", m.tid, 0, Empty),
                   IF m.op = "WRQ" THEN Packet("ACK", m.tid, 0, Empty)
                   ELSE Packet("DATA", m.tid, 1, <<m.tid, 1>>)} :
       net' = net \cup {reply}
  /\ UNCHANGED <<c, started, given, stored>>
ServerSends(m) ==
  /\ m.op = "CACK" /\ m.block < Blocks
  /\ net' = net \cup {Packet("DATA", m.tid, m.block + 1, <<m.tid, m.block + 1>>)}
  /\ UNCHANGED <<c, started, given, stored>>
ServerStores(m) ==
  /\ m.op = "CDATA" /\ m.block = stored[m.tid] + 1
  /\ stored' = [stored EXCEPT ![m.tid] = m.block]
  /\ net' = net \cup {Packet("ACK", m.tid, m.block, Empty)}
  /\ UNCHANGED <<c, started, given>>

Next ==
  \/ \E dir \in {"get", "put"}, ok \in BOOLEAN : Start(dir, ok)
  \/ \E dir \in Confusions \cup {c.dir} : Refused(dir)
  \/ Abort \/ Reset \/ Poll
  \/ \E m \in net : Receive(m) \/ ServerBegins(m) \/ ServerSends(m) \/ ServerStores(m)
Spec == Init /\ [][Next]_vars

(***************************************************************************)
(* Properties.                                                             *)
(***************************************************************************)
\* Every variable keeps its type.
TypeOK ==
  /\ c.state \in Resting \cup Active /\ c.tid \in 0 .. MaxTransfers /\ c.block \in 0 .. Blocks
  /\ c.evt \in {"NONE", "DATA_READY", "ACK_RECV", "OACK_RECV", "ERROR_RECV"}
  /\ c.full \in BOOLEAN /\ c.bound \in BOOLEAN /\ c.dir \in {"get", "put"}
  /\ Len(given) <= MaxGiven /\ \A t \in Transfers : stored[t] \in 0 .. Blocks

\* "One binding slot is consumed for the duration of the transfer": the port is
\* bound exactly while a transfer is active, or an error waits to be polled.
PortHeld == c.bound <=> (c.state \in Active \/ (c.state = "ERROR" /\ c.evt = "ERROR_RECV"))

\* A get that completes has given the application every block of its file, and
\* no other.
GetWhole ==
  c.state = "COMPLETE" /\ c.dir = "get" => {given[i] : i \in DOMAIN given} = {started} \X (1 .. Blocks)

\* What is sent as block b of a put is block b, whatever acknowledgements come
\* late or twice.
BlocksInPlace == \A m \in net : m.op = "CDATA" => m.block \in 1 .. Blocks /\ m.data[2] = m.block
                                                  /\ m.tid \in 1 .. started

\* "If the final short block already went out ... and now received the ACK for
\* it, the transfer is complete": the server has stored the file.
PutComplete == c.state = "COMPLETE" /\ c.dir = "put" => stored[started] = Blocks

(***************************************************************************)
(* An inductive invariant, of one transfer: a packet of an earlier one     *)
(* could be taken for an answer to the next.                               *)
(***************************************************************************)
Bounds == Blocks \in Nat \ {0} /\ MaxTransfers = 1 /\ Confusions = {}
Clients ==
  [state : Resting \union Active, evt : {"NONE", "DATA_READY", "ACK_RECV", "OACK_RECV", "ERROR_RECV"}, tid : Nat,
   block : 0 .. Blocks, full : BOOLEAN, dir : {"get", "put"}, bound : BOOLEAN, data : Nat \X Nat]
Packets ==
  [op : {"RRQ", "WRQ", "DATA", "ACK", "OACK", "ERROR", "CACK", "CDATA"}, tid : {1}, block : 0 .. Blocks,
     data : Nat \X Nat]
Shapes == c \in Clients /\ started \in {0, 1} /\ given \in Seq({1} \X (1 .. Blocks)) /\ net \in SUBSET Packets
\* data_cb has had the blocks up to b.
Taken(b) == \A k \in 1 .. b : \E i \in DOMAIN given : given[i] = <<1, k>>
\* The last block of a put is out: the next ACK ends the transfer.
LastOut == c.state \in Resting \/ (c.state = "SENDING" /\ ~c.full)
\* An ACK is sent for a block that was given, and so the server sends a block only
\* when those before it were; it acknowledges the last block of a put only when
\* that is out.
NetOK ==
  \A m \in net :
    /\ started = 1
    /\ m.op \in {"RRQ", "DATA", "CACK"} => c.dir = "get"
    /\ m.op = "DATA" => m.block # 0 /\ m.data = <<1, m.block>> /\ Taken(m.block - 1)
    /\ m.op = "CACK" => Taken(m.block)
    /\ m.op \in {"ACK", "CDATA"} /\ m.block = Blocks => LastOut
EventOK ==
  /\ c.evt \in {"DATA_READY", "ACK_RECV", "OACK_RECV"} => started = 1 /\ c.tid = 1 /\ c.state \in Active
  /\ c.evt = "DATA_READY" => /\ c.dir = "get" /\ c.block # 0 /\ c.data = <<1, c.block>> /\ c.full = IsFull(c.block)
                             /\ Taken(c.block - 1)
  /\ c.evt = "ACK_RECV" /\ c.block = Blocks => LastOut
  /\ c.evt = "ERROR_RECV" => c.state = "ERROR"
  /\ c.state \in {"SENDING", "WRQ_SENT"} => c.dir = "put"
TftpInv == Shapes /\ NetOK /\ EventOK /\ PortHeld /\ GetWhole /\ BlocksInPlace
=============================================================================
