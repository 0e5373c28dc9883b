-------------------------------- MODULE BtHci --------------------------------
(***************************************************************************)
(* The HCI transport of net/bluetooth/tiku_bt.c: commands and their        *)
(* replies, the nesting of waits, ACL credits, fragments and reassembly.   *)
(* A handler that waits for the controller takes the packets that arrive   *)
(* meanwhile, and their handlers may wait in turn: `stack` holds the calls *)
(* in progress, the application's at the bottom, one packet's handler      *)
(* above another.                                                          *)
(***************************************************************************)
EXTENDS Integers, Sequences, SequencesExt, FiniteSets

CONSTANTS
  BT_RX_DEPTH, BT_STASH_N,
  BT_L2CAP_MAX,    \* largest PDU that is reassembled
  FRAG,            \* what one ACL packet carries: bt_acl_frag_max
  NONE,            \* an empty slot of the stash
  AclNum,          \* ACL buffers of the controller
  Calls, Plans,    \* what an API call, and what a handler may do: sequences of steps
  MaxCalls, MaxEvents, MaxOthers   \* bounds: API calls, events; packets during one wait

VARIABLES
  stack,   \* calls in progress: what each has left to do, and how far its first step is
  hci,     \* stash, its next slot, ACL packets in flight; commands and PDUs so far,
           \* and the PDUs that another was sent in the middle of
  in,      \* packets from the controller
  ctl,     \* commands and ACL packets the controller holds
  peer,    \* reassembly at the other end, and the PDUs it has dispatched
  used     \* calls and events so far; late: a wait has timed out; mixed: opcodes issued again
           \* before the reply to the last came; wrong: opcodes that were given a reply not theirs
vars == <<stack, hci, in, ctl, peer, used>>

(***************************************************************************)
(* Steps: a command to wait for, or a PDU of some length to send.          *)
(***************************************************************************)
Cmd(op) == [do |-> "cmd", op |-> op, len |-> 0]
Send(len) == [do |-> "send", op |-> "", len |-> len]
\* id: the command sent (0: not yet); off: what of the PDU is sent; pdu: its number.
Call(plan, handler) == [todo |-> plan, handler |-> handler, id |-> 0, off |-> 0, pdu |-> 0, others |-> 0]

Reply(op, id) == [kind |-> "reply", op |-> op, id |-> id, plan |-> <<>>]
Event(plan) == [kind |-> "event", op |-> "", id |-> 0, plan |-> plan]
Completed == [kind |-> "completed", op |-> "", id |-> 0, plan |-> <<>>]

Init ==
  /\ stack = <<>> /\ in = <<>>
  /\ ctl = [cmds |-> <<>>, acl |-> <<>>]
  /\ hci = [stash |-> [i \in 1 .. BT_STASH_N |-> NONE], next |-> 1, inflight |-> 0, sent |-> 0, pdus |-> 0, cut |-> {}]
  /\ peer = [need |-> 0, buf |-> <<>>, got |-> <<>>]
  /\ used = [calls |-> 0, events |-> 0, late |-> FALSE, mixed |-> {}, wrong |-> {}]

Top == Last(stack)
Step == Head(Top.todo)
\* bt_rx_depth: packets being handled.
depth == Cardinality({i \in DOMAIN stack : stack[i].handler})
\* bt_waiting: command waits in progress.
waiting == Cardinality({i \in DOMAIN stack : stack[i].id # 0})
Outstanding == {stack[i].id : i \in DOMAIN stack} \ {0}
\* The first step of the innermost call is done; a handler with nothing left returns.
StepDone ==
  SelectSeq(Front(stack) \o <<Call(Tail(Top.todo), Top.handler)>>, LAMBDA c : c.todo # <<>>)

(***************************************************************************)
(* bt_hci_cmd_response and bt_hci_cmd_status.                              *)
(***************************************************************************)
Awaits(s) == {i \in DOMAIN hci.stash : hci.stash[i] # NONE /\ hci.stash[i].op = s.op}
\* Opcodes that a wait is in progress for, or whose reply is still to come.
Unanswered ==
  {p.op : p \in Range(ctl.cmds) \cup Range(in)} \cup {Head(f.todo).op : f \in {g \in Range(stack) : g.id # 0}}
\* bt_stash_drop, the send, bt_waiting++.
IssueCommand ==
  /\ stack # <<>> /\ Step.do = "cmd" /\ Top.id = 0
  /\ hci' = [hci EXCEPT !.stash = [i \in DOMAIN @ |-> IF i \in Awaits(Step) THEN NONE ELSE @[i]],
                        !.sent = @ + 1]
  /\ ctl' = [ctl EXCEPT !.cmds = Append(@, Reply(Step.op, hci.sent + 1))]
  /\ stack' = Front(stack) \o <<[Top EXCEPT !.id = hci.sent + 1]>>
  /\ used' = [used EXCEPT !.mixed = IF Step.op \in Unanswered THEN @ \cup {Step.op} ELSE @]
  /\ UNCHANGED <<in, peer>>
Ends(id) == used' = [used EXCEPT !.wrong = @ \cup IF id = Top.id THEN {} ELSE {Step.op}]
\* bt_stash_take, after every bt_rx_one.
TakeStashed ==
  /\ stack # <<>> /\ Top.id # 0 /\ Awaits(Step) # {}
  /\ LET i == CHOOSE i \in Awaits(Step) : \A j \in Awaits(Step) : i <= j IN
     /\ Ends(hci.stash[i].id)
     /\ hci' = [hci EXCEPT !.stash[i] = NONE]
  /\ stack' = StepDone
  /\ UNCHANGED <<in, ctl, peer>>
\* No packet for 200 polls, none at all at the deepest nesting, or too many others.
Idle == in = <<>> \/ depth >= BT_RX_DEPTH
TimeOut ==
  /\ stack # <<>> /\ Top.id # 0 /\ Awaits(Step) = {}
  /\ Idle \/ Top.others >= MaxOthers
  /\ stack' = StepDone
  /\ used' = [used EXCEPT !.late = TRUE]
  /\ UNCHANGED <<hci, in, ctl, peer>>

(***************************************************************************)
(* bt_send_acl: one packet of the PDU for each free buffer.                *)
(***************************************************************************)
Starved == AclNum # 0 /\ hci.inflight >= AclNum
\* PDUs of which a part is sent; a handler's answer that starts now comes between the parts.
Open == {stack[i].pdu : i \in DOMAIN stack} \ {0}
SendFragment ==
  /\ stack # <<>> /\ Step.do = "send" /\ ~Starved
  /\ LET pdu == IF Top.off = 0 THEN hci.pdus + 1 ELSE Top.pdu
         n == IF Step.len - Top.off > FRAG THEN FRAG ELSE Step.len - Top.off IN
     /\ ctl' = [ctl EXCEPT !.acl = Append(@, [start |-> Top.off = 0, whole |-> Step.len,
                                              data |-> [k \in 1 .. n |-> <<pdu, Step.len, Top.off + k>>]])]
     /\ hci' = [hci EXCEPT !.inflight = @ + 1, !.pdus = IF Top.off = 0 THEN pdu ELSE @,
                           !.cut = IF Top.off = 0 THEN @ \cup Open ELSE @]
     /\ stack' = IF Top.off + n = Step.len THEN StepDone
                 ELSE Front(stack) \o <<[Top EXCEPT !.off = @ + n, !.pdu = pdu]>>
  /\ UNCHANGED <<in, peer, used>>
\* bt_acl_credit_wait: "no buffer freed in 1 s, count reset".
CreditReset ==
  /\ stack # <<>> /\ Step.do = "send" /\ Starved /\ Idle
  /\ hci' = [hci EXCEPT !.inflight = 0]
  /\ UNCHANGED <<stack, in, ctl, peer, used>>

(***************************************************************************)
(* bt_rx_one: called by a command wait, a credit wait and tiku_bt_poll.    *)
(***************************************************************************)
Polling == stack # <<>> => IF Step.do = "cmd" THEN Top.id # 0 /\ Awaits(Step) = {} ELSE Starved
Counted == IF stack = <<>> THEN <<>> ELSE Front(stack) \o <<[Top EXCEPT !.others = @ + 1]>>
Stashed_beyond_next(p) == [hci EXCEPT !.stash[1] = p]
Stashed(p) == [hci EXCEPT !.stash[hci.next] = p, !.next = (@ % BT_STASH_N) + 1]
\* HCI_EVT_NUM_COMPLETED_PACKETS: never below zero.
Credit == [hci EXCEPT !.inflight = IF @ <= 1 THEN 0 ELSE @ - 1]
RxOne ==
  /\ Polling /\ depth < BT_RX_DEPTH /\ in # <<>> /\ (stack # <<>> => Top.others < MaxOthers)
  /\ in' = Tail(in)
  /\ LET p == Head(in)
         mine == stack # <<>> /\ Top.id # 0 /\ p.kind = "reply" /\ p.op = Step.op IN
     \/ mine /\ Ends(p.id) /\ stack' = StepDone /\ UNCHANGED <<hci, ctl, peer>>
     \/ /\ ~mine /\ p.kind = "reply" /\ waiting # 0
        /\ hci' = Stashed(p) /\ stack' = Counted /\ UNCHANGED <<ctl, peer, used>>
     \/ /\ ~mine /\ p.kind = "reply" /\ waiting = 0
        /\ stack' = Counted /\ UNCHANGED <<hci, ctl, peer, used>>
     \/ /\ p.kind = "completed"
        /\ hci' = Credit /\ stack' = Counted /\ UNCHANGED <<ctl, peer, used>>
     \/ /\ p.kind = "event"
        /\ stack' = IF p.plan = <<>> THEN Counted ELSE Append(Counted, Call(p.plan, TRUE))
        /\ UNCHANGED <<hci, ctl, peer, used>>
\* An API call from the application: nothing else is in progress.
ApiCall(plan) ==
  /\ stack = <<>> /\ plan # <<>> /\ used.calls < MaxCalls
  /\ stack' = <<Call(plan, FALSE)>>
  /\ used' = [used EXCEPT !.calls = @ + 1]
  /\ UNCHANGED <<hci, in, ctl, peer>>

(***************************************************************************)
(* bt_handle_acl_pkt at the other end, which runs the same code.           *)
(***************************************************************************)
HandleAclPkt(c, p) ==
  LET have == c.buf \o p.data IN
  CASE ~p.start /\ c.need = 0 -> c
    [] ~p.start /\ c.need # 0 /\ Len(have) > c.need -> [c EXCEPT !.need = 0]
    [] ~p.start /\ Len(have) = c.need -> [c EXCEPT !.need = 0, !.got = Append(@, have)]
    [] ~p.start /\ Len(have) < c.need -> [c EXCEPT !.buf = have]
    [] p.start /\ p.whole <= Len(p.data) -> [c EXCEPT !.need = 0, !.got = Append(@, p.data)]
    [] p.start /\ p.whole > Len(p.data) /\ p.whole > BT_L2CAP_MAX -> [c EXCEPT !.need = 0]
    [] OTHER -> [c EXCEPT !.need = p.whole, !.buf = p.data]
(***************************************************************************)
(* The controller: answers commands in order and whenever it likes, sends  *)
(* ACL packets and reports them, raises events.                            *)
(***************************************************************************)
CtlReplies ==
  /\ ctl.cmds # <<>>
  /\ in' = Append(in, Head(ctl.cmds)) /\ ctl' = [ctl EXCEPT !.cmds = Tail(@)]
  /\ UNCHANGED <<stack, hci, peer, used>>
CtlSends ==
  /\ ctl.acl # <<>>
  /\ peer' = HandleAclPkt(peer, Head(ctl.acl))
  /\ in' = Append(in, Completed) /\ ctl' = [ctl EXCEPT !.acl = Tail(@)]
  /\ UNCHANGED <<stack, hci, used>>
CtlEvent(plan) ==
  /\ used.events < MaxEvents
  /\ in' = Append(in, Event(plan)) /\ used' = [used EXCEPT !.events = @ + 1]
  /\ UNCHANGED <<stack, hci, ctl, peer>>

Next ==
  \/ IssueCommand \/ TakeStashed \/ TimeOut \/ SendFragment \/ CreditReset \/ RxOne
  \/ CtlReplies \/ CtlSends
  \/ \E plan \in Calls : ApiCall(plan)
  \/ \E plan \in Plans : CtlEvent(plan)
Spec == Init /\ [][Next]_vars

(***************************************************************************)
(* Properties.                                                             *)
(***************************************************************************)
\* "the outer one finds its own": a reply that was taken in for a wait in progress is
\* in the stash, however deep the waits are nested; until a wait has timed out, whose
\* late reply may push another out, or one opcode is waited for twice.
RepliesAreKept ==
  used.late \/ used.mixed # {} \/
               LET ahead == {ctl.cmds[i].id : i \in DOMAIN ctl.cmds}
                            \cup {in[i].id : i \in DOMAIN in}
                            \cup {hci.stash[i].id : i \in {j \in DOMAIN hci.stash : hci.stash[j] # NONE}} IN
               Outstanding \subseteq ahead

\* A wait ends with the reply to its own command, unless two commands with the
\* same opcode were outstanding together or a timed-out one was issued again.
OwnReply == used.wrong \subseteq used.mixed

\* Every PDU the other end dispatches is one that was sent, whole; and it dispatches
\* every one that was sent, except those a handler's answer came in the middle of.
WholePdus ==
  /\ \A i \in DOMAIN peer.got : \E pdu \in 1 .. hci.pdus :
       peer.got[i] = [k \in 1 .. Len(peer.got[i]) |-> <<pdu, Len(peer.got[i]), k>>]
  /\ ctl.acl = <<>> => 1 .. hci.pdus \subseteq hci.cut \cup Open \cup {peer.got[i][1][1] : i \in DOMAIN peer.got}
=============================================================================
