-------------------------------- MODULE BtGap --------------------------------
(***************************************************************************)
(* Advertising, connecting, links and privacy of net/bluetooth/tiku_bt.c,  *)
(* against a controller that keeps its own idea of each.  Events wait in a *)
(* queue; the runner reads it while some flag says the radio is in use,    *)
(* and a call that awaits a reply reads what came before the reply.  A     *)
(* call checks its flags first, and its commands run when it has waited.   *)
(***************************************************************************)
EXTENDS Integers, Sequences, SequencesExt, FiniteSets

CONSTANTS
  Ext,                   \* ext_commands: the controller has the extended commands
  TIKU_BT_CONN_MAX, BT_CONNECT_RETRIES,
  Handles,               \* the controller's connection handles
  MaxCalls, MaxLinks, MaxRefusals   \* bounds

VARIABLES
  bt,     \* bt_state
  ctl,    \* the controller: advertising and its address, initiating, scanning, links
  q,      \* events
  call,   \* calls that wait for the controller, an event handler's above the one it interrupts
  used    \* counts; asked: the application has had it advertise by name and not stopped it;
          \* missed: completions taken for that of another request, links that found no
          \* slot, commands refused, a stop crossed by a restart, restarts that met a link,
          \* adverts begun with no private address
vars == <<bt, ctl, q, call, used>>

Call(op, type, stops) == [op |-> op, type |-> type, stops |-> stops]
Off == [ready |-> FALSE, advertising |-> FALSE, wanted |-> FALSE, type |-> 0, named |-> FALSE, connecting |-> FALSE,
        retries |-> 0, scanning |-> FALSE, conns |-> {}, rpa_live |-> FALSE, rpa_old |-> FALSE, privacy |-> FALSE]
Quiet == [adv |-> FALSE, type |-> 0, addr |-> "identity", init |-> FALSE, scan |-> FALSE, links |-> {}]
Event(kind, h, x) == [kind |-> kind, h |-> h, x |-> x]
NOT_ESTABLISHED == 62     \* 0x3E
CONNECTABLE == 0          \* advertising types: 0 connectable, 3 beacon

Init ==
  /\ bt = [Off EXCEPT !.ready = TRUE] /\ ctl = Quiet /\ q = <<>> /\ call = <<>>
  /\ used = [calls |-> 0, links |-> 0, refusals |-> 0, missed |-> {}, asked |-> FALSE]

\* What a step works on: the host's and the controller's state, the exceptions met,
\* and whether the controller obeys.
World(ok) == [s |-> bt, c |-> ctl, calls |-> call, missed |-> {}, ok |-> ok]
Obeys == IF used.refusals < MaxRefusals THEN BOOLEAN ELSE {TRUE}
Missed(w, what) == [w EXCEPT !.missed = @ \cup {what}]

(***************************************************************************)
(* bt_rpa_refresh: SET_RANDOM_ADDR is refused while the radio is in use.   *)
(***************************************************************************)
OnAir(c) == c.scan \/ c.init \/ (c.adv /\ ~Ext)
RpaRefresh(w, force) ==
  CASE ~w.s.privacy -> [w EXCEPT !.s.rpa_live = FALSE]
    [] w.s.privacy /\ ~force /\ w.s.rpa_live /\ ~w.s.rpa_old -> w
    [] OTHER -> IF w.ok /\ ~OnAir(w.c) THEN [w EXCEPT !.s.rpa_live = TRUE, !.s.rpa_old = FALSE] ELSE w
\* bt_own_type
OwnAddr(s) == IF s.privacy /\ s.rpa_live THEN "rpa" ELSE "identity"

(***************************************************************************)
(* tiku_bt_advertise_stop, bt_advertise_setup, bt_ext_advertise_setup and  *)
(* bt_advertise_begin.  A call first tells the controller to stop; what    *)
(* follows is done when the reply has come.                                *)
(***************************************************************************)
Busy(s, type) == Ext /\ type = CONNECTABLE /\ s.conns # {}       \* TIKU_BT_ERR_BUSY
Stopped(w) == [w EXCEPT !.s.advertising = FALSE, !.s.wanted = FALSE]
StopReturns(w) == IF w.c.adv THEN Missed(Stopped(w), "crossed") ELSE Stopped(w)
Enable(w, type) ==
  LET v == IF w.s.privacy /\ ~w.s.rpa_live THEN Missed(w, "exposed") ELSE w IN
  [v EXCEPT !.s.advertising = TRUE, !.c.adv = TRUE, !.c.type = type, !.c.addr = OwnAddr(w.s)]
\* The parameters of a legacy advert are refused while it is on.
Setup(w, type) ==
  LET v == RpaRefresh(IF Ext THEN [Stopped(w) EXCEPT !.c.adv = FALSE] ELSE w, FALSE) IN
  IF w.ok /\ ~v.c.adv THEN Enable(v, type) ELSE Missed(v, "refused")
\* stops: the call found the device advertising.
Begin(w, type, stops) ==
  LET v == IF stops THEN [Stopped(w) EXCEPT !.c.adv = FALSE] ELSE w IN
  IF stops /\ Busy(v.s, type) THEN Missed(v, "busy")
  ELSE LET u == Setup(v, type) IN
       IF u.c.adv /\ "refused" \notin u.missed THEN [u EXCEPT !.s.wanted = TRUE, !.s.type = type, !.s.named = TRUE]
         ELSE u
\* tiku_bt_advertise_raw
Raw(w, type, stops) ==
  LET v == Setup(IF stops /\ ~Ext THEN StopReturns(w) ELSE w, type) IN
  IF "refused" \in v.missed THEN v ELSE [v EXCEPT !.s.wanted = FALSE]
\* A call that must wait; unless it is busy the controller stops advertising now.
Disables(s, cl) ==
  \/ cl.op = "stop"
  \/ cl.op = "advertise" /\ (cl.stops \/ ~Busy(s, cl.type))
  \/ cl.op = "raw" /\ (IF Ext THEN ~Busy(s, cl.type) ELSE cl.stops)
Waits(w, cl) == [w EXCEPT !.calls = Append(@, cl), !.c.adv = @ /\ ~Disables(w.s, cl)]

(***************************************************************************)
(* bt_create_connection: the extended command waits for its status, the    *)
(* legacy one is only sent.  bt_connect_again.                             *)
(***************************************************************************)
Create(w) ==
  LET accepted == w.ok /\ ~w.c.init IN
  IF accepted THEN [w EXCEPT !.c.init = TRUE, !.s.connecting = TRUE]
  ELSE IF Ext THEN w ELSE Missed([w EXCEPT !.s.connecting = TRUE], "unseen")
Again(w) ==
  LET v == [w EXCEPT !.s.retries = @ - 1] IN
  CASE w.s.retries = 0 -> w
    [] w.s.retries # 0 /\ Ext -> Waits(v, Call("again", 0, FALSE))
    [] OTHER -> Create(v)
\* The end of the Disconnection Complete handler.
Restart(w) ==
  IF w.s.wanted /\ w.s.named /\ w.s.conns = {} /\ (w.s.advertising \/ ~Busy(w.s, w.s.type))
  THEN Waits(w, Call("advertise", w.s.type, w.s.advertising)) ELSE w

(***************************************************************************)
(* Events: Connection Complete, Advertising Set Terminated, Disconnection  *)
(* Complete, PHY Update Complete.                                          *)
(***************************************************************************)
Link(h, role, phy) == [h |-> h, role |-> role, phy |-> phy, due |-> TRUE]
ConnectionComplete(w, e) ==
  LET role == e.x.role
      other == w.s.connecting /\ (role = 1 \/ w.c.init \/ \E i \in 2 .. Len(q) : q[i].kind = "complete")
      v == [(IF other THEN Missed(w, "mistaken") ELSE w) EXCEPT !.s.connecting = FALSE] IN
  CASE e.x.status # 0 -> IF e.x.status = NOT_ESTABLISHED /\ w.s.connecting THEN Again(v) ELSE v
    [] e.x.status = 0 /\ Cardinality(w.s.conns) = TIKU_BT_CONN_MAX -> Missed(v, "unmanaged")
    [] OTHER -> [v EXCEPT !.s.conns = @ \cup {Link(e.h, role, IF Ext THEN 0 ELSE 1)},
                          !.s.advertising = IF role = 1 THEN FALSE ELSE @]
Disconnection_still(w, e) == [w EXCEPT !.s.conns = {l \in @ : l.h # e.h}]
Disconnection(w, e) ==
  LET known == {l \in w.s.conns : l.h = e.h}
      v == [w EXCEPT !.s.conns = @ \ known]
      retry == e.x = NOT_ESTABLISHED /\ v.s.retries # 0 /\ \E l \in known : l.role = 0 IN
  CASE retry /\ Ext -> Again(Waits(v, Call("restart", 0, FALSE)))
    [] retry /\ ~Ext -> Restart(Again(v))
    [] OTHER -> Restart(v)
PhyUpdate(w, e) == [w EXCEPT !.s.conns = {IF l.h = e.h THEN [l EXCEPT !.phy = e.x] ELSE l : l \in @}]
HandleEvent(w, e) ==
  CASE e.kind = "complete" -> ConnectionComplete(w, e)
    [] e.kind = "terminated" -> [w EXCEPT !.s.advertising = FALSE]
    [] e.kind = "disconnected" -> Disconnection(w, e)
    [] e.kind = "phy" -> PhyUpdate(w, e)

Becomes(w, asked) ==
  /\ bt' = w.s /\ ctl' = w.c /\ call' = w.calls
  /\ used' = [used EXCEPT !.missed = @ \cup w.missed, !.refusals = IF w.ok THEN @ ELSE @ + 1, !.asked = asked]

\* tiku_bt_runner and tiku_bt_poll read events while one of these holds.
InUse(s) == s.scanning \/ s.advertising \/ s.connecting \/ s.conns # {}
Polls == bt.ready /\ InUse(bt)
RxOne ==
  /\ q # <<>> /\ (Polls \/ call # <<>>)
  /\ \E ok \in Obeys : Becomes(HandleEvent(World(ok), Head(q)), used.asked)
  /\ q' = Tail(q)
\* bt_link_update, from the poll that finds no packet: the PHY is read, and 2M asked for.
LinkUpdate ==
  /\ q = <<>> /\ Polls /\ call = <<>>
  /\ \E l \in bt.conns :
       /\ l.due
       /\ LET phy == IF Ext /\ \E k \in ctl.links : k.h = l.h THEN (CHOOSE k \in ctl.links : k.h = l.h).phy ELSE l.phy
              asks == phy = 1 /\ \E k \in ctl.links : k.h = l.h IN
          /\ bt' = [bt EXCEPT !.conns = (@ \ {l}) \cup {[l EXCEPT !.due = FALSE, !.phy = phy]}]
          /\ ctl' = [ctl EXCEPT !.links = {IF k.h = l.h /\ asks THEN [k EXCEPT !.phy = 2] ELSE k : k \in @}]
          /\ q' = IF asks THEN <<Event("phy", l.h, 2)>> ELSE <<>>
  /\ UNCHANGED <<call, used>>

(***************************************************************************)
(* API calls.  The checks are made when the call starts, the rest when the *)
(* events before its reply are handled.                                    *)
(***************************************************************************)
Starts(op, type) ==
  /\ call = <<>> /\ used.calls < MaxCalls
  /\ LET w == Waits(World(TRUE), Call(op, type, bt.advertising)) IN call' = w.calls /\ ctl' = w.c
  /\ used' = [used EXCEPT !.calls = @ + 1] /\ UNCHANGED <<bt, q>>
Advertise(type) == bt.ready /\ (bt.advertising \/ ~Busy(bt, type)) /\ Starts("advertise", type)
AdvertiseRaw(type) == bt.ready /\ ~Busy(bt, type) /\ Starts("raw", type)
AdvertiseStop == bt.ready /\ Starts("stop", 0)
ConnectTo == bt.ready /\ ~bt.connecting /\ Cardinality(bt.conns) < TIKU_BT_CONN_MAX /\ Starts("connect", 0)
ScanStart == bt.ready /\ Starts("scan", 0)
ScanStop == bt.ready /\ Starts("scan_stop", 0)
SetPrivacy(on) == bt.ready /\ Starts("privacy", on)
Shutdown == bt.ready /\ Starts("shutdown", 0)
PowerOn == ~bt.ready /\ Starts("init", 0)
\* tiku_bt_runner: the private address is old, and the advert starts again under a new one.
Readvertise ==
  /\ q = <<>> /\ call = <<>> /\ Polls
  /\ bt.privacy /\ bt.rpa_live /\ bt.rpa_old /\ bt.advertising /\ bt.wanted /\ bt.named
  /\ LET w == Waits(World(TRUE), Call("advertise", bt.type, TRUE)) IN call' = w.calls /\ ctl' = w.c
  /\ UNCHANGED <<bt, q, used>>

\* tiku_bt_set_privacy
ChangePrivacy(w, on) ==
  LET v == [w EXCEPT !.s.privacy = on = 1, !.s.rpa_live = @ /\ on # 1]
      u == CASE v.s.advertising /\ v.s.wanted /\ v.s.named -> Begin(v, v.s.type, TRUE)
             [] ~v.s.advertising /\ ~v.s.scanning /\ ~v.s.connecting -> RpaRefresh(v, TRUE)
             [] OTHER -> v IN
  IF on = 1 /\ ~u.s.rpa_live /\ ~u.s.scanning /\ ~u.s.connecting THEN [u EXCEPT !.s.privacy = FALSE]
  ELSE IF on = 1 /\ u.c.adv /\ u.c.addr # "rpa" THEN Missed(u, "exposed") ELSE u
Does(w, cl) ==
  CASE cl.op = "advertise" -> Begin(w, cl.type, cl.stops)
    [] cl.op = "raw" -> Raw(w, cl.type, cl.stops)
    [] cl.op = "stop" -> StopReturns(w)
    [] cl.op = "again" -> Create(w)
    [] cl.op = "restart" -> Restart(w)
    [] cl.op = "connect" -> Create(RpaRefresh([w EXCEPT !.s.retries = BT_CONNECT_RETRIES], FALSE))
    [] cl.op = "scan" -> LET v == RpaRefresh([w EXCEPT !.s.scanning = FALSE, !.c.scan = FALSE], FALSE) IN
                         IF w.ok THEN [v EXCEPT !.s.scanning = TRUE, !.c.scan = TRUE] ELSE v
    [] cl.op = "scan_stop" -> [w EXCEPT !.s.scanning = FALSE, !.c.scan = FALSE]
    [] cl.op = "privacy" -> ChangePrivacy(w, cl.type)
    [] cl.op = "shutdown" -> [w EXCEPT !.s = [Off EXCEPT !.privacy = w.s.privacy, !.type = w.s.type,
         !.retries = w.s.retries], !.c = Quiet]
    [] cl.op = "init" -> [w EXCEPT !.s.ready = TRUE]
Returns ==
  /\ call # <<>> /\ q = <<>>
  /\ \E ok \in Obeys :
       LET w == Does([World(ok) EXCEPT !.calls = Front(@)], Last(call)) IN
       Becomes(w, w.s.wanted \/ (used.asked /\ Last(call).op \notin {"stop", "raw", "shutdown"}))
  /\ UNCHANGED q
\* tiku_bt_disconnect is sent and not awaited; the controller drops the link later.

(***************************************************************************)
(* The controller and the peers.                                           *)
(***************************************************************************)
FreeHandles == Handles \ ({l.h : l \in ctl.links} \cup {q[i].h : i \in DOMAIN q})
Complete(h, role, status) == Event("complete", h, [role |-> role, status |-> status])
CtlAccepts(h) ==
  /\ ctl.adv /\ ctl.type = CONNECTABLE /\ used.links < MaxLinks
  /\ ctl' = [ctl EXCEPT !.adv = FALSE, !.links = @ \cup {[h |-> h, role |-> 1, phy |-> 1]}]
  /\ q' = q \o <<Complete(h, 1, 0)>> \o IF Ext THEN <<Event("terminated", 0, 0)>> ELSE <<>>
  /\ used' = [used EXCEPT !.links = @ + 1] /\ UNCHANGED <<bt, call>>
CtlEstablishes(h) ==
  /\ ctl.init /\ used.links < MaxLinks
  /\ ctl' = [ctl EXCEPT !.init = FALSE, !.links = @ \cup {[h |-> h, role |-> 0, phy |-> 1]}]
  /\ q' = Append(q, Complete(h, 0, 0))
  /\ used' = [used EXCEPT !.links = @ + 1] /\ UNCHANGED <<bt, call>>
CtlFails ==
  /\ ctl.init
  /\ ctl' = [ctl EXCEPT !.init = FALSE]
  /\ q' = Append(q, Complete(0, 0, NOT_ESTABLISHED)) /\ UNCHANGED <<bt, call, used>>
CtlDrops(l, reason) ==
  /\ reason = NOT_ESTABLISHED => l.role = 0
  /\ ctl' = [ctl EXCEPT !.links = @ \ {l}]
  /\ q' = Append(q, Event("disconnected", l.h, reason)) /\ UNCHANGED <<bt, call, used>>
RpaExpires ==
  /\ bt.rpa_live /\ ~bt.rpa_old
  /\ bt' = [bt EXCEPT !.rpa_old = TRUE] /\ UNCHANGED <<ctl, q, call, used>>

Next ==
  \/ RxOne \/ LinkUpdate \/ Readvertise \/ Returns \/ RpaExpires
  \/ \E type \in {CONNECTABLE, 3} : Advertise(type) \/ AdvertiseRaw(type)
  \/ AdvertiseStop \/ ConnectTo \/ ScanStart \/ ScanStop \/ Shutdown \/ PowerOn \/ CtlFails
  \/ \E on \in {0, 1} : SetPrivacy(on)
  \/ \E h \in FreeHandles : CtlAccepts(h) \/ CtlEstablishes(h)
  \/ \E l \in ctl.links, reason \in {19, NOT_ESTABLISHED} : CtlDrops(l, reason)
Spec == Init /\ [][Next]_vars

(***************************************************************************)
(* Properties.                                                             *)
(***************************************************************************)
Settled == q = <<>> /\ call = <<>> /\ bt.ready
\* tiku_bt_runner: no event is left unread.  Once all are read, the flags say what the
\* controller does, and the connection table holds its links with their PHYs.  Excepted:
\* an inbound link that arrives while a connection is being made clears `connecting`, a
\* legacy create command may be refused unseen, a link may find the table full, and the
\* restart after a link's end may come between a stop and its reply.
InStep ==
  /\ q # <<>> => Polls \/ call # <<>> \/ used.missed \cap {"mistaken", "unmanaged", "crossed"} # {}
  /\ Settled =>
       /\ "crossed" \notin used.missed => bt.advertising = ctl.adv
       /\ bt.scanning = ctl.scan
       /\ (used.missed \cap {"mistaken", "unseen", "unmanaged"} = {}) => bt.connecting = ctl.init
       /\ "unmanaged" \notin used.missed =>
            /\ {l.h : l \in bt.conns} = {k.h : k \in ctl.links}
            /\ \A l \in bt.conns, k \in ctl.links : l.h = k.h => l.role = k.role /\ (~l.due => l.phy = k.phy)

\* adv_wanted, "1 from a start until a stop": a device that advertises by name does so
\* again when its last link is gone.  Excepted: the controller refused a command, or a
\* restart met a link that had just come.  And with privacy on it shows no identity
\* address, unless no private one could be made when the advert began.
VisibleAgain ==
  Settled =>
    /\ used.asked /\ bt.conns = {} /\ used.missed \cap {"refused", "busy", "unmanaged"} = {} => bt.advertising
    /\ bt.privacy /\ ctl.adv /\ "exposed" \notin used.missed => ctl.addr = "rpa"
=============================================================================
