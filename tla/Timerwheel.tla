------------------------------ MODULE Timerwheel ------------------------------
(***************************************************************************)
(* ds/timerwheel: a fixed table of one-shot and periodic timers.  tick()   *)
(* marks the timers that are due and expired() collects them; between the  *)
(* two the application may add and cancel.  `tw` is the struct; the tick   *)
(* counter has TickSpace values (2^16).                                    *)
(***************************************************************************)
EXTENDS Integers, FiniteSets, SequencesExt, FiniteSetTheorems, TLAPS

CONSTANTS MAX_TIMERS, TickSpace, Delays, Intervals
VARIABLES
  tw,
  due,      \* ticks until each timer is to fire, counted from the calls made
  missed,   \* slots whose firing a second tick() overtook
  ids       \* what the last expired() wrote
vars == <<tw, due, missed, ids>>

Slots == 0..MAX_TIMERS - 1
Unused == [deadline |-> 0, interval |-> 0, id |-> 0, active |-> FALSE]
Fresh == [timers |-> [i \in Slots |-> Unused], current_tick |-> 0, num_active |-> 0, fired |-> {}]

Init == tw = Fresh /\ due = [i \in Slots |-> 0] /\ missed = {} /\ ids = {}
reset == tw' = Fresh /\ due' = [i \in Slots |-> 0] /\ missed' = {} /\ ids' = {}

\* The first free slot; with none add returns ERR_FULL.
add(delay, interval) ==
  \E i \in Slots :
    /\ ~tw.timers[i].active /\ \A j \in 0..i - 1 : tw.timers[j].active
    /\ tw' = [tw EXCEPT
         !.timers[i] = [deadline |-> (tw.current_tick + delay) % TickSpace, interval |-> interval,
                        id |-> i + 1, active |-> TRUE],
         !.num_active = @ + 1]
    /\ due' = [due EXCEPT ![i] = delay] /\ missed' = missed \ {i} /\ UNCHANGED ids

\* The mutant forgets a firing that has not been collected.
cancel_keeps_fired(id) ==
  /\ id \in 1..MAX_TIMERS /\ tw.timers[id - 1].active /\ tw.timers[id - 1].id = id
  /\ tw' = [tw EXCEPT !.timers[id - 1].active = FALSE, !.timers[id - 1].id = 0, !.num_active = @ - 1]
  /\ UNCHANGED <<due, missed, ids>>
cancel(id) ==
  /\ id \in 1..MAX_TIMERS /\ tw.timers[id - 1].active /\ tw.timers[id - 1].id = id
  /\ tw' = [tw EXCEPT !.timers[id - 1].active = FALSE, !.timers[id - 1].id = 0, !.num_active = @ - 1,
                      !.fired = @ \ {id - 1}]
  /\ UNCHANGED <<due, missed, ids>>

tick ==
  LET now == (tw.current_tick + 1) % TickSpace
  IN /\ tw' = [tw EXCEPT !.current_tick = now,
                         !.fired = {i \in Slots : tw.timers[i].active /\ tw.timers[i].deadline = now}]
     /\ missed' = missed \cup tw.fired
     /\ due' = [i \in Slots |-> IF due[i] > 0 THEN due[i] - 1 ELSE 0]
     /\ UNCHANGED ids

\* Collect: a one-shot timer is freed, a periodic one is set again.  Only the
\* first max_ids of the fired slots are written to the caller's array.
Collected(i) ==
  IF tw.timers[i].interval = 0 THEN [tw.timers[i] EXCEPT !.active = FALSE, !.id = 0]
  ELSE [tw.timers[i] EXCEPT !.deadline = (@ + tw.timers[i].interval) % TickSpace]
expired(max_ids) ==
  LET order == SetToSortSeq(tw.fired, <)
      once == {i \in tw.fired : tw.timers[i].interval = 0}
  IN /\ ids' = {tw.timers[order[n]].id : n \in {m \in DOMAIN order : m <= max_ids}}
     /\ tw' = [tw EXCEPT !.timers = [i \in Slots |-> IF i \in tw.fired THEN Collected(i) ELSE @[i]],
                         !.num_active = @ - Cardinality(once), !.fired = {}]
     /\ due' = [i \in Slots |-> IF i \in tw.fired THEN tw.timers[i].interval ELSE due[i]]
     /\ missed' = missed \ tw.fired

Next ==
  \/ reset \/ tick
  \/ \E d \in Delays, n \in Intervals : add(d, n)
  \/ \E id \in 0..MAX_TIMERS : cancel(id)
  \/ \E m \in 0..MAX_TIMERS : expired(m)
Spec == Init /\ [][Next]_vars

(***************************************************************************)
(* Properties.                                                             *)
(***************************************************************************)
Running(i) == tw.timers[i].active /\ i \notin missed

\* A timer is marked as fired in the very tick its delay or interval ends and
\* at no other time, whatever was added, cancelled or reused between tick() and
\* expired(), with the counter anywhere in its range.
FiresOnTime ==
  /\ \A i \in Slots : Running(i) => (i \in tw.fired <=> due[i] = 0)
  /\ tw.fired \subseteq {i \in Slots : tw.timers[i].active}
  /\ tw.num_active = Cardinality({i \in Slots : tw.timers[i].active})

(***************************************************************************)
(* Proofs: FiresOnTime, for every number of timers and size of the         *)
(* counter.  No delay or interval is as long as one turn of the counter    *)
(* (both are 16 bits wide, as the counter is), and add() refuses a delay   *)
(* of 0.                                                                   *)
(***************************************************************************)
Bounds ==
  /\ MAX_TIMERS \in Nat /\ TickSpace \in Nat \ {0}
  /\ Delays \subseteq 1..TickSpace - 1 /\ Intervals \subseteq 0..TickSpace - 1

Ticks == 0..TickSpace - 1
Timers == [deadline : Ticks, interval : Ticks, id : Nat, active : BOOLEAN]
Wheels == [timers : [Slots -> Timers], current_tick : Ticks, num_active : Int, fired : SUBSET Slots]
Active == {i \in Slots : tw.timers[i].active}
TypesOK == tw \in Wheels /\ due \in [Slots -> Ticks] /\ missed \in SUBSET Slots

\* A timer that fires is due in this tick, and a running one in `due` ticks.
FiredOK == \A i \in tw.fired : tw.timers[i].active /\ tw.timers[i].deadline = tw.current_tick
DueOK ==
  \A i \in Slots : Running(i) =>
    /\ tw.timers[i].deadline = (tw.current_tick + due[i]) % TickSpace
    /\ i \in tw.fired <=> due[i] = 0
WheelInv == TypesOK /\ FiredOK /\ DueOK /\ tw.num_active = Cardinality(Active)

(***************************************************************************)
(* Counting ticks round a counter of c values.                             *)
(***************************************************************************)
\* What % does to an index that has not passed the end.
LEMMA ModBelow == ASSUME NEW c \in Nat \ {0}, NEW x \in 0..c - 1 PROVE x % c = x
  BY SMT
\* And to one that has passed it once.
LEMMA ModWrap == ASSUME NEW c \in Nat \ {0}, NEW x \in c..2 * c - 1 PROVE x % c = x - c
  BY SMT
\* The tick d ticks from tick t.
LEMMA Later ==
  ASSUME NEW c \in Nat \ {0}, NEW t \in 0..c - 1, NEW d \in 0..c - 1
  PROVE  /\ (t + d) % c = IF t + d < c THEN t + d ELSE t + d - c
         /\ (t + d) % c \in 0..c - 1
  <1>1. CASE t + d < c
    <2>1. t + d \in 0..c - 1
      BY <1>1
    <2>2. (t + d) % c = t + d
      BY <2>1, ModBelow
    <2> QED
      BY <1>1, <2>1, <2>2
  <1>2. CASE t + d >= c
    <2>1. t + d \in c..2 * c - 1
      BY <1>2
    <2>2. (t + d) % c = t + d - c
      BY <2>1, ModWrap
    <2> QED
      BY <1>2, <2>1, <2>2
  <1> QED
    BY <1>1, <1>2

\* The next tick, also of a counter with one value.
LEMMA NextTick ==
  ASSUME NEW c \in Nat \ {0}, NEW t \in 0..c - 1
  PROVE  /\ (t + 1) % c = IF t + 1 < c THEN t + 1 ELSE 0
         /\ (t + 1) % c \in 0..c - 1
  <1>1. CASE c = 1
    <2>1. t + 1 \in c..2 * c - 1
      BY <1>1
    <2>2. (t + 1) % c = t + 1 - c
      BY <2>1, ModWrap
    <2> QED
      BY <1>1, <2>2
  <1>2. CASE c # 1
    <2>1. 1 \in 0..c - 1
      BY <1>2
    <2>2. (t + 1) % c = (IF t + 1 < c THEN t + 1 ELSE t + 1 - c) /\ (t + 1) % c \in 0..c - 1
      BY <2>1, Later
    <2> QED
      BY <2>2
  <1> QED
    BY <1>1, <1>2

\* A deadline d ticks ahead is d - 1 ticks ahead of the next tick, and is the
\* next tick only for d = 1.
LEMMA OneTick ==
  ASSUME NEW c \in Nat \ {0}, NEW t \in 0..c - 1, NEW d \in 1..c - 1, NEW now, now = (t + 1) % c
  PROVE  /\ (t + d) % c = (now + (d - 1)) % c
         /\ (t + d) % c = now <=> d = 1
  <1>1. now = (IF t + 1 < c THEN t + 1 ELSE 0) /\ now \in 0..c - 1
    BY NextTick
  <1>2. PICK x : x = (t + d) % c
    OBVIOUS
  <1>3. x = IF t + d < c THEN t + d ELSE t + d - c
    BY <1>2, Later, d \in 0..c - 1
  <1>4. PICK y : y = (now + (d - 1)) % c
    OBVIOUS
  <1>5. y = IF now + (d - 1) < c THEN now + (d - 1) ELSE now + (d - 1) - c
    BY <1>1, <1>4, Later, d - 1 \in 0..c - 1
  <1>6. x = y /\ (x = now <=> d = 1)
    BY <1>1, <1>3, <1>5
  <1> QED
    BY <1>2, <1>4, <1>6, Zenon

(***************************************************************************)
(* Every call keeps the invariant.                                         *)
(***************************************************************************)
\* The active timers are finitely many.
LEMMA ActiveFinite == ASSUME Bounds PROVE IsFiniteSet(Slots) /\ IsFiniteSet(Active)
  <1>1. IsFiniteSet(Slots)
    BY FS_Interval, MAX_TIMERS - 1 \in Int DEF Bounds, Slots
  <1> QED
    BY <1>1, FS_Subset, Active \in SUBSET Slots DEF Active

\* The wheel after init or reset.
LEMMA FreshKeeps ==
  ASSUME Bounds
  PROVE  /\ Fresh \in Wheels /\ Fresh.fired = {} /\ Fresh.num_active = 0
         /\ \A i \in Slots : ~Fresh.timers[i].active
         /\ [i \in Slots |-> 0] \in [Slots -> Ticks]
  <1>1. 0 \in Ticks
    BY DEF Bounds, Ticks
  <1>2. Unused \in Timers /\ Unused.active = FALSE
    BY <1>1 DEF Unused, Timers
  <1> QED
    BY <1>1, <1>2 DEF Fresh, Wheels

\* add: the new timer was in no set, and is due in its delay.
LEMMA AddKeeps ==
  ASSUME Bounds, WheelInv, NEW delay \in Delays, NEW interval \in Intervals, add(delay, interval)
  PROVE  WheelInv'
  <1>1. PICK s \in Slots :
          /\ ~tw.timers[s].active
          /\ tw' = [tw EXCEPT
               !.timers[s] = [deadline |-> (tw.current_tick + delay) % TickSpace, interval |-> interval,
                              id |-> s + 1, active |-> TRUE],
               !.num_active = @ + 1]
          /\ due' = [due EXCEPT ![s] = delay] /\ missed' = missed \ {s}
    BY DEF add
  <1>2. PICK r : r = [deadline |-> (tw.current_tick + delay) % TickSpace, interval |-> interval,
                      id |-> s + 1, active |-> TRUE]
    OBVIOUS
  <1>3. tw \in Wheels /\ due \in [Slots -> Ticks] /\ missed \in SUBSET Slots
    BY DEF WheelInv, TypesOK
  <1>4. delay \in 1..TickSpace - 1 /\ delay \in Ticks /\ interval \in Ticks /\ TickSpace \in Nat \ {0}
    BY DEF Bounds, Ticks
  <1>5. r \in Timers /\ r.active /\ r.deadline = (tw.current_tick + delay) % TickSpace
    <2>1. (tw.current_tick + delay) % TickSpace \in Ticks
      BY <1>3, <1>4, Later DEF Ticks, Wheels
    <2>2. s + 1 \in Nat
      BY DEF Slots
    <2> QED
      BY <1>2, <1>4, <2>1, <2>2 DEF Timers
  <1>6. tw' = [tw EXCEPT !.timers[s] = r, !.num_active = @ + 1]
    BY <1>1, <1>2
  <1>7. /\ tw'.timers = [tw.timers EXCEPT ![s] = r] /\ tw'.current_tick = tw.current_tick
        /\ tw'.num_active = tw.num_active + 1 /\ tw'.fired = tw.fired /\ tw' \in Wheels
    <2>1. PICK t, n, f : t = [tw.timers EXCEPT ![s] = r] /\ n = tw.num_active + 1 /\ f = tw.fired
      OBVIOUS
    <2>2. t \in [Slots -> Timers]
      BY <1>3, <1>5, <2>1 DEF Wheels
    <2>3. n \in Int /\ f \in SUBSET Slots
      BY <1>3, <2>1 DEF Wheels
    <2>4. tw' = [tw EXCEPT !.timers = t, !.num_active = n, !.fired = f]
      BY <1>3, <1>6, <2>1 DEF Wheels
    <2>5. tw' \in Wheels /\ tw'.timers = t /\ tw'.num_active = n /\ tw'.fired = f /\ tw'.current_tick = tw.current_tick
      BY <1>3, <2>2, <2>3, <2>4 DEF Wheels
    <2> QED
      BY <2>1, <2>5, Zenon
  <1>8. tw'.timers[s] = r /\ \A i \in Slots : i # s => tw'.timers[i] = tw.timers[i]
    BY <1>3, <1>7 DEF Wheels
  <1>9. TypesOK'
    BY <1>1, <1>3, <1>4, <1>7 DEF TypesOK
  <1>10. FiredOK' /\ s \notin tw.fired
    <2>1. s \notin tw.fired
      BY <1>1 DEF WheelInv, FiredOK
    <2>2. tw.fired \subseteq Slots
      BY <1>3 DEF Wheels
    <2> QED
      BY <1>7, <1>8, <2>1, <2>2 DEF WheelInv, FiredOK
  <1>11. DueOK'
    <2> SUFFICES ASSUME NEW i \in Slots, Running(i)'
                 PROVE  /\ tw'.timers[i].deadline = (tw'.current_tick + due'[i]) % TickSpace
                        /\ i \in tw'.fired <=> due'[i] = 0
      BY DEF DueOK
    <2>1. CASE i = s
      <3>1. due'[i] = delay /\ delay # 0
        BY <1>1, <1>3, <1>4, <2>1
      <3> QED
        BY <1>5, <1>7, <1>8, <1>10, <2>1, <3>1
    <2>2. CASE i # s
      <3>1. Running(i) /\ due'[i] = due[i] /\ tw'.timers[i] = tw.timers[i]
        BY <1>1, <1>3, <1>8, <2>2 DEF Running
      <3> QED
        BY <1>7, <3>1 DEF WheelInv, DueOK
    <2> QED
      BY <2>1, <2>2
  <1>12. tw'.num_active = Cardinality(Active')
    <2>1. Active' = Active \cup {s} /\ s \notin Active
      BY <1>1, <1>5, <1>8 DEF Active
    <2>2. Cardinality(Active \cup {s}) = Cardinality(Active) + 1
      BY <2>1, ActiveFinite, FS_AddElement
    <2> QED
      BY <1>7, <2>1, <2>2 DEF WheelInv
  <1> QED
    BY <1>9, <1>10, <1>11, <1>12 DEF WheelInv

\* cancel: the slot leaves the active timers and the fired ones together.
LEMMA CancelKeeps ==
  ASSUME Bounds, WheelInv, NEW id \in 0..MAX_TIMERS, cancel(id)
  PROVE  WheelInv'
  <1>1. PICK s : s = id - 1
    OBVIOUS
  <1>2. /\ s \in Slots /\ tw.timers[s].active
        /\ tw' = [tw EXCEPT !.timers[s].active = FALSE, !.timers[s].id = 0, !.num_active = @ - 1, !.fired = @ \ {s}]
        /\ UNCHANGED <<due, missed>>
    BY <1>1 DEF cancel, Slots, Bounds
  <1>3. tw \in Wheels /\ due \in [Slots -> Ticks] /\ missed \in SUBSET Slots
    BY DEF WheelInv, TypesOK
  <1>4. PICK r : r = [tw.timers[s] EXCEPT !.active = FALSE, !.id = 0]
    OBVIOUS
  <1>5. r \in Timers /\ ~r.active
    BY <1>2, <1>3, <1>4 DEF Wheels, Timers
  <1>7. /\ tw'.timers = [tw.timers EXCEPT ![s] = r] /\ tw'.current_tick = tw.current_tick
        /\ tw'.num_active = tw.num_active - 1 /\ tw'.fired = tw.fired \ {s} /\ tw' \in Wheels
    <2>1. PICK t, n, f : t = [tw.timers EXCEPT ![s] = r] /\ n = tw.num_active - 1 /\ f = tw.fired \ {s}
      OBVIOUS
    <2>2. t \in [Slots -> Timers]
      BY <1>3, <1>5, <2>1 DEF Wheels
    <2>3. n \in Int /\ f \in SUBSET Slots
      BY <1>3, <2>1 DEF Wheels
    <2>4. tw' = [tw EXCEPT !.timers = t, !.num_active = n, !.fired = f]
      BY <1>2, <1>3, <1>4, <2>1 DEF Wheels
    <2>5. tw' \in Wheels /\ tw'.timers = t /\ tw'.num_active = n /\ tw'.fired = f /\ tw'.current_tick = tw.current_tick
      BY <1>3, <2>2, <2>3, <2>4 DEF Wheels
    <2> QED
      BY <2>1, <2>5, Zenon
  <1>8. tw'.timers[s] = r /\ \A i \in Slots : i # s => tw'.timers[i] = tw.timers[i]
    BY <1>2, <1>3, <1>7 DEF Wheels
  <1>9. TypesOK'
    BY <1>2, <1>3, <1>7 DEF TypesOK
  <1>10. FiredOK'
    <2>1. tw.fired \subseteq Slots
      BY <1>3 DEF Wheels
    <2> QED
      BY <1>7, <1>8, <2>1 DEF WheelInv, FiredOK
  <1>11. DueOK'
    <2> SUFFICES ASSUME NEW i \in Slots, Running(i)'
                 PROVE  /\ tw'.timers[i].deadline = (tw'.current_tick + due'[i]) % TickSpace
                        /\ i \in tw'.fired <=> due'[i] = 0
      BY DEF DueOK
    <2>1. i # s
      BY <1>5, <1>8 DEF Running
    <2>2. Running(i) /\ due'[i] = due[i] /\ tw'.timers[i] = tw.timers[i]
      BY <1>2, <1>8, <2>1 DEF Running
    <2>3. i \in tw'.fired <=> i \in tw.fired
      BY <1>7, <2>1
    <2> QED
      BY <1>7, <2>2, <2>3 DEF WheelInv, DueOK
  <1>12. tw'.num_active = Cardinality(Active')
    <2>1. Active' = Active \ {s} /\ s \in Active
      BY <1>2, <1>5, <1>8 DEF Active
    <2>2. Cardinality(Active \ {s}) = Cardinality(Active) - 1
      BY <2>1, ActiveFinite, FS_RemoveElement
    <2> QED
      BY <1>7, <2>1, <2>2 DEF WheelInv
  <1> QED
    BY <1>9, <1>10, <1>11, <1>12 DEF WheelInv

\* tick: a timer that is due in one tick is marked, and those marked before and
\* not collected are overtaken.
LEMMA TickKeeps ==
  ASSUME Bounds, WheelInv, tick
  PROVE  WheelInv'
  <1>1. PICK now : now = (tw.current_tick + 1) % TickSpace
    OBVIOUS
  <1>2. /\ tw' = [tw EXCEPT !.current_tick = now,
                            !.fired = {i \in Slots : tw.timers[i].active /\ tw.timers[i].deadline = now}]
        /\ missed' = missed \cup tw.fired
        /\ due' = [i \in Slots |-> IF due[i] > 0 THEN due[i] - 1 ELSE 0]
    BY <1>1 DEF tick
  <1>3. /\ tw \in Wheels /\ due \in [Slots -> Ticks] /\ missed \in SUBSET Slots /\ TickSpace \in Nat \ {0}
        /\ tw.current_tick \in 0..TickSpace - 1
    BY DEF WheelInv, TypesOK, Bounds, Wheels, Ticks
  <1>4. now \in Ticks
    BY <1>1, <1>3, NextTick DEF Ticks
  <1>5. /\ tw'.timers = tw.timers /\ tw'.current_tick = now /\ tw'.num_active = tw.num_active
        /\ tw'.fired = {i \in Slots : tw.timers[i].active /\ tw.timers[i].deadline = now} /\ tw' \in Wheels
    BY <1>2, <1>3, <1>4 DEF Wheels
  <1>6. due' \in [Slots -> Ticks]
    BY <1>2, <1>3 DEF Ticks
  <1>7. TypesOK'
    BY <1>2, <1>3, <1>5, <1>6 DEF TypesOK, Wheels
  <1>8. FiredOK'
    BY <1>5 DEF FiredOK
  <1>9. DueOK'
    <2> SUFFICES ASSUME NEW i \in Slots, Running(i)'
                 PROVE  /\ tw'.timers[i].deadline = (now + due'[i]) % TickSpace
                        /\ i \in tw'.fired <=> due'[i] = 0
      BY <1>5 DEF DueOK
    <2>1. tw.timers[i].active /\ i \notin missed /\ i \notin tw.fired
      BY <1>2, <1>5 DEF Running
    <2>2. tw.timers[i].deadline = (tw.current_tick + due[i]) % TickSpace /\ due[i] # 0
      BY <2>1 DEF WheelInv, DueOK, Running
    <2>3. due[i] \in 1..TickSpace - 1
      BY <1>3, <2>2 DEF Ticks
    <2>4. due'[i] = due[i] - 1
      BY <1>2, <2>3
    <2>5. /\ (tw.current_tick + due[i]) % TickSpace = (now + (due[i] - 1)) % TickSpace
          /\ (tw.current_tick + due[i]) % TickSpace = now <=> due[i] = 1
      BY <1>1, <1>3, <2>3, OneTick
    <2>6. tw.timers[i].deadline = (now + (due[i] - 1)) % TickSpace /\ (tw.timers[i].deadline = now <=> due[i] = 1)
      BY <2>2, <2>5, Zenon
    <2>7. i \in tw'.fired <=> due[i] = 1
      BY <1>5, <2>1, <2>6
    <2>8. due[i] = 1 <=> due'[i] = 0
      BY <2>3, <2>4
    <2> QED
      BY <1>5, <2>4, <2>6, <2>7, <2>8, Zenon
  <1>10. Active' = Active
    BY <1>5 DEF Active
  <1> QED
    BY <1>5, <1>7, <1>8, <1>9, <1>10 DEF WheelInv

\* expired: of the marked timers the periodic ones are due in their interval,
\* and the others leave.
LEMMA ExpiredKeeps ==
  ASSUME Bounds, WheelInv, NEW m, expired(m)
  PROVE  WheelInv'
  <1> DEFINE once == {i \in tw.fired : tw.timers[i].interval = 0}
  <1>1. /\ tw' = [tw EXCEPT !.timers = [i \in Slots |-> IF i \in tw.fired THEN Collected(i) ELSE @[i]],
                            !.num_active = @ - Cardinality(once), !.fired = {}]
        /\ due' = [i \in Slots |-> IF i \in tw.fired THEN tw.timers[i].interval ELSE due[i]]
        /\ missed' = missed \ tw.fired
    BY DEF expired
  <1>2. PICK k : k = Cardinality(once)
    OBVIOUS
  <1>3. /\ tw \in Wheels /\ due \in [Slots -> Ticks] /\ missed \in SUBSET Slots /\ TickSpace \in Nat \ {0}
        /\ tw.current_tick \in 0..TickSpace - 1 /\ tw.fired \subseteq Slots
        /\ \A i \in Slots : tw.timers[i] \in Timers
    BY DEF WheelInv, TypesOK, Bounds, Wheels, Ticks
  <1>4. once \subseteq Active /\ IsFiniteSet(once) /\ k \in Int
    <2>1. once \subseteq Active
      BY <1>3 DEF WheelInv, FiredOK, Active
    <2>2. IsFiniteSet(once)
      BY <2>1, ActiveFinite, FS_Subset
    <2> QED
      BY <1>2, <2>1, <2>2, FS_CardinalityType
  <1>5. ASSUME NEW i \in tw.fired
        PROVE  /\ Collected(i) \in Timers
               /\ i \in once => ~Collected(i).active
               /\ i \notin once => /\ Collected(i).active
                                   /\ Collected(i).deadline = (tw.current_tick + tw.timers[i].interval) % TickSpace
                                   /\ tw.timers[i].interval \in 1..TickSpace - 1
    <2>1. tw.timers[i] \in Timers /\ tw.timers[i].active /\ tw.timers[i].deadline = tw.current_tick
      BY <1>3 DEF WheelInv, FiredOK
    <2>2. CASE i \in once
      BY <2>1, <2>2 DEF Collected, Timers
    <2>3. CASE i \notin once
      <3>1. tw.timers[i].interval # 0 /\ tw.timers[i].interval \in 0..TickSpace - 1
        BY <2>1, <2>3 DEF Timers, Ticks
      <3>2. PICK d : d = (tw.current_tick + tw.timers[i].interval) % TickSpace
        OBVIOUS
      <3>3. d \in Ticks
        BY <1>3, <3>1, <3>2, Later DEF Ticks
      <3>4. Collected(i) = [tw.timers[i] EXCEPT !.deadline = d]
        BY <2>1, <3>1, <3>2 DEF Collected
      <3>5. Collected(i) \in Timers /\ Collected(i).active /\ Collected(i).deadline = d
        BY <2>1, <3>3, <3>4 DEF Timers
      <3> QED
        BY <1>3, <2>3, <3>1, <3>2, <3>5
    <2> QED
      BY <2>2, <2>3
  <1> HIDE DEF once
  <1>6. /\ tw'.timers = [i \in Slots |-> IF i \in tw.fired THEN Collected(i) ELSE tw.timers[i]]
        /\ tw'.current_tick = tw.current_tick /\ tw'.num_active = tw.num_active - k /\ tw'.fired = {}
        /\ tw' \in Wheels
    <2>1. PICK t, n, f : t = [i \in Slots |-> IF i \in tw.fired THEN Collected(i) ELSE tw.timers[i]]
         /\ n = tw.num_active - k /\ f = {}
      OBVIOUS
    <2>2. t \in [Slots -> Timers]
      BY <1>3, <1>5, <2>1 DEF Wheels
    <2>3. n \in Int /\ f \in SUBSET Slots
      BY <1>3, <1>4, <2>1 DEF Wheels
    <2>4. tw' = [tw EXCEPT !.timers = t, !.num_active = n, !.fired = f]
      BY <1>1, <1>2, <1>3, <2>1 DEF Wheels
    <2>5. tw' \in Wheels /\ tw'.timers = t /\ tw'.num_active = n /\ tw'.fired = f /\ tw'.current_tick = tw.current_tick
      BY <1>3, <2>2, <2>3, <2>4 DEF Wheels
    <2> QED
      BY <2>1, <2>5, Zenon
  <1>8. due' \in [Slots -> Ticks]
    BY <1>1, <1>3 DEF Timers
  <1>9. TypesOK'
    BY <1>1, <1>3, <1>6, <1>8 DEF TypesOK
  <1>10. FiredOK'
    BY <1>6 DEF FiredOK
  <1>11. DueOK'
    <2> SUFFICES ASSUME NEW i \in Slots, Running(i)'
                 PROVE  /\ tw'.timers[i].deadline = (tw.current_tick + due'[i]) % TickSpace
                        /\ due'[i] # 0
      BY <1>6 DEF DueOK
    <2>1. CASE i \in tw.fired
      <3>1. tw'.timers[i] = Collected(i) /\ due'[i] = tw.timers[i].interval
        BY <1>1, <1>6, <2>1
      <3>2. i \notin once
        BY <1>5, <2>1, <3>1 DEF Running
      <3>3. /\ Collected(i).deadline = (tw.current_tick + tw.timers[i].interval) % TickSpace
            /\ tw.timers[i].interval \in 1..TickSpace - 1
        BY <1>5, <2>1, <3>2
      <3>4. due'[i] # 0
        BY <3>1, <3>3
      <3> QED
        BY <3>1, <3>3, <3>4, Zenon
    <2>2. CASE i \notin tw.fired
      <3>1. tw'.timers[i] = tw.timers[i] /\ due'[i] = due[i] /\ i \notin missed
        BY <1>1, <1>6, <2>2 DEF Running
      <3> QED
        BY <2>2, <3>1 DEF WheelInv, DueOK, Running
    <2> QED
      BY <2>1, <2>2
  <1>12. tw'.num_active = Cardinality(Active')
    <2>1. Active' = Active \ once
      <3>1. \A i \in Slots : tw'.timers[i].active <=> tw.timers[i].active /\ i \notin once
        <4> SUFFICES ASSUME NEW i \in Slots PROVE tw'.timers[i].active <=> tw.timers[i].active /\ i \notin once
          OBVIOUS
        <4>1. CASE i \in tw.fired
          BY <1>5, <1>6, <4>1 DEF WheelInv, FiredOK
        <4>2. CASE i \notin tw.fired
          BY <1>6, <4>2 DEF once
        <4> QED
          BY <4>1, <4>2
      <3> QED
        BY <3>1 DEF Active
    <2>2. Cardinality(Active \ once) = Cardinality(Active) - Cardinality(Active \cap once)
      BY ActiveFinite, FS_Difference
    <2>3. Active \cap once = once
      BY <1>4
    <2> QED
      BY <1>2, <1>6, <2>1, <2>2, <2>3 DEF WheelInv
  <1> QED
    BY <1>9, <1>10, <1>11, <1>12 DEF WheelInv

\* Init, and reset as a step.
LEMMA ResetKeeps ==
  ASSUME Bounds
  PROVE  (Init => WheelInv) /\ (reset => WheelInv')
  <1>0. /\ Fresh \in Wheels /\ Fresh.fired = {} /\ Fresh.num_active = 0
        /\ \A i \in Slots : ~Fresh.timers[i].active
        /\ [i \in Slots |-> 0] \in [Slots -> Ticks]
    BY FreshKeeps
  <1>1. ASSUME Init PROVE WheelInv
    <2>1. tw = Fresh /\ due = [i \in Slots |-> 0] /\ missed = {}
      BY <1>1 DEF Init
    <2>2. Active = {}
      BY <1>0, <2>1 DEF Active
    <2>3. TypesOK /\ FiredOK /\ DueOK
      BY <1>0, <2>1 DEF TypesOK, FiredOK, DueOK, Running
    <2> QED
      BY <1>0, <2>1, <2>2, <2>3, FS_EmptySet DEF WheelInv
  <1>2. ASSUME reset PROVE WheelInv'
    <2>1. tw' = Fresh /\ due' = [i \in Slots |-> 0] /\ missed' = {}
      BY <1>2 DEF reset
    <2>2. Active' = {}
      BY <1>0, <2>1 DEF Active
    <2>3. TypesOK' /\ FiredOK' /\ DueOK'
      BY <1>0, <2>1 DEF TypesOK, FiredOK, DueOK, Running
    <2> QED
      BY <1>0, <2>1, <2>2, <2>3, FS_EmptySet DEF WheelInv
  <1> QED
    BY <1>1, <1>2

\* Every timer is marked in the tick its delay or interval ends and at no other
\* time, and the count of active timers is exact.
THEOREM TimersFireOnTime ==
  ASSUME Bounds
  PROVE  Spec => []FiresOnTime
  <1>1. Init => WheelInv
    BY ResetKeeps
  <1>2. WheelInv /\ [Next]_vars => WheelInv'
    <2> SUFFICES ASSUME WheelInv, [Next]_vars PROVE WheelInv'
      OBVIOUS
    <2>1. CASE UNCHANGED vars
      BY <2>1 DEF vars, WheelInv, TypesOK, FiredOK, DueOK, Running, Active
    <2>2. CASE reset
      BY <2>2, ResetKeeps
    <2>3. CASE tick
      BY <2>3, TickKeeps
    <2>4. ASSUME NEW d \in Delays, NEW n \in Intervals, add(d, n) PROVE WheelInv'
      BY <2>4, AddKeeps
    <2>5. ASSUME NEW id \in 0..MAX_TIMERS, cancel(id) PROVE WheelInv'
      BY <2>5, CancelKeeps
    <2>6. ASSUME NEW m \in 0..MAX_TIMERS, expired(m) PROVE WheelInv'
      BY <2>6, ExpiredKeeps
    <2> QED
      BY <2>1, <2>2, <2>3, <2>4, <2>5, <2>6 DEF Next
  <1>3. WheelInv => FiresOnTime
    BY DEF WheelInv, TypesOK, Wheels, FiredOK, DueOK, FiresOnTime, Active
  <1> QED
    BY <1>1, <1>2, <1>3, PTL DEF Spec
=============================================================================
