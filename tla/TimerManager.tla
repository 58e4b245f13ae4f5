---------------------------- MODULE TimerManager ----------------------------
(***************************************************************************)
(* library/TimerManager.hpp and Timer.hpp: a time wheel of SlotNum slots,  *)
(* each the head of a doubly linked list of timers, and the thread that    *)
(* turns it by the milliseconds that gettimeofday counts.                  *)
(*                                                                         *)
(* AddTimer, RemoveTimer and AdjustTimer hold timeWheelMutex_, and so does *)
(* CheckTimer from its first step to its last (pc = "scan"); Timer::Adjust *)
(* takes no lock.  The callback of a timer does not call the TimerManager, *)
(* whose mutex the calling thread holds.  slotInterval is 1.               *)
(***************************************************************************)
EXTENDS Naturals, FiniteSets

CONSTANTS Timers,       \* Timer objects
          Timeouts,     \* the values of timeOut_
          SlotNum,      \* slotNum
          ClockPeriod,  \* milliseconds after which CheckTick's clock wraps
          MaxLag,       \* bound: milliseconds between two reads of the clock
          MaxOps,       \* bound: calls from other threads but Start
          None

ASSUME TimersAssumption == IsFiniteSet(Timers) /\ None \notin Timers \cup Nat
ASSUME TimeoutsAssumption == Timeouts \subseteq Nat
ASSUME SlotNumAssumption == SlotNum \in Nat /\ SlotNum > 1
ASSUME ClockAssumption == /\ ClockPeriod \in Nat /\ MaxLag \in Nat /\ MaxOps \in Nat
                          /\ 0 < MaxLag /\ MaxLag < ClockPeriod

VARIABLES wheel,        \* the lists: head, and prev, next, timeSlot, rotation of each timer
          timeout,      \* timeOut_
          once,         \* timerType_ is TIMER_ONCE
          currentSlot,
          ptimer,       \* CheckTimer's local variable
          pc,           \* where the wheel's thread is
          ticks,        \* calls of CheckTimer that CheckTick has still to make
          clock,        \* gettimeofday, modulo ClockPeriod
          oldtime,      \* CheckTick's local variable
          lag,          \* milliseconds since CheckTick has read the clock
          running,      \* running_
          ops           \* calls from other threads so far

threadVars == <<currentSlot, ptimer, pc, ticks, oldtime>>
vars == <<wheel, timeout, once, threadVars, clock, lag, running, ops>>

SlotIndices == 0 .. SlotNum - 1
PcStates == {"none", "start", "tick", "check", "scan"}

Init == /\ wheel = [head |-> [s \in SlotIndices |-> None],
                    prev |-> [t \in Timers |-> None],
                    next |-> [t \in Timers |-> None],
                    slot |-> [t \in Timers |-> 0],
                    rotation |-> [t \in Timers |-> 0]]
        /\ timeout \in [Timers -> Timeouts]
        /\ once \in [Timers -> BOOLEAN]
        /\ currentSlot = 0 /\ ptimer = None /\ pc = "none" /\ ticks = 0
        /\ clock = 0 /\ oldtime = 0 /\ lag = 0
        /\ running = FALSE /\ ops = 0

-----------------------------------------------------------------------------
(* The wheel.                                                              *)

\* The timers on the list that begins with p: those that no set can miss which
\* has p, and the next of each timer in it.
Follows(w, p, S) == {p} \cup {w.next[t] : t \in S} \subseteq S \cup {None}
Chain(w, p) == {t \in Timers : \A S \in SUBSET Timers : Follows(w, p, S) => t \in S}

\* How RemoveTimerFromTimeWheel tells whether t is in the wheel.
InWheel(w, t) == w.head[w.slot[t]] = t \/ w.prev[t] # None

\* A change of CalculateTimer: the rotations are rounded up.
CalculateRoundsUp(w, t) ==
    [w EXCEPT !.rotation[t] = (timeout[t] + SlotNum - 1) \div SlotNum,
              !.slot[t] = (currentSlot + IF timeout[t] < 1 THEN 1 ELSE timeout[t]) % SlotNum]

CalculateTimer(w, t) ==
    [w EXCEPT !.rotation[t] = IF timeout[t] < 1 THEN 1 \div SlotNum ELSE timeout[t] \div SlotNum,
              !.slot[t] = (currentSlot + IF timeout[t] < 1 THEN 1 ELSE timeout[t]) % SlotNum]

AddTimerToTimeWheel(w, t) ==
    LET s == w.slot[t]
        h == w.head[s]
    IN  IF h = None THEN [w EXCEPT !.head[s] = t]
        ELSE [w EXCEPT !.next[t] = h, !.prev[h] = t, !.head[s] = t]

\* Unhook(w, t): what precedes and what follows t in its list become neighbours.
Unhook(w, t) ==
    LET p == w.prev[t]
        n == w.next[t]
    IN  [w EXCEPT !.head = IF p = None THEN [@ EXCEPT ![w.slot[t]] = n] ELSE @,
                  !.next = [u \in Timers |-> IF u = t THEN None ELSE IF u = p THEN n ELSE @[u]],
                  !.prev = [u \in Timers |-> IF u = t THEN None ELSE IF u = n THEN p ELSE @[u]]]

\* A change of RemoveTimerFromTimeWheel: the successor keeps its prev.
RemoveLeavesPrev(w, t) ==
    IF ~InWheel(w, t) THEN w
    ELSE [Unhook(w, t) EXCEPT !.prev = [w.prev EXCEPT ![t] = None]]

RemoveTimerFromTimeWheel(w, t) ==
    IF InWheel(w, t) THEN Unhook(w, t) ELSE w

AdjustTimerToWheel(w, t) ==
    AddTimerToTimeWheel(CalculateTimer(RemoveTimerFromTimeWheel(w, t), t), t)

-----------------------------------------------------------------------------
(* Other threads.                                                          *)

Call == /\ ops < MaxOps
        /\ ops' = ops + 1
        /\ UNCHANGED <<threadVars, clock, lag>>

Locked == pc = "scan"           \* CheckTimer holds timeWheelMutex_

\* The caller does not add a timer that is in the wheel.
AddTimer(t) == /\ Call /\ ~Locked
               /\ ~InWheel(wheel, t)
               /\ wheel' = AddTimerToTimeWheel(CalculateTimer(wheel, t), t)
               /\ UNCHANGED <<timeout, once, running>>

RemoveTimer(t) == /\ Call /\ ~Locked
                  /\ wheel' = RemoveTimerFromTimeWheel(wheel, t)
                  /\ UNCHANGED <<timeout, once, running>>

AdjustTimer(t) == /\ Call /\ ~Locked
                  /\ wheel' = AdjustTimerToWheel(wheel, t)
                  /\ UNCHANGED <<timeout, once, running>>

\* Timer::Adjust: it changes the timer and not its place in the wheel.
Adjust(t, T, o) == /\ Call
                   /\ timeout' = [timeout EXCEPT ![t] = T]
                   /\ once' = [once EXCEPT ![t] = o]
                   /\ UNCHANGED <<wheel, running>>

\* A second thread may not be started while the first is there.
Start == /\ pc = "none" /\ ~running
         /\ running' = TRUE /\ pc' = "start"
         /\ UNCHANGED <<wheel, timeout, once, currentSlot, ptimer, ticks, oldtime, clock, lag, ops>>

\* Stop then joins the thread; whoever waits there does nothing else.
Stop == /\ Call /\ running
        /\ running' = FALSE
        /\ UNCHANGED <<wheel, timeout, once>>

-----------------------------------------------------------------------------
(* The thread of the wheel, and the time.                                  *)

Goto(from, to) == pc = from /\ pc' = to

\* CheckTick's first read of the clock.
ReadClock == /\ Goto("start", "tick")
             /\ oldtime' = clock /\ lag' = 0
             /\ UNCHANGED <<wheel, timeout, once, currentSlot, ptimer, ticks, clock, running, ops>>

\* A change of CheckTick: oldtime is not moved on.
CheckTickTwice == /\ pc = "tick" /\ pc' = IF running THEN "check" ELSE "none"
                  /\ running
                  /\ ticks' = IF clock > oldtime THEN clock - oldtime ELSE 0
                  /\ lag' = 0
                  /\ UNCHANGED <<wheel, timeout, once, currentSlot, ptimer, oldtime, clock, running, ops>>

\* The test of running_ and the number of slots since the last read; it is
\* negative when the clock has wrapped, and then there is nothing to check.
CheckTick == /\ pc = "tick"
             /\ IF running
                THEN /\ pc' = "check"
                     /\ ticks' = IF clock > oldtime THEN clock - oldtime ELSE 0
                     /\ oldtime' = clock /\ lag' = 0
                ELSE pc' = "none" /\ UNCHANGED <<ticks, oldtime, lag>>
             /\ UNCHANGED <<wheel, timeout, once, currentSlot, ptimer, clock, running, ops>>

TicksDone == /\ Goto("check", "tick") /\ ticks = 0
             /\ UNCHANGED <<wheel, timeout, once, currentSlot, ptimer, ticks, clock, oldtime, lag, running, ops>>

CheckTimer == /\ Goto("check", "scan") /\ ticks > 0
              /\ ptimer' = wheel.head[currentSlot]
              /\ UNCHANGED <<wheel, timeout, once, currentSlot, ticks, clock, oldtime, lag, running, ops>>

Scan(p) == /\ pc = "scan" /\ ptimer # None
           /\ ptimer' = wheel.next[p]
           /\ UNCHANGED <<timeout, once, currentSlot, pc, ticks, clock, oldtime, lag, running, ops>>

\* A change of NotYet: the rotation is not counted down.
NotYetForever == /\ Scan(ptimer)
                 /\ wheel.rotation[ptimer] > 0
                 /\ UNCHANGED wheel

NotYet == /\ Scan(ptimer)
          /\ wheel.rotation[ptimer] > 0
          /\ wheel' = [wheel EXCEPT !.rotation[ptimer] = @ - 1]

\* A periodic timer that comes back to this slot has this turn behind it.
FireTimer == /\ Scan(ptimer)
             /\ wheel.rotation[ptimer] = 0
             /\ LET again == AdjustTimerToWheel(wheel, ptimer)
                IN  wheel' = IF once[ptimer] THEN RemoveTimerFromTimeWheel(wheel, ptimer)
                             ELSE IF again.slot[ptimer] = currentSlot /\ again.rotation[ptimer] > 0
                             THEN [again EXCEPT !.rotation[ptimer] = @ - 1]
                             ELSE again

\* A change of ScanDone: the wheel does not turn round.
ScanDoneStraight == /\ Goto("scan", "check") /\ ptimer = None
                    /\ currentSlot < SlotNum
                    /\ currentSlot' = currentSlot + 1
                    /\ ticks' = ticks - 1
                    /\ UNCHANGED <<wheel, timeout, once, ptimer, clock, oldtime, lag, running, ops>>

ScanDone == /\ Goto("scan", "check") /\ ptimer = None
            /\ currentSlot' = (currentSlot + 1) % SlotNum
            /\ ticks' = ticks - 1
            /\ UNCHANGED <<wheel, timeout, once, ptimer, clock, oldtime, lag, running, ops>>

\* The thread reads the clock at least once in MaxLag milliseconds.
Advance == /\ lag < MaxLag
           /\ clock' = (clock + 1) % ClockPeriod
           /\ lag' = IF pc = "none" THEN 0 ELSE lag + 1
           /\ UNCHANGED <<wheel, timeout, once, threadVars, running, ops>>

-----------------------------------------------------------------------------

ThreadStep == \/ ReadClock \/ CheckTick \/ TicksDone \/ CheckTimer \/ NotYet \/ FireTimer
              \/ ScanDone

Next == \/ ThreadStep \/ Advance \/ Start \/ Stop
        \/ \E t \in Timers : \/ AddTimer(t) \/ RemoveTimer(t) \/ AdjustTimer(t)
                             \/ \E T \in Timeouts, o \in BOOLEAN : Adjust(t, T, o)

Spec == Init /\ [][Next]_vars

\* The thread is scheduled and time passes.
FairSpec == Spec /\ WF_vars(ThreadStep) /\ WF_vars(Advance)

-----------------------------------------------------------------------------
(* Properties.                                                             *)

Links == [Timers -> Timers \cup {None}]

TypeOK == /\ wheel \in [head : [SlotIndices -> Timers \cup {None}], prev : Links, next : Links,
                       slot : [Timers -> SlotIndices], rotation : [Timers -> Nat]]
          /\ timeout \in [Timers -> Timeouts]
          /\ once \in [Timers -> BOOLEAN]
          /\ currentSlot \in SlotIndices
          /\ ptimer \in Timers \cup {None}
          /\ pc \in PcStates
          /\ ticks \in Nat /\ lag \in 0 .. MaxLag
          /\ {clock, oldtime} \subseteq 0 .. ClockPeriod - 1
          /\ running \in BOOLEAN
          /\ ops \in 0 .. MaxOps

\* The lists stay lists, in the middle of CheckTimer too: each timer in the
\* wheel is in the list of its own slot, prev and next agree, only the head has
\* no predecessor, and a timer that is out points nowhere: RemoveTimer tells by
\* prev whether a timer is in the wheel (TimerManager.hpp:155,166).
ListsWellFormed ==
    /\ \A s \in SlotIndices : \A t \in Chain(wheel, wheel.head[s]) : wheel.slot[t] = s
    /\ \A t \in Timers :
        IF t \in Chain(wheel, wheel.head[wheel.slot[t]])
        THEN /\ wheel.prev[t] = None <=> wheel.head[wheel.slot[t]] = t
             /\ wheel.next[t] # None => wheel.prev[wheel.next[t]] = t
        ELSE wheel.prev[t] = None /\ wheel.next[t] = None

\* The wheel keeps the promises of TimerService: a timer fires in the tick that
\* its timeout names and in no other, over any number of turns, after it was
\* removed, adjusted, or changed while it was in the wheel.
TicksLeft(t) ==
    LET distance == ((wheel.slot[t] + SlotNum - currentSlot) % SlotNum)
                        + wheel.rotation[t] * SlotNum
        visited == wheel.slot[t] = currentSlot /\ t \notin Chain(wheel, ptimer)
    IN  IF ~InWheel(wheel, t) THEN None
        ELSE IF ~Locked THEN distance + 1
        ELSE IF visited THEN distance + SlotNum ELSE distance
TS == INSTANCE TimerService WITH left <- [t \in Timers |-> TicksLeft(t)]
ImplementsTimerService == TS!ServiceSpec

\* CheckTick never turns the wheel by more slots than milliseconds have passed
\* since it turned it last, also when its clock wraps.
NoTickFromNowhere == [][ticks' > ticks => ticks' <= lag]_vars

\* A one-shot timer in the wheel fires, if it is not taken out and the thread
\* is not stopped; a wrap of the clock may delay it and does not lose it.
OneShotFires ==
    \A t \in Timers :
        (InWheel(wheel, t) /\ once[t] /\ running) ~> (~InWheel(wheel, t) \/ ~once[t] \/ ~running)
=============================================================================
