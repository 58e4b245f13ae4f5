---------------------------- MODULE TimerService ----------------------------
(***************************************************************************)
(* What the time wheel promises about its timers, without slots, rotations *)
(* or linked lists: an armed timer counts the ticks that are left; it      *)
(* fires in the tick in which none is left, not earlier, and no tick       *)
(* begins before the timers of the last one have fired.                    *)
(***************************************************************************)
EXTENDS Naturals

CONSTANTS Timers, Timeouts, None

VARIABLES left,         \* ticks until each timer fires, None when not armed
          timeout,      \* timeOut_
          once          \* timerType_ is TIMER_ONCE

serviceVars == <<left, timeout, once>>

ServiceInit == /\ left = [t \in Timers |-> None]
               /\ timeout \in [Timers -> Timeouts]
               /\ once \in [Timers -> BOOLEAN]

\* A timer of less than one tick is a timer of one tick.
Period(t) == IF timeout[t] = 0 THEN 1 ELSE timeout[t]

\* The tick in progress when the timer is armed does not count.
Arm(t) == /\ left' = [left EXCEPT ![t] = Period(t) + 1]
          /\ UNCHANGED <<timeout, once>>

Disarm(t) == /\ left' = [left EXCEPT ![t] = None]
             /\ UNCHANGED <<timeout, once>>

Change(t, T, o) == /\ timeout' = [timeout EXCEPT ![t] = T]
                   /\ once' = [once EXCEPT ![t] = o]
                   /\ UNCHANGED left

Tick == /\ \A t \in Timers : left[t] # 0
        /\ left' = [t \in Timers |-> IF left[t] = None THEN None ELSE left[t] - 1]
        /\ UNCHANGED <<timeout, once>>

Fire(t) == /\ left[t] = 0
           /\ left' = [left EXCEPT ![t] = IF once[t] THEN None ELSE Period(t)]
           /\ UNCHANGED <<timeout, once>>

ServiceNext == \/ Tick
               \/ \E t \in Timers : \/ Arm(t) \/ Disarm(t) \/ Fire(t)
                                    \/ \E T \in Timeouts, o \in BOOLEAN : Change(t, T, o)

ServiceSpec == ServiceInit /\ [][ServiceNext]_serviceVars
=============================================================================
