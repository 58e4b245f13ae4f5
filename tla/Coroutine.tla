----------------------------- MODULE Coroutine ------------------------------
(***************************************************************************)
(* library/coroutine/coroutine.cpp: coroutines with a stack each, switched *)
(* by swapcontext.  One thread runs; current says whose code it is in.     *)
(*                                                                         *)
(* Identifiers count from 1, so that 0 is the code's -1 in runningThread   *)
(* and stands for the main program in current and mainctx.  Calls that the *)
(* code answers with an early return are steps that change nothing and are *)
(* left out.                                                               *)
(***************************************************************************)
EXTENDS Naturals, FiniteSets, Sequences

CONSTANT MaxTasks       \* bound: calls of uthread_create

ASSUME MaxTasksAssumption == MaxTasks \in Nat

VARIABLES threads,      \* the state of each coroutine
          runningThread,
          current,      \* who executes: the main program, a coroutine, or nobody knows
          mainctx,      \* whose context is saved in mainctx
          capacity,     \* of the vector threads
          moved,        \* coroutines whose stack is in memory that the vector has freed
          created, ended        \* tasks so far

coroutineVars == <<threads, runningThread, current, mainctx, capacity, moved, created, ended>>

Main == 0
NoThread == 0
Undefined == MaxTasks + 1
Coroutines == DOMAIN threads
ThreadStates == {"FREE", "RUNNABLE", "RUNNING", "SUSPEND"}

CoroutineInit == /\ threads = <<>> /\ runningThread = NoThread
                 /\ current = Main /\ mainctx = Main
                 /\ capacity = 0 /\ moved = {}
                 /\ created = 0 /\ ended = 0

-----------------------------------------------------------------------------

FreeSlots == {i \in Coroutines : threads[i] = "FREE"}

\* uthread_create: the first free slot, or a new one at the end.  When the
\* vector grows it moves the contexts, which point to the stacks they leave.
Create ==
    /\ current # Undefined /\ created < MaxTasks
    /\ created' = created + 1
    /\ IF FreeSlots # {}
       THEN LET i == CHOOSE i \in FreeSlots : \A j \in FreeSlots : i <= j
            IN  /\ threads' = [threads EXCEPT ![i] = "RUNNABLE"]
                /\ moved' = moved \ {i}
                /\ UNCHANGED capacity
       ELSE /\ threads' = Append(threads, "RUNNABLE")
            /\ IF Len(threads) < capacity
               THEN UNCHANGED <<capacity, moved>>
               ELSE /\ capacity' = IF capacity = 0 THEN 1 ELSE 2 * capacity
                    /\ moved' = Coroutines
    /\ UNCHANGED <<runningThread, current, mainctx, ended>>

\* A change of Yield: runningThread keeps its value.
YieldKeepsRunning ==
    /\ current # Undefined /\ runningThread # NoThread
    /\ threads' = [threads EXCEPT ![runningThread] = "SUSPEND"]
    /\ current' = mainctx
    /\ UNCHANGED <<runningThread, mainctx, capacity, moved, created, ended>>

\* uthread_yield, by whoever executes.
Yield == /\ current # Undefined /\ runningThread # NoThread
         /\ threads' = [threads EXCEPT ![runningThread] = "SUSPEND"]
         /\ runningThread' = NoThread
         /\ current' = mainctx
         /\ UNCHANGED <<mainctx, capacity, moved, created, ended>>

\* uthread_resume, with the beginning of uthread_func when the coroutine is new.
\* mainctx receives the context of whoever calls.
Resume(id) == /\ current # Undefined /\ id # runningThread
              /\ threads[id] \in {"SUSPEND", "RUNNABLE"}
              /\ runningThread' = id
              /\ threads' = [threads EXCEPT ![id] = "RUNNING"]
              /\ mainctx' = current
              /\ current' = id
              /\ UNCHANGED <<capacity, moved, created, ended>>

\* The end of uthread_func, which goes on with mainctx: when that is a context
\* the coroutine itself has saved, its frame is gone.
Continue(ctx) ==
    /\ current \in Coroutines
    /\ threads' = [threads EXCEPT ![current] = "FREE"]
    /\ runningThread' = NoThread
    /\ ended' = ended + 1
    /\ current' = IF ctx = current THEN Undefined ELSE ctx
    /\ UNCHANGED <<mainctx, capacity, moved, created>>

\* A change of Finish: a coroutine that ends goes back to the main program.
FinishInMain == Continue(Main)
Finish == Continue(mainctx)

\* Code that runs on a stack that was freed may do anything.
RunOnFreedStack == /\ current \in moved
                   /\ current' = Undefined
                   /\ UNCHANGED <<threads, runningThread, mainctx, capacity, moved, created, ended>>

CoroutineNext == \/ Create \/ Yield \/ Finish \/ RunOnFreedStack
                 \/ \E id \in Coroutines : Resume(id)

CoroutineSpec == CoroutineInit /\ [][CoroutineNext]_coroutineVars

-----------------------------------------------------------------------------
(* Properties.                                                             *)

CoroutineTypeOK == /\ threads \in Seq(ThreadStates) /\ Len(threads) <= capacity
                   /\ runningThread \in Coroutines \cup {NoThread}
                   /\ current \in Coroutines \cup {Main, Undefined}
                   /\ mainctx \in Coroutines \cup {Main}
                   /\ moved \subseteq Coroutines
                   /\ created \in 0 .. MaxTasks /\ ended \in 0 .. created

\* schedule_finished.
ScheduleFinished == runningThread = NoThread /\ \A i \in Coroutines : threads[i] = "FREE"

\* The scheduler's notes agree with the processor, as long as only the main
\* program resumes: the coroutine in runningThread is the one that executes and
\* the only one in state RUNNING; and schedule_finished() tells exactly when every
\* task that was created has run to its end, over all reuses of the slots
\* (coroutine.cpp:15,45,48,67,81,97,106).
RunningIsCurrent ==
    /\ (mainctx = Main /\ current # Undefined) =>
           /\ runningThread = current
           /\ \A i \in Coroutines : threads[i] = "RUNNING" <=> i = current
    /\ ScheduleFinished <=> created = ended

\* A coroutine that resumes another one takes the place of the main program in
\* mainctx, and the main program never runs again (coroutine.cpp:69,74).
MainIsLost == [][mainctx # Main => current' # Main /\ mainctx' # Main]_coroutineVars
=============================================================================
