----------------------------- MODULE ThreadPool -----------------------------
(***************************************************************************)
(* library/ThreadPool.hpp: worker threads that sleep on a condition        *)
(* variable until AddTask gives them work.  A worker is modelled at every  *)
(* point where another thread can come between two of its reads of shared  *)
(* state; started_ is a plain bool that Start and Stop write without the   *)
(* mutex.                                                                  *)
(***************************************************************************)
EXTENDS Naturals, Sequences, FiniteSets

CONSTANTS Workers,      \* identities of the threads that calls of Start create
          ThreadNum,    \* threadNum_
          Submitters,   \* threads that call AddTask (the loop threads)
          Tasks,        \* the closures they submit, each of them once
          None

ASSUME WorkersAssumption == IsFiniteSet(Workers) /\ None \notin Workers
ASSUME SubmittersAssumption == IsFiniteSet(Submitters)
ASSUME TasksAssumption == None \notin Tasks
ASSUME ThreadNumAssumption == ThreadNum \in Nat

VARIABLES started,      \* started_
          taskQueue,    \* taskQueue_
          mutex,        \* the worker that holds mutex_, or None
          threadList,   \* threadList_
          pc,           \* where each worker is in ThreadFunc
          task,         \* ThreadFunc's local variable task
          done,         \* tasks that have returned
          spc,          \* where each submitter is in AddTask
          opc,          \* where the pool's owner is in Start, Stop, ~ThreadPool
          toSpawn       \* threads the current call of Start has still to create

vars == <<started, taskQueue, mutex, threadList, pc, task, done, spc, opc, toSpawn>>

(* unborn    the thread does not exist yet                                 *)
(* loop      at while (started_)                                           *)
(* acquire   about to lock mutex_ at the top of the block                  *)
(* test      holds mutex_, at while (taskQueue_.empty() && started_)       *)
(* wait      holds mutex_, has found the queue empty, about to wait        *)
(* blocked   asleep in condition_.wait, mutex_ released                    *)
(* reacquire notified, wait has to lock mutex_ before it returns           *)
(* check     holds mutex_, at if (!started_)                               *)
(* front     holds mutex_, at task = taskQueue_.front()                    *)
(* pop       holds mutex_, at taskQueue_.pop()                             *)
(* run       in task()                                                     *)
(* exited    ThreadFunc has returned                                       *)
Locked == {"test", "wait", "check", "front", "pop"}
WorkerStates == Locked \cup {"unborn", "loop", "acquire", "blocked", "reacquire",
                             "run", "exited"}
OwnerStates == {"constructed", "spawning", "serving", "notify", "detach",
                "stopped", "destroyed", "undefined"}

Queued == {taskQueue[i] : i \in DOMAIN taskQueue}
Blocked == {w \in Workers : pc[w] = "blocked"}
Unborn == {w \in Workers : pc[w] = "unborn"}
Running == {w \in Workers : pc[w] = "run"}

\* The tasks that have been handed to AddTask so far.
Submitted == Queued \cup {task[w] : w \in Running} \cup done

TypeOK == /\ started \in BOOLEAN
          /\ taskQueue \in Seq(Tasks)
          /\ mutex \in Workers \cup {None}
          /\ threadList \subseteq Workers
          /\ pc \in [Workers -> WorkerStates]
          /\ task \in [Workers -> Tasks \cup {None}]
          /\ done \subseteq Tasks
          /\ spc \in [Submitters -> {"idle", "notify"}]
          /\ opc \in OwnerStates
          /\ toSpawn \in Nat

Init == /\ started = FALSE
        /\ taskQueue = <<>>
        /\ mutex = None
        /\ threadList = {}
        /\ pc = [w \in Workers |-> "unborn"]
        /\ task = [w \in Workers |-> None]
        /\ done = {}
        /\ spc = [s \in Submitters |-> "idle"]
        /\ opc = "constructed"
        /\ toSpawn = 0

Goto(w, from, to) == pc[w] = from /\ pc' = [pc EXCEPT ![w] = to]

-----------------------------------------------------------------------------
(* The owner: Start and the destructor, the only caller of Stop.           *)

ownerVars == <<threadList, opc, toSpawn>>

\* all_server.cpp starts the shared pool and HttpServer's constructor starts
\* it again, so Start may be called while the pool is serving; Workers bounds
\* how often.
Start == /\ opc \in {"constructed", "serving"}
         /\ Cardinality(Unborn) >= ThreadNum
         /\ ThreadNum > 0
         /\ started' = TRUE
         /\ opc' = "spawning"
         /\ toSpawn' = ThreadNum
         /\ UNCHANGED <<taskQueue, mutex, threadList, pc, task, done, spc>>

\* A change of Spawn: the loop of Start runs while i <= threadNum_.
SpawnOneMore(w) == /\ opc = "spawning"
                   /\ Goto(w, "unborn", "loop")
                   /\ threadList' = threadList \cup {w}
                   /\ toSpawn' = toSpawn - 1
                   /\ opc' = IF toSpawn = 0 THEN "serving" ELSE "spawning"
                   /\ UNCHANGED <<started, taskQueue, mutex, task, done, spc>>

Spawn(w) == /\ opc = "spawning"
            /\ toSpawn > 0
            /\ Goto(w, "unborn", "loop")
            /\ threadList' = threadList \cup {w}
            /\ toSpawn' = toSpawn - 1
            /\ opc' = IF toSpawn = 1 THEN "serving" ELSE "spawning"
            /\ UNCHANGED <<started, taskQueue, mutex, task, done, spc>>

StopClear == /\ opc = "serving"
             /\ started' = FALSE
             /\ opc' = "notify"
             /\ UNCHANGED <<taskQueue, mutex, threadList, pc, task, done, spc, toSpawn>>

StopNotifyAll == /\ opc = "notify"
                 /\ pc' = [w \in Workers |-> IF pc[w] = "blocked" THEN "reacquire" ELSE pc[w]]
                 /\ opc' = "detach"
                 /\ UNCHANGED <<started, taskQueue, mutex, threadList, task, done, spc, toSpawn>>

StopDetach == /\ opc = "detach"
              /\ threadList' = {}
              /\ opc' = "stopped"
              /\ UNCHANGED <<started, taskQueue, mutex, pc, task, done, spc, toSpawn>>

\* After Stop the destructor joins and deletes threadNum_ entries of
\* threadList_; an index past the end is undefined behaviour.
DestroyJoin == /\ opc = "stopped"
               /\ opc' = IF Cardinality(threadList) < ThreadNum THEN "undefined" ELSE "destroyed"
               /\ threadList' = {}
               /\ UNCHANGED <<started, taskQueue, mutex, pc, task, done, spc, toSpawn>>

-----------------------------------------------------------------------------
(* A submitter: AddTask.                                                   *)

\* A change of Push: AddTask forgets notify_one.
PushUnsignalled(s, t) == /\ spc[s] = "idle"
                         /\ t \notin Submitted
                         /\ mutex = None
                         /\ taskQueue' = Append(taskQueue, t)
                         /\ UNCHANGED <<started, mutex, threadList, pc, task, done, spc, opc, toSpawn>>

Push(s, t) == /\ spc[s] = "idle"
              /\ t \notin Submitted
              /\ mutex = None
              /\ taskQueue' = Append(taskQueue, t)
              /\ spc' = [spc EXCEPT ![s] = "notify"]
              /\ UNCHANGED <<started, mutex, threadList, pc, task, done, opc, toSpawn>>

\* condition_.notify_one() is called after mutex_ has been released.
NotifyOne(s) ==
    /\ spc[s] = "notify"
    /\ spc' = [spc EXCEPT ![s] = "idle"]
    /\ \/ \E w \in Workers : Goto(w, "blocked", "reacquire")
       \/ Blocked = {} /\ UNCHANGED pc
    /\ UNCHANGED <<started, taskQueue, mutex, threadList, task, done, opc, toSpawn>>

-----------------------------------------------------------------------------
(* A worker: ThreadFunc.                                                   *)

LoopTest(w) == /\ pc[w] = "loop"
               /\ pc' = [pc EXCEPT ![w] = IF started THEN "acquire" ELSE "exited"]
               /\ task' = [task EXCEPT ![w] = None]
               /\ UNCHANGED <<started, taskQueue, mutex, done, spc, ownerVars>>

Acquire(w) == /\ Goto(w, "acquire", "test")
              /\ mutex = None
              /\ mutex' = w
              /\ UNCHANGED <<started, taskQueue, task, done, spc, ownerVars>>

TestQueue(w) == /\ pc[w] = "test"
                /\ pc' = [pc EXCEPT ![w] = IF taskQueue = <<>> /\ started THEN "wait"
                                                                         ELSE "check"]
                /\ UNCHANGED <<started, taskQueue, mutex, task, done, spc, ownerVars>>

Wait(w) == /\ Goto(w, "wait", "blocked")
           /\ mutex' = None
           /\ UNCHANGED <<started, taskQueue, task, done, spc, ownerVars>>

\* std::condition_variable::wait may return without a notification.
SpuriousWakeup(w) == /\ Goto(w, "blocked", "reacquire")
                     /\ UNCHANGED <<started, taskQueue, mutex, task, done, spc, ownerVars>>

\* A change of Reacquire: the wait is guarded by an if instead of a while.
ReacquireUntested(w) == /\ Goto(w, "reacquire", "check")
                        /\ mutex = None
                        /\ mutex' = w
                        /\ UNCHANGED <<started, taskQueue, task, done, spc, ownerVars>>

Reacquire(w) == /\ Goto(w, "reacquire", "test")
                /\ mutex = None
                /\ mutex' = w
                /\ UNCHANGED <<started, taskQueue, task, done, spc, ownerVars>>

CheckStarted(w) == /\ pc[w] = "check"
                   /\ pc' = [pc EXCEPT ![w] = IF started THEN "front" ELSE "exited"]
                   /\ mutex' = IF started THEN mutex ELSE None
                   /\ UNCHANGED <<started, taskQueue, task, done, spc, ownerVars>>

\* A change of Front: the mutex is held for front() and not for pop().
FrontUnlocked(w) == /\ Goto(w, "front", "pop")
                    /\ taskQueue # <<>>
                    /\ task' = [task EXCEPT ![w] = Head(taskQueue)]
                    /\ mutex' = None
                    /\ UNCHANGED <<started, taskQueue, done, spc, ownerVars>>

Front(w) == /\ Goto(w, "front", "pop")
            /\ taskQueue # <<>>
            /\ task' = [task EXCEPT ![w] = Head(taskQueue)]
            /\ UNCHANGED <<started, taskQueue, mutex, done, spc, ownerVars>>

Pop(w) == /\ Goto(w, "pop", "run")
          /\ taskQueue # <<>>
          /\ taskQueue' = Tail(taskQueue)
          /\ mutex' = None
          /\ UNCHANGED <<started, task, done, spc, ownerVars>>

Return(w) == /\ Goto(w, "run", "loop")
             /\ done' = done \cup {task[w]}
             /\ UNCHANGED <<started, taskQueue, mutex, task, spc, ownerVars>>

-----------------------------------------------------------------------------

WorkerStep(w) == \/ LoopTest(w) \/ Acquire(w) \/ TestQueue(w) \/ Wait(w)
                 \/ Reacquire(w) \/ CheckStarted(w) \/ Front(w) \/ Pop(w)
                 \/ Return(w)

OwnerStop == StopClear \/ StopNotifyAll \/ StopDetach \/ DestroyJoin

Next == \/ Start \/ OwnerStop
        \/ \E w \in Workers : Spawn(w) \/ WorkerStep(w) \/ SpuriousWakeup(w)
        \/ \E s \in Submitters : NotifyOne(s) \/ \E t \in Tasks : Push(s, t)

Spec == Init /\ [][Next]_vars

\* Every thread that can go on running does: the operating system schedules
\* it, and a task returns.  Nobody has to call AddTask or Stop, but a call
\* that was begun completes; a thread that waits for a mutex gets it as long
\* as the mutex becomes free again and again.
Fairness == /\ \A w \in Workers : /\ WF_vars(WorkerStep(w))
                                  /\ SF_vars(Acquire(w))
                                  /\ SF_vars(Reacquire(w))
                                  /\ WF_vars(Spawn(w))
            /\ \A s \in Submitters : WF_vars(NotifyOne(s))
            /\ WF_vars(StopNotifyAll) /\ WF_vars(StopDetach)

FairSpec == Spec /\ Fairness

-----------------------------------------------------------------------------
(* Properties.                                                             *)

\* Workers that will look at the queue before they can go to sleep.
Looking == {w \in Workers : pc[w] \in {"loop", "acquire", "test", "reacquire",
                                       "check", "front", "pop"}}
Signalling == {s \in Submitters : spc[s] = "notify"}

\* A queued task never waits behind a sleeping worker: while the pool runs and
\* some worker sleeps, every queued task is matched by a worker on its way to
\* the queue or by a notify_one that is still to come.  This is what the
\* re-test of taskQueue_.empty() under the mutex in ThreadFunc and the push
\* before the notify in AddTask are for.
NoStrandedTask ==
    started /\ Blocked # {} => Len(taskQueue) <= Cardinality(Looking) + Cardinality(Signalling)

\* ThreadFunc never reads the front of an empty queue, and what it pops is
\* what it copied: no other thread removes or adds between front() and pop().
PopsWhatItRead ==
    \A w \in Workers : /\ pc[w] = "front" => taskQueue # <<>>
                       /\ pc[w] = "pop" => taskQueue # <<>> /\ task[w] = Head(taskQueue)

\* The pool keeps the promises of TaskPool: order of acceptance, at most one
\* execution of a task, nothing executed that was not submitted.
TP == INSTANCE TaskPool WITH queue <- taskQueue,
                             running <- {task[w] : w \in Running},
                             finished <- done
ImplementsTaskPool == TP!PoolSpec

\* A task that AddTask has queued is executed, unless the pool is stopped.
EveryTaskRuns == \A t \in Tasks : (t \in Queued /\ started) ~> (t \in done \/ ~started)

\* ThreadPool.hpp:102 says that Stop wakes all the workers and line 116 that
\* started_ then controls their stopping: after Stop every worker that was
\* created leaves ThreadFunc.
StopEndsWorkers ==
    (opc = "stopped") ~> (\A w \in Workers : pc[w] \in {"unborn", "exited"})
=============================================================================
