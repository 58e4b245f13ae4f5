-------------------------- MODULE ThreadPoolProofs --------------------------
(***************************************************************************)
(* ThreadPool, for every number of workers, submitters and tasks: types,   *)
(* the two safety invariants, and the implementation of TaskPool.          *)
(***************************************************************************)
EXTENDS ThreadPool, FiniteSetTheorems, TLAPS

\* mutex_ is held by the worker that is inside the block of ThreadFunc.
LockInv == \A w \in Workers : pc[w] \in Locked <=> mutex = w

\* Start is the only writer of TRUE, and it runs before there is a worker or
\* while started_ is already set.
StartInv == /\ opc \in {"spawning", "serving"} => started
            /\ opc = "spawning" => toSpawn > 0
            /\ opc = "constructed" => \A w \in Workers : pc[w] = "unborn"

\* What a worker knows of the queue from its last test of it.
QueueInv == \A w \in Workers :
    /\ pc[w] = "wait" => taskQueue = <<>>
    /\ pc[w] = "check" => taskQueue # <<>> \/ ~started
    /\ pc[w] = "front" => taskQueue # <<>>
    /\ pc[w] = "pop" => taskQueue # <<>> /\ task[w] = Head(taskQueue)
    /\ pc[w] = "run" => task[w] \in Tasks

\* A task is in one place only.
UniqueInv ==
    /\ \A i, j \in DOMAIN taskQueue : taskQueue[i] = taskQueue[j] => i = j
    /\ \A v, w \in Workers : pc[v] = "run" /\ pc[w] = "run" /\ task[v] = task[w] => v = w
    /\ \A w \in Workers : pc[w] = "run" => \A i \in DOMAIN taskQueue : taskQueue[i] # task[w]

IInv == TypeOK /\ LockInv /\ StartInv /\ QueueInv

-----------------------------------------------------------------------------

\* No action leaves the types; a counter of threads to spawn is only
\* decremented while it is positive.
LEMMA TypeStep == TypeOK /\ StartInv /\ QueueInv /\ [Next]_vars => TypeOK'
<1> SUFFICES ASSUME TypeOK, StartInv, QueueInv, [Next]_vars PROVE TypeOK'
  OBVIOUS
<1> USE DEF TypeOK, WorkerStates, Locked, OwnerStates, Goto, ownerVars
<1>1. CASE Start
  BY <1>1, ThreadNumAssumption DEF Start
<1>2. ASSUME NEW w \in Workers, Spawn(w) PROVE TypeOK'
  BY <1>2 DEF Spawn
<1>3. CASE StopClear
  BY <1>3 DEF StopClear
<1>4. CASE StopNotifyAll
  BY <1>4 DEF StopNotifyAll
<1>5. CASE StopDetach
  BY <1>5 DEF StopDetach
<1>6. CASE DestroyJoin
  BY <1>6 DEF DestroyJoin
<1>7. ASSUME NEW s \in Submitters, NEW t \in Tasks, Push(s, t) PROVE TypeOK'
  BY <1>7 DEF Push
<1>8. ASSUME NEW s \in Submitters, NotifyOne(s) PROVE TypeOK'
  BY <1>8 DEF NotifyOne
<1>9. ASSUME NEW w \in Workers, LoopTest(w) \/ Acquire(w) \/ TestQueue(w) \/ Wait(w)
      PROVE TypeOK'
  BY <1>9 DEF LoopTest, Acquire, TestQueue, Wait
<1>10. ASSUME NEW w \in Workers, Reacquire(w) \/ CheckStarted(w) \/ SpuriousWakeup(w)
       PROVE TypeOK'
  BY <1>10 DEF Reacquire, CheckStarted, SpuriousWakeup
<1>11. ASSUME NEW w \in Workers, Front(w) PROVE TypeOK'
  BY <1>11 DEF Front
<1>12. ASSUME NEW w \in Workers, Pop(w) PROVE TypeOK'
  BY <1>12 DEF Pop
<1>13. ASSUME NEW w \in Workers, Return(w) PROVE TypeOK'
  BY <1>13 DEF Return, QueueInv
<1>14. CASE UNCHANGED vars
  BY <1>14 DEF vars
<1> QED
  BY <1>1, <1>2, <1>3, <1>4, <1>5, <1>6, <1>7, <1>8, <1>9, <1>10, <1>11, <1>12, <1>13, <1>14
  DEF Next, OwnerStop, WorkerStep

-----------------------------------------------------------------------------

\* The mutex excludes: it is taken only when it is free, and released only by
\* its holder.
LEMMA LockStep == TypeOK /\ LockInv /\ StartInv /\ [Next]_vars => LockInv'
<1> SUFFICES ASSUME TypeOK, LockInv, StartInv, [Next]_vars,
                    NEW x \in Workers
             PROVE  (pc[x] \in Locked <=> mutex = x)'
  BY DEF LockInv
<1> USE WorkersAssumption DEF TypeOK, LockInv, Locked, WorkerStates, Goto, ownerVars
<1>1. CASE Start \/ OwnerStop
  BY <1>1 DEF Start, OwnerStop, StopClear, StopNotifyAll, StopDetach, DestroyJoin
<1>2. ASSUME NEW s \in Submitters, NEW t \in Tasks, Push(s, t) \/ NotifyOne(s)
      PROVE  (pc[x] \in Locked <=> mutex = x)'
  BY <1>2 DEF Push, NotifyOne
<1>3. ASSUME NEW w \in Workers, Spawn(w) \/ SpuriousWakeup(w) \/ LoopTest(w) \/ Return(w)
      PROVE  (pc[x] \in Locked <=> mutex = x)'
  BY <1>3 DEF Spawn, SpuriousWakeup, LoopTest, Return
<1>4. ASSUME NEW w \in Workers, Acquire(w) \/ Reacquire(w)
      PROVE  (pc[x] \in Locked <=> mutex = x)'
  BY <1>4 DEF Acquire, Reacquire
<1>5. ASSUME NEW w \in Workers, TestQueue(w) \/ Front(w)
      PROVE  (pc[x] \in Locked <=> mutex = x)'
  BY <1>5 DEF TestQueue, Front
<1>6. ASSUME NEW w \in Workers, Wait(w) \/ CheckStarted(w) \/ Pop(w)
      PROVE  (pc[x] \in Locked <=> mutex = x)'
  BY <1>6 DEF Wait, CheckStarted, Pop
<1>7. CASE UNCHANGED vars
  BY <1>7 DEF vars
<1>8. ASSUME NEW s \in Submitters, NotifyOne(s)
      PROVE  (pc[x] \in Locked <=> mutex = x)'
  BY <1>8 DEF NotifyOne
<1> QED
  BY <1>1, <1>2, <1>3, <1>4, <1>5, <1>6, <1>7, <1>8 DEF Next, WorkerStep

\* started_ is set exactly while Start may still have to create threads and
\* while the pool serves.
LEMMA StartStep == TypeOK /\ StartInv /\ [Next]_vars => StartInv'
<1> SUFFICES ASSUME TypeOK, StartInv, [Next]_vars PROVE StartInv'
  OBVIOUS
<1> USE DEF TypeOK, StartInv, Goto, ownerVars, OwnerStates
<1>1. CASE Start \/ OwnerStop
  BY <1>1, ThreadNumAssumption DEF Start, OwnerStop, StopClear, StopNotifyAll, StopDetach, DestroyJoin
<1>2. ASSUME NEW s \in Submitters, NEW t \in Tasks, Push(s, t) PROVE StartInv'
  BY <1>2 DEF Push
<1>3. ASSUME NEW s \in Submitters, NotifyOne(s) PROVE StartInv'
  BY <1>3 DEF NotifyOne
<1>4. ASSUME NEW w \in Workers, Spawn(w) PROVE StartInv'
  BY <1>4 DEF Spawn
<1>5. ASSUME NEW w \in Workers, WorkerStep(w) \/ SpuriousWakeup(w) PROVE StartInv'
  BY <1>5 DEF SpuriousWakeup, WorkerStep, LoopTest, Acquire, TestQueue, Wait, Reacquire,
              CheckStarted, Front, Pop, Return
<1>6. CASE UNCHANGED vars
  BY <1>6 DEF vars
<1> QED
  BY <1>1, <1>2, <1>3, <1>4, <1>5, <1>6 DEF Next

\* What a worker has learnt about the queue under the mutex stays true while it
\* holds the mutex: pushes and pops of the others need the mutex too.
LEMMA QueueStep == IInv /\ [Next]_vars => QueueInv'
<1> SUFFICES ASSUME IInv, [Next]_vars PROVE QueueInv'
  OBVIOUS
<1> USE DEF IInv, TypeOK, QueueInv, Goto, ownerVars
<1>1. CASE Start
  BY <1>1 DEF Start, StartInv
<1>2. CASE OwnerStop
  BY <1>2 DEF OwnerStop, StopClear, StopNotifyAll, StopDetach, DestroyJoin
<1>3. ASSUME NEW s \in Submitters, NEW t \in Tasks, Push(s, t) PROVE QueueInv'
  <2>1. \A w \in Workers : pc[w] \notin Locked
    BY <1>3, WorkersAssumption DEF Push, LockInv
  <2> QED
    BY <1>3, <2>1 DEF Push, Locked
<1>4. ASSUME NEW s \in Submitters, NotifyOne(s) PROVE QueueInv'
  BY <1>4 DEF NotifyOne
<1>5. ASSUME NEW w \in Workers, Spawn(w) \/ SpuriousWakeup(w) \/ LoopTest(w)
      PROVE QueueInv'
  BY <1>5 DEF Spawn, SpuriousWakeup, LoopTest
<1>6. ASSUME NEW w \in Workers, Acquire(w) \/ Reacquire(w) \/ Wait(w) \/ Return(w)
      PROVE QueueInv'
  BY <1>6 DEF Acquire, Reacquire, Wait, Return
<1>7. ASSUME NEW w \in Workers, TestQueue(w) \/ CheckStarted(w) PROVE QueueInv'
  BY <1>7 DEF TestQueue, CheckStarted
<1>8. ASSUME NEW w \in Workers, Front(w) PROVE QueueInv'
  BY <1>8 DEF Front
<1>9. ASSUME NEW w \in Workers, Pop(w) PROVE QueueInv'
  <2>1. \A v \in Workers \ {w} : pc[v] \notin Locked
    BY <1>9 DEF Pop, LockInv, Locked
  <2>2. task[w] \in Tasks
    BY <1>9 DEF Pop
  <2> QED
    BY <1>9, <2>1, <2>2 DEF Pop, Locked
<1>10. CASE UNCHANGED vars
  BY <1>10 DEF vars
<1> QED
  BY <1>1, <1>2, <1>3, <1>4, <1>5, <1>6, <1>7, <1>8, <1>9, <1>10 DEF Next, WorkerStep

LEMMA InitInv == Init => IInv
<1> SUFFICES ASSUME Init PROVE IInv
  OBVIOUS
<1> USE DEF Init
<1>1. TypeOK
  <2>1. <<>> \in Seq(Tasks)
    OBVIOUS
  <2> QED
    BY <2>1 DEF TypeOK, WorkerStates, OwnerStates
<1>2. LockInv
  BY WorkersAssumption DEF LockInv, Locked
<1> QED
  BY <1>1, <1>2 DEF IInv, StartInv, QueueInv

\* IInv is inductive.
THEOREM Inductive == Spec => []IInv
<1>1. IInv /\ [Next]_vars => IInv'
  BY TypeStep, LockStep, StartStep, QueueStep DEF IInv
<1> QED
  BY <1>1, InitInv, PTL DEF Spec

\* Type correctness of the worker pool.
THEOREM TypeCorrect == Spec => []TypeOK
BY Inductive, PTL DEF IInv

\* ThreadFunc never takes the front of an empty queue and pops what it copied.
THEOREM PopsWhatItReadHolds == Spec => []PopsWhatItRead
<1>1. IInv => PopsWhatItRead
  BY DEF IInv, QueueInv, PopsWhatItRead
<1> QED
  BY <1>1, Inductive, PTL

-----------------------------------------------------------------------------
(* No task waits behind a sleeping worker.                                 *)

\* Adding or removing one element changes a cardinality by one.
LEMMA CardinalityAdd ==
  ASSUME NEW S, IsFiniteSet(S), NEW x, x \notin S
  PROVE  Cardinality(S \cup {x}) = Cardinality(S) + 1
BY FS_AddElement

LEMMA CardinalityRemove ==
  ASSUME NEW S, IsFiniteSet(S), NEW x \in S
  PROVE  Cardinality(S \ {x}) = Cardinality(S) - 1
BY FS_RemoveElement

\* Workers on their way to the queue and pending notifications are finitely many.
LEMMA Counts == /\ IsFiniteSet(Looking) /\ Cardinality(Looking) \in Nat
                /\ IsFiniteSet(Signalling) /\ Cardinality(Signalling) \in Nat
<1>1. Looking \in SUBSET Workers /\ Signalling \in SUBSET Submitters
  BY DEF Looking, Signalling
<1>2. IsFiniteSet(Looking) /\ IsFiniteSet(Signalling)
  BY <1>1, FS_Subset, WorkersAssumption, SubmittersAssumption
<1> QED
  BY <1>2, FS_CardinalityType

LookingStates == {"loop", "acquire", "test", "reacquire", "check", "front", "pop"}

\* How a step of one worker moves the set Looking.
LEMMA LookingMoves ==
  ASSUME TypeOK, NEW w \in Workers, NEW to \in WorkerStates,
         pc' = [pc EXCEPT ![w] = to]
  PROVE  /\ pc[w] \in LookingStates /\ to \in LookingStates => Looking' = Looking
         /\ pc[w] \in LookingStates /\ to \notin LookingStates
              => Looking' = Looking \ {w} /\ w \in Looking
         /\ pc[w] \notin LookingStates /\ to \in LookingStates
              => Looking' = Looking \cup {w} /\ w \notin Looking
BY DEF TypeOK, Looking, LookingStates

\* How it changes the number of those workers.
LEMMA LookingCount ==
  ASSUME TypeOK, NEW w \in Workers, NEW to \in WorkerStates,
         pc' = [pc EXCEPT ![w] = to]
  PROVE  /\ Cardinality(Looking') \in Nat
         /\ pc[w] \in LookingStates /\ to \in LookingStates
              => Cardinality(Looking') = Cardinality(Looking)
         /\ pc[w] \notin LookingStates /\ to \in LookingStates
              => Cardinality(Looking') = Cardinality(Looking) + 1
         /\ pc[w] \in LookingStates /\ to \notin LookingStates
              => Cardinality(Looking') = Cardinality(Looking) - 1
<1>1. Cardinality(Looking') \in Nat
  <2>1. Looking' \in SUBSET Workers
    BY DEF Looking
  <2> QED
    BY <2>1, FS_Subset, FS_CardinalityType, WorkersAssumption
<1>2. ASSUME pc[w] \in LookingStates, to \in LookingStates
      PROVE  Cardinality(Looking') = Cardinality(Looking)
  <2>1. Looking' = Looking
    BY <1>2, LookingMoves
  <2> QED
    BY <2>1
<1>3. ASSUME pc[w] \in LookingStates, to \notin LookingStates
      PROVE  Cardinality(Looking') = Cardinality(Looking) - 1
  <2>1. Looking' = Looking \ {w} /\ w \in Looking
    BY <1>3, LookingMoves
  <2> QED
    BY <2>1, Counts, CardinalityRemove
<1>4. ASSUME pc[w] \notin LookingStates, to \in LookingStates
      PROVE  Cardinality(Looking') = Cardinality(Looking) + 1
  <2>1. Looking' = Looking \cup {w} /\ w \notin Looking
    BY <1>4, LookingMoves
  <2> QED
    BY <2>1, Counts, CardinalityAdd
<1> QED
  BY <1>1, <1>2, <1>3, <1>4

\* NoStrandedTask relies on the two facts of the program order: a worker goes
\* to sleep only when it has seen the queue empty under the mutex, and every
\* push is followed by a notify_one.
LEMMA NoStrandedStep == IInv /\ NoStrandedTask /\ [Next]_vars => NoStrandedTask'
<1> SUFFICES ASSUME IInv, NoStrandedTask, [Next]_vars, started', Blocked' # {}
             PROVE  Len(taskQueue') <= Cardinality(Looking') + Cardinality(Signalling')
  BY DEF NoStrandedTask
<1> DEFINE Goal == Len(taskQueue') <= Cardinality(Looking') + Cardinality(Signalling')
<1>0. /\ Cardinality(Looking) \in Nat /\ Cardinality(Signalling) \in Nat
      /\ Len(taskQueue) \in Nat
      /\ TypeOK
  BY Counts DEF IInv, TypeOK
<1>1. CASE UNCHANGED vars
  BY <1>1 DEF vars, NoStrandedTask, Blocked, Looking, Signalling
<1>2. CASE Start
  <2>1. started \/ \A w \in Workers : pc[w] = "unborn"
    BY <1>2 DEF Start, IInv, StartInv
  <2> QED
    BY <1>2, <2>1 DEF Start, NoStrandedTask, Blocked, Looking, Signalling
<1>3. CASE OwnerStop
  BY <1>3 DEF OwnerStop, StopClear, StopNotifyAll, StopDetach, DestroyJoin,
              NoStrandedTask, Blocked, Looking, Signalling, TypeOK, IInv
<1>4. ASSUME NEW s \in Submitters, NEW t \in Tasks, Push(s, t) PROVE Goal
  <2>1. Looking' = Looking /\ Blocked' = Blocked /\ started' = started
    BY <1>4 DEF Push, Looking, Blocked
  <2>2. Signalling' = Signalling \cup {s} /\ s \notin Signalling
    BY <1>4, <1>0 DEF Push, Signalling, TypeOK
  <2>3. Cardinality(Signalling') = Cardinality(Signalling) + 1
    BY <2>2, Counts, CardinalityAdd
  <2>4. Len(taskQueue') = Len(taskQueue) + 1
    BY <1>4, <1>0 DEF Push, TypeOK
  <2> QED
    BY <2>1, <2>3, <2>4, <1>0 DEF NoStrandedTask
<1>5. ASSUME NEW s \in Submitters, NotifyOne(s) PROVE Goal
  <2>1. Signalling' = Signalling \ {s} /\ s \in Signalling
    BY <1>5, <1>0 DEF NotifyOne, Signalling, TypeOK
  <2>2. Cardinality(Signalling') = Cardinality(Signalling) - 1
    BY <2>1, Counts, CardinalityRemove
  <2>3. taskQueue' = taskQueue /\ started' = started
    BY <1>5 DEF NotifyOne
  <2>4. CASE Blocked = {} /\ UNCHANGED pc
    BY <2>4 DEF Blocked
  <2>5. ASSUME NEW w \in Workers, Goto(w, "blocked", "reacquire") PROVE Goal
    <3>1. Cardinality(Looking') = Cardinality(Looking) + 1
      BY <2>5, <1>0, LookingCount DEF Goto, LookingStates, WorkerStates
    <3>2. Blocked # {}
      BY <2>5 DEF Goto, Blocked
    <3> QED
      BY <3>1, <3>2, <2>2, <2>3, <1>0 DEF NoStrandedTask
  <2> QED
    BY <1>5, <2>4, <2>5 DEF NotifyOne
<1>6. ASSUME NEW w \in Workers, NEW to \in LookingStates,
             pc' = [pc EXCEPT ![w] = to], UNCHANGED <<taskQueue, spc, started>>
      PROVE  Goal
  <2>0. to \in WorkerStates
    BY DEF LookingStates, WorkerStates, Locked
  <2>1. /\ Cardinality(Looking') \in Nat
        /\ Cardinality(Looking') >= Cardinality(Looking)
    <3>1. ASSUME pc[w] \in LookingStates PROVE Cardinality(Looking') = Cardinality(Looking)
      BY <1>6, <1>0, <2>0, <3>1, LookingCount
    <3>2. ASSUME pc[w] \notin LookingStates PROVE Cardinality(Looking') = Cardinality(Looking) + 1
      BY <1>6, <1>0, <2>0, <3>2, LookingCount
    <3> QED
      BY <3>1, <3>2, <1>0
  <2>2. Blocked # {}
    BY <1>6, <1>0 DEF Blocked, LookingStates, TypeOK
  <2>3. Signalling' = Signalling
    BY <1>6 DEF Signalling
  <2> QED
    BY <1>6, <1>0, <2>1, <2>2, <2>3 DEF NoStrandedTask
<1>7. ASSUME NEW w \in Workers, Spawn(w) \/ SpuriousWakeup(w) \/ Acquire(w) \/ Reacquire(w)
                                 \/ Front(w) \/ Return(w)
      PROVE  Goal
  BY <1>6, <1>7 DEF Spawn, SpuriousWakeup, Acquire, Reacquire, Front, Return, Goto,
                    LookingStates, ownerVars
<1>8. ASSUME NEW w \in Workers, LoopTest(w) \/ CheckStarted(w) PROVE Goal
  <2>1. started
    BY <1>8 DEF LoopTest, CheckStarted
  <2> QED
    BY <1>6, <1>8, <2>1 DEF LoopTest, CheckStarted, LookingStates
<1>9. ASSUME NEW w \in Workers, TestQueue(w) PROVE Goal
  <2>1. CASE taskQueue = <<>> /\ started
    <3>1. Len(taskQueue') = 0
      BY <1>9, <2>1 DEF TestQueue
    <3>2. /\ pc' = [pc EXCEPT ![w] = "wait"] /\ "wait" \in WorkerStates
          /\ pc[w] \in LookingStates /\ "wait" \notin LookingStates
      BY <1>9, <2>1 DEF TestQueue, LookingStates, WorkerStates, Locked
    <3>5. Cardinality(Looking') = Cardinality(Looking) - 1
      BY <3>2, <1>0, LookingCount
    <3>6. w \in Looking
      BY <3>2, <1>0, LookingMoves
    <3>3. Cardinality(Looking) # 0
      BY <3>6, Counts, FS_EmptySet
    <3>4. Signalling' = Signalling
      BY <1>9 DEF TestQueue, Signalling
    <3> QED
      BY <3>1, <3>3, <3>4, <3>5, <1>0
  <2>2. CASE ~(taskQueue = <<>> /\ started)
    BY <1>6, <1>9, <2>2 DEF TestQueue, LookingStates
  <2> QED
    BY <2>1, <2>2
<1>10. ASSUME NEW w \in Workers, Wait(w) PROVE Goal
  <2>1. Len(taskQueue') = 0
    BY <1>10 DEF Wait, Goto, IInv, QueueInv
  <2>2. Looking' = Looking /\ Signalling' = Signalling
    BY <1>10, <1>0 DEF Wait, Goto, Looking, Signalling, TypeOK
  <2> QED
    BY <2>1, <2>2, <1>0
<1>11. ASSUME NEW w \in Workers, Pop(w) PROVE Goal
  <2>0. /\ pc' = [pc EXCEPT ![w] = "run"] /\ "run" \in WorkerStates
        /\ pc[w] \in LookingStates /\ "run" \notin LookingStates
    BY <1>11 DEF Pop, Goto, LookingStates, WorkerStates
  <2>1. Cardinality(Looking') = Cardinality(Looking) - 1
    BY <2>0, <1>0, LookingCount
  <2>2. Signalling' = Signalling /\ started
    BY <1>11 DEF Pop, Signalling
  <2>3. Len(taskQueue') = Len(taskQueue) - 1
    BY <1>11, <1>0 DEF Pop, TypeOK
  <2>4. Blocked # {}
    BY <1>11, <1>0 DEF Pop, Goto, Blocked, TypeOK
  <2> QED
    BY <2>1, <2>2, <2>3, <2>4, <1>0 DEF NoStrandedTask
<1> QED
  BY <1>1, <1>2, <1>3, <1>4, <1>5, <1>7, <1>8, <1>9, <1>10, <1>11 DEF Next, WorkerStep

\* A queued task never waits behind a sleeping worker.
THEOREM NoStrandedTaskHolds == Spec => []NoStrandedTask
<1>1. Init => NoStrandedTask
  BY DEF Init, NoStrandedTask
<1> QED
  BY <1>1, NoStrandedStep, Inductive, PTL DEF Spec

-----------------------------------------------------------------------------
(* ThreadPool implements TaskPool.                                         *)

\* Two workers never run the same task, and none runs a task that is still
\* queued.
LEMMA UniqueStep == IInv /\ UniqueInv /\ [Next]_vars => UniqueInv'
<1> SUFFICES ASSUME IInv, UniqueInv, [Next]_vars PROVE UniqueInv'
  OBVIOUS
<1> USE DEF IInv, TypeOK, UniqueInv, Goto, ownerVars
<1>1. CASE Start \/ OwnerStop
  BY <1>1 DEF Start, OwnerStop, StopClear, StopNotifyAll, StopDetach, DestroyJoin
<1>2. ASSUME NEW s \in Submitters, NEW t \in Tasks, Push(s, t) PROVE UniqueInv'
  <2>1. /\ \A i \in DOMAIN taskQueue : taskQueue[i] # t
        /\ \A w \in Workers : pc[w] = "run" => task[w] # t
    BY <1>2 DEF Push, Submitted, Queued, Running
  <2>2. /\ Len(taskQueue') = Len(taskQueue) + 1
        /\ DOMAIN taskQueue' = 1 .. Len(taskQueue')
        /\ \A i \in DOMAIN taskQueue : taskQueue'[i] = taskQueue[i]
        /\ taskQueue'[Len(taskQueue')] = t
    BY <1>2 DEF Push
  <2>3. DOMAIN taskQueue = 1 .. Len(taskQueue) /\ Len(taskQueue) \in Nat
    OBVIOUS
  <2>4. pc' = pc /\ task' = task
    BY <1>2 DEF Push
  <2>5. \A i, j \in DOMAIN taskQueue' : taskQueue'[i] = taskQueue'[j] => i = j
    BY <2>1, <2>2, <2>3
  <2>6. \A w \in Workers : pc[w] = "run" => \A i \in DOMAIN taskQueue' : taskQueue'[i] # task[w]
    BY <2>1, <2>2, <2>3
  <2> QED
    BY <2>4, <2>5, <2>6
<1>3. ASSUME NEW s \in Submitters, NotifyOne(s) PROVE UniqueInv'
  BY <1>3 DEF NotifyOne
<1>4. ASSUME NEW w \in Workers, Spawn(w) \/ SpuriousWakeup(w) \/ LoopTest(w) PROVE UniqueInv'
  BY <1>4 DEF Spawn, SpuriousWakeup, LoopTest
<1>5. ASSUME NEW w \in Workers, Acquire(w) \/ Reacquire(w) \/ Wait(w) \/ Return(w)
      PROVE UniqueInv'
  BY <1>5 DEF Acquire, Reacquire, Wait, Return
<1>6. ASSUME NEW w \in Workers, TestQueue(w) \/ CheckStarted(w) \/ Front(w) PROVE UniqueInv'
  BY <1>6 DEF TestQueue, CheckStarted, Front
<1>7. ASSUME NEW w \in Workers, Pop(w) PROVE UniqueInv'
  <2>1. /\ Len(taskQueue) > 0 /\ DOMAIN taskQueue = 1 .. Len(taskQueue)
        /\ DOMAIN taskQueue' = 1 .. (Len(taskQueue) - 1)
        /\ \A i \in DOMAIN taskQueue' : taskQueue'[i] = taskQueue[i + 1]
        /\ task[w] = taskQueue[1]
    BY <1>7 DEF Pop, QueueInv
  <2>2. /\ task' = task
        /\ \A v \in Workers : pc'[v] = "run" <=> v = w \/ pc[v] = "run"
    BY <1>7 DEF Pop
  <2>3. Len(taskQueue) \in Nat
    OBVIOUS
  <2>4. \A i, j \in DOMAIN taskQueue' : taskQueue'[i] = taskQueue'[j] => i = j
    BY <2>1, <2>3
  <2>5. \A v \in Workers : pc[v] = "run" => task[v] # task[w]
    BY <2>1, <2>3
  <2>6. \A v \in Workers : pc'[v] = "run" => \A i \in DOMAIN taskQueue' : taskQueue'[i] # task[v]
    BY <2>1, <2>2, <2>3
  <2> QED
    BY <2>2, <2>4, <2>5, <2>6
<1>8. CASE UNCHANGED vars
  BY <1>8 DEF vars
<1> QED
  BY <1>1, <1>2, <1>3, <1>4, <1>5, <1>6, <1>7, <1>8 DEF Next, WorkerStep

\* Only three kinds of step change what TaskPool sees: a push is Accept, a pop
\* is Begin and the return of a task is Finish.
LEMMA PoolStep == IInv /\ UniqueInv /\ [Next]_vars => [TP!PoolNext]_(TP!poolVars)
<1> SUFFICES ASSUME IInv, UniqueInv, [Next]_vars
             PROVE  TP!PoolNext \/ UNCHANGED TP!poolVars
  OBVIOUS
<1> DEFINE R == {task[w] : w \in Running}
<1> USE DEF IInv, TypeOK, Goto, ownerVars, Running, TP!poolVars
<1>1. CASE Start \/ OwnerStop
  <2>1. Running' = Running /\ UNCHANGED <<taskQueue, task, done>>
    BY <1>1 DEF Start, OwnerStop, StopClear, StopNotifyAll, StopDetach, DestroyJoin
  <2> QED
    BY <2>1
<1>2. ASSUME NEW s \in Submitters, NEW t \in Tasks, Push(s, t) PROVE TP!Accept(t)
  BY <1>2 DEF Push, Submitted, Queued, TP!Accept, TP!Queued
<1>3. ASSUME NEW s \in Submitters, NotifyOne(s) PROVE UNCHANGED TP!poolVars
  <2>1. Running' = Running /\ UNCHANGED <<taskQueue, task, done>>
    BY <1>3 DEF NotifyOne
  <2> QED
    BY <2>1
<1>4. ASSUME NEW w \in Workers,
             \/ Spawn(w) \/ SpuriousWakeup(w) \/ LoopTest(w) \/ Acquire(w) \/ Reacquire(w)
             \/ Wait(w) \/ TestQueue(w) \/ CheckStarted(w) \/ Front(w)
      PROVE  UNCHANGED TP!poolVars
  <2>1. Running' = Running /\ w \notin Running /\ UNCHANGED <<taskQueue, done>>
    BY <1>4 DEF Spawn, SpuriousWakeup, LoopTest, Acquire, Reacquire, Wait, TestQueue,
                CheckStarted, Front
  <2>2. \A v \in Running : task'[v] = task[v]
    BY <1>4, <2>1 DEF Spawn, SpuriousWakeup, LoopTest, Acquire, Reacquire, Wait, TestQueue,
                CheckStarted, Front
  <2>3. {task'[v] : v \in Running'} = R
    BY <2>1, <2>2
  <2> QED
    BY <2>1, <2>3
<1>5. ASSUME NEW w \in Workers, Pop(w) PROVE TP!Begin
  <2>1. Running' = Running \cup {w} /\ task' = task /\ task[w] = Head(taskQueue)
    BY <1>5 DEF Pop, QueueInv
  <2>2. {task'[v] : v \in Running'} = R \cup {Head(taskQueue)}
    BY <2>1
  <2> QED
    BY <1>5, <2>2 DEF Pop, TP!Begin
<1>6. ASSUME NEW w \in Workers, Return(w), NEW t \in Tasks, t = task[w] PROVE TP!Finish(t)
  <2>1. Running' = Running \ {w} /\ task' = task /\ w \in Running
    BY <1>6 DEF Return
  <2>2. \A v \in Running : task[v] = task[w] => v = w
    BY <2>1 DEF UniqueInv
  <2>3. {task'[v] : v \in Running'} = R \ {t}
    BY <1>6, <2>1, <2>2
  <2>4. t \in R
    BY <1>6, <2>1
  <2> QED
    BY <1>6, <2>3, <2>4 DEF Return, TP!Finish
<1>7. CASE UNCHANGED vars
  BY <1>7 DEF vars
<1> HIDE DEF IInv, TypeOK, Goto, ownerVars, Running, TP!poolVars
<1>8. ASSUME NEW w \in Workers, Spawn(w) \/ WorkerStep(w) \/ SpuriousWakeup(w)
      PROVE  TP!PoolNext \/ UNCHANGED TP!poolVars
  <2>1. CASE Pop(w)
    BY <1>5, <2>1 DEF TP!PoolNext
  <2>2. CASE Return(w)
    <3>1. PICK t \in Tasks : t = task[w]
      BY <2>2 DEF Return, Goto, IInv, QueueInv
    <3>2. TP!Finish(t)
      BY <1>6, <2>2, <3>1
    <3> QED
      BY <3>2 DEF TP!PoolNext
  <2>3. CASE ~Pop(w) /\ ~Return(w)
    BY <1>4, <1>8, <2>3 DEF WorkerStep
  <2> QED
    BY <2>1, <2>2, <2>3
<1>9. ASSUME NEW s \in Submitters, NotifyOne(s) \/ \E t \in Tasks : Push(s, t)
      PROVE  TP!PoolNext \/ UNCHANGED TP!poolVars
  BY <1>2, <1>3, <1>9 DEF TP!PoolNext
<1> QED
  BY <1>1, <1>7, <1>8, <1>9 DEF Next

\* The pool accepts each task once, begins tasks in the order of acceptance and
\* executes none twice.
THEOREM PoolRefinement == Spec => ImplementsTaskPool
<1>1. Init => UniqueInv /\ TP!PoolInit
  BY DEF Init, UniqueInv, TP!PoolInit, Running
<1>2. Spec => []UniqueInv
  BY <1>1, UniqueStep, Inductive, PTL DEF Spec
<1> QED
  BY <1>1, <1>2, PoolStep, Inductive, PTL DEF Spec, ImplementsTaskPool, TP!PoolSpec
=============================================================================
