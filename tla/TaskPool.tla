------------------------------ MODULE TaskPool ------------------------------
(***************************************************************************)
(* What a pool of worker threads promises to the code that hands it tasks, *)
(* without threads, locks or condition variables: a task is accepted once, *)
(* tasks are begun in the order in which they were accepted, each of them  *)
(* at most once, and a task that was begun may finish.  ThreadPool         *)
(* implements this specification, and the connection model uses it in     *)
(* place of the threads.                                                   *)
(***************************************************************************)
EXTENDS Sequences

CONSTANT Tasks          \* the closures given to ThreadPool::AddTask

VARIABLES queue,        \* accepted and not yet begun, oldest first
          running,      \* begun and not yet finished
          finished      \* returned (or left by a caught std::bad_alloc)

poolVars == <<queue, running, finished>>

PoolInit == /\ queue = <<>>
            /\ running = {}
            /\ finished = {}

Queued == {queue[i] : i \in DOMAIN queue}

Accept(t) == /\ t \notin Queued \cup running \cup finished
             /\ queue' = Append(queue, t)
             /\ UNCHANGED <<running, finished>>

Begin == /\ queue # <<>>
         /\ running' = running \cup {Head(queue)}
         /\ queue' = Tail(queue)
         /\ UNCHANGED finished

Finish(t) == /\ t \in running
             /\ running' = running \ {t}
             /\ finished' = finished \cup {t}
             /\ UNCHANGED queue

PoolNext == \/ Begin
            \/ \E t \in Tasks : Accept(t) \/ Finish(t)

PoolSpec == PoolInit /\ [][PoolNext]_poolVars
=============================================================================
