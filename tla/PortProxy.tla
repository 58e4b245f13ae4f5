----------------------------- MODULE PortProxy ------------------------------
(***************************************************************************)
(* library/PortProxyServer.hpp up to the connection with a target: the     *)
(* request goes to a worker, which moves the index of the targets of the   *)
(* service on and connects to the one it then names.                       *)
(*                                                                         *)
(* ProxyProcess reads targetSelectIndex, writes it and reads it again,     *)
(* without a lock.  One service is registered, with all its targets, when  *)
(* the server starts.  What follows a connection is module ProxyRelay.     *)
(***************************************************************************)
EXTENDS Naturals

CONSTANTS ProxyWorkers,   \* the threads of threadpool_
          TargetNum,      \* targets registered for the service
          MaxRequests     \* bound: requests

ASSUME TargetNumAssumption == TargetNum \in Nat \ {0} /\ MaxRequests \in Nat

VARIABLES selectIndex,    \* targetSelectIndex of the service
          proxyWorker,    \* each worker: its step in ProxyProcess and the index it has read
          picks,          \* how often each index has named the target
          selectRaced,    \* two workers have been between their accesses at once
          waitingTasks,   \* tasks in the pool's queue
          requests,       \* requests so far
          pages           \* error pages so far

proxyVars == <<selectIndex, proxyWorker, picks, selectRaced, waitingTasks, requests, pages>>

\* registerPortProxy, once for each target: it leaves the number of targets.
RegisteredIndex == TargetNum

ProxyInit == /\ selectIndex = RegisteredIndex
             /\ proxyWorker = [w \in ProxyWorkers |-> [at |-> "idle", index |-> 0]]
             /\ picks = [i \in 0 .. TargetNum |-> 0]
             /\ selectRaced = FALSE
             /\ waitingTasks = 0 /\ requests = 0 /\ pages = 0

-----------------------------------------------------------------------------

\* A request that was not understood gets an error page and no task.
HandleRequest == /\ requests < MaxRequests
                 /\ requests' = requests + 1
                 /\ \/ waitingTasks' = waitingTasks + 1 /\ UNCHANGED pages
                    \/ pages' = pages + 1 /\ UNCHANGED waitingTasks
                 /\ UNCHANGED <<selectIndex, proxyWorker, picks, selectRaced>>

WorkerAt(w, from, to) ==
    /\ proxyWorker[w].at = from
    /\ proxyWorker' = [proxyWorker EXCEPT ![w] = to]
    /\ UNCHANGED requests

Selecting == {w \in ProxyWorkers : proxyWorker[w].at \in {"write", "use"}}

\* The task begins; the service of the request is registered or it is not.
BeginTask(w) == /\ waitingTasks > 0
                /\ waitingTasks' = waitingTasks - 1
                /\ \/ /\ WorkerAt(w, "idle", [at |-> "write", index |-> selectIndex])
                      /\ selectRaced' = (selectRaced \/ Selecting # {})
                      /\ UNCHANGED pages
                   \/ /\ WorkerAt(w, "idle", proxyWorker[w])
                      /\ pages' = pages + 1
                      /\ UNCHANGED selectRaced
                /\ UNCHANGED <<selectIndex, picks>>

\* A change of NextIndex: counted from one.
NextIndexFromOne(i) == (i % TargetNum) + 1
NextIndex(i) == (i + 1) % TargetNum

WriteIndex(w) == /\ WorkerAt(w, "write", [at |-> "use", index |-> NextIndex(proxyWorker[w].index)])
                 /\ selectIndex' = NextIndex(proxyWorker[w].index)
                 /\ UNCHANGED <<selectRaced, picks, waitingTasks, pages>>

\* The second read of the index names the target.
UseIndex(w) == /\ WorkerAt(w, "use", [at |-> "connect", index |-> selectIndex])
               /\ picks' = [picks EXCEPT ![selectIndex] = @ + 1]
               /\ UNCHANGED <<selectIndex, selectRaced, waitingTasks, pages>>

\* The target answers, and the worker is back when the relay has ended; or it
\* does not, and the client gets an error page.
ConnectTarget(w) == /\ WorkerAt(w, "connect", [at |-> "idle", index |-> 0])
                    /\ pages' \in {pages, pages + 1}
                    /\ UNCHANGED <<selectIndex, picks, selectRaced, waitingTasks>>

ProxyNext == \/ HandleRequest
             \/ \E w \in ProxyWorkers : BeginTask(w) \/ WriteIndex(w) \/ UseIndex(w) \/ ConnectTarget(w)

ProxySpec == ProxyInit /\ [][ProxyNext]_proxyVars

-----------------------------------------------------------------------------
(* Properties.                                                             *)

ProxyTypeOK == /\ selectIndex \in 0 .. TargetNum
               /\ proxyWorker \in [ProxyWorkers -> [at : {"idle", "write", "use", "connect"},
                                                    index : 0 .. TargetNum]]
               /\ picks \in [0 .. TargetNum -> 0 .. MaxRequests]
               /\ selectRaced \in BOOLEAN
               /\ requests \in 0 .. MaxRequests
               /\ waitingTasks + pages <= 2 * requests

\* The index that was registered, one past the last target, is never used, in
\* whatever order the workers read and write; and as long as they do not get
\* between each other's accesses the targets serve in turn, each as often as the
\* others or once more (PortProxyServer.hpp:166,259,260).
SelectsInTurn ==
    /\ picks[TargetNum] = 0
    /\ ~selectRaced => \A i, j \in 0 .. TargetNum - 1 : picks[i] <= picks[j] + 1
=============================================================================
