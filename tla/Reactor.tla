------------------------------ MODULE Reactor ------------------------------
(***************************************************************************)
(* One loop thread (library/EventLoop.hpp) with its connections, the       *)
(* thread that accepts them (TcpServer), the workers of the thread pool    *)
(* that run HttpServer's tasks, and the clients.  The loop thread polls,   *)
(* runs the handlers of the active connections one after another, then     *)
(* swaps out and runs the queued functors and releases them; every other   *)
(* thread may come between any two of these steps.                         *)
(*                                                                         *)
(* A task refers to its connection through a local variable of the loop    *)
(* thread's stack frame that is gone when the task runs.  A read of the    *)
(* dead variable finds the last shared_ptr that was written there, or      *)
(* something else that ends the process (DeadRead).                        *)
(***************************************************************************)
EXTENDS TcpConnection, FiniteSets

CONSTANTS Conns,        \* TcpConnection objects, by identity
          Workers,      \* threads of the pool
          MaxRequests,  \* bound: segments that each client sends
          None

ASSUME ConnsAssumption == IsFiniteSet(Conns) /\ None \notin Conns
ASSUME MaxRequestsAssumption == MaxRequests \in Nat

VARIABLES conn,         \* the connections
          life,         \* "absent", "live" or "destroyed"
          registry,     \* TcpServer::tcpConnList_
          functors,     \* EventLoop::functorList_
          batch,        \* the functors that ExecuteTask has swapped out
          pos,          \* the next of them to run
          active,       \* activeChannelList_, from the one to handle next
          phase,        \* where the loop thread is; "crashed" ends everything
          slot,         \* the stack variables that tasks refer to
          tasks,        \* queued tasks of the pool
          wpc, wslot,   \* where each worker is in its task, and the task
          requests,     \* segments sent by each client so far
          handled,      \* tasks queued for the requests of a connection
          answers,      \* responses appended to its bufferOut_
          removals      \* runs of RemoveConnection for it

loopVars == <<functors, batch, pos, active, phase>>
poolVars == <<tasks, wpc, wslot>>
countVars == <<requests, handled, answers, removals>>
vars == <<conn, life, registry, loopVars, slot, poolVars, countVars>>

FunctorKinds == {"add", "send", "cleanup"}
Functor(k, c) == [kind |-> k, conn |-> c]
Elements(seq) == {seq[i] : i \in DOMAIN seq}

Init == /\ conn = [c \in Conns |-> New]
        /\ life = [c \in Conns |-> "absent"]
        /\ registry = {}
        /\ functors = <<>> /\ batch = <<>> /\ pos = 1 /\ active = <<>> /\ phase = "poll"
        /\ slot = [k \in Slots |-> None]
        /\ tasks = <<>>
        /\ wpc = [w \in Workers |-> "idle"]
        /\ wslot = [w \in Workers |-> None]
        /\ requests = [c \in Conns |-> 0]
        /\ handled = [c \in Conns |-> 0]
        /\ answers = [c \in Conns |-> 0]
        /\ removals = [c \in Conns |-> 0]

Running == phase # "crashed"

-----------------------------------------------------------------------------
(* The accepting thread: the body of TcpServer::OnNewConnection's loop.    *)

OnNewConnection(c) ==
    /\ Running
    /\ life[c] = "absent"
    /\ life' = [life EXCEPT ![c] = "live"]
    /\ registry' = registry \cup {c}
    /\ functors' = Append(functors, Functor("add", c))
    /\ UNCHANGED <<conn, batch, pos, active, phase, slot, poolVars, countVars>>

-----------------------------------------------------------------------------
(* The clients.                                                            *)

Client(c, s) == /\ Running
                /\ life[c] = "live"
                /\ conn' = [conn EXCEPT ![c] = s]
                /\ UNCHANGED <<life, registry, loopVars, slot, poolVars, handled, answers, removals>>

ClientSend(c) == /\ conn[c].peer = "open"
                 /\ requests[c] < MaxRequests
                 /\ requests' = [requests EXCEPT ![c] = @ + 1]
                 /\ Client(c, Arrive([conn[c] EXCEPT !.inbox = @ + 1], "IN"))

ClientShutdown(c) == /\ conn[c].peer = "open"
                     /\ Client(c, Arrive([conn[c] EXCEPT !.peer = "fin"], "IN"))
                     /\ UNCHANGED requests

ClientReset(c) == /\ conn[c].peer # "rst"
                  /\ Client(c, Arrive([conn[c] EXCEPT !.peer = "rst"], "ERR"))
                  /\ UNCHANGED requests

\* The client reads, and the kernel's send buffer has room again.
ClientDrain(c) == /\ ~conn[c].writable
                  /\ Client(c, Arrive([conn[c] EXCEPT !.writable = TRUE], "OUT"))
                  /\ UNCHANGED requests

-----------------------------------------------------------------------------
(* The loop thread.                                                        *)

\* A handler of c has left the connection as s: its functors and tasks are
\* queued, and the process is gone if the call did not return.
Effect(c, s) ==
    /\ conn' = [conn EXCEPT ![c] = [s EXCEPT !.posted = <<>>, !.jobs = <<>>, !.crash = FALSE]]
    /\ functors' = functors \o [i \in DOMAIN s.posted |-> Functor(s.posted[i], c)]
    /\ tasks' = tasks \o s.jobs
    /\ handled' = [handled EXCEPT ![c] = @ + Len(s.jobs)]

PhaseAfter(s, next) == phase' = IF s.crash THEN "crashed" ELSE next

ReadyConns == {c \in Conns : life[c] = "live" /\ Ready(conn[c])}
Orders(S) == {o \in [1 .. Cardinality(S) -> S] : \A i, j \in DOMAIN o : o[i] = o[j] => i = j}

\* An epoll_wait that has nothing to return times out and the loop looks at the
\* functors; when there are none either, the model does not step.
Poll == /\ phase = "poll"
        /\ ReadyConns # {} \/ functors # <<>>
        /\ active' \in Orders(ReadyConns)
        /\ conn' = [c \in Conns |-> IF c \in ReadyConns THEN PollReturn(conn[c]) ELSE conn[c]]
        /\ phase' = "dispatch"
        /\ UNCHANGED <<life, registry, functors, batch, pos, slot, poolVars, countVars>>

\* A handler of c has put a shared_ptr to it in the stack variables of HandleRead
\* (read) and of HandleClose, which are given away with the task.
Leave(c, s, read) ==
    slot' = [k \in Slots |-> IF \/ k = "read" /\ read
                                \/ k = "close" /\ "close" \in Elements(s.jobs)
                             THEN c ELSE slot[k]]

Dispatch ==
    /\ phase = "dispatch" /\ active # <<>>
    /\ LET c == Head(active)
       IN  \E request \in Requests, exact \in BOOLEAN, how \in Outcomes :
             LET s == HandleEvent(conn[c], request, exact, how)
             IN  /\ Effect(c, s)
                 /\ PhaseAfter(s, "dispatch")
                 /\ Leave(c, s, Handler(conn[c]) = "HandleRead"
                                /\ NamesItself(conn[c], request, exact))
    /\ active' = Tail(active)
    /\ UNCHANGED <<life, registry, batch, pos, wpc, wslot, requests, answers, removals>>

\* After the last handler: ExecuteTask swaps functorList_ out.
ExecuteTask == /\ phase = "dispatch" /\ active = <<>>
               /\ IF functors = <<>>
                  THEN phase' = "poll" /\ UNCHANGED <<functors, batch>>
                  ELSE phase' = "tasks" /\ batch' = functors /\ functors' = <<>>
               /\ UNCHANGED <<conn, life, registry, pos, active, slot, poolVars, countVars>>

RunFunctor(kind) == /\ phase = "tasks" /\ pos <= Len(batch)
                    /\ batch[pos].kind = kind
                    /\ pos' = pos + 1
                    /\ UNCHANGED <<life, batch, active, wpc, wslot, requests, answers>>

RunAddChannel == /\ RunFunctor("add")
                 /\ conn' = [conn EXCEPT ![batch[pos].conn] = AddChannel(@)]
                 /\ UNCHANGED <<registry, functors, phase, slot, tasks, handled, removals>>

RunSendInLoop == /\ RunFunctor("send")
                 /\ \E how \in Outcomes :
                      LET s == SendInLoop(conn[batch[pos].conn], how)
                      IN  /\ Effect(batch[pos].conn, s)
                          /\ PhaseAfter(s, "tasks")
                          /\ Leave(batch[pos].conn, s, FALSE)
                 /\ UNCHANGED <<registry, removals>>

\* TcpServer::RemoveConnection, which the loop thread runs under the server's
\* mutex.
RunRemoveConnection == /\ RunFunctor("cleanup")
                       /\ registry' = registry \ {batch[pos].conn}
                       /\ removals' = [removals EXCEPT ![batch[pos].conn] = @ + 1]
                       /\ UNCHANGED <<conn, functors, phase, slot, tasks, handled>>

\* Every shared_ptr to c outside the batch: the registry, its own timer, and
\* the functors that bind it.  AddChannel binds a raw pointer.
Held(c) == \/ c \in registry
           \/ conn[c].timer
           \/ \E f \in Elements(functors) : f.conn = c /\ f.kind # "add"

\* functorlists.clear() runs the destructor of the connections that only the
\* batch still held; it takes the socket out of epoll.
Dropped == {c \in Conns : ~Held(c) /\ \E f \in Elements(batch) : f.conn = c /\ f.kind # "add"}
Destroy(S) == life' = [c \in Conns |-> IF c \in S THEN "destroyed" ELSE life[c]]
Unregister(S) == conn' = [c \in Conns |-> IF c \in S THEN RemoveChannel(conn[c]) ELSE conn[c]]

\* Changes of Release: the position in the batch is not reset; the destructor
\* leaves the socket in epoll.
ReleaseKeepsPos ==
    /\ phase = "tasks" /\ pos > Len(batch)
    /\ Destroy(Dropped) /\ Unregister(Dropped)
    /\ batch' = <<>> /\ phase' = "poll"
    /\ UNCHANGED <<registry, pos, functors, active, slot, poolVars, countVars>>

ReleaseKeepsChannel ==
    /\ phase = "tasks" /\ pos > Len(batch)
    /\ Destroy(Dropped)
    /\ batch' = <<>> /\ pos' = 1 /\ phase' = "poll"
    /\ UNCHANGED <<conn, registry, functors, active, slot, poolVars, countVars>>

Release ==
    /\ phase = "tasks" /\ pos > Len(batch)
    /\ Destroy(Dropped) /\ Unregister(Dropped)
    /\ batch' = <<>> /\ pos' = 1 /\ phase' = "poll"
    /\ UNCHANGED <<registry, functors, active, slot, poolVars, countVars>>

-----------------------------------------------------------------------------
(* A worker: the closure that HttpServer::HandleMessage gives to AddTask.  *)

\* The connection that the task's reference denotes now.
Target(w) == slot[wslot[w]]

Begin(w) == /\ Running
            /\ wpc[w] = "idle" /\ tasks # <<>>
            /\ wpc' = [wpc EXCEPT ![w] = "check"]
            /\ wslot' = [wslot EXCEPT ![w] = Head(tasks)]
            /\ tasks' = Tail(tasks)
            /\ UNCHANGED <<conn, life, registry, loopVars, slot, countVars>>

\* One access of the worker to its connection.
Access(w, from, to, s) ==
    /\ Running
    /\ wpc[w] = from /\ wpc' = [wpc EXCEPT ![w] = to]
    /\ life[Target(w)] = "live"
    /\ conn' = [conn EXCEPT ![Target(w)] = s]
    /\ UNCHANGED <<life, registry, batch, pos, active, phase, slot, tasks, wslot, requests,
                   handled, removals>>

CheckConnected(w) ==
    /\ Access(w, "check", IF conn[Target(w)].disc THEN "idle" ELSE "answer", conn[Target(w)])
    /\ UNCHANGED <<functors, answers>>

\* The request handler appends a response to bufferOut_; an error response takes
\* the place of what is there.
Answer(w) ==
    /\ wpc[w] = "answer"
    /\ \E kept \in {0, conn[Target(w)].out} :
            Access(w, "answer", "flush", [conn[Target(w)] EXCEPT !.out = kept + ResponseSize])
    /\ answers' = [answers EXCEPT ![Target(w)] = @ + 1]
    /\ UNCHANGED functors

\* A change of SendBufferOut: SendInLoop is not queued.
SendBufferOutLost(w) ==
    /\ Access(w, "flush", "reset", [conn[Target(w)] EXCEPT !.async = FALSE])
    /\ UNCHANGED <<functors, answers>>

\* SendBufferOut in a thread that is not the loop thread.
SendBufferOut(w) ==
    /\ Access(w, "flush", "reset", [conn[Target(w)] EXCEPT !.async = FALSE])
    /\ functors' = Append(functors, Functor("send", Target(w)))
    /\ UNCHANGED answers

ResetAsync(w) ==
    /\ Access(w, "reset", "idle", [conn[Target(w)] EXCEPT !.async = FALSE])
    /\ UNCHANGED <<functors, answers>>

\* Another call has used that part of the stack since, or the connection that
\* the shared_ptr there pointed to has been destroyed.
DeadRead(w) ==
    /\ Running
    /\ wpc[w] # "idle"
    /\ phase' = "crashed"
    /\ UNCHANGED <<conn, life, registry, functors, batch, pos, active, slot, poolVars, countVars>>

-----------------------------------------------------------------------------

LoopStep == \/ Poll \/ Dispatch \/ ExecuteTask \/ RunAddChannel \/ RunSendInLoop
            \/ RunRemoveConnection \/ Release

WorkerStep(w) == \/ Begin(w) \/ CheckConnected(w) \/ Answer(w) \/ SendBufferOut(w)
                 \/ ResetAsync(w) \/ DeadRead(w)

ClientStep(c) == ClientSend(c) \/ ClientShutdown(c) \/ ClientReset(c) \/ ClientDrain(c)

Next == \/ LoopStep
        \/ \E w \in Workers : WorkerStep(w)
        \/ \E c \in Conns : OnNewConnection(c) \/ ClientStep(c)

Spec == Init /\ [][Next]_vars

\* The loop thread and the workers are scheduled, and a client reads what it
\* is sent sooner or later; nobody has to connect, to send or to close.
Fairness == /\ WF_vars(LoopStep)
            /\ \A w \in Workers : WF_vars(WorkerStep(w))
            /\ \A c \in Conns : WF_vars(ClientDrain(c))

FairSpec == Spec /\ Fairness

-----------------------------------------------------------------------------
(* Properties.                                                             *)

Connection == [disc : BOOLEAN, half : BOOLEAN, async : BOOLEAN, bound : BOOLEAN,
               healthy : BOOLEAN, timer : BOOLEAN, inBuf : BOOLEAN, out : Nat,
               events : SUBSET (Mask \cup Returnable), interest : SUBSET (Mask \cup Returnable),
               edge : BOOLEAN, inbox : 0 .. MaxRequests, peer : {"open", "fin", "rst"},
               writable : BOOLEAN, posted : {<<>>}, jobs : {<<>>}, crash : {FALSE}]

TypeOK == /\ conn \in [Conns -> Connection]
          /\ life \in [Conns -> {"absent", "live", "destroyed"}]
          /\ registry \subseteq Conns
          /\ functors \in Seq([kind : FunctorKinds, conn : Conns])
          /\ batch \in Seq([kind : FunctorKinds, conn : Conns])
          /\ pos \in 1 .. Len(batch) + 1
          /\ active \in Seq(Conns)
          /\ phase \in {"poll", "dispatch", "tasks", "crashed"}
          /\ slot \in [Slots -> Conns \cup {None}]
          /\ tasks \in Seq(Slots)
          /\ wpc \in [Workers -> {"idle", "check", "answer", "flush", "reset"}]
          /\ wslot \in [Workers -> Slots \cup {None}]
          /\ requests \in [Conns -> 0 .. MaxRequests]
          /\ \A c \in Conns : {handled[c], answers[c], removals[c]} \subseteq Nat

\* The functors still to run, in order.
Pending == SubSeq(batch, pos, Len(batch)) \o functors
PendingOf(f) == {i \in DOMAIN Pending : Pending[i] = f}

\* A connection is handed to TcpServer::RemoveConnection once for its whole
\* life, however many of read, write, error, send and the two half-close paths
\* decide to close it: HandleClose's test of disConnected_ and its posting of
\* connectioncleanup_ (TcpConnection.hpp:497-529) belong together.
CleanupOnce ==
    \A c \in Conns :
        Cardinality(PendingOf(Functor("cleanup", c))) + removals[c] = IF conn[c].disc THEN 1 ELSE 0

\* The raw Channel and connection pointers that epoll, activeChannelList_ and
\* functorList_ keep never outlive their connection: the destructor leaves none
\* behind (TcpConnection.hpp:170-179).
NoDanglingChannel ==
    \A c \in Conns :
        \/ Registered(conn[c]) \/ c \in Elements(active)
        \/ \E i \in DOMAIN Pending : Pending[i].conn = c
        => life[c] = "live"

\* Each connection is accepted, closed, removed and destroyed once and in this
\* order, and nothing is sent after it was closed, whatever the workers and the
\* client do meanwhile.
StageOf(c) == CASE life[c] # "live" -> life[c]
                [] life[c] = "live" /\ removals[c] > 0 -> "removed"
                [] life[c] = "live" /\ removals[c] = 0 /\ conn[c].disc -> "closing"
                [] OTHER -> "open"
CL == INSTANCE ConnectionLifecycle WITH stage <- [c \in Conns |-> StageOf(c)],
                                        unsent <- {c \in Conns : conn[c].out > 0}
ImplementsLifecycle == CL!LifecycleSpec

\* While a connection is open, somebody still has to look at what is in its
\* bufferOut_: a queued SendInLoop, a task that has yet to queue one, or epoll.
\* It relates Answer, SendBufferOut, SendInLoop and HandleWrite, which two
\* threads run.
WillFlush(c) == \/ \E i \in DOMAIN tasks : slot[tasks[i]] = c
                \/ \E w \in Workers : wpc[w] \in {"check", "answer", "flush"} /\ Target(w) = c
NoStuckOutput ==
    Running => \A c \in Conns :
        life[c] = "live" /\ ~conn[c].disc /\ conn[c].out > 0
            => \/ PendingOf(Functor("send", c)) # {}
               \/ WillFlush(c)
               \/ "OUT" \in conn[c].interest

\* What a handler has put into bufferOut_ leaves the server or the connection
\* is closed.
OutputLeaves == \A c \in Conns : conn[c].out > 0 ~> (conn[c].out = 0 \/ conn[c].disc \/ ~Running)

\* HandleClose only half closes a connection whose task is still running; it
\* counts on the task's answer to come back to HandleClose
\* (TcpConnection.hpp:356-358,426-428), and the connection is closed in the end.
HalfCloseCompletes == \A c \in Conns : conn[c].half ~> (conn[c].disc \/ ~Running)

\* TcpConnection.hpp:490-491: the server cannot tell a close from a shutdown and
\* "sends all the data, then closes": a connection that the peer has not reset
\* is not closed with something in bufferOut_.
CloseSendsFirst == [][\A c \in Conns : ~conn[c].disc /\ conn'[c].disc /\ conn[c].peer # "rst"
                                            => conn'[c].out = 0]_vars

\* HttpServer.hpp:221,229: a keep-alive connection is kept: the server does not
\* close a connection whose client is there and sends requests it can serve.
KeepAliveStays == [][\A c \in Conns : ~conn[c].disc /\ conn'[c].disc
                                            /\ conn[c].healthy /\ conn'[c].healthy /\ conn'[c].bound
                                            => conn[c].peer # "open"]_vars

\* TcpConnection.hpp:525-527: connectioncleanup_ drops the server's pointer, no
\* other is left, and the connection is destroyed.
ClosedIsDestroyed == \A c \in Conns : conn[c].disc ~> (life[c] = "destroyed" \/ ~Running)

\* HttpServer.hpp:78-83,265: the handler processes the request of the connection
\* that was handed to it and sends the resource to that client: a connection
\* never gets more responses than requests were taken from it.
AnswersItsOwnRequests == \A c \in Conns : answers[c] <= handled[c]
=============================================================================
