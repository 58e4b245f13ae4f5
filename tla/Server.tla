------------------------------- MODULE Server -------------------------------
(***************************************************************************)
(* library/TcpServer.hpp with EventLoopThread.hpp, EventLoopThreadPool.hpp *)
(* and Socket.hpp: the thread that accepts, the table of connections and   *)
(* its counter, and the life of the threads that run the event loops.      *)
(*                                                                         *)
(* The listening socket is edge triggered.  ++connCount_ of the accepting  *)
(* thread and --connCount_ of a loop's thread are a read and a write each; *)
(* only the second holds mutex_.  What a connection does between its       *)
(* registration and its removal is in module Reactor.  The pool has at     *)
(* least one thread, and is destroyed when no connection is left.          *)
(***************************************************************************)
EXTENDS Integers, FiniteSets, Sequences

CONSTANTS ClientNum,      \* bound: connections that are asked for
          ThreadNum,      \* threadnum
          MaxConnection,  \* MAXCONNECTION
          MaxAcceptErrors \* bound: failures of accept other than EAGAIN

ASSUME ClientNumAssumption == ClientNum \in Nat
ASSUME ThreadNumAssumption == ThreadNum \in Nat \ {0}
ASSUME MaxConnectionAssumption == {MaxConnection, MaxAcceptErrors} \subseteq Nat

VARIABLES acceptor,       \* the accepting thread: its step, the connection, its copy of connCount_
          clientfd,       \* what Accept has returned last: a descriptor, 0 or -1
          backlog,        \* the connections the kernel has ready
          edge,           \* epoll has an event of the listening socket
          client,         \* each connection: where it is, its descriptor, its loop, and
                          \* the copy of connCount_ of the thread that removes it
          tcpConnList,    \* tcpConnList_: a descriptor to its connection, 0 when absent
          connCount,      \* connCount_
          listMutex,      \* the connection whose removal holds mutex_, or 0
          raced,          \* a write of connCount_ has undone another one
          loopThread,     \* each EventLoopThread: where its thread is, and quit_ of its loop
          nextLoop,       \* index_
          owner,          \* the thread that destroys the server: its step, and the loop it is at
          acceptErrors    \* accepts that have failed so far

acceptVars == <<acceptor, clientfd, backlog, edge, nextLoop, acceptErrors>>
tableVars == <<client, tcpConnList, connCount, listMutex, raced>>
threadLifeVars == <<loopThread, owner>>
serverVars == <<acceptVars, tableVars, threadLifeVars>>

Loops == 0 .. ThreadNum - 1
Clients == 1 .. ClientNum
Descriptors == 1 .. ClientNum
ClientStages == {"absent", "waiting", "accepted", "refused",
                 "live", "removing", "removed", "leaked", "closed"}

ServerInit ==
    /\ acceptor = [at |-> "idle", client |-> 0, count |-> 0]
    /\ clientfd = 0 /\ backlog = <<>> /\ edge = FALSE
    /\ client = [c \in Clients |-> [at |-> "absent", fd |-> 0, loop |-> 0, count |-> 0]]
    /\ tcpConnList = [d \in Descriptors |-> 0]
    /\ connCount = 0 /\ listMutex = 0 /\ raced = FALSE
    /\ loopThread = [l \in Loops |-> [at |-> "created", quit |-> TRUE]]
    /\ nextLoop = 0 /\ acceptErrors = 0
    /\ owner = [at |-> "serving", loop |-> 0]

-----------------------------------------------------------------------------
(* Accepting.                                                              *)

Crashed == owner.at = "crashed"

\* The connections are numbered as they arrive.
Connect(c) == /\ owner.at = "serving" /\ client[c].at = "absent"
              /\ \A d \in 1 .. c - 1 : client[d].at # "absent"
              /\ client' = [client EXCEPT ![c].at = "waiting"]
              /\ backlog' = Append(backlog, c) /\ edge' = TRUE
              /\ UNCHANGED <<acceptor, clientfd, nextLoop, acceptErrors, threadLifeVars,
                             tcpConnList, connCount, listMutex, raced>>

Acceptor(from) == acceptor.at = from /\ ~Crashed /\ UNCHANGED loopThread

ListenEvent == /\ Acceptor("idle") /\ edge /\ owner.at = "serving"
               /\ edge' = FALSE
               /\ acceptor' = [acceptor EXCEPT !.at = "accept"]
               /\ UNCHANGED <<clientfd, backlog, nextLoop, acceptErrors, tableVars, owner>>

\* The kernel gives out the lowest descriptor that is free.
FreeDescriptors == Descriptors \ {client[c].fd : c \in Clients}
LowestFree == CHOOSE d \in FreeDescriptors : \A e \in FreeDescriptors : d <= e

AcceptOne == /\ Acceptor("accept") /\ backlog # <<>>
             /\ clientfd' = LowestFree
             /\ client' = [client EXCEPT ![Head(backlog)] = [@ EXCEPT !.at = "accepted", !.fd = LowestFree]]
             /\ acceptor' = [acceptor EXCEPT !.at = "read", !.client = Head(backlog)]
             /\ backlog' = Tail(backlog)
             /\ UNCHANGED <<edge, nextLoop, acceptErrors, tcpConnList, connCount, listMutex, raced, owner>>

AcceptNone == /\ Acceptor("accept") /\ backlog = <<>>
              /\ clientfd' = 0
              /\ acceptor' = [acceptor EXCEPT !.at = "idle"]
              /\ UNCHANGED <<backlog, edge, nextLoop, acceptErrors, tableVars, owner>>

\* No descriptor is left: the connection stays in the backlog.
AcceptFails == /\ Acceptor("accept") /\ backlog # <<>> /\ acceptErrors < MaxAcceptErrors
               /\ clientfd' = -1
               /\ acceptErrors' = acceptErrors + 1
               /\ acceptor' = [acceptor EXCEPT !.at = "idle"]
               /\ UNCHANGED <<backlog, edge, nextLoop, tableVars, owner>>

CountRead == /\ Acceptor("read")
             /\ acceptor' = [acceptor EXCEPT !.at = "write", !.count = connCount]
             /\ UNCHANGED <<clientfd, backlog, edge, nextLoop, acceptErrors, tableVars, owner>>

\* A refused connection is closed, and stays counted.
CountWrite ==
    LET c == acceptor.client
        full == acceptor.count + 1 >= MaxConnection
    IN  /\ Acceptor("write")
        /\ connCount' = acceptor.count + 1
        /\ raced' = (raced \/ connCount # acceptor.count)
        /\ client' = IF full THEN [client EXCEPT ![c].at = "refused", ![c].fd = 0] ELSE client
        /\ acceptor' = [acceptor EXCEPT !.at = IF full THEN "accept" ELSE "register"]
        /\ UNCHANGED <<clientfd, backlog, edge, nextLoop, acceptErrors, tcpConnList, listMutex, owner>>

\* GetNextLoop, the entry in tcpConnList_ and AddChannelToLoop, which uses a
\* loop_ that the loop's thread may not have set.
Registered(next) ==
    LET c == acceptor.client
    IN  /\ Acceptor("register") /\ listMutex = 0
        /\ nextLoop' = (nextLoop + 1) % ThreadNum
        /\ tcpConnList' = [tcpConnList EXCEPT ![clientfd] = c]
        /\ IF loopThread[nextLoop].at = "created"
           THEN owner' = [owner EXCEPT !.at = "crashed"] /\ UNCHANGED client
           ELSE UNCHANGED owner /\ client' = [client EXCEPT ![c].at = "live", ![c].loop = nextLoop]
        /\ acceptor' = [acceptor EXCEPT !.at = next]
        /\ UNCHANGED <<clientfd, backlog, edge, acceptErrors, connCount, listMutex, raced>>

\* A change of Register: one connection is taken for each event.
RegisterOne == Registered("idle")
Register == Registered("accept")

-----------------------------------------------------------------------------
(* RemoveConnection, in the thread of the connection's loop.               *)

Remover == ~Crashed /\ UNCHANGED <<acceptVars, threadLifeVars>>

RemoveRead(c) == /\ Remover /\ client[c].at = "live" /\ listMutex = 0
                 /\ loopThread[client[c].loop].at = "looping"
                 /\ listMutex' = c
                 /\ client' = [client EXCEPT ![c].at = "removing", ![c].count = connCount]
                 /\ UNCHANGED <<tcpConnList, connCount, raced>>

\* Changes of RemoveWrite: the connection stays counted, or is closed before it
\* has left the table.
RemoveForgetsCount(c) ==
    /\ Remover /\ client[c].at = "removing"
    /\ tcpConnList' = [tcpConnList EXCEPT ![client[c].fd] = 0]
    /\ client' = [client EXCEPT ![c].at = "removed"]
    /\ listMutex' = 0
    /\ UNCHANGED <<connCount, raced>>
RemoveKeepsEntry(c) ==
    /\ Remover /\ client[c].at = "removing"
    /\ connCount' = client[c].count - 1
    /\ raced' = (raced \/ connCount # client[c].count)
    /\ client' = [client EXCEPT ![c].at = "removed"]
    /\ listMutex' = 0
    /\ UNCHANGED tcpConnList

\* A connection that was bound to a service is kept by its timer, with its
\* descriptor.
RemoveWrite(c) ==
    /\ Remover /\ client[c].at = "removing"
    /\ connCount' = client[c].count - 1
    /\ raced' = (raced \/ connCount # client[c].count)
    /\ tcpConnList' = [tcpConnList EXCEPT ![client[c].fd] = 0]
    /\ \E at \in {"removed", "leaked"} : client' = [client EXCEPT ![c].at = at]
    /\ listMutex' = 0

\* ~TcpConnection.
CloseClient(c) == /\ Remover /\ client[c].at = "removed"
                  /\ client' = [client EXCEPT ![c].at = "closed", ![c].fd = 0]
                  /\ UNCHANGED <<tcpConnList, connCount, listMutex, raced>>

-----------------------------------------------------------------------------
(* EventLoopThread::ThreadFunc, and ~EventLoopThreadPool.                  *)

LoopMoves(l, from, to) == /\ loopThread[l].at = from /\ ~Crashed
                          /\ loopThread' = [loopThread EXCEPT ![l] = to]
                          /\ UNCHANGED <<acceptVars, tableVars, owner>>

\* The constructor of the loop, whose quit_ is true, and loop_ = &loop.
LoopSet(l) == LoopMoves(l, "created", [at |-> "set", quit |-> TRUE])

\* loop() clears quit_.
LoopEnter(l) == LoopMoves(l, "set", [at |-> "looping", quit |-> FALSE])

\* The test of quit_, between two batches of events.
LoopEnd(l) == /\ loopThread[l].quit
              /\ \A c \in Clients : client[c].loop = l => client[c].at # "removing"
              /\ LoopMoves(l, "looping", [at |-> "ended", quit |-> TRUE])

Owner(from) == owner.at = from /\ UNCHANGED <<acceptVars, tableVars>>

Destroy == /\ Owner("serving")
           /\ acceptor.at = "idle" /\ backlog = <<>>
           /\ \A c \in Clients : client[c].at \in {"absent", "refused", "leaked", "closed"}
           /\ owner' = [at |-> "quit", loop |-> 0]
           /\ UNCHANGED loopThread

\* ~EventLoopThread: loop_->Quit() and join.
DestroyQuit ==
    /\ Owner("quit")
    /\ IF loopThread[owner.loop].at = "created"
       THEN owner' = [owner EXCEPT !.at = "crashed"] /\ UNCHANGED loopThread
       ELSE /\ owner' = [owner EXCEPT !.at = IF loopThread[owner.loop].at = "set" THEN "early" ELSE "join"]
            /\ loopThread' = [loopThread EXCEPT ![owner.loop].quit = TRUE]

\* The join waits for a Quit that the loop has lost, too.
Joining == \E at \in {"early", "join"} : Owner(at)

\* A change of DestroyJoin: the loops after the first are joined without a Quit.
JoinOnly == /\ Joining
            /\ loopThread[owner.loop].at = "ended"
            /\ owner' = IF owner.loop + 1 = ThreadNum THEN [owner EXCEPT !.at = "destroyed"]
                        ELSE [at |-> "join", loop |-> owner.loop + 1]
            /\ UNCHANGED loopThread

DestroyJoin == /\ Joining
               /\ loopThread[owner.loop].at = "ended"
               /\ owner' = IF owner.loop + 1 = ThreadNum THEN [owner EXCEPT !.at = "destroyed"]
                           ELSE [at |-> "quit", loop |-> owner.loop + 1]
               /\ UNCHANGED loopThread

-----------------------------------------------------------------------------

AcceptStep == \/ ListenEvent \/ AcceptOne \/ AcceptNone \/ AcceptFails \/ CountRead \/ CountWrite
              \/ Register
LoopStep(l) == LoopSet(l) \/ LoopEnter(l) \/ LoopEnd(l)
DestroyStep == DestroyQuit \/ DestroyJoin

ServerNext == \/ AcceptStep \/ Destroy \/ DestroyStep
              \/ \E c \in Clients : Connect(c) \/ RemoveRead(c) \/ RemoveWrite(c) \/ CloseClient(c)
              \/ \E l \in Loops : LoopStep(l)

ServerSpec == ServerInit /\ [][ServerNext]_serverVars

-----------------------------------------------------------------------------
(* Properties.                                                             *)

ServerTypeOK ==
    /\ acceptor \in [at : {"idle", "accept", "read", "write", "register"},
                     client : Clients \cup {0}, count : Int]
    /\ clientfd \in Descriptors \cup {0, -1}
    /\ backlog \in Seq(Clients) /\ edge \in BOOLEAN
    /\ client \in [Clients -> [at : ClientStages, fd : Descriptors \cup {0}, loop : Loops, count : Int]]
    /\ tcpConnList \in [Descriptors -> Clients \cup {0}]
    /\ connCount \in Int /\ listMutex \in Clients \cup {0} /\ raced \in BOOLEAN
    /\ loopThread \in [Loops -> [at : {"created", "set", "looping", "ended"}, quit : BOOLEAN]]
    /\ nextLoop \in Loops /\ acceptErrors \in 0 .. MaxAcceptErrors
    /\ owner \in [at : {"serving", "quit", "early", "join", "destroyed", "crashed"}, loop : Loops]

\* A descriptor is given out again only when nothing of its last connection is
\* left: the table names every connection in service under its own descriptor
\* and nothing else, although entries are made and erased by number in
\* different threads (TcpServer.hpp:285,315).
InService == {c \in Clients : client[c].at \in {"live", "removing"}}
RegistryMatches ==
    ~Crashed => \A d \in Descriptors, c \in Clients :
                    tcpConnList[d] = c <=> c \in InService /\ client[c].fd = d

\* As long as no update of connCount_ has undone another one, it counts the
\* connections in service and, for ever, each one that was refused: the table
\* stays below MAXCONNECTION, and refusals use its places up
\* (TcpServer.hpp:267,314).
Refused == {c \in Clients : client[c].at = "refused"}
CountLedger ==
    (~raced /\ ~Crashed) =>
        /\ connCount = Cardinality(InService) + Cardinality(Refused)
                           + (IF acceptor.at = "register" THEN 1 ELSE 0)
        /\ InService # {} => Cardinality(InService) < MaxConnection

\* With an edge triggered listener a connection is left waiting in the kernel,
\* while the accepting thread waits for events, only after an accept that
\* failed (TcpServer.hpp:260 ends its loop there, and no new event comes).
NoStrandedClient ==
    (backlog # <<>> /\ acceptor.at = "idle" /\ ~edge) => clientfd = -1

\* The destruction of the threads comes to its end, unless it came so early
\* that a thread had not set loop_ (the destructor uses NULL), or had not begun
\* loop(), which then clears the quit_ it was given (EventLoop.hpp:225): that
\* join waits for ever.
DestructionEnds ==
    /\ owner.at \in {"quit", "join"} ~> owner.at \in {"destroyed", "crashed", "early"}
    /\ [][owner.at = "early" => owner'.at = "early"]_serverVars
=============================================================================
