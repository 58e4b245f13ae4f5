--------------------------- MODULE TcpConnection ----------------------------
(***************************************************************************)
(* library/TcpConnection.hpp: what the handlers of one connection do when  *)
(* its loop thread runs them, with HttpServer's message callback.  A       *)
(* handler is an operator from the connection before the call to the       *)
(* connection after it.  Beside the fields of the socket (module Poller)   *)
(* a connection has                                                        *)
(*   disc, half, async, bound, healthy                                     *)
(*            disConnected_, halfClose_, asyncProcessing_, BindedHandler_  *)
(*            and reqHealthy_                                              *)
(*   timer    timer_ exists; its callback holds a shared_ptr to the        *)
(*            connection.  The callbacks of the service are set with it    *)
(*   inBuf    bufferIn_ is not empty                                       *)
(*   out      pieces of responses in bufferOut_                            *)
(* and three fields for the effects of the call outside the connection:    *)
(*   posted   functors given to EventLoop::AddTask                         *)
(*   jobs     tasks given to ThreadPool::AddTask, each the name of the     *)
(*            stack variable the task refers to (see Reactor)              *)
(*   crash    the call does not return                                     *)
(* sendn's outcome, beyond what the socket decides, is the parameter how:  *)
(* "all" of bufferOut_ fits in the kernel's buffer, or one piece of it.    *)
(***************************************************************************)
EXTENDS Poller, Sequences

CONSTANT ResponseSize           \* pieces of a response

ASSUME ResponseSizeAssumption == ResponseSize \in Nat \ {0}

Outcomes == {"all", "one"}
Requests == {"good", "noroute", "malformed"}
Slots == {"read", "close"}      \* sptcpconn in HandleRead and in HandleClose

New == [disc |-> FALSE, half |-> FALSE, async |-> FALSE, bound |-> FALSE,
        healthy |-> FALSE, timer |-> FALSE, inBuf |-> FALSE, out |-> 0,
        events |-> {"IN", "ET"}, interest |-> {}, edge |-> FALSE,
        inbox |-> 0, peer |-> "open", writable |-> TRUE,
        posted |-> <<>>, jobs |-> <<>>, crash |-> FALSE]

-----------------------------------------------------------------------------
(* Closing.  connectioncleanup_ is posted and the connection marked.       *)

Disconnect(s) == [s EXCEPT !.posted = Append(@, "cleanup"), !.disc = TRUE]

-----------------------------------------------------------------------------
(* Sending.                                                                *)

\* sendn on a socket: an error, 0 (nothing to send, or EAGAIN at once), or
\* some bytes.
SendFails(s) == s.peer = "rst"
SendsNothing(s) == s.out = 0 \/ ~s.writable
Left(s, how) == IF how = "one" THEN s.out - 1 ELSE 0

\* A change of ArmOutput: the poller is not told.
ArmOutputLocally(s) == [s EXCEPT !.writable = FALSE, !.events = @ \cup {"OUT"}]

\* A send that leaves data in bufferOut_ asks for EPOLLOUT.
ArmOutput(s) == UpdateChannel([s EXCEPT !.writable = FALSE, !.events = @ \cup {"OUT"}])
SentAll(s) == [s EXCEPT !.events = @ \ {"OUT"}]

\* What SendInLoop and HandleWrite do after their test of disConnected_, but for
\* the call of HandleClose.  HandleError answers 400 on a connection without a
\* bound handler, through SendInLoop: when that send fails too, it calls
\* HandleError again, and so on.
Transmit(s, how) ==
    LET sent == [s EXCEPT !.out = Left(s, how)]
    IN  CASE SendFails(s) -> [s EXCEPT !.crash = ~s.bound]
          [] ~SendFails(s) /\ SendsNothing(s) -> s
          [] ~SendFails(s) /\ ~SendsNothing(s) /\ Left(s, how) > 0 -> ArmOutput(sent)
          [] OTHER -> SentAll(sent)

\* It ends in a call of HandleClose.
EndsInClose(s, how) == \/ SendFails(s) /\ s.bound
                       \/ ~SendFails(s) /\ SendsNothing(s)
                       \/ ~SendFails(s) /\ Left(s, how) = 0 /\ s.half

-----------------------------------------------------------------------------
(* HttpServer::HandleMessage with a thread pool: mark the connection busy   *)
(* and queue a task.  Only a request that HandleClose replays can be        *)
(* unhealthy, and then asyncProcessing_ is already false.                  *)

HandleMessage(s, slot, how) ==
    IF s.healthy
    THEN [s EXCEPT !.async = TRUE, !.jobs = Append(@, slot)]
    ELSE LET t == [s EXCEPT !.async = FALSE, !.out = ResponseSize]
         IN  IF EndsInClose(t, how) THEN Disconnect(Transmit(t, how)) ELSE Transmit(t, how)

\* A change of HandleClose: disConnected_ is not tested.
HandleCloseAgain(s, how) ==
    IF ~s.async THEN Disconnect(s)
    ELSE LET half == [s EXCEPT !.half = TRUE]
         IN  IF s.inBuf THEN HandleMessage(half, "close", how) ELSE half

\* HandleClose, which waits for the task of the thread pool: the connection is
\* only half closed and what is in bufferIn_ is handled first.
HandleClose(s, how) ==
    CASE s.disc -> s
      [] ~s.disc /\ ~s.async -> Disconnect(s)
      [] OTHER -> LET half == [s EXCEPT !.half = TRUE]
                  IN  IF s.inBuf THEN HandleMessage(half, "close", how) ELSE half

\* Changes of SendInLoop: disConnected_ is not tested; halfClose_ is not tested.
SendAfterClose(s, how) ==
    IF EndsInClose(s, how) THEN HandleClose(Transmit(s, how), how) ELSE Transmit(s, how)

SendKeepsOpen(s, how) ==
    CASE s.disc -> s
      [] ~s.disc /\ EndsInClose([s EXCEPT !.half = FALSE], how) -> HandleClose(Transmit(s, how), how)
      [] OTHER -> Transmit(s, how)

SendInLoop(s, how) ==
    CASE s.disc -> s
      [] ~s.disc /\ EndsInClose(s, how) -> HandleClose(Transmit(s, how), how)
      [] OTHER -> Transmit(s, how)

HandleError(s, how) ==
    CASE s.disc -> s
      [] ~s.disc /\ s.bound -> HandleClose(s, how)
      [] OTHER -> SendInLoop([s EXCEPT !.out = ResponseSize], how)

\* The completion callback is called without a test of BindedHandler_: it is
\* empty, and the call throws, when no request was ever bound.
HandleWrite(s, how) ==
    CASE s.disc -> s
      [] ~s.disc /\ ~s.timer /\ ~SendFails(s) /\ ~SendsNothing(s) /\ Left(s, how) = 0
            -> [s EXCEPT !.crash = TRUE]
      [] OTHER -> SendInLoop(s, how)

-----------------------------------------------------------------------------
(* Reading.                                                                *)

\* recvn empties the socket.  It stops at a read shorter than its buffer, so it
\* meets the end of the stream or an error behind the data only when the data
\* fill the buffer exactly.
RecvLength(s, exact) ==
    CASE s.inbox > 0 /\ ~(exact /\ s.peer # "open") -> "data"
      [] s.peer = "rst" /\ (s.inbox > 0 => exact) -> "error"
      [] OTHER -> "zero"

Received(s) == [s EXCEPT !.inBuf = s.inbox > 0, !.inbox = 0]

\* TcpServer::BindDynamicHandler finds the service of the request, or not.
Bind(s) == [s EXCEPT !.healthy = TRUE, !.inBuf = FALSE, !.bound = TRUE, !.timer = TRUE]
NoBind(s) == [s EXCEPT !.healthy = TRUE, !.inBuf = FALSE, !.bound = FALSE]
ParseFails(s) == [s EXCEPT !.healthy = FALSE, !.inBuf = FALSE]

HandleRead(s, request, exact, how) ==
    LET r == Received(s)
        result == RecvLength(s, exact)
    IN  CASE result = "zero" -> HandleClose(r, how)
          [] result = "error" -> HandleError(r, how)
          [] result = "data" /\ s.disc -> r
          [] result = "data" /\ ~s.disc /\ request = "good" -> HandleMessage(Bind(r), "read", how)
          [] result = "data" /\ ~s.disc /\ request = "noroute" -> HandleError(NoBind(r), how)
          [] OTHER -> HandleError(ParseFails(r), how)

\* HandleRead puts a shared_ptr to the connection in its stack variable.
NamesItself(s, request, exact) ==
    RecvLength(s, exact) = "data" /\ ~s.disc /\ request # "malformed"

\* Channel::HandleEvent.
HandleEvent(s, request, exact, how) ==
    CASE Handler(s) = "HandleRead" -> HandleRead(s, request, exact, how)
      [] Handler(s) = "HandleWrite" -> HandleWrite(s, how)
      [] OTHER -> HandleError(s, how)
=============================================================================
