------------------------------- MODULE Poller -------------------------------
(***************************************************************************)
(* library/Poller.hpp and library/Channel.hpp, over one socket: which      *)
(* events epoll_wait returns for it and what the poller does with the      *)
(* event mask of its Channel.  A socket is a record with the fields        *)
(*   interest  the mask registered with epoll, {} while not registered     *)
(*   edge      an event arrived since epoll_wait last returned the socket  *)
(*   inbox     segments of client data not yet read                        *)
(*   peer      "open", "fin" (the client has shut down its side) or "rst"  *)
(*   writable  the kernel's send buffer has room                           *)
(*   events    Channel::events_                                            *)
(***************************************************************************)
EXTENDS Naturals

Mask == {"IN", "OUT", "ET"}
Returnable == {"IN", "OUT", "ERR"}      \* EPOLLERR | EPOLLHUP need no interest

Registered(s) == s.interest # {}

\* The conditions that hold on the socket.
Condition(s) == {e \in Returnable : \/ e = "IN" /\ (s.inbox > 0 \/ s.peer # "open")
                                    \/ e = "OUT" /\ s.writable
                                    \/ e = "ERR" /\ s.peer = "rst"}

Reported(s) == Condition(s) \cap (s.interest \cup {"ERR"})

\* Level-triggered unless the mask holds EPOLLET.
Ready(s) == Registered(s) /\ Reported(s) # {} /\ ("ET" \in s.interest => s.edge)

\* Something happens on the socket that epoll is asked to watch.
Arrive(s, event) == [s EXCEPT !.edge = @ \/ event \in s.interest \cup {"ERR"}]

\* epoll_ctl ADD and MOD register the mask of the Channel and test the
\* condition anew.
Control(s) == [s EXCEPT !.interest = s.events, !.edge = TRUE]

AddChannel(s) == Control(s)
UpdateChannel(s) == Control(s)
RemoveChannel(s) == [s EXCEPT !.interest = {}, !.edge = FALSE]

\* The Channel keeps what epoll_wait returned, in the field it registers from.
PollReturn(s) == [s EXCEPT !.events = Reported(s), !.edge = FALSE]

\* Channel::HandleEvent; EPOLLRDHUP and EPOLLPRI are never registered.
Handler(s) == IF "IN" \in s.events THEN "HandleRead"
              ELSE IF "OUT" \in s.events THEN "HandleWrite"
              ELSE "HandleError"
=============================================================================
