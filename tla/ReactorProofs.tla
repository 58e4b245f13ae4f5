--------------------------- MODULE ReactorProofs ---------------------------
(***************************************************************************)
(* Reactor, for every number of connections, workers and requests: closing *)
(* happens once, no pointer outlives its connection, and the connections   *)
(* live as ConnectionLifecycle says.  For one connection: its output is    *)
(* never forgotten.                                                        *)
(***************************************************************************)
EXTENDS Reactor, Integers, FiniteSetTheorems, SequenceTheorems, TLAPS

\* A connection in the middle of a handler's call, which may have posted a
\* functor and queued a task.
Called == [disc : BOOLEAN, half : BOOLEAN, async : BOOLEAN, bound : BOOLEAN,
           healthy : BOOLEAN, timer : BOOLEAN, inBuf : BOOLEAN, out : Nat,
           events : SUBSET (Mask \cup Returnable), interest : SUBSET (Mask \cup Returnable),
           edge : BOOLEAN, inbox : 0 .. MaxRequests, peer : {"open", "fin", "rst"},
           writable : BOOLEAN, posted : {<<>>, <<"cleanup">>},
           jobs : {<<>>, <<"read">>, <<"close">>}, crash : BOOLEAN]

\* A call that has posted and queued nothing yet.
Quiet(s) == s \in Called /\ s.posted = <<>> /\ s.jobs = <<>>

\* What a call from s to r may have done: closed the connection, once, and only
\* then posted its cleanup; a closed connection sends nothing.
Contract(s, r) ==
    /\ r \in Called /\ r.inbox <= s.inbox
    /\ \/ r.disc = s.disc /\ r.posted = <<>>
       \/ ~s.disc /\ r.disc /\ r.posted = <<"cleanup">>
    /\ s.disc => r.out = s.out

-----------------------------------------------------------------------------
(* The operators of TcpConnection.                                         *)

LEMMA InboxAtMost ==
    ASSUME NEW s \in Called
    PROVE  s.inbox \in Nat /\ s.inbox <= s.inbox /\ 0 <= s.inbox
BY MaxRequestsAssumption DEF Called

LEMMA DisconnectIs ==
    ASSUME NEW s, Quiet(s), ~s.disc
    PROVE  Contract(s, Disconnect(s)) /\ Disconnect(s).jobs = <<>>
<1> DEFINE p == Append(s.posted, "cleanup")
<1>1. p = <<"cleanup">>
  BY DEF Quiet
<1>2. Disconnect(s) = [s EXCEPT !.posted = p, !.disc = TRUE]
  BY DEF Disconnect
<1> HIDE DEF p
<1>3. s.inbox <= s.inbox
  BY InboxAtMost DEF Quiet
<1>4. QED
  BY <1>1, <1>2, <1>3 DEF Quiet, Called, Contract

LEMMA ControlIs ==
    ASSUME NEW s \in Called
    PROVE  /\ Control(s) \in Called
           /\ Control(s).disc = s.disc /\ Control(s).posted = s.posted /\ Control(s).jobs = s.jobs
           /\ Control(s).inbox = s.inbox /\ Control(s).out = s.out
BY DEF Called, Control

LEMMA LeftIs ==
    ASSUME NEW s \in Called, NEW how \in Outcomes, ~SendsNothing(s)
    PROVE  Left(s, how) \in Nat
BY DEF Called, Left, SendsNothing, Outcomes

LEMMA ArmOutputIs ==
    ASSUME NEW s \in Called
    PROVE  /\ ArmOutput(s) \in Called
           /\ ArmOutput(s).disc = s.disc /\ ArmOutput(s).posted = s.posted
           /\ ArmOutput(s).jobs = s.jobs /\ ArmOutput(s).inbox = s.inbox
<1> DEFINE t == [s EXCEPT !.writable = FALSE, !.events = @ \cup {"OUT"}]
<1>1. t \in Called /\ t.disc = s.disc /\ t.posted = s.posted /\ t.jobs = s.jobs /\ t.inbox = s.inbox
  BY DEF Called, Mask, Returnable
<1>2. ArmOutput(s) = Control(t)
  BY DEF ArmOutput, UpdateChannel
<1> HIDE DEF t
<1>3. QED
  BY <1>1, <1>2, ControlIs

LEMMA TransmitIs ==
    ASSUME NEW s, Quiet(s), NEW how \in Outcomes
    PROVE  /\ Quiet(Transmit(s, how)) /\ Transmit(s, how).disc = s.disc
           /\ Transmit(s, how).inbox = s.inbox
<1> DEFINE t == [s EXCEPT !.out = Left(s, how)]
<1>1. ~SendsNothing(s) => t \in Called /\ t.disc = s.disc /\ t.posted = s.posted
                          /\ t.jobs = s.jobs /\ t.inbox = s.inbox
  BY LeftIs DEF Quiet, Called
<1>2. CASE SendFails(s)
  BY <1>2 DEF Quiet, Called, Transmit
<1>3. CASE ~SendFails(s) /\ SendsNothing(s)
  BY <1>3 DEF Quiet, Called, Transmit
<1>4. CASE ~SendFails(s) /\ ~SendsNothing(s) /\ Left(s, how) > 0
  <2>1. Transmit(s, how) = ArmOutput(t)
    BY <1>4 DEF Transmit
  <2> HIDE DEF t
  <2>2. QED
    BY <1>1, <1>4, <2>1, ArmOutputIs DEF Quiet
<1>5. CASE ~SendFails(s) /\ ~SendsNothing(s) /\ ~(Left(s, how) > 0)
  <2>1. Transmit(s, how) = SentAll(t)
    BY <1>5 DEF Transmit
  <2>2. t \in Called => /\ SentAll(t) \in Called /\ SentAll(t).disc = t.disc
                        /\ SentAll(t).posted = t.posted /\ SentAll(t).jobs = t.jobs
                        /\ SentAll(t).inbox = t.inbox
    <3> HIDE DEF t
    <3>1. QED
      BY DEF Called, SentAll
  <2> HIDE DEF t
  <2>3. QED
    BY <1>1, <1>5, <2>1, <2>2 DEF Quiet
<1>6. QED
  BY <1>2, <1>3, <1>4, <1>5

LEMMA ContractFrom ==
    ASSUME NEW s, NEW t, NEW r, Quiet(s), Quiet(t), t.disc = s.disc, t.inbox <= s.inbox,
           s.disc => t.out = s.out, Contract(t, r)
    PROVE  Contract(s, r)
<1>1. s.inbox \in Nat /\ t.inbox \in Nat /\ r.inbox \in Nat
  BY MaxRequestsAssumption DEF Quiet, Called, Contract
<1>2. r.inbox <= s.inbox
  BY <1>1 DEF Contract
<1>3. QED
  BY <1>2 DEF Contract

LEMMA QuietContract ==
    ASSUME NEW s, NEW r, Quiet(s), Quiet(r), r.disc = s.disc, r.inbox <= s.inbox,
           s.disc => r.out = s.out
    PROVE  Contract(s, r)
BY DEF Quiet, Contract

LEMMA HandleMessageIs ==
    ASSUME NEW s, Quiet(s), ~s.disc, NEW k \in Slots, NEW how \in Outcomes
    PROVE  Contract(s, HandleMessage(s, k, how)) /\ HandleMessage(s, k, how).jobs \in {<<>>, <<k>>}
<1>1. CASE s.healthy
  <2> DEFINE j == Append(s.jobs, k)
  <2>1. j = <<k>> /\ j \in {<<>>, <<"read">>, <<"close">>}
    BY DEF Quiet, Slots
  <2>2. HandleMessage(s, k, how) = [s EXCEPT !.async = TRUE, !.jobs = j]
    BY <1>1 DEF HandleMessage
  <2> HIDE DEF j
  <2>3. s.inbox <= s.inbox
    BY MaxRequestsAssumption DEF Quiet, Called
  <2>4. QED
    BY <2>1, <2>2, <2>3 DEF Quiet, Called, Contract
<1>2. CASE ~s.healthy
  <2> DEFINE t == [s EXCEPT !.async = FALSE, !.out = ResponseSize]
  <2>1. Quiet(t) /\ t.disc = s.disc /\ t.inbox = s.inbox
    BY ResponseSizeAssumption DEF Quiet, Called
  <2>2. HandleMessage(s, k, how) = IF EndsInClose(t, how) THEN Disconnect(Transmit(t, how))
                                   ELSE Transmit(t, how)
    BY <1>2 DEF HandleMessage
  <2> HIDE DEF t
  <2>3. t.inbox <= s.inbox
    BY <2>1, MaxRequestsAssumption DEF Quiet, Called
  <2> DEFINE u == Transmit(t, how)
  <2>4. Quiet(u) /\ u.disc = s.disc /\ u.inbox <= s.inbox
    BY <2>1, <2>3, TransmitIs
  <2>5. Contract(u, Disconnect(u)) /\ Disconnect(u).jobs = <<>>
    BY <2>4, DisconnectIs
  <2> HIDE DEF u
  <2>6. Contract(s, u) /\ Contract(s, Disconnect(u))
    BY <2>4, <2>5, QuietContract, ContractFrom
  <2>7. u.jobs = <<>>
    BY <2>4 DEF Quiet
  <2>8. QED
    BY <2>2, <2>5, <2>6, <2>7 DEF u
<1>3. QED
  BY <1>1, <1>2

LEMMA HandleCloseIs ==
    ASSUME NEW s, Quiet(s), NEW how \in Outcomes
    PROVE  Contract(s, HandleClose(s, how)) /\ HandleClose(s, how).jobs \in {<<>>, <<"close">>}
<1>1. s.inbox <= s.inbox /\ s.jobs = <<>>
  BY InboxAtMost DEF Quiet
<1>2. CASE s.disc
  <2>1. HandleClose(s, how) = s
    BY <1>2 DEF HandleClose
  <2>2. QED
    BY <1>1, <2>1, QuietContract
<1>3. CASE ~s.disc /\ ~s.async
  <2>1. HandleClose(s, how) = Disconnect(s)
    BY <1>3 DEF HandleClose
  <2>2. QED
    BY <1>3, <2>1, DisconnectIs
<1>4. CASE ~s.disc /\ s.async
  <2> DEFINE t == [s EXCEPT !.half = TRUE]
  <2>1. Quiet(t) /\ t.disc = s.disc /\ t.inbox <= s.inbox /\ t.out = s.out
    BY <1>1 DEF Quiet, Called
  <2>2. HandleClose(s, how) = IF s.inBuf THEN HandleMessage(t, "close", how) ELSE t
    BY <1>4 DEF HandleClose
  <2> HIDE DEF t
  <2>3. /\ Contract(t, HandleMessage(t, "close", how))
        /\ HandleMessage(t, "close", how).jobs \in {<<>>, <<"close">>}
    BY <1>4, <2>1, HandleMessageIs DEF Slots
  <2>4. Contract(s, t) /\ Contract(s, HandleMessage(t, "close", how)) /\ t.jobs = <<>>
    BY <2>1, <2>3, QuietContract, ContractFrom DEF Quiet
  <2>5. QED
    BY <2>2, <2>3, <2>4
<1>5. QED
  BY <1>2, <1>3, <1>4

LEMMA SendInLoopIs ==
    ASSUME NEW s, Quiet(s), NEW how \in Outcomes
    PROVE  Contract(s, SendInLoop(s, how)) /\ SendInLoop(s, how).jobs \in {<<>>, <<"close">>}
<1>1. s.inbox <= s.inbox /\ s.jobs = <<>>
  BY InboxAtMost DEF Quiet
<1>2. CASE s.disc
  <2>1. SendInLoop(s, how) = s
    BY <1>2 DEF SendInLoop
  <2>2. QED
    BY <1>1, <2>1, QuietContract
<1>3. CASE ~s.disc
  <2> DEFINE t == Transmit(s, how)
  <2>1. SendInLoop(s, how) = IF EndsInClose(s, how) THEN HandleClose(t, how) ELSE t
    BY <1>3 DEF SendInLoop
  <2>2. Quiet(t) /\ t.disc = s.disc /\ t.inbox <= s.inbox
    BY <1>1, TransmitIs
  <2> HIDE DEF t
  <2>3. Contract(t, HandleClose(t, how)) /\ HandleClose(t, how).jobs \in {<<>>, <<"close">>}
    BY <2>2, HandleCloseIs
  <2>4. Contract(s, t) /\ Contract(s, HandleClose(t, how)) /\ t.jobs = <<>>
    BY <1>3, <2>2, <2>3, QuietContract, ContractFrom DEF Quiet
  <2>5. QED
    BY <2>1, <2>3, <2>4
<1>4. QED
  BY <1>2, <1>3

LEMMA HandleErrorIs ==
    ASSUME NEW s, Quiet(s), NEW how \in Outcomes
    PROVE  Contract(s, HandleError(s, how)) /\ HandleError(s, how).jobs \in {<<>>, <<"close">>}
<1>1. s.inbox <= s.inbox /\ s.jobs = <<>>
  BY InboxAtMost DEF Quiet
<1>2. CASE s.disc
  <2>1. HandleError(s, how) = s
    BY <1>2 DEF HandleError
  <2>2. QED
    BY <1>1, <2>1, QuietContract
<1>3. CASE ~s.disc /\ s.bound
  <2>1. HandleError(s, how) = HandleClose(s, how)
    BY <1>3 DEF HandleError
  <2>2. QED
    BY <2>1, HandleCloseIs
<1>4. CASE ~s.disc /\ ~s.bound
  <2> DEFINE t == [s EXCEPT !.out = ResponseSize]
  <2>1. Quiet(t) /\ t.disc = s.disc /\ t.inbox <= s.inbox
    BY <1>1, ResponseSizeAssumption DEF Quiet, Called
  <2>2. HandleError(s, how) = SendInLoop(t, how)
    BY <1>4 DEF HandleError
  <2> HIDE DEF t
  <2>3. QED
    BY <1>4, <2>1, <2>2, SendInLoopIs, ContractFrom
<1>5. QED
  BY <1>2, <1>3, <1>4

LEMMA HandleWriteIs ==
    ASSUME NEW s, Quiet(s), NEW how \in Outcomes
    PROVE  Contract(s, HandleWrite(s, how)) /\ HandleWrite(s, how).jobs \in {<<>>, <<"close">>}
<1>1. s.inbox <= s.inbox /\ s.jobs = <<>>
  BY InboxAtMost DEF Quiet
<1>2. HandleWrite(s, how) \in {s, [s EXCEPT !.crash = TRUE], SendInLoop(s, how)}
  BY DEF HandleWrite
<1>3. Contract(s, s)
  BY <1>1, QuietContract
<1>4. Contract(s, [s EXCEPT !.crash = TRUE]) /\ [s EXCEPT !.crash = TRUE].jobs = <<>>
  BY <1>1 DEF Quiet, Called, Contract
<1>5. QED
  BY <1>1, <1>2, <1>3, <1>4, SendInLoopIs

LEMMA ReceivedIs ==
    ASSUME NEW s, Quiet(s)
    PROVE  /\ Quiet(Received(s)) /\ Received(s).disc = s.disc /\ Received(s).out = s.out
           /\ Received(s).inbox <= s.inbox
<1>1. 0 \in 0 .. MaxRequests /\ 0 <= s.inbox
  BY InboxAtMost, MaxRequestsAssumption DEF Quiet
<1> DEFINE data == s.inbox > 0
<1>2. data \in BOOLEAN
  OBVIOUS
<1>3. Received(s) = [s EXCEPT !.inBuf = data, !.inbox = 0]
  BY DEF Received
<1> HIDE DEF data
<1>4. QED
  BY <1>1, <1>2, <1>3 DEF Quiet, Called

\* A task is queued under the name "read" only where HandleRead has put the
\* connection in its own variable.
LEMMA HandleReadIs ==
    ASSUME NEW s, Quiet(s), NEW how \in Outcomes, NEW request \in Requests, NEW exact \in BOOLEAN
    PROVE  LET r == HandleRead(s, request, exact, how)
           IN  /\ Contract(s, r)
               /\ \/ r.jobs \in {<<>>, <<"close">>}
                  \/ r.jobs = <<"read">> /\ NamesItself(s, request, exact)
<1> DEFINE r == Received(s)
<1>1. Quiet(r) /\ r.disc = s.disc /\ r.out = s.out /\ r.inbox <= s.inbox
  BY ReceivedIs
<1>2. RecvLength(s, exact) \in {"data", "error", "zero"}
  BY DEF RecvLength
<1>3. CASE RecvLength(s, exact) = "zero"
  <2>1. HandleRead(s, request, exact, how) = HandleClose(r, how)
    BY <1>3 DEF HandleRead
  <2> HIDE DEF r
  <2>2. QED
    BY <1>1, <2>1, HandleCloseIs, ContractFrom
<1>4. CASE RecvLength(s, exact) = "error"
  <2>1. HandleRead(s, request, exact, how) = HandleError(r, how)
    BY <1>4 DEF HandleRead
  <2> HIDE DEF r
  <2>2. QED
    BY <1>1, <2>1, HandleErrorIs, ContractFrom
<1>5. CASE RecvLength(s, exact) = "data" /\ s.disc
  <2>1. HandleRead(s, request, exact, how) = r
    BY <1>5 DEF HandleRead
  <2> HIDE DEF r
  <2>2. r.jobs = <<>>
    BY <1>1 DEF Quiet
  <2>3. QED
    BY <1>1, <2>1, <2>2, QuietContract
<1>6. CASE RecvLength(s, exact) = "data" /\ ~s.disc /\ request = "good"
  <2> DEFINE b == Bind(r)
  <2>1. HandleRead(s, request, exact, how) = HandleMessage(b, "read", how)
    BY <1>6 DEF HandleRead
  <2> HIDE DEF r
  <2>2. Quiet(b) /\ b.disc = s.disc /\ b.inbox <= s.inbox
    BY <1>1 DEF Quiet, Called, Bind
  <2> HIDE DEF b
  <2>3. /\ Contract(b, HandleMessage(b, "read", how))
        /\ HandleMessage(b, "read", how).jobs \in {<<>>, <<"read">>}
    BY <1>6, <2>2, HandleMessageIs DEF Slots
  <2>4. NamesItself(s, request, exact)
    BY <1>6 DEF NamesItself
  <2>5. QED
    BY <1>6, <2>1, <2>2, <2>3, <2>4, ContractFrom
<1>7. CASE RecvLength(s, exact) = "data" /\ ~s.disc /\ request # "good"
  <2> DEFINE b == IF request = "noroute" THEN NoBind(r) ELSE ParseFails(r)
  <2>1. HandleRead(s, request, exact, how) = HandleError(b, how)
    BY <1>7 DEF HandleRead, Requests
  <2> HIDE DEF r
  <2>2. Quiet(b) /\ b.disc = s.disc /\ b.inbox <= s.inbox
    BY <1>1 DEF Quiet, Called, NoBind, ParseFails
  <2> HIDE DEF b
  <2>3. QED
    BY <1>7, <2>1, <2>2, HandleErrorIs, ContractFrom
<1>8. QED
  BY <1>2, <1>3, <1>4, <1>5, <1>6, <1>7

LEMMA HandleEventIs ==
    ASSUME NEW s, Quiet(s), NEW how \in Outcomes, NEW request \in Requests, NEW exact \in BOOLEAN
    PROVE  LET r == HandleEvent(s, request, exact, how)
           IN  /\ Contract(s, r)
               /\ \/ r.jobs \in {<<>>, <<"close">>}
                  \/ /\ r.jobs = <<"read">>
                     /\ Handler(s) = "HandleRead" /\ NamesItself(s, request, exact)
<1>1. CASE Handler(s) = "HandleRead"
  <2>1. HandleEvent(s, request, exact, how) = HandleRead(s, request, exact, how)
    BY <1>1 DEF HandleEvent
  <2>2. QED
    BY <1>1, <2>1, HandleReadIs
<1>2. CASE Handler(s) # "HandleRead"
  <2>1. HandleEvent(s, request, exact, how) \in {HandleWrite(s, how), HandleError(s, how)}
    BY <1>2 DEF HandleEvent
  <2>2. QED
    BY <2>1, HandleWriteIs, HandleErrorIs
<1>3. QED
  BY <1>1, <1>2

-----------------------------------------------------------------------------
(* The output of a connection after a handler's call.                      *)

\* What a handler's call does with the output of a connection that stays open: it is gone,
\* or epoll watches it, or a task was queued or is still to answer.
Watched(s, r) == \/ r.disc \/ r.crash \/ r.jobs # <<>>
                 \/ /\ r.async => s.async
                    /\ r.out = 0 \/ "OUT" \in r.interest \/ s.async

LEMMA WatchedFrom ==
    ASSUME NEW s, NEW t, NEW r, t.async = s.async, Watched(t, r)
    PROVE  Watched(s, r)
BY DEF Watched

LEMMA TransmitWatches ==
    ASSUME NEW s, Quiet(s), NEW how \in Outcomes
    PROVE  /\ Transmit(s, how).async = s.async
           /\ EndsInClose(s, how) \/ LET r == Transmit(s, how)
                                     IN  r.crash \/ r.out = 0 \/ "OUT" \in r.interest
<1> DEFINE n == Left(s, how)  t == [s EXCEPT !.out = n]
<1>1. t.async = s.async /\ t.out = n /\ (~SendsNothing(s) => n \in Nat)
  BY LeftIs DEF Quiet, Called
<1>2. CASE SendFails(s)
  BY <1>2 DEF Quiet, Called, Transmit, EndsInClose
<1>3. CASE ~SendFails(s) /\ SendsNothing(s)
  BY <1>3 DEF Quiet, Called, Transmit, EndsInClose
<1>4. CASE ~SendFails(s) /\ ~SendsNothing(s) /\ n > 0
  <2> DEFINE e == t.events \cup {"OUT"}
  <2>1. Transmit(s, how) = ArmOutput(t)
    BY <1>4 DEF Transmit
  <2>2. ArmOutput(t).async = t.async /\ "OUT" \in ArmOutput(t).interest
    <3>1. ArmOutput(t) = [t EXCEPT !.writable = FALSE, !.events = e, !.interest = e, !.edge = TRUE]
      BY DEF ArmOutput, UpdateChannel, Control, Quiet, Called
    <3>2. t \in Called /\ "OUT" \in e
      BY <1>1, <1>4 DEF Quiet, Called
    <3> HIDE DEF e, t
    <3>3. QED
      BY <3>1, <3>2 DEF Called
  <2> HIDE DEF t
  <2>3. QED
    BY <1>1, <2>1, <2>2
<1>5. CASE ~SendFails(s) /\ ~SendsNothing(s) /\ ~(n > 0)
  <2>1. Transmit(s, how) = SentAll(t)
    BY <1>5 DEF Transmit
  <2>2. SentAll(t).async = s.async /\ SentAll(t).out = n
    BY DEF SentAll, Quiet, Called
  <2> HIDE DEF t, n
  <2>3. QED
    BY <1>1, <1>5, <2>1, <2>2
<1>6. QED
  BY <1>2, <1>3, <1>4, <1>5

LEMMA HandleMessageWatches ==
    ASSUME NEW s, Quiet(s), ~s.disc, NEW k \in Slots, NEW how \in Outcomes
    PROVE  Watched(s, HandleMessage(s, k, how))
<1>1. CASE s.healthy
  <2>1. Append(s.jobs, k) # <<>>
    BY DEF Quiet
  <2>2. HandleMessage(s, k, how).jobs = Append(s.jobs, k)
    BY <1>1 DEF HandleMessage, Quiet, Called
  <2>3. QED
    BY <2>1, <2>2 DEF Watched
<1>2. CASE ~s.healthy
  <2> DEFINE t == [s EXCEPT !.async = FALSE, !.out = ResponseSize]
  <2>1. Quiet(t) /\ ~t.async
    BY ResponseSizeAssumption DEF Quiet, Called
  <2>2. HandleMessage(s, k, how) = IF EndsInClose(t, how) THEN Disconnect(Transmit(t, how))
                                   ELSE Transmit(t, how)
    BY <1>2 DEF HandleMessage
  <2> HIDE DEF t
  <2> DEFINE u == Transmit(t, how)
  <2>3. /\ Quiet(u) /\ u.async = t.async
        /\ EndsInClose(t, how) \/ u.crash \/ u.out = 0 \/ "OUT" \in u.interest
    BY <2>1, TransmitIs, TransmitWatches
  <2> HIDE DEF u
  <2>4. Disconnect(u).disc
    BY <2>3 DEF Disconnect, Quiet, Called
  <2>5. QED
    BY <2>1, <2>2, <2>3, <2>4 DEF Watched, u
<1>3. QED
  BY <1>1, <1>2

LEMMA HandleCloseWatches ==
    ASSUME NEW s, Quiet(s), NEW how \in Outcomes
    PROVE  Watched(s, HandleClose(s, how))
<1>1. CASE s.disc
  BY <1>1 DEF HandleClose, Watched
<1>2. CASE ~s.disc /\ ~s.async
  <2>1. HandleClose(s, how) = Disconnect(s) /\ Disconnect(s).disc
    BY <1>2 DEF HandleClose, Disconnect, Quiet, Called
  <2>2. QED
    BY <2>1 DEF Watched
<1>3. CASE ~s.disc /\ s.async
  <2> DEFINE t == [s EXCEPT !.half = TRUE]
  <2>1. Quiet(t) /\ ~t.disc /\ t.async = s.async
    BY <1>3 DEF Quiet, Called
  <2>2. HandleClose(s, how) = IF s.inBuf THEN HandleMessage(t, "close", how) ELSE t
    BY <1>3 DEF HandleClose
  <2> HIDE DEF t
  <2>3. Watched(s, HandleMessage(t, "close", how))
    BY <2>1, HandleMessageWatches, WatchedFrom DEF Slots
  <2>4. Watched(s, t)
    BY <1>3 DEF Watched
  <2>5. QED
    BY <2>2, <2>3, <2>4
<1>4. QED
  BY <1>1, <1>2, <1>3

LEMMA SendInLoopWatches ==
    ASSUME NEW s, Quiet(s), NEW how \in Outcomes
    PROVE  Watched(s, SendInLoop(s, how))
<1>1. CASE s.disc
  BY <1>1 DEF SendInLoop, Watched
<1>2. CASE ~s.disc
  <2> DEFINE t == Transmit(s, how)
  <2>1. SendInLoop(s, how) = IF EndsInClose(s, how) THEN HandleClose(t, how) ELSE t
    BY <1>2 DEF SendInLoop
  <2>2. /\ Quiet(t) /\ t.async = s.async
        /\ EndsInClose(s, how) \/ t.crash \/ t.out = 0 \/ "OUT" \in t.interest
    BY TransmitIs, TransmitWatches
  <2> HIDE DEF t
  <2>3. Watched(s, HandleClose(t, how))
    BY <2>2, HandleCloseWatches, WatchedFrom
  <2>4. QED
    BY <2>1, <2>2, <2>3 DEF Watched
<1>3. QED
  BY <1>1, <1>2

LEMMA HandleErrorWatches ==
    ASSUME NEW s, Quiet(s), NEW how \in Outcomes
    PROVE  Watched(s, HandleError(s, how))
<1>1. CASE s.disc
  BY <1>1 DEF HandleError, Watched
<1>2. CASE ~s.disc /\ s.bound
  <2>1. HandleError(s, how) = HandleClose(s, how)
    BY <1>2 DEF HandleError
  <2>2. QED
    BY <2>1, HandleCloseWatches
<1>3. CASE ~s.disc /\ ~s.bound
  <2> DEFINE t == [s EXCEPT !.out = ResponseSize]
  <2>1. Quiet(t) /\ t.async = s.async
    BY ResponseSizeAssumption DEF Quiet, Called
  <2>2. HandleError(s, how) = SendInLoop(t, how)
    BY <1>3 DEF HandleError
  <2> HIDE DEF t
  <2>3. QED
    BY <2>1, <2>2, SendInLoopWatches, WatchedFrom
<1>4. QED
  BY <1>1, <1>2, <1>3

LEMMA HandleWriteWatches ==
    ASSUME NEW s, Quiet(s), NEW how \in Outcomes
    PROVE  Watched(s, HandleWrite(s, how))
<1>1. CASE s.disc
  BY <1>1 DEF HandleWrite, Watched
<1>2. CASE ~s.disc
  <2>1. \/ HandleWrite(s, how) = [s EXCEPT !.crash = TRUE]
        \/ HandleWrite(s, how) = SendInLoop(s, how)
    BY <1>2 DEF HandleWrite
  <2>2. [s EXCEPT !.crash = TRUE].crash
    BY DEF Quiet, Called
  <2>3. Watched(s, [s EXCEPT !.crash = TRUE])
    BY <2>2 DEF Watched
  <2>4. QED
    BY <2>1, <2>3, SendInLoopWatches
<1>3. QED
  BY <1>1, <1>2

LEMMA HandleReadWatches ==
    ASSUME NEW s, Quiet(s), NEW how \in Outcomes, NEW request \in Requests, NEW exact \in BOOLEAN
    PROVE  Watched(s, HandleRead(s, request, exact, how))
<1> DEFINE r == Received(s)
<1>1. Quiet(r) /\ r.disc = s.disc
  BY ReceivedIs
<1>2. r.async = s.async
  BY DEF Received, Quiet, Called
<1>3. RecvLength(s, exact) \in {"data", "error", "zero"}
  BY DEF RecvLength
<1>4. CASE RecvLength(s, exact) = "zero"
  <2>1. HandleRead(s, request, exact, how) = HandleClose(r, how)
    BY <1>4 DEF HandleRead
  <2> HIDE DEF r
  <2>2. QED
    BY <1>1, <1>2, <2>1, HandleCloseWatches, WatchedFrom
<1>5. CASE RecvLength(s, exact) = "error"
  <2>1. HandleRead(s, request, exact, how) = HandleError(r, how)
    BY <1>5 DEF HandleRead
  <2> HIDE DEF r
  <2>2. QED
    BY <1>1, <1>2, <2>1, HandleErrorWatches, WatchedFrom
<1>6. CASE RecvLength(s, exact) = "data" /\ s.disc
  <2>1. HandleRead(s, request, exact, how) = r
    BY <1>6 DEF HandleRead
  <2> HIDE DEF r
  <2>2. QED
    BY <1>1, <1>6, <2>1 DEF Watched
<1>7. CASE RecvLength(s, exact) = "data" /\ ~s.disc /\ request = "good"
  <2> DEFINE b == Bind(r)
  <2>1. HandleRead(s, request, exact, how) = HandleMessage(b, "read", how)
    BY <1>7 DEF HandleRead
  <2> HIDE DEF r
  <2>2. Quiet(b) /\ ~b.disc /\ b.async = s.async
    BY <1>1, <1>2, <1>7 DEF Quiet, Called, Bind
  <2> HIDE DEF b
  <2>3. QED
    BY <2>1, <2>2, HandleMessageWatches, WatchedFrom DEF Slots
<1>8. CASE RecvLength(s, exact) = "data" /\ ~s.disc /\ request # "good"
  <2> DEFINE b == IF request = "noroute" THEN NoBind(r) ELSE ParseFails(r)
  <2>1. HandleRead(s, request, exact, how) = HandleError(b, how)
    BY <1>8 DEF HandleRead, Requests
  <2> HIDE DEF r
  <2>2. Quiet(b) /\ b.async = s.async
    BY <1>1, <1>2 DEF Quiet, Called, NoBind, ParseFails
  <2> HIDE DEF b
  <2>3. QED
    BY <2>1, <2>2, HandleErrorWatches, WatchedFrom
<1>9. QED
  BY <1>3, <1>4, <1>5, <1>6, <1>7, <1>8

LEMMA HandleEventWatches ==
    ASSUME NEW s, Quiet(s), NEW how \in Outcomes, NEW request \in Requests, NEW exact \in BOOLEAN
    PROVE  Watched(s, HandleEvent(s, request, exact, how))
<1>1. HandleEvent(s, request, exact, how)
        \in {HandleRead(s, request, exact, how), HandleWrite(s, how), HandleError(s, how)}
  BY DEF HandleEvent
<1>2. QED
  BY <1>1, HandleReadWatches, HandleWriteWatches, HandleErrorWatches

-----------------------------------------------------------------------------
(* How often a value occurs in a sequence.                                 *)

\* A set of numbers up to n is finite.
LEMMA FiniteRange ==
    ASSUME NEW n \in Nat, NEW S, \A i \in S : i \in Nat /\ i <= n
    PROVE  IsFiniteSet(S)
<1>1. S \in SUBSET Nat /\ \A i \in S : i <= n
  OBVIOUS
<1>2. QED
  BY <1>1, FS_BoundedSetOfNaturals

\* How often b occurs in q, and whether it is c, as a number.
Occurrences(b, q) == Cardinality({i \in DOMAIN q : q[i] = b})
Has(b, c) == IF b = c THEN 1 ELSE 0

\* A value occurs a number of times,
LEMMA OccurrencesFinite ==
    ASSUME NEW T, NEW q \in Seq(T), NEW b
    PROVE  Occurrences(b, q) \in Nat
<1>1. DOMAIN q = 1 .. Len(q) /\ Len(q) \in Nat
  OBVIOUS
<1>2. IsFiniteSet(DOMAIN q)
  BY <1>1, FS_Interval
<1>3. {i \in DOMAIN q : q[i] = b} \in SUBSET DOMAIN q
  OBVIOUS
<1>4. QED
  BY <1>2, <1>3, FS_Subset, FS_CardinalityType DEF Occurrences

\* more than 0 when it is there,
LEMMA OccurrencesSeen ==
    ASSUME NEW T, NEW q \in Seq(T), NEW i \in 1 .. Len(q)
    PROVE  Occurrences(q[i], q) > 0
<1> DEFINE S == {j \in DOMAIN q : q[j] = q[i]}
<1>1. DOMAIN q = 1 .. Len(q) /\ Len(q) \in Nat
  OBVIOUS
<1>2. IsFiniteSet(S)
  <2>1. \A j \in S : j \in Nat /\ j <= Len(q)
    BY <1>1
  <2> HIDE DEF S
  <2>2. QED
    BY <1>1, <2>1, FiniteRange
<1>3. S # {}
  BY <1>1
<1>4. Occurrences(q[i], q) = Cardinality(S)
  BY DEF Occurrences
<1> HIDE DEF S
<1>5. Cardinality(S) \in Nat /\ Cardinality(S) # 0
  BY <1>2, <1>3, FS_EmptySet, FS_CardinalityType
<1>6. QED
  BY <1>4, <1>5

\* and 0 when it is not.
LEMMA OccurrencesNone ==
    ASSUME NEW b, NEW q, \A i \in DOMAIN q : q[i] # b
    PROVE  Occurrences(b, q) = 0
BY FS_EmptySet DEF Occurrences

\* One more of the value at the end,
LEMMA OccurrencesAppend ==
    ASSUME NEW T, NEW q \in Seq(T), NEW c \in T, NEW b
    PROVE  Occurrences(b, Append(q, c)) = Occurrences(b, q) + Has(b, c)
<1> DEFINE n == Len(q)
<1> DEFINE S == {i \in 1 .. n : q[i] = b}
<1> DEFINE U == {i \in 1 .. n + 1 : Append(q, c)[i] = b}
<1>1. n \in Nat /\ DOMAIN q = 1 .. n /\ DOMAIN Append(q, c) = 1 .. n + 1
  OBVIOUS
<1>2. Append(q, c)[n + 1] = c /\ \A i \in 1 .. n : Append(q, c)[i] = q[i]
  OBVIOUS
<1>3. U = IF b = c THEN S \cup {n + 1} ELSE S
  BY <1>1, <1>2
<1>4. IsFiniteSet(S) /\ n + 1 \notin S
  <2>1. n + 1 \notin S /\ \A j \in S : j \in Nat /\ j <= n
    BY <1>1
  <2> HIDE DEF S, n
  <2>2. QED
    BY <1>1, <2>1, FiniteRange
<1>5. Occurrences(b, q) = Cardinality(S) /\ Occurrences(b, Append(q, c)) = Cardinality(U)
  BY <1>1 DEF Occurrences
<1> HIDE DEF S, U, n
<1>6. Cardinality(S \cup {n + 1}) = Cardinality(S) + 1 /\ Cardinality(S) \in Nat
  BY <1>4, FS_AddElement, FS_CardinalityType
<1>7. QED
  BY <1>3, <1>5, <1>6 DEF Has

\* or one less at the front.
LEMMA OccurrencesTail ==
    ASSUME NEW T, NEW q \in Seq(T), q # <<>>, NEW b
    PROVE  Occurrences(b, Tail(q)) = Occurrences(b, q) - Has(b, Head(q))
<1> DEFINE n == Len(q)
<1> DEFINE S == {i \in 2 .. n : q[i] = b}
<1> DEFINE V == {i \in 1 .. n - 1 : Tail(q)[i] = b}
<1> DEFINE U == {i \in DOMAIN q : q[i] = b}
<1> DEFINE shift == [i \in V |-> i + 1]
<1>1. /\ n \in Nat /\ n > 0 /\ DOMAIN q = 1 .. n /\ DOMAIN Tail(q) = 1 .. n - 1
      /\ Head(q) = q[1] /\ \A i \in 1 .. n - 1 : Tail(q)[i] = q[i + 1]
  OBVIOUS
<1>2. shift \in [V -> S]
  BY <1>1
<1>3. \A i, j \in V : shift[i] = shift[j] => i = j
  BY <1>1
<1>4. \A j \in S : \E i \in V : shift[i] = j
  <2>1. SUFFICES ASSUME NEW j \in S PROVE \E i \in V : shift[i] = j
    OBVIOUS
  <2>2. j - 1 \in V /\ shift[j - 1] = j
    BY <1>1
  <2>3. QED
    BY <2>2
<1>5. IsFiniteSet(S) /\ IsFiniteSet(V) /\ 1 \notin S
  <2>1. 1 \notin S /\ \A j \in S : j \in Nat /\ j <= n
    BY <1>1
  <2>2. \A j \in V : j \in Nat /\ j <= n
    BY <1>1
  <2> HIDE DEF S, V, n
  <2>3. QED
    BY <1>1, <2>1, <2>2, FiniteRange
<1>6. U = IF b = Head(q) THEN S \cup {1} ELSE S
  BY <1>1
<1>7. Occurrences(b, Tail(q)) = Cardinality(V) /\ Occurrences(b, q) = Cardinality(U)
  BY <1>1 DEF Occurrences
<1> HIDE DEF S, V, U, n, shift
<1>8. Cardinality(S) = Cardinality(V)
  <2>1. shift \in Bijection(V, S)
    BY <1>2, <1>3, <1>4 DEF Bijection, Injection, Surjection, IsInjective
  <2>2. ExistsBijection(V, S)
    BY <2>1 DEF ExistsBijection
  <2>3. QED
    BY <1>5, <2>2, FS_Bijection
<1>9. Cardinality(S \cup {1}) = Cardinality(S) + 1 /\ Cardinality(S) \in Nat
  BY <1>5, FS_AddElement, FS_CardinalityType
<1>10. Occurrences(b, q) = Cardinality(S) + Has(b, Head(q))
  <2>1. CASE b = Head(q)
    BY <1>6, <1>7, <1>9, <2>1 DEF Has
  <2>2. CASE b # Head(q)
    BY <1>6, <1>7, <1>9, <2>2 DEF Has
  <2>3. QED
    BY <2>1, <2>2
<1>11. Has(b, Head(q)) \in Nat
  BY DEF Has
<1>12. QED
  BY <1>7, <1>8, <1>9, <1>10, <1>11

-----------------------------------------------------------------------------
(* The inductive invariant.                                                *)

Queued == [kind : FunctorKinds, conn : Conns]

\* How many functors of each kind a connection has still to run.
In(kind, q) == [c \in Conns |-> Occurrences(Functor(kind, c), q)]
Adds == In("add", Pending)
Sends == In("send", Pending)
Cleanups == In("cleanup", Pending)

\* What TypeOK leaves out: a client's unread segments are some of those it sent.
Types == /\ TypeOK
         /\ handled \in [Conns -> Nat]
         /\ answers \in [Conns -> Nat]
         /\ removals \in [Conns -> Nat]
         /\ \A c \in Conns : conn[c].inbox <= requests[c]

\* The loop thread has a batch only while it runs it, and no active channels then.
Turns == /\ phase \in {"poll", "dispatch"} => batch = <<>> /\ pos = 1
         /\ phase = "tasks" => active = <<>>

\* A stack variable that a task refers to has been written.
Referred == /\ \A i \in DOMAIN tasks : slot[tasks[i]] \in Conns
            /\ \A w \in Workers : wpc[w] # "idle" => wslot[w] \in Slots /\ slot[wslot[w]] \in Conns

\* The connections of a batch live until it is released.
BatchLives == \A i \in DOMAIN batch : life[batch[i].conn] = "live"

Closes(c) == Cleanups[c] + removals[c] = IF conn[c].disc THEN 1 ELSE 0

Reached(c) == \/ Registered(conn[c]) \/ c \in Elements(active)
              \/ Adds[c] > 0 \/ Sends[c] > 0 \/ Cleanups[c] > 0
              => life[c] = "live"

\* Until AddChannel runs, nobody but the accepting thread knows the connection.
Fresh(c) == Adds[c] > 0 => /\ Adds[c] = 1 /\ Sends[c] = 0
                           /\ c \in registry /\ ~conn[c].disc
                           /\ ~Registered(conn[c]) /\ c \notin Elements(active)
                           /\ \A k \in Slots : slot[k] # c

Aged(c) == /\ life[c] = "absent" => /\ ~conn[c].disc /\ removals[c] = 0
                                    /\ \A k \in Slots : slot[k] # c
           /\ life[c] = "live" => c \in registry \/ removals[c] > 0

Lives == \A c \in Conns : Closes(c) /\ Reached(c) /\ Fresh(c) /\ Aged(c)

IInv == Types /\ Turns /\ Referred /\ BatchLives /\ Lives

-----------------------------------------------------------------------------
(* The functors still to run: the rest of a batch and the queue.           *)

LEMMA RestIs ==
    ASSUME NEW T, NEW b \in Seq(T), NEW p \in 1 .. Len(b) + 1
    PROVE  /\ SubSeq(b, p, Len(b)) \in Seq(T)
           /\ Len(SubSeq(b, p, Len(b))) = Len(b) + 1 - p
           /\ \A i \in 1 .. Len(b) + 1 - p : SubSeq(b, p, Len(b))[i] = b[p + i - 1]
<1>1. Len(b) \in Nat
  OBVIOUS
<1>2. p \in Int /\ Len(b) \in Int /\ p >= 1 /\ p <= Len(b) + 1
  BY <1>1
<1>3. \A i \in p .. Len(b) : b[i] \in T
  BY <1>1
<1>4. QED
  BY <1>1, <1>2, <1>3, SubSeqProperties

LEMMA FirstAndRest ==
    ASSUME NEW T, NEW x \in T, NEW s \in Seq(T)
    PROVE  /\ <<x>> \o s \in Seq(T) /\ <<x>> \o s # <<>>
           /\ Head(<<x>> \o s) = x /\ Tail(<<x>> \o s) = s
<1> DEFINE r == <<x>> \o s
<1>1. <<x>> \in Seq(T) /\ Len(<<x>>) = 1 /\ <<x>>[1] = x /\ Len(s) \in Nat
  OBVIOUS
<1>2. /\ r \in Seq(T) /\ Len(r) = 1 + Len(s)
      /\ \A i \in 1 .. 1 + Len(s) : r[i] = IF i <= 1 THEN <<x>>[i] ELSE s[i - 1]
  BY <1>1, ConcatProperties
<1> HIDE DEF r
<1>3. r # <<>>
  BY <1>1, <1>2
<1>4. Head(r) = x
  BY <1>1, <1>2, <1>3
<1>5. Tail(r) \in Seq(T) /\ Len(Tail(r)) = Len(s) /\ \A i \in 1 .. Len(Tail(r)) : Tail(r)[i] = r[i + 1]
  BY <1>1, <1>2, <1>3, HeadTailProperties
<1>6. \A i \in 1 .. Len(Tail(r)) : Tail(r)[i] = s[i]
  BY <1>1, <1>2, <1>5
<1>7. Tail(r) = s
  BY <1>5, <1>6, SeqEqual
<1>8. QED
  BY <1>2, <1>3, <1>4, <1>7 DEF r

Regroups(a, b, c) == (a \o b) \o c = a \o (b \o c)

LEMMA SequencesRegroup ==
    ASSUME NEW T, NEW a, a \in Seq(T), NEW b, b \in Seq(T), NEW c, c \in Seq(T)
    PROVE  Regroups(a, b, c)
BY ConcatAssociative DEF Regroups

LEMMA QueueAdvances ==
    ASSUME NEW T, NEW b \in Seq(T), NEW p \in 1 .. Len(b), NEW q \in Seq(T)
    PROVE  LET r == SubSeq(b, p, Len(b)) \o q
           IN  /\ r \in Seq(T) /\ r # <<>> /\ Head(r) = b[p]
               /\ Tail(r) = SubSeq(b, p + 1, Len(b)) \o q
<1> DEFINE t == SubSeq(b, p + 1, Len(b))
<1>1. /\ p \in 1 .. Len(b) /\ Len(b) \in p .. Len(b) /\ p + 1 \in 1 .. Len(b) + 1
      /\ b[p] \in T /\ <<b[p]>> \in Seq(T)
  OBVIOUS
<1>2. t \in Seq(T)
  BY <1>1, RestIs
<1>3. SubSeq(b, p, Len(b)) = <<b[p]>> \o t
  BY <1>1, SubSeqRecursiveFirst
<1> HIDE DEF t
<1>4. SubSeq(b, p, Len(b)) \o q = <<b[p]>> \o (t \o q)
  <2> DEFINE h == <<b[p]>>
  <2>1. h \in Seq(T)
    BY <1>1
  <2> HIDE DEF h
  <2>2. Regroups(h, t, q)
    BY <1>2, <2>1, SequencesRegroup
  <2>3. QED
    BY <1>3, <2>2, Zenon DEF h, Regroups
<1>5. t \o q \in Seq(T)
  BY <1>2, ConcatProperties
<1> DEFINE u == t \o q
<1>6. /\ <<b[p]>> \o u \in Seq(T) /\ <<b[p]>> \o u # <<>>
      /\ Head(<<b[p]>> \o u) = b[p] /\ Tail(<<b[p]>> \o u) = u
  <2> HIDE DEF u
  <2>1. u \in Seq(T)
    BY <1>5 DEF u
  <2>2. QED
    BY <1>1, <2>1, FirstAndRest
<1>7. QED
  BY <1>4, <1>6 DEF t

LEMMA QueueSwaps ==
    ASSUME NEW T, NEW q \in Seq(T)
    PROVE  /\ SubSeq(<<>>, 1, Len(<<>>)) \o q = q
           /\ SubSeq(q, 1, Len(q)) \o <<>> = q
           /\ SubSeq(q, Len(q) + 1, Len(q)) = <<>>
<1>1. SubSeq(<<>>, 1, Len(<<>>)) = <<>>
  BY SubSeqEmpty
<1>2. SubSeq(q, 1, Len(q)) = q
  BY SubSeqFull
<1>3. SubSeq(q, Len(q) + 1, Len(q)) = <<>>
  BY SubSeqEmpty
<1>4. <<>> \o q = q /\ q \o <<>> = q
  BY ConcatEmptySeq
<1>5. QED
  BY <1>1, <1>2, <1>3, <1>4

LEMMA InType ==
    ASSUME NEW q \in Seq(Queued), NEW j \in FunctorKinds
    PROVE  In(j, q) \in [Conns -> Nat]
BY OccurrencesFinite DEF In

LEMMA InNothing ==
    ASSUME NEW j \in FunctorKinds
    PROVE  In(j, <<>>) = [c \in Conns |-> 0]
<1>1. \A c \in Conns : Occurrences(Functor(j, c), <<>>) = 0
  BY OccurrencesNone
<1>2. QED
  BY <1>1 DEF In

LEMMA InAppend ==
    ASSUME NEW q \in Seq(Queued), NEW j \in FunctorKinds, NEW k \in FunctorKinds, NEW c \in Conns
    PROVE  In(j, Append(q, Functor(k, c)))
               = [d \in Conns |-> In(j, q)[d] + (IF j = k /\ d = c THEN 1 ELSE 0)]
<1>1. Functor(k, c) \in Queued
  BY DEF Functor, Queued
<1>2. SUFFICES ASSUME NEW d \in Conns
               PROVE  Occurrences(Functor(j, d), Append(q, Functor(k, c)))
                          = Occurrences(Functor(j, d), q) + (IF j = k /\ d = c THEN 1 ELSE 0)
  BY DEF In
<1>3. Has(Functor(j, d), Functor(k, c)) = IF j = k /\ d = c THEN 1 ELSE 0
  BY DEF Functor, Has
<1>4. QED
  BY <1>1, <1>3, OccurrencesAppend

LEMMA InTail ==
    ASSUME NEW q \in Seq(Queued), q # <<>>, NEW j \in FunctorKinds, NEW k \in FunctorKinds,
           NEW c \in Conns, Head(q) = Functor(k, c)
    PROVE  /\ Tail(q) \in Seq(Queued)
           /\ In(k, q)[c] > 0
           /\ In(j, Tail(q)) = [d \in Conns |-> In(j, q)[d] - (IF j = k /\ d = c THEN 1 ELSE 0)]
<1>1. Tail(q) \in Seq(Queued)
  BY HeadTailProperties
<1>2. 1 \in 1 .. Len(q) /\ q[1] = Functor(k, c)
  OBVIOUS
<1>3. In(k, q)[c] > 0
  <2>1. Occurrences(q[1], q) > 0
    BY <1>2, OccurrencesSeen
  <2>2. QED
    BY <1>2, <2>1 DEF In
<1>4. ASSUME NEW d \in Conns
      PROVE  Occurrences(Functor(j, d), Tail(q))
                 = Occurrences(Functor(j, d), q) - (IF j = k /\ d = c THEN 1 ELSE 0)
  <2>1. Has(Functor(j, d), Functor(k, c)) = IF j = k /\ d = c THEN 1 ELSE 0
    BY DEF Functor, Has
  <2>2. QED
    BY <2>1, OccurrencesTail
<1>5. QED
  BY <1>1, <1>3, <1>4 DEF In

LEMMA InSeen ==
    ASSUME NEW q \in Seq(Queued), NEW i \in DOMAIN q
    PROVE  q[i].kind \in FunctorKinds /\ q[i].conn \in Conns /\ In(q[i].kind, q)[q[i].conn] > 0
<1>1. i \in 1 .. Len(q) /\ q[i] \in Queued
  OBVIOUS
<1>2. /\ q[i] = Functor(q[i].kind, q[i].conn)
      /\ q[i].kind \in FunctorKinds /\ q[i].conn \in Conns
  BY <1>1 DEF Queued, Functor
<1>3. Occurrences(q[i], q) > 0
  BY <1>1, OccurrencesSeen
<1>4. QED
  BY <1>2, <1>3 DEF In

LEMMA PendingIs ==
    ASSUME Types
    PROVE  /\ batch \in Seq(Queued) /\ functors \in Seq(Queued) /\ pos \in 1 .. Len(batch) + 1
           /\ Pending \in Seq(Queued)
           /\ Adds \in [Conns -> Nat] /\ Sends \in [Conns -> Nat] /\ Cleanups \in [Conns -> Nat]
<1>1. batch \in Seq(Queued) /\ functors \in Seq(Queued) /\ pos \in 1 .. Len(batch) + 1
  BY DEF Types, TypeOK, Queued
<1>2. Pending \in Seq(Queued)
  BY <1>1, RestIs, ConcatProperties DEF Pending
<1>3. QED
  BY <1>1, <1>2, InType DEF Adds, Sends, Cleanups, FunctorKinds

LEMMA PendingKept ==
    ASSUME Pending' = Pending
    PROVE  Adds' = Adds /\ Sends' = Sends /\ Cleanups' = Cleanups
BY DEF Adds, Sends, Cleanups, In, Functor

\* A functor goes to the end of the queue.
LEMMA PendingAppends ==
    ASSUME Types, NEW k \in FunctorKinds, NEW c \in Conns,
           functors' = Append(functors, Functor(k, c)), UNCHANGED <<batch, pos>>
    PROVE  /\ Pending' = Append(Pending, Functor(k, c))
           /\ Adds' = [d \in Conns |-> Adds[d] + (IF "add" = k /\ d = c THEN 1 ELSE 0)]
           /\ Sends' = [d \in Conns |-> Sends[d] + (IF "send" = k /\ d = c THEN 1 ELSE 0)]
           /\ Cleanups' = [d \in Conns |-> Cleanups[d] + (IF "cleanup" = k /\ d = c THEN 1 ELSE 0)]
<1>1. Functor(k, c) \in Queued
  BY DEF Functor, Queued
<1>2. Pending' = Append(Pending, Functor(k, c))
  <2> DEFINE f == Functor(k, c)
  <2>1. Pending' = SubSeq(batch, pos, Len(batch)) \o Append(functors, f)
    BY DEF Pending
  <2>2. f \in Queued
    BY <1>1
  <2> HIDE DEF f
  <2>3. batch \in Seq(Queued) /\ functors \in Seq(Queued) /\ pos \in 1 .. Len(batch) + 1
    BY PendingIs
  <2> DEFINE r == SubSeq(batch, pos, Len(batch))
  <2>4. r \in Seq(Queued)
    BY <2>3, RestIs
  <2> HIDE DEF r
  <2>5. r \o Append(functors, f) = Append(r \o functors, f)
    BY <2>2, <2>3, <2>4
  <2>6. QED
    BY <2>1, <2>5 DEF f, r, Pending
<1>3. /\ Adds' = In("add", Append(Pending, Functor(k, c)))
      /\ Sends' = In("send", Append(Pending, Functor(k, c)))
      /\ Cleanups' = In("cleanup", Append(Pending, Functor(k, c)))
  BY <1>2 DEF Adds, Sends, Cleanups, In, Functor
<1>4. /\ Pending \in Seq(Queued)
      /\ "add" \in FunctorKinds /\ "send" \in FunctorKinds /\ "cleanup" \in FunctorKinds
  BY PendingIs DEF FunctorKinds
<1> DEFINE q == Pending
<1> HIDE DEF q
<1>5. \A j \in FunctorKinds :
          In(j, Append(q, Functor(k, c)))
              = [d \in Conns |-> In(j, q)[d] + (IF j = k /\ d = c THEN 1 ELSE 0)]
  BY <1>4, InAppend DEF q
<1>6. QED
  BY <1>2, <1>3, <1>4, <1>5 DEF Adds, Sends, Cleanups, q

\* ExecuteTask runs a functor, which may post the cleanup of its connection.
LEMMA PendingAdvances ==
    ASSUME Types, pos <= Len(batch), batch' = batch, pos' = pos + 1
    PROVE  LET k == batch[pos].kind
               c == batch[pos].conn
           IN  /\ k \in FunctorKinds /\ c \in Conns
               /\ In(k, Pending)[c] > 0
               /\ functors' = functors =>
                    /\ Adds' = [d \in Conns |-> Adds[d] - (IF "add" = k /\ d = c THEN 1 ELSE 0)]
                    /\ Sends' = [d \in Conns |-> Sends[d] - (IF "send" = k /\ d = c THEN 1 ELSE 0)]
                    /\ Cleanups' = [d \in Conns |-> Cleanups[d] - (IF "cleanup" = k /\ d = c THEN 1 ELSE 0)]
               /\ k = "send" /\ functors' = Append(functors, Functor("cleanup", c)) =>
                    /\ Adds' = Adds
                    /\ Sends' = [d \in Conns |-> Sends[d] - (IF d = c THEN 1 ELSE 0)]
                    /\ Cleanups' = [d \in Conns |-> Cleanups[d] + (IF d = c THEN 1 ELSE 0)]
<1> DEFINE k == batch[pos].kind
<1> DEFINE c == batch[pos].conn
<1> DEFINE q == Pending
<1> DEFINE s == SubSeq(batch, pos + 1, Len(batch))
<1>1. /\ batch \in Seq(Queued) /\ functors \in Seq(Queued) /\ pos \in 1 .. Len(batch)
      /\ pos + 1 \in 1 .. Len(batch) + 1 /\ q \in Seq(Queued)
  <2>1. batch \in Seq(Queued) /\ functors \in Seq(Queued) /\ pos \in 1 .. Len(batch) + 1 /\ q \in Seq(Queued)
    BY PendingIs
  <2>2. QED
    BY <2>1
<1>2. k \in FunctorKinds /\ c \in Conns /\ batch[pos] = Functor(k, c)
  <2>1. batch[pos] \in Queued
    BY <1>1
  <2>2. QED
    BY <2>1 DEF Queued, Functor
<1>3. q # <<>> /\ Head(q) = Functor(k, c) /\ Tail(q) = s \o functors /\ s \in Seq(Queued)
  <2>1. s \in Seq(Queued)
    BY <1>1, RestIs
  <2>2. QED
    BY <1>1, <1>2, <2>1, QueueAdvances DEF Pending
<1>4. functors' = functors => Pending' = Tail(q)
  BY <1>3 DEF Pending
<1>5. ASSUME functors' = Append(functors, Functor("cleanup", c))
      PROVE  Pending' = Append(Tail(q), Functor("cleanup", c))
  <2> DEFINE f == Functor("cleanup", c)
  <2>1. Pending' = s \o Append(functors, f)
    BY <1>5 DEF Pending
  <2>2. f \in Queued
    BY <1>2 DEF Queued, Functor, FunctorKinds
  <2> HIDE DEF f, s
  <2>3. s \o Append(functors, f) = Append(s \o functors, f)
    BY <1>1, <1>3, <2>2
  <2> HIDE DEF q
  <2>4. QED
    BY <1>3, <2>1, <2>3 DEF f
<1>6. "add" \in FunctorKinds /\ "send" \in FunctorKinds /\ "cleanup" \in FunctorKinds
  BY DEF FunctorKinds
<1>7. /\ Adds = In("add", q) /\ Sends = In("send", q) /\ Cleanups = In("cleanup", q)
      /\ Adds' = In("add", Pending') /\ Sends' = In("send", Pending')
      /\ Cleanups' = In("cleanup", Pending')
  BY DEF Adds, Sends, Cleanups, In, Functor
<1> HIDE DEF q, k, c, s
<1>8. /\ Tail(q) \in Seq(Queued) /\ In(k, q)[c] > 0
      /\ \A j \in FunctorKinds :
            In(j, Tail(q)) = [d \in Conns |-> In(j, q)[d] - (IF j = k /\ d = c THEN 1 ELSE 0)]
  BY <1>1, <1>2, <1>3, InTail
<1> DEFINE u == Tail(q)
<1> DEFINE v == Append(u, Functor("cleanup", c))
<1>9. \A j \in FunctorKinds :
          In(j, v) = [d \in Conns |-> In(j, u)[d] + (IF j = "cleanup" /\ d = c THEN 1 ELSE 0)]
  <2> HIDE DEF u
  <2>1. u \in Seq(Queued)
    BY <1>8 DEF u
  <2>2. QED
    BY <1>2, <1>6, <2>1, InAppend
<1>10. functors' = functors =>
         /\ Adds' = [d \in Conns |-> Adds[d] - (IF "add" = k /\ d = c THEN 1 ELSE 0)]
         /\ Sends' = [d \in Conns |-> Sends[d] - (IF "send" = k /\ d = c THEN 1 ELSE 0)]
         /\ Cleanups' = [d \in Conns |-> Cleanups[d] - (IF "cleanup" = k /\ d = c THEN 1 ELSE 0)]
  BY <1>4, <1>6, <1>7, <1>8
<1>11. ASSUME k = "send", functors' = Append(functors, Functor("cleanup", c))
       PROVE  /\ Adds' = Adds
              /\ Sends' = [d \in Conns |-> Sends[d] - (IF d = c THEN 1 ELSE 0)]
              /\ Cleanups' = [d \in Conns |-> Cleanups[d] + (IF d = c THEN 1 ELSE 0)]
  <2>1. /\ Adds' = In("add", v) /\ Sends' = In("send", v) /\ Cleanups' = In("cleanup", v)
    BY <1>5, <1>7, <1>11
  <2>2. /\ In("add", q) \in [Conns -> Nat] /\ In("send", q) \in [Conns -> Nat]
        /\ In("cleanup", q) \in [Conns -> Nat]
    BY <1>1, <1>6, InType
  <2>3. \A j \in FunctorKinds :
            In(j, u) = [d \in Conns |-> In(j, q)[d] - (IF j = "send" /\ d = c THEN 1 ELSE 0)]
    BY <1>8, <1>11
  <2> HIDE DEF u, v
  <2>4. ASSUME NEW d \in Conns
        PROVE  /\ In("add", v)[d] = In("add", q)[d]
               /\ In("send", v)[d] = In("send", q)[d] - (IF d = c THEN 1 ELSE 0)
               /\ In("cleanup", v)[d] = In("cleanup", q)[d] + (IF d = c THEN 1 ELSE 0)
    <3>1. /\ In("add", u)[d] = In("add", q)[d] - 0
          /\ In("send", u)[d] = In("send", q)[d] - (IF d = c THEN 1 ELSE 0)
          /\ In("cleanup", u)[d] = In("cleanup", q)[d] - 0
      BY <1>6, <2>3
    <3>2. /\ In("add", v)[d] = In("add", u)[d] + 0
          /\ In("send", v)[d] = In("send", u)[d] + 0
          /\ In("cleanup", v)[d] = In("cleanup", u)[d] + (IF d = c THEN 1 ELSE 0)
      BY <1>6, <1>9
    <3>3. In("add", q)[d] \in Nat /\ In("send", q)[d] \in Nat /\ In("cleanup", q)[d] \in Nat
      BY <2>2
    <3>4. QED
      BY <3>1, <3>2, <3>3
  <2>5. DOMAIN In("add", v) = Conns /\ In("add", v) = [d \in Conns |-> In("add", v)[d]]
    BY <1>6, <1>9
  <2>6. /\ In("send", v) = [d \in Conns |-> In("send", v)[d]]
        /\ In("cleanup", v) = [d \in Conns |-> In("cleanup", v)[d]]
    BY <1>6, <1>9
  <2>7. In("add", q) = [d \in Conns |-> In("add", q)[d]]
    BY <2>2
  <2>8. QED
    BY <1>7, <2>1, <2>4, <2>5, <2>6, <2>7
<1>12. QED
  BY <1>2, <1>8, <1>10, <1>11 DEF k, c, q

-----------------------------------------------------------------------------
(* What a handler's call leaves behind.                                    *)

LEMMA ConnQuiet ==
    ASSUME Types, NEW c \in Conns
    PROVE  Quiet(conn[c])
BY DEF Types, TypeOK, Connection, Quiet, Called

LEMMA Posting ==
    ASSUME NEW q \in Seq(Queued), NEW c \in Conns, NEW p \in {<<>>, <<"cleanup">>}
    PROVE  q \o [i \in DOMAIN p |-> Functor(p[i], c)]
               = IF p = <<>> THEN q ELSE Append(q, Functor("cleanup", c))
<1>1. CASE p = <<>>
  <2>1. [i \in DOMAIN p |-> Functor(p[i], c)] = <<>>
    BY <1>1
  <2>2. QED
    BY <1>1, <2>1, ConcatEmptySeq
<1>2. CASE p = <<"cleanup">>
  <2>1. [i \in DOMAIN p |-> Functor(p[i], c)] = <<Functor("cleanup", c)>>
    BY <1>2
  <2>2. Functor("cleanup", c) \in Queued
    BY DEF Functor, Queued, FunctorKinds
  <2>3. QED
    BY <1>2, <2>1, <2>2, AppendIsConcat
<1>3. QED
  BY <1>1, <1>2

LEMMA EffectIs ==
    ASSUME Types, NEW c \in Conns, NEW s, Contract(conn[c], s), Effect(c, s)
    PROVE  /\ conn' \in [Conns -> Connection]
           /\ \A d \in Conns : d # c => conn'[d] = conn[d]
           /\ conn'[c].disc = s.disc /\ conn'[c].out = s.out /\ conn'[c].inbox <= conn[c].inbox
           /\ \/ s.disc = conn[c].disc /\ functors' = functors
              \/ /\ ~conn[c].disc /\ s.disc
                 /\ functors' = Append(functors, Functor("cleanup", c))
           /\ tasks' = tasks \o s.jobs /\ tasks' \in Seq(Slots)
           /\ handled' \in [Conns -> Nat]
<1> DEFINE r == [s EXCEPT !.posted = <<>>, !.jobs = <<>>, !.crash = FALSE]
<1>1. /\ r \in Connection /\ r.disc = s.disc /\ r.out = s.out /\ r.inbox = s.inbox
      /\ r.inbox <= conn[c].inbox
  BY DEF Contract, Called, Connection
<1>2. conn' = [conn EXCEPT ![c] = r] /\ conn \in [Conns -> Connection]
  BY DEF Effect, Types, TypeOK
<1> HIDE DEF r
<1>3. conn' \in [Conns -> Connection] /\ conn'[c] = r /\ \A d \in Conns : d # c => conn'[d] = conn[d]
  BY <1>1, <1>2
<1>4. \/ s.disc = conn[c].disc /\ functors' = functors
      \/ /\ ~conn[c].disc /\ s.disc
         /\ functors' = Append(functors, Functor("cleanup", c))
  <2> DEFINE p == s.posted
  <2>1. p \in {<<>>, <<"cleanup">>}
    BY DEF Contract
  <2>2. functors' = functors \o [i \in DOMAIN p |-> Functor(p[i], c)]
    BY DEF Effect
  <2> HIDE DEF p
  <2>3. functors' = IF p = <<>> THEN functors ELSE Append(functors, Functor("cleanup", c))
    BY <2>1, <2>2, PendingIs, Posting
  <2>4. <<"cleanup">> # <<>>
    OBVIOUS
  <2>5. \/ s.disc = conn[c].disc /\ p = <<>>
        \/ ~conn[c].disc /\ s.disc /\ p = <<"cleanup">>
    BY DEF Contract, p
  <2>6. QED
    BY <2>3, <2>4, <2>5
<1>5. s.jobs \in Seq(Slots) /\ Len(s.jobs) \in Nat
  <2>1. s.jobs \in {<<>>, <<"read">>, <<"close">>}
    BY DEF Contract, Called
  <2>2. <<>> \in Seq(Slots) /\ <<"read">> \in Seq(Slots) /\ <<"close">> \in Seq(Slots)
    BY DEF Slots
  <2>3. s.jobs \in Seq(Slots)
    BY <2>1, <2>2
  <2>4. QED
    BY <2>3
<1>6. tasks' = tasks \o s.jobs /\ tasks' \in Seq(Slots)
  <2>1. tasks \in Seq(Slots) /\ tasks' = tasks \o s.jobs
    BY DEF Effect, Types, TypeOK
  <2>2. QED
    BY <1>5, <2>1
<1>7. handled' \in [Conns -> Nat]
  <2> DEFINE n == Len(s.jobs)
  <2>1. handled' = [handled EXCEPT ![c] = @ + n] /\ handled \in [Conns -> Nat]
    BY DEF Effect, Types
  <2>2. n \in Nat
    BY <1>5
  <2> HIDE DEF n
  <2>3. QED
    BY <2>1, <2>2
<1>8. QED
  BY <1>1, <1>3, <1>4, <1>6, <1>7

-----------------------------------------------------------------------------
(* The operators of Poller.                                                *)

\* What stays when the kernel or the poller looks at a connection.
SameLife(s, r) == r.disc = s.disc /\ r.out = s.out /\ r.inbox = s.inbox /\ r.async = s.async

LEMMA ArriveIs ==
    ASSUME NEW s \in Connection, NEW event
    PROVE  Arrive(s, event) \in Connection /\ SameLife(s, Arrive(s, event))
           /\ Arrive(s, event).interest = s.interest
<1> DEFINE edge == s.edge \/ event \in s.interest \cup {"ERR"}
<1>1. edge \in BOOLEAN
  OBVIOUS
<1>2. Arrive(s, event) = [s EXCEPT !.edge = edge]
  BY DEF Arrive
<1> HIDE DEF edge
<1>3. QED
  BY <1>1, <1>2 DEF Connection, SameLife

LEMMA PollReturnIs ==
    ASSUME NEW s \in Connection
    PROVE  PollReturn(s) \in Connection /\ SameLife(s, PollReturn(s))
           /\ PollReturn(s).interest = s.interest
<1>1. Reported(s) \in SUBSET (Mask \cup Returnable)
  BY DEF Reported, Condition, Returnable
<1>2. QED
  BY <1>1 DEF PollReturn, Connection, SameLife

LEMMA AddChannelIs ==
    ASSUME NEW s \in Connection
    PROVE  AddChannel(s) \in Connection /\ SameLife(s, AddChannel(s))
BY DEF AddChannel, Control, Connection, SameLife

LEMMA RemoveChannelIs ==
    ASSUME NEW s \in Connection
    PROVE  RemoveChannel(s) \in Connection /\ SameLife(s, RemoveChannel(s))
           /\ ~Registered(RemoveChannel(s))
BY DEF RemoveChannel, Connection, SameLife, Registered

-----------------------------------------------------------------------------
(* Lives under the steps that touch one connection and under those that    *)
(* touch none.                                                             *)

LEMMA TouchLives ==
    ASSUME Types, Lives, NEW c \in Conns, life[c] = "live", life' = life,
           \A d \in Conns : d # c =>
               /\ conn'[d] = conn[d] /\ Adds'[d] = Adds[d] /\ Sends'[d] = Sends[d]
               /\ Cleanups'[d] = Cleanups[d] /\ removals'[d] = removals[d]
               /\ d \in registry' <=> d \in registry,
           Adds'[c] = 0, Closes(c)', c \in registry' \/ removals'[c] > 0,
           Elements(active') \subseteq Elements(active),
           \A k \in Slots : slot'[k] \in {slot[k], c}
    PROVE  Lives'
<1>1. SUFFICES ASSUME NEW d \in Conns PROVE Closes(d)' /\ Reached(d)' /\ Fresh(d)' /\ Aged(d)'
  BY DEF Lives
<1>2. Closes(d) /\ Reached(d) /\ Fresh(d) /\ Aged(d)
  BY DEF Lives
<1>3. CASE d = c
  <2>1. Reached(d)'
    BY <1>3 DEF Reached
  <2>2. Fresh(d)'
    BY <1>3 DEF Fresh
  <2>3. Aged(d)'
    BY <1>3 DEF Aged
  <2>4. QED
    BY <1>3, <2>1, <2>2, <2>3
<1>4. CASE d # c
  <2>1. Closes(d)'
    BY <1>2, <1>4 DEF Closes
  <2>2. Reached(d)'
    BY <1>2, <1>4 DEF Reached
  <2>3. Fresh(d)'
    BY <1>2, <1>4 DEF Fresh
  <2>4. Aged(d)'
    BY <1>2, <1>4 DEF Aged
  <2>5. QED
    BY <2>1, <2>2, <2>3, <2>4
<1>5. QED
  BY <1>3, <1>4

\* Nothing of what Lives speaks of changes, but the channels that epoll returns
\* become active.
Calm == /\ UNCHANGED <<life, registry, slot, removals>>
        /\ Pending' = Pending
        /\ \A c \in Conns : /\ conn'[c].disc = conn[c].disc /\ conn'[c].interest = conn[c].interest
                            /\ c \in Elements(active') => c \in Elements(active) \/ Registered(conn[c])

LEMMA CalmLives ==
    ASSUME Lives, Calm
    PROVE  Lives'
<1>1. SUFFICES ASSUME NEW d \in Conns PROVE Closes(d)' /\ Reached(d)' /\ Fresh(d)' /\ Aged(d)'
  BY DEF Lives
<1>2. Closes(d) /\ Reached(d) /\ Fresh(d) /\ Aged(d)
  BY DEF Lives
<1>3. Adds' = Adds /\ Sends' = Sends /\ Cleanups' = Cleanups
  BY PendingKept DEF Calm
<1>4. Registered(conn'[d]) = Registered(conn[d])
  BY DEF Calm, Registered
<1>5. Closes(d)'
  BY <1>2, <1>3 DEF Calm, Closes
<1>6. Reached(d)'
  BY <1>2, <1>3, <1>4 DEF Calm, Reached
<1>7. Fresh(d)'
  BY <1>2, <1>3, <1>4 DEF Calm, Fresh
<1>8. Aged(d)'
  BY <1>2 DEF Calm, Aged
<1>9. QED
  BY <1>5, <1>6, <1>7, <1>8

-----------------------------------------------------------------------------
(* The invariant holds at first and every action keeps it.                 *)

LEMMA InitIInv ==
    ASSUME Init
    PROVE  IInv
<1>1. New \in Connection /\ ~New.disc /\ New.inbox = 0 /\ ~Registered(New)
  BY MaxRequestsAssumption DEF New, Connection, Mask, Returnable, Registered
<1>2. conn \in [Conns -> Connection] /\ \A c \in Conns : conn[c] = New
  BY <1>1 DEF Init
<1>3. /\ batch \in Seq(Queued) /\ functors \in Seq(Queued) /\ active \in Seq(Conns)
      /\ tasks \in Seq(Slots) /\ pos \in 1 .. Len(batch) + 1
  BY DEF Init
<1>4. Types
  <2>1. TypeOK
    BY <1>2, <1>3, MaxRequestsAssumption DEF Init, TypeOK, Queued
  <2>2. QED
    BY <1>1, <1>2, <2>1, MaxRequestsAssumption DEF Init, Types
<1>5. Turns
  BY DEF Init, Turns
<1>6. Referred
  BY DEF Init, Referred
<1>7. BatchLives
  BY DEF Init, BatchLives
<1>8. Lives
  <2>1. Pending = <<>>
    <3>1. Pending = SubSeq(<<>>, 1, Len(<<>>)) \o <<>>
      BY DEF Init, Pending
    <3>2. <<>> \in Seq(Queued)
      OBVIOUS
    <3>3. QED
      BY <3>1, <3>2, QueueSwaps
  <2>2. Adds = [c \in Conns |-> 0] /\ Sends = [c \in Conns |-> 0] /\ Cleanups = [c \in Conns |-> 0]
    BY <2>1, InNothing DEF Adds, Sends, Cleanups, FunctorKinds
  <2>3. SUFFICES ASSUME NEW c \in Conns PROVE Closes(c) /\ Reached(c) /\ Fresh(c) /\ Aged(c)
    BY DEF Lives
  <2>4. Elements(active) = {}
    BY DEF Init, Elements
  <2>5. Closes(c) /\ Reached(c) /\ Fresh(c)
    BY <1>1, <1>2, <2>2, <2>4 DEF Init, Closes, Reached, Fresh
  <2>6. Aged(c)
    BY <1>1, <1>2, ConnsAssumption DEF Init, Aged
  <2>7. QED
    BY <2>5, <2>6
<1>9. QED
  BY <1>4, <1>5, <1>6, <1>7, <1>8 DEF IInv

LEMMA BatchConns ==
    ASSUME Types
    PROVE  \A i \in DOMAIN batch : batch[i].conn \in Conns
<1>1. batch \in Seq(Queued)
  BY PendingIs
<1>2. \A i \in DOMAIN batch : batch[i] \in Queued
  BY <1>1
<1>3. QED
  BY <1>2 DEF Queued

LEMMA OnNewConnectionStep ==
    ASSUME IInv, NEW c \in Conns, OnNewConnection(c)
    PROVE  IInv'
<1>1. /\ life[c] = "absent" /\ life' = [life EXCEPT ![c] = "live"]
      /\ registry' = registry \cup {c} /\ functors' = Append(functors, Functor("add", c))
      /\ UNCHANGED <<conn, batch, pos, active, phase, slot, poolVars, countVars>>
  BY DEF OnNewConnection
<1>2. Types /\ Functor("add", c) \in Queued
  BY DEF IInv, Queued, Functor, FunctorKinds
<1>3. Types'
  <2>1. functors' \in Seq(Queued)
    BY <1>1, <1>2, PendingIs
  <2>2. life' \in [Conns -> {"absent", "live", "destroyed"}] /\ registry' \subseteq Conns
    BY <1>1, <1>2 DEF Types, TypeOK
  <2>3. TypeOK'
    BY <1>1, <1>2, <2>1, <2>2 DEF Types, TypeOK, Queued, poolVars, countVars
  <2>4. QED
    BY <1>1, <1>2, <2>3 DEF Types, countVars
<1>4. Turns' /\ Referred'
  BY <1>1 DEF IInv, Turns, Referred, poolVars, countVars
<1>5. BatchLives'
  <2>1. \A i \in DOMAIN batch : batch[i].conn \in Conns
    BY <1>2, BatchConns
  <2>2. QED
    BY <1>1, <1>2, <2>1 DEF IInv, BatchLives, Types, TypeOK
<1>6. Lives'
  <2>1. /\ Adds' = [d \in Conns |-> Adds[d] + (IF d = c THEN 1 ELSE 0)]
        /\ Sends' = [d \in Conns |-> Sends[d] + 0] /\ Cleanups' = [d \in Conns |-> Cleanups[d] + 0]
    BY <1>1, <1>2, PendingAppends DEF FunctorKinds
  <2>2. SUFFICES ASSUME NEW d \in Conns PROVE Closes(d)' /\ Reached(d)' /\ Fresh(d)' /\ Aged(d)'
    BY DEF Lives
  <2>3. Closes(d) /\ Reached(d) /\ Fresh(d) /\ Aged(d) /\ Reached(c) /\ Aged(c) /\ Closes(c)
    BY DEF IInv, Lives
  <2>4. Adds[d] \in Nat /\ Sends[d] \in Nat /\ Cleanups[d] \in Nat /\ removals[d] \in Nat
    BY <1>2, PendingIs DEF Types
  <2>5. /\ Sends'[d] = Sends[d] /\ Cleanups'[d] = Cleanups[d]
        /\ Adds'[d] = IF d = c THEN Adds[d] + 1 ELSE Adds[d]
        /\ conn' = conn /\ removals' = removals /\ slot' = slot /\ active' = active
    BY <1>1, <2>1, <2>4 DEF countVars
  <2>6. d # c => life'[d] = life[d] /\ (d \in registry' <=> d \in registry)
    BY <1>1, <1>2 DEF Types, TypeOK
  <2>7. life'[c] = "live" /\ c \in registry'
    BY <1>1, <1>2 DEF Types, TypeOK
  <2>8. Closes(d)'
    BY <2>3, <2>5 DEF Closes
  <2>9. Reached(d)'
    BY <2>3, <2>5, <2>6, <2>7 DEF Reached
  <2>10. Fresh(d)'
    <3>1. CASE d = c
      <4>1. Adds[c] = 0 /\ Sends[c] = 0 /\ ~Registered(conn[c]) /\ c \notin Elements(active)
        BY <1>1, <2>3, <2>4, <3>1 DEF Reached
      <4>2. ~conn[c].disc /\ \A k \in Slots : slot[k] # c
        BY <1>1, <2>3 DEF Aged
      <4>3. QED
        BY <2>5, <2>7, <3>1, <4>1, <4>2 DEF Fresh
    <3>2. CASE d # c
      BY <2>3, <2>5, <2>6, <3>2 DEF Fresh
    <3>3. QED
      BY <3>1, <3>2
  <2>11. Aged(d)'
    BY <2>3, <2>5, <2>6, <2>7 DEF Aged
  <2>12. QED
    BY <2>8, <2>9, <2>10, <2>11
<1>7. QED
  BY <1>3, <1>4, <1>5, <1>6 DEF IInv

LEMMA ClientIs ==
    ASSUME IInv, NEW c \in Conns, NEW s \in Connection, Client(c, s),
           s.disc = conn[c].disc, s.interest = conn[c].interest, s.inbox <= requests'[c],
           requests' \in [Conns -> 0 .. MaxRequests],
           \A d \in Conns : d # c => requests'[d] = requests[d]
    PROVE  IInv'
<1>1. /\ conn' = [conn EXCEPT ![c] = s]
      /\ UNCHANGED <<life, registry, loopVars, slot, poolVars, handled, answers, removals>>
  BY DEF Client
<1>2. UNCHANGED <<functors, batch, pos, active, phase, tasks, wpc, wslot>>
  BY <1>1 DEF loopVars, poolVars
<1>3. Types /\ conn \in [Conns -> Connection]
  BY DEF IInv, Types, TypeOK
<1>4. conn' \in [Conns -> Connection] /\ conn'[c] = s /\ \A d \in Conns : d # c => conn'[d] = conn[d]
  BY <1>1, <1>3
<1>5. Types'
  <2>1. TypeOK'
    BY <1>1, <1>2, <1>3, <1>4 DEF Types, TypeOK
  <2>2. QED
    BY <1>1, <1>3, <1>4, <2>1 DEF Types
<1>6. Turns' /\ Referred' /\ BatchLives'
  BY <1>1, <1>2 DEF IInv, Turns, Referred, BatchLives
<1>7. Lives'
  <2>1. Calm
    BY <1>1, <1>2, <1>4 DEF Calm, Pending
  <2>2. QED
    BY <2>1, CalmLives DEF IInv
<1>8. QED
  BY <1>5, <1>6, <1>7 DEF IInv

LEMMA ClientStepIs ==
    ASSUME IInv, NEW c \in Conns, ClientStep(c)
    PROVE  \E s \in Connection :
              /\ Client(c, s) /\ s.disc = conn[c].disc /\ s.out = conn[c].out
              /\ s.async = conn[c].async
              /\ s.interest = conn[c].interest /\ s.inbox <= requests'[c]
              /\ requests' \in [Conns -> 0 .. MaxRequests]
              /\ \A d \in Conns : d # c => requests'[d] = requests[d]
<1>1. /\ conn[c] \in Connection /\ requests \in [Conns -> 0 .. MaxRequests]
      /\ conn[c].inbox <= requests[c] /\ conn[c].inbox \in 0 .. MaxRequests
  BY DEF IInv, Types, TypeOK, Connection
<1>2. CASE ClientSend(c)
  <2> DEFINE s == [conn[c] EXCEPT !.inbox = @ + 1]
  <2>1. Client(c, Arrive(s, "IN")) /\ requests' = [requests EXCEPT ![c] = @ + 1] /\ requests[c] < MaxRequests
    BY <1>2 DEF ClientSend
  <2>2. requests[c] + 1 \in 0 .. MaxRequests /\ conn[c].inbox + 1 \in 0 .. MaxRequests
    BY <1>1, <2>1, MaxRequestsAssumption
  <2>3. /\ s \in Connection /\ s.inbox = conn[c].inbox + 1 /\ s.disc = conn[c].disc /\ s.out = conn[c].out
        /\ s.interest = conn[c].interest /\ s.async = conn[c].async
    BY <1>1, <2>2 DEF Connection
  <2> HIDE DEF s
  <2>4. /\ requests' \in [Conns -> 0 .. MaxRequests] /\ requests'[c] = requests[c] + 1
        /\ \A d \in Conns : d # c => requests'[d] = requests[d]
    BY <1>1, <2>1, <2>2
  <2>5. s.inbox <= requests'[c]
    BY <1>1, <2>3, <2>4, MaxRequestsAssumption
  <2>6. QED
    BY <2>1, <2>3, <2>4, <2>5, ArriveIs DEF SameLife
<1>3. CASE ClientShutdown(c)
  <2> DEFINE s == [conn[c] EXCEPT !.peer = "fin"]
  <2>1. Client(c, Arrive(s, "IN")) /\ requests' = requests
    BY <1>3 DEF ClientShutdown
  <2>2. /\ s \in Connection /\ s.inbox = conn[c].inbox /\ s.disc = conn[c].disc /\ s.out = conn[c].out
        /\ s.interest = conn[c].interest /\ s.async = conn[c].async
    BY <1>1 DEF Connection
  <2> HIDE DEF s
  <2>3. QED
    BY <1>1, <2>1, <2>2, ArriveIs DEF SameLife
<1>4. CASE ClientReset(c)
  <2> DEFINE s == [conn[c] EXCEPT !.peer = "rst"]
  <2>1. Client(c, Arrive(s, "ERR")) /\ requests' = requests
    BY <1>4 DEF ClientReset
  <2>2. /\ s \in Connection /\ s.inbox = conn[c].inbox /\ s.disc = conn[c].disc /\ s.out = conn[c].out
        /\ s.interest = conn[c].interest /\ s.async = conn[c].async
    BY <1>1 DEF Connection
  <2> HIDE DEF s
  <2>3. QED
    BY <1>1, <2>1, <2>2, ArriveIs DEF SameLife
<1>5. CASE ClientDrain(c)
  <2> DEFINE s == [conn[c] EXCEPT !.writable = TRUE]
  <2>1. Client(c, Arrive(s, "OUT")) /\ requests' = requests
    BY <1>5 DEF ClientDrain
  <2>2. /\ s \in Connection /\ s.inbox = conn[c].inbox /\ s.disc = conn[c].disc /\ s.out = conn[c].out
        /\ s.interest = conn[c].interest /\ s.async = conn[c].async
    BY <1>1 DEF Connection
  <2> HIDE DEF s
  <2>3. QED
    BY <1>1, <2>1, <2>2, ArriveIs DEF SameLife
<1>6. QED
  BY <1>2, <1>3, <1>4, <1>5 DEF ClientStep

LEMMA ClientStepKeeps ==
    ASSUME IInv, NEW c \in Conns, ClientStep(c)
    PROVE  IInv'
BY ClientStepIs, ClientIs

LEMMA PollStep ==
    ASSUME IInv, Poll
    PROVE  IInv'
<1>1. /\ phase = "poll" /\ phase' = "dispatch" /\ active' \in Orders(ReadyConns)
      /\ conn' = [c \in Conns |-> IF c \in ReadyConns THEN PollReturn(conn[c]) ELSE conn[c]]
      /\ UNCHANGED <<life, registry, functors, batch, pos, slot, tasks, wpc, wslot,
                     requests, handled, answers, removals>>
  BY DEF Poll, poolVars, countVars
<1>2. Types /\ conn \in [Conns -> Connection]
  BY DEF IInv, Types, TypeOK
<1>3. /\ conn' \in [Conns -> Connection]
      /\ \A c \in Conns : SameLife(conn[c], conn'[c]) /\ conn'[c].interest = conn[c].interest
  BY <1>1, <1>2, PollReturnIs DEF SameLife
<1>4. active' \in Seq(Conns) /\ \A c \in Elements(active') : c \in ReadyConns
  <2>1. ReadyConns \subseteq Conns /\ IsFiniteSet(ReadyConns)
    BY ConnsAssumption, FS_Subset DEF ReadyConns
  <2> DEFINE n == Cardinality(ReadyConns)
  <2>2. n \in Nat
    BY <2>1, FS_CardinalityType
  <2>3. active' \in [1 .. n -> ReadyConns]
    BY <1>1 DEF Orders
  <2> HIDE DEF n
  <2>4. QED
    BY <2>1, <2>2, <2>3 DEF Elements
<1>5. Types'
  <2>1. TypeOK'
    BY <1>1, <1>2, <1>3, <1>4 DEF Types, TypeOK
  <2>2. QED
    BY <1>1, <1>2, <1>3, <2>1 DEF Types, SameLife
<1>6. Turns' /\ Referred' /\ BatchLives'
  BY <1>1 DEF IInv, Turns, Referred, BatchLives
<1>7. Lives'
  <2>1. \A c \in ReadyConns : Registered(conn[c])
    BY DEF ReadyConns, Ready
  <2>2. Calm
    BY <1>1, <1>3, <1>4, <2>1 DEF Calm, Pending, SameLife
  <2>3. QED
    BY <2>2, CalmLives DEF IInv
<1>8. QED
  BY <1>5, <1>6, <1>7 DEF IInv

LEMMA ExecuteTaskStep ==
    ASSUME IInv, ExecuteTask
    PROVE  IInv'
<1>1. /\ phase = "dispatch" /\ active = <<>>
      /\ UNCHANGED <<conn, life, registry, pos, active, slot, tasks, wpc, wslot,
                     requests, handled, answers, removals>>
  BY DEF ExecuteTask, poolVars, countVars
<1>2. Types /\ batch = <<>> /\ pos = 1
  BY <1>1 DEF IInv, Turns
<1>3. \/ phase' = "poll" /\ functors' = functors /\ batch' = batch
      \/ phase' = "tasks" /\ batch' = functors /\ functors' = <<>>
  BY DEF ExecuteTask
<1>4. Pending = functors /\ Pending' = functors /\ functors \in Seq(Queued)
  <2>1. functors \in Seq(Queued)
    BY <1>2, PendingIs
  <2>2. Pending = functors
    BY <1>2, <2>1, QueueSwaps DEF Pending
  <2>3. CASE phase' = "poll" /\ functors' = functors /\ batch' = batch
    <3>1. Pending' = Pending
      BY <1>1, <2>3 DEF Pending
    <3>2. QED
      BY <2>1, <2>2, <3>1
  <2>4. CASE phase' = "tasks" /\ batch' = functors /\ functors' = <<>>
    <3>1. Pending' = SubSeq(functors, 1, Len(functors)) \o <<>>
      BY <1>1, <1>2, <2>4 DEF Pending
    <3>2. QED
      BY <2>1, <2>2, <3>1, QueueSwaps
  <2>5. QED
    BY <1>3, <2>1, <2>2, <2>3, <2>4
<1>5. Types'
  <2>1. batch' \in Seq(Queued) /\ functors' \in Seq(Queued) /\ pos' \in 1 .. Len(batch') + 1
    <3>1. batch' \in Seq(Queued) /\ functors' \in Seq(Queued)
      BY <1>2, <1>3, <1>4, PendingIs
    <3>2. Len(batch') \in Nat /\ pos' = 1
      BY <1>1, <1>2, <3>1
    <3>3. QED
      BY <3>1, <3>2
  <2>2. TypeOK'
    BY <1>1, <1>2, <1>3, <2>1 DEF Types, TypeOK, Queued
  <2>3. QED
    BY <1>1, <1>2, <2>2 DEF Types
<1>6. Turns' /\ Referred'
  BY <1>1, <1>2, <1>3 DEF IInv, Turns, Referred
<1>7. BatchLives'
  <2>1. CASE batch' = batch
    BY <1>1, <2>1 DEF IInv, BatchLives
  <2>2. CASE batch' = functors
    <3>1. SUFFICES ASSUME NEW i \in DOMAIN functors PROVE life[functors[i].conn] = "live"
      BY <1>1, <2>2 DEF BatchLives
    <3>2. /\ functors[i].kind \in FunctorKinds /\ functors[i].conn \in Conns
          /\ In(functors[i].kind, Pending)[functors[i].conn] > 0
      BY <1>4, InSeen
    <3>3. Reached(functors[i].conn)
      BY <3>2 DEF IInv, Lives
    <3>4. QED
      BY <3>2, <3>3 DEF Reached, Adds, Sends, Cleanups, FunctorKinds
  <2>3. QED
    BY <1>3, <2>1, <2>2
<1>8. Lives'
  <2>1. Calm
    BY <1>1, <1>4 DEF Calm
  <2>2. QED
    BY <2>1, CalmLives DEF IInv
<1>9. QED
  BY <1>5, <1>6, <1>7, <1>8 DEF IInv

LEMMA LeaveIs ==
    ASSUME Types, Referred, NEW c \in Conns, NEW s, NEW read \in BOOLEAN, Leave(c, s, read),
           s.jobs \in {<<>>, <<"read">>, <<"close">>}, s.jobs = <<"read">> => read,
           tasks' = tasks \o s.jobs, UNCHANGED <<wpc, wslot>>
    PROVE  /\ slot' \in [Slots -> Conns \cup {None}]
           /\ \A k \in Slots : slot'[k] \in {slot[k], c}
           /\ Referred'
<1> DEFINE j == s.jobs
<1>1. slot \in [Slots -> Conns \cup {None}] /\ tasks \in Seq(Slots)
  BY DEF Types, TypeOK
<1>2. slot' = [k \in Slots |-> IF \/ k = "read" /\ read
                                  \/ k = "close" /\ "close" \in Elements(j)
                               THEN c ELSE slot[k]]
  BY DEF Leave
<1>3. j \in {<<>>, <<"read">>, <<"close">>} /\ (j = <<"read">> => read) /\ tasks' = tasks \o j
  OBVIOUS
<1>4. j = <<"close">> => "close" \in Elements(j)
  BY DEF Elements
<1> HIDE DEF j
<1>5. slot' \in [Slots -> Conns \cup {None}] /\ \A k \in Slots : slot'[k] \in {slot[k], c}
  BY <1>1, <1>2
<1>6. \A i \in DOMAIN tasks' : \/ i \in DOMAIN tasks /\ tasks'[i] = tasks[i]
                               \/ tasks'[i] \in Slots /\ slot'[tasks'[i]] = c
  <2>1. CASE j = <<>>
    <3>1. tasks' = tasks
      BY <1>1, <1>3, <2>1, ConcatEmptySeq
    <3>2. QED
      BY <3>1
  <2>2. CASE j # <<>>
    <3>1. PICK k \in Slots : j = <<k>> /\ slot'[k] = c
      BY <1>2, <1>3, <1>4, <2>2 DEF Slots
    <3>2. tasks' = Append(tasks, k)
      BY <1>1, <1>3, <3>1, AppendIsConcat
    <3>3. \A i \in DOMAIN tasks' : \/ i \in DOMAIN tasks /\ tasks'[i] = tasks[i]
                                   \/ tasks'[i] = k
      BY <1>1, <3>2
    <3>4. QED
      BY <3>1, <3>3
  <2>3. QED
    BY <2>1, <2>2
<1>7. \A k \in Slots : slot[k] \in Conns => slot'[k] \in Conns
  BY <1>5
<1>8. \A i \in DOMAIN tasks : tasks[i] \in Slots
  BY <1>1
<1>9. Referred'
  <2>1. \A i \in DOMAIN tasks' : slot'[tasks'[i]] \in Conns
    BY <1>6, <1>7, <1>8 DEF Referred
  <2>2. \A w \in Workers : wpc'[w] # "idle" => wslot'[w] \in Slots /\ slot'[wslot'[w]] \in Conns
    BY <1>7 DEF Referred
  <2>3. QED
    BY <2>1, <2>2 DEF Referred
<1>10. QED
  BY <1>5, <1>9

LEMMA InboxShrinks ==
    ASSUME Types, NEW c \in Conns, conn' \in [Conns -> Connection], requests' = requests,
           \A d \in Conns : d # c => conn'[d] = conn[d], conn'[c].inbox <= conn[c].inbox
    PROVE  \A d \in Conns : conn'[d].inbox <= requests'[d]
<1>1. SUFFICES ASSUME NEW d \in Conns PROVE conn'[d].inbox <= requests[d]
  OBVIOUS
<1>2. conn'[d] \in Connection /\ conn[d] \in Connection /\ requests[d] \in 0 .. MaxRequests
      /\ conn[d].inbox <= requests[d]
  BY DEF Types, TypeOK
<1>3. conn'[d].inbox \in 0 .. MaxRequests /\ conn[d].inbox \in 0 .. MaxRequests
  BY <1>2 DEF Connection
<1>4. conn'[d].inbox <= conn[d].inbox
  BY <1>3, MaxRequestsAssumption
<1>5. QED
  BY <1>2, <1>3, <1>4, MaxRequestsAssumption

\* The handler of the first active connection runs and keeps its contract.
LEMMA DispatchIs ==
    ASSUME IInv, Dispatch
    PROVE  \E c \in Conns, s \in Called, read \in BOOLEAN :
              /\ c = Head(active) /\ life[c] = "live" /\ Adds[c] = 0
              /\ Contract(conn[c], s) /\ Effect(c, s) /\ PhaseAfter(s, "dispatch") /\ Leave(c, s, read)
              /\ s.jobs \in {<<>>, <<"close">>} \/ (s.jobs = <<"read">> /\ read)
              /\ Watched(conn[c], s)
<1>1. Types /\ active # <<>> /\ active \in Seq(Conns)
  BY DEF Dispatch, IInv, Types, TypeOK
<1>2. PICK c \in Conns : c = Head(active) /\ c \in Elements(active)
  BY <1>1 DEF Elements
<1>3. PICK request \in Requests, exact \in BOOLEAN, how \in Outcomes :
          LET s == HandleEvent(conn[c], request, exact, how)
          IN  /\ Effect(c, s) /\ PhaseAfter(s, "dispatch")
              /\ Leave(c, s, Handler(conn[c]) = "HandleRead" /\ NamesItself(conn[c], request, exact))
  BY <1>2 DEF Dispatch
<1> DEFINE s == HandleEvent(conn[c], request, exact, how)
<1> DEFINE read == Handler(conn[c]) = "HandleRead" /\ NamesItself(conn[c], request, exact)
<1>4. read \in BOOLEAN /\ Effect(c, s) /\ PhaseAfter(s, "dispatch") /\ Leave(c, s, read)
  BY <1>3
<1>5. Contract(conn[c], s) /\ Watched(conn[c], s) /\ (s.jobs \in {<<>>, <<"close">>} \/ (s.jobs = <<"read">> /\ read))
  <2>1. Quiet(conn[c])
    BY <1>1, <1>2, ConnQuiet
  <2>2. /\ Contract(conn[c], s)
        /\ \/ s.jobs \in {<<>>, <<"close">>}
           \/ /\ s.jobs = <<"read">>
              /\ Handler(conn[c]) = "HandleRead" /\ NamesItself(conn[c], request, exact)
    BY <2>1, HandleEventIs
  <2>3. Watched(conn[c], s)
    BY <2>1, HandleEventWatches
  <2>4. QED
    BY <2>2, <2>3
<1> HIDE DEF s, read
<1>6. s \in Called
  BY <1>5 DEF Contract
<1>7. life[c] = "live" /\ Adds[c] = 0
  <2>1. Reached(c) /\ Fresh(c)
    BY <1>2 DEF IInv, Lives
  <2>2. QED
    BY <1>1, <1>2, <2>1, PendingIs DEF Reached, Fresh
<1>8. QED
  BY <1>2, <1>4, <1>5, <1>6, <1>7

LEMMA DispatchStep ==
    ASSUME IInv, Dispatch
    PROVE  IInv'
<1>1. /\ Types /\ Referred /\ active # <<>> /\ active \in Seq(Conns) /\ phase = "dispatch"
      /\ active' = Tail(active)
      /\ UNCHANGED <<life, registry, batch, pos, wpc, wslot, requests, answers, removals>>
  BY DEF Dispatch, IInv, Types, TypeOK
<1>2. /\ active' \in Seq(Conns) /\ Elements(active') \subseteq Elements(active)
  BY <1>1 DEF Elements
<1>3. PICK c \in Conns, s \in Called, read \in BOOLEAN :
              /\ c = Head(active) /\ life[c] = "live" /\ Adds[c] = 0
              /\ Contract(conn[c], s) /\ Effect(c, s) /\ PhaseAfter(s, "dispatch") /\ Leave(c, s, read)
              /\ s.jobs \in {<<>>, <<"close">>} \/ (s.jobs = <<"read">> /\ read)
  BY DispatchIs
<1>4. Contract(conn[c], s) /\ Effect(c, s) /\ PhaseAfter(s, "dispatch") /\ Leave(c, s, read)
  BY <1>3
<1>5. s.jobs \in {<<>>, <<"close">>} \/ (s.jobs = <<"read">> /\ read)
  BY <1>3
<1>6. /\ conn' \in [Conns -> Connection]
      /\ \A d \in Conns : d # c => conn'[d] = conn[d]
      /\ conn'[c].disc = s.disc /\ conn'[c].inbox <= conn[c].inbox
      /\ \/ s.disc = conn[c].disc /\ functors' = functors
         \/ /\ ~conn[c].disc /\ s.disc
            /\ functors' = Append(functors, Functor("cleanup", c))
      /\ tasks' = tasks \o s.jobs /\ tasks' \in Seq(Slots) /\ handled' \in [Conns -> Nat]
  BY <1>1, <1>4, EffectIs
<1>7. /\ slot' \in [Slots -> Conns \cup {None}] /\ \A k \in Slots : slot'[k] \in {slot[k], c}
      /\ Referred'
  <2>1. s.jobs \in {<<>>, <<"read">>, <<"close">>} /\ (s.jobs = <<"read">> => read)
    <3>1. <<"read">> # <<>> /\ <<"read">> # <<"close">>
      OBVIOUS
    <3>2. QED
      BY <1>5, <3>1
  <2>2. QED
    BY <1>1, <1>2, <1>4, <1>6, <2>1, LeaveIs
<1>8. /\ functors' \in Seq(Queued) /\ Adds' = Adds /\ Sends' = Sends
      /\ \A d \in Conns : d # c => Cleanups'[d] = Cleanups[d]
      /\ Cleanups'[c] \in Nat
      /\ \/ s.disc = conn[c].disc /\ Cleanups'[c] = Cleanups[c]
         \/ ~conn[c].disc /\ s.disc /\ Cleanups'[c] = Cleanups[c] + 1
  <2>0. /\ functors \in Seq(Queued) /\ Adds \in [Conns -> Nat] /\ Sends \in [Conns -> Nat]
        /\ Cleanups \in [Conns -> Nat]
    BY <1>1, PendingIs
  <2>1. CASE s.disc = conn[c].disc /\ functors' = functors
    <3>1. Pending' = Pending
      BY <1>1, <2>1 DEF Pending
    <3>2. QED
      BY <1>2, <2>0, <2>1, <3>1, PendingKept
  <2>2. CASE ~conn[c].disc /\ s.disc /\ functors' = Append(functors, Functor("cleanup", c))
    <3>1. Functor("cleanup", c) \in Queued /\ "cleanup" \in FunctorKinds
      BY <1>2 DEF Queued, Functor, FunctorKinds
    <3>2. functors' \in Seq(Queued)
      BY <2>0, <2>2, <3>1
    <3>3. /\ Adds' = [d \in Conns |-> Adds[d] + (IF "add" = "cleanup" /\ d = c THEN 1 ELSE 0)]
          /\ Sends' = [d \in Conns |-> Sends[d] + (IF "send" = "cleanup" /\ d = c THEN 1 ELSE 0)]
          /\ Cleanups' = [d \in Conns |-> Cleanups[d] + (IF "cleanup" = "cleanup" /\ d = c THEN 1 ELSE 0)]
      BY <1>1, <1>2, <2>2, <3>1, PendingAppends, Zenon
    <3>4. Adds' = Adds
      BY <2>0, <3>3
    <3>5. Sends' = Sends
      BY <2>0, <3>3
    <3>6. \A d \in Conns : Cleanups'[d] = IF d = c THEN Cleanups[d] + 1 ELSE Cleanups[d]
      BY <2>0, <3>3
    <3>7. /\ Cleanups'[c] \in Nat /\ Cleanups'[c] = Cleanups[c] + 1
          /\ \A d \in Conns : d # c => Cleanups'[d] = Cleanups[d]
      BY <1>2, <2>0, <3>6
    <3>8. QED
      BY <2>2, <3>2, <3>4, <3>5, <3>7, Zenon
  <2>3. QED
    BY <1>6, <2>1, <2>2
<1>9. Types'
  <2>1. phase' \in {"poll", "dispatch", "tasks", "crashed"}
    BY <1>4 DEF PhaseAfter
  <2>2. TypeOK'
    <3>1. TypeOK /\ \A d \in Conns : {handled'[d], answers[d], removals[d]} \subseteq Nat
      BY <1>1, <1>6 DEF Types
    <3>2. /\ functors' \in Seq([kind : FunctorKinds, conn : Conns]) /\ tasks' \in Seq(Slots)
          /\ conn' \in [Conns -> Connection] /\ active' \in Seq(Conns)
          /\ slot' \in [Slots -> Conns \cup {None}]
      BY <1>2, <1>6, <1>7, <1>8 DEF Queued
    <3>3. QED
      BY <1>1, <2>1, <3>1, <3>2 DEF TypeOK
  <2>3. \A d \in Conns : conn'[d].inbox <= requests'[d]
    BY <1>1, <1>2, <1>6, InboxShrinks
  <2>4. QED
    BY <1>1, <1>6, <2>2, <2>3 DEF Types
<1>10. Turns' /\ BatchLives'
  BY <1>1, <1>4 DEF IInv, Turns, BatchLives, PhaseAfter
<1>11. Lives'
  <2>1. Closes(c) /\ Reached(c) /\ Fresh(c) /\ Aged(c)
    BY <1>2 DEF IInv, Lives
  <2>2. life[c] = "live" /\ Adds[c] = 0
    BY <1>3
  <2>3. Closes(c)'
    <3>1. Cleanups[c] \in Nat /\ removals[c] \in Nat /\ removals' = removals
      BY <1>1, PendingIs DEF Types
    <3>2. CASE s.disc = conn[c].disc /\ Cleanups'[c] = Cleanups[c]
      BY <1>6, <2>1, <3>1, <3>2 DEF Closes
    <3>3. CASE ~conn[c].disc /\ s.disc /\ Cleanups'[c] = Cleanups[c] + 1
      BY <1>6, <2>1, <3>1, <3>3 DEF Closes
    <3>4. QED
      BY <1>8, <3>2, <3>3
  <2>4. /\ c \in registry' \/ removals'[c] > 0
        /\ Adds'[c] = 0
        /\ \A d \in Conns : d # c =>
               /\ conn'[d] = conn[d] /\ Adds'[d] = Adds[d] /\ Sends'[d] = Sends[d]
               /\ Cleanups'[d] = Cleanups[d] /\ removals'[d] = removals[d]
               /\ d \in registry' <=> d \in registry
    BY <1>1, <1>6, <1>8, <2>1, <2>2 DEF Aged
  <2>5. QED
    BY <1>1, <1>2, <1>7, <2>2, <2>3, <2>4, TouchLives DEF IInv
<1>12. QED
  BY <1>7, <1>9, <1>10, <1>11 DEF IInv

\* What the functors of a batch have in common.
LEMMA RunFunctorIs ==
    ASSUME IInv, NEW kind \in FunctorKinds, RunFunctor(kind)
    PROVE  /\ Types /\ Referred /\ BatchLives /\ phase = "tasks" /\ active = <<>>
           /\ pos <= Len(batch) /\ batch[pos].kind = kind
           /\ batch' = batch /\ pos' = pos + 1 /\ pos' \in 1 .. Len(batch') + 1
           /\ UNCHANGED <<life, active, wpc, wslot, requests, answers>>
           /\ \E c \in Conns : c = batch[pos].conn /\ life[c] = "live"
<1>1. /\ Types /\ Referred /\ BatchLives /\ phase = "tasks" /\ active = <<>>
      /\ pos <= Len(batch) /\ batch[pos].kind = kind
      /\ batch' = batch /\ pos' = pos + 1
      /\ UNCHANGED <<life, active, wpc, wslot, requests, answers>>
  BY DEF IInv, Turns, RunFunctor
<1>2. batch \in Seq(Queued) /\ pos \in 1 .. Len(batch) + 1
  BY <1>1, PendingIs
<1>3. pos \in DOMAIN batch /\ pos + 1 \in 1 .. Len(batch) + 1
  BY <1>1, <1>2
<1>4. batch[pos].conn \in Conns /\ life[batch[pos].conn] = "live"
  BY <1>1, <1>3, BatchConns DEF BatchLives
<1>5. QED
  BY <1>1, <1>3, <1>4

LEMMA RunAddChannelStep ==
    ASSUME IInv, RunAddChannel
    PROVE  IInv'
<1>1. /\ RunFunctor("add") /\ conn' = [conn EXCEPT ![batch[pos].conn] = AddChannel(@)]
      /\ UNCHANGED <<registry, functors, phase, slot, tasks, handled, removals>>
  BY DEF RunAddChannel
<1>2. /\ Types /\ Referred /\ BatchLives /\ phase = "tasks" /\ active = <<>>
      /\ pos <= Len(batch) /\ batch[pos].kind = "add"
      /\ batch' = batch /\ pos' = pos + 1 /\ pos' \in 1 .. Len(batch') + 1
      /\ UNCHANGED <<life, active, wpc, wslot, requests, answers>>
  BY <1>1, RunFunctorIs DEF FunctorKinds
<1>3. PICK c \in Conns : c = batch[pos].conn /\ life[c] = "live"
  BY <1>1, RunFunctorIs DEF FunctorKinds
<1>4. conn \in [Conns -> Connection]
  BY <1>2 DEF Types, TypeOK
<1>5. /\ conn' \in [Conns -> Connection] /\ SameLife(conn[c], conn'[c])
      /\ \A d \in Conns : d # c => conn'[d] = conn[d]
  BY <1>1, <1>3, <1>4, AddChannelIs
<1>6. Types'
  <2>1. TypeOK'
    BY <1>1, <1>2, <1>5 DEF Types, TypeOK
  <2>2. \A d \in Conns : conn'[d].inbox <= requests'[d]
    BY <1>2, <1>5 DEF Types, SameLife
  <2>3. QED
    BY <1>1, <1>2, <2>1, <2>2 DEF Types
<1>7. Turns' /\ Referred' /\ BatchLives'
  BY <1>1, <1>2 DEF IInv, Turns, Referred, BatchLives
<1>8. Lives'
  <2>1. Closes(c) /\ Reached(c) /\ Fresh(c) /\ Aged(c)
    BY <1>3 DEF IInv, Lives
  <2>2. Adds \in [Conns -> Nat] /\ Sends \in [Conns -> Nat] /\ Cleanups \in [Conns -> Nat]
    BY <1>2, PendingIs
  <2>3. /\ Adds' = [d \in Conns |->
               Adds[d] - (IF "add" = batch[pos].kind /\ d = batch[pos].conn THEN 1 ELSE 0)]
        /\ Sends' = [d \in Conns |->
               Sends[d] - (IF "send" = batch[pos].kind /\ d = batch[pos].conn THEN 1 ELSE 0)]
        /\ Cleanups' = [d \in Conns |->
               Cleanups[d] - (IF "cleanup" = batch[pos].kind /\ d = batch[pos].conn THEN 1 ELSE 0)]
        /\ In(batch[pos].kind, Pending)[batch[pos].conn] > 0
    BY <1>1, <1>2, PendingAdvances, Zenon
  <2>4. /\ Adds' = [d \in Conns |-> Adds[d] - (IF d = c THEN 1 ELSE 0)]
        /\ Sends' = Sends /\ Cleanups' = Cleanups /\ Adds[c] > 0
    BY <1>2, <1>3, <2>2, <2>3 DEF Adds
  <2>5. Adds'[c] = 0
    BY <2>1, <2>4 DEF Fresh
  <2>6. Closes(c)'
    BY <1>1, <1>5, <2>1, <2>4 DEF Closes, SameLife
  <2>7. /\ c \in registry' \/ removals'[c] > 0
        /\ \A d \in Conns : d # c =>
               /\ conn'[d] = conn[d] /\ Adds'[d] = Adds[d] /\ Sends'[d] = Sends[d]
               /\ Cleanups'[d] = Cleanups[d] /\ removals'[d] = removals[d]
               /\ d \in registry' <=> d \in registry
    BY <1>1, <1>3, <1>5, <2>1, <2>2, <2>4 DEF Aged
  <2>8. QED
    BY <1>1, <1>2, <1>3, <2>5, <2>6, <2>7, TouchLives DEF IInv
<1>9. QED
  BY <1>6, <1>7, <1>8 DEF IInv

LEMMA RunRemoveConnectionStep ==
    ASSUME IInv, RunRemoveConnection
    PROVE  IInv'
<1>1. /\ RunFunctor("cleanup") /\ registry' = registry \ {batch[pos].conn}
      /\ removals' = [removals EXCEPT ![batch[pos].conn] = @ + 1]
      /\ UNCHANGED <<conn, functors, phase, slot, tasks, handled>>
  BY DEF RunRemoveConnection
<1>2. /\ Types /\ Referred /\ BatchLives /\ phase = "tasks" /\ active = <<>>
      /\ pos <= Len(batch) /\ batch[pos].kind = "cleanup"
      /\ batch' = batch /\ pos' = pos + 1 /\ pos' \in 1 .. Len(batch') + 1
      /\ UNCHANGED <<life, active, wpc, wslot, requests, answers>>
  BY <1>1, RunFunctorIs DEF FunctorKinds
<1>3. PICK c \in Conns : c = batch[pos].conn /\ life[c] = "live"
  BY <1>1, RunFunctorIs DEF FunctorKinds
<1>4. /\ removals \in [Conns -> Nat] /\ removals' \in [Conns -> Nat]
      /\ removals'[c] = removals[c] + 1 /\ \A d \in Conns : d # c => removals'[d] = removals[d]
  BY <1>1, <1>2, <1>3 DEF Types
<1>5. Types'
  <2>1. registry' \subseteq Conns /\ \A d \in Conns : {handled[d], answers[d], removals'[d]} \subseteq Nat
    <3>1. registry' \subseteq Conns
      BY <1>1, <1>2 DEF Types, TypeOK
    <3>2. QED
      BY <1>2, <1>4, <3>1 DEF Types
  <2>2. TypeOK'
    BY <1>1, <1>2, <2>1 DEF Types, TypeOK
  <2>3. QED
    BY <1>1, <1>2, <1>4, <2>2 DEF Types
<1>6. Turns' /\ Referred' /\ BatchLives'
  BY <1>1, <1>2 DEF IInv, Turns, Referred, BatchLives
<1>7. Lives'
  <2>1. Closes(c) /\ Reached(c) /\ Fresh(c) /\ Aged(c)
    BY <1>3 DEF IInv, Lives
  <2>2. Adds \in [Conns -> Nat] /\ Sends \in [Conns -> Nat] /\ Cleanups \in [Conns -> Nat]
    BY <1>2, PendingIs
  <2>3. /\ Adds' = [d \in Conns |->
               Adds[d] - (IF "add" = batch[pos].kind /\ d = batch[pos].conn THEN 1 ELSE 0)]
        /\ Sends' = [d \in Conns |->
               Sends[d] - (IF "send" = batch[pos].kind /\ d = batch[pos].conn THEN 1 ELSE 0)]
        /\ Cleanups' = [d \in Conns |->
               Cleanups[d] - (IF "cleanup" = batch[pos].kind /\ d = batch[pos].conn THEN 1 ELSE 0)]
        /\ In(batch[pos].kind, Pending)[batch[pos].conn] > 0
    BY <1>1, <1>2, PendingAdvances, Zenon
  <2>4. /\ Cleanups' = [d \in Conns |-> Cleanups[d] - (IF d = c THEN 1 ELSE 0)]
        /\ Sends' = Sends /\ Adds' = Adds /\ Cleanups[c] > 0
    BY <1>2, <1>3, <2>2, <2>3 DEF Cleanups
  <2>5. Adds'[c] = 0
    <3>1. conn[c].disc
      BY <1>4, <2>1, <2>2, <2>4 DEF Closes
    <3>2. QED
      BY <2>1, <2>2, <2>4, <3>1 DEF Fresh
  <2>6. Closes(c)'
    BY <1>1, <1>4, <2>1, <2>2, <2>4 DEF Closes
  <2>7. /\ c \in registry' \/ removals'[c] > 0
        /\ \A d \in Conns : d # c =>
               /\ conn'[d] = conn[d] /\ Adds'[d] = Adds[d] /\ Sends'[d] = Sends[d]
               /\ Cleanups'[d] = Cleanups[d] /\ removals'[d] = removals[d]
               /\ d \in registry' <=> d \in registry
    BY <1>1, <1>3, <1>4, <2>2, <2>4
  <2>8. QED
    BY <1>1, <1>2, <1>3, <2>5, <2>6, <2>7, TouchLives DEF IInv
<1>8. QED
  BY <1>5, <1>6, <1>7 DEF IInv

LEMMA RunSendInLoopIs ==
    ASSUME IInv, RunSendInLoop
    PROVE  \E c \in Conns, s \in Called :
              /\ c = batch[pos].conn /\ life[c] = "live"
              /\ Contract(conn[c], s) /\ Effect(c, s) /\ PhaseAfter(s, "tasks") /\ Leave(c, s, FALSE)
              /\ s.jobs \in {<<>>, <<"close">>} /\ Watched(conn[c], s)
<1>1. RunFunctor("send") /\ "send" \in FunctorKinds
  BY DEF RunSendInLoop, FunctorKinds
<1>2. PICK c \in Conns : c = batch[pos].conn /\ life[c] = "live"
  BY <1>1, RunFunctorIs
<1>3. PICK how \in Outcomes : LET s == SendInLoop(conn[c], how)
                            IN  Effect(c, s) /\ PhaseAfter(s, "tasks") /\ Leave(c, s, FALSE)
  BY <1>2 DEF RunSendInLoop
<1> DEFINE s == SendInLoop(conn[c], how)
<1>4. Contract(conn[c], s) /\ s.jobs \in {<<>>, <<"close">>} /\ Watched(conn[c], s)
  BY <1>2, ConnQuiet, SendInLoopIs, SendInLoopWatches DEF IInv
<1>5. Effect(c, s) /\ PhaseAfter(s, "tasks") /\ Leave(c, s, FALSE)
  BY <1>3
<1> HIDE DEF s
<1>6. s \in Called
  BY <1>4 DEF Contract
<1>7. QED
  BY <1>2, <1>4, <1>5, <1>6

LEMMA RunSendInLoopStep ==
    ASSUME IInv, RunSendInLoop
    PROVE  IInv'
<1>1. RunFunctor("send") /\ UNCHANGED <<registry, removals>>
  BY DEF RunSendInLoop
<1>2. /\ Types /\ Referred /\ BatchLives /\ phase = "tasks" /\ active = <<>>
      /\ pos <= Len(batch) /\ batch[pos].kind = "send"
      /\ batch' = batch /\ pos' = pos + 1 /\ pos' \in 1 .. Len(batch') + 1
      /\ UNCHANGED <<life, active, wpc, wslot, requests, answers>>
  BY <1>1, RunFunctorIs DEF FunctorKinds
<1>3. PICK c \in Conns, s \in Called :
              /\ c = batch[pos].conn /\ life[c] = "live"
              /\ Contract(conn[c], s) /\ Effect(c, s) /\ PhaseAfter(s, "tasks") /\ Leave(c, s, FALSE)
              /\ s.jobs \in {<<>>, <<"close">>}
  BY RunSendInLoopIs
<1>4. c = batch[pos].conn /\ life[c] = "live"
  BY <1>3
<1>5. Effect(c, s) /\ PhaseAfter(s, "tasks") /\ Leave(c, s, FALSE)
  BY <1>3
<1>6. Contract(conn[c], s) /\ s.jobs \in {<<>>, <<"close">>}
  BY <1>3
<1>7. /\ conn' \in [Conns -> Connection]
      /\ \A d \in Conns : d # c => conn'[d] = conn[d]
      /\ conn'[c].disc = s.disc /\ conn'[c].inbox <= conn[c].inbox
      /\ \/ s.disc = conn[c].disc /\ functors' = functors
         \/ /\ ~conn[c].disc /\ s.disc
            /\ functors' = Append(functors, Functor("cleanup", c))
      /\ tasks' = tasks \o s.jobs /\ tasks' \in Seq(Slots) /\ handled' \in [Conns -> Nat]
  BY <1>2, <1>5, <1>6, EffectIs
<1>8. /\ slot' \in [Slots -> Conns \cup {None}] /\ \A k \in Slots : slot'[k] \in {slot[k], c}
      /\ Referred'
  <2>1. s.jobs \in {<<>>, <<"read">>, <<"close">>} /\ (s.jobs = <<"read">> => FALSE)
    <3>1. <<"read">> # <<>> /\ <<"read">> # <<"close">>
      OBVIOUS
    <3>2. QED
      BY <1>6, <3>1
  <2>2. QED
    BY <1>2, <1>5, <1>7, <2>1, LeaveIs
<1>9. /\ functors' \in Seq(Queued) /\ Adds' = Adds
      /\ \A d \in Conns : d # c => Sends'[d] = Sends[d] /\ Cleanups'[d] = Cleanups[d]
      /\ \/ s.disc = conn[c].disc /\ Cleanups'[c] = Cleanups[c]
         \/ ~conn[c].disc /\ s.disc /\ Cleanups'[c] = Cleanups[c] + 1
  <2>1. /\ functors \in Seq(Queued) /\ Adds \in [Conns -> Nat] /\ Sends \in [Conns -> Nat]
        /\ Cleanups \in [Conns -> Nat]
    BY <1>2, PendingIs
  <2>2. CASE s.disc = conn[c].disc /\ functors' = functors
    <3>1. /\ Adds' = [d \in Conns |->
                 Adds[d] - (IF "add" = batch[pos].kind /\ d = batch[pos].conn THEN 1 ELSE 0)]
          /\ Sends' = [d \in Conns |->
                 Sends[d] - (IF "send" = batch[pos].kind /\ d = batch[pos].conn THEN 1 ELSE 0)]
          /\ Cleanups' = [d \in Conns |->
                 Cleanups[d] - (IF "cleanup" = batch[pos].kind /\ d = batch[pos].conn THEN 1 ELSE 0)]
      BY <1>2, <2>2, PendingAdvances, Zenon
    <3>2. /\ Sends' = [d \in Conns |-> Sends[d] - (IF d = c THEN 1 ELSE 0)]
          /\ Adds' = Adds /\ Cleanups' = Cleanups
      BY <1>2, <1>4, <2>1, <3>1
    <3>3. QED
      BY <2>1, <2>2, <3>2
  <2>3. CASE ~conn[c].disc /\ s.disc /\ functors' = Append(functors, Functor("cleanup", c))
    <3>1. Functor("cleanup", c) \in Queued
      BY DEF Queued, Functor, FunctorKinds
    <3>2. functors' \in Seq(Queued)
      BY <2>1, <2>3, <3>1
    <3>3. /\ Adds' = Adds
          /\ Sends' = [d \in Conns |-> Sends[d] - (IF d = batch[pos].conn THEN 1 ELSE 0)]
          /\ Cleanups' = [d \in Conns |-> Cleanups[d] + (IF d = batch[pos].conn THEN 1 ELSE 0)]
      BY <1>2, <1>4, <2>3, PendingAdvances, Zenon
    <3>4. /\ \A d \in Conns : d # c => Sends'[d] = Sends[d] /\ Cleanups'[d] = Cleanups[d]
          /\ Cleanups'[c] = Cleanups[c] + 1
      BY <1>4, <2>1, <3>3
    <3>5. QED
      BY <2>3, <3>2, <3>3, <3>4, Zenon
  <2>4. QED
    BY <1>7, <2>2, <2>3
<1>10. Types'
  <2>1. phase' \in {"poll", "dispatch", "tasks", "crashed"}
    BY <1>5 DEF PhaseAfter
  <2>2. TypeOK'
    <3>1. TypeOK /\ \A d \in Conns : {handled'[d], answers[d], removals[d]} \subseteq Nat
      BY <1>2, <1>7 DEF Types
    <3>2. /\ functors' \in Seq([kind : FunctorKinds, conn : Conns]) /\ tasks' \in Seq(Slots)
          /\ conn' \in [Conns -> Connection] /\ slot' \in [Slots -> Conns \cup {None}]
      BY <1>7, <1>8, <1>9 DEF Queued
    <3>3. QED
      BY <1>1, <1>2, <2>1, <3>1, <3>2 DEF TypeOK
  <2>3. \A d \in Conns : conn'[d].inbox <= requests'[d]
    BY <1>2, <1>7, InboxShrinks
  <2>4. QED
    BY <1>1, <1>2, <1>7, <2>2, <2>3 DEF Types
<1>11. Turns' /\ BatchLives'
  BY <1>2, <1>5 DEF Turns, BatchLives, PhaseAfter
<1>12. Lives'
  <2>1. Closes(c) /\ Reached(c) /\ Fresh(c) /\ Aged(c)
    BY <1>4 DEF IInv, Lives
  <2>2. Adds'[c] = 0
    <3>1. In("send", Pending)[c] > 0
      BY <1>2, <1>4, PendingAdvances
    <3>2. Sends[c] > 0 /\ Adds[c] \in Nat /\ Sends[c] \in Nat
      BY <1>2, <3>1, PendingIs DEF Sends
    <3>3. QED
      BY <1>9, <2>1, <3>2 DEF Fresh
  <2>3. Closes(c)'
    <3>1. Cleanups[c] \in Nat /\ removals[c] \in Nat /\ removals' = removals
      BY <1>1, <1>2, PendingIs DEF Types
    <3>2. CASE s.disc = conn[c].disc /\ Cleanups'[c] = Cleanups[c]
      BY <1>7, <2>1, <3>1, <3>2 DEF Closes
    <3>3. CASE ~conn[c].disc /\ s.disc /\ Cleanups'[c] = Cleanups[c] + 1
      BY <1>7, <2>1, <3>1, <3>3 DEF Closes
    <3>4. QED
      BY <1>9, <3>2, <3>3
  <2>4. /\ c \in registry' \/ removals'[c] > 0
        /\ \A d \in Conns : d # c =>
               /\ conn'[d] = conn[d] /\ Adds'[d] = Adds[d] /\ Sends'[d] = Sends[d]
               /\ Cleanups'[d] = Cleanups[d] /\ removals'[d] = removals[d]
               /\ d \in registry' <=> d \in registry
    BY <1>1, <1>4, <1>7, <1>9, <2>1 DEF Aged
  <2>5. QED
    BY <1>2, <1>4, <1>8, <2>2, <2>3, <2>4, TouchLives DEF IInv
<1>13. QED
  BY <1>8, <1>10, <1>11, <1>12 DEF IInv

LEMMA NotQueued ==
    ASSUME NEW q \in Seq(Queued), NEW k \in FunctorKinds, NEW c \in Conns,
           \A f \in Elements(q) : ~(f.conn = c /\ f.kind = k)
    PROVE  In(k, q)[c] = 0
<1>1. \A i \in DOMAIN q : q[i] # Functor(k, c)
  BY DEF Elements, Functor
<1>2. QED
  BY <1>1, OccurrencesNone DEF In

LEMMA ReleaseStep ==
    ASSUME IInv, Release
    PROVE  IInv'
<1>1. /\ phase = "tasks" /\ pos > Len(batch) /\ Destroy(Dropped) /\ Unregister(Dropped)
      /\ batch' = <<>> /\ pos' = 1 /\ phase' = "poll"
      /\ UNCHANGED <<registry, functors, active, slot, tasks, wpc, wslot,
                     requests, handled, answers, removals>>
  BY DEF Release, poolVars, countVars
<1>2. Types /\ active = <<>>
  BY <1>1 DEF IInv, Turns
<1>3. /\ conn \in [Conns -> Connection] /\ life \in [Conns -> {"absent", "live", "destroyed"}]
      /\ functors \in Seq(Queued) /\ batch \in Seq(Queued) /\ pos \in 1 .. Len(batch) + 1
  BY <1>2, PendingIs DEF Types, TypeOK
<1>4. /\ life' = [c \in Conns |-> IF c \in Dropped THEN "destroyed" ELSE life[c]]
      /\ life' \in [Conns -> {"absent", "live", "destroyed"}]
  BY <1>1, <1>3 DEF Destroy
<1>5. /\ conn' \in [Conns -> Connection] /\ \A c \in Conns : SameLife(conn[c], conn'[c])
      /\ \A c \in Dropped : ~Registered(conn'[c])
      /\ \A c \in Conns \ Dropped : conn'[c] = conn[c]
  BY <1>1, <1>3, RemoveChannelIs DEF Unregister, SameLife, Dropped
<1>6. Pending = functors /\ Pending' = Pending
  <2>1. pos = Len(batch) + 1
    BY <1>1, <1>3
  <2>2. SubSeq(batch, pos, Len(batch)) = <<>>
    BY <1>3, <2>1, QueueSwaps
  <2>3. Pending = functors
    BY <1>3, <2>2, ConcatEmptySeq DEF Pending
  <2>4. Pending' = SubSeq(<<>>, 1, Len(<<>>)) \o functors
    BY <1>1 DEF Pending
  <2>5. QED
    BY <1>3, <2>3, <2>4, QueueSwaps
<1>7. \A c \in Dropped : Adds[c] = 0 /\ Sends[c] = 0 /\ Cleanups[c] = 0
  <2>1. SUFFICES ASSUME NEW c \in Dropped PROVE Adds[c] = 0 /\ Sends[c] = 0 /\ Cleanups[c] = 0
    OBVIOUS
  <2>2. /\ c \in Conns /\ c \notin registry
        /\ \A f \in Elements(functors) : ~(f.conn = c /\ f.kind # "add")
    BY DEF Dropped, Held
  <2>3. Sends[c] = 0 /\ Cleanups[c] = 0
    <3>1. /\ \A f \in Elements(functors) : ~(f.conn = c /\ f.kind = "send")
          /\ \A f \in Elements(functors) : ~(f.conn = c /\ f.kind = "cleanup")
      BY <2>2
    <3>2. In("send", functors)[c] = 0 /\ In("cleanup", functors)[c] = 0
      BY <1>3, <2>2, <3>1, NotQueued DEF FunctorKinds
    <3>3. QED
      BY <1>6, <3>2 DEF Sends, Cleanups
  <2>4. Adds[c] = 0
    BY <1>2, <2>2, PendingIs DEF IInv, Lives, Fresh
  <2>5. QED
    BY <2>3, <2>4
<1>8. Types'
  <2>1. /\ batch' \in Seq([kind : FunctorKinds, conn : Conns]) /\ pos' \in 1 .. Len(batch') + 1
    BY <1>1
  <2>2. TypeOK'
    BY <1>1, <1>2, <1>4, <1>5, <2>1 DEF Types, TypeOK
  <2>3. QED
    BY <1>1, <1>2, <1>5, <2>2 DEF Types, SameLife
<1>9. Turns' /\ Referred' /\ BatchLives'
  BY <1>1 DEF IInv, Turns, Referred, BatchLives
<1>10. Lives'
  <2>1. SUFFICES ASSUME NEW d \in Conns PROVE Closes(d)' /\ Reached(d)' /\ Fresh(d)' /\ Aged(d)'
    BY DEF Lives
  <2>2. Closes(d) /\ Reached(d) /\ Fresh(d) /\ Aged(d)
    BY DEF IInv, Lives
  <2>3. Adds' = Adds /\ Sends' = Sends /\ Cleanups' = Cleanups /\ active' = <<>>
    BY <1>1, <1>2, <1>6, PendingKept
  <2>4. d \notin Elements(active')
    BY <2>3 DEF Elements
  <2>5. Closes(d)'
    BY <1>1, <1>5, <2>2, <2>3 DEF Closes, SameLife
  <2>6. Reached(d)'
    BY <1>4, <1>5, <1>7, <2>2, <2>3, <2>4 DEF Reached
  <2>7. Fresh(d)'
    BY <1>1, <1>5, <1>7, <2>2, <2>3, <2>4 DEF Fresh
  <2>8. Aged(d)'
    BY <1>1, <1>4, <1>5, <2>2 DEF Aged, SameLife
  <2>9. QED
    BY <2>5, <2>6, <2>7, <2>8
<1>11. QED
  BY <1>8, <1>9, <1>10 DEF IInv

\* A worker's access changes the buffer and asyncProcessing_ of a connection
\* that is no longer fresh, and may queue SendInLoop.
LEMMA AccessKeeps ==
    ASSUME IInv, NEW w \in Workers, NEW from \in {"check", "answer", "flush", "reset"},
           NEW to \in {"idle", "answer", "flush", "reset"}, NEW s \in Connection,
           NEW c \in Conns, c = Target(w), Access(w, from, to, s), s.disc = conn[c].disc,
           s.interest = conn[c].interest, s.inbox = conn[c].inbox, answers' \in [Conns -> Nat],
           functors' = functors \/ functors' = Append(functors, Functor("send", c))
    PROVE  IInv'
<1>1. /\ wpc[w] = from /\ wpc' = [wpc EXCEPT ![w] = to] /\ life[c] = "live"
      /\ conn' = [conn EXCEPT ![c] = s]
      /\ UNCHANGED <<life, registry, batch, pos, active, phase, slot, tasks, wslot, requests,
                     handled, removals>>
  BY DEF Access
<1>2. Types /\ Referred
  BY DEF IInv
<1>3. /\ conn \in [Conns -> Connection] /\ functors \in Seq(Queued)
      /\ wpc \in [Workers -> {"idle", "check", "answer", "flush", "reset"}]
  BY <1>2, PendingIs DEF Types, TypeOK
<1>4. conn' \in [Conns -> Connection] /\ conn'[c] = s /\ \A d \in Conns : d # c => conn'[d] = conn[d]
  BY <1>1, <1>3
<1>5. wpc' \in [Workers -> {"idle", "check", "answer", "flush", "reset"}]
  BY <1>1, <1>3
<1>6. functors' \in Seq(Queued)
  <2>1. Functor("send", c) \in Queued
    BY DEF Functor, Queued, FunctorKinds
  <2>2. QED
    BY <1>3, <2>1
<1>7. Types'
  <2>1. \A d \in Conns : {handled[d], answers'[d], removals[d]} \subseteq Nat
    BY <1>2 DEF Types
  <2>2. TypeOK'
    BY <1>1, <1>2, <1>4, <1>5, <1>6, <2>1 DEF Types, TypeOK, Queued
  <2>3. QED
    BY <1>1, <1>2, <1>4, <2>2 DEF Types
<1>8. Turns' /\ BatchLives'
  BY <1>1 DEF IInv, Turns, BatchLives
<1>9. Referred'
  <2>1. wpc[w] # "idle"
    BY <1>1
  <2>2. \A v \in Workers : wpc'[v] # "idle" => wpc[v] # "idle"
    BY <1>1, <1>3, <2>1
  <2>3. QED
    BY <1>1, <1>2, <2>2 DEF Referred
<1>10. Lives'
  <2>1. CASE functors' = functors
    <3>1. Calm
      BY <1>1, <1>4, <2>1 DEF Calm, Pending
    <3>2. QED
      BY <3>1, CalmLives DEF IInv
  <2>2. CASE functors' = Append(functors, Functor("send", c))
    <3>1. Closes(c) /\ Reached(c) /\ Fresh(c) /\ Aged(c)
      BY DEF IInv, Lives
    <3>2. /\ Adds \in [Conns -> Nat] /\ Sends \in [Conns -> Nat] /\ Cleanups \in [Conns -> Nat]
      BY <1>2, PendingIs
    <3>3. "send" \in FunctorKinds /\ UNCHANGED <<batch, pos>>
      BY <1>1 DEF FunctorKinds
    <3>4. /\ Adds' = [d \in Conns |-> Adds[d] + (IF "add" = "send" /\ d = c THEN 1 ELSE 0)]
          /\ Sends' = [d \in Conns |-> Sends[d] + (IF "send" = "send" /\ d = c THEN 1 ELSE 0)]
          /\ Cleanups' = [d \in Conns |-> Cleanups[d] + (IF "cleanup" = "send" /\ d = c THEN 1 ELSE 0)]
      BY <1>2, <2>2, <3>3, PendingAppends, Zenon
    <3>5. Adds' = Adds /\ Cleanups' = Cleanups
      BY <3>2, <3>4
    <3>6. \A d \in Conns : d # c => Sends'[d] = Sends[d]
      BY <3>2, <3>4
    <3>7. Adds'[c] = 0
      <4>1. wslot[w] \in Slots /\ slot[wslot[w]] = c
        BY <1>1, <1>2 DEF Referred, Target
      <4>2. QED
        BY <3>1, <3>2, <3>5, <4>1 DEF Fresh
    <3>8. Closes(c)'
      BY <1>1, <1>4, <3>1, <3>5 DEF Closes
    <3>9. /\ c \in registry' \/ removals'[c] > 0
          /\ \A d \in Conns : d # c =>
                 /\ conn'[d] = conn[d] /\ Adds'[d] = Adds[d] /\ Sends'[d] = Sends[d]
                 /\ Cleanups'[d] = Cleanups[d] /\ removals'[d] = removals[d]
                 /\ d \in registry' <=> d \in registry
      BY <1>1, <1>4, <3>1, <3>5, <3>6 DEF Aged
    <3>10. Elements(active') \subseteq Elements(active) /\ \A k \in Slots : slot'[k] \in {slot[k], c}
      BY <1>1
    <3>11. QED
      BY <1>1, <1>2, <3>7, <3>8, <3>9, <3>10, TouchLives DEF IInv
  <2>3. QED
    BY <2>1, <2>2
<1>11. QED
  BY <1>7, <1>8, <1>9, <1>10 DEF IInv

LEMMA TargetIs ==
    ASSUME IInv, NEW w \in Workers, wpc[w] # "idle"
    PROVE  \E c \in Conns : c = Target(w) /\ conn[c] \in Connection
BY DEF IInv, Types, TypeOK, Referred, Target

LEMMA WorkerStepKeeps ==
    ASSUME IInv, NEW w \in Workers, WorkerStep(w)
    PROVE  IInv'
<1>1. CASE Begin(w)
  <2>1. /\ tasks # <<>> /\ wpc' = [wpc EXCEPT ![w] = "check"]
        /\ wslot' = [wslot EXCEPT ![w] = Head(tasks)] /\ tasks' = Tail(tasks)
        /\ UNCHANGED <<conn, life, registry, functors, batch, pos, active, phase, slot,
                       requests, handled, answers, removals>>
    BY <1>1 DEF Begin, loopVars, countVars
  <2>2. Types /\ Referred
    BY DEF IInv
  <2>3. /\ tasks \in Seq(Slots) /\ wpc \in [Workers -> {"idle", "check", "answer", "flush", "reset"}]
        /\ wslot \in [Workers -> Slots \cup {None}]
    BY <2>2 DEF Types, TypeOK
  <2>4. /\ Head(tasks) \in Slots /\ tasks' \in Seq(Slots) /\ slot[Head(tasks)] \in Conns
        /\ \A i \in DOMAIN tasks' : slot[tasks'[i]] \in Conns
    BY <2>1, <2>2, <2>3 DEF Referred
  <2>5. /\ wpc' \in [Workers -> {"idle", "check", "answer", "flush", "reset"}]
        /\ wslot' \in [Workers -> Slots \cup {None}]
    BY <2>1, <2>3, <2>4
  <2>6. Types'
    <3>1. TypeOK'
      BY <2>1, <2>2, <2>4, <2>5 DEF Types, TypeOK
    <3>2. QED
      BY <2>1, <2>2, <3>1 DEF Types
  <2>7. Turns' /\ BatchLives'
    BY <2>1 DEF IInv, Turns, BatchLives
  <2>8. Referred'
    <3>1. \A v \in Workers : v # w => wpc'[v] = wpc[v] /\ wslot'[v] = wslot[v]
      BY <2>1, <2>3
    <3>2. wslot'[w] = Head(tasks)
      BY <2>1, <2>3
    <3>3. QED
      BY <2>1, <2>2, <2>4, <3>1, <3>2 DEF Referred
  <2>9. Lives'
    <3>1. Calm
      BY <2>1 DEF Calm, Pending
    <3>2. QED
      BY <3>1, CalmLives DEF IInv
  <2>10. QED
    BY <2>6, <2>7, <2>8, <2>9 DEF IInv
<1>2. CASE CheckConnected(w)
  <2>1. wpc[w] = "check" /\ UNCHANGED <<functors, answers>>
    BY <1>2 DEF CheckConnected, Access
  <2>2. PICK c \in Conns : c = Target(w) /\ conn[c] \in Connection
    BY <2>1, TargetIs
  <2> DEFINE to == IF conn[c].disc THEN "idle" ELSE "answer"
  <2>3. Access(w, "check", to, conn[c]) /\ to \in {"idle", "answer", "flush", "reset"}
    BY <1>2, <2>2 DEF CheckConnected
  <2> HIDE DEF to
  <2>4. answers' \in [Conns -> Nat]
    BY <2>1 DEF IInv, Types
  <2>5. QED
    BY <2>1, <2>2, <2>3, <2>4, AccessKeeps
<1>3. CASE Answer(w)
  <2>1. /\ wpc[w] = "answer" /\ answers' = [answers EXCEPT ![Target(w)] = @ + 1]
        /\ UNCHANGED functors
    BY <1>3 DEF Answer
  <2>2. PICK c \in Conns : c = Target(w) /\ conn[c] \in Connection
    BY <2>1, TargetIs
  <2>3. PICK kept \in {0, conn[c].out} :
            Access(w, "answer", "flush", [conn[c] EXCEPT !.out = kept + ResponseSize])
    BY <1>3, <2>2 DEF Answer
  <2> DEFINE s == [conn[c] EXCEPT !.out = kept + ResponseSize]
  <2>4. s \in Connection /\ s.disc = conn[c].disc /\ s.interest = conn[c].interest /\ s.inbox = conn[c].inbox
    <3>1. kept + ResponseSize \in Nat
      <4>1. conn[c].out \in Nat
        BY <2>2 DEF Connection
      <4>2. QED
        BY <4>1, ResponseSizeAssumption
    <3>2. QED
      BY <2>2, <3>1 DEF Connection
  <2>5. Access(w, "answer", "flush", s)
    BY <2>3
  <2> HIDE DEF s
  <2>6. answers' \in [Conns -> Nat]
    BY <2>1, <2>2 DEF IInv, Types
  <2>7. QED
    BY <2>1, <2>2, <2>4, <2>5, <2>6, AccessKeeps
<1>4. CASE SendBufferOut(w)
  <2>1. /\ wpc[w] = "flush" /\ answers' = answers
        /\ functors' = Append(functors, Functor("send", Target(w)))
    BY <1>4 DEF SendBufferOut, Access
  <2>2. PICK c \in Conns : c = Target(w) /\ conn[c] \in Connection
    BY <2>1, TargetIs
  <2> DEFINE s == [conn[c] EXCEPT !.async = FALSE]
  <2>3. s \in Connection /\ s.disc = conn[c].disc /\ s.interest = conn[c].interest /\ s.inbox = conn[c].inbox
    BY <2>2 DEF Connection
  <2>4. Access(w, "flush", "reset", s)
    BY <1>4, <2>2 DEF SendBufferOut
  <2> HIDE DEF s
  <2>5. answers' \in [Conns -> Nat]
    BY <2>1 DEF IInv, Types
  <2>6. QED
    BY <2>1, <2>2, <2>3, <2>4, <2>5, AccessKeeps
<1>5. CASE ResetAsync(w)
  <2>1. wpc[w] = "reset" /\ UNCHANGED <<functors, answers>>
    BY <1>5 DEF ResetAsync, Access
  <2>2. PICK c \in Conns : c = Target(w) /\ conn[c] \in Connection
    BY <2>1, TargetIs
  <2> DEFINE s == [conn[c] EXCEPT !.async = FALSE]
  <2>3. s \in Connection /\ s.disc = conn[c].disc /\ s.interest = conn[c].interest /\ s.inbox = conn[c].inbox
    BY <2>2 DEF Connection
  <2>4. Access(w, "reset", "idle", s)
    BY <1>5, <2>2 DEF ResetAsync
  <2> HIDE DEF s
  <2>5. answers' \in [Conns -> Nat]
    BY <2>1 DEF IInv, Types
  <2>6. QED
    BY <2>1, <2>2, <2>3, <2>4, <2>5, AccessKeeps
<1>6. CASE DeadRead(w)
  <2>1. /\ phase' = "crashed"
        /\ UNCHANGED <<conn, life, registry, functors, batch, pos, active, slot, tasks, wpc, wslot,
                       requests, handled, answers, removals>>
    BY <1>6 DEF DeadRead, poolVars, countVars
  <2>2. Types'
    <3>1. TypeOK'
      BY <2>1 DEF IInv, Types, TypeOK
    <3>2. QED
      BY <2>1, <3>1 DEF IInv, Types
  <2>3. Turns' /\ Referred' /\ BatchLives'
    BY <2>1 DEF IInv, Turns, Referred, BatchLives
  <2>4. Calm
    BY <2>1 DEF Calm, Pending
  <2>5. QED
    BY <2>2, <2>3, <2>4, CalmLives DEF IInv
<1>7. QED
  BY <1>1, <1>2, <1>3, <1>4, <1>5, <1>6 DEF WorkerStep

LEMMA StepIInv ==
    ASSUME IInv, [Next]_vars
    PROVE  IInv'
<1>1. CASE UNCHANGED vars
  <2>1. UNCHANGED <<conn, life, registry, functors, batch, pos, active, phase, slot, tasks, wpc,
                    wslot, requests, handled, answers, removals>>
    BY <1>1 DEF vars, loopVars, poolVars, countVars
  <2>2. Types'
    <3>1. TypeOK'
      BY <2>1 DEF IInv, Types, TypeOK
    <3>2. QED
      BY <2>1, <3>1 DEF IInv, Types
  <2>3. Turns' /\ Referred' /\ BatchLives'
    BY <2>1 DEF IInv, Turns, Referred, BatchLives
  <2>4. Calm
    BY <2>1 DEF Calm, Pending
  <2>5. QED
    BY <2>2, <2>3, <2>4, CalmLives DEF IInv
<1>2. CASE LoopStep
  BY <1>2, PollStep, DispatchStep, ExecuteTaskStep, RunAddChannelStep, RunSendInLoopStep,
     RunRemoveConnectionStep, ReleaseStep DEF LoopStep
<1>3. CASE \E w \in Workers : WorkerStep(w)
  BY <1>3, WorkerStepKeeps
<1>4. CASE \E c \in Conns : OnNewConnection(c) \/ ClientStep(c)
  BY <1>4, OnNewConnectionStep, ClientStepKeeps
<1>5. QED
  BY <1>1, <1>2, <1>3, <1>4 DEF Next

LEMMA AlwaysIInv == Spec => []IInv
<1>1. Init => IInv
  BY InitIInv
<1>2. IInv /\ [Next]_vars => IInv'
  BY StepIInv
<1>3. QED
  BY <1>1, <1>2, PTL DEF Spec

\* Every variable of the reactor keeps its type.
THEOREM TypeOKHolds == Spec => []TypeOK
<1>1. IInv => TypeOK
  BY DEF IInv, Types
<1>2. QED
  BY <1>1, AlwaysIInv, PTL

\* A connection is handed to RemoveConnection once for its whole life: the
\* cleanups queued and run are one exactly when disConnected_ is set.
THEOREM CleanupOnceHolds == Spec => []CleanupOnce
<1>1. ASSUME IInv, NEW c \in Conns
      PROVE  Cardinality(PendingOf(Functor("cleanup", c))) + removals[c] = IF conn[c].disc THEN 1 ELSE 0
  <2>1. Closes(c)
    BY <1>1 DEF IInv, Lives
  <2>2. Cleanups[c] = Cardinality(PendingOf(Functor("cleanup", c)))
    BY DEF Cleanups, In, Occurrences, PendingOf
  <2>3. QED
    BY <2>1, <2>2 DEF Closes
<1>2. IInv => CleanupOnce
  BY <1>1 DEF CleanupOnce
<1>3. QED
  BY <1>2, AlwaysIInv, PTL

\* The raw pointers of epoll, activeChannelList_ and functorList_ are to
\* connections that live.
THEOREM NoDanglingChannelHolds == Spec => []NoDanglingChannel
<1>1. ASSUME IInv, NEW c \in Conns,
             \/ Registered(conn[c]) \/ c \in Elements(active)
             \/ \E i \in DOMAIN Pending : Pending[i].conn = c
      PROVE  life[c] = "live"
  <2>1. Reached(c) /\ Types
    BY <1>1 DEF IInv, Lives
  <2>2. CASE Registered(conn[c]) \/ c \in Elements(active)
    BY <2>1, <2>2 DEF Reached
  <2>3. ASSUME NEW i \in DOMAIN Pending, Pending[i].conn = c
        PROVE  life[c] = "live"
    <3>1. Pending \in Seq(Queued)
      BY <2>1, PendingIs
    <3>2. Pending[i].kind \in FunctorKinds /\ In(Pending[i].kind, Pending)[c] > 0
      BY <2>3, <3>1, InSeen
    <3>3. QED
      BY <2>1, <3>2 DEF Reached, Adds, Sends, Cleanups, FunctorKinds
  <2>4. QED
    BY <1>1, <2>2, <2>3
<1>2. IInv => NoDanglingChannel
  BY <1>1 DEF NoDanglingChannel
<1>3. QED
  BY <1>2, AlwaysIInv, PTL

-----------------------------------------------------------------------------
(* ConnectionLifecycle.                                                    *)

LEMMA StageIs ==
    ASSUME NEW c \in Conns, Types
    PROVE  StageOf(c) = IF life[c] # "live" THEN life[c]
                        ELSE IF removals[c] > 0 THEN "removed"
                        ELSE IF conn[c].disc THEN "closing" ELSE "open"
<1>1. removals[c] \in Nat
  BY DEF Types
<1>2. CASE life[c] # "live"
  BY <1>2 DEF StageOf
<1>3. CASE life[c] = "live" /\ removals[c] > 0
  BY <1>1, <1>3 DEF StageOf
<1>4. CASE life[c] = "live" /\ ~(removals[c] > 0) /\ conn[c].disc
  BY <1>1, <1>4 DEF StageOf
<1>5. CASE life[c] = "live" /\ ~(removals[c] > 0) /\ ~conn[c].disc
  BY <1>1, <1>5 DEF StageOf
<1>6. QED
  BY <1>2, <1>3, <1>4, <1>5

LEMMA StageWillBe ==
    ASSUME NEW c \in Conns, Types'
    PROVE  StageOf(c)' = IF life'[c] # "live" THEN life'[c]
                         ELSE IF removals'[c] > 0 THEN "removed"
                         ELSE IF conn'[c].disc THEN "closing" ELSE "open"
<1>1. removals'[c] \in Nat
  BY DEF Types
<1>2. CASE life'[c] # "live"
  BY <1>2 DEF StageOf
<1>3. CASE life'[c] = "live" /\ removals'[c] > 0
  BY <1>1, <1>3 DEF StageOf
<1>4. CASE life'[c] = "live" /\ ~(removals'[c] > 0) /\ conn'[c].disc
  BY <1>1, <1>4 DEF StageOf
<1>5. CASE life'[c] = "live" /\ ~(removals'[c] > 0) /\ ~conn'[c].disc
  BY <1>1, <1>5 DEF StageOf
<1>6. QED
  BY <1>2, <1>3, <1>4, <1>5

\* What ConnectionLifecycle sees of a connection stays as it is.
Seen(c) == /\ life'[c] = life[c] /\ removals'[c] = removals[c]
           /\ conn'[c].disc = conn[c].disc /\ conn'[c].out = conn[c].out

LEMMA SeenIs ==
    ASSUME Types, Types', NEW c \in Conns, Seen(c)
    PROVE  StageOf(c)' = StageOf(c) /\ (conn'[c].out > 0 <=> conn[c].out > 0)
<1>1. QED
  BY StageIs, StageWillBe DEF Seen

\* The state functions that stand for ConnectionLifecycle's variables.
Stage == [c \in Conns |-> StageOf(c)]
Unsent == {c \in Conns : conn[c].out > 0}

LEMMA StutterMaps ==
    ASSUME Types, Types', \A c \in Conns : Seen(c)
    PROVE  [CL!LifecycleNext]_CL!lifecycleVars
<1>1. \A c \in Conns : StageOf(c)' = StageOf(c) /\ (conn'[c].out > 0 <=> conn[c].out > 0)
  BY SeenIs
<1>2. Stage' = Stage /\ Unsent' = Unsent
  BY <1>1 DEF Stage, Unsent
<1>3. QED
  BY <1>2 DEF CL!lifecycleVars, Stage, Unsent

\* A step that touches one connection moves it along or writes to it.
LEMMA TouchMaps ==
    ASSUME Types, Types', NEW c \in Conns, \A d \in Conns : d # c => Seen(d),
           \/ /\ StageOf(c)' = StageOf(c)
              /\ \/ StageOf(c) = "open"
                 \/ StageOf(c) \in {"closing", "removed"} /\ (conn[c].out > 0 => conn'[c].out > 0)
           \/ StageOf(c) = "absent" /\ StageOf(c)' = "open" /\ conn'[c].out = conn[c].out
           \/ StageOf(c) = "open" /\ StageOf(c)' = "closing"
           \/ StageOf(c) = "closing" /\ StageOf(c)' = "removed" /\ conn'[c].out = conn[c].out
    PROVE  [CL!LifecycleNext]_CL!lifecycleVars
<1>1. \A d \in Conns : d # c => StageOf(d)' = StageOf(d) /\ (conn'[d].out > 0 <=> conn[d].out > 0)
  BY SeenIs
<1>2. /\ Stage[c] = StageOf(c)
      /\ Stage' = [Stage EXCEPT ![c] = StageOf(c)']
      /\ StageOf(c)' = StageOf(c) => Stage' = Stage
  BY <1>1 DEF Stage
<1>3. /\ Unsent' \in {Unsent \cup {c}, Unsent \ {c}}
      /\ (conn'[c].out > 0 <=> conn[c].out > 0) => Unsent' = Unsent
      /\ conn'[c].out > 0 => Unsent' = Unsent \cup {c}
  BY <1>1 DEF Unsent
<1>4. /\ CL!Accept(c) <=> Stage[c] = "absent" /\ Stage' = [Stage EXCEPT ![c] = "open"] /\ Unsent' = Unsent
      /\ CL!Write(c) <=> Stage[c] \notin {"absent", "destroyed"} /\ Unsent' = Unsent \cup {c} /\ Stage' = Stage
      /\ CL!Send(c) <=> Stage[c] = "open" /\ Unsent' = Unsent \ {c} /\ Stage' = Stage
      /\ CL!Close(c) <=> /\ Stage[c] = "open" /\ Stage' = [Stage EXCEPT ![c] = "closing"]
                         /\ Unsent' \in {Unsent, Unsent \ {c}, Unsent \cup {c}}
      /\ CL!Remove(c) <=> Stage[c] = "closing" /\ Stage' = [Stage EXCEPT ![c] = "removed"] /\ Unsent' = Unsent
      /\ UNCHANGED CL!lifecycleVars <=> Stage' = Stage /\ Unsent' = Unsent
  BY DEF CL!Accept, CL!Write, CL!Send, CL!Close, CL!Remove, CL!Move, CL!lifecycleVars, Stage, Unsent
<1>5. \/ CL!Accept(c) \/ CL!Write(c) \/ CL!Send(c) \/ CL!Close(c) \/ CL!Remove(c)
      \/ UNCHANGED CL!lifecycleVars
  BY <1>2, <1>3, <1>4
<1>6. QED
  BY <1>5 DEF CL!LifecycleNext

\* A handler's call on a connection that lives: it closes it, or the connection
\* stays open, or it was closed and nothing is sent.
LEMMA EffectMaps ==
    ASSUME IInv, Types', NEW c \in Conns, life[c] = "live", NEW s, Contract(conn[c], s), Effect(c, s),
           life' = life, removals' = removals
    PROVE  [CL!LifecycleNext]_CL!lifecycleVars
<1>1. Types /\ Closes(c) /\ Cleanups[c] \in Nat /\ removals[c] \in Nat
  BY PendingIs DEF IInv, Lives, Types
<1>2. /\ \A d \in Conns : d # c => conn'[d] = conn[d]
      /\ conn'[c].disc = s.disc /\ conn'[c].out = s.out
  BY <1>1, EffectIs
<1>3. \A d \in Conns : d # c => Seen(d)
  BY <1>2 DEF Seen
<1>4. CASE conn[c].disc
  <2>1. s.disc = conn[c].disc /\ s.out = conn[c].out
    BY <1>4 DEF Contract
  <2>2. Seen(c)
    BY <1>2, <2>1 DEF Seen
  <2>3. QED
    BY <1>1, <1>3, <2>2, StutterMaps
<1>5. CASE ~conn[c].disc
  <2>1. ~(removals[c] > 0)
    BY <1>1, <1>5 DEF Closes
  <2>2. StageOf(c) = "open"
    BY <1>1, <1>5, <2>1, StageIs
  <2>3. StageOf(c)' = IF s.disc THEN "closing" ELSE "open"
    BY <1>2, <2>1, StageWillBe
  <2>4. StageOf(c)' = "closing" \/ StageOf(c)' = StageOf(c)
    BY <2>2, <2>3
  <2>5. QED
    BY <1>1, <1>3, <2>2, <2>4, TouchMaps
<1>6. QED
  BY <1>4, <1>5

LEMMA OnNewConnectionMaps ==
    ASSUME IInv, Types', NEW c \in Conns, OnNewConnection(c)
    PROVE  [CL!LifecycleNext]_CL!lifecycleVars
<1>1. /\ Types /\ Aged(c) /\ life \in [Conns -> {"absent", "live", "destroyed"}]
      /\ life[c] = "absent" /\ life' = [life EXCEPT ![c] = "live"] /\ conn' = conn /\ removals' = removals
  BY DEF IInv, Lives, Types, TypeOK, OnNewConnection, countVars
<1>2. \A d \in Conns : d # c => Seen(d)
  BY <1>1 DEF Seen
<1>3. StageOf(c) = "absent"
  BY <1>1, StageIs
<1>4. StageOf(c)' = "open"
  BY <1>1, StageWillBe DEF Aged
<1>5. QED
  BY <1>1, <1>2, <1>3, <1>4, TouchMaps

LEMMA RunRemoveConnectionMaps ==
    ASSUME IInv, Types', RunRemoveConnection
    PROVE  [CL!LifecycleNext]_CL!lifecycleVars
<1>1. /\ RunFunctor("cleanup") /\ "cleanup" \in FunctorKinds /\ conn' = conn /\ life' = life
      /\ removals' = [removals EXCEPT ![batch[pos].conn] = @ + 1]
  BY DEF RunRemoveConnection, RunFunctor, FunctorKinds
<1>2. PICK c \in Conns : c = batch[pos].conn /\ life[c] = "live"
  BY <1>1, RunFunctorIs
<1>3. Types /\ Closes(c) /\ pos <= Len(batch) /\ batch[pos].kind = "cleanup" /\ batch' = batch /\ pos' = pos + 1
  BY <1>1, RunFunctorIs DEF IInv, Lives
<1>4. Cleanups[c] > 0 /\ Cleanups[c] \in Nat /\ removals \in [Conns -> Nat]
  <2>1. In("cleanup", Pending)[c] > 0
    BY <1>2, <1>3, PendingAdvances
  <2>2. QED
    BY <1>3, <2>1, PendingIs DEF Cleanups, Types
<1>5. conn[c].disc /\ removals[c] = 0
  BY <1>3, <1>4 DEF Closes
<1>6. removals'[c] = 1 /\ \A d \in Conns : d # c => removals'[d] = removals[d]
  BY <1>1, <1>2, <1>4, <1>5
<1>7. \A d \in Conns : d # c => Seen(d)
  BY <1>1, <1>6 DEF Seen
<1>8. StageOf(c) = "closing"
  BY <1>2, <1>3, <1>5, StageIs
<1>9. StageOf(c)' = "removed"
  BY <1>1, <1>2, <1>6, StageWillBe
<1>10. QED
  BY <1>1, <1>3, <1>7, <1>8, <1>9, TouchMaps

\* What only the batch still held has been removed, and the rest is untouched.
LEMMA ReleaseMaps ==
    ASSUME IInv, Types', Release
    PROVE  [CL!LifecycleNext]_CL!lifecycleVars
<1>1. /\ Types /\ BatchLives /\ conn \in [Conns -> Connection] /\ removals' = removals
      /\ life' = [c \in Conns |-> IF c \in Dropped THEN "destroyed" ELSE life[c]]
      /\ conn' = [c \in Conns |-> IF c \in Dropped THEN RemoveChannel(conn[c]) ELSE conn[c]]
  BY DEF IInv, Types, TypeOK, Release, Destroy, Unregister, countVars
<1>2. Dropped \subseteq Conns
  BY DEF Dropped
<1>3. \A c \in Conns : conn'[c].disc = conn[c].disc /\ conn'[c].out = conn[c].out
  BY <1>1, RemoveChannelIs DEF SameLife
<1>4. \A c \in Dropped : StageOf(c) = "removed" /\ StageOf(c)' = "destroyed"
  <2>1. SUFFICES ASSUME NEW c \in Dropped PROVE StageOf(c) = "removed" /\ StageOf(c)' = "destroyed"
    OBVIOUS
  <2>2. c \in Conns /\ c \notin registry /\ Aged(c)
    BY <1>2 DEF Dropped, Held, IInv, Lives
  <2>3. life[c] = "live"
    BY <1>1 DEF Dropped, Elements, BatchLives
  <2>4. StageOf(c) = "removed"
    BY <1>1, <2>2, <2>3, StageIs DEF Aged
  <2>5. StageOf(c)' = "destroyed"
    BY <1>1, <2>2, StageWillBe
  <2>6. QED
    BY <2>4, <2>5
<1>5. \A c \in Conns \ Dropped : StageOf(c)' = StageOf(c)
  <2>1. \A c \in Conns \ Dropped : Seen(c)
    BY <1>1, <1>3 DEF Seen
  <2>2. QED
    BY <1>1, <2>1, SeenIs
<1>6. Unsent' = Unsent
  BY <1>3 DEF Unsent
<1>7. CASE Dropped = {}
  <2>1. Stage' = Stage
    BY <1>5, <1>7 DEF Stage
  <2>2. QED
    BY <1>6, <2>1 DEF CL!lifecycleVars, Stage, Unsent
<1>8. CASE Dropped # {}
  <2>1. /\ \A c \in Dropped : Stage[c] = "removed"
        /\ Stage' = [c \in Conns |-> IF c \in Dropped THEN "destroyed" ELSE Stage[c]]
    BY <1>2, <1>4, <1>5 DEF Stage
  <2>2. CL!Destroy(Dropped)
    BY <1>6, <1>8, <2>1 DEF CL!Destroy, Stage, Unsent
  <2>3. QED
    BY <1>2, <2>2 DEF CL!LifecycleNext
<1>9. QED
  BY <1>7, <1>8

LEMMA AnswerMaps ==
    ASSUME IInv, Types', NEW w \in Workers, Answer(w)
    PROVE  [CL!LifecycleNext]_CL!lifecycleVars
<1>1. wpc[w] = "answer" /\ Types
  BY DEF Answer, IInv
<1>2. PICK c \in Conns : c = Target(w) /\ conn[c] \in Connection
  BY <1>1, TargetIs
<1>3. PICK kept \in {0, conn[c].out} :
          Access(w, "answer", "flush", [conn[c] EXCEPT !.out = kept + ResponseSize])
  BY <1>2 DEF Answer
<1> DEFINE s == [conn[c] EXCEPT !.out = kept + ResponseSize]
<1>4. /\ life[c] = "live" /\ conn' = [conn EXCEPT ![c] = s] /\ life' = life /\ removals' = removals
  BY <1>2, <1>3 DEF Access
<1>5. s.disc = conn[c].disc /\ s.out > 0
  <2>1. conn[c].out \in Nat
    BY <1>2 DEF Connection
  <2>2. kept + ResponseSize > 0
    BY <2>1, ResponseSizeAssumption
  <2>3. QED
    BY <1>2, <2>2 DEF Connection
<1> HIDE DEF s
<1>6. conn'[c] = s /\ \A d \in Conns : d # c => conn'[d] = conn[d]
  BY <1>1, <1>4 DEF Types, TypeOK
<1>7. \A d \in Conns : d # c => Seen(d)
  BY <1>4, <1>6 DEF Seen
<1>8. StageOf(c)' = StageOf(c) /\ StageOf(c) \in {"open", "closing", "removed"}
  BY <1>1, <1>4, <1>5, <1>6, StageIs, StageWillBe
<1>9. QED
  BY <1>1, <1>5, <1>6, <1>7, <1>8, TouchMaps

\* The other steps of the workers change nothing that ConnectionLifecycle sees.
LEMMA WorkerMaps ==
    ASSUME IInv, Types', NEW w \in Workers, WorkerStep(w)
    PROVE  [CL!LifecycleNext]_CL!lifecycleVars
<1>1. Types
  BY DEF IInv
<1>2. ASSUME NEW from \in {"check", "flush", "reset"}, NEW to, NEW c \in Conns, c = Target(w), NEW s,
             s.disc = conn[c].disc, s.out = conn[c].out, Access(w, from, to, s)
      PROVE  \A d \in Conns : Seen(d)
  <2>1. conn' = [conn EXCEPT ![c] = s] /\ life' = life /\ removals' = removals
    BY <1>2 DEF Access
  <2>2. QED
    BY <1>1, <1>2, <2>1 DEF Seen, Types, TypeOK
<1>3. CASE Begin(w) \/ DeadRead(w)
  BY <1>1, <1>3, StutterMaps DEF Begin, DeadRead, Seen, countVars
<1>4. CASE CheckConnected(w)
  <2>1. wpc[w] # "idle"
    BY <1>4 DEF CheckConnected, Access
  <2>2. PICK c \in Conns : c = Target(w)
    BY <2>1, TargetIs
  <2>3. \A d \in Conns : Seen(d)
    BY <1>2, <1>4, <2>2 DEF CheckConnected
  <2>4. QED
    BY <1>1, <2>3, StutterMaps
<1>5. CASE Answer(w)
  BY <1>5, AnswerMaps
<1>6. CASE SendBufferOut(w) \/ ResetAsync(w)
  <2>1. wpc[w] # "idle"
    BY <1>6 DEF SendBufferOut, ResetAsync, Access
  <2>2. PICK c \in Conns : c = Target(w) /\ conn[c] \in Connection
    BY <2>1, TargetIs
  <2> DEFINE s == [conn[c] EXCEPT !.async = FALSE]
  <2>3. s.disc = conn[c].disc /\ s.out = conn[c].out
    BY <2>2 DEF Connection
  <2>4. Access(w, "flush", "reset", s) \/ Access(w, "reset", "idle", s)
    BY <1>6, <2>2 DEF SendBufferOut, ResetAsync
  <2> HIDE DEF s
  <2>5. \A d \in Conns : Seen(d)
    BY <1>2, <2>2, <2>3, <2>4
  <2>6. QED
    BY <1>1, <2>5, StutterMaps
<1>7. QED
  BY <1>3, <1>4, <1>5, <1>6 DEF WorkerStep

LEMMA StepMaps ==
    ASSUME IInv, IInv', [Next]_vars
    PROVE  [CL!LifecycleNext]_CL!lifecycleVars
<1>1. Types /\ Types' /\ conn \in [Conns -> Connection]
  BY DEF IInv, Types, TypeOK
<1>2. CASE UNCHANGED vars
  BY <1>1, <1>2, StutterMaps DEF vars, countVars, Seen
<1>3. CASE Poll
  <2>1. \A c \in Conns : SameLife(conn[c], conn'[c]) /\ life'[c] = life[c] /\ removals'[c] = removals[c]
    BY <1>1, <1>3, PollReturnIs DEF Poll, countVars, SameLife
  <2>2. QED
    BY <1>1, <2>1, StutterMaps DEF SameLife, Seen
<1>4. CASE Dispatch
  BY <1>1, <1>4, DispatchIs, EffectMaps DEF Dispatch
<1>5. CASE ExecuteTask
  BY <1>1, <1>5, StutterMaps DEF ExecuteTask, countVars, Seen
<1>6. CASE RunAddChannel
  <2>1. conn' = [conn EXCEPT ![batch[pos].conn] = AddChannel(@)] /\ life' = life /\ removals' = removals
    BY <1>6 DEF RunAddChannel, RunFunctor
  <2>2. \A c \in Conns : SameLife(conn[c], conn'[c])
    BY <1>1, <2>1, AddChannelIs DEF SameLife
  <2>3. QED
    BY <1>1, <2>1, <2>2, StutterMaps DEF SameLife, Seen
<1>7. CASE RunSendInLoop
  BY <1>1, <1>7, RunSendInLoopIs, EffectMaps DEF RunSendInLoop, RunFunctor
<1>8. CASE RunRemoveConnection
  BY <1>1, <1>8, RunRemoveConnectionMaps
<1>9. CASE Release
  BY <1>1, <1>9, ReleaseMaps
<1>10. CASE \E w \in Workers : WorkerStep(w)
  BY <1>1, <1>10, WorkerMaps
<1>11. ASSUME NEW c \in Conns, ClientStep(c)
       PROVE  [CL!LifecycleNext]_CL!lifecycleVars
  <2>1. PICK s \in Connection : Client(c, s) /\ s.disc = conn[c].disc /\ s.out = conn[c].out
    BY <1>11, ClientStepIs
  <2>2. conn' = [conn EXCEPT ![c] = s] /\ life' = life /\ removals' = removals
    BY <2>1 DEF Client
  <2>3. \A d \in Conns : Seen(d)
    BY <1>1, <2>1, <2>2 DEF Seen
  <2>4. QED
    BY <1>1, <2>3, StutterMaps
<1>12. CASE \E c \in Conns : OnNewConnection(c) \/ ClientStep(c)
  BY <1>1, <1>11, <1>12, OnNewConnectionMaps
<1>13. QED
  BY <1>2, <1>3, <1>4, <1>5, <1>6, <1>7, <1>8, <1>9, <1>10, <1>12 DEF Next, LoopStep

\* The reactor implements ConnectionLifecycle: a connection is accepted, closed,
\* removed and destroyed once and in this order, and sends only while it is open.
THEOREM ReactorRefinement == Spec => ImplementsLifecycle
<1>1. Init => CL!LifecycleInit
  <2>1. ASSUME Init
        PROVE  Stage = [c \in Conns |-> "absent"] /\ Unsent = {}
    <3>1. Types /\ \A c \in Conns : life[c] = "absent" /\ conn[c].out = 0
      BY <2>1, InitIInv DEF Init, IInv, New
    <3>2. \A c \in Conns : StageOf(c) = "absent"
      BY <3>1, StageIs
    <3>3. QED
      BY <3>1, <3>2 DEF Stage, Unsent
  <2>2. QED
    BY <2>1 DEF CL!LifecycleInit, Stage, Unsent
<1>2. IInv /\ IInv' /\ [Next]_vars => [CL!LifecycleNext]_CL!lifecycleVars
  BY StepMaps
<1>3. QED
  BY <1>1, <1>2, AlwaysIInv, PTL DEF Spec, ImplementsLifecycle, CL!LifecycleSpec

-----------------------------------------------------------------------------
(* One connection: its output is never forgotten.                          *)

\* With two, a task may read a stack variable that names another connection by then, and its
\* answer stays in a bufferOut_ that nobody sends.
OneConnection == \A c, d \in Conns : c = d

\* A task of the connection will come to its SendBufferOut.
Answering == tasks # <<>> \/ \E w \in Workers : wpc[w] \in {"check", "answer", "flush"}

\* An open connection that waits for a task has one, and its output has somebody to look at it;
\* before AddChannel there is no output, so that the mask which AddChannel registers hides none.
FlushInv ==
    \A c \in Conns :
        /\ life[c] = "absent" \/ Adds[c] > 0 => conn[c].out = 0 /\ ~conn[c].async
        /\ life[c] = "live" /\ ~conn[c].disc =>
               /\ conn[c].async => Answering
               /\ conn[c].out > 0 => Sends[c] > 0 \/ Answering \/ "OUT" \in conn[c].interest

\* The steps that change nothing of this, but perhaps end connections.
CalmFlush == \A c \in Conns :
    /\ conn'[c].out = conn[c].out /\ conn'[c].async = conn[c].async /\ conn'[c].disc = conn[c].disc
    /\ Adds'[c] = Adds[c] /\ Sends'[c] = Sends[c]
    /\ \/ life'[c] = life[c] /\ conn'[c].interest = conn[c].interest
       \/ life'[c] = "destroyed"

LEMMA CalmKeepsFlush ==
    ASSUME FlushInv, CalmFlush, Answering => Answering'
    PROVE  FlushInv'
<1>1. SUFFICES ASSUME NEW c \in Conns
      PROVE /\ life'[c] = "absent" \/ Adds'[c] > 0 => conn'[c].out = 0 /\ ~conn'[c].async
            /\ life'[c] = "live" /\ ~conn'[c].disc =>
               /\ conn'[c].async => Answering'
               /\ conn'[c].out > 0 => Sends'[c] > 0 \/ Answering' \/ "OUT" \in conn'[c].interest
  BY DEF FlushInv
<1>2. /\ life[c] = "absent" \/ Adds[c] > 0 => conn[c].out = 0 /\ ~conn[c].async
      /\ life[c] = "live" /\ ~conn[c].disc =>
               /\ conn[c].async => Answering
               /\ conn[c].out > 0 => Sends[c] > 0 \/ Answering \/ "OUT" \in conn[c].interest
  BY DEF FlushInv
<1>3. /\ conn'[c].out = conn[c].out /\ conn'[c].async = conn[c].async
      /\ conn'[c].disc = conn[c].disc /\ Adds'[c] = Adds[c] /\ Sends'[c] = Sends[c]
      /\ \/ life'[c] = life[c] /\ conn'[c].interest = conn[c].interest
         \/ life'[c] = "destroyed"
  BY DEF CalmFlush
<1>4. QED
  BY <1>2, <1>3

LEMMA ClientFlush ==
    ASSUME IInv, FlushInv, NEW c \in Conns, ClientStep(c)
    PROVE  FlushInv'
<1>1. conn[c] \in Connection /\ conn \in [Conns -> Connection]
  BY DEF IInv, Types, TypeOK
<1>2. PICK s \in Connection :
          /\ Client(c, s) /\ s.disc = conn[c].disc /\ s.out = conn[c].out
          /\ s.interest = conn[c].interest /\ s.async = conn[c].async
  BY ClientStepIs
<1>3. conn' = [conn EXCEPT ![c] = s]
      /\ UNCHANGED <<life, functors, batch, pos, tasks, wpc>>
  BY <1>2 DEF Client, loopVars, poolVars
<1>4. Adds' = Adds /\ Sends' = Sends /\ (Answering => Answering')
  BY <1>3, PendingKept DEF Pending, Answering
<1>5. conn'[c] = s /\ \A d \in Conns : d # c => conn'[d] = conn[d]
  BY <1>1, <1>3
<1>6. CalmFlush
  BY <1>2, <1>3, <1>4, <1>5 DEF CalmFlush
<1>7. QED
  BY <1>4, <1>6, CalmKeepsFlush

LEMMA PollFlush ==
    ASSUME IInv, FlushInv, Poll
    PROVE  FlushInv'
<1>1. /\ conn' = [c \in Conns |-> IF c \in ReadyConns THEN PollReturn(conn[c]) ELSE conn[c]]
      /\ UNCHANGED <<life, functors, batch, pos, tasks, wpc>>
  BY DEF Poll, poolVars
<1>2. Adds' = Adds /\ Sends' = Sends /\ (Answering => Answering')
  BY <1>1, PendingKept DEF Pending, Answering
<1>3. ASSUME NEW c \in Conns
      PROVE  /\ conn'[c].out = conn[c].out /\ conn'[c].async = conn[c].async
             /\ conn'[c].disc = conn[c].disc /\ conn'[c].interest = conn[c].interest
  <2> DEFINE e == Reported(conn[c])
  <2>1. conn'[c] \in {conn[c], [conn[c] EXCEPT !.events = e, !.edge = FALSE]}
    BY <1>1 DEF PollReturn
  <2>2. conn[c] \in Connection
    BY DEF IInv, Types, TypeOK
  <2> HIDE DEF e
  <2>3. QED
    BY <2>1, <2>2 DEF Connection
<1>4. CalmFlush
  BY <1>1, <1>2, <1>3 DEF CalmFlush
<1>5. QED
  BY <1>2, <1>4, CalmKeepsFlush

LEMMA ExecuteTaskFlush ==
    ASSUME IInv, FlushInv, ExecuteTask
    PROVE  FlushInv'
<1>1. /\ phase = "dispatch" /\ UNCHANGED <<conn, life, pos, tasks, wpc>>
  BY DEF ExecuteTask, poolVars
<1>2. batch = <<>> /\ pos = 1 /\ functors \in Seq(Queued)
  BY <1>1, PendingIs DEF IInv, Turns
<1>3. Pending' = Pending
  <2>1. Pending = functors
    BY <1>2, QueueSwaps DEF Pending
  <2>2. CASE functors' = functors /\ batch' = batch
    BY <1>1, <2>2 DEF Pending
  <2>3. CASE batch' = functors /\ functors' = <<>>
    <3>1. Pending' = SubSeq(functors, 1, Len(functors)) \o <<>>
      BY <1>1, <1>2, <2>3 DEF Pending
    <3>2. QED
      BY <1>2, <2>1, <3>1, QueueSwaps
  <2>4. QED
    BY <2>2, <2>3 DEF ExecuteTask
<1>4. Adds' = Adds /\ Sends' = Sends /\ (Answering => Answering')
  BY <1>1, <1>3, PendingKept DEF Answering
<1>5. CalmFlush
  BY <1>1, <1>4 DEF CalmFlush
<1>6. QED
  BY <1>4, <1>5, CalmKeepsFlush

LEMMA ReleaseFlush ==
    ASSUME IInv, FlushInv, Release
    PROVE  FlushInv'
<1>1. /\ pos > Len(batch) /\ Destroy(Dropped) /\ Unregister(Dropped)
      /\ batch' = <<>> /\ pos' = 1 /\ UNCHANGED <<functors, tasks, wpc>>
  BY DEF Release, poolVars
<1>2. /\ conn \in [Conns -> Connection] /\ functors \in Seq(Queued) /\ batch \in Seq(Queued)
      /\ pos \in 1 .. Len(batch) + 1
  BY PendingIs DEF IInv, Types, TypeOK
<1>3. Pending' = Pending
  <2>1. pos = Len(batch) + 1
    BY <1>1, <1>2
  <2>2. SubSeq(batch, pos, Len(batch)) = <<>>
    BY <1>2, <2>1, QueueSwaps
  <2>3. Pending = functors
    BY <1>2, <2>2, ConcatEmptySeq DEF Pending
  <2>4. Pending' = SubSeq(<<>>, 1, Len(<<>>)) \o functors
    BY <1>1 DEF Pending
  <2>5. QED
    BY <1>2, <2>3, <2>4, QueueSwaps
<1>4. Adds' = Adds /\ Sends' = Sends /\ (Answering => Answering')
  BY <1>1, <1>3, PendingKept DEF Answering
<1>5. ASSUME NEW c \in Conns
      PROVE  /\ conn'[c].out = conn[c].out /\ conn'[c].async = conn[c].async
             /\ conn'[c].disc = conn[c].disc
             /\ \/ life'[c] = life[c] /\ conn'[c].interest = conn[c].interest
                \/ life'[c] = "destroyed"
  <2>1. conn[c] \in Connection
    BY <1>2
  <2>2. CASE c \in Dropped
    <3>1. conn'[c] = [conn[c] EXCEPT !.interest = {}, !.edge = FALSE] /\ life'[c] = "destroyed"
      BY <1>1, <2>2 DEF Unregister, Destroy, RemoveChannel
    <3>2. QED
      BY <2>1, <3>1 DEF Connection
  <2>3. CASE c \notin Dropped
    BY <1>1, <2>3 DEF Unregister, Destroy
  <2>4. QED
    BY <2>2, <2>3
<1>6. CalmFlush
  BY <1>4, <1>5 DEF CalmFlush
<1>7. QED
  BY <1>4, <1>6, CalmKeepsFlush

LEMMA RemoveConnectionFlush ==
    ASSUME IInv, FlushInv, RunRemoveConnection
    PROVE  FlushInv'
<1>1. RunFunctor("cleanup") /\ UNCHANGED <<conn, life, functors, tasks, wpc>>
  BY DEF RunRemoveConnection, RunFunctor
<1>2. /\ Types /\ pos <= Len(batch) /\ batch[pos].kind = "cleanup" /\ batch' = batch
      /\ pos' = pos + 1
  BY <1>1, RunFunctorIs DEF FunctorKinds
<1>3. Adds \in [Conns -> Nat] /\ Sends \in [Conns -> Nat]
  BY <1>2, PendingIs
<1> DEFINE b == batch[pos].conn
<1>4. /\ Adds' = [d \in Conns |-> Adds[d] - (IF "add" = "cleanup" /\ d = b THEN 1 ELSE 0)]
      /\ Sends' = [d \in Conns |-> Sends[d] - (IF "send" = "cleanup" /\ d = b THEN 1 ELSE 0)]
  BY <1>1, <1>2, PendingAdvances
<1> HIDE DEF b
<1>5. \A d \in Conns : Adds'[d] = Adds[d] /\ Sends'[d] = Sends[d]
  BY <1>3, <1>4
<1>6. Answering => Answering'
  BY <1>1 DEF Answering
<1>7. CalmFlush
  BY <1>1, <1>5 DEF CalmFlush
<1>8. QED
  BY <1>6, <1>7, CalmKeepsFlush

LEMMA AddChannelFlush ==
    ASSUME IInv, OneConnection, FlushInv, RunAddChannel
    PROVE  FlushInv'
<1>1. /\ RunFunctor("add") /\ conn' = [conn EXCEPT ![batch[pos].conn] = AddChannel(@)]
      /\ UNCHANGED <<functors, tasks, life, wpc>>
  BY DEF RunAddChannel, RunFunctor
<1>2. /\ Types /\ pos <= Len(batch) /\ batch[pos].kind = "add" /\ batch' = batch
      /\ pos' = pos + 1
  BY <1>1, RunFunctorIs DEF FunctorKinds
<1>3. Adds \in [Conns -> Nat]
  BY <1>2, PendingIs
<1>4. PICK c \in Conns : c = batch[pos].conn /\ life[c] = "live"
  BY <1>1, RunFunctorIs DEF FunctorKinds
<1>5. Adds[c] > 0
  BY <1>2, <1>4, PendingAdvances DEF Adds
<1>6. conn'[c].out = 0 /\ ~conn'[c].async /\ life'[c] = "live"
  <2> DEFINE e == conn[c].events
  <2>1. conn \in [Conns -> Connection] /\ conn[c].out = 0 /\ ~conn[c].async
    BY <1>2, <1>5 DEF FlushInv, Types, TypeOK
  <2>2. conn'[c] = [conn[c] EXCEPT !.interest = e, !.edge = TRUE]
    BY <1>1, <1>4, <2>1 DEF AddChannel, Control
  <2> HIDE DEF e
  <2>3. conn[c] \in Connection
    BY <2>1
  <2>4. conn'[c].out = conn[c].out /\ conn'[c].async = conn[c].async
    BY <2>2, <2>3 DEF Connection
  <2>5. life'[c] = "live"
    BY <1>1, <1>4
  <2>6. QED
    BY <2>1, <2>4, <2>5
<1>7. \A d \in Conns : d = c
  BY DEF OneConnection
<1>8. QED
  BY <1>6, <1>7 DEF FlushInv

LEMMA NewConnectionFlush ==
    ASSUME IInv, OneConnection, FlushInv, NEW c \in Conns, OnNewConnection(c)
    PROVE  FlushInv'
<1>1. conn'[c] = conn[c] /\ conn[c].out = 0 /\ ~conn[c].async
  BY DEF OnNewConnection, FlushInv
<1>2. \A d \in Conns : d = c
  BY DEF OneConnection
<1>3. QED
  BY <1>1, <1>2 DEF FlushInv

LEMMA AddsKept ==
    ASSUME Types, NEW c \in Conns, UNCHANGED <<batch, pos>>,
           functors' = functors \/ functors' = Append(functors, Functor("cleanup", c))
    PROVE  Adds' = Adds
<1>1. CASE functors' = functors
  BY <1>1, PendingKept DEF Pending
<1>2. CASE functors' = Append(functors, Functor("cleanup", c))
  <2>1. "cleanup" \in FunctorKinds /\ Adds \in [Conns -> Nat]
    BY PendingIs DEF FunctorKinds
  <2>2. Adds' = [d \in Conns |-> Adds[d] + (IF "add" = "cleanup" /\ d = c THEN 1 ELSE 0)]
    BY <1>2, <2>1, PendingAppends, Zenon
  <2>3. QED
    BY <2>1, <2>2
<1>3. QED
  BY <1>1, <1>2

\* A handler's call on the connection, which is not new any more.
LEMMA EffectFlush ==
    ASSUME IInv, OneConnection, FlushInv, NEW c \in Conns, NEW s, NEW next, life[c] = "live",
           Contract(conn[c], s), Watched(conn[c], s), Effect(c, s), PhaseAfter(s, next),
           Adds'[c] = 0, UNCHANGED <<life, wpc>>
    PROVE  phase' # "crashed" => FlushInv'
<1>1. /\ conn'[c].disc = s.disc /\ conn'[c].out = s.out
      /\ s.disc = conn[c].disc \/ s.disc
      /\ tasks' = tasks \o s.jobs /\ tasks \in Seq(Slots) /\ Types
  BY EffectIs DEF IInv, Types, TypeOK
<1>2. conn'[c].async = s.async /\ conn'[c].interest = s.interest
  <2> DEFINE r == [s EXCEPT !.posted = <<>>, !.jobs = <<>>, !.crash = FALSE]
  <2>1. s \in Called
    BY DEF Contract
  <2>2. r.async = s.async /\ r.interest = s.interest
    BY <2>1 DEF Called
  <2>3. conn' = [conn EXCEPT ![c] = r] /\ conn \in [Conns -> Connection]
    BY <1>1 DEF Effect, Types, TypeOK
  <2> HIDE DEF r
  <2>4. QED
    BY <2>2, <2>3
<1>3. s.jobs \in {<<>>, <<"read">>, <<"close">>} /\ s.out \in Nat
  BY DEF Contract, Called
<1>4. s.jobs # <<>> \/ Answering => Answering'
  <2> DEFINE j == s.jobs
  <2>1. j \in {<<>>, <<"read">>, <<"close">>} /\ tasks' = tasks \o j
    BY <1>1, <1>3
  <2> HIDE DEF j
  <2>2. j \in Seq(Slots)
    <3>1. <<>> \in Seq(Slots) /\ <<"read">> \in Seq(Slots) /\ <<"close">> \in Seq(Slots)
      BY DEF Slots
    <3>2. QED
      BY <2>1, <3>1
  <2>3. j # <<>> \/ tasks # <<>> => tasks' # <<>>
    <3>1. Len(tasks') = Len(tasks) + Len(j) /\ Len(tasks) \in Nat /\ Len(j) \in Nat
      BY <1>1, <2>1, <2>2, ConcatProperties
    <3>2. (j # <<>> => Len(j) > 0) /\ (tasks # <<>> => Len(tasks) > 0)
      BY <1>1, <2>2
    <3>3. Len(<<>>) = 0
      OBVIOUS
    <3>4. QED
      BY <3>1, <3>2, <3>3
  <2>4. QED
    BY <2>3 DEF Answering, j
<1>5. SUFFICES ASSUME ~s.crash
               PROVE  FlushInv'
  BY DEF PhaseAfter
<1>6. ASSUME ~s.disc
      PROVE  /\ s.async => Answering'
             /\ s.out > 0 => Answering' \/ "OUT" \in s.interest
  <2>1. conn[c].async => Answering
    BY <1>1, <1>6 DEF FlushInv
  <2>2. CASE s.jobs # <<>>
    BY <1>4, <2>2
  <2>3. CASE s.jobs = <<>>
    BY <1>3, <1>4, <1>5, <1>6, <2>1, <2>3 DEF Watched
  <2>4. QED
    BY <2>2, <2>3
<1>7. \A d \in Conns : d = c
  BY DEF OneConnection
<1>8. life'[c] = "live" /\ ~(Adds'[c] > 0)
  OBVIOUS
<1>9. QED
  BY <1>1, <1>2, <1>6, <1>7, <1>8 DEF FlushInv

LEMMA DispatchFlush ==
    ASSUME IInv, OneConnection, FlushInv, Dispatch
    PROVE  phase' # "crashed" => FlushInv'
<1>1. Types /\ UNCHANGED <<life, batch, pos, wpc>>
  BY DEF Dispatch, IInv
<1>2. PICK c \in Conns, s \in Called, read \in BOOLEAN :
              /\ c = Head(active) /\ life[c] = "live" /\ Adds[c] = 0
              /\ Contract(conn[c], s) /\ Effect(c, s) /\ PhaseAfter(s, "dispatch") /\ Leave(c, s, read)
              /\ s.jobs \in {<<>>, <<"close">>} \/ (s.jobs = <<"read">> /\ read)
              /\ Watched(conn[c], s)
  BY DispatchIs
<1>3. /\ life[c] = "live" /\ Adds[c] = 0 /\ Contract(conn[c], s) /\ Watched(conn[c], s)
      /\ Effect(c, s) /\ PhaseAfter(s, "dispatch")
  BY <1>2
<1>4. functors' = functors \/ functors' = Append(functors, Functor("cleanup", c))
  BY <1>1, <1>3, EffectIs
<1>5. Adds'[c] = 0
  BY <1>1, <1>3, <1>4, AddsKept
<1>6. QED
  BY <1>1, <1>3, <1>5, EffectFlush

LEMMA SendInLoopFlush ==
    ASSUME IInv, OneConnection, FlushInv, RunSendInLoop
    PROVE  phase' # "crashed" => FlushInv'
<1>1. RunFunctor("send")
  BY DEF RunSendInLoop
<1>2. /\ Types /\ pos <= Len(batch) /\ batch[pos].kind = "send" /\ batch' = batch
      /\ pos' = pos + 1 /\ UNCHANGED <<life, wpc>>
  BY <1>1, RunFunctorIs DEF FunctorKinds
<1>3. PICK c \in Conns, s \in Called :
              /\ c = batch[pos].conn /\ life[c] = "live"
              /\ Contract(conn[c], s) /\ Effect(c, s) /\ PhaseAfter(s, "tasks") /\ Leave(c, s, FALSE)
              /\ s.jobs \in {<<>>, <<"close">>} /\ Watched(conn[c], s)
  BY RunSendInLoopIs
<1>4. /\ c = batch[pos].conn /\ life[c] = "live" /\ Contract(conn[c], s) /\ Watched(conn[c], s)
      /\ Effect(c, s) /\ PhaseAfter(s, "tasks")
  BY <1>3
<1>5. functors' = functors \/ functors' = Append(functors, Functor("cleanup", c))
  BY <1>2, <1>4, EffectIs
<1>6. Adds[c] = 0
  <2>1. In("send", Pending)[c] > 0
    BY <1>2, <1>4, PendingAdvances
  <2>2. Sends[c] > 0 /\ Adds[c] \in Nat /\ Sends[c] \in Nat
    BY <1>2, <2>1, PendingIs DEF Sends
  <2>3. Fresh(c)
    BY DEF IInv, Lives
  <2>4. QED
    BY <2>2, <2>3 DEF Fresh
<1>7. Adds' = Adds
  <2>1. Adds \in [Conns -> Nat]
    BY <1>2, PendingIs
  <2>2. CASE functors' = functors
    <3>1. Adds' = [d \in Conns |->
                Adds[d] - (IF "add" = batch[pos].kind /\ d = batch[pos].conn THEN 1 ELSE 0)]
      BY <1>2, <2>2, PendingAdvances, Zenon
    <3>2. QED
      BY <1>2, <2>1, <3>1
  <2>3. CASE functors' = Append(functors, Functor("cleanup", c))
    BY <1>2, <1>4, <2>3, PendingAdvances, Zenon
  <2>4. QED
    BY <1>5, <2>2, <2>3
<1>8. Adds'[c] = 0
  BY <1>6, <1>7
<1>9. QED
  BY <1>2, <1>4, <1>8, EffectFlush

\* A worker's access to the connection, which is not new any more.
LEMMA AccessFlush ==
    ASSUME IInv, OneConnection, FlushInv, NEW w \in Workers, NEW from, from # "idle", NEW to,
           NEW s \in Connection, NEW c \in Conns, c = Target(w), Access(w, from, to, s),
           functors' = functors \/ functors' = Append(functors, Functor("send", c)),
           ~conn[c].disc /\ Answering => Answering' \/ (~s.async /\ Sends'[c] > 0),
           s.async => conn[c].async, s.disc = conn[c].disc,
           s.interest = conn[c].interest, s.out = conn[c].out \/ Answering'
    PROVE  FlushInv'
<1>1. /\ wpc[w] # "idle" /\ life[c] = "live" /\ conn' = [conn EXCEPT ![c] = s]
      /\ UNCHANGED <<life, batch, pos, tasks>> /\ Types
      /\ conn \in [Conns -> Connection]
  BY DEF Access, IInv, Types, TypeOK
<1>2. conn'[c] = s
  BY <1>1
<1>3. Adds[c] = 0
  <2>1. Fresh(c) /\ Adds[c] \in Nat
    BY <1>1, PendingIs DEF IInv, Lives
  <2>2. wslot[w] \in Slots /\ slot[wslot[w]] = c
    BY <1>1 DEF IInv, Referred, Target
  <2>3. QED
    BY <2>1, <2>2 DEF Fresh
<1>4. Adds'[c] = 0 /\ (Sends[c] > 0 => Sends'[c] > 0)
  <2>1. Adds \in [Conns -> Nat] /\ Sends \in [Conns -> Nat]
    BY <1>1, PendingIs
  <2>2. CASE functors' = functors
    <3>1. Adds' = Adds /\ Sends' = Sends
      BY <1>1, <2>2, PendingKept DEF Pending
    <3>2. QED
      BY <1>3, <3>1
  <2>3. CASE functors' = Append(functors, Functor("send", c))
    <3>1. "send" \in FunctorKinds /\ UNCHANGED <<batch, pos>>
      BY <1>1 DEF FunctorKinds
    <3>2. /\ Adds' = [d \in Conns |-> Adds[d] + (IF "add" = "send" /\ d = c THEN 1 ELSE 0)]
          /\ Sends' = [d \in Conns |-> Sends[d] + (IF "send" = "send" /\ d = c THEN 1 ELSE 0)]
      BY <1>1, <2>3, <3>1, PendingAppends, Zenon
    <3>3. Adds'[c] = Adds[c] /\ Sends'[c] = Sends[c] + 1
      BY <2>1, <3>2
    <3>4. Adds[c] \in Nat /\ Sends[c] \in Nat
      BY <2>1
    <3>5. QED
      BY <1>3, <3>3, <3>4
  <2>4. QED
    BY <2>2, <2>3
<1>5. life'[c] = "live" /\ ~(Adds'[c] > 0)
  BY <1>1, <1>4
<1>6. ~conn[c].disc => /\ conn[c].async => Answering
                       /\ conn[c].out > 0 => Sends[c] > 0 \/ Answering \/ "OUT" \in conn[c].interest
  BY <1>1 DEF FlushInv
<1>7. ~s.disc => /\ s.async => Answering'
                 /\ s.out > 0 => Sends'[c] > 0 \/ Answering' \/ "OUT" \in s.interest
  BY <1>4, <1>6
<1>8. \A d \in Conns : d = c
  BY DEF OneConnection
<1>9. QED
  BY <1>2, <1>5, <1>7, <1>8 DEF FlushInv

LEMMA BeginFlush ==
    ASSUME IInv, FlushInv, NEW w \in Workers, Begin(w)
    PROVE  FlushInv'
<1>1. /\ wpc' = [wpc EXCEPT ![w] = "check"]
      /\ UNCHANGED <<conn, life, functors, batch, pos>>
  BY DEF Begin, loopVars
<1>2. wpc'[w] = "check"
  BY <1>1 DEF IInv, Types, TypeOK
<1>3. Answering'
  BY <1>2 DEF Answering
<1>4. Adds' = Adds /\ Sends' = Sends
  BY <1>1, PendingKept DEF Pending
<1>5. CalmFlush
  BY <1>1, <1>4 DEF CalmFlush
<1>6. QED
  BY <1>3, <1>5, CalmKeepsFlush

LEMMA WorkerFlush ==
    ASSUME IInv, OneConnection, FlushInv, NEW w \in Workers, WorkerStep(w)
    PROVE  phase' # "crashed" => FlushInv'
<1>1. wpc \in [Workers -> {"idle", "check", "answer", "flush", "reset"}]
  BY DEF IInv, Types, TypeOK
<1>2. CASE CheckConnected(w)
  <2>1. wpc[w] = "check" /\ functors' = functors
    BY <1>2 DEF CheckConnected, Access
  <2>2. PICK c \in Conns : c = Target(w) /\ conn[c] \in Connection
    BY <2>1, TargetIs
  <2> DEFINE to == IF conn[c].disc THEN "idle" ELSE "answer"
  <2>3. Access(w, "check", to, conn[c])
    BY <1>2, <2>2 DEF CheckConnected
  <2>4. ~conn[c].disc => Answering'
    <3>1. ~conn[c].disc => wpc'[w] = "answer"
      BY <1>1, <2>3 DEF Access
    <3>2. QED
      BY <3>1 DEF Answering
  <2> HIDE DEF to
  <2>5. QED
    BY <2>1, <2>2, <2>3, <2>4, AccessFlush
<1>3. CASE Answer(w)
  <2>1. wpc[w] = "answer" /\ functors' = functors
    BY <1>3 DEF Answer
  <2>2. PICK c \in Conns : c = Target(w) /\ conn[c] \in Connection
    BY <2>1, TargetIs
  <2>3. PICK kept \in {0, conn[c].out} :
            Access(w, "answer", "flush", [conn[c] EXCEPT !.out = kept + ResponseSize])
    BY <1>3, <2>2 DEF Answer
  <2> DEFINE n == kept + ResponseSize
  <2> DEFINE s == [conn[c] EXCEPT !.out = n]
  <2>4. n \in Nat
    <3>1. conn[c].out \in Nat
      BY <2>2 DEF Connection
    <3>2. QED
      BY <3>1, ResponseSizeAssumption
  <2>5. Access(w, "answer", "flush", s)
    BY <2>3
  <2> HIDE DEF n
  <2>6. /\ s \in Connection /\ s.disc = conn[c].disc /\ s.interest = conn[c].interest
        /\ s.async = conn[c].async
    BY <2>2, <2>4 DEF Connection
  <2> HIDE DEF s
  <2>7. Answering'
    <3>1. wpc'[w] = "flush"
      BY <1>1, <2>5 DEF Access
    <3>2. QED
      BY <3>1 DEF Answering
  <2>8. QED
    BY <2>1, <2>2, <2>5, <2>6, <2>7, AccessFlush
<1>4. CASE SendBufferOut(w)
  <2>1. wpc[w] = "flush"
    BY <1>4 DEF SendBufferOut, Access
  <2>2. PICK c \in Conns : c = Target(w) /\ conn[c] \in Connection
    BY <2>1, TargetIs
  <2> DEFINE s == [conn[c] EXCEPT !.async = FALSE]
  <2>3. Access(w, "flush", "reset", s) /\ functors' = Append(functors, Functor("send", c))
    BY <1>4, <2>2 DEF SendBufferOut
  <2>4. /\ s \in Connection /\ s.disc = conn[c].disc /\ s.interest = conn[c].interest
        /\ ~s.async /\ s.out = conn[c].out
    BY <2>2 DEF Connection
  <2> HIDE DEF s
  <2>5. Sends'[c] > 0
    <3>1. /\ "send" \in FunctorKinds /\ UNCHANGED <<batch, pos>> /\ Types
          /\ Sends \in [Conns -> Nat]
      BY <2>3, PendingIs DEF FunctorKinds, Access, IInv
    <3>2. Sends' = [d \in Conns |-> Sends[d] + (IF "send" = "send" /\ d = c THEN 1 ELSE 0)]
      BY <2>2, <2>3, <3>1, PendingAppends, Zenon
    <3>3. Sends'[c] = Sends[c] + 1 /\ Sends[c] \in Nat
      BY <3>1, <3>2
    <3>4. QED
      BY <3>3
  <2>6. QED
    BY <2>1, <2>2, <2>3, <2>4, <2>5, AccessFlush
<1>5. CASE ResetAsync(w)
  <2>1. wpc[w] = "reset" /\ functors' = functors
    BY <1>5 DEF ResetAsync, Access
  <2>2. PICK c \in Conns : c = Target(w) /\ conn[c] \in Connection
    BY <2>1, TargetIs
  <2> DEFINE s == [conn[c] EXCEPT !.async = FALSE]
  <2>3. Access(w, "reset", "idle", s)
    BY <1>5, <2>2 DEF ResetAsync
  <2>4. /\ s \in Connection /\ s.disc = conn[c].disc /\ s.interest = conn[c].interest
        /\ ~s.async /\ s.out = conn[c].out
    BY <2>2 DEF Connection
  <2> HIDE DEF s
  <2>5. Answering => Answering'
    <3>1. tasks' = tasks /\ \A v \in Workers : v # w => wpc'[v] = wpc[v]
      BY <1>1, <2>3 DEF Access
    <3>2. QED
      BY <2>1, <3>1 DEF Answering
  <2>6. QED
    BY <2>1, <2>2, <2>3, <2>4, <2>5, AccessFlush
<1>6. CASE DeadRead(w)
  BY <1>6 DEF DeadRead
<1>7. CASE Begin(w)
  BY <1>7, BeginFlush
<1>8. QED
  BY <1>2, <1>3, <1>4, <1>5, <1>6, <1>7 DEF WorkerStep

LEMMA StepFlush ==
    ASSUME IInv, OneConnection, Running => FlushInv, [Next]_vars
    PROVE  Running' => FlushInv'
<1>1. CASE UNCHANGED vars
  <2>1. UNCHANGED <<conn, life, functors, batch, pos, phase, tasks, wpc>>
    BY <1>1 DEF vars, loopVars, poolVars
  <2>2. Adds' = Adds /\ Sends' = Sends /\ (Answering => Answering') /\ Running' = Running
    BY <2>1, PendingKept DEF Pending, Answering, Running
  <2>3. CalmFlush
    BY <2>1, <2>2 DEF CalmFlush
  <2>4. QED
    BY <2>2, <2>3, CalmKeepsFlush
<1>2. CASE LoopStep
  <2>1. FlushInv
    BY <1>2 DEF LoopStep, Poll, Dispatch, ExecuteTask, RunAddChannel, RunSendInLoop,
                RunRemoveConnection, RunFunctor, Release, Running
  <2>2. phase' # "crashed" => FlushInv'
    BY <1>2, <2>1, PollFlush, DispatchFlush, ExecuteTaskFlush, AddChannelFlush, SendInLoopFlush,
       RemoveConnectionFlush, ReleaseFlush DEF LoopStep
  <2>3. QED
    BY <2>2 DEF Running
<1>3. CASE \E w \in Workers : WorkerStep(w)
  <2>1. PICK w \in Workers : WorkerStep(w)
    BY <1>3
  <2>2. FlushInv
    BY <2>1 DEF WorkerStep, Begin, CheckConnected, Answer, SendBufferOut, ResetAsync, DeadRead, Access
  <2>3. QED
    BY <2>1, <2>2, WorkerFlush DEF Running
<1>4. CASE \E c \in Conns : OnNewConnection(c) \/ ClientStep(c)
  <2>1. PICK c \in Conns : OnNewConnection(c) \/ ClientStep(c)
    BY <1>4
  <2>2. FlushInv
    BY <2>1 DEF OnNewConnection, ClientStep, ClientSend, ClientShutdown, ClientReset, ClientDrain,
                Client
  <2>3. QED
    BY <2>1, <2>2, NewConnectionFlush, ClientFlush
<1>5. QED
  BY <1>1, <1>2, <1>3, <1>4 DEF Next

LEMMA FlushIsSeen ==
    ASSUME IInv, OneConnection, Running => FlushInv
    PROVE  NoStuckOutput
<1>1. SUFFICES ASSUME FlushInv, NEW c \in Conns, life[c] = "live", ~conn[c].disc, conn[c].out > 0
      PROVE  PendingOf(Functor("send", c)) # {} \/ WillFlush(c) \/ "OUT" \in conn[c].interest
  BY DEF NoStuckOutput
<1>2. Sends[c] > 0 \/ Answering \/ "OUT" \in conn[c].interest
  BY <1>1 DEF FlushInv
<1>3. CASE Sends[c] > 0
  <2>1. Pending \in Seq(Queued) /\ "send" \in FunctorKinds
    BY PendingIs DEF IInv, FunctorKinds
  <2>2. SUFFICES ASSUME PendingOf(Functor("send", c)) = {} PROVE FALSE
    OBVIOUS
  <2>3. \A f \in Elements(Pending) : ~(f.conn = c /\ f.kind = "send")
    <3>1. SUFFICES ASSUME NEW i \in DOMAIN Pending, Pending[i].conn = c, Pending[i].kind = "send"
                   PROVE  FALSE
      BY DEF Elements
    <3>2. Pending[i] \in Queued
      BY <2>1
    <3>3. Pending[i] = Functor("send", c)
      BY <3>1, <3>2 DEF Queued, Functor
    <3>4. QED
      BY <2>2, <3>3 DEF PendingOf
  <2>4. In("send", Pending)[c] = 0
    BY <2>1, <2>3, NotQueued
  <2>5. QED
    BY <1>3, <2>4 DEF Sends
<1>4. CASE Answering
  <2>1. Referred /\ \A d \in Conns : d = c
    BY DEF IInv, OneConnection
  <2>2. CASE tasks # <<>>
    <3>1. 1 \in DOMAIN tasks
      BY <2>2 DEF IInv, Types, TypeOK
    <3>2. QED
      BY <2>1, <3>1 DEF Referred, WillFlush
  <2>3. CASE \E w \in Workers : wpc[w] \in {"check", "answer", "flush"}
    BY <2>1, <2>3 DEF Referred, WillFlush, Target
  <2>4. QED
    BY <1>4, <2>2, <2>3 DEF Answering
<1>5. QED
  BY <1>2, <1>3, <1>4

\* With one connection, and any number of workers, requests and pieces of a response: while
\* it is open, what is in bufferOut_ has a queued SendInLoop, a task that will queue one, or
\* EPOLLOUT to take it further.
THEOREM NoStuckOutputOfOne ==
    ASSUME OneConnection
    PROVE  Spec => []NoStuckOutput
<1>1. Init => (Running => FlushInv)
  <2>1. SUFFICES ASSUME Init PROVE FlushInv
    OBVIOUS
  <2>2. \A c \in Conns : conn[c].out = 0 /\ ~conn[c].async
    BY <2>1 DEF Init, New
  <2>3. QED
    BY <2>2 DEF FlushInv
<1>2. IInv /\ (Running => FlushInv) /\ [Next]_vars => (Running => FlushInv)'
  BY StepFlush
<1>3. IInv /\ (Running => FlushInv) => NoStuckOutput
  BY FlushIsSeen
<1>4. QED
  BY <1>1, <1>2, <1>3, AlwaysIInv, PTL DEF Spec

=============================================================================
