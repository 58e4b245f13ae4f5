----------------------------- MODULE ProxyRelay -----------------------------
(***************************************************************************)
(* The relay between a client and a target, the second half of             *)
(* ProxyProcess in library/PortProxyServer.hpp, and the same loop in       *)
(* library/PortProxySingle.hpp.                                            *)
(*                                                                         *)
(* proxy is the program: "single", or the server whose client belongs to   *)
(* the main loop or to a loop of the pool.  ProxyProcess takes the client  *)
(* out of the epoll of the main loop, so that a loop of the pool goes on   *)
(* reading the client.  Data is a sequence of numbered pieces; recv takes  *)
(* all that is there.  A client that never pauses keeps poll from looking  *)
(* at the target: it sends MaxPieces pieces here.                          *)
(***************************************************************************)
EXTENDS Naturals, Sequences

CONSTANT MaxPieces      \* bound: pieces that each side sends

ASSUME MaxPiecesAssumption == MaxPieces \in Nat

VARIABLES proxy,
          relayAt,      \* where the relay is in its loop
          side,         \* the side with data: this_fd
          buf,          \* the pieces in buf
          incoming,     \* what the kernel has from each side and nobody has read
          pieces,       \* how many pieces each side has sent
          fin,          \* the side has ended its stream: its socket is in CLOSE_WAIT
          delivered,    \* what each side has got, 0 for the request that was read before
          cut,          \* data was read and not sent on, by the relay
          taken,        \* data was read by the loop of the pool
          targetOpen    \* the descriptor of the target is open

relayVars == <<proxy, relayAt, side, buf, incoming, pieces, fin, delivered, cut, taken, targetOpen>>

Sides == {"client", "target"}
Other(s) == IF s = "client" THEN "target" ELSE "client"
Programs == {"single", "mainLoop", "poolLoop"}

RelayInit == /\ proxy \in Programs
             /\ relayAt = "begin" /\ side = "client" /\ buf = <<>>
             /\ incoming = [s \in Sides |-> <<>>] /\ delivered = [s \in Sides |-> <<>>]
             /\ pieces = [s \in Sides |-> 0] /\ fin = [s \in Sides |-> FALSE]
             /\ cut = FALSE /\ taken = FALSE
             /\ targetOpen = FALSE

-----------------------------------------------------------------------------
(* The two sides, and the loop that still reads the client.                *)

PeerSends(s) == /\ ~fin[s] /\ pieces[s] < MaxPieces /\ (s = "target" => targetOpen)
                /\ pieces' = [pieces EXCEPT ![s] = @ + 1]
                /\ incoming' = [incoming EXCEPT ![s] = Append(@, pieces[s] + 1)]
                /\ UNCHANGED <<proxy, relayAt, side, buf, fin, delivered, cut, taken, targetOpen>>

PeerEnds(s) == /\ ~fin[s] /\ (s = "target" => targetOpen)
               /\ fin' = [fin EXCEPT ![s] = TRUE]
               /\ UNCHANGED <<proxy, relayAt, side, buf, incoming, pieces, delivered, cut, taken, targetOpen>>

\* Channel::HandleEvent of the client in a loop of the pool.
PoolLoopReads == /\ proxy = "poolLoop" /\ incoming["client"] # <<>>
                 /\ incoming' = [incoming EXCEPT !["client"] = <<>>]
                 /\ taken' = TRUE
                 /\ UNCHANGED <<proxy, relayAt, side, buf, pieces, fin, delivered, cut, targetOpen>>

-----------------------------------------------------------------------------
(* The thread of the relay.                                                *)

RelayAt(from) == relayAt = from /\ UNCHANGED <<proxy, pieces, fin, taken>>

\* connect; the server then sends the request it has.
BeginRelay == /\ RelayAt("begin") /\ proxy # "single"
              /\ targetOpen' = TRUE
              /\ delivered' = [delivered EXCEPT !["target"] = <<0>>]
              /\ relayAt' = "poll"
              /\ UNCHANGED <<side, buf, incoming, cut>>

\* wait_client with connect_server: a client whose target does not answer is
\* dropped without a close.
BeginSingle == /\ RelayAt("begin") /\ proxy = "single"
               /\ \/ targetOpen' = TRUE /\ relayAt' = "poll"
                  \/ relayAt' = "done" /\ UNCHANGED targetOpen
               /\ UNCHANGED <<side, buf, incoming, delivered, cut>>

\* poll looks at the client first.
Readable(s) == incoming[s] # <<>> \/ fin[s]
PollSides == /\ RelayAt("poll")
             /\ \E s \in Sides : Readable(s)
             /\ side' = IF Readable("client") THEN "client" ELSE "target"
             /\ relayAt' = "recv"
             /\ UNCHANGED <<buf, incoming, delivered, cut, targetOpen>>

\* Nothing is there when the loop of the pool was faster: recv fails.
Recv == /\ RelayAt("recv")
        /\ buf' = incoming[side]
        /\ incoming' = [incoming EXCEPT ![side] = <<>>]
        /\ relayAt' = IF Readable(side) THEN "send" ELSE "end"
        /\ UNCHANGED <<side, delivered, cut, targetOpen>>

\* The side was reset: what it had sent is gone.
RecvFails == /\ RelayAt("recv") /\ fin[side]
             /\ incoming' = [incoming EXCEPT ![side] = <<>>]
             /\ cut' = (cut \/ incoming[side] # <<>>)
             /\ relayAt' = "end"
             /\ UNCHANGED <<side, buf, delivered, targetOpen>>

\* The client of the server does not block: send may take a part of buf, and
\* the rest is dropped.
NonBlocking(s) == s = "client" /\ proxy # "single"

\* A change of Send: nothing is sent on after the end of the stream.
SendUnlessEnded ==
    LET to == Other(side)
        n == IF fin[side] THEN 0 ELSE Len(buf)
    IN  /\ RelayAt("send")
        /\ delivered' = [delivered EXCEPT ![to] = @ \o SubSeq(buf, 1, n)]
        /\ buf' = <<>> /\ relayAt' = "check"
        /\ UNCHANGED <<side, incoming, cut, targetOpen>>

Send ==
    LET to == Other(side)
    IN  /\ RelayAt("send")
        /\ \E n \in 0 .. Len(buf) :
              /\ n < Len(buf) => NonBlocking(to)
              /\ delivered' = [delivered EXCEPT ![to] = @ \o SubSeq(buf, 1, n)]
              /\ cut' = (cut \/ n < Len(buf))
        /\ buf' = <<>> /\ relayAt' = "check"
        /\ UNCHANGED <<side, incoming, targetOpen>>

\* The window of the client is full.
SendFails == /\ RelayAt("send") /\ NonBlocking(Other(side)) /\ buf # <<>>
             /\ cut' = TRUE /\ buf' = <<>> /\ relayAt' = "end"
             /\ UNCHANGED <<side, incoming, delivered, targetOpen>>

\* The other side was reset: SIGPIPE, which neither program ignores.
SendKills == /\ RelayAt("send") /\ fin[Other(side)] /\ buf # <<>>
             /\ cut' = TRUE /\ buf' = <<>> /\ relayAt' = "killed"
             /\ UNCHANGED <<side, incoming, delivered, targetOpen>>

\* A change of CheckState: only an end that comes with no data is seen.
CheckStateLate == /\ RelayAt("check")
                  /\ relayAt' = IF fin[side] /\ side = "client" THEN "end" ELSE "poll"
                  /\ UNCHANGED <<side, buf, incoming, delivered, cut, targetOpen>>

\* The end of one stream ends the relay: what the other side sends is not read.
CheckState == /\ RelayAt("check")
              /\ relayAt' = IF fin[side] THEN "end" ELSE "poll"
              /\ UNCHANGED <<side, buf, incoming, delivered, cut, targetOpen>>

\* The server closes the target's socket; PortProxySingle closes neither.
EndRelay == /\ RelayAt("end")
            /\ relayAt' = "done"
            /\ targetOpen' = (targetOpen /\ proxy = "single")
            /\ UNCHANGED <<side, buf, incoming, delivered, cut>>

RelayLoop == PollSides \/ Recv \/ RecvFails \/ Send \/ SendFails \/ SendKills \/ CheckState

\* The same loop in PortProxySingle, with blocking sockets.
RelaySingle == proxy = "single" /\ RelayLoop
RelayServer == proxy # "single" /\ RelayLoop

RelayOver == relayAt \in {"done", "killed"}
RelayStep == BeginRelay \/ BeginSingle \/ RelaySingle \/ RelayServer \/ EndRelay

RelayNext == \/ RelayStep \/ PoolLoopReads
             \/ ~RelayOver /\ \E s \in Sides : PeerSends(s) \/ PeerEnds(s)

RelaySpec == RelayInit /\ [][RelayNext]_relayVars

-----------------------------------------------------------------------------
(* Properties.                                                             *)

RelayTypeOK == /\ proxy \in Programs
               /\ relayAt \in {"begin", "poll", "recv", "send", "check", "end", "done", "killed"}
               /\ side \in Sides
               /\ {buf, incoming["client"], incoming["target"]} \subseteq Seq(1 .. MaxPieces)
               /\ pieces \in [Sides -> 0 .. MaxPieces]
               /\ fin \in [Sides -> BOOLEAN]
               /\ {cut, taken, targetOpen} \subseteq BOOLEAN

\* No piece is doubled or overtakes another one; and as long as no send was cut
\* short and no other thread has read the client, every piece that a side has
\* sent is delivered, in the relay's buffer or still to be read, also when the
\* relay has ended (PortProxyServer.hpp:303,314).
InHand(s) == IF side = s THEN buf ELSE <<>>
\* What was delivered without the request, which the relay itself has not read.
Relayed(d) == IF d # <<>> /\ d[1] = 0 THEN Tail(d) ELSE d
RelayConserves ==
    \A s \in Sides :
        LET d == delivered[Other(s)]
        IN  /\ \A i \in 1 .. Len(d) - 1 : d[i] < d[i + 1]
            /\ (~cut /\ ~(taken /\ s = "client")) =>
                   Relayed(d) \o InHand(s) \o incoming[s] = [i \in 1 .. pieces[s] |-> i]

\* The end of a stream, of either side, ends the relay (or the process), and data
\* of the client does not stay unread while it goes on (PortProxyServer.hpp:287,327).
RelayProgress ==
    LET pressing == incoming["client"] # <<>> \/ \E s \in Sides : fin[s]
    IN  pressing ~> (RelayOver \/ ~pressing)
=============================================================================
