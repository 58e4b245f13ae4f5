------------------------ MODULE ConnectionLifecycle ------------------------
(***************************************************************************)
(* What the network library promises about the life of a connection,       *)
(* without events, buffers, functors or workers: it is accepted, closed,   *)
(* removed from the server and destroyed, once each and in this order, and *)
(* what has been written to it leaves only while it is open.  Module       *)
(* Reactor implements this specification.                                  *)
(***************************************************************************)
EXTENDS FiniteSets

CONSTANT Conns

VARIABLES stage,        \* where each connection is in its life
          unsent        \* the connections with something written and not sent

lifecycleVars == <<stage, unsent>>

Stages == {"absent", "open", "closing", "removed", "destroyed"}

LifecycleInit == /\ stage = [c \in Conns |-> "absent"]
                 /\ unsent = {}

Move(c, from, to) == stage[c] = from /\ stage' = [stage EXCEPT ![c] = to]

Accept(c) == Move(c, "absent", "open") /\ UNCHANGED unsent

\* Somebody may still be writing when the loop thread has closed.
Write(c) == /\ stage[c] \notin {"absent", "destroyed"}
            /\ unsent' = unsent \cup {c}
            /\ UNCHANGED stage

Send(c) == /\ stage[c] = "open"
           /\ unsent' = unsent \ {c}
           /\ UNCHANGED stage

\* The connection may be closed by the send that empties it.
Close(c) == /\ Move(c, "open", "closing")
            /\ \/ UNCHANGED unsent
               \/ unsent' = unsent \ {c}
               \/ unsent' = unsent \cup {c}

Remove(c) == Move(c, "closing", "removed") /\ UNCHANGED unsent

Destroy(S) == /\ S # {}
              /\ \A c \in S : stage[c] = "removed"
              /\ stage' = [c \in Conns |-> IF c \in S THEN "destroyed" ELSE stage[c]]
              /\ UNCHANGED unsent

LifecycleNext == \/ \E c \in Conns : Accept(c) \/ Write(c) \/ Send(c) \/ Close(c) \/ Remove(c)
                 \/ \E S \in SUBSET Conns : Destroy(S)

LifecycleSpec == LifecycleInit /\ [][LifecycleNext]_lifecycleVars
=============================================================================
