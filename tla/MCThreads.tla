----------------------------- MODULE MCThreads -----------------------------
(***************************************************************************)
(* TimerManager, Server and ProxyRelay on small sets, for TLC: the         *)
(* components of which something is promised in the end.  They share no    *)
(* state: component names the one that moves and the others stay in a      *)
(* first state, so that the states of the run are the sum of theirs.       *)
(*                                                                         *)
(* The timeouts are nothing, one whole turn of a wheel of two slots, and more *)
(* than a turn.                                                            *)
(***************************************************************************)
EXTENDS TimerManager, Server, ProxyRelay

VARIABLE component

threadsVars == <<component, vars, serverVars, relayVars>>

\* Where a component may begin in several states, one of them while it stays.
Still == /\ component # "timers" => /\ timeout = [t \in Timers |-> 0]
                                    /\ once = [t \in Timers |-> TRUE]
         /\ component # "relay" => proxy = "single"

ThreadsInit == component \in {"timers", "server", "relay"} /\ Init /\ ServerInit /\ RelayInit /\ Still

Moves(name, next, others) == component = name /\ next /\ UNCHANGED <<component, others>>

TimersMove == Moves("timers", Next, <<serverVars, relayVars>>)
ServerMoves == Moves("server", ServerNext, <<vars, relayVars>>)
RelayMoves == Moves("relay", RelayNext, <<vars, serverVars>>)

ThreadsNext == TimersMove \/ ServerMoves \/ RelayMoves

\* The wheel's thread runs and time passes; ~TcpServer, once it has begun, and
\* every loop thread run; the relay does not stop between two calls.
ThreadsSpec ==
    /\ ThreadsInit /\ [][ThreadsNext]_threadsVars
    /\ WF_vars(component = "timers" /\ ThreadStep)
    /\ WF_vars(component = "timers" /\ Advance)
    /\ WF_serverVars(component = "server" /\ DestroyStep)
    /\ \A l \in Loops : WF_serverVars(component = "server" /\ LoopStep(l))
    /\ WF_relayVars(component = "relay" /\ RelayStep)

\* The type invariant of every component.
ThreadsTypeOK == TypeOK /\ ServerTypeOK /\ RelayTypeOK
=============================================================================
