----------------------------- MODULE MCReactor -----------------------------
(***************************************************************************)
(* Reactor on small sets, for TLC.                                         *)
(***************************************************************************)
EXTENDS Reactor, TLC

ConnSymmetry == Permutations(Conns)

=============================================================================
