--------------------------- MODULE MCThreadPool ----------------------------
(***************************************************************************)
(* ThreadPool on small sets, for TLC.  With twice as many Workers as       *)
(* ThreadNum the second Start of a serving pool is among the behaviours.   *)
(***************************************************************************)
EXTENDS ThreadPool
=============================================================================
