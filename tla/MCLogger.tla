------------------------------ MODULE MCLogger ------------------------------
(***************************************************************************)
(* Logger on small sets, for TLC.  MaxBufs leaves room for the buffers     *)
(* that a lost increment of buftotalnum lets Append allocate past Limit.   *)
(***************************************************************************)
EXTENDS Logger
=============================================================================
