----------------------------- MODULE MCWRQueue -----------------------------
(***************************************************************************)
(* Model-checking instance of WRQueue: three writes, so that a second and  *)
(* a third can wait behind the first, and three reads, so that the lanes   *)
(* interleave.                                                             *)
(***************************************************************************)
EXTENDS WRQueue
=============================================================================
