-------------------------------- MODULE MCMem --------------------------------
(***************************************************************************)
(* Instances of Mem for TLC.                                               *)
(***************************************************************************)
EXTENDS Mem

\* The words after mem_index: uninitialised memory or a caller's data.
AnyWord == -2 .. 2
=============================================================================
