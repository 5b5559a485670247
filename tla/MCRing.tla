------------------------------- MODULE MCRing -------------------------------
(***************************************************************************)
(* Instances of Ring for TLC.                                              *)
(***************************************************************************)
EXTENDS Ring, TLC

\* Neither nodes nor semaphores are named by a definition.
Interchangeable == Permutations(Node) \cup Permutations(Sem)
=============================================================================
