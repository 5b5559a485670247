---------------------------- MODULE MCKernelHeap ----------------------------
(***************************************************************************)
(* Instances of KernelHeap for TLC.                                        *)
(***************************************************************************)
EXTENDS KernelHeap, TLC

\* Neither threads nor semaphores are named by a definition.
Interchangeable == Permutations(Thread) \cup Permutations(Sem)
=============================================================================
