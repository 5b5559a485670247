---------------------------- MODULE MCKernelSleep ----------------------------
(***************************************************************************)
(* Instances of KernelSleep for TLC.                                       *)
(***************************************************************************)
EXTENDS KernelSleep, TLC

\* Threads and semaphores are interchangeable: no definition names one.
Interchangeable == Permutations(Thread) \cup Permutations(Sem)
=============================================================================
