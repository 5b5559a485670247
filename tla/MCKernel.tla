------------------------------ MODULE MCKernel ------------------------------
(***************************************************************************)
(* Instances of Kernel for TLC.                                            *)
(***************************************************************************)
EXTENDS Kernel, TLC

\* Threads and semaphores are interchangeable: no definition names one.
Interchangeable == Permutations(Thread) \cup Permutations(Sem)
=============================================================================
