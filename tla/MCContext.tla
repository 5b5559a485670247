----------------------------- MODULE MCContext -----------------------------
(***************************************************************************)
(* Instances of Context for TLC.                                           *)
(***************************************************************************)
EXTENDS Context, TLC

\* Threads are interchangeable: no definition names one.
Interchangeable == Permutations(Thread)
=============================================================================
