--------------------------- MODULE MCVmLifecycle ---------------------------
(***************************************************************************)
(* Model values for VmLifecycle.                                           *)
(***************************************************************************)
EXTENDS VmLifecycle, TLC

CONSTANTS t1, t2, t3, p1, p2

\* Requests of one kind are interchangeable, and so are processes.
Symmetry == Permutations(Threads) \cup Permutations(Procs)
=============================================================================
