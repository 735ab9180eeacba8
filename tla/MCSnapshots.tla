---------------------------- MODULE MCSnapshots -----------------------------
(***************************************************************************)
(* One VM, two requests at a time.                                         *)
(***************************************************************************)
EXTENDS Snapshots, TLC

CONSTANTS s1, s2, s3, s4, r1, r2

Alike == Permutations(Snaps) \cup Permutations(Requests)
=============================================================================
