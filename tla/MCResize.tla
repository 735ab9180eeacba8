------------------------------ MODULE MCResize ------------------------------
(***************************************************************************)
(* One VM, two resizes at a time.                                          *)
(***************************************************************************)
EXTENDS Resize, TLC

CONSTANTS r1, r2

Alike == Permutations(Requests)
=============================================================================
