---------------------------- MODULE MCPlacement -----------------------------
(***************************************************************************)
(* A small fleet: one host is empty, the other has one slot left of two.   *)
(***************************************************************************)
EXTENDS Placement, TLC

CONSTANTS v1, v2, h1, h2, r1, r2

MCUneven == [h \in Hosts |-> IF h = h1 THEN {} ELSE {1}]
=============================================================================
