------------------------------ MODULE MCFleet -------------------------------
(***************************************************************************)
(* Two hosts, two VMs, one operator beside the watcher.                    *)
(***************************************************************************)
EXTENDS Fleet, TLC

CONSTANTS h1, h2, v1, v2, a1
=============================================================================
