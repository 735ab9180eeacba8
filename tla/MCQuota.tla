------------------------------ MODULE MCQuota ------------------------------
(***************************************************************************)
(* An account of two VMs, with room for a small and a large one but not    *)
(* for two large ones.                                                     *)
(***************************************************************************)
EXTENDS Quota, TLC

CONSTANTS v1, v2, r1, r2

MCResource == {"vms", "vcpus", "memory"}
MCLimit    == [vms |-> 2, vcpus |-> 3, memory |-> 3]
MCSizes    == {[vms |-> 1, vcpus |-> 1, memory |-> 1],
               [vms |-> 1, vcpus |-> 2, memory |-> 1],
               [vms |-> 1, vcpus |-> 1, memory |-> 2]}

Symmetry == Permutations(VMs) \cup Permutations(Requests)
=============================================================================
