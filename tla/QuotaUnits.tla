----------------------------- MODULE QuotaUnits -----------------------------
(***************************************************************************)
(* Demands for resources and their sums over the VMs of one account. A sum *)
(* is the number of units demanded: SUM(vcpus) and SUM(memory_mb), and     *)
(* COUNT with a demand of one per VM.                                      *)
(***************************************************************************)
EXTENDS Naturals, FiniteSets

CONSTANTS
    VMs,        \* the account's VMs
    Resource,   \* what is limited: the number of VMs, vcpus, memory
    Limit,      \* the account's limit of each resource
    MaxUnits    \* bound: the largest demand of one VM for one resource

ASSUME UnitsAssumption ==
    /\ IsFiniteSet(VMs)
    /\ MaxUnits \in Nat
    /\ Limit \in [Resource -> Nat]

Demand == [Resource -> 0..MaxUnits]

Nothing == [k \in Resource |-> 0]

Lower(d, e) == [k \in Resource |-> IF d[k] <= e[k] THEN d[k] ELSE e[k]]

\* The units of resource k that f demands, one element each.
Units(f, k) == {u \in VMs \X (1..MaxUnits) : u[2] <= f[u[1]][k]}

Total(f, k) == Cardinality(Units(f, k))

Fits(f) == \A k \in Resource : Total(f, k) <= Limit[k]
=============================================================================
