---------------------------- MODULE QuotaLedger ----------------------------
(***************************************************************************)
(* What check_quota_and_reserve promises to one account, whatever else     *)
(* writes to the database at the same time: an admission is one atomic     *)
(* step. A VM is admitted only if its demand fits beside every grant there *)
(* is at that moment; a grant never grows.                                 *)
(***************************************************************************)
EXTENDS QuotaUnits

VARIABLE grant  \* the units granted to the present run of each VM

Init == grant = [v \in VMs |-> Nothing]

Admit(v, d) ==
    /\ Fits([grant EXCEPT ![v] = d])
    /\ grant' = [grant EXCEPT ![v] = d]

\* A VM stops, or is resized down.
GiveBack(v, d) == grant' = [grant EXCEPT ![v] = Lower(@, d)]

Next == \E v \in VMs, d \in Demand : Admit(v, d) \/ GiveBack(v, d)

Spec == Init /\ [][Next]_grant
=============================================================================
