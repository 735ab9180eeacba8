----------------------------- MODULE VmDriver ------------------------------
(***************************************************************************)
(* What the host agent promises about the drivers of a VM's processes (the *)
(* `Vm` handles of VmManager.running), whatever requests overlap and       *)
(* whatever is cut short: one driver per process, at most one of them in   *)
(* the map, a driver that was given up is never used again, and no driver  *)
(* enters the map while another one is shutting the VM down.               *)
(***************************************************************************)
CONSTANT Procs

VARIABLE where    \* where the driver of each process is

Init ==
    /\ where \in [Procs -> {"unborn", "map"}]
    /\ \A p, q \in Procs : where[p] = "map" /\ where[q] = "map" => p = q

Move(p, from, to) ==
    /\ where[p] \in from
    /\ where' = [where EXCEPT ![p] = to]

Spawn(p)  == Move(p, {"unborn"}, "starting")
Borrow(p) == Move(p, {"map"}, "borrowed")
Stop(p)   == Move(p, {"map"}, "stopping")

\* A driver that enters the map takes the place of the one that is there.
Enter(p) ==
    /\ where[p] \in {"starting", "borrowed"}
    /\ \A q \in Procs : where[q] # "stopping"
    /\ where' = [q \in Procs |-> IF q = p THEN "map"
                                 ELSE IF where[q] = "map" THEN "dropped"
                                 ELSE where[q]]

\* A shutdown ends, a boot fails, a handler is dropped, the agent dies.
GiveUp(S) == where' = [q \in Procs |-> IF q \in S THEN "dropped" ELSE where[q]]

Next ==
    \/ \E p \in Procs : Spawn(p) \/ Borrow(p) \/ Stop(p) \/ Enter(p)
    \/ \E S \in SUBSET Procs : GiveUp(S)

Spec == Init /\ [][Next]_where
=============================================================================
