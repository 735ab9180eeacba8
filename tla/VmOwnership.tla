---------------------------- MODULE VmOwnership ----------------------------
(***************************************************************************)
(* Which host a VM belongs to, as every other operation relies on it: the  *)
(* host that keeps the VM's disk, from the moment it is known until the VM *)
(* is deleted. A start on any other host would boot an empty disk.         *)
(***************************************************************************)
CONSTANTS VMs, Hosts, None

VARIABLE place  \* per VM: its stage, and the host that has its disk

Stage == {"unborn", "unowned", "owned", "gone"}

Place == [stage : Stage, disk : Hosts \cup {None}]

Unborn == [stage |-> "unborn", disk |-> None]
Gone   == [stage |-> "gone", disk |-> None]

Init == place = [v \in VMs |-> Unborn]

\* The VM has a row and a disk; nothing says yet where.
Create(v, h) ==
    /\ place[v] = Unborn
    /\ place' = [place EXCEPT ![v] = [stage |-> "unowned", disk |-> h]]

\* The host of the disk becomes the VM's host, once and for all.
Own(v) ==
    /\ place[v].stage = "unowned"
    /\ place' = [place EXCEPT ![v].stage = "owned"]

Delete(v) ==
    /\ place[v].stage = "owned"
    /\ place' = [place EXCEPT ![v] = Gone]

Next == \E v \in VMs : Own(v) \/ Delete(v) \/ \E h \in Hosts : Create(v, h)

\* Every VM gets its host.
Spec == Init /\ [][Next]_place /\ \A v \in VMs : WF_place(Own(v))
=============================================================================
