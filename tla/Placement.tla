----------------------------- MODULE Placement -----------------------------
(***************************************************************************)
(* How a new VM gets a host, a slot and a disk. The control plane picks    *)
(* host and slot; the host's agent makes the disk, inserts the vms row and *)
(* then writes its own id into it, or never does (a clone, a lost call),   *)
(* until a reconciliation claims the row. Slots name the TAP devices.      *)
(*                                                                         *)
(* Starts, stops and deletions are single steps here; VmLifecycle has the  *)
(* steps they are made of.                                                 *)
(***************************************************************************)
EXTENDS Naturals, FiniteSets

CONSTANTS
    VMs,        \* ids for new VMs, each used once (uuids)
    Hosts,
    Requests,   \* create and clone requests under way at the same time
    None,       \* SQL NULL
    MaxSlot,    \* bound: the largest slot (65534)
    Taken,      \* per host: the slots of VMs that are there from the start
    MaxFaults   \* bound: calls lost and rows refused

ASSUME ConstantsAssumption ==
    /\ None \notin Hosts \cup VMs
    /\ MaxSlot \in Nat /\ MaxFaults \in Nat
    /\ Taken \in [Hosts -> SUBSET (1..MaxSlot)]

VARIABLES
    row,    \* the vms rows: status, host, slot (the third octet of ip_address)
    born,   \* ids in use, or used before
    disks,  \* overlay files: pairs of a host and a VM
    taps,   \* TAP devices: their host and slot, and the VM that uses them
    req,    \* the create and clone requests under way
    rec,    \* per host: the reconciliation under way
    faults  \* counter that bounds the model

vars == <<row, born, disks, taps, req, rec, faults>>

Slot   == 1..MaxSlot
Row    == [status : {"none", "stopped", "running", "deleted"},
           host : Hosts \cup {None}, slot : Slot \cup {None}]
NoRow  == [status |-> "none", host |-> None, slot |-> None]
Gone   == [status |-> "deleted", host |-> None, slot |-> None]
Exists(v) == row[v].status \in {"stopped", "running"}
OnHost(h) == {v \in VMs : Exists(v) /\ row[v].host = h}

Device == [host : Hosts, slot : Slot, vm : VMs]

Request == [pc : {"idle", "slot", "call", "insert", "assign", "restore"},
            vm : VMs \cup {None}, host : Hosts \cup {None},
            slot : Slot \cup {None}, source : VMs \cup {None},
            after : {"assign", "restore", "idle"}]
Idle == [pc |-> "idle", vm |-> None, host |-> None, slot |-> None,
         source |-> None, after |-> "idle"]

\* A request's `after` is where the agent goes on when the row is inserted: a
\* create sets the host, a clone with memory restores the copied snapshot.

\* tracked: the slots of the tap_device columns read; claim: the rows without
\* a host that were read and not looked at yet.
Reconciliation == [pc : {"idle", "taps", "find", "claim"},
                   tracked : SUBSET Slot, claim : SUBSET VMs]
RecIdle == [pc |-> "idle", tracked |-> {}, claim |-> {}]

TypeOK ==
    /\ row \in [VMs -> Row]
    /\ born \subseteq VMs
    /\ disks \subseteq Hosts \X VMs
    /\ taps \subseteq Device
    /\ req \in [Requests -> Request]
    /\ rec \in [Hosts -> Reconciliation]
    /\ faults \in 0..MaxFaults

Init ==
    /\ row = [v \in VMs |-> NoRow]
    /\ born = {} /\ disks = {} /\ taps = {}
    /\ req = [r \in Requests |-> Idle]
    /\ rec = [h \in Hosts |-> RecIdle]
    /\ faults = 0

(***************************************************************************)
(* The control plane's part of create_vm and clone_vm.                     *)
(***************************************************************************)
NewRequest(v, h, s, after) ==
    [pc |-> "slot", vm |-> v, host |-> h, slot |-> None, source |-> s,
     after |-> after]

CreateBegin(r, v, h) ==
    /\ req[r].pc = "idle" /\ v \notin born
    /\ req' = [req EXCEPT ![r] = NewRequest(v, h, None, "assign")]
    /\ born' = born \cup {v}
    /\ UNCHANGED <<row, disks, taps, rec, faults>>

\* A clone lives on its source's host.
CloneBegin(r, v, s, after) ==
    /\ req[r].pc = "idle" /\ v \notin born
    /\ Exists(s) /\ row[s].host # None
    /\ req' = [req EXCEPT ![r] = NewRequest(v, row[s].host, s, after)]
    /\ born' = born \cup {v}
    /\ UNCHANGED <<row, disks, taps, rec, faults>>

\* get_used_ips_for_host
UsedSlots(h) == Taken[h] \cup {row[v].slot : v \in OnHost(h)}

IsNextFree(n, used) == n \in Slot \ used /\ 1..(n - 1) \subseteq used

\* Mutant: the search runs to 65535.
ChooseSlotTooFar(r) ==
    /\ req[r].pc = "slot"
    /\ \E n \in 1..(MaxSlot + 1) :
          /\ n \notin UsedSlots(req[r].host)
          /\ 1..(n - 1) \subseteq UsedSlots(req[r].host)
          /\ req' = [req EXCEPT ![r].slot = n, ![r].pc = "call"]
    /\ UNCHANGED <<row, born, disks, taps, rec, faults>>

ChooseSlot(r) ==
    /\ req[r].pc = "slot"
    /\ \E n \in Slot :
          /\ IsNextFree(n, UsedSlots(req[r].host))
          /\ req' = [req EXCEPT ![r].slot = n, ![r].pc = "call"]
    /\ UNCHANGED <<row, born, disks, taps, rec, faults>>

\* "IP pool exhausted": the handler panics.
SlotsExhausted(r) ==
    /\ req[r].pc = "slot"
    /\ Slot \subseteq UsedSlots(req[r].host)
    /\ req' = [req EXCEPT ![r] = Idle]
    /\ UNCHANGED <<row, born, disks, taps, rec, faults>>

(***************************************************************************)
(* The agent's part. A dropped call, or a row the database refuses (a      *)
(* subdomain taken meanwhile), leaves what was done before it.             *)
(***************************************************************************)
\* Mutant: a dropped call removes the disk it made, also under a row.
CallDroppedCleans(r) ==
    /\ req[r].pc \notin {"idle", "slot"}
    /\ faults < MaxFaults /\ faults' = faults + 1
    /\ disks' = disks \ {<<req[r].host, req[r].vm>>}
    /\ req' = [req EXCEPT ![r] = Idle]
    /\ UNCHANGED <<row, born, taps, rec>>

CallDropped(r) ==
    /\ req[r].pc \notin {"idle", "slot"}
    /\ faults < MaxFaults /\ faults' = faults + 1
    /\ req' = [req EXCEPT ![r] = Idle]
    /\ UNCHANGED <<row, born, disks, taps, rec>>

ProvisionDisk(r) ==
    /\ req[r].pc = "call" /\ req[r].source = None
    /\ disks' = disks \cup {<<req[r].host, req[r].vm>>}
    /\ req' = [req EXCEPT ![r].pc = "insert"]
    /\ UNCHANGED <<row, born, taps, rec, faults>>

Cloneable(r) ==
    /\ Exists(req[r].source)
    /\ <<req[r].host, req[r].source>> \in disks
    /\ req[r].after = "restore" => row[req[r].source].status = "running"

CopyDisk(r) ==
    /\ req[r].pc = "call" /\ req[r].source # None
    /\ IF Cloneable(r)
       THEN /\ disks' = disks \cup {<<req[r].host, req[r].vm>>}
            /\ req' = [req EXCEPT ![r].pc = "insert"]
       ELSE /\ req' = [req EXCEPT ![r] = Idle]
            /\ UNCHANGED disks
    /\ UNCHANGED <<row, born, taps, rec, faults>>

\* The row is inserted without a host. Only create_vm goes on to set it.
InsertRow(r) ==
    /\ req[r].pc = "insert"
    /\ row' = [row EXCEPT ![req[r].vm] =
                  [status |-> "stopped", host |-> None, slot |-> req[r].slot]]
    /\ IF req[r].after = "idle"
       THEN req' = [req EXCEPT ![r] = Idle]
       ELSE req' = [req EXCEPT ![r].pc = req[r].after]
    /\ UNCHANGED <<born, disks, taps, rec, faults>>

\* UPDATE vms SET host_id ... WHERE id ...: no row, no effect.
SetHost(v, h) ==
    row' = IF Exists(v) THEN [row EXCEPT ![v].host = h] ELSE row

AssignHost(r) ==
    /\ req[r].pc = "assign"
    /\ SetHost(req[r].vm, req[r].host)
    /\ req' = [req EXCEPT ![r] = Idle]
    /\ UNCHANGED <<born, disks, taps, rec, faults>>

(***************************************************************************)
(* TAP devices. allocate_tap removes the device it finds at its slot.      *)
(***************************************************************************)
AtSlot(h, n) == {d \in taps : d.host = h /\ d.slot = n}

AllocateTap(v, h, n) ==
    taps' = (taps \ AtSlot(h, n)) \cup {[host |-> h, slot |-> n, vm |-> v]}

ReleaseTap(h, n) == taps' = taps \ AtSlot(h, n)

\* restore_snapshot of the copied snapshot, at the end of a clone with memory.
RestoreClone(r) ==
    /\ req[r].pc = "restore"
    /\ IF row[req[r].vm].status = "stopped"
       THEN /\ AllocateTap(req[r].vm, req[r].host, row[req[r].vm].slot)
            /\ row' = [row EXCEPT ![req[r].vm].status = "running"]
       ELSE UNCHANGED <<taps, row>>
    /\ req' = [req EXCEPT ![r] = Idle]
    /\ UNCHANGED <<born, disks, rec, faults>>

(***************************************************************************)
(* Operations on a VM, which the control plane sends to the row's host.    *)
(***************************************************************************)
\* A missing overlay is provisioned, empty.
StartVm(v) ==
    /\ row[v].status = "stopped" /\ row[v].host # None
    /\ disks' = disks \cup {<<row[v].host, v>>}
    /\ AllocateTap(v, row[v].host, row[v].slot)
    /\ row' = [row EXCEPT ![v].status = "running"]
    /\ UNCHANGED <<born, req, rec, faults>>

StopVm(v) ==
    /\ row[v].status = "running" /\ row[v].host # None
    /\ ReleaseTap(row[v].host, row[v].slot)
    /\ row' = [row EXCEPT ![v].status = "stopped"]
    /\ UNCHANGED <<born, disks, req, rec, faults>>

DeleteVm(v) ==
    /\ row[v].status = "stopped" /\ row[v].host # None
    /\ disks' = disks \ {<<row[v].host, v>>}
    /\ row' = [row EXCEPT ![v] = Gone]
    /\ UNCHANGED <<born, taps, req, rec, faults>>

(***************************************************************************)
(* The agent's reconciliation: the rows of this host, then the devices     *)
(* none of them tracks, then the rows without a host.                      *)
(***************************************************************************)
ReadRows(h) ==
    /\ rec[h].pc = "idle"
    /\ rec' = [rec EXCEPT ![h] =
                  [pc |-> "taps", claim |-> {},
                   tracked |-> {row[v].slot :
                       v \in {w \in OnHost(h) : row[w].status = "running"}}]]
    /\ UNCHANGED <<row, born, disks, taps, req, faults>>

RemoveOrphanTaps(h) ==
    /\ rec[h].pc = "taps"
    /\ taps' = {d \in taps : d.host = h => d.slot \in rec[h].tracked}
    /\ rec' = [rec EXCEPT ![h].pc = "find", ![h].tracked = {}]
    /\ UNCHANGED <<row, born, disks, req, faults>>

\* Mutant: rows without a host are looked for among the stopped ones.
FindUnassignedStopped(h) ==
    /\ rec[h].pc = "find"
    /\ rec' = [rec EXCEPT ![h].pc = "claim",
                          ![h].claim = {v \in VMs : row[v].status = "stopped"
                                                    /\ row[v].host = None}]
    /\ UNCHANGED <<row, born, disks, taps, req, faults>>

\* get_vms_without_host
FindUnassigned(h) ==
    /\ rec[h].pc = "find"
    /\ rec' = [rec EXCEPT ![h].pc = "claim",
                          ![h].claim = {v \in VMs : Exists(v) /\
                                                    row[v].host = None}]
    /\ UNCHANGED <<row, born, disks, taps, req, faults>>

\* Mutant: the overlay is not looked for.
ClaimAnything(h, v) ==
    /\ rec[h].pc = "claim" /\ v \in rec[h].claim
    /\ SetHost(v, h)
    /\ rec' = [rec EXCEPT ![h].claim = @ \ {v}]
    /\ UNCHANGED <<born, disks, taps, req, faults>>

Claim(h, v) ==
    /\ rec[h].pc = "claim" /\ v \in rec[h].claim
    /\ IF <<h, v>> \in disks THEN SetHost(v, h) ELSE UNCHANGED row
    /\ rec' = [rec EXCEPT ![h].claim = @ \ {v}]
    /\ UNCHANGED <<born, disks, taps, req, faults>>

EndReconcile(h) ==
    /\ rec[h].pc = "claim" /\ rec[h].claim = {}
    /\ rec' = [rec EXCEPT ![h] = RecIdle]
    /\ UNCHANGED <<row, born, disks, taps, req, faults>>

Reconcile(h) ==
    \/ ReadRows(h) \/ RemoveOrphanTaps(h) \/ FindUnassigned(h)
    \/ \E v \in VMs : Claim(h, v)
    \/ EndReconcile(h)

Create(r) ==
    \/ \E v \in VMs, h \in Hosts : CreateBegin(r, v, h)
    \/ \E v, s \in VMs, after \in {"restore", "idle"} :
          CloneBegin(r, v, s, after)
    \/ ChooseSlot(r) \/ SlotsExhausted(r) \/ CallDropped(r)
    \/ ProvisionDisk(r) \/ CopyDisk(r) \/ InsertRow(r) \/ AssignHost(r)
    \/ RestoreClone(r)

Next ==
    \/ \E r \in Requests : Create(r)
    \/ \E v \in VMs : StartVm(v) \/ StopVm(v) \/ DeleteVm(v)
    \/ \E h \in Hosts : Reconcile(h)

\* The reconciliation is a periodic task of every agent.
Spec == Init /\ [][Next]_vars /\ \A h \in Hosts : WF_vars(Reconcile(h))

(***************************************************************************)
(* Properties                                                              *)
(***************************************************************************)

\* The host in a row has the VM's disk, whatever overlapped its creation and
\* whoever wrote the host: start_vm would silently provision an empty disk
\* anywhere else (host-agent/src/manager/mod.rs, start_vm_inner).
OwnerHasDisk == \A v \in VMs : row[v].host # None => <<row[v].host, v>> \in disks

\* Every VM gets the host of its disk for good, whichever of create_vm and the
\* reconciliations writes it and in whatever order.
DiskHosts(v) == {h \in Hosts : <<h, v>> \in disks}
DiskHost(v)  == IF DiskHosts(v) = {} THEN None ELSE CHOOSE h \in DiskHosts(v) : TRUE

PlaceOf(v) ==
    CASE row[v].status = "none" -> [stage |-> "unborn", disk |-> None]
      [] row[v].status = "deleted" -> [stage |-> "gone", disk |-> None]
      [] Exists(v) /\ row[v].host = None ->
             [stage |-> "unowned", disk |-> DiskHost(v)]
      [] OTHER -> [stage |-> "owned", disk |-> row[v].host]

place == [v \in VMs |-> PlaceOf(v)]

Ownership == INSTANCE VmOwnership

OwnershipSafe == Ownership!Init /\ [][Ownership!Next]_place

\* And it gets it: a row never stays without a host, out of reach of every
\* operation, when its creation ended early (host-agent/src/reconcile.rs,
\* "Claim any VMs whose overlay lives on this host").
EventuallyOwned ==
    \A v \in VMs : Exists(v) ~> row[v].host # None \/ row[v] = Gone
=============================================================================
