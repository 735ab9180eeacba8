-------------------------------- MODULE Fleet --------------------------------
(***************************************************************************)
(* The hosts of the fleet: how they register, report and are chosen, how   *)
(* an operator drains one, and how a VM is migrated away from a host       *)
(* (control-plane/src/migration.rs, scheduler.rs, registration.rs,         *)
(* admin.rs; host-agent/src/manager/clone.rs, main.rs).                    *)
(*                                                                         *)
(* A migration is modelled call by call.  The control plane and the agents *)
(* share one database, so the target's INSERT is refused as long as the VM *)
(* has its row, and a row that vm_migrations refers to cannot be deleted.  *)
(* A host's capacity is counted in VMs of equal size.                      *)
(***************************************************************************)
EXTENDS Integers, FiniteSets

CONSTANTS Hosts, VMs,
          Admins,       \* migrations an operator asks for that run at once
          Watcher,      \* the task run_drain_watcher
          None,
          Capacity,     \* VMs a host has memory for
          MaxMoves,     \* bound: migrations an operator asks for
          MaxOrders,    \* bound: statuses an operator sets
          MaxChanges,   \* bound: starts, stops, crashes and deletions of VMs
          MaxRefusals,  \* bound: stops that an agent refuses
          MaxFaults     \* bound: agents that stop, calls that are lost

ASSUME BoundsAssumption ==
    /\ IsFiniteSet(VMs)
    /\ MaxMoves \in Nat /\ MaxOrders \in Nat /\ MaxChanges \in Nat
    /\ MaxRefusals \in Nat /\ MaxFaults \in Nat

VARIABLES hosts,    \* hosts[h]: status, usage of the last heartbeat, whether that is recent
          up,       \* hosts whose agent runs
          vms,      \* vms[v]: its host and status; None once it is deleted
          disks,    \* overlay files: pairs of a host and a VM
          record,   \* record[m]: what m read and, once inserted, its row of vm_migrations
          recorded, \* the VMs that some row of vm_migrations refers to
          task,     \* task[m]: the call that m's migration makes next
          drain,    \* where run_drain_watcher is: the hosts and VMs it read
          orders, moves, changes, refusals, faults   \* counters that bound the model

counters == <<orders, moves, changes, refusals, faults>>
vars == <<hosts, up, vms, disks, record, recorded, task, drain, counters>>
moving == <<record, recorded, task>>

Movers == Admins \cup {Watcher}
Host == [status : {"active", "draining", "offline"}, used : 0..Cardinality(VMs), fresh : BOOLEAN]
Vm == [host : Hosts, status : {"stopped", "running", "error"}]
Record == [vm : VMs, from : Hosts, to : Hosts, running : BOOLEAN,
           status : {"read", "pending", "failed", "completed"}]

ASSUME ConstantsAssumption ==
    /\ Watcher \notin Admins /\ None \notin Hosts \cup VMs \cup Vm \cup Record
    /\ Capacity \in Nat \ {0}

Task == {"none", "record", "stop", "snapshot", "fetch", "insert"}

\* What is left of one drain_tick: hosts that were draining, the one at hand
\* and its VMs that were not stopped.
Drain == [todo : SUBSET Hosts, host : Hosts \cup {None}, vms : SUBSET VMs]
NoDrain == [todo |-> {}, host |-> None, vms |-> {}]

On(h) == {v \in VMs : vms[v] # None /\ vms[v].host = h}
Usage(h) == Cardinality({v \in On(h) : vms[v].status = "running"})
Free(h) == Capacity - hosts[h].used

\* pick_host with "spread": active, recently heard of, room by its last
\* report; the one with the most free memory.
Eligible == {h \in Hosts : hosts[h].status = "active" /\ hosts[h].fresh /\ Free(h) >= 1}
Picks == {h \in Eligible : \A g \in Eligible : Free(g) <= Free(h)}

-----------------------------------------------------------------------------
Init ==
    /\ hosts = [h \in Hosts |-> [status |-> "active", used |-> 0, fresh |-> TRUE]]
    /\ up = Hosts
    /\ vms \in [VMs -> [host : Hosts, status : {"stopped"}]]
    /\ disks = {<<vms[v].host, v>> : v \in VMs}
    /\ record = [m \in Movers |-> None] /\ recorded = {}
    /\ task = [m \in Movers |-> "none"]
    /\ drain = NoDrain
    /\ orders = 0 /\ moves = 0 /\ changes = 0 /\ refusals = 0 /\ faults = 0

\* The operator's set_host_status.
SetHostStatus(h) == \E s \in {"active", "draining", "offline"} \ {hosts[h].status} :
    /\ orders < MaxOrders /\ orders' = orders + 1
    /\ hosts' = [hosts EXCEPT ![h].status = s]
    /\ UNCHANGED <<up, vms, disks, moving, drain, moves, changes, refusals, faults>>

\* An agent stops, and its host falls silent; VMs go on.
AgentDown(h) ==
    /\ h \in up /\ faults < MaxFaults /\ faults' = faults + 1
    /\ up' = up \ {h}
    /\ UNCHANGED <<hosts, vms, disks, moving, drain, orders, moves, changes, refusals>>

\* HEARTBEAT_TIMEOUT_SECS without a heartbeat.
FallsSilent(h) ==
    /\ h \notin up /\ hosts[h].fresh
    /\ hosts' = [hosts EXCEPT ![h].fresh = FALSE]
    /\ UNCHANGED <<up, vms, disks, moving, drain, counters>>

\* An agent starts and registers: upsert_host keeps the status and the usage.
Register(h) ==
    /\ h \notin up /\ up' = up \cup {h}
    /\ hosts' = [hosts EXCEPT ![h].fresh = TRUE]
    /\ UNCHANGED <<vms, disks, moving, drain, counters>>

\* A heartbeat makes any host that is not draining active, an offline one as well.
AfterHeartbeat(s) == IF s = "draining" THEN "draining" ELSE "active"

Heartbeat(h) ==
    /\ h \in up
    /\ hosts' = [hosts EXCEPT ![h] = [status |-> AfterHeartbeat(@.status),
                                      used |-> Usage(h), fresh |-> TRUE]]
    /\ UNCHANGED <<up, vms, disks, moving, drain, counters>>

\* Users start and stop VMs, and guests crash; none of them looks at the
\* host's status or capacity.
Change(v) ==
    /\ vms[v] # None
    /\ changes < MaxChanges /\ changes' = changes + 1
    /\ \/ vms[v].status # "running" /\ vms[v].host \in up
          /\ vms' = [vms EXCEPT ![v].status = "running"]
       \/ vms[v].status = "running" /\ vms[v].host \in up
          /\ vms' = [vms EXCEPT ![v].status = "stopped"]
       \/ vms[v].status = "running" /\ vms' = [vms EXCEPT ![v].status = "error"]
    /\ UNCHANGED <<hosts, up, disks, moving, drain, orders, moves, refusals, faults>>

Deleted(v) ==
    /\ vms[v] # None /\ vms[v].status = "stopped" /\ vms[v].host \in up
    /\ changes < MaxChanges /\ changes' = changes + 1
    /\ vms' = [vms EXCEPT ![v] = None]
    /\ disks' = disks \ {<<vms[v].host, v>>}
    /\ UNCHANGED <<hosts, up, moving, drain, orders, moves, refusals, faults>>

\* Mutant: the rows of vm_migrations go with the VM.
DeleteCascades(v) == Deleted(v)

\* A user deletes a VM.  The foreign key of vm_migrations does not cascade: with
\* a row there the DELETE fails, and the VM stays as it is.
DeleteVm(v) == v \notin recorded /\ Deleted(v)

-----------------------------------------------------------------------------
\* migrate_vm reads the VM and both hosts.
Begins(m, v, t) ==
    /\ vms[v] # None /\ vms[v].host # t
    /\ record' = [record EXCEPT ![m] =
                    [vm |-> v, from |-> vms[v].host, to |-> t,
                     running |-> vms[v].status = "running", status |-> "read"]]
    /\ task' = [task EXCEPT ![m] = "record"]
    /\ UNCHANGED recorded

At(m, op, h) == task[m] = op /\ h \in up
HasRow(m) == vms[record[m].vm] # None
From(m) == record[m].from
To(m) == record[m].to
Goto(m, op) == task' = [task EXCEPT ![m] = op] /\ UNCHANGED <<record, recorded>>
End(m) == task' = [task EXCEPT ![m] = "none"]
\* Mutant: a status that vm_migrations does not know.
FailUnknown(m) ==
    End(m) /\ record' = [record EXCEPT ![m].status = "error"] /\ UNCHANGED recorded

Fail(m) ==
    End(m) /\ record' = [record EXCEPT ![m].status = "failed"] /\ UNCHANGED recorded
MoveKeeps == UNCHANGED <<hosts, up, drain, counters>>

\* The operator asks for a migration, which runs in a task of its own.
AdminMigrate(m) == \E v \in VMs, t \in Hosts :
    /\ moves < MaxMoves /\ moves' = moves + 1
    /\ task[m] = "none" /\ Begins(m, v, t)
    /\ UNCHANGED <<hosts, up, vms, disks, drain, orders, changes, refusals, faults>>

\* create_vm_migration; a VM that was deleted since it was read has no row to
\* refer to, and the INSERT fails.
RecordMove(m) ==
    /\ task[m] = "record"
    /\ IF ~HasRow(m)
       THEN End(m) /\ record' = [record EXCEPT ![m] = None] /\ UNCHANGED recorded
       ELSE /\ record' = [record EXCEPT ![m].status = "pending"]
            /\ recorded' = recorded \cup {record[m].vm}
            /\ task' = [task EXCEPT ![m] = IF record[m].running THEN "stop" ELSE "snapshot"]
    /\ MoveKeeps /\ UNCHANGED <<vms, disks>>

\* stop_vm on the source, if the VM was running when it was read ...
StopOnSource(m) ==
    /\ At(m, "stop", From(m)) /\ HasRow(m)
    /\ vms' = [vms EXCEPT ![record[m].vm].status = "stopped"]
    /\ Goto(m, "snapshot")
    /\ MoveKeeps /\ UNCHANGED disks

Refusing(m) ==
    /\ At(m, "stop", From(m))
    /\ refusals < MaxRefusals /\ refusals' = refusals + 1
    /\ \/ UNCHANGED vms
       \/ HasRow(m) /\ vms' = [vms EXCEPT ![record[m].vm].status = "stopped"]
    /\ UNCHANGED <<hosts, up, disks, drain, orders, moves, changes, faults>>

\* Mutant: the early return forgets the record.
StopRefusedQuietly(m) == Refusing(m) /\ End(m) /\ UNCHANGED <<record, recorded>>

\* ... which the agent may refuse, before the VM is stopped or (an UPDATE or the
\* log fails) after it; a row left 'stopping' is 'stopped' after a reconciliation.
StopRefused(m) == Refusing(m) /\ Fail(m)

\* take_snapshot on the source: refused unless the VM runs, or if it has its
\* two snapshots.
SnapshotRefused(m) ==
    /\ At(m, "snapshot", From(m))
    /\ Fail(m)
    /\ MoveKeeps /\ UNCHANGED <<vms, disks>>

SnapshotTaken(m) ==
    /\ At(m, "snapshot", From(m))
    /\ HasRow(m) /\ vms[record[m].vm].status = "running"
    /\ Goto(m, "fetch")
    /\ MoveKeeps /\ UNCHANGED <<vms, disks>>

\* The target's migrate_vm: it has the image and pulls the overlay ...
Fetch(m) ==
    /\ At(m, "fetch", To(m)) /\ From(m) \in up
    /\ disks' = disks \cup {<<To(m), record[m].vm>>}
    /\ Goto(m, "insert")
    /\ MoveKeeps /\ UNCHANGED vms

\* ... or one of the two is missing, and the call returns an error.
FetchFails(m) ==
    /\ At(m, "fetch", To(m))
    /\ Fail(m)
    /\ MoveKeeps /\ UNCHANGED <<vms, disks>>

\* db::create_vm on the target is refused where the VM has its row; the overlay
\* stays.  Otherwise the VM is on the target, set_vm_host and 'completed' follow.
InsertRow(m) ==
    /\ At(m, "insert", To(m))
    /\ IF HasRow(m)
       THEN Fail(m) /\ UNCHANGED vms
       ELSE /\ vms' = [vms EXCEPT ![record[m].vm] = [host |-> To(m), status |-> "stopped"]]
            /\ End(m) /\ record' = [record EXCEPT ![m].status = "completed"]
            /\ UNCHANGED recorded
    /\ MoveKeeps /\ UNCHANGED disks

Callee(m) == IF task[m] \in {"stop", "snapshot"} THEN From(m) ELSE To(m)

\* The call to the agent breaks, and `?` leaves the record as it is; so does a
\* write of 'failed' that fails itself, and the end of the control plane.
CallLost(m) ==
    /\ task[m] \notin {"none", "record"}
    /\ \/ Callee(m) \notin up /\ faults' = faults
       \/ Callee(m) \in up /\ faults < MaxFaults /\ faults' = faults + 1
    /\ End(m)
    /\ UNCHANGED <<hosts, up, vms, disks, record, recorded, drain, orders, moves, changes, refusals>>

-----------------------------------------------------------------------------
\* drain_tick: the draining hosts are read once.
DrainTick ==
    /\ drain = NoDrain
    /\ LET draining == {h \in Hosts : hosts[h].status = "draining"}
       IN  draining # {} /\ drain' = [NoDrain EXCEPT !.todo = draining]
    /\ UNCHANGED <<hosts, up, vms, disks, moving, counters>>

\* Mutant: stopped VMs count as well.
ToMoveAll(h) == On(h)

ToMove(h) == {v \in On(h) : vms[v].status # "stopped"}

\* The next host of the list: its VMs are read; with none to move it goes offline.
DrainHost == \E h \in drain.todo :
    /\ drain.host = None
    /\ IF ToMove(h) = {}
       THEN /\ hosts' = [hosts EXCEPT ![h].status = "offline"]
            /\ drain' = [drain EXCEPT !.todo = @ \ {h}]
       ELSE /\ drain' = [todo |-> drain.todo \ {h}, host |-> h, vms |-> ToMove(h)]
            /\ UNCHANGED hosts
    /\ UNCHANGED <<up, vms, disks, moving, counters>>

\* drain with the VM done with; after the last one the host is.
Without(v) == [drain EXCEPT !.vms = @ \ {v},
                            !.host = IF drain.vms = {v} THEN None ELSE @]

\* The next VM of the host: migrate_vm to the host that is picked ...
DrainMove == \E v \in drain.vms, t \in Picks \ {drain.host} :
    /\ task[Watcher] = "none" /\ Begins(Watcher, v, t)
    /\ drain' = Without(v)
    /\ UNCHANGED <<hosts, up, vms, disks, counters>>

\* ... or it is skipped: it is gone, no host is eligible, or only the host itself.
DrainSkip == \E v \in drain.vms :
    /\ task[Watcher] = "none"
    /\ \/ vms[v] = None \/ Picks = {} \/ drain.host \in Picks
       \/ vms[v] # None /\ vms[v].host \in Picks
    /\ drain' = Without(v)
    /\ UNCHANGED <<hosts, up, vms, disks, moving, counters>>

Work(m) == RecordMove(m) \/ StopOnSource(m) \/ StopRefused(m)
             \/ SnapshotRefused(m) \/ SnapshotTaken(m)
             \/ Fetch(m) \/ FetchFails(m) \/ InsertRow(m)

WatcherStep == task[Watcher] = "none" /\ (DrainTick \/ DrainHost \/ DrainMove \/ DrainSkip)

Next ==
    \/ \E h \in Hosts : SetHostStatus(h) \/ AgentDown(h) \/ FallsSilent(h)
                          \/ Register(h) \/ Heartbeat(h)
    \/ \E v \in VMs : Change(v) \/ DeleteVm(v)
    \/ \E m \in Admins : AdminMigrate(m)
    \/ \E m \in Movers : Work(m) \/ CallLost(m)
    \/ WatcherStep

\* Agents send heartbeats and are restarted by systemd, calls return, and the
\* drain watcher's interval ticks.
Fairness ==
    /\ \A h \in Hosts : WF_vars(Register(h)) /\ WF_vars(Heartbeat(h)) /\ WF_vars(FallsSilent(h))
    /\ \A m \in Movers : WF_vars(Work(m)) /\ WF_vars(CallLost(m) /\ Callee(m) \notin up)
    /\ WF_vars(WatcherStep)

Spec == Init /\ [][Next]_vars /\ Fairness

-----------------------------------------------------------------------------
TypeOK ==
    /\ hosts \in [Hosts -> Host] /\ up \subseteq Hosts
    /\ vms \in [VMs -> Vm \cup {None}] /\ disks \subseteq Hosts \X VMs
    /\ record \in [Movers -> Record \cup {None}] /\ recorded \subseteq VMs
    /\ task \in [Movers -> Task]
    /\ drain \in Drain
    /\ orders \in 0..MaxOrders /\ moves \in 0..MaxMoves
    /\ changes \in 0..MaxChanges /\ refusals \in 0..MaxRefusals /\ faults \in 0..MaxFaults

\* A VM that a user deletes while migrations of it begin or are under way is not
\* made again by one of them on its target (migration.rs:32-121, clone.rs:158-182,
\* and the foreign key of vm_migrations).
DeletedForGood == [][\A v \in VMs : vms[v] = None => vms'[v] = None]_vars

\* A migration that ended says so in its record, unless a call broke or the record
\* could not be written: every early return with an answer of an agent (stop,
\* snapshot, the target's) writes 'failed' (migration.rs:74-121).
RecordsSettled == faults = 0 =>
    \A m \in Movers : (task[m] = "none" /\ record[m] # None) => record[m].status # "pending"

\* What keeps a host draining for good: a VM that is in error, which
\* migrate_vm does not stop, or nowhere to go.
Held(h) ==
    \/ \E v \in On(h) : vms[v].status = "error"
    \/ Picks \ {h} = {} /\ ToMove(h) # {}

\* A host that an operator drains does not stay draining, however its VMs are
\* started and stopped, agents restart and calls break meanwhile, unless it is
\* held (migration.rs:156-213).
DrainEnds == \A h \in Hosts : []<>(hosts[h].status # "draining" \/ Held(h))
=============================================================================
