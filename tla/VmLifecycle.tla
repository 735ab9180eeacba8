---------------------------- MODULE VmLifecycle ----------------------------
(***************************************************************************)
(* The life of one VM: the control plane's handlers, the host agent's      *)
(* handlers, the agent's reconcile, health and heartbeat loops, and the    *)
(* control plane's event watcher all write the same vms row, each from     *)
(* what it read some awaits ago.                                           *)
(*                                                                         *)
(* A step is what happens between two awaits on shared state: one SQL      *)
(* statement, one change of the agent's `running` map, one change of a TAP *)
(* device or of a process, one Caddy call.                                 *)
(***************************************************************************)
EXTENDS Naturals, Sequences, FiniteSets

CONSTANTS
    Threads,    \* requests being served at the same time for this VM
    Procs,      \* firecracker processes that may be spawned for this VM
    None,       \* SQL NULL, an absent map entry, an unheld lock
    Zero,       \* the pid 0 a start records when it cannot read the pid file
    MaxOps,     \* bound: client requests in a behaviour
    MaxFaults,  \* bound: crashes, lost connections and failed boots
    EventCap,   \* bound: capacity of the agent's event channel (256)
    Loops       \* bound: the periodic loops that run in this instance

ASSUME ConstantsAssumption ==
    /\ None \notin Procs \cup Threads
    /\ Zero \notin Procs \cup {None}
    /\ MaxOps \in Nat /\ MaxFaults \in Nat
    /\ EventCap \in Nat \ {0}
    /\ Loops \subseteq {"heartbeat", "health", "reconcile"}

VARIABLES
    row,        \* the vms row: status, pid, tap_device set or not
    route,      \* what Caddy serves for the VM's subdomain
    up,         \* the agent: down, booting (first reconcile), serving
    procs,      \* live processes in the VM's cgroup
    spawned,    \* processes that were ever spawned
    tap,        \* the TAP device of the VM's slot: absent, free, or its user
    handle,     \* the VM's entry in VmManager.running
    lock,       \* the request that holds VmManager.running across an await
    monitored,  \* the VM is in monitored_vm_ids
    conn,       \* the watcher's event stream is connected
    events,     \* events sent and not yet received by the watcher
    th,         \* per request: where it stands and what it holds
    watch,      \* the watcher's iteration
    hb,         \* the heartbeat under way
    cache,      \* this VM is in running_cache, the last heartbeat's set
    health,     \* the health check under way
    rec,        \* the reconciliation under way
    ops, faults \* counters that bound the model

vars == <<row, route, up, procs, spawned, tap, handle, lock, monitored, conn,
          events, th, watch, hb, cache, health, rec, ops, faults>>

\* Groups of variables for UNCHANGED.
dbVars     == <<row, route>>
hostVars   == <<procs, spawned, tap>>
agentVars  == <<up, handle, lock, monitored>>
streamVars == <<conn, events>>
loopVars   == <<watch, hb, cache, health, rec>>
bounds     == <<ops, faults>>

(***************************************************************************)
(* Values                                                                  *)
(***************************************************************************)
RowStatus == {"stopped", "starting", "running", "stopping", "error"}
Deleted   == "deleted"            \* the row does not exist any more
NoTap     == "absent"
FreeTap   == "free"
EventKind == {"started", "stopped", "crashed"}

\* Program points inside a control-plane handler, outside the agent.
CpPoints == {"start_call", "start_refused", "del_check", "del_route"}

\* Program points inside an agent handler.
AgentPoints == {"start_read", "start_tap", "start_spawn", "start_record",
                "start_insert", "start_failed", "restore_read",
                "restore_mark", "stop_read", "stop_mark", "stop_take",
                "stop_shutdown", "stop_release", "stop_record", "snap_read",
                "snap_take", "snap_put", "del_read", "del_rows"}

Points == {"idle"} \cup CpPoints \cup AgentPoints

Row    == [status : RowStatus \cup {Deleted},
           pid : Procs \cup {None, Zero}, tap : BOOLEAN]
Thread == [pc : Points, op : {"none", "start", "restore", "stop", "snapshot",
                              "delete"},
           pid : Procs \cup {None, Zero}, fc : Procs \cup {None}]
Idle   == [pc |-> "idle", op |-> "none", pid |-> None, fc |-> None]

WatchIdle  == [pc |-> "idle", ev |-> "started"]
HbIdle     == [pc |-> "idle", running |-> FALSE, to |-> "running"]
HealthIdle == [pc |-> "idle", pid |-> None]
NoRow      == [status |-> Deleted, pid |-> None, tap |-> FALSE]
RecIdle    == [pc |-> "idle", row |-> NoRow]

\* One part of the type invariant per group of variables.
DbTypes ==
    /\ row \in Row
    /\ route \in {"vm", "stopped", "none"}

HostTypes ==
    /\ procs \subseteq Procs /\ spawned \subseteq Procs
    /\ tap \in {NoTap, FreeTap} \cup Procs

AgentTypes ==
    /\ up \in {"down", "booting", "serving"}
    /\ handle \in Procs \cup {None}
    /\ lock \in Threads \cup {None}
    /\ monitored \in BOOLEAN

StreamTypes == conn \in BOOLEAN /\ events \in Seq(EventKind)

RequestTypes == th \in [Threads -> Thread]

LoopTypes ==
    /\ watch \in [pc : {"idle", "status", "route"}, ev : EventKind]
    /\ hb \in [pc : {"idle", "sent", "status", "route"}, running : BOOLEAN,
               to : {"running", "error"}]
    /\ cache \in BOOLEAN
    /\ health \in [pc : {"idle", "check"}, pid : Procs \cup {None, Zero}]
    /\ rec \in [pc : {"idle", "status", "taps"}, row : Row]

BoundTypes == ops \in 0..MaxOps /\ faults \in 0..MaxFaults

TypeOK ==
    /\ DbTypes /\ HostTypes /\ AgentTypes /\ StreamTypes /\ RequestTypes
    /\ LoopTypes /\ BoundTypes

\* The VM is stopped, or has been running since before the behaviour starts.
InitStopped ==
    /\ row = [status |-> "stopped", pid |-> None, tap |-> FALSE]
    /\ route = "stopped"
    /\ procs = {} /\ spawned = {} /\ tap = NoTap
    /\ handle = None /\ monitored = FALSE /\ cache = FALSE

InitRunning(p) ==
    /\ row = [status |-> "running", pid |-> p, tap |-> TRUE]
    /\ route = "vm"
    /\ procs = {p} /\ spawned = {p} /\ tap = p
    /\ handle = p /\ monitored = TRUE /\ cache = TRUE

Init ==
    /\ InitStopped \/ \E p \in Procs : InitRunning(p)
    /\ up = "serving" /\ lock = None
    /\ conn = TRUE /\ events = <<>>
    /\ th = [t \in Threads |-> Idle]
    /\ watch = WatchIdle /\ hb = HbIdle
    /\ health = HealthIdle /\ rec = RecIdle
    /\ ops = 0 /\ faults = 0

(***************************************************************************)
(* SQL statements on the row: an UPDATE of a deleted row changes nothing.  *)
(***************************************************************************)
Update(newRow) == row' = IF row.status = Deleted THEN row ELSE newRow

SetVmStatus(s)  == Update([row EXCEPT !.status = s])
SetVmRunning(p) == Update([status |-> "running", pid |-> p, tap |-> TRUE])
SetVmPid(p)     == Update([row EXCEPT !.pid = p])
SetVmStopped    == Update([status |-> "stopped", pid |-> None, tap |-> FALSE])
DeleteRow       == row' = NoRow

(***************************************************************************)
(* Helpers                                                                 *)
(***************************************************************************)
At(t, point) == th[t].pc = point

Goto(t, point) == th' = [th EXCEPT ![t].pc = point]

Return(t) == th' = [th EXCEPT ![t] = Idle]

\* A broadcast send reaches the stream only while the watcher is subscribed;
\* a full channel loses its oldest event.
Emit(e) ==
    /\ events' = IF ~conn THEN events
                 ELSE IF Len(events) < EventCap THEN Append(events, e)
                 ELSE Append(Tail(events), e)
    /\ UNCHANGED conn

\* The process dies; the TAP device stays, without a user.
Kill(p) ==
    /\ procs' = procs \ {p}
    /\ tap' = IF tap = p THEN FreeTap ELSE tap
    /\ UNCHANGED spawned

Fault == faults < MaxFaults /\ faults' = faults + 1 /\ UNCHANGED ops

\* The agent's memory is gone: requests inside it, handles, the stream. The
\* control plane may or may not finish the heartbeat it is handling.
AgentDies ==
    /\ up' = "down" /\ handle' = None /\ lock' = None /\ monitored' = FALSE
    /\ conn' = FALSE /\ events' = <<>>
    /\ th' = [t \in Threads |-> IF th[t].pc \in AgentPoints THEN Idle
                              ELSE th[t]]
    /\ hb' \in {hb, HbIdle}
    /\ health' = HealthIdle /\ rec' = RecIdle

\* A client request is accepted by a thread that serves none.
Request(t, o, point) ==
    /\ At(t, "idle") /\ ops < MaxOps
    /\ ops' = ops + 1
    /\ th' = [th EXCEPT ![t] = [Idle EXCEPT !.pc = point, !.op = o]]
    /\ UNCHANGED <<route, hostVars, agentVars, streamVars, loopVars, faults>>

\* What a step of a request leaves alone unless it says otherwise.
RequestOnly == UNCHANGED <<route, loopVars, bounds>>

(***************************************************************************)
(* start_vm                                                                *)
(***************************************************************************)

\* ControlPlaneOps::start_vm: the quota transaction sets 'starting' whatever
\* the status was. (Quota.tla models the transaction and its refusals.)
StartRequest(t) ==
    /\ row.status # Deleted
    /\ Request(t, "start", "start_call")
    /\ SetVmStatus("starting")

\* agent_client and the RPC: an unreachable agent takes the row to 'stopped'.
StartCall(t) ==
    /\ At(t, "start_call")
    /\ \/ up = "serving" /\ Goto(t, "start_read") /\ UNCHANGED row
       \/ up # "serving" /\ Return(t) /\ SetVmStatus("stopped")
    /\ UNCHANGED <<hostVars, agentVars, streamVars>> /\ RequestOnly

\* VmManager::start_vm refuses only a row that reads 'running'.
StartRead(t) ==
    /\ At(t, "start_read")
    /\ Goto(t, IF row.status \in {"running", Deleted} THEN "start_refused"
               ELSE "start_tap")
    /\ UNCHANGED <<row, hostVars, agentVars, streamVars>> /\ RequestOnly

\* allocate_tap deletes a device of the same name, in use or not.
StartTap(t) ==
    /\ At(t, "start_tap")
    /\ tap' = FreeTap
    /\ Goto(t, "start_spawn")
    /\ UNCHANGED <<row, procs, spawned, agentVars, streamVars>> /\ RequestOnly

\* Vm::prepare and Vm::start. A boot needs the free TAP device; it may fail,
\* and a boot that times out may leave its daemonized process behind.
StartSpawn(t) ==
    /\ At(t, "start_spawn")
    /\ \/ /\ tap = FreeTap
          /\ \E p \in Procs \ spawned :
               /\ procs' = procs \cup {p} /\ spawned' = spawned \cup {p}
               /\ tap' = p
               /\ \/ /\ th' = [th EXCEPT ![t].pc = "start_record",
                                         ![t].fc = p]
                     /\ UNCHANGED bounds
                  \/ Goto(t, "start_failed") /\ Fault
       \/ /\ tap # FreeTap
          /\ Goto(t, "start_failed")
          /\ UNCHANGED <<hostVars, bounds>>
       \/ /\ Goto(t, "start_failed") /\ Fault
          /\ UNCHANGED hostVars
    /\ UNCHANGED <<row, route, agentVars, streamVars, loopVars>>

\* set_vm_running and log_event. The event row's foreign key fails when the
\* VM was deleted meanwhile, and the handle is dropped with the process alive.
StartRecord(t) ==
    /\ At(t, "start_record")
    /\ \/ SetVmRunning(th[t].fc) /\ UNCHANGED bounds
       \/ SetVmRunning(Zero) /\ Fault
    /\ th' = IF row.status = Deleted
             THEN [th EXCEPT ![t].pc = "start_failed", ![t].fc = None]
             ELSE [th EXCEPT ![t].pc = "start_insert"]
    /\ UNCHANGED <<route, hostVars, agentVars, streamVars, loopVars>>

\* The handle enters the map; start_vm, not restore, also monitors the VM.
StartInsert(t) ==
    /\ At(t, "start_insert") /\ lock = None
    /\ handle' = th[t].fc
    /\ monitored' = (monitored \/ th[t].op = "start")
    /\ Emit("started")
    /\ Return(t)
    /\ UNCHANGED <<row, up, lock, hostVars>> /\ RequestOnly

\* The error path of the agent's start_vm and restore_snapshot.
StartFailed(t) ==
    /\ At(t, "start_failed")
    /\ SetVmStatus("error")
    /\ IF th[t].op = "start" THEN Goto(t, "start_refused") ELSE Return(t)
    /\ UNCHANGED <<hostVars, agentVars, streamVars>> /\ RequestOnly

\* A refused RPC: the control plane overwrites the status with 'stopped'.
StartRefused(t) ==
    /\ At(t, "start_refused")
    /\ SetVmStatus("stopped")
    /\ Return(t)
    /\ UNCHANGED <<hostVars, agentVars, streamVars>> /\ RequestOnly

(***************************************************************************)
(* restore_snapshot                                                        *)
(***************************************************************************)
RestoreRequest(t) ==
    /\ up = "serving"
    /\ Request(t, "restore", "restore_read")
    /\ UNCHANGED row

\* Refused unless stopped, and when there is no such snapshot.
RestoreRead(t) ==
    /\ At(t, "restore_read")
    /\ \/ row.status = "stopped" /\ Goto(t, "restore_mark")
       \/ Return(t)
    /\ UNCHANGED <<row, hostVars, agentVars, streamVars>> /\ RequestOnly

RestoreMark(t) ==
    /\ At(t, "restore_mark")
    /\ SetVmStatus("starting")
    /\ Goto(t, "start_tap")
    /\ UNCHANGED <<hostVars, agentVars, streamVars>> /\ RequestOnly

(***************************************************************************)
(* stop_vm                                                                 *)
(***************************************************************************)
StopRequest(t) ==
    /\ up = "serving"
    /\ Request(t, "stop", "stop_read")
    /\ UNCHANGED row

StopRead(t) ==
    /\ At(t, "stop_read")
    /\ IF row.status \in {"stopped", Deleted} THEN Return(t)
       ELSE th' = [th EXCEPT ![t].pc = "stop_mark", ![t].pid = row.pid]
    /\ UNCHANGED <<row, hostVars, agentVars, streamVars>> /\ RequestOnly

StopMark(t) ==
    /\ At(t, "stop_mark")
    /\ SetVmStatus("stopping")
    /\ Goto(t, "stop_take")
    /\ UNCHANGED <<hostVars, agentVars, streamVars>> /\ RequestOnly

\* With a handle, the request keeps the map locked while the VM shuts down.
StopTake(t) ==
    /\ At(t, "stop_take") /\ lock = None /\ handle # None
    /\ th' = [th EXCEPT ![t].pc = "stop_shutdown", ![t].fc = handle]
    /\ handle' = None /\ lock' = t
    /\ UNCHANGED <<row, up, monitored, hostVars, streamVars>> /\ RequestOnly

\* Without one, the pid read at the start is killed, unless it is 0 or NULL.
StopKill(t) ==
    /\ At(t, "stop_take") /\ lock = None /\ handle = None
    /\ th[t].pid # Zero
    /\ Kill(th[t].pid)
    /\ Goto(t, "stop_release")
    /\ UNCHANGED <<row, agentVars, streamVars>> /\ RequestOnly

\* kill(0, SIGKILL) reaches every process of the agent's own group.
StopKillZero(t) ==
    /\ At(t, "stop_take") /\ lock = None /\ handle = None
    /\ th[t].pid = Zero
    /\ AgentDies
    /\ UNCHANGED <<row, route, hostVars, watch, cache, bounds>>

\* Mutant: a shutdown gives its handle back.
StopShutdownKeepsHandle(t) ==
    /\ At(t, "stop_shutdown")
    /\ Kill(th[t].fc)
    /\ lock' = None /\ handle' = th[t].fc
    /\ th' = [th EXCEPT ![t].pc = "stop_release", ![t].fc = None]
    /\ UNCHANGED <<row, up, monitored, streamVars>> /\ RequestOnly

\* Graceful shutdown, then kill, then the overlay is persisted and the jail
\* removed; the lock is dropped.
StopShutdown(t) ==
    /\ At(t, "stop_shutdown")
    /\ Kill(th[t].fc)
    /\ lock' = None
    /\ th' = [th EXCEPT ![t].pc = "stop_release", ![t].fc = None]
    /\ UNCHANGED <<row, up, handle, monitored, streamVars>> /\ RequestOnly

StopRelease(t) ==
    /\ At(t, "stop_release")
    /\ monitored' = FALSE /\ tap' = NoTap
    /\ Goto(t, "stop_record")
    /\ UNCHANGED <<row, procs, spawned, up, handle, lock, streamVars>>
    /\ RequestOnly

\* set_vm_stopped, log_event (which fails on a deleted row), Stopped event.
StopRecord(t) ==
    /\ At(t, "stop_record")
    /\ SetVmStopped
    /\ IF row.status = Deleted THEN UNCHANGED streamVars ELSE Emit("stopped")
    /\ Return(t)
    /\ UNCHANGED <<hostVars, agentVars>> /\ RequestOnly

(***************************************************************************)
(* take_snapshot: the handle leaves the map while the guest is paused.     *)
(***************************************************************************)
SnapRequest(t) ==
    /\ up = "serving"
    /\ Request(t, "snapshot", "snap_read")
    /\ UNCHANGED row

\* Refused unless running, and when the VM has its two snapshots already.
SnapRead(t) ==
    /\ At(t, "snap_read")
    /\ \/ row.status = "running" /\ Goto(t, "snap_take")
       \/ Return(t)
    /\ UNCHANGED <<row, hostVars, agentVars, streamVars>> /\ RequestOnly

\* Mutant: the handle is used without being taken out of the map.
SnapTakeShares(t) ==
    /\ At(t, "snap_take") /\ lock = None
    /\ IF handle # None
       THEN th' = [th EXCEPT ![t].pc = "snap_put", ![t].fc = handle]
       ELSE Return(t)
    /\ UNCHANGED <<row, agentVars, hostVars, streamVars>> /\ RequestOnly

\* Without a handle the API socket is used and nothing here changes.
SnapTake(t) ==
    /\ At(t, "snap_take") /\ lock = None
    /\ IF handle # None
       THEN th' = [th EXCEPT ![t].pc = "snap_put", ![t].fc = handle]
       ELSE Return(t)
    /\ handle' = None
    /\ UNCHANGED <<row, up, lock, monitored, hostVars, streamVars>>
    /\ RequestOnly

SnapPut(t) ==
    /\ At(t, "snap_put") /\ lock = None
    /\ handle' = th[t].fc
    /\ Return(t)
    /\ UNCHANGED <<row, up, lock, monitored, hostVars, streamVars>>
    /\ RequestOnly

(***************************************************************************)
(* delete_vm                                                               *)
(***************************************************************************)
DeleteRequest(t) ==
    /\ row.status # Deleted
    /\ Request(t, "delete", "del_check")
    /\ UNCHANGED row

\* ControlPlaneOps::delete_vm checks the status, then calls the agent.
DeleteCheck(t) ==
    /\ At(t, "del_check")
    /\ IF row.status = "stopped" /\ up = "serving" THEN Goto(t, "del_read")
       ELSE Return(t)
    /\ UNCHANGED <<row, hostVars, agentVars, streamVars>> /\ RequestOnly

\* VmManager::delete_vm checks it again, and removes the snapshot files.
DeleteRead(t) ==
    /\ At(t, "del_read")
    /\ IF row.status = "stopped" THEN Goto(t, "del_rows") ELSE Return(t)
    /\ UNCHANGED <<row, hostVars, agentVars, streamVars>> /\ RequestOnly

DeleteRows(t) ==
    /\ At(t, "del_rows")
    /\ DeleteRow
    /\ monitored' = FALSE
    /\ Goto(t, "del_route")
    /\ UNCHANGED <<up, handle, lock, hostVars, streamVars>> /\ RequestOnly

DeleteRoute(t) ==
    /\ At(t, "del_route")
    /\ route' = "none"
    /\ Return(t)
    /\ UNCHANGED <<row, hostVars, agentVars, streamVars, loopVars, bounds>>

RequestStep(t) ==
    \/ StartCall(t) \/ StartRead(t) \/ StartTap(t) \/ StartSpawn(t)
    \/ StartRecord(t) \/ StartInsert(t) \/ StartFailed(t) \/ StartRefused(t)
    \/ RestoreRead(t) \/ RestoreMark(t)
    \/ StopRead(t) \/ StopMark(t) \/ StopTake(t) \/ StopKill(t)
    \/ StopKillZero(t) \/ StopShutdown(t) \/ StopRelease(t) \/ StopRecord(t)
    \/ SnapRead(t) \/ SnapTake(t) \/ SnapPut(t)
    \/ DeleteCheck(t) \/ DeleteRead(t) \/ DeleteRows(t) \/ DeleteRoute(t)

ClientRequest(t) ==
    \/ StartRequest(t) \/ RestoreRequest(t) \/ StopRequest(t)
    \/ SnapRequest(t) \/ DeleteRequest(t)

(***************************************************************************)
(* The control plane's event watcher                                       *)
(***************************************************************************)
watchOnly == <<hostVars, agentVars, th, hb, cache, health, rec, bounds>>

\* Every event logs; a VM that is gone is left alone.
WatchNext ==
    /\ watch.pc = "idle" /\ events # <<>>
    /\ events' = Tail(events)
    /\ watch' = [pc |-> IF row.status = Deleted THEN "idle" ELSE "status",
                 ev |-> Head(events)]
    /\ UNCHANGED <<row, route, conn, watchOnly>>

\* Mutant: the event's own name is stored.
EventStatusVerbatim(ev) == ev

EventStatus(ev) == CASE ev = "started" -> "running"
                     [] ev = "stopped" -> "stopped"
                     [] ev = "crashed" -> "error"

WatchStatus ==
    /\ watch.pc = "status"
    /\ SetVmStatus(EventStatus(watch.ev))
    /\ watch' = [watch EXCEPT !.pc = "route"]
    /\ UNCHANGED <<route, streamVars, watchOnly>>

WatchRoute ==
    /\ watch.pc = "route"
    /\ route' = IF watch.ev = "started" THEN "vm" ELSE "stopped"
    /\ watch' = WatchIdle
    /\ UNCHANGED <<row, streamVars, watchOnly>>

(***************************************************************************)
(* The agent's heartbeat and the control plane's handler                   *)
(***************************************************************************)
hbOnly == <<hostVars, agentVars, streamVars, th, watch, health, rec>>

\* The running set is what the database says, not what runs.
HbSample ==
    /\ "heartbeat" \in Loops /\ up = "serving" /\ hb.pc = "idle"
    /\ hb' = [HbIdle EXCEPT !.pc = "sent",
                            !.running = (row.status = "running")]
    /\ UNCHANGED <<dbVars, cache, bounds, hbOnly>>

\* reconcile_from_heartbeat on this VM's row as it reads now.
HbDecide(running) ==
    CASE row.status = "running" /\ ~running ->
           [pc |-> "status", running |-> running, to |-> "error"]
      [] row.status = "running" /\ running ->
           [pc |-> "route", running |-> running, to |-> "running"]
      [] row.status \in {"stopped", "error"} /\ running ->
           [pc |-> "status", running |-> running, to |-> "running"]
      [] OTHER -> HbIdle

\* Only a change of the host's set goes further; another VM of the host may
\* change it too (bounded), and the rows may fail to load with the cache set.
HbReceive ==
    /\ hb.pc = "sent"
    /\ cache' = hb.running
    /\ \/ hb.running # cache /\ hb' = HbDecide(hb.running) /\ UNCHANGED bounds
       \/ hb.running = cache /\ hb' = HbIdle /\ UNCHANGED bounds
       \/ hb.running = cache /\ hb' = HbDecide(hb.running) /\ Fault
       \/ hb.running # cache /\ hb' = HbIdle /\ Fault
    /\ UNCHANGED <<dbVars, hbOnly>>

HbStatus ==
    /\ hb.pc = "status"
    /\ SetVmStatus(hb.to)
    /\ hb' = [hb EXCEPT !.pc = "route"]
    /\ UNCHANGED <<route, cache, bounds, hbOnly>>

HbRoute ==
    /\ hb.pc = "route"
    /\ route' = IF hb.to = "running" THEN "vm" ELSE "stopped"
    /\ hb' = HbIdle
    /\ UNCHANGED <<row, cache, bounds, hbOnly>>

(***************************************************************************)
(* The agent's health check                                                *)
(***************************************************************************)
healthOnly == <<hostVars, agentVars, th, watch, hb, cache, rec, bounds>>

HealthRead ==
    /\ "health" \in Loops /\ up = "serving" /\ health.pc = "idle"
    /\ row.status = "running" /\ row.pid # None
    /\ health' = [pc |-> "check", pid |-> row.pid]
    /\ UNCHANGED <<dbVars, streamVars, healthOnly>>

HealthCheck ==
    /\ health.pc = "check"
    /\ health' = HealthIdle
    /\ IF health.pid \in procs THEN UNCHANGED <<row, streamVars>>
       ELSE SetVmStatus("error") /\ Emit("crashed")
    /\ UNCHANGED <<route, healthOnly>>

(***************************************************************************)
(* The agent's reconciliation                                              *)
(***************************************************************************)
recOnly == <<th, watch, hb, cache, health, bounds>>

\* Also what the agent does first when it boots.
RecRead ==
    /\ up = "booting" \/ (up = "serving" /\ "reconcile" \in Loops)
    /\ rec.pc = "idle"
    /\ rec' = [pc |-> "status", row |-> row]
    /\ UNCHANGED <<dbVars, hostVars, agentVars, streamVars, recOnly>>

\* Decisions are taken on the row read before; /proc and the cgroup are read
\* now, and the row is overwritten whatever it has become.
Alive == rec.row.pid \in procs

\* Mutant: a VM left 'starting' by a crash is not looked at.
RecStuckStoppingOnly ==
    /\ rec.row.status \in {"starting", "stopping"}
    /\ IF rec.row.status = "starting" THEN UNCHANGED row
       ELSE SetVmStatus(IF Alive THEN "running" ELSE "error")
    /\ UNCHANGED streamVars

RecStuck ==
    /\ rec.row.status \in {"starting", "stopping"}
    /\ SetVmStatus(IF Alive THEN "running" ELSE "error")
    /\ UNCHANGED streamVars

RecRunning ==
    /\ rec.row.status = "running" /\ ~Alive
    /\ IF rec.row.pid = None /\ procs # {}
       THEN \E p \in procs : SetVmPid(p)
       ELSE SetVmStatus("error")
    /\ UNCHANGED streamVars

\* Mutant: a live process of a stopped VM is not recovered.
RecStoppedIgnored ==
    /\ rec.row.status \in {"stopped", "error"} /\ procs # {}
    /\ UNCHANGED <<row, streamVars>>

RecStopped ==
    /\ rec.row.status \in {"stopped", "error"} /\ procs # {}
    /\ \E p \in procs : SetVmPid(p)
    /\ Emit("started")

RecConsistent ==
    /\ \/ rec.row.status = Deleted
       \/ rec.row.status = "running" /\ Alive
       \/ rec.row.status \in {"stopped", "error"} /\ procs = {}
    /\ UNCHANGED <<row, streamVars>>

\* Mutant: monitored_vm_ids is not rebuilt.
RecMonitorKept == UNCHANGED monitored

RecMonitor == monitored' = (rec.row.status = "running" /\ Alive)

RecStatus ==
    /\ rec.pc = "status"
    /\ RecStuck \/ RecRunning \/ RecStopped \/ RecConsistent
    /\ RecMonitor
    /\ rec' = [rec EXCEPT !.pc = "taps"]
    /\ UNCHANGED <<route, hostVars, up, handle, lock, recOnly>>

\* A device no row recorded at the read is removed, in use or not.
RecTaps ==
    /\ rec.pc = "taps"
    /\ tap' = IF rec.row.tap THEN tap ELSE NoTap
    /\ up' = "serving"
    /\ rec' = RecIdle
    /\ UNCHANGED <<dbVars, procs, spawned, handle, lock, monitored, streamVars,
                   recOnly>>

(***************************************************************************)
(* Crashes, restarts and lost connections                                  *)
(***************************************************************************)
ProcCrash(p) ==
    /\ p \in procs
    /\ Kill(p) /\ Fault
    /\ UNCHANGED <<dbVars, agentVars, streamVars, th, loopVars>>

AgentCrash ==
    /\ up # "down"
    /\ AgentDies /\ Fault
    /\ UNCHANGED <<dbVars, hostVars, watch, cache>>

\* systemd restarts the agent; it reconciles before it serves.
AgentRestart ==
    /\ up = "down"
    /\ up' = "booting"
    /\ UNCHANGED <<dbVars, hostVars, handle, lock, monitored, streamVars, th,
                   loopVars, bounds>>

StreamDrop ==
    /\ conn /\ Fault
    /\ conn' = FALSE /\ events' = <<>>
    /\ UNCHANGED <<dbVars, hostVars, agentVars, th, loopVars>>

\* The watcher reconnects only between two events.
StreamConnect ==
    /\ ~conn /\ up = "serving" /\ watch.pc = "idle"
    /\ conn' = TRUE
    /\ UNCHANGED <<dbVars, hostVars, agentVars, events, th, loopVars, bounds>>

\* The connection between control plane and agent breaks under a call, or the
\* client of a snapshot or a delete hangs up (start, stop and restore are
\* spawned and outlive their client): the handlers are dropped at their await,
\* with the lock and the handle they hold, and nothing is put right.
CallLost(t) ==
    /\ \/ th[t].pc \in AgentPoints
       \/ th[t].pc \in CpPoints /\ th[t].op = "delete"
    /\ Return(t) /\ Fault
    /\ lock' = IF lock = t THEN None ELSE lock
    /\ UNCHANGED <<dbVars, hostVars, up, handle, monitored, streamVars,
                   loopVars>>

\* The control plane restarts: its calls and its memory are gone and the
\* routes are rebuilt from the rows.
CpRestart ==
    /\ Fault
    /\ th' = [t \in Threads |-> Idle] /\ lock' = None
    /\ conn' = FALSE /\ events' = <<>>
    /\ watch' = WatchIdle /\ hb' = HbIdle /\ cache' = FALSE
    /\ route' = CASE row.status = "running" -> "vm"
                  [] row.status = Deleted   -> "none"
                  [] OTHER                  -> "stopped"
    /\ UNCHANGED <<row, hostVars, up, handle, monitored, health, rec>>

Environment ==
    \/ \E p \in Procs : ProcCrash(p)
    \/ AgentCrash \/ StreamDrop \/ CpRestart
    \/ \E t \in Threads : CallLost(t)

Watcher        == WatchNext \/ WatchStatus \/ WatchRoute
Heartbeat      == HbSample \/ HbReceive \/ HbStatus \/ HbRoute
HealthChecks   == HealthRead \/ HealthCheck
Reconciliation == RecRead \/ RecStatus \/ RecTaps

Next ==
    \/ \E t \in Threads : ClientRequest(t) \/ RequestStep(t)
    \/ Watcher \/ Heartbeat \/ HealthChecks \/ Reconciliation
    \/ AgentRestart \/ StreamConnect
    \/ Environment

\* Tasks run and loops wake up; clients and faults promise nothing.
Fairness ==
    /\ \A t \in Threads : WF_vars(RequestStep(t))
    /\ WF_vars(Watcher) /\ WF_vars(Heartbeat) /\ WF_vars(HealthChecks)
    /\ WF_vars(Reconciliation) /\ WF_vars(AgentRestart)
    /\ WF_vars(StreamConnect)

Spec     == Init /\ [][Next]_vars
FairSpec == Spec /\ Fairness

(***************************************************************************)
(* Properties                                                              *)
(***************************************************************************)

\* A process has one driver: its handle is in the `running` map or in one
\* request, never in two places, and while a stop shuts a VM down under the
\* map's lock no start and no snapshot can put a handle for it into the map.
\* (manager/mod.rs: stop_vm keeps the guard across shutdown; snapshot.rs and
\* start_vm_inner take it to insert; a dropped handler releases it.)
HandleDiscipline ==
    /\ \A t \in Threads : th[t].fc # None => th[t].fc # handle
    /\ \A t, u \in Threads :
           t # u /\ th[t].fc # None => th[t].fc # th[u].fc
    /\ \A t \in Threads : lock = t <=> At(t, "stop_shutdown")
    /\ lock # None => handle = None

\* Where the driver of a process is, as VmDriver names it.
HeldAt(p, points) == \E t \in Threads : th[t].fc = p /\ th[t].pc \in points

Where ==
    [p \in Procs |->
        IF handle = p THEN "map"
        ELSE IF HeldAt(p, {"start_record", "start_insert"}) THEN "starting"
        ELSE IF HeldAt(p, {"snap_put"}) THEN "borrowed"
        ELSE IF HeldAt(p, {"stop_shutdown"}) THEN "stopping"
        ELSE IF p \in spawned THEN "dropped" ELSE "unborn"]

Driver == INSTANCE VmDriver WITH where <- Where

\* The agent keeps what VmDriver promises: no driver is duplicated, none comes
\* back once given up, none enters the map during a shutdown.
DriverSpec == Driver!Spec

\* The row tells the truth in the end: it is gone, or it reads 'running' with
\* the pid of a live process, or it reads 'stopped' or 'error' and nothing
\* runs. No interleaving of handlers, loops, late events and crashes leaves
\* the row wrong for ever, or stuck in 'starting' or 'stopping'.
Truthful ==
    \/ row.status = Deleted
    \/ row.status = "running" /\ row.pid \in procs
    \/ row.status \in {"stopped", "error"} /\ procs = {}

SelfHeals == <>[]Truthful

\* A VM that stays up is monitored in the end, also when it was restored
\* (restore does not monitor it) or the agent restarted (reconcile.rs 81-94).
MetricsFollow == <>[](row.status = "running" /\ procs # {} => monitored)
=============================================================================
