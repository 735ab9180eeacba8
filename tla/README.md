# Verification of spwn

spwn is a platform for small virtual machines. A **control plane** (Rust) serves
the API, schedules VMs and owns their routes; a **host agent** (Rust) on every
host runs the VMs as firecracker processes; both write the same **PostgreSQL**
database; **Caddy** serves each VM's subdomain. This directory models the parts
of it whose correctness depends on the order in which independent actors read
and write shared state, checks them with TLC, and proves the central invariants
with TLAPS for every value of the constants.

Paths below are relative to `src/crates/` unless they start with `src/`.

## 1. Inventory

### 1.1 Components, their state and their operations

| component | state | operations | correct when |
|---|---|---|---|
| host agent, VM lifecycle (`host-agent/src/manager/{mod,snapshot}.rs`) | `running`: a map from VM to the handle of its process, under one async mutex; `monitored_vm_ids`; firecracker processes, TAP devices and jails of the host | create, start, stop, delete, take / restore / delete snapshot, clone, migrate, resize | a process has one driver; the row ends up telling the truth about the process; a TAP device in use is left alone |
| agent loops (`reconcile.rs`, `health.rs`, heartbeat in `main.rs`) | what each iteration read | every 60 s / 30 s / 10 s: compare rows with `/proc` and cgroups, write statuses, send events, report the running set | every wrong row is found and put right |
| control plane, VM operations (`control-plane/src/ops.rs`, `api/src/lib.rs`) | none of its own between calls | the API's operations, each a sequence of SQL statements and one RPC | what is refused leaves the VM as it was; concurrent operations do not corrupt it |
| registration (`registration.rs`) | `running_cache`: last running set per host | `register`, `heartbeat` | statuses and routes follow what the host reports |
| event watcher (`events.rs`) | one stream per host, `watched` | apply started / stopped / crashed to the row and the route | no lost or late event leaves anything wrong for ever |
| quota (`db/src/lib.rs` 1290-1393) | `accounts` limits, `vms` rows | `check_quota_and_reserve` in a SERIALIZABLE transaction | concurrent starts never admit more than the limits |
| routing (`router-sync`, `caddy_router.rs`) | Caddy's list of routes | upsert, delete, rebuild | one route per subdomain, of the right kind |
| fleet and scheduler (`scheduler.rs`, `db` hosts) | `hosts` rows: status, usage, last heartbeat | pick a host, pick a slot, drain | a placed VM fits, a slot has one VM |
| migration (`migration.rs`, `manager/clone.rs`) | `vm_migrations`, files on two hosts | drain watcher, `migrate_vm` | a VM is on exactly one host, with its data |
| snapshots (`manager/snapshot.rs`) | `snapshots` rows, files, paused guests | take, restore, delete | limit kept, guest resumed, rows and files agree |
| authentication (`auth/src/*`) | sessions, CLI codes, challenges, pending tokens, passkeys, VM tokens | login flows, passkey management | each secret is used once and within its time |
| images (`admin.rs`, `agent.rs` build_image) | `images` rows, the image's file on the host that built it, containers and mounts of a build | build, delete | an image that is used is complete, a build ends and leaves nothing |
| metrics, console, Go clients, frontend, deployment | buffers and streams | | not state of the platform, except systemd's restart of the agent |

### 1.2 How they interact

The API spawns `start`, `stop` and `restore` as tasks of their own (a client
that hangs up does not cancel them) and awaits `snapshot` and `delete` in the
request. Each calls the VM's agent by gRPC; when the connection breaks, the
agent's handler is dropped at whatever `await` it stands at. The agent writes
the row itself, then sends an event on a broadcast channel of 256 entries; the
control plane's watcher reads the channel as a gRPC stream and writes row and
route again. The agent's heartbeat reports the rows that read `running`, not the
processes that run, and the control plane acts on it only when that set differs
from the one before. The agent's reconciliation reads all rows of its host at
its start and writes its conclusions one by one. Nothing locks a VM: every
handler and loop reads the row, does something slow and writes the row.

### 1.3 What is hard

* *Interleaving.* Five writers of one row: two handlers' halves, three loops.
* *Crash recovery.* Firecracker processes outlive the agent and its map; the
  agent recovers from pids and cgroups. `Restart=on-failure` restarts it.
* *Delivery.* Events are lost while the stream is down and when the watcher is
  slow, and are applied late.
* *Partial failure.* A broken RPC leaves `starting`; a boot that times out can
  leave its daemonized process; a pid that cannot be read is recorded as 0.
* *Limits.* Quotas, slots, snapshots per VM: most are checked and then used
  across an RPC; only the quota has a transaction.

`PROJECT.json` lists each hazard at its line, with the properties that cover it.

## 2. Modules

| module | what it is |
|---|---|
| `VmLifecycle` | one VM: every handler, loop and watcher that writes its row, its process, its TAP device, its route and the agent's maps; crashes, restarts, lost calls and lost events |
| `VmDriver` | abstract: the agent's promise about the drivers (handles) of a VM's processes |
| `VmLifecycle_proofs` | type correctness, the handle discipline, and that `VmLifecycle` implements `VmDriver` |
| `MCVmLifecycle` | model values and symmetry for its three runs |
| `QuotaUnits` | demands, their sums over an account's VMs, and the limits |
| `QuotaLedger` | abstract: an account's admissions as atomic steps |
| `Quota` | the reservation as PostgreSQL executes it, the retry, the resize and every other status write |
| `Quota_proofs` | type correctness, `AdmittedFit`, and that `Quota` implements `QuotaLedger` |
| `MCQuota` | an account with room for a small and a large VM |
| `VmOwnership` | abstract: the host of a VM is the host of its disk, once and for good |
| `Placement` | creates and clones on several hosts, slots and TAP devices, claiming by the reconciliations |
| `Placement_proofs` | type correctness, `OwnerHasDisk`, that `Placement` implements `VmOwnership`, and that a host is written once |
| `MCPlacement` | two hosts, of which one has a single slot left |
| `Routes` | Caddy's routes, the rows they come from, every request that writes either, call by call, and the agents' writes with their events |
| `Fleet` | hosts that register, report, fall silent and are drained; migrations between them |
| `Passkeys` | passkeys, login modes and logins of one or two steps, statement by statement |
| `CliLogin` | `spwn login`: the CLI's loop, the user's pages and the code's row |
| `Auth` | the accounts, which `Passkeys` and `CliLogin` share |
| `Snapshots` | the snapshots of a VM: rows, files and the paused guest, beside the VM's deletion |
| `Images` | building an image on a host, its row, its deletion and the creates that use it |
| `Resize` | what a VM's row promises and what its process and overlay have |
| `Routes_proofs`, `Snapshots_proofs`, `Images_proofs` | type correctness and every invariant of `Routes`, `Snapshots` and `Images` |
| `Auth_proofs` | the same of `Passkeys` and of `CliLogin`, whose definitions have `Login` in their names where the two would clash |
| `Fleet_proofs` | the same of `Fleet` and of `Resize`, likewise |
| `MCRoutes`, `MCFleet`, `MCPasskeys`, `MCCliLogin`, `MCSnapshots`, `MCImages`, `MCResize` | model values of each, with the symmetry of `MCPasskeys`, `MCSnapshots` and `MCResize` |

`VmLifecycle` and `Quota` meet in `check_quota_and_reserve`: in the former it is
the first step of a start, which sets `starting`; in the latter every step of
the former that writes a status is a `StatusWrite`. `VmLifecycle` is one VM on
one host; `Placement` is the step before it, many VMs and hosts, and takes the
start, stop and deletion that `VmLifecycle` details as single steps. The other
modules share the row of a VM with these two in the same way: each details one
thing that happens to it (routes, snapshots, a migration, a resize) and takes a
start or a stop as one step.

### 2.1 `VmLifecycle`

A step is what happens between two awaits on shared state. A request is a
record `th[t]`: its program point, its operation, the pid it read and the
handle it holds (`fc`). Program points are named after the code that comes next:

| actions | code |
|---|---|
| `StartRequest`, `StartCall`, `StartRefused` | `ops.rs` 148-184: reservation, RPC, and the reset to `stopped` on a refusal |
| `StartRead` .. `StartInsert`, `StartFailed` | `manager/mod.rs` 176-362: read, TAP, boot, record, insert and event; the error path |
| `RestoreRequest` .. `RestoreMark` | `manager/snapshot.rs` 172-193; `restore_snapshot_inner` repeats the start's steps, without monitoring the VM |
| `StopRequest` .. `StopRecord`, `StopKill`, `StopKillZero` | `mod.rs` 380-454: with the handle a shutdown under the map's lock, without it a kill of the pid read at the start |
| `SnapRequest`, `SnapRead`, `SnapTake`, `SnapPut` | `snapshot.rs` 28-170: the handle leaves the map and comes back |
| `DeleteRequest` .. `DeleteRoute` | `ops.rs` 199-220 and `mod.rs` 456-480 |
| `WatchNext`, `WatchStatus`, `WatchRoute` | `events.rs` 94-164 |
| `HbSample`, `HbReceive`, `HbStatus`, `HbRoute` | `host-agent/src/main.rs` 289-317 and `registration.rs` 57-148 |
| `HealthRead`, `HealthCheck` | `health.rs` |
| `RecRead`, `RecStatus`, `RecTaps` | `reconcile.rs`; also the agent's first step when it boots (`booting`) |
| `AgentCrash`, `AgentRestart`, `ProcCrash`, `StreamDrop`, `StreamConnect`, `CallLost`, `CpRestart` | the environment |

Abstractions. The jailer, fctools and firecracker are external: a boot needs the
TAP device and may fail, in which case its process may remain. The steps of the
reconciliation that concern one VM's row are one step (`/proc` and the cgroup
are read without an await in between). The control plane's restart is one step.
The agent's graceful shutdown (`mod.rs` 364-378) stops VMs with the steps of a
stop and is not repeated. `take_snapshot` events only log and are not sent. A
call to Caddy that fails is not modelled. Log lines (`vm_events`) appear only
where their foreign key makes a handler fail. A refusal because of the snapshot
limit or of an unknown snapshot is a choice.

### 2.2 `Quota`

A reservation is a transaction with three points: after its begin, before its
UPDATE, before its commit; `seen` collects what was committed since its
snapshot. PostgreSQL is external and modelled by its guarantees: snapshot reads,
row locks, first-updater-wins at the UPDATE, and an SSI failure of the later of
two reservations of one account at the commit; it may also fail needlessly.
`StatusWrite` stands for every other writer, without any order between them
(`VmLifecycle` has the order). `grant` is a history variable: what the present
run of a VM was admitted with, lowered by a resize and cleared by a stop.
`over` says why a VM may use more than that: its run was not reserved (restores
and recoveries never check the quota), it grew in its run, or it grew between the
read of its start (`ops.rs` 149) and the reservation, which then compares a stale
demand (`outgrown`). An account can exceed its limits in these three ways and,
says `AdmittedFit`, in no other: every other VM counts by its row as it is. VMs are
neither created nor deleted here: a deleted VM is one that stays stopped.

### 2.3 `Placement`

`req[r]` is a create or clone under way, from the control plane's choice of a
slot to the last write of the agent; `rec[h]` is a host's reconciliation.

| actions | code |
|---|---|
| `CreateBegin`, `CloneBegin` | `ops.rs` 51-99 and 456-478: the new id, and the host (any host for a create, the source's for a clone) |
| `ChooseSlot`, `SlotsExhausted` | `ops.rs` 100-103, `scheduler.rs` 190-206: the least slot that no row of the host has; a panic without one |
| `ProvisionDisk`, `CopyDisk` | `manager/mod.rs` 121-133, `manager/clone.rs` 18-55 |
| `InsertRow`, `AssignHost` | `db/src/lib.rs` 171-203 and 324-331: two statements of `create_vm`; a clone has only the first |
| `RestoreClone` | `clone.rs` 88-121: a clone with memory is restored before it has a host |
| `CallDropped` | the connection or the agent is lost, or the INSERT refused (a name taken meanwhile); what was done stays |
| `ReadRows`, `RemoveOrphanTaps`, `FindUnassigned`, `Claim`, `EndReconcile` | `reconcile.rs` 16-20 and 117-152 |
| `StartVm`, `StopVm`, `DeleteVm` | what they do to disks, devices and rows, in one step |

Overlays and devices are external: a file exists or not, a device has the last
VM it was made for. `Taken` stands for VMs that are there from the start. The
fit of a host and the quota do not matter to what is checked, so a create
chooses any host; image and subdomain checks can only refuse. The VMs here are
never migrated: `migrate_vm` copies a disk to a second host, and its record in
`vm_migrations` makes the DELETE of the row fail from then on (the foreign key
of `0015_multinode.sql` 17 does not cascade). So does a clone's `cloned_from`
for the row of its source: here such a source can be deleted, which only adds
behaviours.

### 2.4 `Routes`

`rows[v]` is what matters of a VM's row, `routes[n]` what Caddy serves under a
name, `req[r]` a handler, a heartbeat or a watcher with the calls to Caddy it
still has to make, `events[w]` the agent's events on their way to the watcher of
a host. A target is computed where the code computes it, from the row or the
event read there, so that a call may carry an old one.

| actions | code |
|---|---|
| `CreateBegin`, `CreateRow`, `CreateRefused`, `CreateRoute` | `ops.rs` create_vm and clone_vm: `subdomain::generate`, the agent's INSERT, the early returns of 122-127 and 499-508, the stopped page |
| `RenameBegin`, `RenameRead`, `RenameRow` | `ops.rs` update_vm with a name: routes follow the row read before the UPDATE |
| `PortBegin`, `PortRow` | update_vm with a port |
| `DeleteBegin`, `DeleteRow` | `ops.rs` 199-220 |
| `CreateUnanswered`, `DeleteUnanswered` | the agent inserted or deleted the row and an error comes back: `manager/mod.rs` 166, `clone.rs` 88-117, or the connection |
| `AgentWrites`, `AgentIsSilent`, `AgentRecovers` | the agent's own writes of a row, with an event behind them (`mod.rs` 343-360, 446-452, `snapshot.rs` 329, `health.rs` 25-35), without one (`reconcile.rs` 36-82), and an event without a write (`reconcile.rs` 99-115) |
| `Take`, `MarkRow`, `MarkFails` | `events.rs` 107-151: the row is read, the status written (its error dropped), the route set |
| `StreamBreaks` | `events.rs` watch_loop: what was in the stream is lost |
| `Heartbeat`, `BeatCall` | `registration.rs` reconcile_from_heartbeat: three cases for each row, two of which write its status first |
| `PutRoute`, `PostRoute`, `DeleteRoute`, `CallFails` | `router-sync/src/lib.rs` upsert_route and delete_route, one HTTP request each |
| `HandlerDropped` | the operations are awaited in axum's handlers (`api/src/lib.rs` 427-484, 653-676) and tonic's: a client that hangs up drops them at any await |
| `Crash`, `Rebuild`, `RebuildFails` | the control plane's restart, `rebuild_caddy_routes` before any handler runs |

Caddy is external. A PUT to an id that exists either replaces the route or is a
400 (the client handles both, since Caddy's versions differ); a POST of an id
that exists is refused. Every status but `running` is one to the routes, so
that an agent's stop is one write, at `stopping`, with its event on the way from
then on. A patch with a name and a port is two requests, one after the other.
A clone with memory boots while its handler goes on to the stopped page: here the
agent's write and the handler are two actors, as there. Of the database's errors
only the dropped one of a status is an action; the others end a handler as
`HandlerDropped` does. The rebuild is one step: a row that is written between
its SELECT and its PATCH counts as written after both, without an event, since
no watcher runs yet. Regions choose between Caddys and are left out, and so is
`change_username`: it strips a suffix that no generated subdomain has and
changes no name.

`since` names what nothing has made up for since the last rebuild: requests that
overlapped, an event that was lost, a restart whose rebuild failed, and the
names whose routes a request left as they were, because a call failed, its
client hung up or an agent's answer was lost. What is left that way stays until
the next rebuild, or, if the VM runs, until the host's next change of its
running set (`registration.rs` 83).

### 2.5 `Fleet`

| actions | code |
|---|---|
| `SetHostStatus`, `AdminMigrate` | `admin.rs`: the operator's calls |
| `Register`, `Heartbeat`, `FallsSilent`, `AgentDown` | `registration.rs`, `db/src/lib.rs` upsert_host and heartbeat: the `CASE` that leaves only 'draining' alone; `HEARTBEAT_TIMEOUT_SECS` |
| `Change`, `DeleteVm` | users' starts, stops and deletions, crashes of guests |
| `Begins`, `RecordMove` | `migration.rs` 32-62: what `migrate_vm` reads, and its row of `vm_migrations`, which is refused for a VM deleted meanwhile and from then on keeps the VM from being deleted |
| `StopOnSource`, `StopRefused`, `SnapshotRefused`, `SnapshotTaken`, `Fetch`, `FetchFails`, `InsertRow`, `CallLost` | `migration.rs` 64-141 and the agents' sides in `snapshot.rs` 28-40 and `clone.rs` 124-182 |
| `DrainTick`, `DrainHost`, `DrainMove`, `DrainSkip` | `migration.rs` 144-213 |

`Fleet` speaks of what `VmLifecycle` takes for granted, the host of a row. All
hosts share one database, so the target's `db::create_vm` is refused if it meets
the row of the VM. `InsertRow` has both outcomes; that the second one is
unreachable, so that no migration succeeds, is the work of the foreign key of
`vm_migrations` and is what `DeletedForGood` says. A stop may be refused before
or after the VM is stopped; `stopping` is not told apart from `stopped`. Capacity
is counted in VMs of one size; labels and regions only narrow a choice. Three
VMs or larger fleets add no other interleaving: the watcher works on one VM at a
time.

### 2.6 `Passkeys`

`challenges[c]` and `tokens[t]` are rows that stay in the model, marked `gone`
once deleted or past their `expires_at` (every handler that finds such a row
deletes it and refuses), so that a property can speak of them. A credential has the name of
the challenge it was registered with. `req[r]` is a handler between two of its
statements. Every start / finish handler of `auth/src/passkey.rs` is an action
that reads and checks, `SpendChallenge` and `SpendToken` its deletions, whose
result no handler looks at, and `CreatePasskey`, `SetMode`, `CreateSession` its
last statement; `Login` and `LoggedIn` are `auth/src/routes.rs` login. WebAuthn
is external: it accepts one of the credentials that were listed in the
challenge, or rejects. Its signature counter is left out. `Dropped` is a client
that hangs up between two statements.

### 2.7 `CliLogin`

Server and client in one module: `CliInit`, `PollRead`, `CreateToken`,
`Answered`, `NotSaved` (the credentials file cannot be written: the CLI returns an
error and the token's row stays), `PollLost`, `TimedOut` are `spwn login`
(`src/services/cmd/spwn/auth.go` 24-73) with `cli_init` and `cli_poll`
(`auth/src/routes.rs` 236-335); `AuthorizeRead`, `AuthorizeWrite`, `Deny` are
`cli_authorize` and `cli_deny`. The clock of a code has three values: in time,
expired for the server, past the CLI's deadline. Revoking a token "from your
account settings" (`src/frontend/src/pages/CliAuthPage.tsx` 132) has no code
behind it and no action here.

### 2.8 `Snapshots`

| actions | code |
|---|---|
| `TakeRead` .. `TakeInsert`, `TakeFails`, `TakeGivesUp`, `TakeResumeFails` | `snapshot.rs` 28-170: the count, the handle or the socket, pause, create, resume, the handle's return, the row |
| `RestoreRead`, `RestoreBoot` | `snapshot.rs` 172-349 |
| `DeleteRead`, `DeleteFiles`, `DeleteRow` | `snapshot.rs` delete_snapshot |
| `VmRead`, `VmList`, `VmFiles`, `VmRow`, `VmJail` | `mod.rs` 456-480 |
| `Refer` | rows of `vm_migrations`, `vm_auth_tokens` and `vms.cloned_from`, whose foreign keys do not cascade |
| `Start`, `Stop`, `AgentRestart`, `Dropped` | single steps; `VmLifecycle` has theirs |

The files of snapshots are in the jail of their VM. Whether fctools leaves them
there when it cleans a handle up (`mod.rs` 434), or prepares a jail that exists, is a
choice (`Jail`), and `cleaned` is the history of those it took; `half` is that of
snapshots whose deletion was left between the files and the row. `remove_file` and
the removal of the jail may fail, which nobody looks at or is only logged. `clone_vm`, which takes a snapshot of its source too, is
left out; it is one more `take_snapshot` that is never deleted.

### 2.9 `Images`

`img[i]` is the row with the task that waits for the build
(`control-plane/src/admin.rs` 228-328), `build[i]` the build on the agent with
its container, its mounts and its file (`host-agent/src/agent.rs` 100-655), one
action per stage: `Pull`, `CreateContainer`, `Export`, `RemoveContainer`,
`Bake`, `Mount`, `Chroot`, `Unmount`, `Squash`, `SquashEnds`, `CheckInit`. Each
stage may fail, and each failure goes where its early return goes. The stream
between them may break; the agent goes on then. `DeleteRead` and `DeleteRow` are
`delete_image`; `CreateFind` and `CreateOnHost` a `create_vm` that looks for the
image first in the table and then on its host. docker, tar, mount and mksquashfs
are external. `HostDark` is a host that loses its power or its network: the task
of the control plane hangs at its read (`admin.rs` 288), because `agent_channel`
(`tls.rs` 164-171) sets no timeout and no keepalive; `AgentCrash` is a process that
dies, which the other side is told. `build[i].init` is the first of the candidates
of `agent.rs` 620-628 that the root file system has: /sbin/init, another one, or
none. A build writes `<image>.overlay-init` while `read_image_init` reads
`<image>.init`, which nobody writes: every guest is told to run /sbin/init.

### 2.10 `Resize`

`row` is what the row promises, `vmm` what the agent has set for the process
(cpu.weight, cpu.max, memory, shaping), `overlay` the size of the disk's file,
`boot` what a start has read. `ResizeRead` .. `ResizeBandwidth`, `ResizeFails`
are `ops.rs` 376-454 with the two calls to the agent; `StartRead`, `StartBoot`
and `StartFails` the parts of a start that read and use the row
(`manager/mod.rs` 176-332) with `overlay.rs` resize_overlay. `mixed` is a
history: since the start the process comes from, resizes or starts overlapped or
a call failed. The temporary raise of cpu.max during a shutdown ends with the
process and is left out, and so is the memory of a restored guest.

## 3. Properties and runs

| run | instance | properties | shows |
|---|---|---|---|
| `vm_safety` | 3 requests, 2 processes, 1 fault, no periodic loop | `TypeOK`, `HandleDiscipline`, `DriverSpec` | a process never has two drivers, no driver comes back once given up, none enters the map during a shutdown |
| `vm_live` | 1 request, 1 process, 1 fault, all loops, fairness | `SelfHeals`, `MetricsFollow` | after any crash, lost call or lost event the row tells the truth for ever after, and a VM that stays up is monitored |
| `vm_race` | 2 requests, 2 processes, reconciliation only, fairness | `SelfHeals` | every race of two handlers is healed by the reconciliation alone |
| `quota` | 2 VMs, 2 requests, 3 sizes, limits that two large VMs exceed | `TypeOK`, `AdmittedFit`, `AtomicAdmission` | concurrent starts and retries never admit more than there is, but for what a VM grew after its start had read it; the transaction is an atomic check-and-reserve |
| `placement_owner` | 2 VMs, 2 hosts (one with a slot left), 2 requests, 1 fault, fairness | `TypeOK`, `OwnerHasDisk`, `OwnershipSafe`, `EventuallyOwned` | whichever of `create_vm` and the reconciliations writes a row's host, it is the host of the disk, and it is written |
| `routes` | 2 VMs (one runs), 2 names, 2 ports, 2 handlers, 1 watcher, 3 requests or agent's writes, 1 fault, fairness | `TypeOK`, `RouteOrWriter`, `ServesRows`, `EventuallyRouted` | in any interleaving of their calls requests never leave a VM without a route, unless the request about its name was given up; without overlap or loss Caddy serves the rows and nothing else, however late the events come; a route that is missing comes |
| `fleet` | 2 hosts, 2 VMs, 1 migration, 1 order, 1 refused stop, 1 fault, fairness | `TypeOK`, `DeletedForGood`, `RecordsSettled`, `DrainEnds` | a VM deleted while migrations of it begin or run is not made again, and whichever answer ends a migration its record is settled; a drain ends unless a VM in error or a full fleet holds it |
| `passkeys` | 2 accounts, 2 requests at a time, 3 challenges, 1 token | `TypeOK`, `ListedWasRegistered`, `SessionOfKeyOwner` | no login rests on an unfinished registration, and a session opened with a credential is its owner's, whatever challenges and tokens are mixed |
| `cli_login` | 1 CLI, 2 accounts, 2 pages, 2 lost polls, fairness | `LoginTypeOK`, `LoggedInAsGranted`, `TokensAccounted`, `StopsWaiting` | a CLI is logged in as somebody who authorized its code, a token nobody holds comes from a lost answer or the one that could not be saved, and the CLI gets in or gives up |
| `snapshots` | 4 ids, limit 2, 2 requests, restarts, dropped requests | `TypeOK`, `ListedHasFiles`, `GoneLeavesNothing`, `LimitUpToOverlap`, `PausedIsResumed` | a listed snapshot is without files only by a deletion that is under way or was left, or because fctools took them with the jail; a deleted VM leaves nothing unless removing its jail failed, the limit is exceeded by what overlaps and no more, a guest is resumed unless something failed |
| `images` | 2 builds of one name, 2 hosts, a create, 1 fault, fairness | `TypeOK`, `TaskOwnsRow`, `VmHasImage`, `BuildLeavesNothing`, `BuildEnds` | no VM is created from half an image or one without any init candidate, nobody takes a build's row away, a build leaves no container or mount, and it ends, with its row, unless its task is lost or its host goes dark |
| `resize` | 2 resizes of all four resources, 2 sizes | `ResizeTypeOK`, `StartSettles` | a start that no resize overlaps settles what earlier ones left, down to a row whose disk has got smaller than its file |

Every property of a passing run has a mutant in `PROJECT.json`: a plausible bug
in a modelled definition under which the same run finds the property violated.

**Bounds.** Two processes are the least for a driver to be confused with
another and two overlapping requests the least for a race; the third request of
`vm_safety` lets a stop meet a start that meets a snapshot. One fault at a time
is what recovery is written for. `EventCap = 1` makes the channel overflow at
the second event, where the real one needs 257. `Loops` chooses which periodic
loops run, since their product is what makes the state space large. `MaxOps`
and `MaxFaults` are needed for liveness too: clients and faults must stop before
anything can settle. In `quota` the VM limit of two does not bind with two VMs;
vcpus and memory do, by the same comparison, and the proof is for any limit.
`CHECK_DEADLOCK FALSE` is used for the VM runs, because a behaviour in which the
bounds are used up and no periodic loop is enabled has ended.

In `placement_owner` a second host is what a wrong owner needs, two requests and
one lost call are what leaves two rows for two reconciliations to claim, and
`h2` has a single slot left so that a search comes to its end.

In the later modules two requests at a time are the least for an overlap. A
third would only add another overlap of the same two kinds; `LimitUpToOverlap`
is stated for any number. In `routes` two VMs and two names leave one name free
for a rename, and a deletion or a second rename gives a name again, which is
counted apart (`again`); `MaxOps` = 3 is two that overlap and one that follows,
each a request or a write of the agent, whose events add steps of the watcher,
and `MaxFaults` = 1 is one fault at any of their awaits. One VM runs and is
routed at first, so that these are not spent on making it; by the symmetry of
VMs, names and ports one such state stands for all (`MCSpec`). In `fleet` each host has room for one VM: with both VMs on one host
there is somewhere to move, with one on each there is not. `passkeys` has three
challenges because a mixed login needs a registration of each account and a
login of one. `snapshots` has two ids more than the limit, so that two
overlapping requests can exceed it. `cli_login` has one code, since codes share
nothing but the accounts; two lost polls are one more than a retry needs. The
one fault of `images` is a crash, a host that goes dark, a lost call or a failed
cleanup at any stage.
Two sizes suffice for `resize`: a disk grows, its row is written back by a resize
that read the smaller one, and the next start meets a file larger than the row.
`CHECK_DEADLOCK FALSE` stands where used-up ids or bounds end a behaviour.

**Fairness.** Weak fairness of each request's next step (tokio runs every ready
task; RPCs and SQL return or fail), of each loop (an unconditional
`loop { sleep; .. }`), of the agent's restart (systemd) and of the stream's
reconnection (`watch_loop` retries for ever). None for client requests or faults.
In `Placement` the reconciliation of every host is weakly fair, being periodic,
and nothing else is: a create may stop anywhere.
In `Routes` the next step of a handler or a watcher is weakly fair (a task is
run), and so is the rebuild at the start, and nothing an agent or a client does; in `Fleet` heartbeats,
registration, the calls that are under way and the watcher's tick; in `CliLogin`
the CLI's own loop, and nothing a user does; in `Images` the task and the
stages of a build. Operators, users and faults are never fair. `DrainEnds`,
`BuildEnds` and `EventuallyRouted` name what stands in their way (a VM in error,
a task that is lost or hangs, a request that was given up): the code has no retry for these. `Quota`,
`Passkeys`, `Snapshots` and `Resize` state no fairness: their properties are
about what a step may do.

**Symmetry** permutes requests, processes, VMs, accounts or ids where nothing but
equality tells them apart, and only in runs without liveness properties.

## 4. Proofs

Every invariant and every refinement that a run checks is also proved, for every
value of the constants that the assumptions allow. Each safety proof has the same
shape: an inductive invariant `IInv` (checked by TLC on the run's instance before
it was proved), one lemma per action or group of actions, and a last step by PTL.
What follows names what `IInv` adds to the properties, since that is the reason
why they hold.

**Assumptions.** `None` (SQL NULL, no entry) and similar values differ from the
values they stand beside; bounds and limits are natural numbers, positive where
zero would mean that the component cannot do anything at all; sets that are
counted or turned into a sequence (`VMs` in `Quota`, `Fleet` and `Routes`,
`Requests` in `Snapshots`) are finite. No other fact about a constant is used:
the theorems hold for any number of VMs, hosts, accounts, requests and faults.

### 4.1 `VmLifecycle_proofs`

* `TypeCorrect`: `Spec => []TypeOK`; each action is one step, and handles the
  groups of variables it writes.
* `DriversDisciplined`: `Spec => []HandleDiscipline`. The invariant says where
  handles are, but a handle that enters the map must also be known to be no one
  else's, so the inductive invariant adds that a request holds a handle exactly
  at the points between taking and giving it, that a handle in the map or in a
  request was spawned, and that a spawned process is never spawned again.
* `DriversImplemented`: `Spec => DriverSpec`. What the forty actions do to the
  drivers is one of eight kinds of step (`DriverMove`), from which both the
  discipline and the refinement follow. By the discipline at most one of the
  cases of `Where` is about a given process, so `Where` can be read off the map
  and the requests (`WhereSays`); that nothing enters the map during a shutdown
  is the map's lock.
* `DroppedForGood`, of the refinement: a driver once given up is never used again.

### 4.2 `Quota_proofs`

* `TypeCorrect`, and `AdmissionsFit`: `Spec => []AdmittedFit`. The proof goes by
  way of the grants (`GrantsFit`): a VM without a reason to use more was granted
  all that its row has (`InFull`), because a demand that is not `outgrown` covers
  the row until the commit (`DemandsCover`). What makes an admission sound is a fact about a transaction that has not committed yet: as
  long as it has seen no other reservation, its demand beside all *current*
  grants fits. This holds at the check because a grant never exceeds the size of
  an active row, and is kept because only another reservation makes a grant
  grow, and that one marks it. Sums are cardinalities of sets of units, so that
  the facts about them come from the finite-set theorems of the library.
* `LedgerImplemented`: `Spec => AtomicAdmission`. Every step admits one VM, gives
  units back, or leaves `grant` as it is.

### 4.3 `Placement_proofs`

* `TypeCorrect`, and `OwnersHaveDisks`: `Spec => []OwnerHasDisk`. A host is
  written by a reconciliation that has seen the disk or by the `create_vm` that
  made it; neither looks at what the other wrote. That they agree needs
  `OneDisk` (a VM's disk is on one host at most), kept because every request has
  an id that no other request, row or disk has: `FreshIds`, `OwnIds` and what
  each request `Knows` at its program point are in the inductive invariant.
* `OwnershipImplemented`: `Spec => OwnershipSafe`. The host of the disk is the
  refinement mapping's witness, and by `OneDisk` it is unique, so that writing a
  host a second time is a stutter of `VmOwnership`.
* `HostWrittenOnce`, of the refinement: a VM that has a host keeps it.

### 4.4 `Routes_proofs`

* `TypeCorrect`, and `RoutesKept`: `Spec => []RouteOrWriter`. A request that will
  route a name is replaced, call by call, by the route itself; the proof needs to
  know which calls a request may still have (a DELETE is followed by a POST of
  the same name or is about a name that no VM has, or one given a second time), and
  that this stays so (`CallsSound`). Names of rows are used and distinct
  (`NamesSound`), and nothing runs while the control plane starts (`BootAlone`).
  A request that is given up takes the names it still owed (`Owed`) into `since`,
  which is what the property excepts, name by name.
* `RowsServed`: `Spec => []ServesRows`, from a second invariant on top of the
  first, `InStep`: as long as nothing overlapped, was lost or given up, the only
  request at work would, by its remaining calls, turn what Caddy serves into some
  routing `w` (`Follows`), and without one Caddy serves `w`. `w` is what the rows
  want, but for the VMs of which an event or a status is still to be handled
  (`Late`): there it may be anything, since that event, once read, writes the
  row and the route alike. Each action shows that what its calls lead to agrees
  with the rows after it in this sense (`Agrees`); once no event is left, nothing
  is late.

### 4.5 `Snapshots_proofs`

* `LimitKept`: `Spec => []LimitUpToOverlap`. Not inductive: a request that has
  counted the rows may insert one whatever the others do. `LimitShared` counts the
  rows together with the requests between the count and the insert; a request
  joins only when fewer rows than the limit were there, and then the others, at
  most all but itself, are the excess.
* `ListedComplete`: `Spec => []ListedHasFiles`. A request between its files and its
  row has these files unless fctools took them (`Holds`). That nobody else removes
  them meanwhile needs `IdsApart`: an id that is being taken is not listed, so no
  deletion, and no list of `delete_vm`, knows of it.
* `DeletedLeavesNothing`: `Spec => []GoneLeavesNothing`. A VM that is gone has a
  request that is about to remove the jail, that failed, or no file is left (`JailCleared`);
  none appears later, because a snapshot is written into the jail.
* `PausesEnd`: `Spec => []PausedIsResumed`, inductive beside the types.

### 4.6 `Images_proofs`

* `TasksOwnRows`, `CreatedVmsHaveImages`, `BuildsCleanUp`. The row, the task and the
  build of an image run in step, unless something of a known kind `failed`: a row
  that is 'ready' has a build that is over with a complete file and an init candidate
  (`RowSound`), each stage of a build has at most the container and the mounts of
  that stage (`BuildSound`), and a create that found its image may
  rely on that build, which never goes on (`VmSound`). `failed` only grows, which is what carries the
  exceptions of `BuildLeavesNothing` through the later stages.

### 4.7 `Auth_proofs`

* `SessionsOwned`, `ListsComplete` (of `Passkeys`). Both follow from one fact about
  credentials: whatever is listed, stored or used is `Registered`, by the account
  it is listed for. Between its statements a handler `Knows` that of what it has
  read, and that its challenge and its token are of one account; the rows it read
  may be deleted, spent or past their time meanwhile, but not changed.
* `LoginsGranted`, `TokensBounded` (of `CliLogin`). A code that reads authorized
  does so by a grant, a poll under way carries one (`PollsCarry`), and every row
  of `api_tokens` is the CLI's, on its way, lost with a counted poll, or the one
  that could not be saved (`RowsCounted`).

### 4.8 `Fleet_proofs`

* `NotMadeAgain`, `RecordsEnd` (of `Fleet`). A migration that is past its first
  step has a row of `vm_migrations` (`MovesRecorded`), and a VM that has one is
  not deleted (`RecordedStay`), so that the target's INSERT is always refused. For
  the records, every agent answers unless there was a fault (`UpUnlessFault`).
* `StartsSettle` (of `Resize`). As long as nothing was `mixed`, one resize at most
  is at work and none beside a start; the process has what the row says but for
  the settings whose calls that resize still has to make (`InHand`), and a start
  that is under way has read the row as it is.

### 4.9 Only model-checked

The liveness properties (`SelfHeals`, `MetricsFollow`, `EventuallyOwned`,
`EventuallyRouted`, `DrainEnds`, `StopsWaiting`, `BuildEnds`): what holds under
fairness is out of the prover's reach. `VmOwnership` is implemented as far as its
steps go; its fairness is `EventuallyOwned`, which TLC checks.

## 5. Where texts and code disagree

What follows was met while translating the code. Each is a behaviour of the
module named, and the reason why the property beside it is stated the way it is;
the runs check what does hold.

| what a text says | what the code does | module, and the property that holds instead |
|---|---|---|
| "vm must be stopped before deletion" (`ops.rs` 204, `manager/mod.rs` 461) | both checks are of rows read earlier: a restore or a start in between keeps booting, and no loop ever finds a process without a row | `VmLifecycle`: `SelfHeals` is about VMs that have a row |
| "removing orphaned TAP device" (`reconcile.rs` 125) | devices listed now are compared with rows read at the start: a device that a start has just made goes, with its process using it | `VmLifecycle`: `SelfHeals` is about the row and its process, not the device |
| "sync Caddy unconditionally so a missed event never leaves a stale stopped route" (`registration.rs` 122) | the sync runs only when the host's running set changed | `VmLifecycle`: `SelfHeals` is about the row, not the route; `Routes`: `ServesRows` excepts an event that was lost |
| "on conflict - caller should retry once" (`db/src/lib.rs` 1317) | a conflict that shows at the UPDATE is a database error and is not retried | `Quota`: the limits hold either way (`AdmittedFit`) |
| "to prevent concurrent starts from racing" (`db/src/lib.rs` 1316), "quota check + atomic status='starting'" (`ops.rs` 153) | the demand that is compared was read before the transaction, and is used again by the retry (`ops.rs` 160): a row that a resize made larger meanwhile is admitted with what it had before | `Quota`: `AdmittedFit` names such a reservation (`stale`) and bounds the excess by the growth |
| "If a stale device from a previous run exists at this slot" (`tap.rs` 54) | slots are counted by rows that have a host (`db/src/lib.rs` 390) and a clone has none until it is claimed: the device removed may be a running VM's | `Placement`: `OwnerHasDisk` is about disks |
| "Each slot gets a /30" (`networking/src/ip.rs` 4) | `next_free_slot` goes to 65534, `slot_octets` keeps 8 bits: slots 1 and 257 share one | not modelled |
| "Set or replace the route" (`router-sync/src/lib.rs` 67) | the calls of two upserts interleave (105-120), and the last one may carry the older target | `Routes`: `ServesRows` excepts overlaps since the last rebuild, `RouteOrWriter` and `EventuallyRouted` do not |
| "On duplicate ID error .., delete first then PUT" (`router-sync/src/lib.rs` 104) | it is a DELETE and a POST, two awaits of a handler that is dropped when its client hangs up, and between the two there is no route | `Routes`: `RouteOrWriter` and `EventuallyRouted` except the name of a request that was given up |
| "Nothing left - flip to offline" (`migration.rs` 172) | only VMs that are not stopped are looked at, and the next heartbeat makes the host active again | `Fleet`: `DrainEnds` |
| "Migrate vm_id to target_host_id" (`migration.rs` 17) | the VM is stopped before the snapshot that needs it running, and the target inserts a row that exists: no migration succeeds | `Fleet`: `DeletedForGood`, `RecordsSettled` |
| "register a passkey before switching mode" (`passkey.rs` 265) | the check and the write are two statements, and the last passkey may be deleted between them or later | `Passkeys`: no property relates mode and passkeys |
| "code expired or already used" (`auth/src/routes.rs` 358) | two pages can authorize one code, and `cli_deny` does not check | `CliLogin`: `LoggedInAsGranted` says *somebody who authorized* |
| "this will create an API token" (`src/frontend/src/pages/CliAuthPage.tsx` 131) | every poll of an authorized code makes one | `CliLogin`: `TokensAccounted` |
| "third snapshot should fail - limit is 2" (`host-agent/tests/integration.rs` 289) | counted before, written after | `Snapshots`: `LimitUpToOverlap` |
| `stop_vm`, then `restore_snapshot` must succeed (`host-agent/tests/integration.rs` 253-257) | the files are in the jail that `stop_vm` has fctools clean up (`mod.rs` 434); nothing in this code keeps them across the stop that a restore requires | `Snapshots`: `ListedHasFiles` excepts what fctools took (`cleaned`) |
| "vm row should be gone after delete" (`integration.rs` 322) | a row of `vm_migrations`, of `vm_auth_tokens` or of a clone makes the DELETE fail, after the snapshots' files are gone | `Snapshots`: `ListedHasFiles` excepts them (`half`), `GoneLeavesNothing` |
| "image is currently building" (`admin.rs` 338) | nothing but a task that is not kept ever changes that status | `Images`: `BuildEnds` excepts a task that is lost, and one that hangs because the host went dark |
| "check that path exists in the rootfs so we catch a missing init before the image is marked ready" (`agent.rs` 617-618) | the path is /sbin/init, but any of seven candidates passes, a shell among them: an image without /sbin/init becomes ready, and its guests, told to run /sbin/init (34), do not boot | `Images`: `VmHasImage` promises one of the candidates and no more |
| "base images available for new VMs" (`ImagesPage.tsx` 88) | an image is built on one host, and VMs are placed on any | `Images`: `VmHasImage`, and a create that is refused |
| "cpu and bandwidth apply immediately" (`VmDetailPage.tsx` 304) | cpu.weight is written, cpu.max and the vcpu count are not | `Resize`: `StartSettles` excepts cpu.max |
| "memory changes cannot be applied to a running vm" (`ops.rs` 388) | only 'running' is refused, a VM that is starting is not | `Resize`: `StartSettles` excepts what overlaps a start |
| "disk cannot be shrunk" (`ops.rs` 401) | of two overlapping resizes the last writes back what it read | `Resize`: `StartSettles` asks that the file has at least the row's size |

## 6. Plan

Every component whose correctness depends on an order of steps has its module, and
every invariant and refinement that is checked is proved. What remains:

1. Action properties of the later modules that their invariants imply: a token that
   was spent is never accepted again, an id of a snapshot is never used twice.
2. The safety half of the liveness properties: what a step may not do while one
   of them is pending (for `EventuallyOwned`: an existing VM without a host has its
   disk where a reconciliation can find it, until it has a host).
3. Shorter proofs where several actions repeat one argument, as `DriverMove` does
   for `VmLifecycle`: most of all in `Routes_proofs`.

## 7. Not modelled

The console, file transfer and metrics streams, which have no state that
outlives a stream; iptables rules (set once at boot); password hashing and
WebAuthn (libraries); TLS; the Go clients and the frontend, which keep no state
of the platform, but for the login loop in `CliLogin`; the deployment scripts;
signup, profile and avatar, share tokens and the public flag, each one
statement; gateway authentication, whose requests check a secret and read, and
VM access tokens, which one `DELETE .. RETURNING` uses up: in these nothing is
read in one statement and relied on in another. The pruning of expired rows has
no caller in the program. Section 2 names what each module leaves out.
