---------------------------- MODULE Fleet_proofs ----------------------------
(***************************************************************************)
(* Theorems about Fleet, for any sets of hosts, VMs and operators and any  *)
(* bounds, and about Resize, for any requests, resources and sizes: what   *)
(* the hosts have, and what a VM has on one.  The two share no variable;   *)
(* what belongs to Resize has Resize in its name.                          *)
(***************************************************************************)
EXTENDS Fleet, Resize, FiniteSetTheorems, TLAPS

(***************************************************************************)
(* Fleet.  A migration that is under way has its record, a row of          *)
(* vm_migrations once it is past the first step, and no row refers to a VM *)
(* that is deleted.  An agent that is down counts as a fault: a call that  *)
(* breaks without one does not exist, so every end of a migration without  *)
(* faults is an answer.                                                    *)
(***************************************************************************)
MovesRecorded == \A m \in Movers :
    /\ task[m] # "none" => record[m] \in Record
    /\ task[m] \notin {"none", "record"} => record[m].vm \in recorded
RecordedStay == \A v \in recorded : vms[v] # None
UpUnlessFault == faults = 0 => up = Hosts

IInv == TypeOK /\ MovesRecorded /\ RecordedStay /\ UpUnlessFault /\ RecordsSettled

DeletedStay == \A v \in VMs : vms[v] = None => vms'[v] = None

\* The invariant holds when all hosts have registered and nothing moves.
LEMMA InitInv == Init => IInv
<1> SUFFICES ASSUME Init PROVE IInv
  OBVIOUS
<1>1. vms \in [VMs -> Vm]
  BY DEF Init, Vm
<1>2. hosts \in [Hosts -> Host]
  <2>1. Cardinality(VMs) \in Nat
    BY BoundsAssumption, FS_CardinalityType
  <2> QED
    BY <2>1 DEF Init, Host
<1>3. disks \subseteq Hosts \X VMs
  BY <1>1 DEF Init, Vm
<1>4. drain \in Drain
  BY DEF Init, Drain, NoDrain
<1>5. TypeOK
  BY <1>1, <1>2, <1>3, <1>4, BoundsAssumption DEF Init, TypeOK, Task
<1> QED
  BY <1>5 DEF Init, IInv, MovesRecorded, RecordedStay, UpUnlessFault, RecordsSettled

\* What hosts, agents and users do leaves migrations alone; a user deletes
\* only a VM that no row of vm_migrations refers to.
LEMMA HostStep ==
  ASSUME IInv,
         \/ \E h \in Hosts : \/ SetHostStatus(h) \/ AgentDown(h) \/ FallsSilent(h)
                             \/ Register(h) \/ Heartbeat(h)
         \/ \E v \in VMs : Change(v) \/ DeleteVm(v)
  PROVE  IInv' /\ DeletedStay
<1>0. /\ hosts \in [Hosts -> Host] /\ up \subseteq Hosts /\ vms \in [VMs -> Vm \cup {None}]
      /\ disks \subseteq Hosts \X VMs /\ recorded \subseteq VMs
      /\ orders \in 0..MaxOrders /\ changes \in 0..MaxChanges /\ faults \in 0..MaxFaults
      /\ None \notin Vm /\ TypeOK /\ RecordedStay
  BY ConstantsAssumption DEF IInv, TypeOK
<1>1. UNCHANGED <<moving, drain, moves, refusals>>
  BY DEF SetHostStatus, AgentDown, FallsSilent, Register, Heartbeat, Change, DeleteVm, Deleted,
     counters
<1>2. hosts' \in [Hosts -> Host]
  <2>1. ASSUME NEW h \in Hosts PROVE Usage(h) \in 0..Cardinality(VMs)
    <3>1. {v \in On(h) : vms[v].status = "running"} \subseteq VMs
      BY DEF On
    <3>2. Usage(h) \in Nat /\ Cardinality(VMs) \in Nat /\ Usage(h) <= Cardinality(VMs)
      BY <3>1, BoundsAssumption, FS_Subset, FS_CardinalityType DEF Usage
    <3> QED
      BY <3>2
  <2>2. ASSUME NEW h \in Hosts, SetHostStatus(h) PROVE hosts' \in [Hosts -> Host]
    BY <1>0, <2>2 DEF SetHostStatus, Host
  <2>3. ASSUME NEW h \in Hosts, Heartbeat(h) PROVE hosts' \in [Hosts -> Host]
    <3>1. AfterHeartbeat(hosts[h].status) \in {"active", "draining", "offline"}
      BY DEF AfterHeartbeat
    <3> QED
      BY <1>0, <2>1, <2>3, <3>1 DEF Heartbeat, Host
  <2>4. ASSUME NEW h \in Hosts, FallsSilent(h) \/ Register(h) PROVE hosts' \in [Hosts -> Host]
    BY <1>0, <2>4, ZenonT(30) DEF FallsSilent, Register, Host
  <2> QED
    BY <1>0, <2>2, <2>3, <2>4 DEF AgentDown, Change, DeleteVm, Deleted
<1>3. up' \subseteq Hosts
  BY <1>0 DEF SetHostStatus, AgentDown, FallsSilent, Register, Heartbeat, Change, DeleteVm, Deleted
<1>4. /\ vms' \in [VMs -> Vm \cup {None}] /\ DeletedStay
      /\ \A v \in recorded : vms'[v] # None
  <2>1. CASE UNCHANGED vms
    BY <1>0, <2>1 DEF DeletedStay, RecordedStay
  <2>2. ASSUME NEW v \in VMs, vms[v] # None, NEW s \in {"stopped", "running", "error"},
               vms' = [vms EXCEPT ![v].status = s]
        PROVE  /\ vms' \in [VMs -> Vm \cup {None}] /\ DeletedStay
               /\ \A w \in recorded : vms'[w] # None
    <3>1. [vms[v] EXCEPT !.status = s] \in Vm
      BY <1>0, <2>2 DEF Vm
    <3> QED
      BY <1>0, <2>2, <3>1 DEF DeletedStay, RecordedStay
  <2>3. ASSUME NEW v \in VMs, DeleteVm(v)
        PROVE  /\ vms' \in [VMs -> Vm \cup {None}] /\ DeletedStay
               /\ \A w \in recorded : vms'[w] # None
    BY <1>0, <2>3 DEF DeleteVm, Deleted, DeletedStay, RecordedStay
  <2> QED
    BY <2>1, <2>2, <2>3 DEF SetHostStatus, AgentDown, FallsSilent, Register, Heartbeat, Change
<1>5. /\ orders' \in 0..MaxOrders /\ changes' \in 0..MaxChanges /\ faults' \in 0..MaxFaults
      /\ disks' \subseteq Hosts \X VMs
  BY <1>0, BoundsAssumption
     DEF SetHostStatus, AgentDown, FallsSilent, Register, Heartbeat, Change, DeleteVm, Deleted,
         counters
<1>6. TypeOK'
  BY <1>0, <1>1, <1>2, <1>3, <1>4, <1>5 DEF TypeOK, moving
<1>7. UpUnlessFault' /\ (faults' = 0 => faults = 0)
  BY <1>0 DEF IInv, UpUnlessFault, SetHostStatus, AgentDown, FallsSilent, Register, Heartbeat,
     Change, DeleteVm, Deleted, counters
<1> QED
  BY <1>0, <1>1, <1>4, <1>6, <1>7 DEF IInv, MovesRecorded, RecordedStay, RecordsSettled, moving

\* A migration begins, with what it read.
LEMMA BegunIs ==
  ASSUME IInv, NEW m \in Movers, NEW v \in VMs, NEW t \in Hosts, Begins(m, v, t)
  PROVE  /\ record' \in [Movers -> Record \cup {None}] /\ task' \in [Movers -> Task]
         /\ record'[m] \in Record /\ task'[m] = "record" /\ recorded' = recorded
         /\ \A n \in Movers \ {m} : record'[n] = record[n] /\ task'[n] = task[n]
<1>1. vms[v] \in Vm
  BY DEF IInv, TypeOK, Begins
<1> DEFINE new == [vm |-> v, from |-> vms[v].host, to |-> t,
                   running |-> vms[v].status = "running", status |-> "read"]
<1>2. new \in Record
  BY <1>1 DEF Record, Vm
<1>3. record' = [record EXCEPT ![m] = new] /\ task' = [task EXCEPT ![m] = "record"]
  BY DEF Begins
<1> HIDE DEF new
<1> QED
  BY <1>2, <1>3 DEF IInv, TypeOK, Begins, Task

\* A migration begins: an operator's, or one of the drain watcher.
LEMMA BeginStep ==
  ASSUME IInv, (\E m \in Admins : AdminMigrate(m)) \/ WatcherStep
  PROVE  IInv' /\ DeletedStay
<1>0. /\ hosts \in [Hosts -> Host] /\ moves \in 0..MaxMoves /\ drain \in Drain
      /\ TypeOK /\ Watcher \in Movers
  BY DEF IInv, TypeOK, Movers
<1>1. UNCHANGED <<up, vms, disks, orders, changes, refusals, faults>>
  BY DEF AdminMigrate, WatcherStep, DrainTick, DrainHost, DrainMove, DrainSkip, counters
<1>2. UpUnlessFault' /\ DeletedStay
  BY <1>1 DEF IInv, UpUnlessFault, DeletedStay
<1>3. /\ hosts' \in [Hosts -> Host] /\ moves' \in 0..MaxMoves /\ drain' \in Drain
  <2>1. CASE \E m \in Admins : AdminMigrate(m)
    BY <1>0, <2>1, BoundsAssumption DEF AdminMigrate
  <2>2. CASE DrainTick
    BY <1>0, <2>2 DEF DrainTick, NoDrain, Drain, counters
  <2>3. CASE DrainHost
    <3>1. PICK h \in drain.todo :
            \/ /\ hosts' = [hosts EXCEPT ![h].status = "offline"]
               /\ drain' = [drain EXCEPT !.todo = @ \ {h}]
            \/ /\ drain' = [todo |-> drain.todo \ {h}, host |-> h, vms |-> ToMove(h)]
               /\ UNCHANGED hosts
      BY <2>3 DEF DrainHost
    <3>2. h \in Hosts /\ ToMove(h) \subseteq VMs
      BY <1>0, <3>1 DEF Drain, ToMove, On
    <3>3. drain' \in Drain
      BY <1>0, <3>1, <3>2 DEF Drain
    <3>4. hosts' \in [Hosts -> Host]
      BY <1>0, <3>1, <3>2 DEF Host
    <3> QED
      BY <1>0, <2>3, <3>3, <3>4 DEF DrainHost, counters
  <2>4. CASE DrainMove \/ DrainSkip
    <3>1. \A v : Without(v) \in Drain
      BY <1>0 DEF Without, Drain
    <3> QED
      BY <1>0, <2>4, <3>1 DEF DrainMove, DrainSkip, counters
  <2> QED
    BY <2>1, <2>2, <2>3, <2>4 DEF WatcherStep
<1>4. \/ UNCHANGED moving
      \/ \E m \in Movers, v \in VMs, t \in Hosts : Begins(m, v, t)
  <2>1. Picks \subseteq Hosts /\ drain.vms \subseteq VMs
    BY <1>0 DEF Picks, Eligible, Drain
  <2> QED
    BY <1>0, <2>1 DEF AdminMigrate, WatcherStep, DrainTick, DrainHost, DrainMove, DrainSkip, Movers
<1>5. CASE UNCHANGED moving
  BY <1>0, <1>1, <1>2, <1>3, <1>5
     DEF IInv, TypeOK, MovesRecorded, RecordedStay, RecordsSettled, moving
<1>6. ASSUME NEW m \in Movers, NEW v \in VMs, NEW t \in Hosts, Begins(m, v, t) PROVE IInv'
  <2>1. TypeOK'
    BY <1>0, <1>1, <1>3, <1>6, BegunIs DEF TypeOK
  <2>2. MovesRecorded' /\ RecordedStay' /\ RecordsSettled'
    BY <1>1, <1>6, BegunIs DEF IInv, MovesRecorded, RecordedStay, RecordsSettled
  <2> QED
    BY <1>2, <2>1, <2>2 DEF IInv
<1> QED
  BY <1>2, <1>4, <1>5, <1>6

\* The record of a migration is inserted, or refused with its VM deleted.
LEMMA RecordStep ==
  ASSUME IInv, NEW m \in Movers, RecordMove(m)
  PROVE  IInv' /\ DeletedStay
<1>0. /\ record[m] \in Record /\ record[m].vm \in VMs /\ task[m] # "none"
      /\ record \in [Movers -> Record \cup {None}] /\ task \in [Movers -> Task]
      /\ recorded \subseteq VMs
  BY DEF IInv, TypeOK, MovesRecorded, RecordMove, HasRow, Record
<1>1. UNCHANGED <<hosts, up, vms, disks, drain, counters>>
  BY DEF RecordMove, HasRow, MoveKeeps
<1>2. CASE vms[record[m].vm] = None
  <2>1. /\ record' = [record EXCEPT ![m] = None] /\ task' = [task EXCEPT ![m] = "none"]
        /\ recorded' = recorded
    BY <1>2 DEF RecordMove, HasRow, End
  <2>2. TypeOK'
    BY <1>0, <1>1, <2>1 DEF IInv, TypeOK, Task, counters
  <2>3. MovesRecorded' /\ RecordsSettled'
    BY <1>0, <1>1, <2>1 DEF IInv, MovesRecorded, RecordsSettled, counters
  <2> QED
    BY <1>1, <2>1, <2>2, <2>3 DEF IInv, RecordedStay, UpUnlessFault, DeletedStay, counters
<1>3. CASE vms[record[m].vm] # None
  <2> DEFINE new == [record[m] EXCEPT !.status = "pending"]
             call == IF record[m].running THEN "stop" ELSE "snapshot"
  <2>1. new \in Record /\ new.vm = record[m].vm /\ call \in Task /\ call # "none"
    BY <1>0 DEF Record, Task
  <2>2. /\ record' = [record EXCEPT ![m] = new] /\ task' = [task EXCEPT ![m] = call]
        /\ recorded' = recorded \cup {record[m].vm}
    BY <1>3 DEF RecordMove, HasRow
  <2> HIDE DEF new, call
  <2>3. TypeOK'
    BY <1>0, <1>1, <2>1, <2>2 DEF IInv, TypeOK, counters
  <2>4. MovesRecorded' /\ RecordsSettled'
    BY <1>0, <1>1, <2>1, <2>2 DEF IInv, MovesRecorded, RecordsSettled, counters
  <2>5. RecordedStay'
    BY <1>1, <1>3, <2>2 DEF IInv, RecordedStay
  <2> QED
    BY <1>1, <2>3, <2>4, <2>5 DEF IInv, UpUnlessFault, DeletedStay, counters
<1> QED
  BY <1>2, <1>3

Call(m) == \/ StopOnSource(m) \/ StopRefused(m) \/ SnapshotRefused(m) \/ SnapshotTaken(m)
           \/ Fetch(m) \/ FetchFails(m) \/ InsertRow(m)

\* A call of a migration is answered or breaks.
LEMMA CallStep ==
  ASSUME IInv, NEW m \in Movers, Call(m) \/ CallLost(m)
  PROVE  IInv' /\ DeletedStay
<1>0. /\ task[m] \notin {"none", "record"} /\ record[m] \in Record
      /\ record[m].vm \in VMs /\ record[m].to \in Hosts /\ record[m].from \in Hosts
      /\ record[m].vm \in recorded /\ vms[record[m].vm] \in Vm /\ None \notin Vm
      /\ vms \in [VMs -> Vm \cup {None}] /\ disks \subseteq Hosts \X VMs /\ faults \in 0..MaxFaults
      /\ record \in [Movers -> Record \cup {None}] /\ task \in [Movers -> Task] /\ TypeOK
  <2>1. task[m] \notin {"none", "record"}
    BY DEF Call, HasRow, StopOnSource, StopRefused, Refusing, SnapshotRefused, SnapshotTaken, Fetch,
       FetchFails, InsertRow, CallLost, At
  <2>2. record[m] \in Record /\ record[m].vm \in recorded
    BY <2>1 DEF IInv, MovesRecorded
  <2>3. vms[record[m].vm] \in Vm
    BY <2>2 DEF IInv, TypeOK, RecordedStay, Record
  <2> QED
    BY <2>1, <2>2, <2>3, ConstantsAssumption DEF IInv, TypeOK, Record
<1>1. UNCHANGED <<hosts, up, drain, orders, moves, changes, recorded>>
  BY <1>0 DEF Call, HasRow, StopOnSource, StopRefused, Refusing, SnapshotRefused, SnapshotTaken, Fetch,
     FetchFails, InsertRow, CallLost, MoveKeeps, Fail, Goto, counters
<1>2. vms' \in [VMs -> Vm \cup {None}] /\ DeletedStay /\ RecordedStay'
  <2>1. CASE vms' = [vms EXCEPT ![record[m].vm].status = "stopped"]
    <3>1. [vms[record[m].vm] EXCEPT !.status = "stopped"] \in Vm
      BY <1>0 DEF Vm
    <3> QED
      BY <1>0, <1>1, <2>1, <3>1 DEF IInv, RecordedStay, DeletedStay
  <2>2. CASE UNCHANGED vms
    BY <1>0, <1>1, <2>2 DEF IInv, RecordedStay, DeletedStay
  <2> QED
    BY <1>0, <2>1, <2>2 DEF Call, HasRow, StopOnSource, StopRefused, Refusing, SnapshotRefused,
       SnapshotTaken, Fetch, FetchFails, InsertRow, CallLost
<1>3. disks' \subseteq Hosts \X VMs /\ refusals' \in 0..MaxRefusals
  <2>1. refusals \in 0..MaxRefusals
    BY <1>0 DEF TypeOK
  <2> QED
    BY <1>0, <2>1, BoundsAssumption
       DEF Call, HasRow, StopOnSource, StopRefused, Refusing, SnapshotRefused, SnapshotTaken, Fetch,
           FetchFails, InsertRow, CallLost, To, MoveKeeps, counters
<1>4. /\ faults' \in 0..MaxFaults /\ UpUnlessFault' /\ (faults' = 0 => faults = 0)
  <2>1. CASE Call(m)
    <3>1. UNCHANGED <<faults, up>>
      BY <2>1 DEF Call, HasRow, StopOnSource, StopRefused, Refusing, SnapshotRefused, SnapshotTaken,
         Fetch, FetchFails, InsertRow, MoveKeeps, counters
    <3> QED
      BY <1>0, <3>1 DEF IInv, UpUnlessFault
  <2>2. CASE CallLost(m)
    BY <1>0, <1>1, <2>2, BoundsAssumption DEF CallLost, IInv, UpUnlessFault
  <2> QED
    BY <2>1, <2>2
<1>5. \/ \E op \in {"snapshot", "fetch", "insert"} : Goto(m, op)
      \/ Fail(m)
      \/ End(m) /\ record' = record /\ faults' # 0
  <2>1. CASE Call(m)
    BY <1>0, <2>1, ConstantsAssumption
       DEF Call, HasRow, StopOnSource, StopRefused, SnapshotRefused, SnapshotTaken, Fetch, FetchFails,
           InsertRow
  <2>2. CASE CallLost(m)
    <3>1. Callee(m) \in Hosts
      BY <1>0 DEF Callee, From, To
    <3>2. faults' # 0
      BY <1>0, <2>2, <3>1 DEF CallLost, IInv, UpUnlessFault
    <3> QED
      BY <2>2, <3>2 DEF CallLost
  <2> QED
    BY <2>1, <2>2
<1>6. /\ record' \in [Movers -> Record \cup {None}] /\ task' \in [Movers -> Task]
      /\ MovesRecorded' /\ RecordsSettled'
  <2>1. ASSUME NEW op \in {"snapshot", "fetch", "insert"}, Goto(m, op)
        PROVE  /\ record' \in [Movers -> Record \cup {None}] /\ task' \in [Movers -> Task]
               /\ MovesRecorded' /\ RecordsSettled'
    <3>1. /\ record' = record /\ task'[m] = op /\ task' \in [Movers -> Task]
          /\ \A n \in Movers \ {m} : task'[n] = task[n]
      BY <1>0, <2>1 DEF Goto, Task
    <3> QED
      BY <1>0, <1>1, <1>4, <3>1 DEF IInv, MovesRecorded, RecordsSettled
  <2>2. CASE Fail(m)
    <3>1. [record[m] EXCEPT !.status = "failed"] \in Record
      BY <1>0 DEF Record
    <3>2. /\ record'[m] = [record[m] EXCEPT !.status = "failed"] /\ task'[m] = "none"
          /\ \A n \in Movers \ {m} : record'[n] = record[n] /\ task'[n] = task[n]
          /\ task' \in [Movers -> Task] /\ record' \in [Movers -> Record \cup {None}]
      BY <1>0, <2>2, <3>1 DEF Fail, End, Task
    <3>3. record'[m].status = "failed"
      BY <1>0, <3>2 DEF Record
    <3> QED
      BY <1>1, <1>4, <3>2, <3>3 DEF IInv, MovesRecorded, RecordsSettled
  <2>3. CASE End(m) /\ record' = record /\ faults' # 0
    <3>1. /\ task'[m] = "none" /\ task' \in [Movers -> Task]
          /\ \A n \in Movers \ {m} : task'[n] = task[n]
      BY <1>0, <2>3 DEF End, Task
    <3> QED
      BY <1>0, <1>1, <2>3, <3>1 DEF IInv, MovesRecorded, RecordsSettled
  <2> QED
    BY <1>5, <2>1, <2>2, <2>3
<1>7. TypeOK'
  BY <1>0, <1>1, <1>2, <1>3, <1>4, <1>6 DEF TypeOK
<1> QED
  BY <1>2, <1>4, <1>6, <1>7 DEF IInv

\* Every step keeps the invariant, and leaves deleted VMs deleted.
LEMMA NextStep == IInv /\ [Next]_vars => IInv' /\ DeletedStay
<1> SUFFICES ASSUME IInv, [Next]_vars PROVE IInv' /\ DeletedStay
  OBVIOUS
<1>1. CASE UNCHANGED vars
  BY <1>1 DEF vars, moving, counters, IInv, TypeOK, MovesRecorded, RecordedStay, UpUnlessFault,
     RecordsSettled, DeletedStay
<1>2. ASSUME NEW m \in Movers, Work(m) \/ CallLost(m) PROVE IInv' /\ DeletedStay
  BY <1>2, RecordStep, CallStep DEF Work, Call
<1> QED
  BY <1>1, <1>2, HostStep, BeginStep DEF Next

\* The invariant holds in every reachable state.
LEMMA Invariant == Spec => []IInv
BY InitInv, NextStep, PTL DEF Spec

\* The variables of Fleet keep their types.
THEOREM TypeCorrect == Spec => []TypeOK
<1>1. IInv => TypeOK
  BY DEF IInv
<1> QED
  BY <1>1, Invariant, PTL

\* A VM that is deleted stays deleted, however many migrations of it had read it
\* before or end after (migration.rs migrate_vm, clone.rs migrate_vm).
THEOREM NotMadeAgain == Spec => DeletedForGood
<1>1. IInv /\ [Next]_vars => [\A v \in VMs : vms[v] = None => vms'[v] = None]_vars
  BY NextStep DEF DeletedStay
<1> QED
  BY <1>1, Invariant, PTL DEF Spec, DeletedForGood

\* A migration that ended says so in its record, whichever answer of an agent
\* ended it, unless an agent fell silent or a call broke (migration.rs migrate_vm).
THEOREM RecordsEnd == Spec => []RecordsSettled
<1>1. IInv => RecordsSettled
  BY DEF IInv
<1> QED
  BY <1>1, Invariant, PTL
-----------------------------------------------------------------------------
(***************************************************************************)
(* Resize.  While nothing is mixed, one resize at most is at work, and     *)
(* none beside a start; a process has what the row says but for what that  *)
(* resize has still to tell the agent.  That it read the VM as running,    *)
(* and so makes its calls, is the point: a VM that has started since is a  *)
(* start which the resize has overlapped.                                  *)
(***************************************************************************)
Matches(settings) == \A s \in settings : vmm[s] = row[Of[s]]

\* What the resize r has still to do to a process that runs.
InHand(r) ==
    /\ req[r].running
    /\ req[r].at = "write" =>
         /\ req[r].seen = row /\ Matches(Settings \ {"cap"})
         /\ \A x \in Resources \cap {"memory", "disk"} : req[r].want[x] = row[x]
    /\ req[r].at = "vcpus" =>
         /\ req[r].want = row /\ Matches(Settings \ {"cap", "weight", "shaping"})
         /\ "bandwidth" \in LiveCalls(r) \/ Matches(Settings \cap {"shaping"})
    /\ req[r].at = "bandwidth" => req[r].want = row /\ Matches(Settings \ {"cap", "shaping"})

InHandOrDone ==
    /\ "disk" \in Resources => overlay >= row["disk"]
    /\ Quiet => Matches(Settings \ {"cap"})
    /\ \A r \in Requests : req[r] # Nothing => InHand(r)

Following ==
    /\ \A r, q \in Requests : req[r] # Nothing /\ req[q] # Nothing => r = q
    /\ boot # Nothing => Quiet /\ boot = row
    /\ vmm # Nothing => InHandOrDone

RunsIfHeld == (vmm # Nothing => status = "running") /\ (boot # Nothing => status = "starting")

ResizeIInv == ResizeTypeOK /\ RunsIfHeld /\ (~mixed => Following)

\* The invariant holds for a stopped VM whose disk has the row's size.
LEMMA ResizeInitInv == ResizeInit => ResizeIInv
<1> SUFFICES ASSUME ResizeInit PROVE ResizeIInv
  OBVIOUS
<1>1. ResizeTypeOK
  <2>1. 1 \in Sizes
    BY SizeAssumption DEF Sizes
  <2>2. row \in Sized
    BY <2>1 DEF ResizeInit, Sized
  <2> QED
    BY <2>1, <2>2 DEF ResizeInit, ResizeTypeOK
<1> QED
  BY <1>1 DEF ResizeInit, ResizeIInv, RunsIfHeld, Following

\* The resources of the settings.
LEMMA SettingsAre ==
  /\ Settings \subseteq {"cap", "weight", "mem", "shaping"}
  /\ \A s \in Settings : Of[s] \in Resources
  /\ Of["cap"] = "vcpus" /\ Of["weight"] = "vcpus" /\ Of["mem"] = "memory" /\ Of["shaping"] = "bandwidth"
  /\ \A s \in {"cap", "weight", "mem", "shaping"} : Of[s] \in Resources => s \in Settings
BY DEF Settings, Of

\* A resize begins: it overlaps nothing, or it is noted as mixed.
LEMMA ResizeReadStep ==
  ASSUME ResizeIInv, NEW r \in Requests, ResizeRead(r)
  PROVE  ResizeIInv'
<1>0. ResizeTypeOK /\ req \in [Requests -> Handler \cup {Nothing}] /\ row \in Sized
  BY DEF ResizeIInv, ResizeTypeOK
<1>1. PICK want \in Sized :
        /\ \A x \in Resources \cap {"memory", "disk"} : status = "running" => want[x] = row[x]
        /\ req' = [req EXCEPT ![r] = [at |-> "write", seen |-> row, want |-> want,
                                      running |-> status = "running"]]
        /\ mixed' = (mixed \/ Others(r) \/ boot # Nothing)
        /\ UNCHANGED <<row, status, boot, vmm, overlay>> /\ req[r] = Nothing
  BY DEF ResizeRead
<1> DEFINE new == [at |-> "write", seen |-> row, want |-> want, running |-> status = "running"]
<1>2. /\ new \in Handler /\ new # Nothing
      /\ new.at = "write" /\ new.seen = row /\ new.want = want
      /\ new.running = (status = "running")
  <2>1. new \in Handler
    <3>1. PICK b \in BOOLEAN : b = (status = "running")
      OBVIOUS
    <3>2. [at |-> "write", seen |-> row, want |-> want, running |-> b] \in Handler
      BY <1>0 DEF Handler
    <3> QED
      BY <3>1, <3>2
  <2> QED
    BY <2>1, NothingAssumption
<1>3. req'[r] = new /\ \A q \in Requests \ {r} : req'[q] = req[q]
  BY <1>0, <1>1
<1> HIDE DEF new
<1>4. ResizeTypeOK'
  <2>1. mixed' \in BOOLEAN
    BY <1>1
  <2>2. req' \in [Requests -> Handler \cup {Nothing}]
    BY <1>0, <1>1, <1>2 DEF new
  <2> QED
    BY <1>0, <1>1, <2>1, <2>2 DEF ResizeTypeOK
<1>5. ASSUME ~mixed' PROVE Following'
  <2>1. Following /\ boot = Nothing /\ \A q \in Requests \ {r} : req'[q] = Nothing
    BY <1>1, <1>3, <1>5 DEF ResizeIInv, Others
  <2>2. Quiet /\ ~Quiet'
    BY <1>1, <1>2, <1>3, <2>1 DEF Quiet
  <2>3. ASSUME vmm' # Nothing PROVE InHandOrDone'
    <3>1. status = "running" /\ InHandOrDone /\ Matches(Settings \ {"cap"})
      BY <1>1, <2>1, <2>2, <2>3 DEF Following, ResizeIInv, RunsIfHeld, InHandOrDone
    <3>2. Matches(Settings \ {"cap"})'
      BY <1>1, <3>1 DEF Matches
    <3>3. InHand(r)'
      <4>1. row' = row /\ req'[r].seen = row /\ req'[r].running /\ req'[r].at = "write"
            /\ \A x \in Resources \cap {"memory", "disk"} : req'[r].want[x] = row[x]
        BY <1>1, <1>2, <1>3, <3>1
      <4> QED
        BY <3>2, <4>1 DEF InHand
    <3> QED
      BY <1>1, <2>1, <2>2, <3>1, <3>3 DEF InHandOrDone
  <2> QED
    BY <1>1, <2>1, <2>3 DEF Following
<1> QED
  BY <1>1, <1>4, <1>5 DEF ResizeIInv, RunsIfHeld
\* What a resize is once it goes on with the calls that are left.
LEMMA ProceedIs ==
  ASSUME ResizeIInv, NEW r \in Requests, req[r] # Nothing, NEW made, Proceed(r, made)
  PROVE  /\ req' \in [Requests -> Handler \cup {Nothing}]
         /\ \A q \in Requests \ {r} : req'[q] = req[q]
         /\ req'[r] = Nothing <=> LiveCalls(r) \ made = {}
         /\ req'[r] # Nothing =>
              /\ req'[r].at = IF "vcpus" \in LiveCalls(r) \ made THEN "vcpus" ELSE "bandwidth"
              /\ req'[r].want = req[r].want /\ req'[r].seen = req[r].seen
              /\ req'[r].running = req[r].running
              /\ LiveCalls(r)' = LiveCalls(r)
<1>0. req \in [Requests -> Handler \cup {Nothing}] /\ req[r] \in Handler
  BY DEF ResizeIInv, ResizeTypeOK
<1>1. CASE LiveCalls(r) \ made = {}
  BY <1>0, <1>1 DEF Proceed, Answer
<1>2. CASE LiveCalls(r) \ made # {}
  <2>1. PICK c \in {"vcpus", "bandwidth"} :
          c = IF "vcpus" \in LiveCalls(r) \ made THEN "vcpus" ELSE "bandwidth"
    OBVIOUS
  <2> DEFINE new == [req[r] EXCEPT !.at = c]
  <2>2. /\ new \in Handler /\ new.at = c /\ new.want = req[r].want /\ new.seen = req[r].seen
        /\ new.running = req[r].running
    BY <1>0 DEF Handler
  <2>3. req' = [req EXCEPT ![r] = new]
    BY <1>2, <2>1 DEF Proceed
  <2> HIDE DEF new
  <2>4. req'[r] = new /\ new # Nothing /\ \A q \in Requests \ {r} : req'[q] = req[q]
    BY <1>0, <2>2, <2>3, NothingAssumption
  <2>5. LiveCalls(r)' = LiveCalls(r)
    BY <2>2, <2>4 DEF LiveCalls
  <2> QED
    BY <1>0, <1>2, <2>1, <2>2, <2>3, <2>4, <2>5
<1> QED
  BY <1>1, <1>2

\* A resize at work is alone, and no start is.
LEMMA AloneAtWork ==
  ASSUME ResizeIInv, ~mixed, NEW r \in Requests, req[r] # Nothing
  PROVE  /\ boot = Nothing /\ ~Quiet /\ \A q \in Requests \ {r} : req[q] = Nothing
         /\ vmm # Nothing => InHandOrDone /\ InHand(r)
BY DEF ResizeIInv, Following, Quiet, InHandOrDone

\* A resize goes on.
LEMMA GoesOn ==
  ASSUME ResizeIInv, NEW r \in Requests, req[r] # Nothing, NEW made, Proceed(r, made),
         row' \in Sized, vmm' \in [Settings -> Sizes] \cup {Nothing},
         vmm' # Nothing => vmm # Nothing, UNCHANGED <<status, boot, overlay, mixed>>,
         ~mixed /\ vmm' # Nothing =>
            /\ "disk" \in Resources => overlay >= row'["disk"]
            /\ IF req'[r] = Nothing THEN Matches(Settings \ {"cap"})' ELSE InHand(r)'
  PROVE  ResizeIInv'
<1>1. /\ req' \in [Requests -> Handler \cup {Nothing}]
      /\ \A q \in Requests \ {r} : req'[q] = req[q]
  BY ProceedIs
<1>2. ResizeTypeOK'
  BY <1>1 DEF ResizeIInv, ResizeTypeOK
<1>3. ASSUME ~mixed PROVE Following'
  <2>1. boot' = Nothing /\ \A q \in Requests \ {r} : req'[q] = Nothing
    BY <1>1, <1>3, AloneAtWork
  <2>2. ASSUME vmm' # Nothing PROVE InHandOrDone'
    BY <1>3, <2>1, <2>2 DEF InHandOrDone, Quiet
  <2> QED
    BY <2>1, <2>2 DEF Following
<1> QED
  BY <1>2, <1>3 DEF ResizeIInv, RunsIfHeld

\* The row's UPDATE: what it promises is what was wanted, if nothing overlapped.
LEMMA ResizeWriteStep ==
  ASSUME ResizeIInv, NEW r \in Requests, ResizeWrite(r)
  PROVE  ResizeIInv'
<1>0. /\ req[r] # Nothing /\ req[r].at = "write" /\ row' = req[r].want /\ Proceed(r, {})
      /\ UNCHANGED <<status, boot, vmm, overlay, mixed>>
      /\ req[r] \in Handler /\ vmm \in [Settings -> Sizes] \cup {Nothing}
  BY DEF ResizeWrite, Handling, ResizeIInv, ResizeTypeOK
<1>1. row' \in Sized
  BY <1>0 DEF Handler
<1>2. ASSUME ~mixed, vmm # Nothing
      PROVE  /\ "disk" \in Resources => overlay >= row'["disk"]
             /\ IF req'[r] = Nothing THEN Matches(Settings \ {"cap"})' ELSE InHand(r)'
  <2>1. InHandOrDone /\ InHand(r)
    BY <1>0, <1>2, AloneAtWork
  <2>2. /\ req[r].running /\ req[r].seen = row
        /\ \A s \in Settings \ {"cap"} : vmm[s] = row[Of[s]]
        /\ \A x \in Resources \cap {"memory", "disk"} : row'[x] = row[x]
    BY <1>0, <2>1 DEF InHand, Matches
  <2>3. \A x \in Resources : x \in LiveCalls(r) \/ row'[x] = row[x]
    BY <1>0, <2>2, ResourcesAssumption DEF AllResources, LiveCalls
  <2>4. \A s \in Settings \ {"cap"} : Of[s] \in LiveCalls(r) \/ vmm'[s] = row'[Of[s]]
    BY <1>0, <2>2, <2>3, SettingsAre
  <2>5. "disk" \in Resources => overlay >= row'["disk"]
    BY <2>1, <2>2 DEF InHandOrDone
  <2>6. LiveCalls(r) \subseteq {"vcpus", "bandwidth"}
    BY DEF LiveCalls
  <2>7. CASE req'[r] = Nothing
    <3>1. LiveCalls(r) = {}
      BY <1>0, <2>7, ProceedIs
    <3> QED
      BY <2>4, <2>5, <2>7, <3>1 DEF Matches
  <2>8. CASE req'[r] # Nothing
    <3>1. /\ req'[r].at = IF "vcpus" \in LiveCalls(r) THEN "vcpus" ELSE "bandwidth"
          /\ req'[r].want = row' /\ req'[r].running /\ LiveCalls(r)' = LiveCalls(r)
      BY <1>0, <2>2, <2>8, ProceedIs
    <3>2. \A s \in Settings \ {"cap"} :
            s \in {"weight", "mem", "shaping"} /\
            (\/ vmm'[s] = row'[Of[s]]
             \/ s = "weight" /\ "vcpus" \in LiveCalls(r)
             \/ s = "shaping" /\ "bandwidth" \in LiveCalls(r))
      BY <2>4, <2>6, SettingsAre
    <3>3. InHand(r)'
      BY <3>1, <3>2 DEF InHand, Matches
    <3> QED
      BY <2>5, <2>8, <3>3
  <2> QED
    BY <2>7, <2>8
<1> QED
  BY <1>0, <1>1, <1>2, GoesOn

\* The first call to the agent.
LEMMA ResizeCpuStep ==
  ASSUME ResizeIInv, NEW r \in Requests, ResizeCpu(r)
  PROVE  ResizeIInv'
<1>0. /\ req[r] # Nothing /\ req[r].at = "vcpus" /\ vmm # Nothing /\ Proceed(r, {"vcpus"})
      /\ vmm' = [vmm EXCEPT !["weight"] = req[r].want["vcpus"]]
      /\ UNCHANGED <<row, status, boot, overlay, mixed>>
      /\ req[r].want \in Sized /\ row \in Sized /\ vmm \in [Settings -> Sizes]
  BY DEF ResizeCpu, Handling, ResizeIInv, ResizeTypeOK, Handler
<1>1. vmm' \in [Settings -> Sizes]
  <2>1. "weight" \in Settings => req[r].want["vcpus"] \in Sizes
    BY <1>0, SettingsAre DEF Sized
  <2> QED
    BY <1>0, <2>1
<1>2. ASSUME ~mixed
      PROVE  /\ "disk" \in Resources => overlay >= row'["disk"]
             /\ IF req'[r] = Nothing THEN Matches(Settings \ {"cap"})' ELSE InHand(r)'
  <2>1. InHandOrDone /\ InHand(r)
    BY <1>0, <1>2, AloneAtWork
  <2>2. /\ req[r].running /\ req[r].want = row /\ Matches(Settings \ {"cap", "weight", "shaping"})
        /\ "bandwidth" \in LiveCalls(r) \/ Matches(Settings \cap {"shaping"})
    BY <1>0, <2>1 DEF InHand
  <2>3. \A s \in Settings \ {"cap"} :
          \/ vmm'[s] = row'[Of[s]]
          \/ s = "shaping" /\ "bandwidth" \in LiveCalls(r)
    BY <1>0, <2>2, SettingsAre DEF Matches
  <2>4. "disk" \in Resources => overlay >= row'["disk"]
    BY <1>0, <2>1 DEF InHandOrDone
  <2>5. CASE req'[r] = Nothing
    <3>1. "bandwidth" \notin LiveCalls(r)
      BY <1>0, <2>5, ProceedIs
    <3> QED
      BY <2>3, <2>4, <2>5, <3>1 DEF Matches
  <2>6. CASE req'[r] # Nothing
    <3>1. req'[r].at = "bandwidth" /\ req'[r].want = row' /\ req'[r].running
      BY <1>0, <2>2, <2>6, ProceedIs
    <3>2. InHand(r)'
      BY <2>3, <3>1 DEF InHand, Matches
    <3> QED
      BY <2>4, <2>6, <3>2
  <2> QED
    BY <2>5, <2>6
<1> QED
  BY <1>0, <1>1, <1>2, GoesOn

\* The second, which is the last.
LEMMA ResizeBandwidthStep ==
  ASSUME ResizeIInv, NEW r \in Requests, ResizeBandwidth(r)
  PROVE  ResizeIInv'
<1>0. /\ req[r] # Nothing /\ req[r].at = "bandwidth" /\ vmm # Nothing /\ Answer(r)
      /\ vmm' = [vmm EXCEPT !["shaping"] = req[r].want["bandwidth"]]
      /\ UNCHANGED <<row, status, boot, overlay, mixed>>
      /\ req[r].want \in Sized /\ row \in Sized /\ vmm \in [Settings -> Sizes]
  BY DEF ResizeBandwidth, Handling, ResizeIInv, ResizeTypeOK, Handler
<1>1. vmm' \in [Settings -> Sizes]
  <2>1. "shaping" \in Settings => req[r].want["bandwidth"] \in Sizes
    BY <1>0, SettingsAre DEF Sized
  <2> QED
    BY <1>0, <2>1
<1>2. /\ req' \in [Requests -> Handler \cup {Nothing}] /\ req'[r] = Nothing
      /\ \A q \in Requests \ {r} : req'[q] = req[q]
  BY <1>0 DEF Answer, ResizeIInv, ResizeTypeOK
<1>3. ASSUME ~mixed PROVE Following'
  <2>1. /\ InHandOrDone /\ InHand(r) /\ boot' = Nothing
        /\ \A q \in Requests : req'[q] = Nothing
    BY <1>0, <1>2, <1>3, AloneAtWork
  <2>2. req[r].want = row /\ Matches(Settings \ {"cap", "shaping"})
    BY <1>0, <2>1 DEF InHand
  <2>3. Matches(Settings \ {"cap"})'
    BY <1>0, <2>2, SettingsAre DEF Matches
  <2>4. InHandOrDone'
    BY <1>0, <2>1, <2>3 DEF InHandOrDone
  <2> QED
    BY <2>1, <2>4 DEF Following
<1> QED
  BY <1>0, <1>1, <1>2, <1>3 DEF ResizeIInv, ResizeTypeOK, RunsIfHeld

\* A call that fails is noted as mixed.
LEMMA ResizeFailsStep ==
  ASSUME ResizeIInv, NEW r \in Requests, ResizeFails(r)
  PROVE  ResizeIInv'
BY DEF ResizeFails, Answer, ResizeIInv, ResizeTypeOK, RunsIfHeld

\* The overlay keeps its size, or gets that of a resource.
LEMMA OverlayGrows ==
  ASSUME ResizeTypeOK, boot # Nothing,
         overlay' = IF "disk" \in Resources THEN Resized(boot["disk"]) ELSE overlay
  PROVE  /\ overlay' \in Sizes
         /\ "disk" \in Resources => overlay' >= boot["disk"]
<1>1. overlay \in Sizes /\ boot \in Sized
  BY DEF ResizeTypeOK
<1>2. \A size \in Sizes : Resized(size) \in Sizes /\ Resized(size) >= size
  BY <1>1, SizeAssumption DEF Resized, Sizes
<1>3. "disk" \in Resources => boot["disk"] \in Sizes
  BY <1>1 DEF Sized
<1> QED
  BY <1>1, <1>2, <1>3

\* Starts and ends of the process.
LEMMA StartStep ==
  ASSUME ResizeIInv, Reserve \/ StartRead \/ StartBoot \/ StartFails \/ Ends
  PROVE  ResizeIInv'
<1>0. ResizeTypeOK /\ RunsIfHeld /\ (~mixed => Following)
  BY DEF ResizeIInv
<1>1. CASE Reserve
  <2>1. /\ vmm = Nothing /\ boot = Nothing /\ UNCHANGED <<row, boot, vmm, overlay, req, mixed>>
        /\ status' = "starting"
    BY <1>0, <1>1 DEF Reserve, RunsIfHeld
  <2> QED
    BY <1>0, <2>1 DEF ResizeIInv, ResizeTypeOK, RunsIfHeld, Following, Quiet
<1>2. CASE StartRead
  <2>1. /\ vmm = Nothing /\ boot' = row /\ mixed' = ~Quiet /\ status = "starting"
        /\ UNCHANGED <<row, status, vmm, overlay, req>>
    BY <1>0, <1>2 DEF StartRead, RunsIfHeld
  <2>2. mixed' \in BOOLEAN
    BY <2>1
  <2>3. ResizeTypeOK' /\ RunsIfHeld'
    BY <1>0, <2>1, <2>2 DEF ResizeTypeOK, RunsIfHeld
  <2>4. ASSUME ~mixed' PROVE Following'
    BY <2>1, <2>4 DEF Following, Quiet
  <2> QED
    BY <2>3, <2>4 DEF ResizeIInv
<1>3. CASE StartBoot
  <2>1. /\ boot # Nothing /\ boot' = Nothing /\ vmm' = [s \in Settings |-> boot[Of[s]]]
        /\ status' = "running" /\ UNCHANGED <<row, req, mixed>>
        /\ overlay' \in Sizes /\ ("disk" \in Resources => overlay' >= boot["disk"])
        /\ boot \in Sized
    BY <1>0, <1>3, OverlayGrows DEF StartBoot, ResizeTypeOK
  <2>2. vmm' \in [Settings -> Sizes]
    BY <2>1, SettingsAre DEF Sized
  <2>3. ResizeTypeOK' /\ RunsIfHeld'
    BY <1>0, <2>1, <2>2 DEF ResizeTypeOK, RunsIfHeld
  <2>4. ASSUME ~mixed PROVE Following'
    <3>1. Quiet /\ boot = row
      BY <1>0, <2>1, <2>4 DEF Following
    <3>2. \A r \in Requests : req'[r] = Nothing
      BY <2>1, <3>1 DEF Quiet
    <3>3. Matches(Settings)'
      BY <2>1, <3>1 DEF Matches
    <3> QED
      BY <2>1, <3>1, <3>2, <3>3 DEF Following, InHandOrDone, Matches
  <2> QED
    BY <2>1, <2>3, <2>4 DEF ResizeIInv
<1>4. CASE StartFails
  <2>1. /\ boot # Nothing /\ boot' = Nothing /\ vmm' = vmm /\ status' = "error"
        /\ UNCHANGED <<row, req, mixed>> /\ overlay' \in Sizes /\ vmm = Nothing
    BY <1>0, <1>4, OverlayGrows DEF StartFails, RunsIfHeld
  <2> QED
    BY <1>0, <2>1 DEF ResizeIInv, ResizeTypeOK, RunsIfHeld, Following, Quiet
<1>5. CASE Ends
  <2>1. /\ vmm' = Nothing /\ status' \in {"stopped", "error"} /\ boot = Nothing
        /\ UNCHANGED <<row, boot, overlay, req, mixed>>
    BY <1>0, <1>5 DEF Ends, RunsIfHeld
  <2> QED
    BY <1>0, <2>1 DEF ResizeIInv, ResizeTypeOK, RunsIfHeld, Following, Quiet
<1> QED
  BY <1>1, <1>2, <1>3, <1>4, <1>5

\* The invariant holds in every reachable state.
LEMMA ResizeInvariant == ResizeSpec => []ResizeIInv
<1>1. ResizeIInv /\ [ResizeNext]_resizeVars => ResizeIInv'
  <2> SUFFICES ASSUME ResizeIInv, [ResizeNext]_resizeVars PROVE ResizeIInv'
    OBVIOUS
  <2>1. CASE UNCHANGED resizeVars
    BY <2>1 DEF resizeVars, ResizeIInv, ResizeTypeOK, RunsIfHeld, Following, InHandOrDone, Quiet,
       Matches, InHand, LiveCalls
  <2> QED
    BY <2>1, StartStep, ResizeReadStep, ResizeWriteStep, ResizeCpuStep, ResizeBandwidthStep,
       ResizeFailsStep DEF ResizeNext
<1> QED
  BY <1>1, ResizeInitInv, PTL DEF ResizeSpec

\* The variables of Resize keep their types.
THEOREM ResizeTypeCorrect == ResizeSpec => []ResizeTypeOK
<1>1. ResizeIInv => ResizeTypeOK
  BY DEF ResizeIInv
<1> QED
  BY <1>1, ResizeInvariant, PTL

\* After a start that no resize overlapped, resizes that come one at a time and do
\* not fail keep the process and its disk at what the row says, but for cpu.max
\* (ops.rs resize_resources, overlay.rs resize_overlay, manager/mod.rs resize_cpu).
THEOREM StartsSettle == ResizeSpec => []StartSettles
<1>1. ResizeIInv => StartSettles
  BY DEF ResizeIInv, Following, InHandOrDone, Matches, StartSettles
<1> QED
  BY <1>1, ResizeInvariant, PTL
=============================================================================
