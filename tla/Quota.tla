------------------------------- MODULE Quota -------------------------------
(***************************************************************************)
(* The quota of one account: check_quota_and_reserve runs in a             *)
(* SERIALIZABLE transaction of PostgreSQL beside the plain updates of      *)
(* everything else that writes a vms row.                                  *)
(*                                                                         *)
(* PostgreSQL is external and modelled by what it guarantees: a            *)
(* transaction reads one snapshot; an UPDATE of a row that was written     *)
(* after that snapshot fails at the statement; a row updated and not yet   *)
(* committed is locked; of two serializable transactions that read the set *)
(* of active VMs and write into it, the one that commits second fails. It  *)
(* may also fail a transaction needlessly.                                 *)
(***************************************************************************)
EXTENDS QuotaUnits

CONSTANTS
    Requests,   \* start and resize requests being served
    Sizes,      \* the resources a VM can be given
    None        \* no VM

ASSUME QuotaAssumption ==
    /\ "memory" \in Resource
    /\ Sizes \subseteq Demand
    /\ None \notin VMs

VARIABLES
    status,     \* status of each VM's row
    size,       \* vcpus and memory_mb of each VM's row, and 1 for itself
    req,        \* per request: where it stands and what it read
    grant,      \* history: what the present run of each VM was admitted with
    over,       \* history: why each VM may use more than it was admitted with
    outgrown    \* history: requests whose VM has grown since they read it

histories == <<over, outgrown>>
vars == <<status, size, req, grant, histories>>

\* 'stopped' stands for every status that does not count.
Status == {"stopped", "starting", "running"}

Points == {"idle", "begin", "update", "commit", "resize"}

\* What was committed since a transaction's snapshot: another reservation of
\* the account, a write of the VM's own row.
Conflict == {"reservation", "row"}

\* Nothing, a run that was not reserved, a VM that grew in its run, a reservation
\* whose demand was read before the row grew.
Excess == {"none", "unreserved", "grown", "stale"}

Request == [pc : Points, vm : VMs \cup {None}, want : Demand, tries : 0..2,
            seen : SUBSET Conflict]

Fresh(p, v, d, n) ==
    [pc |-> p, vm |-> v, want |-> d, tries |-> n, seen |-> {}]

Idle == Fresh("idle", None, Nothing, 0)

TypeOK ==
    /\ status \in [VMs -> Status]
    /\ size \in [VMs -> Demand]
    /\ grant \in [VMs -> Demand]
    /\ req \in [Requests -> Request]
    /\ \A r \in Requests : req[r].pc # "idle" => req[r].vm \in VMs
    /\ over \in [VMs -> Excess] /\ outgrown \subseteq Requests

Init ==
    /\ status = [v \in VMs |-> "stopped"]
    /\ size \in [VMs -> Sizes]
    /\ req = [r \in Requests |-> Idle]
    /\ grant = [v \in VMs |-> Nothing]
    /\ over = [v \in VMs |-> "none"] /\ outgrown = {}

(***************************************************************************)
(* Rows and transactions                                                   *)
(***************************************************************************)
ActiveStatus == {"running", "starting"}

\* What SUM and COUNT run over: the rows that are running or starting.
Used == [v \in VMs |-> IF status[v] \in ActiveStatus THEN size[v] ELSE Nothing]

InTransaction(r) == req[r].pc \in {"update", "commit"}

\* A transaction that updated a row holds its lock until it ends.
Unlocked(v) == \A r \in Requests : ~(req[r].pc = "commit" /\ req[r].vm = v)

\* A plain write of v's row, as its transactions will notice it.
Overwritten(q) == [q EXCEPT !.seen = @ \cup {"row"}]

Moved(v) == [q \in Requests |->
    IF InTransaction(q) /\ req[q].vm = v THEN Overwritten(req[q])
    ELSE req[q]]

\* A reservation of v, as the other transactions will notice it.
Outrun(q, v) ==
    [q EXCEPT !.seen = @ \cup IF q.vm = v THEN Conflict ELSE {"reservation"}]

Overtaken(r) == [q \in Requests |->
    IF q = r THEN Idle
    ELSE IF InTransaction(q) THEN Outrun(req[q], req[r].vm)
    ELSE req[q]]

Goto(r, q) == req' = [req EXCEPT ![r] = q]

Done(r) == Goto(r, Idle) /\ outgrown' = outgrown \ {r}

Entering(q, p) == [q EXCEPT !.pc = p]

Advance(r, p) == Goto(r, Entering(req[r], p)) /\ UNCHANGED outgrown

(***************************************************************************)
(* ControlPlaneOps::start_vm up to the reservation                         *)
(***************************************************************************)

\* get_vm: the demand is what the row says now.
StartRead(r, v) ==
    /\ req[r].pc = "idle"
    /\ Goto(r, Fresh("begin", v, size[v], 1))
    /\ UNCHANGED <<status, size, grant, histories>>

\* Mutant: what is used is compared with the limit, not what would be used.
RoomIgnoresDemand(d) == \A k \in Resource : Total(Used, k) <= Limit[k]

\* Every active VM counts, also the one that starts, should it be active.
Room(d) == \A k \in Resource : Total(Used, k) + d[k] <= Limit[k]

\* The two SELECTs, which read one snapshot, and the three comparisons.
CheckQuota(r) ==
    /\ req[r].pc = "begin"
    /\ IF Room(req[r].want) THEN Advance(r, "update") ELSE Done(r)
    /\ UNCHANGED <<status, size, grant, over>>

\* UPDATE vms SET status='starting': a conflict shows here as a Db error,
\* which start_vm does not retry.
UpdateRow(r) ==
    /\ req[r].pc = "update" /\ Unlocked(req[r].vm)
    /\ IF "row" \in req[r].seen THEN Done(r) ELSE Advance(r, "commit")
    /\ UNCHANGED <<status, size, grant, over>>

Reserve(r) ==
    /\ status' = [status EXCEPT ![req[r].vm] = "starting"]
    /\ grant' = [grant EXCEPT ![req[r].vm] =
                                Lower(req[r].want, size[req[r].vm])]
    /\ over' = [over EXCEPT ![req[r].vm] = IF r \in outgrown THEN "stale" ELSE "none"]
    /\ req' = Overtaken(r)
    /\ outgrown' = outgrown \ {r}
    /\ UNCHANGED size

\* Mutant: without SERIALIZABLE no conflict is seen at the commit.
CommitUnserialized(r) == req[r].pc = "commit" /\ Reserve(r)

Commit(r) ==
    /\ req[r].pc = "commit" /\ "reservation" \notin req[r].seen
    /\ Reserve(r)

\* Mutant: the retry has lost the VM it is for.
CommitFailsForgets(r) ==
    /\ req[r].pc = "commit"
    /\ IF req[r].tries = 2 THEN Done(r)
       ELSE Goto(r, Fresh("begin", None, req[r].want, 2)) /\ UNCHANGED outgrown
    /\ UNCHANGED <<status, size, grant, over>>

\* QuotaError::Serialization, with a cause or without: one more try, with the
\* demand read at first.
CommitFails(r) ==
    /\ req[r].pc = "commit"
    /\ IF req[r].tries = 2 THEN Done(r)
       ELSE Goto(r, Fresh("begin", req[r].vm, req[r].want, 2)) /\ UNCHANGED outgrown
    /\ UNCHANGED <<status, size, grant, over>>

\* Any other error, and the control plane's end.
Abort(r) ==
    /\ req[r].pc # "idle"
    /\ Done(r)
    /\ UNCHANGED <<status, size, grant, over>>

(***************************************************************************)
(* ControlPlaneOps::resize_resources: no quota is checked, and all values  *)
(* are written back as decided on the row read before.                     *)
(***************************************************************************)
ResizeRead(r, v, d) ==
    /\ req[r].pc = "idle"
    /\ d["memory"] # size[v]["memory"] => status[v] # "running"
    /\ Goto(r, Fresh("resize", v, d, 1))
    /\ UNCHANGED <<status, size, grant, histories>>

Active(v) == status[v] \in ActiveStatus

Grows(v, d) == \E k \in Resource : d[k] > size[v][k]

ReadersOf(v) == {q \in Requests : req[q].pc \in {"begin", "update", "commit"} /\ req[q].vm = v}

ResizeWrite(r) ==
    LET v == req[r].vm IN
    /\ req[r].pc = "resize" /\ Unlocked(v)
    /\ size' = [size EXCEPT ![v] = req[r].want]
    /\ grant' = [grant EXCEPT ![v] = Lower(@, req[r].want)]
    /\ over' = [over EXCEPT ![v] =
                  IF Grows(v, req[r].want) /\ Active(v) THEN "grown" ELSE @]
    /\ outgrown' = outgrown \cup IF Grows(v, req[r].want) THEN ReadersOf(v) ELSE {}
    /\ req' = [Moved(v) EXCEPT ![r] = Idle]
    /\ UNCHANGED status

(***************************************************************************)
(* Every other write of a status, whoever makes it: the agent's, the event *)
(* watcher's, the heartbeat's. Restores and recoveries make a VM active    *)
(* without a quota check. (VmLifecycle has the order of these writes.)     *)
(***************************************************************************)
StatusWrite(v, s) ==
    /\ s # status[v] /\ Unlocked(v)
    /\ status' = [status EXCEPT ![v] = s]
    /\ grant' = [grant EXCEPT ![v] =
                    IF {s, status[v]} \subseteq ActiveStatus THEN @
                    ELSE Nothing]
    /\ over' = [over EXCEPT ![v] = IF s \notin ActiveStatus THEN "none"
                                  ELSE IF Active(v) THEN @ ELSE "unreserved"]
    /\ req' = Moved(v)
    /\ UNCHANGED <<size, outgrown>>

Start(r) ==
    \/ \E v \in VMs : StartRead(r, v)
    \/ CheckQuota(r) \/ UpdateRow(r) \/ Commit(r) \/ CommitFails(r)
    \/ Abort(r)

Resize(r) ==
    \/ \E v \in VMs, d \in Sizes : ResizeRead(r, v, d)
    \/ ResizeWrite(r)

Next ==
    \/ \E r \in Requests : Start(r) \/ Resize(r)
    \/ \E v \in VMs, s \in Status : StatusWrite(v, s)

Spec == Init /\ [][Next]_vars

(***************************************************************************)
(* Properties                                                              *)
(***************************************************************************)

\* A VM counts in full, by its row as it is now, unless there is a reason why it
\* may use more than it was admitted with: then by what it was admitted with.
Counted == [v \in VMs |-> IF over[v] = "none" THEN Used[v] ELSE grant[v]]

\* The account's active VMs fit its limits at all times: concurrent starts,
\* retries, starts of a VM that is active already or is resized meanwhile never
\* admit more than there is.  Only by a VM that bypasses the check (restore,
\* recovery), that grows in its run, or that grew after its start had read its
\* demand (ops.rs:149, used again by the retry at 160) does an account exceed its
\* limits, and then by no more than that VM has beyond what was admitted.
\* (db/src/lib.rs: "to prevent concurrent starts from racing")
AdmittedFit == Fits(Counted)

\* The transaction is as good as an atomic check-and-reserve.
Ledger == INSTANCE QuotaLedger

AtomicAdmission == Ledger!Spec
=============================================================================
