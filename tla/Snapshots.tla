----------------------------- MODULE Snapshots -----------------------------
(***************************************************************************)
(* The snapshots of one VM (host-agent manager/snapshot.rs) and what       *)
(* deleting the VM does to them (manager/mod.rs delete_vm): the rows, the  *)
(* files in the VM's jail and the guest, which is paused while a snapshot  *)
(* is written.  A snapshot goes through the VM's handle when the agent has *)
(* it and through the API socket otherwise, as after a restart.  Starts    *)
(* and stops are single steps here; VmLifecycle has theirs.                *)
(***************************************************************************)
EXTENDS Naturals, FiniteSets

CONSTANTS Snaps,     \* ids for snapshots
          Requests, None,
          Limit      \* MAX_SNAPSHOTS

ASSUME LimitAssumption == Limit \in Nat \ {0}
ASSUME RequestsAssumption == IsFiniteSet(Requests)

VARIABLES status,    \* the VM's row, "gone" without one
          guest,     \* "off", "running" or "paused"
          handle,    \* the handle is in the map `running`
          refs,      \* a row of another table without ON DELETE CASCADE names the VM
          rows,      \* rows of snapshots
          files,     \* snapshots whose files exist
          used,      \* ids that were given
          req,       \* req[r]: the handler that r runs, between two statements
          half,      \* snapshots whose deletion was left between files and row
          cleaned,   \* snapshots whose files fctools removed with the jail
                     \* (both are histories, which end with the row)
          faults     \* "paused": a guest was left paused; "jail": the last step of
                     \* delete_vm failed or was not reached

vars == <<status, guest, handle, refs, rows, files, used, req, half, cleaned, faults>>

Statuses == {"stopped", "starting", "running", "error", "gone"}
Handler == [at : {"count", "handle", "pause", "create", "resume", "failed", "put", "insert",
                  "boot", "files", "row", "vmlist", "vmfiles", "vmrow", "vmjail"},
            via : {"handle", "socket"}, snap : Snaps \cup {None}, ok : BOOLEAN,
            list : SUBSET Snaps]

\* No snapshot and no handler are none that there could be.
ASSUME NoneAssumption == None \notin Snaps \cup Handler

Handling(r, at) == req[r] # None /\ req[r].at = at
Accept(r, at, snap) ==
    /\ req[r] = None
    /\ req' = [req EXCEPT ![r] = [at |-> at, via |-> "socket", snap |-> snap, ok |-> TRUE,
                                  list |-> {}]]
Continue(r, at) == req' = [req EXCEPT ![r].at = at]
Answer(r) == req' = [req EXCEPT ![r] = None]
FreeId(s) == s \notin used

JailExists ==
    status = "gone" => "jail" \in faults \/ \E r \in Requests : Handling(r, "vmjail")

vmVars == <<status, handle, refs>>
snapVars == <<rows, files, used, half, cleaned>>

-----------------------------------------------------------------------------
Init ==
    /\ status = "running" /\ guest = "running" /\ handle = TRUE /\ refs = FALSE
    /\ rows = {} /\ files = {} /\ used = {}
    /\ half = {} /\ cleaned = {} /\ faults = {}
    /\ req = [r \in Requests |-> None]

\* take_snapshot: the VM must be running ...
TakeRead(r) ==
    /\ status = "running"
    /\ Accept(r, "count", None)
    /\ UNCHANGED <<vmVars, guest, snapVars, faults>>

\* Mutant: the limit is compared with > instead of >=.
TakeCountMore(r) ==
    /\ Handling(r, "count") /\ Cardinality(rows) =< Limit
    /\ \E s \in Snaps :
         /\ FreeId(s)
         /\ used' = used \cup {s}
         /\ req' = [req EXCEPT ![r].at = "handle", ![r].snap = s]
    /\ UNCHANGED <<vmVars, guest, rows, files, half, cleaned, faults>>

\* ... with fewer than MAX_SNAPSHOTS snapshots; it gets an id ...
TakeCount(r) ==
    /\ Handling(r, "count")
    /\ \/ /\ Cardinality(rows) < Limit
          /\ \E s \in Snaps :
               /\ FreeId(s)
               /\ used' = used \cup {s}
               /\ req' = [req EXCEPT ![r].at = "handle", ![r].snap = s]
       \/ Cardinality(rows) >= Limit /\ Answer(r) /\ UNCHANGED used
    /\ UNCHANGED <<vmVars, guest, rows, files, half, cleaned, faults>>

\* ... the handle is taken out of the map, if it is there ...
TakeHandle(r) ==
    /\ Handling(r, "handle")
    /\ req' = [req EXCEPT ![r].at = "pause", ![r].via = IF handle THEN "handle" ELSE "socket"]
    /\ handle' = FALSE
    /\ UNCHANGED <<status, refs, guest, snapVars, faults>>

\* ... the guest is paused; pausing it again is no error ...
TakePause(r) ==
    /\ Handling(r, "pause") /\ guest # "off"
    /\ guest' = "paused" /\ Continue(r, "create")
    /\ UNCHANGED <<vmVars, snapVars, faults>>

\* ... Firecracker writes the files, which it does for a paused guest only ...
TakeCreate(r) ==
    /\ Handling(r, "create") /\ guest = "paused" /\ JailExists
    /\ files' = files \cup {req[r].snap} /\ Continue(r, "resume")
    /\ UNCHANGED <<vmVars, guest, rows, used, half, cleaned, faults>>

\* ... or one of the calls fails ...
TakeFails(r) ==
    /\ Handling(r, "pause") \/ Handling(r, "create")
    /\ req' = [req EXCEPT ![r].at = "failed", ![r].ok = FALSE]
    /\ UNCHANGED <<vmVars, guest, snapVars, faults>>

Resumed == guest' = IF guest = "paused" THEN "running" ELSE guest

AfterResume(r) == IF req[r].via = "handle" THEN "put" ELSE "insert"

\* Mutant: the socket's path resumes only after a success.
TakeResumeDone(r) ==
    \/ /\ Handling(r, "resume")
       /\ Resumed /\ Continue(r, AfterResume(r))
       /\ UNCHANGED <<vmVars, snapVars, faults>>
    \/ /\ Handling(r, "failed") /\ req[r].via = "socket"
       /\ Continue(r, AfterResume(r))
       /\ UNCHANGED <<vmVars, guest, snapVars, faults>>

\* ... the guest is resumed: on the socket's path in any case, with the handle
\* only if nothing failed, which leaves a guest that was paused as it is ...
TakeResume(r) ==
    /\ Handling(r, "resume") \/ (Handling(r, "failed") /\ req[r].via = "socket")
    /\ Resumed /\ Continue(r, AfterResume(r))
    /\ UNCHANGED <<vmVars, snapVars, faults>>

Unresumed == faults' = faults \cup (IF guest = "paused" THEN {"paused"} ELSE {})

TakeGivesUp(r) ==
    /\ Handling(r, "failed") /\ req[r].via = "handle"
    /\ Unresumed /\ Continue(r, AfterResume(r))
    /\ UNCHANGED <<vmVars, snapVars, guest>>

\* ... or that call fails, which the socket's path does not look at ...
TakeResumeFails(r) ==
    /\ Handling(r, "resume") \/ (Handling(r, "failed") /\ req[r].via = "socket")
    /\ Unresumed
    /\ req' = [req EXCEPT ![r].at = AfterResume(r), ![r].ok = @ /\ req[r].via = "socket"]
    /\ UNCHANGED <<vmVars, snapVars, guest>>

\* ... the handle is put back ...
TakePut(r) ==
    /\ Handling(r, "put")
    /\ handle' = TRUE /\ Continue(r, "insert")
    /\ UNCHANGED <<status, refs, guest, snapVars, faults>>

\* Mutant: the result of the calls is not looked at.
TakeInsertAnyway(r) ==
    /\ Handling(r, "insert") /\ Answer(r)
    /\ rows' = IF status # "gone" THEN rows \cup {req[r].snap} ELSE rows
    /\ UNCHANGED <<vmVars, guest, files, used, half, cleaned, faults>>

\* ... and the row is inserted, which needs the VM's row.
TakeInsert(r) ==
    /\ Handling(r, "insert") /\ Answer(r)
    /\ rows' = IF req[r].ok /\ status # "gone" THEN rows \cup {req[r].snap} ELSE rows
    /\ UNCHANGED <<vmVars, guest, files, used, half, cleaned, faults>>

-----------------------------------------------------------------------------
\* fctools cleans a VM's jail up, or prepares one that is there: whether the
\* files in it stay is not this code's.
Jail ==
    \/ UNCHANGED <<files, cleaned>>
    \/ files' = {} /\ cleaned' = cleaned \cup files

\* stop_vm: the handle shuts the VM down and cleans up; without a handle the
\* process is killed.
Stop ==
    /\ status = "running"
    /\ status' = "stopped" /\ guest' = "off" /\ handle' = FALSE
    /\ IF handle THEN Jail ELSE UNCHANGED <<files, cleaned>>
    /\ faults' = faults \ {"paused"}
    /\ UNCHANGED <<refs, rows, used, half, req>>

Start ==
    /\ status \in {"stopped", "error"}
    /\ status' = "running" /\ guest' = "running" /\ handle' = TRUE
    /\ Jail
    /\ faults' = faults \ {"paused"}
    /\ UNCHANGED <<refs, rows, used, half, req>>

\* restore_snapshot: the VM must be stopped and the snapshot have a row ...
RestoreRead(r) == \E s \in rows :
    /\ status = "stopped"
    /\ status' = "starting" /\ Accept(r, "boot", s)
    /\ UNCHANGED <<handle, refs, guest, snapVars, faults>>

\* ... and its files must still be there when the VM boots from them.
RestoreBoot(r) ==
    /\ Handling(r, "boot") /\ Answer(r)
    /\ \/ /\ req[r].snap \in files /\ guest' = "running"
          /\ IF status = "gone" THEN UNCHANGED <<status, handle>>
             ELSE status' = "running" /\ handle' = TRUE
       \/ /\ status' = IF status = "gone" THEN "gone" ELSE "error"
          /\ UNCHANGED <<guest, handle>>
    /\ Jail
    /\ UNCHANGED <<refs, rows, used, half, faults>>

\* delete_snapshot: the row is read, the files go, then the row does.
DeleteRead(r) == \E s \in rows :
    /\ Accept(r, "files", s)
    /\ UNCHANGED <<vmVars, guest, snapVars, faults>>

\* remove_file, whose result nobody looks at.
Unlink(gone) == \E kept \in SUBSET (files \cap gone) : files' = (files \ gone) \cup kept

DeleteFiles(r) ==
    /\ Handling(r, "files") /\ Continue(r, "row")
    /\ Unlink({req[r].snap})
    /\ UNCHANGED <<vmVars, guest, rows, used, half, cleaned, faults>>

DeleteRow(r) ==
    /\ Handling(r, "row") /\ Answer(r)
    /\ rows' = rows \ {req[r].snap}
    /\ half' = half \ {req[r].snap} /\ cleaned' = cleaned \ {req[r].snap}
    /\ UNCHANGED <<vmVars, guest, files, used, faults>>

\* delete_vm: the VM must be stopped; its snapshots are listed ...
VmRead(r) ==
    /\ status = "stopped"
    /\ Accept(r, "vmlist", None)
    /\ UNCHANGED <<vmVars, guest, snapVars, faults>>

VmList(r) ==
    /\ Handling(r, "vmlist")
    /\ req' = [req EXCEPT ![r].at = "vmfiles", ![r].list = rows]
    /\ UNCHANGED <<vmVars, guest, snapVars, faults>>

\* ... their files are removed ...
VmFiles(r) ==
    /\ Handling(r, "vmfiles") /\ Continue(r, "vmrow")
    /\ Unlink(req[r].list)
    /\ UNCHANGED <<vmVars, guest, rows, used, half, cleaned, faults>>

\* Mutant: the row is not removed but marked.
VmRowMarked(r) ==
    /\ Handling(r, "vmrow") /\ Continue(r, "vmjail")
    /\ status' = "deleted" /\ rows' = {}
    /\ UNCHANGED <<handle, refs, guest, files, used, half, cleaned, faults>>

\* The snapshots that r has begun to delete and still has to delete the rows of.
Deleting(r) ==
    IF req[r] = None THEN {}
    ELSE IF req[r].at = "row" THEN {req[r].snap}
    ELSE IF req[r].at = "vmrow" THEN req[r].list ELSE {}

\* ... the row is deleted, with the rows of its snapshots, unless a migration, a
\* login token or a clone still names it ...
VmRow(r) ==
    /\ Handling(r, "vmrow")
    /\ \/ /\ ~refs
          /\ status' = "gone" /\ rows' = {} /\ Continue(r, "vmjail") /\ UNCHANGED half
       \/ /\ refs
          /\ half' = half \cup (rows \cap Deleting(r)) /\ Answer(r) /\ UNCHANGED <<status, rows>>
    /\ UNCHANGED <<handle, refs, guest, files, used, cleaned, faults>>

\* Mutant: the jail is left to the next start.
VmJailKept(r) ==
    /\ Handling(r, "vmjail") /\ Answer(r)
    /\ UNCHANGED <<vmVars, guest, rows, files, used, half, cleaned, faults>>

\* ... and the jail is removed with what is in it; a failure is logged.
VmJail(r) ==
    /\ Handling(r, "vmjail") /\ Answer(r)
    /\ Unlink(files)
    /\ faults' = faults \cup (IF files' # {} THEN {"jail"} ELSE {})
    /\ UNCHANGED <<vmVars, guest, rows, used, half, cleaned>>

-----------------------------------------------------------------------------
\* create_vm_migration, create_vm_auth_token and clone_vm's create_vm.
Refer ==
    /\ status # "gone" /\ ~refs
    /\ refs' = TRUE
    /\ UNCHANGED <<status, handle, guest, snapVars, req, faults>>

Left(r) ==
    (IF guest = "paused" /\ req[r].at \in {"create", "resume", "failed"} THEN {"paused"} ELSE {})
    \cup (IF req[r].at = "vmjail" THEN {"jail"} ELSE {})

\* The client hangs up: the handler is dropped where it is, with its handle.
Dropped(r) ==
    /\ req[r] # None /\ req[r].at # "boot"
    /\ faults' = faults \cup Left(r) /\ half' = half \cup (rows \cap Deleting(r))
    /\ Answer(r)
    /\ UNCHANGED <<vmVars, guest, rows, files, used, cleaned>>

\* The agent restarts and finds the VM by its socket; a VM in 'starting',
\* which has no process of its own yet, is marked so (reconcile.rs).
AgentRestart ==
    /\ req' = [r \in Requests |-> None] /\ handle' = FALSE
    /\ faults' = faults \cup UNION {Left(r) : r \in {x \in Requests : req[x] # None}}
    /\ status' = IF status = "starting" THEN "error" ELSE status
    /\ half' = half \cup (rows \cap UNION {Deleting(r) : r \in Requests})
    /\ UNCHANGED <<guest, refs, rows, files, used, cleaned>>

Step(r) ==
    \/ TakeCount(r) \/ TakeHandle(r) \/ TakePause(r) \/ TakeCreate(r) \/ TakeFails(r)
    \/ TakeResume(r) \/ TakeResumeFails(r) \/ TakeGivesUp(r)
    \/ TakePut(r) \/ TakeInsert(r)
    \/ RestoreBoot(r) \/ DeleteFiles(r) \/ DeleteRow(r)
    \/ VmList(r) \/ VmFiles(r) \/ VmRow(r) \/ VmJail(r)

Next ==
    \/ Stop \/ Start \/ Refer \/ AgentRestart
    \/ \E r \in Requests :
         \/ TakeRead(r) \/ RestoreRead(r) \/ DeleteRead(r) \/ VmRead(r)
         \/ Step(r) \/ Dropped(r)

Spec == Init /\ [][Next]_vars

-----------------------------------------------------------------------------
TypeOK ==
    /\ status \in Statuses /\ guest \in {"off", "running", "paused"}
    /\ handle \in BOOLEAN /\ refs \in BOOLEAN
    /\ rows \subseteq Snaps /\ files \subseteq Snaps /\ used \subseteq Snaps
    /\ half \subseteq Snaps /\ cleaned \subseteq Snaps /\ faults \subseteq {"paused", "jail"}
    /\ req \in [Requests -> Handler \cup {None}]

\* Snapshots exceed the limit by no more than what overlaps: a request counts
\* the rows before it takes long to write its own (snapshot.rs:42-49, 144).
LimitUpToOverlap == Cardinality(rows) + 1 =< Limit + Cardinality(Requests)

\* The files of a snapshot are complete before it is listed, and are there for as
\* long, although two requests pause and resume one guest, take and delete
\* (snapshot.rs:62-152, 351-357).  A listed snapshot is without them only while
\* its deletion is under way, when a deletion was left after the files (a request
\* dropped, an agent restarted, a VM another table names), and when fctools took
\* them with the jail, as an ordinary stop may (mod.rs:434): nothing keeps a
\* snapshot across the stop that a restore asks for.
ListedHasFiles == \A s \in rows \ files :
    s \in half \cup cleaned \/ \E r \in Requests : s \in Deleting(r)

\* A VM that was deleted leaves no snapshot file, also of a snapshot that was
\* being taken then, unless removing the jail failed or the agent stopped before
\* that (mod.rs:463-479).
GoneLeavesNothing ==
    status = "gone" /\ "jail" \notin faults /\ (\A r \in Requests : req[r] = None) => files = {}

\* A guest is paused only as long as some request may resume it, however many
\* pause and resume it at once and whatever fails; only a snapshot with the handle
\* that fails and a request that is dropped leave it paused (snapshot.rs:68-138).
PausedIsResumed == guest = "paused" =>
    "paused" \in faults \/ \E r \in Requests : req[r] # None /\ req[r].at \in {"create", "resume", "failed"}
=============================================================================
