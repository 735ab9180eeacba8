------------------------------- MODULE Images -------------------------------
(***************************************************************************)
(* Base images: an operator has one built from a container image           *)
(* (control-plane/src/admin.rs), the agent of some host builds it          *)
(* (host-agent/src/agent.rs build_image_inner) and reports on a stream to  *)
(* a task of the control plane, which writes the row; users create VMs     *)
(* from the images that are ready (ops.rs, manager/mod.rs create_vm).      *)
(* Progress reports change nothing and are left out.                       *)
(***************************************************************************)
EXTENDS Naturals

CONSTANTS Imgs,      \* ids for images
          Names,     \* names with their tags
          Hosts, VMs, None,
          MaxFaults  \* bound: requests dropped, calls lost, crashes, failed cleanups

ASSUME NoneAssumption == None \notin Hosts \cup Names
ASSUME MaxFaultsAssumption == MaxFaults \in Nat

VARIABLES img,       \* img[i]: the row's status and name, the task that waits for the build
          build,     \* build[i]: the build on the agent and what it made on its host
          deletes,   \* images whose deletion passed its check
          vm,        \* vm[v]: a create that is under way, was refused, or has its row
          failed,    \* failed[i]: what went wrong on the way (a history)
          faults     \* how often

vars == <<img, build, deletes, vm, failed, faults>>

Row == [status : {"none", "building", "ready", "error", "deleted"}, name : Names \cup {None},
        host : Hosts \cup {None}, task : {"none", "request", "call", "read", "hung"}]
Stages == {"none", "pull", "create", "export", "rm", "bake", "mount", "chroot", "umount",
           "squash", "write", "check", "over"}
Build == [at : Stages, ok : BOOLEAN, container : BOOLEAN, mounted : BOOLEAN,
          init : {"none", "other", "sbin"},   \* the first of the candidates that is there
          file : {"none", "partial", "full"}, event : {"none", "done", "error"}]
Vm == [at : {"call", "refused", "row"}, img : Imgs, host : Hosts]

Exists(i) == img[i].status \in {"building", "ready", "error"}
At(i, stage) == build[i].at = stage

Fault(i, what) ==
    /\ faults < MaxFaults /\ faults' = faults + 1
    /\ failed' = [failed EXCEPT ![i] = @ \cup {what}]
NoFault == UNCHANGED <<failed, faults>>

-----------------------------------------------------------------------------
Init ==
    /\ img = [i \in Imgs |-> [status |-> "none", name |-> None, host |-> None, task |-> "none"]]
    /\ build = [i \in Imgs |-> [at |-> "none", ok |-> TRUE, container |-> FALSE,
                                mounted |-> FALSE, init |-> "none", file |-> "none",
                                event |-> "none"]]
    /\ deletes = {} /\ vm = [v \in VMs |-> None]
    /\ failed = [i \in Imgs |-> {}] /\ faults = 0

\* build_image takes any active host and inserts the row, whose name and tag
\* no other row may have ...
BuildRequest(i) == \E n \in Names, h \in Hosts :
    /\ img[i].status = "none"
    /\ \A j \in Imgs : Exists(j) => img[j].name # n
    /\ img' = [img EXCEPT ![i] = [status |-> "building", name |-> n, host |-> h,
                                  task |-> "request"]]
    /\ UNCHANGED <<build, deletes, vm>> /\ NoFault

\* ... and spawns the task, unless the operator has hung up.
TaskSpawn(i) ==
    /\ img[i].task = "request"
    /\ img' = [img EXCEPT ![i].task = "call"]
    /\ UNCHANGED <<build, deletes, vm>> /\ NoFault

RequestDropped(i) ==
    /\ img[i].task = "request" /\ Fault(i, "task")
    /\ img' = [img EXCEPT ![i].task = "none"]
    /\ UNCHANGED <<build, deletes, vm>>

\* The task ends with an UPDATE, whose result it does not look at.
TaskEnds(i, status) ==
    \/ img' = [img EXCEPT ![i].task = "none", ![i].status = status] /\ NoFault
    \/ img' = [img EXCEPT ![i].task = "none"] /\ Fault(i, "task")

\* The task calls the agent, which starts the build ...
TaskCall(i) ==
    /\ img[i].task = "call"
    /\ img' = [img EXCEPT ![i].task = "read"]
    /\ build' = [build EXCEPT ![i].at = "pull"]
    /\ UNCHANGED <<deletes, vm>> /\ NoFault

\* ... or the call fails, whether it reached the agent or not.
TaskCallFails(i) ==
    /\ img[i].task = "call"
    /\ TaskEnds(i, "error")
    /\ build' \in {build, [build EXCEPT ![i].at = "pull"]}
    /\ UNCHANGED <<deletes, vm>>

\* Mutant: the row gets the name of the stage.
TaskReadStage(i) ==
    /\ img[i].task = "read" /\ build[i].event # "none"
    /\ TaskEnds(i, build[i].event)
    /\ UNCHANGED <<build, deletes, vm>>

\* The last event of the stream says how the build ended.
TaskRead(i) ==
    /\ img[i].task = "read" /\ build[i].event # "none"
    /\ TaskEnds(i, IF build[i].event = "done" THEN "ready" ELSE "error")
    /\ UNCHANGED <<build, deletes, vm>>

\* Mutant: a stream that ends early leaves the row alone.
TaskStreamEndsQuietly(i) ==
    /\ img[i].task = "read" /\ At(i, "over") /\ build[i].event = "none"
    /\ img' = [img EXCEPT ![i].task = "none"] /\ NoFault
    /\ UNCHANGED <<build, deletes, vm>>

\* The stream ends or breaks without one, as when the agent has crashed.
TaskStreamEnds(i) ==
    /\ img[i].task = "read" /\ At(i, "over") /\ build[i].event = "none"
    /\ TaskEnds(i, "error")
    /\ UNCHANGED <<build, deletes, vm>>

TaskStreamLost(i) ==
    /\ img[i].task = "read" /\ Fault(i, "stream")
    /\ img' = [img EXCEPT ![i].task = "none", ![i].status = "error"]
    /\ UNCHANGED <<build, deletes, vm>>

\* Mutant: the status is not looked at.
DeleteReadUnchecked(i) ==
    /\ Exists(i)
    /\ deletes' = deletes \cup {i}
    /\ UNCHANGED <<img, build, vm>> /\ NoFault

\* delete_image: the row is read, and deleted if it is not 'building'.
DeleteRead(i) ==
    /\ Exists(i) /\ img[i].status # "building"
    /\ deletes' = deletes \cup {i}
    /\ UNCHANGED <<img, build, vm>> /\ NoFault

DeleteRow(i) ==
    /\ i \in deletes /\ deletes' = deletes \ {i}
    /\ img' = [img EXCEPT ![i].status = "deleted"]
    /\ UNCHANGED <<build, vm>> /\ NoFault

-----------------------------------------------------------------------------
(* build_image_inner on the agent.  It goes on when nobody reads its stream,  *)
(* and with its end the temporary directory of the root file system is gone.  *)
Stage(i, b) ==
    /\ build' = [build EXCEPT ![i] = b]
    /\ UNCHANGED <<img, deletes, vm>>

Onto(i, stage) == [build[i] EXCEPT !.at = stage]
Error(i) == [build[i] EXCEPT !.at = "over", !.event = "error"]

Pull(i) ==
    /\ At(i, "pull") /\ NoFault
    /\ Stage(i, Onto(i, "create")) \/ Stage(i, Error(i))

CreateContainer(i) ==
    /\ At(i, "create") /\ NoFault
    /\ \/ Stage(i, [Onto(i, "export") EXCEPT !.container = TRUE])
       \/ Stage(i, Error(i))

\* Mutant: a failed export returns before the container is removed.
ExportReturns(i) ==
    /\ At(i, "export") /\ NoFault
    /\ Stage(i, Onto(i, "rm")) \/ Stage(i, Error(i))

\* The container is exported through tar ...
Export(i) ==
    /\ At(i, "export") /\ NoFault
    /\ \E ok \in BOOLEAN : Stage(i, [Onto(i, "rm") EXCEPT !.ok = ok])

\* ... removed either way, and the outcome looked at after that.
RemoveContainer(i) ==
    /\ At(i, "rm")
    /\ \E removed \in BOOLEAN :
         /\ IF removed THEN NoFault ELSE Fault(i, "rm")
         /\ Stage(i, [(IF build[i].ok THEN Onto(i, "bake") ELSE Error(i))
                      EXCEPT !.container = ~removed])

Bake(i) ==
    /\ At(i, "bake") /\ NoFault
    /\ Stage(i, Onto(i, "mount")) \/ Stage(i, Error(i))

\* /proc, /sys and /dev of the host; a failed mount is only logged.
Mount(i) ==
    /\ At(i, "mount") /\ NoFault
    /\ \E m \in BOOLEAN : Stage(i, [Onto(i, "chroot") EXCEPT !.mounted = m])

\* rootfs-config.sh, which installs an init where it can: the root file system
\* has /sbin/init, another of the candidates (a shell is enough), or none.
Chroot(i) ==
    /\ At(i, "chroot") /\ NoFault
    /\ \E ok \in BOOLEAN, init \in {"none", "other", "sbin"} :
         Stage(i, [Onto(i, "umount") EXCEPT !.ok = ok, !.init = init])

Unmount(i) ==
    /\ At(i, "umount")
    /\ \E stays \in BOOLEAN :
         /\ IF stays /\ build[i].mounted THEN Fault(i, "umount") ELSE NoFault
         /\ Stage(i, [(IF build[i].ok THEN Onto(i, "squash") ELSE Error(i))
                      EXCEPT !.mounted = stays /\ @])

\* mksquashfs begins to write the file of that id ...
Squash(i) ==
    /\ At(i, "squash") /\ NoFault
    /\ Stage(i, [Onto(i, "write") EXCEPT !.file = "partial"])

\* ... and leaves part of it when it fails.
SquashEnds(i) ==
    /\ At(i, "write") /\ NoFault
    /\ \/ Stage(i, [Onto(i, "check") EXCEPT !.file = "full"])
       \/ Stage(i, Error(i))

\* Any candidate will do, though a guest is told to run /sbin/init.
CheckInit(i) ==
    /\ At(i, "check") /\ NoFault
    /\ Stage(i, [Onto(i, "over") EXCEPT
                   !.event = IF build[i].init # "none" THEN "done" ELSE "error"])

BuildStep(i) ==
    \/ Pull(i) \/ CreateContainer(i) \/ Export(i) \/ RemoveContainer(i) \/ Bake(i)
    \/ Mount(i) \/ Chroot(i) \/ Unmount(i) \/ Squash(i) \/ SquashEnds(i) \/ CheckInit(i)

-----------------------------------------------------------------------------
\* Mutant: the image need not be ready.
CreateFindAny(v) == \E i \in Imgs, h \in Hosts :
    /\ vm[v] = None /\ Exists(i)
    /\ vm' = [vm EXCEPT ![v] = [at |-> "call", img |-> i, host |-> h]]
    /\ UNCHANGED <<img, build, deletes>> /\ NoFault

\* create_vm of the control plane: the image of that name is ready, and the
\* scheduler picks a host ...
CreateFind(v) == \E i \in Imgs, h \in Hosts :
    /\ vm[v] = None /\ img[i].status = "ready"
    /\ vm' = [vm EXCEPT ![v] = [at |-> "call", img |-> i, host |-> h]]
    /\ UNCHANGED <<img, build, deletes>> /\ NoFault

\* ... whose agent looks for the file of that id.
CreateOnHost(v) ==
    /\ vm[v] # None /\ vm[v].at = "call"
    /\ LET i == vm[v].img IN
         vm' = [vm EXCEPT ![v].at = IF build[i].file # "none" /\ img[i].host = vm[v].host
                                    THEN "row" ELSE "refused"]
    /\ UNCHANGED <<img, build, deletes>> /\ NoFault

-----------------------------------------------------------------------------
\* A host goes dark, or is cut off: the task waits on its stream for ever, as
\* the channel has neither a timeout nor a keepalive.  (A host that comes back
\* into reach was no fault.)  Its builds may be over.
HostDark(h) ==
    LET here == {i \in Imgs : img[i].host = h /\ img[i].task = "read"} IN
    /\ here # {} /\ faults < MaxFaults /\ faults' = faults + 1
    /\ img' = [i \in Imgs |-> IF i \in here THEN [img[i] EXCEPT !.task = "hung"] ELSE img[i]]
    /\ \E off \in BOOLEAN :
         LET ends(i) == off /\ img[i].host = h /\ ~At(i, "none") /\ ~At(i, "over") IN
         /\ build' = [i \in Imgs |-> IF ends(i) THEN [build[i] EXCEPT !.at = "over"]
                                     ELSE build[i]]
         /\ failed' = [i \in Imgs |-> failed[i] \cup (IF i \in here THEN {"dark"} ELSE {})
                                               \cup (IF ends(i) THEN {"crash"} ELSE {})]
    /\ UNCHANGED <<deletes, vm>>

\* An agent's process dies, which its host's kernel tells the other side: its
\* builds end where they are, and an event may be lost.
AgentCrash(h) ==
    LET here == {i \in Imgs : img[i].host = h /\ ~At(i, "none")} IN
    /\ here # {} /\ faults < MaxFaults /\ faults' = faults + 1
    /\ failed' = [i \in Imgs |->
                    failed[i] \cup IF i \in here /\ ~At(i, "over") THEN {"crash"} ELSE {}]
    /\ \E lost \in BOOLEAN :
         build' = [i \in Imgs |-> IF i \notin here THEN build[i]
                                  ELSE [build[i] EXCEPT !.at = "over",
                                                        !.event = IF lost THEN "none" ELSE @]]
    /\ UNCHANGED <<img, deletes, vm>>

\* The control plane restarts and knows nothing of its tasks and requests.
CpRestart ==
    /\ faults < MaxFaults /\ faults' = faults + 1
    /\ failed' = [i \in Imgs |-> failed[i] \cup IF img[i].task = "none" THEN {} ELSE {"task"}]
    /\ img' = [i \in Imgs |-> [img[i] EXCEPT !.task = "none"]]
    /\ deletes' = {}
    /\ vm' = [v \in VMs |-> IF vm[v] # None /\ vm[v].at = "call" THEN None ELSE vm[v]]
    /\ UNCHANGED build

TaskStep(i) == TaskSpawn(i) \/ TaskCall(i) \/ TaskCallFails(i) \/ TaskRead(i) \/ TaskStreamEnds(i)

Next ==
    \/ \E i \in Imgs :
         \/ BuildRequest(i) \/ TaskStep(i) \/ RequestDropped(i) \/ TaskStreamLost(i)
         \/ DeleteRead(i) \/ DeleteRow(i) \/ BuildStep(i)
    \/ \E v \in VMs : CreateFind(v) \/ CreateOnHost(v)
    \/ \E h \in Hosts : AgentCrash(h) \/ HostDark(h)
    \/ CpRestart

\* Tasks and builds go on.
Fairness == \A i \in Imgs : WF_vars(TaskStep(i)) /\ WF_vars(BuildStep(i))
Spec == Init /\ [][Next]_vars /\ Fairness

-----------------------------------------------------------------------------
TypeOK ==
    /\ img \in [Imgs -> Row] /\ build \in [Imgs -> Build]
    /\ deletes \subseteq Imgs /\ vm \in [VMs -> Vm \cup {None}]
    /\ failed \in [Imgs -> SUBSET {"task", "crash", "rm", "umount", "stream", "dark"}]
    /\ faults \in 0..MaxFaults

\* The row a build reports to is there until it has: nobody deletes it or gives
\* its name away meanwhile (admin.rs:248, 337).
TaskOwnsRow == \A i \in Imgs : img[i].task # "none" => img[i].status = "building"

\* A VM that was created has on its host a complete image in which the build
\* found a program it takes for an init, though the file appears before either is
\* known and the row may be deleted meanwhile (manager/mod.rs:126, agent.rs:566,
\* 620-638).  That is all the code sees to: the guest runs /sbin/init whatever
\* the build found (agent.rs:34), so a VM of an image with a shell only is made,
\* and does not boot.
VmHasImage == \A v \in VMs : vm[v] # None /\ vm[v].at = "row" =>
    LET b == build[vm[v].img] IN
    b.file = "full" /\ b.init # "none" /\ img[vm[v].img].host = vm[v].host

\* A build that is over has removed its container and unmounted the host's file
\* systems, whichever stage failed (agent.rs:238-275, 489-496).
BuildLeavesNothing == \A i \in Imgs : At(i, "over") =>
    /\ build[i].container => failed[i] \cap {"rm", "crash"} # {}
    /\ build[i].mounted => failed[i] \cap {"umount", "crash"} # {}

\* A build comes to an end with its row, whichever stage fails, whether its call
\* or stream breaks or the agent dies (admin.rs:260-328).  Where it does not, its
\* task is lost with its request or the control plane, or its UPDATE failed, or
\* the agent's host went dark while the task was reading.
BuildEnds == \A i \in Imgs :
    img[i].status = "building" ~>
        (img[i].status # "building" \/ failed[i] \cap {"task", "dark"} # {})
=============================================================================
