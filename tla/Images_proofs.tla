--------------------------- MODULE Images_proofs ---------------------------
(***************************************************************************)
(* Theorems about Images, for any sets of images, names, hosts and VMs and *)
(* any number of faults.                                                   *)
(***************************************************************************)
EXTENDS Images, TLAPS

(***************************************************************************)
(* The inductive invariant. A row is 'ready' because of an event that its  *)
(* build sent at its end, and a build that is over never goes on: whoever  *)
(* saw the row ready, a VM's create among them, may rely on the file for   *)
(* good. What a build owes to its host is followed stage by stage.         *)
(***************************************************************************)
Complete(i) == At(i, "over") /\ build[i].file = "full" /\ build[i].init # "none"

\* What the stage of a build says about the container, the mounts and the file.
BuildSound(i) ==
    /\ build[i].at \notin {"export", "rm"} /\ build[i].container
          => failed[i] \cap {"rm", "crash"} # {}
    /\ build[i].at \notin {"chroot", "umount"} /\ build[i].mounted
          => failed[i] \cap {"umount", "crash"} # {}
    /\ At(i, "check") => build[i].file = "full"
    /\ build[i].event # "none" => At(i, "over")
    /\ build[i].event = "done" => build[i].file = "full" /\ build[i].init # "none"

\* What a row and its task say about the build.
RowSound(i) ==
    /\ img[i].task # "none" => img[i].status = "building"
    /\ img[i].status = "none" \/ img[i].task \in {"request", "call"} => At(i, "none")
    /\ img[i].status = "ready" => Complete(i)
    /\ i \in deletes => img[i].status \notin {"none", "building"}

ImagesSound == \A i \in Imgs : BuildSound(i) /\ RowSound(i)

\* A VM's create found its image ready.
VmSound(v) ==
    /\ Complete(vm[v].img) /\ img[vm[v].img].status \notin {"none", "building"}
    /\ vm[v].at = "row" => img[vm[v].img].host = vm[v].host

VmsSound == \A v \in VMs : vm[v] # None => VmSound(v)

IInv == TypeOK /\ ImagesSound /\ VmsSound

\* The invariant holds before any image is asked for.
LEMMA InitInv == Init => IInv
<1> SUFFICES ASSUME Init PROVE IInv
  OBVIOUS
<1>1. /\ img \in [Imgs -> Row] /\ build \in [Imgs -> Build]
      /\ \A i \in Imgs : /\ img[i].status = "none" /\ img[i].task = "none"
                         /\ build[i].at = "none" /\ build[i].event = "none"
                         /\ ~build[i].container /\ ~build[i].mounted
  BY DEF Init, Row, Build, Stages
<1>2. deletes = {} /\ \A v \in VMs : vm[v] = None
  BY DEF Init
<1>3. TypeOK
  <2>1. failed \in [Imgs -> SUBSET {"task", "crash", "rm", "umount", "stream", "dark"}]
    BY DEF Init
  <2>2. faults \in 0 .. MaxFaults
    BY MaxFaultsAssumption DEF Init
  <2>3. vm \in [VMs -> Vm \cup {None}]
    BY DEF Init
  <2> QED
    BY <1>1, <1>2, <2>1, <2>2, <2>3 DEF TypeOK
<1> QED
  BY <1>1, <1>2, <1>3 DEF IInv, ImagesSound, BuildSound, RowSound, VmsSound, At

Kinds == {"task", "crash", "rm", "umount", "stream", "dark"}

\* What went wrong is never forgotten.
FailuresKept ==
    /\ failed' \in [Imgs -> SUBSET Kinds] /\ faults' \in 0 .. MaxFaults
    /\ \A i \in Imgs : failed[i] \subseteq failed'[i]

\* A fault is counted and named.
LEMMA FaultNamed ==
  ASSUME TypeOK, NEW i \in Imgs, NEW what \in Kinds, Fault(i, what)
  PROVE  FailuresKept /\ what \in failed'[i]
<1>1. faults' \in 0 .. MaxFaults
  <2>1. faults \in 0 .. MaxFaults /\ faults < MaxFaults /\ faults' = faults + 1
    BY DEF TypeOK, Fault
  <2> QED
    BY <2>1, MaxFaultsAssumption
<1>2. failed \in [Imgs -> SUBSET Kinds] /\ failed' = [failed EXCEPT ![i] = @ \cup {what}]
  BY DEF TypeOK, Fault, Kinds
<1> QED
  BY <1>1, <1>2 DEF FailuresKept

\* Nothing goes wrong in most steps.
LEMMA NoFaultKeeps == ASSUME TypeOK, NoFault PROVE FailuresKept
BY DEF TypeOK, NoFault, FailuresKept, Kinds

\* A step of a build changes that build alone, which is under way, and leaves it
\* with what its stage says.
LEMMA BuildRuns ==
  ASSUME TypeOK, NEW i \in Imgs, BuildSound(i), BuildStep(i)
  PROVE  /\ UNCHANGED <<img, deletes, vm>> /\ FailuresKept
         /\ ~At(i, "none") /\ ~At(i, "over") /\ build'[i].at # "none"
         /\ build' \in [Imgs -> Build] /\ \A j \in Imgs \ {i} : build'[j] = build[j]
         /\ BuildSound(i)'
<1> DEFINE Goes(b) == /\ UNCHANGED <<img, deletes, vm>>
                      /\ build' = [build EXCEPT ![i] = b]
                      /\ b \in Build /\ b.at # "none"
<1>0. build \in [Imgs -> Build] /\ build[i] \in Build
  BY DEF TypeOK
<1>1. ASSUME NEW b, Goes(b)
      PROVE  /\ UNCHANGED <<img, deletes, vm>> /\ build'[i] = b /\ build'[i].at # "none"
             /\ build' \in [Imgs -> Build] /\ \A j \in Imgs \ {i} : build'[j] = build[j]
  BY <1>0, <1>1
<1>2. ASSUME NEW b, Stage(i, b), b \in Build, b.at # "none" PROVE Goes(b)
  BY <1>2 DEF Stage
<1>3. /\ Error(i) \in Build /\ Error(i).at = "over" /\ Error(i).event = "error"
      /\ Error(i).container = build[i].container /\ Error(i).mounted = build[i].mounted
      /\ Error(i).file = build[i].file /\ Error(i).init = build[i].init
  BY <1>0 DEF Error, Build, Stages
<1>4. ASSUME NEW s \in Stages
      PROVE  /\ Onto(i, s) \in Build /\ Onto(i, s).at = s /\ Onto(i, s).event = build[i].event
             /\ Onto(i, s).container = build[i].container
             /\ Onto(i, s).mounted = build[i].mounted
             /\ Onto(i, s).file = build[i].file /\ Onto(i, s).init = build[i].init
  BY <1>0 DEF Onto, Build
<1> USE DEF Stages
<1>5. CASE Pull(i) \/ Bake(i)
  <2>1. /\ FailuresKept /\ (At(i, "pull") \/ At(i, "bake"))
        /\ \E b \in {Onto(i, "create"), Onto(i, "mount"), Error(i)} : Stage(i, b)
    BY <1>5, NoFaultKeeps DEF Pull, Bake
  <2>2. PICK b \in {Onto(i, "create"), Onto(i, "mount"), Error(i)} : Stage(i, b)
    BY <2>1
  <2>3. /\ Goes(b) /\ b.at \in {"create", "mount", "over"}
        /\ b.container = build[i].container /\ b.mounted = build[i].mounted
        /\ b.event # "none" => b.at = "over" /\ b.event = "error"
    BY <1>2, <1>3, <1>4, <2>1, <2>2 DEF BuildSound, At
  <2> QED
    BY <1>1, <2>1, <2>3 DEF BuildSound, At, FailuresKept
<1>6. CASE CreateContainer(i)
  <2>1. At(i, "create") /\ FailuresKept
    BY <1>6, NoFaultKeeps DEF CreateContainer
  <2>2. CASE Stage(i, Error(i))
    <3>1. Goes(Error(i))
      BY <1>2, <1>3, <2>2
    <3> QED
      BY <1>1, <1>3, <2>1, <3>1 DEF BuildSound, At, FailuresKept
  <2>3. CASE Stage(i, [Onto(i, "export") EXCEPT !.container = TRUE])
    <3> DEFINE a == Onto(i, "export")
               b == [a EXCEPT !.container = TRUE]
    <3>1. a \in Build /\ a.at = "export" /\ a.mounted = build[i].mounted /\ a.event = build[i].event
      BY <1>4
    <3> HIDE DEF a
    <3>3. b \in Build /\ b.at = a.at /\ b.mounted = a.mounted /\ b.event = a.event
      BY <3>1 DEF Build
    <3> HIDE DEF b
    <3>2. Goes(b)
      BY <1>2, <2>3, <3>1, <3>3 DEF a, b
    <3> QED
      BY <1>1, <2>1, <3>1, <3>2, <3>3 DEF BuildSound, At, FailuresKept
  <2> QED
    BY <1>6, <2>2, <2>3 DEF CreateContainer
<1>7. CASE Export(i)
  <2>1. At(i, "export") /\ FailuresKept
    BY <1>7, NoFaultKeeps DEF Export
  <2>2. PICK ok \in BOOLEAN : Stage(i, [Onto(i, "rm") EXCEPT !.ok = ok])
    BY <1>7 DEF Export
  <2> DEFINE b == [Onto(i, "rm") EXCEPT !.ok = ok]
  <2>3. b \in Build /\ b.at = "rm" /\ b.mounted = build[i].mounted /\ b.event = build[i].event
    BY <1>4 DEF Build
  <2> HIDE DEF b
  <2>4. Goes(b)
    BY <1>2, <2>2, <2>3 DEF b
  <2> QED
    BY <1>1, <2>1, <2>3, <2>4 DEF BuildSound, At, FailuresKept
<1>8. CASE RemoveContainer(i)
  <2>1. PICK removed \in BOOLEAN :
          /\ IF removed THEN NoFault ELSE Fault(i, "rm")
          /\ Stage(i, [(IF build[i].ok THEN Onto(i, "bake") ELSE Error(i))
                       EXCEPT !.container = ~removed])
    BY <1>8 DEF RemoveContainer
  <2>2. /\ At(i, "rm") /\ FailuresKept
        /\ removed \/ "rm" \in failed'[i]
    BY <1>8, <2>1, NoFaultKeeps, FaultNamed DEF RemoveContainer, Kinds
  <2> DEFINE a == IF build[i].ok THEN Onto(i, "bake") ELSE Error(i)
             b == [a EXCEPT !.container = ~removed]
  <2>3. /\ a \in Build /\ a.at \in {"bake", "over"} /\ a.mounted = build[i].mounted
        /\ a.event # "none" => a.at = "over" /\ a.event = "error"
    BY <1>3, <1>4, <2>2 DEF BuildSound, At
  <2> HIDE DEF a
  <2>4. /\ b \in Build /\ b.at = a.at /\ b.mounted = a.mounted /\ b.event = a.event
        /\ b.container = ~removed
    BY <2>3 DEF Build
  <2> HIDE DEF b
  <2>5. Goes(b)
    BY <1>2, <2>1, <2>3, <2>4 DEF b, a
  <2> QED
    BY <1>1, <2>2, <2>3, <2>4, <2>5 DEF BuildSound, At, FailuresKept
<1>9. CASE Mount(i)
  <2>1. At(i, "mount") /\ FailuresKept
    BY <1>9, NoFaultKeeps DEF Mount
  <2>2. PICK m \in BOOLEAN : Stage(i, [Onto(i, "chroot") EXCEPT !.mounted = m])
    BY <1>9 DEF Mount
  <2> DEFINE b == [Onto(i, "chroot") EXCEPT !.mounted = m]
  <2>3. b \in Build /\ b.at = "chroot" /\ b.container = build[i].container /\ b.event = build[i].event
    BY <1>4 DEF Build
  <2> HIDE DEF b
  <2>4. Goes(b)
    BY <1>2, <2>2, <2>3 DEF b
  <2> QED
    BY <1>1, <2>1, <2>3, <2>4 DEF BuildSound, At, FailuresKept
<1>10. CASE Chroot(i)
  <2>1. At(i, "chroot") /\ FailuresKept
    BY <1>10, NoFaultKeeps DEF Chroot
  <2>2. PICK ok \in BOOLEAN, init \in {"none", "other", "sbin"} :
          Stage(i, [Onto(i, "umount") EXCEPT !.ok = ok, !.init = init])
    BY <1>10 DEF Chroot
  <2> DEFINE a == Onto(i, "umount")
             b == [a EXCEPT !.ok = ok, !.init = init]
  <2>3. a \in Build /\ a.at = "umount" /\ a.container = build[i].container /\ a.event = build[i].event
    BY <1>4
  <2> HIDE DEF a
  <2>4. b \in Build /\ b.at = a.at /\ b.container = a.container /\ b.event = a.event
    BY <2>3 DEF Build
  <2> HIDE DEF b
  <2>5. Goes(b)
    BY <1>2, <2>2, <2>3, <2>4 DEF a, b
  <2> QED
    BY <1>1, <2>1, <2>3, <2>4, <2>5 DEF BuildSound, At, FailuresKept
<1>11. CASE Unmount(i)
  <2>1. PICK stays \in BOOLEAN :
          /\ IF stays /\ build[i].mounted THEN Fault(i, "umount") ELSE NoFault
          /\ Stage(i, [(IF build[i].ok THEN Onto(i, "squash") ELSE Error(i))
                       EXCEPT !.mounted = stays /\ @])
    BY <1>11 DEF Unmount
  <2>2. /\ At(i, "umount") /\ FailuresKept
        /\ stays /\ build[i].mounted => "umount" \in failed'[i]
    BY <1>11, <2>1, NoFaultKeeps, FaultNamed DEF Unmount, Kinds
  <2> DEFINE a == IF build[i].ok THEN Onto(i, "squash") ELSE Error(i)
             b == [a EXCEPT !.mounted = stays /\ @]
  <2>3. /\ a \in Build /\ a.at \in {"squash", "over"} /\ a.mounted = build[i].mounted
        /\ a.container = build[i].container
        /\ a.event # "none" => a.at = "over" /\ a.event = "error"
    BY <1>3, <1>4, <2>2 DEF BuildSound, At
  <2> HIDE DEF a
  <2>4. /\ b \in Build /\ b.at = a.at /\ b.container = a.container /\ b.event = a.event
        /\ b.mounted = (stays /\ a.mounted)
    BY <2>3 DEF Build
  <2> HIDE DEF b
  <2>5. Goes(b)
    BY <1>2, <2>1, <2>3, <2>4 DEF b, a
  <2> QED
    BY <1>1, <2>2, <2>3, <2>4, <2>5 DEF BuildSound, At, FailuresKept
<1>12. CASE Squash(i)
  <2>1. At(i, "squash") /\ FailuresKept
    BY <1>12, NoFaultKeeps DEF Squash
  <2> DEFINE b == [Onto(i, "write") EXCEPT !.file = "partial"]
  <2>2. /\ b \in Build /\ b.at = "write" /\ b.container = build[i].container
        /\ b.mounted = build[i].mounted /\ b.event = build[i].event
    BY <1>4 DEF Build
  <2>3. Stage(i, b)
    BY <1>12 DEF Squash
  <2> HIDE DEF b
  <2>4. Goes(b)
    BY <1>2, <2>2, <2>3
  <2> QED
    BY <1>1, <2>1, <2>2, <2>4 DEF BuildSound, At, FailuresKept
<1>13. CASE SquashEnds(i)
  <2>1. At(i, "write") /\ FailuresKept
    BY <1>13, NoFaultKeeps DEF SquashEnds
  <2>2. CASE Stage(i, Error(i))
    <3>1. Goes(Error(i))
      BY <1>2, <1>3, <2>2
    <3> QED
      BY <1>1, <1>3, <2>1, <3>1 DEF BuildSound, At, FailuresKept
  <2>3. CASE Stage(i, [Onto(i, "check") EXCEPT !.file = "full"])
    <3> DEFINE b == [Onto(i, "check") EXCEPT !.file = "full"]
    <3>1. /\ b \in Build /\ b.at = "check" /\ b.container = build[i].container
          /\ b.mounted = build[i].mounted /\ b.event = build[i].event /\ b.file = "full"
      BY <1>4 DEF Build
    <3> HIDE DEF b
    <3>2. Goes(b)
      BY <1>2, <2>3, <3>1 DEF b
    <3> QED
      BY <1>1, <2>1, <3>1, <3>2 DEF BuildSound, At, FailuresKept
  <2> QED
    BY <1>13, <2>2, <2>3 DEF SquashEnds
<1>14. CASE CheckInit(i)
  <2>1. At(i, "check") /\ FailuresKept
    BY <1>14, NoFaultKeeps DEF CheckInit
  <2> DEFINE b == [Onto(i, "over") EXCEPT !.event = IF build[i].init # "none" THEN "done" ELSE "error"]
  <2>2. /\ b \in Build /\ b.at = "over" /\ b.container = build[i].container
        /\ b.mounted = build[i].mounted /\ b.file = build[i].file /\ b.init = build[i].init
        /\ b.event = "done" => build[i].init # "none"
    BY <1>4 DEF Build
  <2>3. Stage(i, b)
    BY <1>14 DEF CheckInit
  <2> HIDE DEF b
  <2>4. Goes(b)
    BY <1>2, <2>2, <2>3
  <2> QED
    BY <1>1, <2>1, <2>2, <2>4 DEF BuildSound, At, FailuresKept
<1> QED
  BY <1>5, <1>6, <1>7, <1>8, <1>9, <1>10, <1>11, <1>12, <1>13, <1>14 DEF BuildStep

\* A step that changes rows or starts a build: what it may do to a row, one build
\* at a time. A build starts only where none has run.
RowGoes(i) ==
    /\ img' \in [Imgs -> Row] /\ \A j \in Imgs \ {i} : img'[j] = img[j]
    /\ img[i].status # "none" => img'[i].host = img[i].host
    /\ img'[i].status # "none"
    /\ img'[i].task # "none" => img'[i].status = "building"
    /\ img[i].status \notin {"none", "building"} => img'[i].status \notin {"none", "building"}
    /\ img'[i].task \in {"request", "call"} =>
          img[i].task \in {"request", "call"} \/ img[i].status = "none"

\* How each handler and task changes its row.
LEMMA RowRuns ==
  ASSUME TypeOK, NEW i \in Imgs, RowSound(i), BuildSound(i),
         \/ BuildRequest(i) \/ TaskStep(i) \/ RequestDropped(i) \/ TaskStreamLost(i)
         \/ DeleteRow(i)
  PROVE  /\ RowGoes(i) /\ FailuresKept /\ UNCHANGED vm /\ deletes' \subseteq deletes
         /\ img'[i].status = "ready" => img[i].status = "ready" \/ Complete(i)
         /\ \/ build' = build
            \/ /\ img[i].task = "call" /\ img'[i].task \notin {"request", "call"}
               /\ build' = [build EXCEPT ![i].at = "pull"] /\ img'[i].status # "ready"
<1>0. img \in [Imgs -> Row] /\ img[i] \in Row
  BY DEF TypeOK
<1>1. ASSUME img[i].task # "none", NEW status \in {"ready", "error"}, TaskEnds(i, status)
      PROVE  /\ RowGoes(i) /\ FailuresKept
             /\ img'[i].task = "none" /\ img'[i].status \in {"building", status}
  <2>1. img[i].status = "building"
    BY <1>1 DEF RowSound
  <2>2. FailuresKept
    BY <1>1, NoFaultKeeps, FaultNamed DEF TaskEnds, Kinds
  <2>3. /\ img' \in [Imgs -> Row] /\ \A j \in Imgs \ {i} : img'[j] = img[j]
        /\ img'[i].host = img[i].host /\ img'[i].task = "none"
        /\ img'[i].status \in {"building", status}
    <3>1. CASE img' = [img EXCEPT ![i].task = "none", ![i].status = status]
      BY <1>0, <1>1, <3>1 DEF Row
    <3>2. CASE img' = [img EXCEPT ![i].task = "none"]
      BY <1>0, <1>1, <2>1, <3>2 DEF Row
    <3> QED
      BY <1>1, <3>1, <3>2 DEF TaskEnds
  <2> QED
    BY <2>1, <2>2, <2>3 DEF RowGoes
<1>2. CASE BuildRequest(i)
  <2>1. PICK n \in Names, h \in Hosts :
          img' = [img EXCEPT ![i] = [status |-> "building", name |-> n, host |-> h,
                                     task |-> "request"]]
    BY <1>2 DEF BuildRequest
  <2>2. [status |-> "building", name |-> n, host |-> h, task |-> "request"] \in Row
    BY DEF Row
  <2>3. /\ FailuresKept /\ img[i].status = "none" /\ UNCHANGED <<build, deletes, vm>>
    BY <1>2, NoFaultKeeps DEF BuildRequest
  <2> QED
    BY <1>0, <2>1, <2>2, <2>3 DEF RowGoes
<1>3. CASE TaskSpawn(i)
  <2>1. /\ FailuresKept /\ img[i].task = "request" /\ img[i].status = "building"
        /\ img' = [img EXCEPT ![i].task = "call"] /\ UNCHANGED <<build, deletes, vm>>
    BY <1>3, NoFaultKeeps DEF TaskSpawn, RowSound
  <2>2. /\ img' \in [Imgs -> Row] /\ \A j \in Imgs \ {i} : img'[j] = img[j]
        /\ img'[i].host = img[i].host /\ img'[i].task = "call"
        /\ img'[i].status = "building"
    BY <1>0, <2>1 DEF Row
  <2> QED
    BY <2>1, <2>2 DEF RowGoes
<1>4. CASE RequestDropped(i)
  <2>1. /\ FailuresKept /\ img[i].task = "request" /\ img[i].status = "building"
        /\ img' = [img EXCEPT ![i].task = "none"] /\ UNCHANGED <<build, deletes, vm>>
    BY <1>4, FaultNamed DEF RequestDropped, RowSound, Kinds
  <2>2. /\ img' \in [Imgs -> Row] /\ \A j \in Imgs \ {i} : img'[j] = img[j]
        /\ img'[i].host = img[i].host /\ img'[i].task = "none"
        /\ img'[i].status = "building"
    BY <1>0, <2>1 DEF Row
  <2> QED
    BY <2>1, <2>2 DEF RowGoes
<1>5. CASE TaskCall(i)
  <2>1. /\ FailuresKept /\ img[i].task = "call" /\ img[i].status = "building"
        /\ img' = [img EXCEPT ![i].task = "read"] /\ UNCHANGED <<deletes, vm>>
        /\ build' = [build EXCEPT ![i].at = "pull"]
    BY <1>5, NoFaultKeeps DEF TaskCall, RowSound
  <2>2. /\ img' \in [Imgs -> Row] /\ \A j \in Imgs \ {i} : img'[j] = img[j]
        /\ img'[i].host = img[i].host /\ img'[i].task = "read"
        /\ img'[i].status = "building"
    BY <1>0, <2>1 DEF Row
  <2> QED
    BY <2>1, <2>2 DEF RowGoes
<1>6. CASE TaskCallFails(i)
  <2>1. /\ img[i].task = "call" /\ TaskEnds(i, "error") /\ UNCHANGED <<deletes, vm>>
        /\ build' \in {build, [build EXCEPT ![i].at = "pull"]}
    BY <1>6 DEF TaskCallFails
  <2>2. /\ RowGoes(i) /\ FailuresKept
        /\ img'[i].task = "none" /\ img'[i].status \in {"building", "error"}
    BY <1>1, <2>1
  <2> QED
    BY <2>1, <2>2
<1>7. CASE TaskRead(i)
  <2>1. /\ img[i].task = "read" /\ build[i].event # "none" /\ UNCHANGED <<build, deletes, vm>>
        /\ TaskEnds(i, IF build[i].event = "done" THEN "ready" ELSE "error")
    BY <1>7 DEF TaskRead
  <2>2. build[i].event = "done" => Complete(i)
    BY <2>1 DEF BuildSound, Complete
  <2>3. CASE build[i].event = "done"
    <3>1. TaskEnds(i, "ready")
      BY <2>1, <2>3
    <3>2. RowGoes(i) /\ FailuresKept
      BY <1>1, <2>1, <3>1
    <3> QED
      BY <2>1, <2>2, <2>3, <3>2
  <2>4. CASE build[i].event # "done"
    <3>1. TaskEnds(i, "error")
      BY <2>1, <2>4
    <3>2. RowGoes(i) /\ FailuresKept /\ img'[i].status \in {"building", "error"}
      BY <1>1, <2>1, <3>1
    <3> QED
      BY <2>1, <3>2
  <2> QED
    BY <2>3, <2>4
<1>8. CASE TaskStreamEnds(i)
  <2>1. /\ img[i].task = "read" /\ TaskEnds(i, "error") /\ UNCHANGED <<build, deletes, vm>>
    BY <1>8 DEF TaskStreamEnds
  <2>2. RowGoes(i) /\ FailuresKept /\ img'[i].status \in {"building", "error"}
    BY <1>1, <2>1
  <2> QED
    BY <2>1, <2>2
<1>9. CASE TaskStreamLost(i)
  <2>1. /\ FailuresKept /\ img[i].task = "read" /\ img[i].status = "building"
        /\ img' = [img EXCEPT ![i].task = "none", ![i].status = "error"]
        /\ UNCHANGED <<build, deletes, vm>>
    BY <1>9, FaultNamed DEF TaskStreamLost, RowSound, Kinds
  <2>2. /\ img' \in [Imgs -> Row] /\ \A j \in Imgs \ {i} : img'[j] = img[j]
        /\ img'[i].host = img[i].host /\ img'[i].task = "none"
        /\ img'[i].status = "error"
    BY <1>0, <2>1 DEF Row
  <2> QED
    BY <2>1, <2>2 DEF RowGoes
<1>10. CASE DeleteRow(i)
  <2>1. /\ FailuresKept /\ img[i].status \notin {"none", "building"}
        /\ img[i].task = "none" /\ deletes' = deletes \ {i}
        /\ img' = [img EXCEPT ![i].status = "deleted"] /\ UNCHANGED <<build, vm>>
    BY <1>10, NoFaultKeeps DEF DeleteRow, RowSound
  <2>2. /\ img' \in [Imgs -> Row] /\ \A j \in Imgs \ {i} : img'[j] = img[j]
        /\ img'[i].host = img[i].host /\ img'[i].task = "none"
        /\ img'[i].status = "deleted"
    BY <1>0, <2>1 DEF Row
  <2> QED
    BY <2>1, <2>2 DEF RowGoes
<1> QED
  BY <1>2, <1>3, <1>4, <1>5, <1>6, <1>7, <1>8, <1>9, <1>10 DEF TaskStep

\* A build goes on.
LEMMA BuildStepKeeps ==
  ASSUME IInv, NEW i \in Imgs, BuildStep(i) PROVE IInv'
<1>0. TypeOK /\ ImagesSound /\ VmsSound
  BY DEF IInv
<1>1. /\ UNCHANGED <<img, deletes, vm>> /\ FailuresKept
      /\ ~At(i, "none") /\ ~At(i, "over") /\ build'[i].at # "none"
      /\ build' \in [Imgs -> Build] /\ \A j \in Imgs \ {i} : build'[j] = build[j]
      /\ BuildSound(i)'
  BY <1>0, BuildRuns DEF ImagesSound
<1>2. TypeOK'
  BY <1>0, <1>1 DEF TypeOK, FailuresKept, Kinds
<1>3. ASSUME NEW j \in Imgs, j # i PROVE BuildSound(j)' /\ RowSound(j)'
  <2>1. BuildSound(j) /\ RowSound(j) /\ build'[j] = build[j] /\ failed[j] \subseteq failed'[j]
    BY <1>0, <1>1, <1>3 DEF ImagesSound, FailuresKept
  <2>2. BuildSound(j)'
    BY <2>1 DEF BuildSound, At
  <2>3. RowSound(j)'
    BY <1>1, <2>1 DEF RowSound, Complete, At
  <2> QED
    BY <2>2, <2>3
<1>4. RowSound(i)'
  BY <1>0, <1>1 DEF ImagesSound, RowSound, Complete, At
<1>5. VmsSound'
  <2> SUFFICES ASSUME NEW v \in VMs, vm'[v] # None PROVE VmSound(v)'
    BY DEF VmsSound
  <2>1. vm'[v] = vm[v] /\ VmSound(v) /\ vm[v].img \in Imgs
    BY <1>0, <1>1 DEF VmsSound, TypeOK, Vm
  <2>2. vm[v].img # i
    BY <1>1, <2>1 DEF VmSound, Complete
  <2> QED
    BY <1>1, <2>1, <2>2 DEF VmSound, Complete, At
<1> QED
  BY <1>1, <1>2, <1>3, <1>4, <1>5 DEF IInv, ImagesSound

\* A handler or a task of the control plane changes a row.
LEMMA RowStepKeeps ==
  ASSUME IInv, NEW i \in Imgs,
         \/ BuildRequest(i) \/ TaskStep(i) \/ RequestDropped(i) \/ TaskStreamLost(i)
         \/ DeleteRow(i)
  PROVE  IInv'
<1>0. TypeOK /\ ImagesSound /\ VmsSound /\ BuildSound(i) /\ RowSound(i)
  BY DEF IInv, ImagesSound
<1>1. /\ RowGoes(i) /\ FailuresKept /\ UNCHANGED vm /\ deletes' \subseteq deletes
      /\ img'[i].status = "ready" => img[i].status = "ready" \/ Complete(i)
      /\ \/ build' = build
         \/ /\ img[i].task = "call" /\ img'[i].task \notin {"request", "call"}
            /\ build' = [build EXCEPT ![i].at = "pull"] /\ img'[i].status # "ready"
  BY <1>0, RowRuns
<1>2. /\ build' \in [Imgs -> Build] /\ \A j \in Imgs \ {i} : build'[j] = build[j]
      /\ \/ build'[i] = build[i]
         \/ /\ img[i].task = "call" /\ img'[i].task \notin {"request", "call"}
            /\ build'[i] = [build[i] EXCEPT !.at = "pull"] /\ img'[i].status # "ready"
  <2>1. build \in [Imgs -> Build]
    BY <1>0 DEF TypeOK
  <2>2. [build[i] EXCEPT !.at = "pull"] \in Build
    BY <2>1 DEF Build, Stages
  <2>3. CASE build' = build
    BY <2>1, <2>3
  <2>4. CASE /\ img[i].task = "call" /\ img'[i].task \notin {"request", "call"}
             /\ build' = [build EXCEPT ![i].at = "pull"] /\ img'[i].status # "ready"
    BY <2>1, <2>2, <2>4
  <2> QED
    BY <1>1, <2>3, <2>4
<1>3. TypeOK'
  BY <1>0, <1>1, <1>2 DEF TypeOK, FailuresKept, Kinds, RowGoes
<1>4. ASSUME NEW j \in Imgs, j # i PROVE BuildSound(j)' /\ RowSound(j)'
  <2>1. /\ BuildSound(j) /\ RowSound(j) /\ build'[j] = build[j] /\ failed[j] \subseteq failed'[j]
        /\ img'[j] = img[j]
    BY <1>0, <1>1, <1>2, <1>4 DEF ImagesSound, FailuresKept, RowGoes
  <2>2. BuildSound(j)'
    BY <2>1 DEF BuildSound, At
  <2>3. RowSound(j)'
    BY <1>1, <2>1 DEF RowSound, Complete, At
  <2> QED
    BY <2>2, <2>3
<1>5. CASE build'[i] = build[i]
  <2>1. BuildSound(i)'
    BY <1>0, <1>1, <1>5 DEF BuildSound, At, FailuresKept
  <2>2. RowSound(i)'
    BY <1>0, <1>1, <1>5 DEF RowSound, RowGoes, Complete, At
  <2>3. ASSUME NEW v \in VMs, vm'[v] # None PROVE VmSound(v)'
    <3>1. vm'[v] = vm[v] /\ VmSound(v) /\ vm[v].img \in Imgs
      BY <1>0, <1>1, <2>3 DEF VmsSound, TypeOK, Vm
    <3>2. build'[vm[v].img] = build[vm[v].img]
      BY <1>2, <1>5, <3>1
    <3>3. /\ img'[vm[v].img].status \notin {"none", "building"}
          /\ img'[vm[v].img].host = img[vm[v].img].host
      BY <1>1, <3>1 DEF RowGoes, VmSound
    <3> QED
      BY <3>1, <3>2, <3>3 DEF VmSound, Complete, At
  <2> QED
    BY <1>3, <1>4, <2>1, <2>2, <2>3 DEF IInv, ImagesSound, VmsSound
<1>6. CASE /\ img[i].task = "call" /\ img'[i].task \notin {"request", "call"}
           /\ build'[i] = [build[i] EXCEPT !.at = "pull"] /\ img'[i].status # "ready"
  <2>0. img[i].status = "building" /\ At(i, "none") /\ build[i] \in Build
    BY <1>0, <1>6 DEF RowSound, TypeOK
  <2>1. /\ build'[i].at = "pull" /\ build'[i].container = build[i].container
        /\ build'[i].mounted = build[i].mounted /\ build'[i].event = build[i].event
    BY <1>6, <2>0 DEF Build
  <2>2. BuildSound(i)'
    BY <1>0, <1>1, <2>0, <2>1 DEF BuildSound, At, FailuresKept
  <2>3. RowSound(i)'
    BY <1>0, <1>1, <1>6, <2>0 DEF RowSound, RowGoes
  <2>4. ASSUME NEW v \in VMs, vm'[v] # None PROVE VmSound(v)'
    <3>1. vm'[v] = vm[v] /\ VmSound(v) /\ vm[v].img \in Imgs \ {i}
      BY <1>0, <1>1, <2>0, <2>4 DEF VmsSound, VmSound, TypeOK, Vm
    <3>2. build'[vm[v].img] = build[vm[v].img] /\ img'[vm[v].img] = img[vm[v].img]
      BY <1>1, <1>2, <3>1 DEF RowGoes
    <3> QED
      BY <3>1, <3>2 DEF VmSound, Complete, At
  <2> QED
    BY <1>3, <1>4, <2>2, <2>3, <2>4 DEF IInv, ImagesSound, VmsSound
<1> QED
  BY <1>2, <1>5, <1>6

\* A VM is created, or an image's deletion passes its check.
LEMMA CreateStepKeeps ==
  ASSUME IInv, \/ \E i \in Imgs : DeleteRead(i)
               \/ \E v \in VMs : CreateFind(v) \/ CreateOnHost(v)
  PROVE  IInv'
<1>0. TypeOK /\ ImagesSound /\ VmsSound
  BY DEF IInv
<1>1. UNCHANGED <<img, build>> /\ FailuresKept /\ NoFault
  BY <1>0, NoFaultKeeps DEF DeleteRead, CreateFind, CreateOnHost
<1>2. ASSUME NEW i \in Imgs, DeleteRead(i) PROVE IInv'
  <2>1. /\ deletes' = deletes \cup {i} /\ img[i].status \notin {"none", "building"}
        /\ UNCHANGED vm
    BY <1>2 DEF DeleteRead, Exists
  <2>2. TypeOK'
    BY <1>0, <1>1, <2>1 DEF TypeOK, FailuresKept, Kinds
  <2>3. ImagesSound'
    BY <1>0, <1>1, <2>1 DEF ImagesSound, BuildSound, RowSound, Complete, At, NoFault
  <2>4. VmsSound'
    BY <1>0, <1>1, <2>1 DEF VmsSound, VmSound, Complete, At
  <2> QED
    BY <2>2, <2>3, <2>4 DEF IInv
<1>3. ASSUME NEW v \in VMs, CreateFind(v) \/ CreateOnHost(v) PROVE IInv'
  <2>1. UNCHANGED deletes
    BY <1>3 DEF CreateFind, CreateOnHost
  <2>2. ImagesSound'
    BY <1>0, <1>1, <2>1 DEF ImagesSound, BuildSound, RowSound, Complete, At, NoFault
  <2>3. \A w \in VMs \ {v} : vm'[w] = vm[w]
    BY <1>0, <1>3 DEF TypeOK, CreateFind, CreateOnHost
  <2>4. CASE CreateFind(v)
    <3>1. PICK i \in Imgs, h \in Hosts :
            /\ img[i].status = "ready"
            /\ vm' = [vm EXCEPT ![v] = [at |-> "call", img |-> i, host |-> h]]
      BY <2>4 DEF CreateFind
    <3>2. [at |-> "call", img |-> i, host |-> h] \in Vm
      BY DEF Vm
    <3>3. vm' \in [VMs -> Vm \cup {None}]
      BY <1>0, <3>1, <3>2 DEF TypeOK
    <3>4. vm'[v] = [at |-> "call", img |-> i, host |-> h]
      BY <1>0, <3>1 DEF TypeOK
    <3>5. VmSound(v)'
      BY <1>0, <1>1, <3>1, <3>4 DEF VmSound, ImagesSound, RowSound, Complete, At
    <3>6. VmsSound'
      BY <1>0, <1>1, <2>3, <3>5 DEF VmsSound, VmSound, Complete, At
    <3>7. TypeOK'
      BY <1>0, <1>1, <2>1, <3>3 DEF TypeOK, FailuresKept, Kinds
    <3> QED
      BY <2>2, <3>6, <3>7 DEF IInv
  <2>5. CASE CreateOnHost(v)
    <3>1. /\ vm[v] # None /\ vm[v] \in Vm
          /\ vm' = [vm EXCEPT ![v].at =
               IF build[vm[v].img].file # "none" /\ img[vm[v].img].host = vm[v].host
               THEN "row" ELSE "refused"]
      BY <1>0, <2>5 DEF TypeOK, CreateOnHost
    <3>2. /\ vm' \in [VMs -> Vm \cup {None}]
          /\ vm'[v].img = vm[v].img /\ vm'[v].host = vm[v].host
          /\ vm'[v].at = "row" => img[vm[v].img].host = vm[v].host
      BY <1>0, <3>1 DEF TypeOK, Vm
    <3>3. VmSound(v)'
      BY <1>0, <1>1, <3>1, <3>2 DEF VmsSound, VmSound, Complete, At
    <3>4. VmsSound'
      BY <1>0, <1>1, <2>3, <3>3 DEF VmsSound, VmSound, Complete, At
    <3>5. TypeOK'
      BY <1>0, <1>1, <2>1, <3>2 DEF TypeOK, FailuresKept, Kinds
    <3> QED
      BY <2>2, <3>4, <3>5 DEF IInv
  <2> QED
    BY <1>3, <2>4, <2>5
<1> QED
  BY <1>2, <1>3

\* An agent crashes: a build that was under way is over, with the crash as the
\* reason for what it leaves; one that was over stays what it was.
LEMMA CrashKeeps == ASSUME IInv, NEW h \in Hosts, AgentCrash(h) PROVE IInv'
<1>0. TypeOK /\ ImagesSound /\ VmsSound
  BY DEF IInv
<1> DEFINE here == {i \in Imgs : img[i].host = h /\ ~At(i, "none")}
<1>1. PICK lost \in BOOLEAN :
        build' = [i \in Imgs |-> IF i \notin here THEN build[i]
                                 ELSE [build[i] EXCEPT !.at = "over",
                                                       !.event = IF lost THEN "none" ELSE @]]
  BY DEF AgentCrash
<1>2. /\ UNCHANGED <<img, deletes, vm>> /\ faults < MaxFaults /\ faults' = faults + 1
      /\ failed' = [i \in Imgs |->
                      failed[i] \cup IF i \in here /\ ~At(i, "over") THEN {"crash"} ELSE {}]
  BY DEF AgentCrash
<1>3. FailuresKept /\ \A i \in here : ~At(i, "over") => "crash" \in failed'[i]
  <2>1. faults' \in 0 .. MaxFaults
    <3>1. faults \in 0 .. MaxFaults
      BY <1>0 DEF TypeOK
    <3> QED
      BY <1>2, <3>1, MaxFaultsAssumption
  <2> QED
    BY <1>0, <1>2, <2>1 DEF TypeOK, FailuresKept, Kinds
<1>4. \A i \in Imgs \ here : build'[i] = build[i]
  BY <1>1
<1>5. \A i \in here : /\ build'[i].at = "over" /\ build'[i] \in Build
                      /\ build'[i].event \in {"none", build[i].event}
                      /\ build'[i].container = build[i].container
                      /\ build'[i].mounted = build[i].mounted
                      /\ build'[i].file = build[i].file /\ build'[i].init = build[i].init
  <2> SUFFICES ASSUME NEW i \in here
               PROVE  /\ build'[i].at = "over" /\ build'[i] \in Build
                      /\ build'[i].event \in {"none", build[i].event}
                      /\ build'[i].container = build[i].container
                      /\ build'[i].mounted = build[i].mounted
                      /\ build'[i].file = build[i].file /\ build'[i].init = build[i].init
    OBVIOUS
  <2>1. build[i] \in Build /\ i \in Imgs
    BY <1>0 DEF TypeOK
  <2>2. build'[i] = [build[i] EXCEPT !.at = "over", !.event = IF lost THEN "none" ELSE @]
    BY <1>1, <2>1
  <2> QED
    BY <2>1, <2>2 DEF Build, Stages
<1>6. build' \in [Imgs -> Build]
  BY <1>0, <1>1, <1>4, <1>5 DEF TypeOK
<1>7. TypeOK'
  BY <1>0, <1>2, <1>3, <1>6 DEF TypeOK, FailuresKept, Kinds
<1>8. ASSUME NEW i \in Imgs PROVE BuildSound(i)' /\ RowSound(i)'
  <2>1. BuildSound(i) /\ RowSound(i) /\ failed[i] \subseteq failed'[i]
    BY <1>0, <1>3 DEF ImagesSound, FailuresKept
  <2>2. CASE i \in here
    <3>1. BuildSound(i)'
      BY <1>3, <1>5, <2>1, <2>2 DEF BuildSound, At
    <3>2. RowSound(i)'
      BY <1>2, <1>5, <2>1, <2>2 DEF RowSound, Complete, At
    <3> QED
      BY <3>1, <3>2
  <2>3. CASE i \notin here
    <3>1. BuildSound(i)'
      BY <1>4, <2>1, <2>3 DEF BuildSound, At
    <3>2. RowSound(i)'
      BY <1>2, <1>4, <2>1, <2>3 DEF RowSound, Complete, At
    <3> QED
      BY <3>1, <3>2
  <2> QED
    BY <2>2, <2>3
<1>9. ASSUME NEW v \in VMs, vm'[v] # None PROVE VmSound(v)'
  <2>1. vm'[v] = vm[v] /\ VmSound(v) /\ vm[v].img \in Imgs
    BY <1>0, <1>2, <1>9 DEF VmsSound, TypeOK, Vm
  <2>2. Complete(vm[v].img)'
    BY <1>2, <1>4, <1>5, <2>1 DEF VmSound, Complete, At
  <2> QED
    BY <1>2, <2>1, <2>2 DEF VmSound, Complete, At
<1> QED
  BY <1>7, <1>8, <1>9 DEF IInv, ImagesSound, VmsSound

\* A host goes dark: the rows of the builds there stay 'building', with a task
\* that hangs, and a build that ends with its host is as after a crash.
LEMMA DarkKeeps == ASSUME IInv, NEW h \in Hosts, HostDark(h) PROVE IInv'
<1>0. TypeOK /\ ImagesSound /\ VmsSound
  BY DEF IInv
<1> DEFINE here == {i \in Imgs : img[i].host = h /\ img[i].task = "read"}
<1>1. PICK off \in BOOLEAN :
        LET ends(i) == off /\ img[i].host = h /\ ~At(i, "none") /\ ~At(i, "over") IN
        /\ build' = [i \in Imgs |-> IF ends(i) THEN [build[i] EXCEPT !.at = "over"]
                                    ELSE build[i]]
        /\ failed' = [i \in Imgs |-> failed[i] \cup (IF i \in here THEN {"dark"} ELSE {})
                                              \cup (IF ends(i) THEN {"crash"} ELSE {})]
  BY DEF HostDark
<1> DEFINE ended == {i \in Imgs : off /\ img[i].host = h /\ ~At(i, "none") /\ ~At(i, "over")}
<1>2. /\ UNCHANGED <<deletes, vm>> /\ faults < MaxFaults /\ faults' = faults + 1
      /\ img' = [i \in Imgs |-> IF i \in here THEN [img[i] EXCEPT !.task = "hung"] ELSE img[i]]
  BY DEF HostDark
<1>3. FailuresKept /\ \A i \in ended : "crash" \in failed'[i]
  <2>1. faults' \in 0 .. MaxFaults
    <3>1. faults \in 0 .. MaxFaults
      BY <1>0 DEF TypeOK
    <3> QED
      BY <1>2, <3>1, MaxFaultsAssumption
  <2>2. ASSUME NEW i \in Imgs
        PROVE  /\ failed[i] \subseteq failed'[i] /\ failed'[i] \in SUBSET Kinds
               /\ i \in ended => "crash" \in failed'[i]
    <3>1. failed[i] \in SUBSET Kinds
      BY <1>0 DEF TypeOK, Kinds
    <3> QED
      BY <1>1, <3>1 DEF Kinds
  <2>3. failed' \in [Imgs -> SUBSET Kinds]
    BY <1>1, <2>2
  <2> QED
    BY <2>1, <2>2, <2>3 DEF FailuresKept
<1>4. ASSUME NEW i \in Imgs
      PROVE  /\ img'[i] \in Row /\ img'[i].status = img[i].status
             /\ img'[i].host = img[i].host
             /\ \/ img'[i].task = img[i].task
                \/ img[i].task = "read" /\ img'[i].task = "hung"
  <2>1. img[i] \in Row
    BY <1>0 DEF TypeOK
  <2> QED
    BY <1>2, <2>1 DEF Row
<1>5. ASSUME NEW i \in Imgs
      PROVE  /\ build'[i] \in Build /\ build'[i].event = build[i].event
             /\ build'[i].container = build[i].container
             /\ build'[i].mounted = build[i].mounted
             /\ build'[i].file = build[i].file /\ build'[i].init = build[i].init
             /\ \/ i \notin ended /\ build'[i].at = build[i].at
                \/ i \in ended /\ build'[i].at = "over" /\ ~At(i, "none") /\ ~At(i, "over")
  <2>1. build[i] \in Build
    BY <1>0 DEF TypeOK
  <2> QED
    BY <1>1, <2>1 DEF Build, Stages
<1>6. TypeOK'
  <2>1. img' \in [Imgs -> Row]
    BY <1>2, <1>4
  <2>2. build' \in [Imgs -> Build]
    BY <1>1, <1>5
  <2> QED
    BY <1>0, <1>2, <1>3, <2>1, <2>2 DEF TypeOK, FailuresKept, Kinds
<1>7. ASSUME NEW i \in Imgs PROVE BuildSound(i)' /\ RowSound(i)'
  <2>1. BuildSound(i) /\ RowSound(i) /\ failed[i] \subseteq failed'[i]
    BY <1>0, <1>3 DEF ImagesSound, FailuresKept
  <2>2. BuildSound(i)'
    BY <1>3, <1>5, <2>1 DEF BuildSound, At
  <2>3. RowSound(i)'
    BY <1>2, <1>4, <1>5, <2>1 DEF RowSound, Complete, At
  <2> QED
    BY <2>2, <2>3
<1>8. ASSUME NEW v \in VMs, vm'[v] # None PROVE VmSound(v)'
  <2>1. vm'[v] = vm[v] /\ VmSound(v) /\ vm[v].img \in Imgs
    BY <1>0, <1>2, <1>8 DEF VmsSound, TypeOK, Vm
  <2> QED
    BY <1>4, <1>5, <2>1 DEF VmSound, Complete, At
<1> QED
  BY <1>6, <1>7, <1>8 DEF IInv, ImagesSound, VmsSound

\* The control plane restarts: rows stay as they are, without their tasks.
LEMMA RestartKeeps == ASSUME IInv, CpRestart PROVE IInv'
<1>0. TypeOK /\ ImagesSound /\ VmsSound
  BY DEF IInv
<1>1. /\ faults < MaxFaults /\ faults' = faults + 1 /\ deletes' = {} /\ build' = build
      /\ failed' = [i \in Imgs |-> failed[i] \cup IF img[i].task = "none" THEN {} ELSE {"task"}]
      /\ img' = [i \in Imgs |-> [img[i] EXCEPT !.task = "none"]]
      /\ vm' = [v \in VMs |-> IF vm[v] # None /\ vm[v].at = "call" THEN None ELSE vm[v]]
  BY DEF CpRestart
<1>2. FailuresKept
  <2>1. faults' \in 0 .. MaxFaults
    <3>1. faults \in 0 .. MaxFaults
      BY <1>0 DEF TypeOK
    <3> QED
      BY <1>1, <3>1, MaxFaultsAssumption
  <2> QED
    BY <1>0, <1>1, <2>1 DEF TypeOK, FailuresKept, Kinds
<1>3. \A i \in Imgs : /\ img'[i] \in Row /\ img'[i].task = "none"
                      /\ img'[i].status = img[i].status /\ img'[i].host = img[i].host
  BY <1>0, <1>1 DEF TypeOK, Row
<1>4. \A v \in VMs : vm'[v] # None => vm'[v] = vm[v]
  BY <1>1
<1>5. TypeOK'
  <2>1. img' \in [Imgs -> Row]
    BY <1>1, <1>3
  <2>2. vm' \in [VMs -> Vm \cup {None}]
    BY <1>0, <1>1 DEF TypeOK
  <2> QED
    BY <1>0, <1>1, <1>2, <2>1, <2>2 DEF TypeOK, FailuresKept, Kinds
<1>6. ASSUME NEW i \in Imgs PROVE BuildSound(i)' /\ RowSound(i)'
  <2>1. BuildSound(i) /\ RowSound(i) /\ failed[i] \subseteq failed'[i]
    BY <1>0, <1>2 DEF ImagesSound, FailuresKept
  <2>2. BuildSound(i)'
    BY <1>1, <2>1 DEF BuildSound, At
  <2>3. RowSound(i)'
    BY <1>1, <1>3, <2>1 DEF RowSound, Complete, At
  <2> QED
    BY <2>2, <2>3
<1>7. ASSUME NEW v \in VMs, vm'[v] # None PROVE VmSound(v)'
  <2>1. vm'[v] = vm[v] /\ VmSound(v) /\ vm[v].img \in Imgs
    BY <1>0, <1>4, <1>7 DEF VmsSound, TypeOK, Vm
  <2> QED
    BY <1>1, <1>3, <2>1 DEF VmSound, Complete, At
<1> QED
  BY <1>5, <1>6, <1>7 DEF IInv, ImagesSound, VmsSound

\* The invariant holds in every state the program reaches.
LEMMA Invariant == Spec => []IInv
<1>1. IInv /\ UNCHANGED vars => IInv'
  BY DEF IInv, TypeOK, ImagesSound, BuildSound, RowSound, VmsSound, VmSound, Complete, At, vars
<1>2. IInv /\ [Next]_vars => IInv'
  BY <1>1, BuildStepKeeps, RowStepKeeps, CreateStepKeeps, CrashKeeps, DarkKeeps, RestartKeeps DEF Next
<1> QED
  BY <1>2, InitInv, PTL DEF Spec

\* The variables keep their types.
THEOREM TypeCorrect == Spec => []TypeOK
<1>1. IInv => TypeOK
  BY DEF IInv
<1> QED
  BY <1>1, Invariant, PTL

\* While a task waits for its build the row is 'building': no request deletes it
\* or gives its name away (admin.rs build_image, delete_image).
THEOREM TasksOwnRows == Spec => []TaskOwnsRow
<1>1. IInv => TaskOwnsRow
  BY DEF IInv, ImagesSound, RowSound, TaskOwnsRow
<1> QED
  BY <1>1, Invariant, PTL

\* A VM that was created has a complete image on its host, in which the build
\* found one of the programs it takes for an init, although its create looks at
\* the row, and its agent at the file, at different times (ops.rs create_vm,
\* manager/mod.rs create_vm). Whether the guest can run it is another matter.
THEOREM CreatedVmsHaveImages == Spec => []VmHasImage
<1>1. IInv => VmHasImage
  BY DEF IInv, VmsSound, VmSound, Complete, VmHasImage
<1> QED
  BY <1>1, Invariant, PTL

\* A build that is over has removed its container and unmounted what it mounted,
\* unless removing or unmounting failed or the agent crashed (agent.rs
\* build_image_inner).
THEOREM BuildsCleanUp == Spec => []BuildLeavesNothing
<1>1. IInv => BuildLeavesNothing
  BY DEF IInv, ImagesSound, BuildSound, At, BuildLeavesNothing
<1> QED
  BY <1>1, Invariant, PTL

=============================================================================
