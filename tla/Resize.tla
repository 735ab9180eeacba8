------------------------------- MODULE Resize -------------------------------
(***************************************************************************)
(* The resources of one VM: those its row promises and those its process   *)
(* runs with (control-plane/src/ops.rs resize_resources, host-agent        *)
(* manager/mod.rs start_vm, resize_cpu and resize_bandwidth, overlay.rs).  *)
(* A resize reads the row, writes all of it back and then calls the agent; *)
(* a start boots with the row as it read it.  Stops are single steps here; *)
(* VmLifecycle has theirs.                                                 *)
(***************************************************************************)
EXTENDS Integers

CONSTANTS Requests, Nothing,
          Resources,   \* the resources of this instance, of AllResources
          MaxSize      \* bound: sizes a resource may have

AllResources == {"vcpus", "memory", "disk", "bandwidth"}

ASSUME ResourcesAssumption == Resources \subseteq AllResources
ASSUME SizeAssumption == MaxSize \in Nat \ {0}

VARIABLES row,      \* the row's resources
          status,   \* and its status
          boot,     \* the resources a start has read
          vmm,      \* what the process runs with, Nothing without one
          overlay,  \* the size of the overlay file
          req,      \* req[r]: the resize that r handles, between two statements
          mixed     \* resizes or starts overlapped, or a call failed, since the
                    \* start that the process comes from (a history)

resizeVars == <<row, status, boot, vmm, overlay, req, mixed>>

Sizes == 1..MaxSize
Sized == [Resources -> Sizes]

\* What the agent sets for a process, and the resource it sets it by.
Of == [cap |-> "vcpus", weight |-> "vcpus", mem |-> "memory", shaping |-> "bandwidth"]
Settings == {s \in DOMAIN Of : Of[s] \in Resources}
Handler == [at : {"write", "vcpus", "bandwidth"}, seen : Sized, running : BOOLEAN, want : Sized]

\* No process, start or resize is none that there could be.
ASSUME NothingAssumption == Nothing \notin Sized \cup [Settings -> Sizes] \cup Handler

Handling(r, at) == req[r] # Nothing /\ req[r].at = at
Quiet == \A r \in Requests : req[r] = Nothing
Others(r) == \E q \in Requests \ {r} : req[q] # Nothing
Answer(r) == req' = [req EXCEPT ![r] = Nothing]

\* Resources that a resize of a running VM changes on the agent, after from.
LiveCalls(r) == {x \in Resources \cap {"vcpus", "bandwidth"} :
                   req[r].running /\ req[r].want[x] # req[r].seen[x]}

-----------------------------------------------------------------------------
ResizeInit ==
    /\ row \in [Resources -> {1}] /\ status = "stopped"
    /\ boot = Nothing /\ vmm = Nothing /\ overlay = 1
    /\ req = [r \in Requests |-> Nothing] /\ mixed = FALSE

\* resize_resources reads the row; memory and disk of a running VM stay as they
\* are, and a disk does not shrink ...
ResizeRead(r) == \E want \in Sized :
    /\ req[r] = Nothing /\ want # row
    /\ \A x \in Resources \cap {"memory", "disk"} : status = "running" => want[x] = row[x]
    /\ "disk" \in Resources => want["disk"] >= row["disk"]
    /\ req' = [req EXCEPT ![r] = [at |-> "write", seen |-> row, want |-> want,
                                  running |-> status = "running"]]
    /\ mixed' = (mixed \/ Others(r) \/ boot # Nothing)
    /\ UNCHANGED <<row, status, boot, vmm, overlay>>

\* The calls that are left once those for `made` are.
Proceed(r, made) ==
    LET left == LiveCalls(r) \ made IN
    IF left = {} THEN Answer(r)
    ELSE req' = [req EXCEPT ![r].at = IF "vcpus" \in left THEN "vcpus" ELSE "bandwidth"]

\* ... update_vm_resources writes every resource, as it was read or asked for ...
ResizeWrite(r) ==
    /\ Handling(r, "write")
    /\ row' = req[r].want /\ Proceed(r, {})
    /\ UNCHANGED <<status, boot, vmm, overlay, mixed>>

\* Mutant: cpu.max is written, and cpu.weight left.
ResizeCpuCap(r) ==
    /\ Handling(r, "vcpus") /\ vmm # Nothing
    /\ vmm' = [vmm EXCEPT !["cap"] = req[r].want["vcpus"]]
    /\ Proceed(r, {"vcpus"})
    /\ UNCHANGED <<row, status, boot, overlay, mixed>>

\* ... the agent writes cpu.weight of the process ...
ResizeCpu(r) ==
    /\ Handling(r, "vcpus") /\ vmm # Nothing
    /\ vmm' = [vmm EXCEPT !["weight"] = req[r].want["vcpus"]]
    /\ Proceed(r, {"vcpus"})
    /\ UNCHANGED <<row, status, boot, overlay, mixed>>

\* ... and shapes the TAP device of a running VM.
ResizeBandwidth(r) ==
    /\ Handling(r, "bandwidth") /\ vmm # Nothing /\ status = "running"
    /\ vmm' = [vmm EXCEPT !["shaping"] = req[r].want["bandwidth"]]
    /\ Answer(r)
    /\ UNCHANGED <<row, status, boot, overlay, mixed>>

\* A call fails, and the request with it: the VM has stopped, or the connection
\* breaks.  The row keeps what was written.
ResizeFails(r) ==
    /\ Handling(r, "vcpus") \/ Handling(r, "bandwidth")
    /\ Answer(r) /\ mixed' = TRUE
    /\ UNCHANGED <<row, status, boot, vmm, overlay>>

-----------------------------------------------------------------------------
Reserve ==
    /\ status \in {"stopped", "error"} /\ status' = "starting"
    /\ UNCHANGED <<row, boot, vmm, overlay, req, mixed>>

\* start_vm reads the row ...
StartRead ==
    /\ status = "starting" /\ boot = Nothing
    /\ boot' = row /\ mixed' = ~Quiet
    /\ UNCHANGED <<row, status, vmm, overlay, req>>

\* resize_overlay does nothing for a file that is large enough.
Resized(size) == IF overlay >= size THEN overlay ELSE size

\* ... and boots a process with it.
StartBoot ==
    /\ boot # Nothing /\ boot' = Nothing
    /\ overlay' = IF "disk" \in Resources THEN Resized(boot["disk"]) ELSE overlay
    /\ vmm' = [s \in Settings |-> boot[Of[s]]] /\ status' = "running"
    /\ UNCHANGED <<row, req, mixed>>

\* Mutant: a status that no other code knows.
StartFailsUnknown ==
    /\ boot # Nothing /\ boot' = Nothing
    /\ status' = "failed"
    /\ UNCHANGED <<row, vmm, overlay, req, mixed>>

StartFails ==
    /\ boot # Nothing /\ boot' = Nothing
    /\ overlay' = IF "disk" \in Resources THEN Resized(boot["disk"]) ELSE overlay
    /\ status' = "error"
    /\ UNCHANGED <<row, vmm, req, mixed>>

\* The VM is stopped, or dies.
Ends ==
    /\ vmm # Nothing /\ vmm' = Nothing
    /\ status' \in {"stopped", "error"}
    /\ UNCHANGED <<row, boot, overlay, req, mixed>>

ResizeNext ==
    \/ Reserve \/ StartRead \/ StartBoot \/ StartFails \/ Ends
    \/ \E r \in Requests :
         \/ ResizeRead(r) \/ ResizeWrite(r) \/ ResizeCpu(r) \/ ResizeBandwidth(r)
         \/ ResizeFails(r)

ResizeSpec == ResizeInit /\ [][ResizeNext]_resizeVars

-----------------------------------------------------------------------------
ResizeTypeOK ==
    /\ row \in Sized /\ status \in {"stopped", "starting", "running", "error"}
    /\ boot \in Sized \cup {Nothing} /\ vmm \in [Settings -> Sizes] \cup {Nothing}
    /\ overlay \in Sizes /\ req \in [Requests -> Handler \cup {Nothing}]
    /\ mixed \in BOOLEAN

\* "all changes take effect on next start" (frontend VmDetailPage.tsx:305), and
\* from then on the process follows the row, but for cpu.max: a start that no
\* resize overlaps settles what overlapping ones have left, and its disk has at
\* least the size the row says (ops.rs:410-449, overlay.rs:62-70).
StartSettles == (vmm # Nothing /\ Quiet /\ ~mixed) =>
    /\ \A s \in Settings \ {"cap"} : vmm[s] = row[Of[s]]
    /\ "disk" \in Resources => overlay >= row["disk"]
=============================================================================
