------------------------ MODULE VmLifecycle_proofs ------------------------
(***************************************************************************)
(* Proofs about VmLifecycle, for any number of requests and processes, any *)
(* number of operations and faults, and any capacity of the event channel: *)
(* type correctness, the discipline of the drivers, and the refinement of  *)
(* VmDriver.                                                               *)
(*                                                                         *)
(* HandleDiscipline is not inductive: it says nothing of where a request   *)
(* stands when it holds a driver, nor that a fresh process has no driver   *)
(* yet. Owners says both. TypeOK and Owners lean on one another (a stop at *)
(* its shutdown kills a process, not None), so they are proved together.   *)
(* What the actions do to the drivers is proved once, as DriverMove; the   *)
(* discipline and the refinement then follow from its eight kinds of step. *)
(***************************************************************************)
EXTENDS VmLifecycle, TLAPS

\* The points at which a request holds a driver.
OwnerPoints == {"start_record", "start_insert", "stop_shutdown", "snap_put"}

\* A request holds a driver exactly at the owner points, and only of a process
\* that was spawned: what makes HandleDiscipline inductive.
Owners ==
    /\ \A t \in Threads : th[t].fc # None <=> th[t].pc \in OwnerPoints
    /\ \A t \in Threads : th[t].fc \in spawned \cup {None}
    /\ handle \in spawned \cup {None}

DriverInv == Owners /\ HandleDiscipline

\* The program points that the actions name.
LEMMA PointTypes ==
    /\ {"start_call", "start_refused", "del_check", "del_route"}
           \subseteq Points
    /\ {"start_read", "start_tap", "start_spawn", "start_record",
        "start_insert", "start_failed", "restore_read",
        "restore_mark", "stop_read", "stop_mark", "stop_take",
                "stop_shutdown", "stop_release", "stop_record", "snap_read",
                "snap_take", "snap_put", "del_read", "del_rows"}
           \subseteq Points
    /\ "idle" \in Points
  BY DEF Points, CpPoints, AgentPoints

\* What a well-typed request holds.
LEMMA RequestParts ==
    ASSUME RequestTypes, NEW t \in Threads
    PROVE  /\ th[t] \in Thread
           /\ th[t].pc \in Points /\ th[t].pid \in Procs \cup {None, Zero}
           /\ th[t].fc \in Procs \cup {None}
  BY DEF RequestTypes, Thread

\* The idle request is one.
LEMMA IdleType == Idle \in Thread
  BY DEF Idle, Thread, Points

\* However a request moves, it stays well typed.
LEMMA RequestMoves ==
    ASSUME RequestTypes, NEW t \in Threads
    PROVE  /\ Return(t) => RequestTypes'
           /\ \A point \in Points : Goto(t, point) => RequestTypes'
           /\ \A point \in Points, fc \in Procs \cup {None} :
                th' = [th EXCEPT ![t].pc = point, ![t].fc = fc]
                   => RequestTypes'
           /\ \A point \in Points, pid \in Procs \cup {None, Zero} :
                th' = [th EXCEPT ![t].pc = point, ![t].pid = pid]
                   => RequestTypes'
           /\ \A point \in Points,
                 o \in {"start", "restore", "stop", "snapshot", "delete"} :
                th' = [th EXCEPT ![t] = [Idle EXCEPT !.pc = point, !.op = o]]
                   => RequestTypes'
<1>1. th[t] \in Thread /\ Idle \in Thread
  BY RequestParts, IdleType
<1>2. Return(t) => RequestTypes'
  BY <1>1 DEF RequestTypes, Return
<1>3. ASSUME NEW point \in Points, Goto(t, point) PROVE RequestTypes'
  BY <1>1, <1>3 DEF RequestTypes, Goto, Thread
<1>4. ASSUME NEW point \in Points, NEW fc \in Procs \cup {None},
             th' = [th EXCEPT ![t].pc = point, ![t].fc = fc]
      PROVE  RequestTypes'
  BY <1>1, <1>4 DEF RequestTypes, Thread
<1>5. ASSUME NEW point \in Points, NEW pid \in Procs \cup {None, Zero},
             th' = [th EXCEPT ![t].pc = point, ![t].pid = pid]
      PROVE  RequestTypes'
  BY <1>1, <1>5 DEF RequestTypes, Thread
<1>6. ASSUME NEW point \in Points,
             NEW o \in {"start", "restore", "stop", "snapshot", "delete"},
             th' = [th EXCEPT ![t] = [Idle EXCEPT !.pc = point, !.op = o]]
      PROVE  RequestTypes'
  BY <1>1, <1>6 DEF RequestTypes, Thread
<1>. QED
  BY <1>2, <1>3, <1>4, <1>5, <1>6

\* An empty stream is well typed.
LEMMA EmptyStream == <<>> \in Seq(EventKind)
  OBVIOUS

\* The resting states of the loops are well typed.
LEMMA IdleLoops ==
    /\ WatchIdle \in [pc : {"idle", "status", "route"}, ev : EventKind]
    /\ HbIdle \in [pc : {"idle", "sent", "status", "route"}, running : BOOLEAN,
                   to : {"running", "error"}]
    /\ HealthIdle \in [pc : {"idle", "check"}, pid : Procs \cup {None, Zero}]
    /\ RecIdle \in [pc : {"idle", "status", "taps"}, row : Row]
  BY DEF WatchIdle, HbIdle, HealthIdle, RecIdle, Row, NoRow, Deleted, EventKind

\* Every SQL statement leaves a row, given the right pid.
LEMMA RowTypes ==
    ASSUME row \in Row
    PROVE  /\ row.status \in RowStatus \cup {Deleted}
           /\ row.pid \in Procs \cup {None, Zero}
           /\ \A s \in RowStatus : SetVmStatus(s) => row' \in Row
           /\ \A p \in Procs \cup {Zero} : SetVmRunning(p) => row' \in Row
           /\ \A p \in Procs : SetVmPid(p) => row' \in Row
           /\ SetVmStopped => row' \in Row
           /\ DeleteRow => row' \in Row
<1>1. /\ row.status \in RowStatus \cup {Deleted}
      /\ row.pid \in Procs \cup {None, Zero}
  BY DEF Row
<1>2. ASSUME NEW s \in RowStatus PROVE SetVmStatus(s) => row' \in Row
  <2>1. [row EXCEPT !.status = s] \in Row
    BY DEF Row
  <2>. QED
    BY <2>1 DEF SetVmStatus, Update
<1>3. ASSUME NEW p \in Procs \cup {Zero} PROVE SetVmRunning(p) => row' \in Row
  <2>1. [status |-> "running", pid |-> p, tap |-> TRUE] \in Row
    BY DEF Row, RowStatus
  <2>. QED
    BY <2>1 DEF SetVmRunning, Update
<1>4. ASSUME NEW p \in Procs PROVE SetVmPid(p) => row' \in Row
  <2>1. [row EXCEPT !.pid = p] \in Row
    BY DEF Row
  <2>. QED
    BY <2>1 DEF SetVmPid, Update
<1>5. SetVmStopped => row' \in Row
  <2>1. [status |-> "stopped", pid |-> None, tap |-> FALSE] \in Row
    BY DEF Row, RowStatus
  <2>. QED
    BY <2>1 DEF SetVmStopped, Update
<1>6. DeleteRow => row' \in Row
  BY DEF DeleteRow, NoRow, Row, Deleted
<1>. QED
  BY <1>1, <1>2, <1>3, <1>4, <1>5, <1>6

\* Sending an event keeps the stream well typed.
LEMMA EmitTypes ==
    ASSUME StreamTypes, NEW e \in EventKind, Emit(e)
    PROVE  StreamTypes'
  BY ConstantsAssumption DEF Emit, StreamTypes

\* A fault is counted up to its bound.
LEMMA FaultTypes ==
    ASSUME BoundTypes, Fault
    PROVE  BoundTypes'
  BY ConstantsAssumption DEF Fault, BoundTypes

\* A group of variables that does not change keeps its types.
LEMMA Frame ==
    /\ DbTypes /\ UNCHANGED <<row, route>> => DbTypes'
    /\ DbTypes /\ UNCHANGED dbVars => DbTypes'
    /\ HostTypes /\ UNCHANGED hostVars => HostTypes'
    /\ HostTypes /\ UNCHANGED <<procs, spawned, tap>> => HostTypes'
    /\ AgentTypes /\ UNCHANGED agentVars => AgentTypes'
    /\ AgentTypes /\ UNCHANGED <<up, handle, lock, monitored>> => AgentTypes'
    /\ StreamTypes /\ UNCHANGED streamVars => StreamTypes'
    /\ StreamTypes /\ UNCHANGED <<conn, events>> => StreamTypes'
    /\ RequestTypes /\ UNCHANGED th => RequestTypes'
    /\ LoopTypes /\ UNCHANGED loopVars => LoopTypes'
    /\ LoopTypes /\ UNCHANGED <<watch, hb, cache, health, rec>> => LoopTypes'
    /\ BoundTypes /\ UNCHANGED bounds => BoundTypes'
    /\ BoundTypes /\ UNCHANGED <<ops, faults>> => BoundTypes'
  BY DEF DbTypes, HostTypes, AgentTypes, StreamTypes, RequestTypes, LoopTypes,
         BoundTypes, dbVars, hostVars, agentVars, streamVars, loopVars, bounds

\* Nothing changes, and nothing is mistyped.
LEMMA FrameAll == TypeOK /\ UNCHANGED vars => TypeOK'
  BY Frame DEF TypeOK, vars

\* The initial states are well typed.
LEMMA TypesInit == Init => TypeOK
<1> SUFFICES ASSUME Init PROVE TypeOK
  OBVIOUS
<1>1. DbTypes /\ HostTypes
  <2>1. CASE InitStopped
    BY <2>1 DEF InitStopped, DbTypes, HostTypes, Row, RowStatus
  <2>2. ASSUME NEW p \in Procs, InitRunning(p) PROVE DbTypes /\ HostTypes
    BY <2>2 DEF InitRunning, DbTypes, HostTypes, Row, RowStatus
  <2>. QED
    BY <2>1, <2>2 DEF Init
<1>2. AgentTypes /\ StreamTypes
  BY EmptyStream DEF Init, InitStopped, InitRunning, AgentTypes, StreamTypes
<1>3. RequestTypes
  BY IdleType DEF Init, RequestTypes
<1>4. LoopTypes
  BY IdleLoops, ZenonT(30) DEF Init, InitStopped, InitRunning, LoopTypes
<1>5. BoundTypes
  BY ConstantsAssumption DEF Init, BoundTypes
<1>. QED
  BY <1>1, <1>2, <1>3, <1>4, <1>5 DEF TypeOK

\* Every step keeps the types, one action at a time.
LEMMA TypesStep == TypeOK /\ Owners /\ [Next]_vars => TypeOK'
<1> SUFFICES ASSUME TypeOK, Owners, [Next]_vars PROVE TypeOK'
  OBVIOUS
<1>types. /\ DbTypes /\ HostTypes /\ AgentTypes /\ StreamTypes
          /\ RequestTypes /\ LoopTypes /\ BoundTypes
  BY DEF TypeOK
<1> USE <1>types
<1>1. ASSUME NEW t \in Threads, StartRequest(t)
      PROVE  TypeOK'
  <2>1. DbTypes'
    BY <1>1, RowTypes DEF DbTypes, StartRequest, Request, RowStatus
  <2>2. RequestTypes'
    BY <1>1, PointTypes, RequestMoves DEF RequestTypes, StartRequest,
      Request
  <2>3. BoundTypes'
    BY <1>1, ConstantsAssumption DEF BoundTypes, StartRequest, Request
  <2>. QED
    BY <1>1, <2>1, <2>2, <2>3, Frame DEF TypeOK, StartRequest, Request,
      hostVars, agentVars, streamVars, loopVars
<1>2. ASSUME NEW t \in Threads, RestoreRequest(t)
      PROVE  TypeOK'
  <2>1. RequestTypes'
    BY <1>2, PointTypes, RequestMoves DEF RequestTypes, RestoreRequest,
      Request
  <2>2. BoundTypes'
    BY <1>2, ConstantsAssumption DEF BoundTypes, RestoreRequest, Request
  <2>. QED
    BY <1>2, <2>1, <2>2, Frame DEF TypeOK, RestoreRequest, Request,
      hostVars, agentVars, streamVars, loopVars
<1>3. ASSUME NEW t \in Threads, StopRequest(t)
      PROVE  TypeOK'
  <2>1. RequestTypes'
    BY <1>3, PointTypes, RequestMoves DEF RequestTypes, StopRequest,
      Request
  <2>2. BoundTypes'
    BY <1>3, ConstantsAssumption DEF BoundTypes, StopRequest, Request
  <2>. QED
    BY <1>3, <2>1, <2>2, Frame DEF TypeOK, StopRequest, Request, hostVars,
      agentVars, streamVars, loopVars
<1>4. ASSUME NEW t \in Threads, SnapRequest(t)
      PROVE  TypeOK'
  <2>1. RequestTypes'
    BY <1>4, PointTypes, RequestMoves DEF RequestTypes, SnapRequest,
      Request
  <2>2. BoundTypes'
    BY <1>4, ConstantsAssumption DEF BoundTypes, SnapRequest, Request
  <2>. QED
    BY <1>4, <2>1, <2>2, Frame DEF TypeOK, SnapRequest, Request, hostVars,
      agentVars, streamVars, loopVars
<1>5. ASSUME NEW t \in Threads, DeleteRequest(t)
      PROVE  TypeOK'
  <2>1. RequestTypes'
    BY <1>5, PointTypes, RequestMoves DEF RequestTypes, DeleteRequest,
      Request
  <2>2. BoundTypes'
    BY <1>5, ConstantsAssumption DEF BoundTypes, DeleteRequest, Request
  <2>. QED
    BY <1>5, <2>1, <2>2, Frame DEF TypeOK, DeleteRequest, Request,
      hostVars, agentVars, streamVars, loopVars
<1>6. ASSUME NEW t \in Threads, StartCall(t)
      PROVE  TypeOK'
  <2>1. DbTypes'
    BY <1>6, RowTypes DEF DbTypes, StartCall, RequestOnly, RowStatus
  <2>2. RequestTypes'
    BY <1>6, PointTypes, RequestMoves DEF RequestTypes, StartCall,
      RequestOnly
  <2>. QED
    BY <1>6, <2>1, <2>2, Frame DEF TypeOK, StartCall, hostVars, agentVars,
      streamVars, RequestOnly, loopVars, bounds
<1>7. ASSUME NEW t \in Threads, StartFailed(t)
      PROVE  TypeOK'
  <2>1. DbTypes'
    BY <1>7, RowTypes DEF DbTypes, StartFailed, RequestOnly, RowStatus
  <2>2. RequestTypes'
    BY <1>7, PointTypes, RequestMoves DEF RequestTypes, StartFailed,
      RequestOnly
  <2>. QED
    BY <1>7, <2>1, <2>2, Frame DEF TypeOK, StartFailed, hostVars,
      agentVars, streamVars, RequestOnly, loopVars, bounds
<1>8. ASSUME NEW t \in Threads, StartRefused(t)
      PROVE  TypeOK'
  <2>1. DbTypes'
    BY <1>8, RowTypes DEF DbTypes, StartRefused, RequestOnly, RowStatus
  <2>2. RequestTypes'
    BY <1>8, PointTypes, RequestMoves DEF RequestTypes, StartRefused,
      RequestOnly
  <2>. QED
    BY <1>8, <2>1, <2>2, Frame DEF TypeOK, StartRefused, hostVars,
      agentVars, streamVars, RequestOnly, loopVars, bounds
<1>9. ASSUME NEW t \in Threads, RestoreMark(t)
      PROVE  TypeOK'
  <2>1. DbTypes'
    BY <1>9, RowTypes DEF DbTypes, RestoreMark, RequestOnly, RowStatus
  <2>2. RequestTypes'
    BY <1>9, PointTypes, RequestMoves DEF RequestTypes, RestoreMark,
      RequestOnly
  <2>. QED
    BY <1>9, <2>1, <2>2, Frame DEF TypeOK, RestoreMark, hostVars,
      agentVars, streamVars, RequestOnly, loopVars, bounds
<1>10. ASSUME NEW t \in Threads, StopMark(t)
      PROVE  TypeOK'
  <2>1. DbTypes'
    BY <1>10, RowTypes DEF DbTypes, StopMark, RequestOnly, RowStatus
  <2>2. RequestTypes'
    BY <1>10, PointTypes, RequestMoves DEF RequestTypes, StopMark,
      RequestOnly
  <2>. QED
    BY <1>10, <2>1, <2>2, Frame DEF TypeOK, StopMark, hostVars, agentVars,
      streamVars, RequestOnly, loopVars, bounds
<1>11. ASSUME NEW t \in Threads, StartRead(t)
      PROVE  TypeOK'
  <2>1. RequestTypes'
    BY <1>11, PointTypes, RequestMoves DEF RequestTypes, StartRead,
      RequestOnly
  <2>. QED
    BY <1>11, <2>1, Frame DEF TypeOK, StartRead, hostVars, agentVars,
      streamVars, RequestOnly, loopVars, bounds
<1>12. ASSUME NEW t \in Threads, RestoreRead(t)
      PROVE  TypeOK'
  <2>1. RequestTypes'
    BY <1>12, PointTypes, RequestMoves DEF RequestTypes, RestoreRead,
      RequestOnly
  <2>. QED
    BY <1>12, <2>1, Frame DEF TypeOK, RestoreRead, hostVars, agentVars,
      streamVars, RequestOnly, loopVars, bounds
<1>13. ASSUME NEW t \in Threads, StopRead(t)
      PROVE  TypeOK'
  <2>1. RequestTypes'
    <3>1. row.pid \in Procs \cup {None, Zero}
      BY RowTypes DEF DbTypes
    <3>2. CASE row.status \in {"stopped", Deleted}
      BY <1>13, <3>2, RequestMoves DEF StopRead
    <3>3. CASE row.status \notin {"stopped", Deleted}
      BY <1>13, <3>1, <3>3, PointTypes, RequestMoves DEF StopRead
    <3>. QED
      BY <3>2, <3>3
  <2>. QED
    BY <1>13, <2>1, Frame DEF TypeOK, StopRead, hostVars, agentVars,
      streamVars, RequestOnly, loopVars, bounds
<1>14. ASSUME NEW t \in Threads, SnapRead(t)
      PROVE  TypeOK'
  <2>1. RequestTypes'
    BY <1>14, PointTypes, RequestMoves DEF RequestTypes, SnapRead,
      RequestOnly
  <2>. QED
    BY <1>14, <2>1, Frame DEF TypeOK, SnapRead, hostVars, agentVars,
      streamVars, RequestOnly, loopVars, bounds
<1>15. ASSUME NEW t \in Threads, DeleteCheck(t)
      PROVE  TypeOK'
  <2>1. RequestTypes'
    BY <1>15, PointTypes, RequestMoves DEF RequestTypes, DeleteCheck,
      RequestOnly
  <2>. QED
    BY <1>15, <2>1, Frame DEF TypeOK, DeleteCheck, hostVars, agentVars,
      streamVars, RequestOnly, loopVars, bounds
<1>16. ASSUME NEW t \in Threads, DeleteRead(t)
      PROVE  TypeOK'
  <2>1. RequestTypes'
    BY <1>16, PointTypes, RequestMoves DEF RequestTypes, DeleteRead,
      RequestOnly
  <2>. QED
    BY <1>16, <2>1, Frame DEF TypeOK, DeleteRead, hostVars, agentVars,
      streamVars, RequestOnly, loopVars, bounds
<1>17. ASSUME NEW t \in Threads, StartTap(t)
      PROVE  TypeOK'
  <2>1. HostTypes'
    BY <1>17 DEF HostTypes, StartTap, RequestOnly, FreeTap
  <2>2. RequestTypes'
    BY <1>17, PointTypes, RequestMoves DEF RequestTypes, StartTap,
      RequestOnly
  <2>. QED
    BY <1>17, <2>1, <2>2, Frame DEF TypeOK, StartTap, agentVars,
      streamVars, RequestOnly, loopVars, bounds
<1>18. ASSUME NEW t \in Threads, StopKill(t)
      PROVE  TypeOK'
  <2>1. HostTypes'
    BY <1>18 DEF HostTypes, StopKill, Kill, RequestOnly, FreeTap
  <2>2. RequestTypes'
    BY <1>18, PointTypes, RequestMoves DEF RequestTypes, StopKill,
      RequestOnly
  <2>. QED
    BY <1>18, <2>1, <2>2, Frame DEF TypeOK, StopKill, Kill, agentVars,
      streamVars, RequestOnly, loopVars, bounds
<1>19. ASSUME NEW t \in Threads, StartSpawn(t)
      PROVE  TypeOK'
  <2>1. HostTypes'
    BY <1>19 DEF HostTypes, StartSpawn, hostVars, FreeTap
  <2>2. RequestTypes'
    BY <1>19, PointTypes, RequestMoves DEF RequestTypes, StartSpawn
  <2>3. BoundTypes'
    BY <1>19, FaultTypes DEF BoundTypes, StartSpawn, bounds
  <2>. QED
    BY <1>19, <2>1, <2>2, <2>3, Frame DEF TypeOK, StartSpawn, bounds,
      hostVars, agentVars, streamVars, loopVars
<1>20. ASSUME NEW t \in Threads, StartRecord(t)
      PROVE  TypeOK'
  <2>1. DbTypes'
    <3>1. th[t].fc # None
      BY <1>20 DEF StartRecord, At, Owners, OwnerPoints
    <3>2. th[t].fc \in Procs
      BY <3>1, RequestParts
    <3>. QED
      BY <1>20, <3>2, RowTypes DEF DbTypes, StartRecord
  <2>2. RequestTypes'
    <3>1. CASE row.status = Deleted
      BY <1>20, <3>1, PointTypes, RequestMoves DEF StartRecord
    <3>2. CASE row.status # Deleted
      BY <1>20, <3>2, PointTypes, RequestMoves DEF StartRecord, Goto
    <3>. QED
      BY <3>1, <3>2
  <2>3. BoundTypes'
    BY <1>20, FaultTypes DEF BoundTypes, StartRecord, bounds
  <2>. QED
    BY <1>20, <2>1, <2>2, <2>3, Frame DEF TypeOK, StartRecord, bounds,
      hostVars, agentVars, streamVars, loopVars
<1>21. ASSUME NEW t \in Threads, StartInsert(t)
      PROVE  TypeOK'
  <2>1. AgentTypes'
    BY <1>21, RequestParts DEF AgentTypes, StartInsert, RequestOnly
  <2>2. StreamTypes'
    BY <1>21, EmitTypes DEF StreamTypes, StartInsert, RequestOnly,
      EventKind
  <2>3. RequestTypes'
    BY <1>21, PointTypes, RequestMoves DEF RequestTypes, StartInsert,
      RequestOnly
  <2>. QED
    BY <1>21, <2>1, <2>2, <2>3, Frame DEF TypeOK, StartInsert, hostVars,
      RequestOnly, loopVars, bounds
<1>22. ASSUME NEW t \in Threads, StopTake(t)
      PROVE  TypeOK'
  <2>1. AgentTypes'
    BY <1>22 DEF AgentTypes, StopTake, RequestOnly
  <2>2. RequestTypes'
    <3>1. handle \in Procs \cup {None}
      BY DEF AgentTypes
    <3>. QED
      BY <1>22, <3>1, PointTypes, RequestMoves DEF StopTake
  <2>. QED
    BY <1>22, <2>1, <2>2, Frame DEF TypeOK, StopTake, hostVars, streamVars,
      RequestOnly, loopVars, bounds
<1>23. ASSUME NEW t \in Threads, SnapTake(t)
      PROVE  TypeOK'
  <2>1. AgentTypes'
    BY <1>23 DEF AgentTypes, SnapTake, RequestOnly
  <2>2. RequestTypes'
    <3>1. handle \in Procs \cup {None}
      BY DEF AgentTypes
    <3>. QED
      BY <1>23, <3>1, PointTypes, RequestMoves DEF SnapTake
  <2>. QED
    BY <1>23, <2>1, <2>2, Frame DEF TypeOK, SnapTake, hostVars, streamVars,
      RequestOnly, loopVars, bounds
<1>24. ASSUME NEW t \in Threads, SnapPut(t)
      PROVE  TypeOK'
  <2>1. AgentTypes'
    BY <1>24, RequestParts DEF AgentTypes, SnapPut, RequestOnly
  <2>2. RequestTypes'
    BY <1>24, PointTypes, RequestMoves DEF RequestTypes, SnapPut,
      RequestOnly
  <2>. QED
    BY <1>24, <2>1, <2>2, Frame DEF TypeOK, SnapPut, hostVars, streamVars,
      RequestOnly, loopVars, bounds
<1>25. ASSUME NEW t \in Threads, StopKillZero(t)
      PROVE  TypeOK'
  <2>1. AgentTypes'
    BY <1>25 DEF AgentTypes, StopKillZero, AgentDies
  <2>2. StreamTypes'
    BY <1>25, EmptyStream DEF StreamTypes, StopKillZero, AgentDies
  <2>3. RequestTypes'
    BY <1>25, PointTypes, RequestMoves, IdleType DEF RequestTypes,
      StopKillZero, AgentDies
  <2>4. LoopTypes'
    BY <1>25, IdleLoops DEF LoopTypes, StopKillZero, AgentDies
  <2>. QED
    BY <1>25, <2>1, <2>2, <2>3, <2>4, Frame DEF TypeOK, StopKillZero,
      AgentDies, hostVars, bounds
<1>26. ASSUME NEW t \in Threads, StopShutdown(t)
      PROVE  TypeOK'
  <2>1. HostTypes'
    BY <1>26 DEF HostTypes, StopShutdown, Kill, RequestOnly, FreeTap
  <2>2. AgentTypes'
    BY <1>26, RequestParts DEF AgentTypes, StopShutdown, RequestOnly
  <2>3. RequestTypes'
    BY <1>26, PointTypes, RequestMoves, RequestParts DEF RequestTypes,
      StopShutdown, RequestOnly
  <2>. QED
    BY <1>26, <2>1, <2>2, <2>3, Frame DEF TypeOK, StopShutdown, Kill,
      streamVars, RequestOnly, loopVars, bounds
<1>27. ASSUME NEW t \in Threads, StopRelease(t)
      PROVE  TypeOK'
  <2>1. HostTypes'
    BY <1>27 DEF HostTypes, StopRelease, RequestOnly, NoTap
  <2>2. AgentTypes'
    BY <1>27 DEF AgentTypes, StopRelease, RequestOnly
  <2>3. RequestTypes'
    BY <1>27, PointTypes, RequestMoves DEF RequestTypes, StopRelease,
      RequestOnly
  <2>. QED
    BY <1>27, <2>1, <2>2, <2>3, Frame DEF TypeOK, StopRelease, streamVars,
      RequestOnly, loopVars, bounds
<1>28. ASSUME NEW t \in Threads, StopRecord(t)
      PROVE  TypeOK'
  <2>1. DbTypes'
    BY <1>28, RowTypes DEF DbTypes, StopRecord, RequestOnly, RowStatus
  <2>2. StreamTypes'
    BY <1>28, EmitTypes DEF StreamTypes, StopRecord, streamVars,
      RequestOnly, EventKind
  <2>3. RequestTypes'
    BY <1>28, PointTypes, RequestMoves DEF RequestTypes, StopRecord,
      RequestOnly
  <2>. QED
    BY <1>28, <2>1, <2>2, <2>3, Frame DEF TypeOK, StopRecord, streamVars,
      hostVars, agentVars, RequestOnly, loopVars, bounds
<1>29. ASSUME NEW t \in Threads, DeleteRows(t)
      PROVE  TypeOK'
  <2>1. DbTypes'
    BY <1>29, RowTypes DEF DbTypes, DeleteRows, RequestOnly
  <2>2. AgentTypes'
    BY <1>29 DEF AgentTypes, DeleteRows, RequestOnly
  <2>3. RequestTypes'
    BY <1>29, PointTypes, RequestMoves DEF RequestTypes, DeleteRows,
      RequestOnly
  <2>. QED
    BY <1>29, <2>1, <2>2, <2>3, Frame DEF TypeOK, DeleteRows, hostVars,
      streamVars, RequestOnly, loopVars, bounds
<1>30. ASSUME NEW t \in Threads, DeleteRoute(t)
      PROVE  TypeOK'
  <2>1. DbTypes'
    BY <1>30 DEF DbTypes, DeleteRoute
  <2>2. RequestTypes'
    BY <1>30, PointTypes, RequestMoves DEF RequestTypes, DeleteRoute
  <2>. QED
    BY <1>30, <2>1, <2>2, Frame DEF TypeOK, DeleteRoute, hostVars,
      agentVars, streamVars, loopVars, bounds
<1>31. ASSUME NEW t \in Threads, CallLost(t)
      PROVE  TypeOK'
  <2>1. AgentTypes'
    BY <1>31 DEF AgentTypes, CallLost
  <2>2. RequestTypes'
    BY <1>31, PointTypes, RequestMoves DEF RequestTypes, CallLost
  <2>3. BoundTypes'
    BY <1>31, FaultTypes DEF BoundTypes, CallLost
  <2>. QED
    BY <1>31, <2>1, <2>2, <2>3, Frame DEF TypeOK, CallLost, dbVars,
      hostVars, streamVars, loopVars
<1>32. ASSUME NEW p \in Procs, ProcCrash(p)
      PROVE  TypeOK'
  <2>1. HostTypes'
    BY <1>32 DEF HostTypes, ProcCrash, Kill, FreeTap
  <2>2. BoundTypes'
    BY <1>32, FaultTypes DEF BoundTypes, ProcCrash
  <2>. QED
    BY <1>32, <2>1, <2>2, Frame DEF TypeOK, ProcCrash, Kill, dbVars,
      agentVars, streamVars, loopVars
<1>33. ASSUME WatchNext
      PROVE  TypeOK'
  <2>1. StreamTypes'
    BY <1>33 DEF StreamTypes, WatchNext, watchOnly
  <2>2. LoopTypes'
    <3>1. Head(events) \in EventKind
      BY <1>33 DEF WatchNext, StreamTypes
    <3>. QED
      BY <1>33, <3>1 DEF LoopTypes, WatchNext, watchOnly
  <2>. QED
    BY <1>33, <2>1, <2>2, Frame DEF TypeOK, WatchNext, watchOnly, hostVars,
      agentVars, bounds
<1>34. ASSUME WatchStatus
      PROVE  TypeOK'
  <2>1. DbTypes'
    <3>1. EventStatus(watch.ev) \in RowStatus
      BY DEF LoopTypes, EventKind, EventStatus, RowStatus
    <3>. QED
      BY <1>34, <3>1, RowTypes DEF DbTypes, WatchStatus
  <2>2. LoopTypes'
    BY <1>34, IdleLoops DEF LoopTypes, WatchStatus, watchOnly
  <2>. QED
    BY <1>34, <2>1, <2>2, Frame DEF TypeOK, WatchStatus, streamVars,
      watchOnly, hostVars, agentVars, bounds
<1>35. ASSUME WatchRoute
      PROVE  TypeOK'
  <2>1. DbTypes'
    BY <1>35 DEF DbTypes, WatchRoute, watchOnly
  <2>2. LoopTypes'
    BY <1>35, IdleLoops DEF LoopTypes, WatchRoute, watchOnly
  <2>. QED
    BY <1>35, <2>1, <2>2, Frame DEF TypeOK, WatchRoute, streamVars,
      watchOnly, hostVars, agentVars, bounds
<1>36. ASSUME HbSample
      PROVE  TypeOK'
  <2>1. LoopTypes'
    BY <1>36, IdleLoops DEF LoopTypes, HbSample, hbOnly
  <2>. QED
    BY <1>36, <2>1, Frame DEF TypeOK, HbSample, dbVars, bounds, hbOnly,
      hostVars, agentVars, streamVars
<1>37. ASSUME HealthRead
      PROVE  TypeOK'
  <2>1. LoopTypes'
    <3>1. row.pid \in Procs \cup {None, Zero}
      BY RowTypes DEF DbTypes
    <3>. QED
      BY <1>37, <3>1 DEF LoopTypes, HealthRead, healthOnly
  <2>. QED
    BY <1>37, <2>1, Frame DEF TypeOK, HealthRead, dbVars, streamVars,
      healthOnly, hostVars, agentVars, bounds
<1>38. ASSUME RecRead
      PROVE  TypeOK'
  <2>1. LoopTypes'
    BY <1>38 DEF LoopTypes, DbTypes, RecRead, recOnly
  <2>. QED
    BY <1>38, <2>1, Frame DEF TypeOK, RecRead, dbVars, hostVars, agentVars,
      streamVars, recOnly, bounds
<1>39. ASSUME HbReceive
      PROVE  TypeOK'
  <2>1. LoopTypes'
    <3>1. hb.running \in BOOLEAN
      BY DEF LoopTypes
    <3>2. HbDecide(hb.running)
            \in [pc : {"idle", "sent", "status", "route"},
                running : BOOLEAN, to : {"running", "error"}]
      BY <3>1, IdleLoops DEF HbDecide
    <3>. QED
      BY <1>39, <3>1, <3>2, IdleLoops DEF LoopTypes, HbReceive, hbOnly
  <2>2. BoundTypes'
    BY <1>39, FaultTypes DEF BoundTypes, HbReceive, bounds, hbOnly
  <2>. QED
    BY <1>39, <2>1, <2>2, Frame DEF TypeOK, HbReceive, bounds, dbVars,
      hbOnly, hostVars, agentVars, streamVars
<1>40. ASSUME HbStatus
      PROVE  TypeOK'
  <2>1. DbTypes'
    <3>1. hb.to \in RowStatus
      BY DEF LoopTypes, RowStatus
    <3>. QED
      BY <1>40, <3>1, RowTypes DEF DbTypes, HbStatus
  <2>2. LoopTypes'
    BY <1>40, IdleLoops DEF LoopTypes, HbStatus, hbOnly
  <2>. QED
    BY <1>40, <2>1, <2>2, Frame DEF TypeOK, HbStatus, bounds, hbOnly,
      hostVars, agentVars, streamVars
<1>41. ASSUME HbRoute
      PROVE  TypeOK'
  <2>1. DbTypes'
    BY <1>41 DEF DbTypes, HbRoute, hbOnly
  <2>2. LoopTypes'
    BY <1>41, IdleLoops DEF LoopTypes, HbRoute, hbOnly
  <2>. QED
    BY <1>41, <2>1, <2>2, Frame DEF TypeOK, HbRoute, bounds, hbOnly,
      hostVars, agentVars, streamVars
<1>42. ASSUME HealthCheck
      PROVE  TypeOK'
  <2>1. DbTypes'
    BY <1>42, RowTypes DEF DbTypes, HealthCheck, healthOnly, RowStatus
  <2>2. StreamTypes'
    BY <1>42, EmitTypes DEF StreamTypes, HealthCheck, streamVars,
      healthOnly, EventKind
  <2>3. LoopTypes'
    BY <1>42, IdleLoops DEF LoopTypes, HealthCheck, healthOnly
  <2>. QED
    BY <1>42, <2>1, <2>2, <2>3, Frame DEF TypeOK, HealthCheck, streamVars,
      healthOnly, hostVars, agentVars, bounds
<1>43. ASSUME RecStatus
      PROVE  TypeOK'
  <2>1. DbTypes'
    <3>1. /\ \A p \in procs : p \in Procs
          /\ {"running", "error"} \subseteq RowStatus
      BY DEF HostTypes, RowStatus
    <3>2. row' = row \/ row' \in Row
      BY <1>43, <3>1, RowTypes DEF DbTypes, RecStatus, RecStuck, RecRunning,
        RecStopped, RecConsistent
    <3>. QED
      BY <1>43, <3>2 DEF DbTypes, RecStatus
  <2>2. AgentTypes'
    BY <1>43 DEF AgentTypes, RecStatus, RecMonitor, recOnly
  <2>3. StreamTypes'
    <3>1. UNCHANGED streamVars \/ Emit("started")
      BY <1>43 DEF RecStatus, RecStuck, RecRunning, RecStopped,
        RecConsistent
    <3>. QED
      BY <3>1, EmitTypes, Frame DEF EventKind
  <2>4. LoopTypes'
    BY <1>43, IdleLoops DEF LoopTypes, RecStatus, RecStuck, Alive,
      RecRunning, RecStopped, RecConsistent, RecMonitor, recOnly, Deleted
  <2>. QED
    BY <1>43, <2>1, <2>2, <2>3, <2>4, Frame DEF TypeOK, RecStatus,
      streamVars, hostVars, recOnly, bounds
<1>44. ASSUME RecTaps
      PROVE  TypeOK'
  <2>1. HostTypes'
    BY <1>44 DEF HostTypes, RecTaps, recOnly, NoTap
  <2>2. AgentTypes'
    BY <1>44 DEF AgentTypes, RecTaps, recOnly
  <2>3. LoopTypes'
    BY <1>44, IdleLoops DEF LoopTypes, RecTaps, recOnly
  <2>. QED
    BY <1>44, <2>1, <2>2, <2>3, Frame DEF TypeOK, RecTaps, dbVars,
      streamVars, recOnly, bounds
<1>45. ASSUME AgentRestart
      PROVE  TypeOK'
  <2>1. AgentTypes'
    BY <1>45 DEF AgentTypes, AgentRestart
  <2>. QED
    BY <1>45, <2>1, Frame DEF TypeOK, AgentRestart, dbVars, hostVars,
      streamVars, loopVars, bounds
<1>46. ASSUME StreamConnect
      PROVE  TypeOK'
  <2>1. StreamTypes'
    BY <1>46 DEF StreamTypes, StreamConnect
  <2>. QED
    BY <1>46, <2>1, Frame DEF TypeOK, StreamConnect, dbVars, hostVars,
      agentVars, loopVars, bounds
<1>47. ASSUME AgentCrash
      PROVE  TypeOK'
  <2>1. AgentTypes'
    BY <1>47 DEF AgentTypes, AgentCrash, AgentDies
  <2>2. StreamTypes'
    BY <1>47, EmptyStream DEF StreamTypes, AgentCrash, AgentDies
  <2>3. RequestTypes'
    BY <1>47, PointTypes, RequestMoves, IdleType DEF RequestTypes,
      AgentCrash, AgentDies
  <2>4. LoopTypes'
    BY <1>47, IdleLoops DEF LoopTypes, AgentCrash, AgentDies
  <2>5. BoundTypes'
    BY <1>47, FaultTypes DEF BoundTypes, AgentCrash
  <2>. QED
    BY <1>47, <2>1, <2>2, <2>3, <2>4, <2>5, Frame DEF TypeOK, AgentCrash,
      AgentDies, dbVars, hostVars
<1>48. ASSUME StreamDrop
      PROVE  TypeOK'
  <2>1. StreamTypes'
    BY <1>48, EmptyStream DEF StreamTypes, StreamDrop
  <2>2. BoundTypes'
    BY <1>48, FaultTypes DEF BoundTypes, StreamDrop
  <2>. QED
    BY <1>48, <2>1, <2>2, Frame DEF TypeOK, StreamDrop, dbVars, hostVars,
      agentVars, loopVars
<1>49. ASSUME CpRestart
      PROVE  TypeOK'
  <2>1. DbTypes'
    BY <1>49 DEF DbTypes, CpRestart, Deleted
  <2>2. AgentTypes'
    BY <1>49 DEF AgentTypes, CpRestart
  <2>3. StreamTypes'
    BY <1>49, EmptyStream DEF StreamTypes, CpRestart
  <2>4. RequestTypes'
    BY <1>49, PointTypes, RequestMoves, IdleType DEF RequestTypes,
      CpRestart
  <2>5. LoopTypes'
    BY <1>49, IdleLoops DEF LoopTypes, CpRestart, Deleted
  <2>6. BoundTypes'
    BY <1>49, FaultTypes DEF BoundTypes, CpRestart
  <2>. QED
    BY <1>49, <2>1, <2>2, <2>3, <2>4, <2>5, <2>6, Frame DEF TypeOK,
      CpRestart, hostVars
<1>. QED
  BY <1>1, <1>2, <1>3, <1>4, <1>5, <1>6, <1>7, <1>8, <1>9, <1>10, <1>11,
    <1>12, <1>13, <1>14, <1>15, <1>16, <1>17, <1>18, <1>19, <1>20, <1>21,
    <1>22, <1>23, <1>24, <1>25, <1>26, <1>27, <1>28, <1>29, <1>30, <1>31,
    <1>32, <1>33, <1>34, <1>35, <1>36, <1>37, <1>38, <1>39, <1>40, <1>41,
    <1>42, <1>43, <1>44, <1>45, <1>46, <1>47, <1>48, <1>49, FrameAll DEF
    Next, ClientRequest, RequestStep, Watcher, Heartbeat, HealthChecks,
    Reconciliation, Environment

(***************************************************************************)
(* Drivers                                                                 *)
(***************************************************************************)

\* Request t is taken to a point with a driver (or None); no other moves.
MovesTo(t, point, fc) ==
    /\ th'[t].pc = point /\ th'[t].fc = fc
    /\ \A u \in Threads \ {t} : th'[u] = th[u]

\* The helpers of the actions move one request, as MovesTo says.
LEMMA MoveFacts ==
    ASSUME RequestTypes, NEW t \in Threads
    PROVE  /\ Return(t) => MovesTo(t, "idle", None)
           /\ \A point \in Points :
                Goto(t, point) => MovesTo(t, point, th[t].fc)
           /\ \A point \in Points, fc \in Procs \cup {None} :
                th' = [th EXCEPT ![t].pc = point, ![t].fc = fc]
                   => MovesTo(t, point, fc)
           /\ \A point \in Points, pid \in Procs \cup {None, Zero} :
                th' = [th EXCEPT ![t].pc = point, ![t].pid = pid]
                   => MovesTo(t, point, th[t].fc)
           /\ \A point \in Points,
                 o \in {"start", "restore", "stop", "snapshot", "delete"} :
                th' = [th EXCEPT ![t] = [Idle EXCEPT !.pc = point, !.op = o]]
                   => MovesTo(t, point, None)
<1>1. th[t] \in Thread /\ Idle \in Thread
  BY RequestParts, IdleType
<1>2. Return(t) => MovesTo(t, "idle", None)
  BY <1>1 DEF RequestTypes, Return, MovesTo, Idle
<1>3. ASSUME NEW point \in Points, Goto(t, point)
      PROVE  MovesTo(t, point, th[t].fc)
  BY <1>1, <1>3 DEF RequestTypes, Goto, Thread, MovesTo
<1>4. ASSUME NEW point \in Points, NEW fc \in Procs \cup {None},
             th' = [th EXCEPT ![t].pc = point, ![t].fc = fc]
      PROVE  MovesTo(t, point, fc)
  BY <1>1, <1>4 DEF RequestTypes, Thread, MovesTo
<1>5. ASSUME NEW point \in Points, NEW pid \in Procs \cup {None, Zero},
             th' = [th EXCEPT ![t].pc = point, ![t].pid = pid]
      PROVE  MovesTo(t, point, th[t].fc)
  BY <1>1, <1>5 DEF RequestTypes, Thread, MovesTo
<1>6. ASSUME NEW point \in Points,
             NEW o \in {"start", "restore", "stop", "snapshot", "delete"},
             th' = [th EXCEPT ![t] = [Idle EXCEPT !.pc = point, !.op = o]]
      PROVE  MovesTo(t, point, None)
  BY <1>1, <1>6 DEF RequestTypes, Thread, MovesTo, Idle
<1>. QED
  BY <1>2, <1>3, <1>4, <1>5, <1>6

\* What a step of the program is to the drivers. A request that holds none
\* moves (and a failed boot may leave a process that was spawned) ...
Quiet(t, point) ==
    /\ th[t].pc \notin OwnerPoints /\ point \in Points \ OwnerPoints
    /\ MovesTo(t, point, th[t].fc) \/ MovesTo(t, point, None)
    /\ handle' = handle /\ spawned \subseteq spawned' /\ lock' = lock

\* ... a boot succeeds, and the process it made is recorded ...
Boots(t, p) ==
    /\ th[t].pc = "start_spawn" /\ MovesTo(t, "start_record", p)
    /\ p \notin spawned /\ spawned' = spawned \cup {p}
    /\ handle' = handle /\ lock' = lock

Records(t) ==
    /\ th[t].pc = "start_record" /\ MovesTo(t, "start_insert", th[t].fc)
    /\ handle' = handle /\ spawned' = spawned /\ lock' = lock

\* ... a driver is dropped by its request, with the lock if it held that ...
Drops(t, point) ==
    /\ point \in Points \ OwnerPoints /\ MovesTo(t, point, None)
    /\ handle' = handle /\ spawned' = spawned
    /\ lock' = IF lock = t THEN None ELSE lock

\* ... is put into the map, where another one may be, or taken out of it ...
PutsBack(t) ==
    /\ lock = None /\ th[t].pc \in {"start_insert", "snap_put"}
    /\ MovesTo(t, "idle", None)
    /\ handle' = th[t].fc /\ spawned' = spawned /\ lock' = lock

TakesOut(t, point) ==
    /\ lock = None /\ handle # None /\ th[t].pc \notin OwnerPoints
    /\ point \in {"stop_shutdown", "snap_put"} /\ MovesTo(t, point, handle)
    /\ handle' = None /\ spawned' = spawned
    /\ lock' = IF point = "stop_shutdown" THEN t ELSE None

\* ... every request loses its own, and perhaps the map is lost too ...
AllLost ==
    /\ \A t \in Threads : th'[t].fc = None /\ th'[t].pc \notin OwnerPoints
    /\ handle' \in {handle, None} /\ spawned' = spawned /\ lock' = None

\* ... or nothing happens to them.
DriverMove ==
    \/ \E t \in Threads :
         \/ \E point \in Points :
              Quiet(t, point) \/ Drops(t, point) \/ TakesOut(t, point)
         \/ \E p \in Procs : Boots(t, p)
         \/ Records(t) \/ PutsBack(t)
    \/ AllLost
    \/ UNCHANGED <<th, handle, spawned, lock>>

\* A step of a request that holds no driver, before or after.
LEMMA QuietStep ==
    ASSUME NEW t \in Threads,
           NEW point \in Points \ OwnerPoints, th[t].pc \notin OwnerPoints,
           MovesTo(t, point, th[t].fc) \/ MovesTo(t, point, None),
           handle' = handle, spawned \subseteq spawned', lock' = lock
    PROVE  DriverMove
  BY DEF DriverMove, Quiet

\* A step that touches no request, no handle and no lock.
LEMMA NoMove ==
    ASSUME UNCHANGED <<th, handle, spawned, lock>>
    PROVE  DriverMove
  BY DEF DriverMove

\* Every point either holds a driver or does not.
LEMMA PointKinds ==
    /\ {"start_call", "start_refused", "del_check", "del_route", "idle",
        "start_read", "start_tap", "start_spawn", "start_failed",
        "restore_read", "restore_mark", "stop_read", "stop_mark", "stop_take",
        "stop_release", "stop_record", "snap_read", "snap_take", "del_read",
        "del_rows"} \subseteq Points \ OwnerPoints
    /\ OwnerPoints \subseteq Points
  BY DEF OwnerPoints, Points, CpPoints, AgentPoints

\* At first at most one driver exists, and it is in the map.
LEMMA DriversInit == Init => DriverInv
  BY ConstantsAssumption
     DEF Init, InitStopped, InitRunning, Idle, DriverInv, Owners,
         HandleDiscipline, OwnerPoints, At

\* Every step is one of these to the drivers, one action at a time.
LEMMA DriverMoves == TypeOK /\ DriverInv /\ [Next]_vars => DriverMove
<1> SUFFICES ASSUME TypeOK, DriverInv, [Next]_vars PROVE DriverMove
  OBVIOUS
<1>types. /\ DbTypes /\ HostTypes /\ AgentTypes /\ StreamTypes
          /\ RequestTypes /\ LoopTypes /\ BoundTypes
  BY DEF TypeOK
<1> USE <1>types
<1>1. ASSUME NEW t \in Threads, StartRequest(t) PROVE DriverMove
  <2>1. /\ th[t].pc = "idle" /\ MovesTo(t, "start_call", None)
        /\ UNCHANGED <<handle, spawned, lock>>
    BY <1>1, MoveFacts, PointTypes
       DEF StartRequest, Request, At, hostVars, agentVars
  <2>. QED
    BY <2>1, QuietStep, PointKinds
<1>2. ASSUME NEW t \in Threads, RestoreRequest(t) PROVE DriverMove
  <2>1. /\ th[t].pc = "idle" /\ MovesTo(t, "restore_read", None)
        /\ UNCHANGED <<handle, spawned, lock>>
    BY <1>2, MoveFacts, PointTypes
       DEF RestoreRequest, Request, At, hostVars, agentVars
  <2>. QED
    BY <2>1, QuietStep, PointKinds
<1>3. ASSUME NEW t \in Threads, StopRequest(t) PROVE DriverMove
  <2>1. /\ th[t].pc = "idle" /\ MovesTo(t, "stop_read", None)
        /\ UNCHANGED <<handle, spawned, lock>>
    BY <1>3, MoveFacts, PointTypes
       DEF StopRequest, Request, At, hostVars, agentVars
  <2>. QED
    BY <2>1, QuietStep, PointKinds
<1>4. ASSUME NEW t \in Threads, SnapRequest(t) PROVE DriverMove
  <2>1. /\ th[t].pc = "idle" /\ MovesTo(t, "snap_read", None)
        /\ UNCHANGED <<handle, spawned, lock>>
    BY <1>4, MoveFacts, PointTypes
       DEF SnapRequest, Request, At, hostVars, agentVars
  <2>. QED
    BY <2>1, QuietStep, PointKinds
<1>5. ASSUME NEW t \in Threads, DeleteRequest(t) PROVE DriverMove
  <2>1. /\ th[t].pc = "idle" /\ MovesTo(t, "del_check", None)
        /\ UNCHANGED <<handle, spawned, lock>>
    BY <1>5, MoveFacts, PointTypes
       DEF DeleteRequest, Request, At, hostVars, agentVars
  <2>. QED
    BY <2>1, QuietStep, PointKinds
<1>6. ASSUME NEW t \in Threads, StartCall(t) PROVE DriverMove
  <2>1. th[t].pc = "start_call" /\ UNCHANGED <<handle, spawned, lock>>
    BY <1>6 DEF StartCall, At, hostVars, agentVars
  <2>2. \/ MovesTo(t, "start_read", th[t].fc)
        \/ MovesTo(t, "idle", None)
    BY <1>6, MoveFacts, PointTypes DEF StartCall
  <2>. QED
    BY <2>1, <2>2, QuietStep, PointKinds
<1>7. ASSUME NEW t \in Threads, StartRead(t) PROVE DriverMove
  <2>1. th[t].pc = "start_read" /\ UNCHANGED <<handle, spawned, lock>>
    BY <1>7 DEF StartRead, At, hostVars, agentVars
  <2>2. \/ MovesTo(t, "start_refused", th[t].fc)
        \/ MovesTo(t, "start_tap", th[t].fc)
    BY <1>7, MoveFacts, PointTypes DEF StartRead
  <2>. QED
    BY <2>1, <2>2, QuietStep, PointKinds
<1>8. ASSUME NEW t \in Threads, StartTap(t) PROVE DriverMove
  <2>1. th[t].pc = "start_tap" /\ UNCHANGED <<handle, spawned, lock>>
    BY <1>8 DEF StartTap, At, agentVars
  <2>2. MovesTo(t, "start_spawn", th[t].fc)
    BY <1>8, MoveFacts, PointTypes DEF StartTap
  <2>. QED
    BY <2>1, <2>2, QuietStep, PointKinds
<1>9. ASSUME NEW t \in Threads, StartFailed(t) PROVE DriverMove
  <2>1. th[t].pc = "start_failed" /\ UNCHANGED <<handle, spawned, lock>>
    BY <1>9 DEF StartFailed, At, hostVars, agentVars
  <2>2. \/ MovesTo(t, "start_refused", th[t].fc)
        \/ MovesTo(t, "idle", None)
    BY <1>9, MoveFacts, PointTypes DEF StartFailed
  <2>. QED
    BY <2>1, <2>2, QuietStep, PointKinds
<1>10. ASSUME NEW t \in Threads, StartRefused(t) PROVE DriverMove
  <2>1. th[t].pc = "start_refused" /\ UNCHANGED <<handle, spawned, lock>>
    BY <1>10 DEF StartRefused, At, hostVars, agentVars
  <2>2. MovesTo(t, "idle", None)
    BY <1>10, MoveFacts, PointTypes DEF StartRefused
  <2>. QED
    BY <2>1, <2>2, QuietStep, PointKinds
<1>11. ASSUME NEW t \in Threads, RestoreRead(t) PROVE DriverMove
  <2>1. th[t].pc = "restore_read" /\ UNCHANGED <<handle, spawned, lock>>
    BY <1>11 DEF RestoreRead, At, hostVars, agentVars
  <2>2. \/ MovesTo(t, "restore_mark", th[t].fc)
        \/ MovesTo(t, "idle", None)
    BY <1>11, MoveFacts, PointTypes DEF RestoreRead
  <2>. QED
    BY <2>1, <2>2, QuietStep, PointKinds
<1>12. ASSUME NEW t \in Threads, RestoreMark(t) PROVE DriverMove
  <2>1. th[t].pc = "restore_mark" /\ UNCHANGED <<handle, spawned, lock>>
    BY <1>12 DEF RestoreMark, At, hostVars, agentVars
  <2>2. MovesTo(t, "start_tap", th[t].fc)
    BY <1>12, MoveFacts, PointTypes DEF RestoreMark
  <2>. QED
    BY <2>1, <2>2, QuietStep, PointKinds
<1>13. ASSUME NEW t \in Threads, StopRead(t) PROVE DriverMove
  <2>1. th[t].pc = "stop_read" /\ UNCHANGED <<handle, spawned, lock>>
    BY <1>13 DEF StopRead, At, hostVars, agentVars
  <2>2. \/ MovesTo(t, "stop_mark", th[t].fc)
        \/ MovesTo(t, "idle", None)
    BY <1>13, MoveFacts, PointTypes, RowTypes DEF StopRead, DbTypes
  <2>. QED
    BY <2>1, <2>2, QuietStep, PointKinds
<1>14. ASSUME NEW t \in Threads, StopMark(t) PROVE DriverMove
  <2>1. th[t].pc = "stop_mark" /\ UNCHANGED <<handle, spawned, lock>>
    BY <1>14 DEF StopMark, At, hostVars, agentVars
  <2>2. MovesTo(t, "stop_take", th[t].fc)
    BY <1>14, MoveFacts, PointTypes DEF StopMark
  <2>. QED
    BY <2>1, <2>2, QuietStep, PointKinds
<1>15. ASSUME NEW t \in Threads, StopKill(t) PROVE DriverMove
  <2>1. th[t].pc = "stop_take" /\ UNCHANGED <<handle, spawned, lock>>
    BY <1>15 DEF StopKill, At, Kill, agentVars
  <2>2. MovesTo(t, "stop_release", th[t].fc)
    BY <1>15, MoveFacts, PointTypes DEF StopKill
  <2>. QED
    BY <2>1, <2>2, QuietStep, PointKinds
<1>16. ASSUME NEW t \in Threads, StopRelease(t) PROVE DriverMove
  <2>1. th[t].pc = "stop_release" /\ UNCHANGED <<handle, spawned, lock>>
    BY <1>16 DEF StopRelease, At
  <2>2. MovesTo(t, "stop_record", th[t].fc)
    BY <1>16, MoveFacts, PointTypes DEF StopRelease
  <2>. QED
    BY <2>1, <2>2, QuietStep, PointKinds
<1>17. ASSUME NEW t \in Threads, StopRecord(t) PROVE DriverMove
  <2>1. th[t].pc = "stop_record" /\ UNCHANGED <<handle, spawned, lock>>
    BY <1>17 DEF StopRecord, At, hostVars, agentVars
  <2>2. MovesTo(t, "idle", None)
    BY <1>17, MoveFacts, PointTypes DEF StopRecord
  <2>. QED
    BY <2>1, <2>2, QuietStep, PointKinds
<1>18. ASSUME NEW t \in Threads, SnapRead(t) PROVE DriverMove
  <2>1. th[t].pc = "snap_read" /\ UNCHANGED <<handle, spawned, lock>>
    BY <1>18 DEF SnapRead, At, hostVars, agentVars
  <2>2. \/ MovesTo(t, "snap_take", th[t].fc)
        \/ MovesTo(t, "idle", None)
    BY <1>18, MoveFacts, PointTypes DEF SnapRead
  <2>. QED
    BY <2>1, <2>2, QuietStep, PointKinds
<1>19. ASSUME NEW t \in Threads, DeleteCheck(t) PROVE DriverMove
  <2>1. th[t].pc = "del_check" /\ UNCHANGED <<handle, spawned, lock>>
    BY <1>19 DEF DeleteCheck, At, hostVars, agentVars
  <2>2. \/ MovesTo(t, "del_read", th[t].fc)
        \/ MovesTo(t, "idle", None)
    BY <1>19, MoveFacts, PointTypes DEF DeleteCheck
  <2>. QED
    BY <2>1, <2>2, QuietStep, PointKinds
<1>20. ASSUME NEW t \in Threads, DeleteRead(t) PROVE DriverMove
  <2>1. th[t].pc = "del_read" /\ UNCHANGED <<handle, spawned, lock>>
    BY <1>20 DEF DeleteRead, At, hostVars, agentVars
  <2>2. \/ MovesTo(t, "del_rows", th[t].fc)
        \/ MovesTo(t, "idle", None)
    BY <1>20, MoveFacts, PointTypes DEF DeleteRead
  <2>. QED
    BY <2>1, <2>2, QuietStep, PointKinds
<1>21. ASSUME NEW t \in Threads, DeleteRows(t) PROVE DriverMove
  <2>1. th[t].pc = "del_rows" /\ UNCHANGED <<handle, spawned, lock>>
    BY <1>21 DEF DeleteRows, At, hostVars
  <2>2. MovesTo(t, "del_route", th[t].fc)
    BY <1>21, MoveFacts, PointTypes DEF DeleteRows
  <2>. QED
    BY <2>1, <2>2, QuietStep, PointKinds
<1>22. ASSUME NEW t \in Threads, DeleteRoute(t) PROVE DriverMove
  <2>1. th[t].pc = "del_route" /\ UNCHANGED <<handle, spawned, lock>>
    BY <1>22 DEF DeleteRoute, At, hostVars, agentVars
  <2>2. MovesTo(t, "idle", None)
    BY <1>22, MoveFacts, PointTypes DEF DeleteRoute
  <2>. QED
    BY <2>1, <2>2, QuietStep, PointKinds
<1>23. ASSUME NEW t \in Threads, StartSpawn(t) PROVE DriverMove
  <2>1. /\ th[t].pc = "start_spawn" /\ UNCHANGED <<handle, lock>>
        /\ spawned \subseteq spawned'
    BY <1>23 DEF StartSpawn, At, hostVars, agentVars
  <2>2. CASE Goto(t, "start_failed")
    BY <2>1, <2>2, MoveFacts, PointTypes, QuietStep, PointKinds
  <2>3. CASE ~Goto(t, "start_failed")
    <3>1. PICK p \in Procs \ spawned :
             /\ spawned' = spawned \cup {p}
             /\ th' = [th EXCEPT ![t].pc = "start_record", ![t].fc = p]
      BY <1>23, <2>3 DEF StartSpawn
    <3>2. MovesTo(t, "start_record", p)
      BY <3>1, MoveFacts, PointTypes
    <3>. QED
      BY <2>1, <3>1, <3>2 DEF DriverMove, Boots
  <2>. QED
    BY <2>2, <2>3
<1>24. ASSUME NEW t \in Threads, StartRecord(t) PROVE DriverMove
  <2>1. /\ th[t].pc = "start_record" /\ lock # t
        /\ UNCHANGED <<handle, spawned, lock>>
    BY <1>24 DEF StartRecord, At, hostVars, agentVars, DriverInv,
      HandleDiscipline
  <2>2. CASE row.status = Deleted
    <3>1. MovesTo(t, "start_failed", None)
      BY <1>24, <2>2, MoveFacts, PointTypes DEF StartRecord
    <3>. QED
      BY <2>1, <3>1, PointKinds DEF DriverMove, Drops
  <2>3. CASE row.status # Deleted
    <3>1. MovesTo(t, "start_insert", th[t].fc)
      BY <1>24, <2>3, MoveFacts, PointTypes DEF StartRecord, Goto
    <3>. QED
      BY <2>1, <3>1 DEF DriverMove, Records
  <2>. QED
    BY <2>2, <2>3
<1>25. ASSUME NEW t \in Threads, StartInsert(t) PROVE DriverMove
  <2>1. /\ th[t].pc = "start_insert" /\ lock = None /\ handle' = th[t].fc
        /\ UNCHANGED <<spawned, lock>> /\ MovesTo(t, "idle", None)
    BY <1>25, MoveFacts DEF StartInsert, At, hostVars
  <2>. QED
    BY <2>1 DEF DriverMove, PutsBack
<1>26. ASSUME NEW t \in Threads, SnapPut(t) PROVE DriverMove
  <2>1. /\ th[t].pc = "snap_put" /\ lock = None /\ handle' = th[t].fc
        /\ UNCHANGED <<spawned, lock>> /\ MovesTo(t, "idle", None)
    BY <1>26, MoveFacts DEF SnapPut, At, hostVars
  <2>. QED
    BY <2>1 DEF DriverMove, PutsBack
<1>27. ASSUME NEW t \in Threads, StopTake(t) PROVE DriverMove
  <2>1. /\ th[t].pc = "stop_take" /\ lock = None /\ handle # None
        /\ handle' = None /\ lock' = t /\ UNCHANGED spawned
    BY <1>27 DEF StopTake, At, hostVars
  <2>2. MovesTo(t, "stop_shutdown", handle)
    BY <1>27, MoveFacts, PointTypes DEF StopTake, AgentTypes
  <2>3. TakesOut(t, "stop_shutdown")
    BY <2>1, <2>2 DEF TakesOut, OwnerPoints
  <2>. QED
    BY <2>3, PointTypes DEF DriverMove
<1>28. ASSUME NEW t \in Threads, SnapTake(t) PROVE DriverMove
  <2>1. /\ th[t].pc = "snap_take" /\ lock = None /\ handle' = None
        /\ UNCHANGED <<lock, spawned>>
    BY <1>28 DEF SnapTake, At, hostVars
  <2>2. CASE handle # None
    <3>1. MovesTo(t, "snap_put", handle)
      BY <1>28, <2>2, MoveFacts, PointTypes DEF SnapTake, AgentTypes
    <3>2. TakesOut(t, "snap_put")
      BY <2>1, <2>2, <3>1 DEF TakesOut, OwnerPoints
    <3>. QED
      BY <3>2, PointTypes DEF DriverMove
  <2>3. CASE handle = None
    <3>1. MovesTo(t, "idle", None)
      BY <1>28, <2>3, MoveFacts DEF SnapTake
    <3>. QED
      BY <2>1, <2>3, <3>1, QuietStep, PointKinds DEF OwnerPoints
  <2>. QED
    BY <2>2, <2>3
<1>29. ASSUME NEW t \in Threads, StopShutdown(t) PROVE DriverMove
  <2>1. /\ th[t].pc = "stop_shutdown" /\ lock' = None
        /\ UNCHANGED <<handle, spawned>>
    BY <1>29 DEF StopShutdown, Kill, At
  <2>2. lock = t
    BY <2>1 DEF DriverInv, HandleDiscipline, At
  <2>3. MovesTo(t, "stop_release", None)
    BY <1>29, MoveFacts, PointTypes DEF StopShutdown
  <2>. QED
    BY <2>1, <2>2, <2>3, PointKinds DEF DriverMove, Drops
<1>30. ASSUME NEW t \in Threads, CallLost(t) PROVE DriverMove
  <2>1. /\ lock' = IF lock = t THEN None ELSE lock
        /\ UNCHANGED <<handle, spawned>> /\ MovesTo(t, "idle", None)
    BY <1>30, MoveFacts DEF CallLost, hostVars
  <2>. QED
    BY <2>1, PointKinds DEF DriverMove, Drops
<1>31. ASSUME AgentDies, UNCHANGED hostVars PROVE DriverMove
  <2>1. \A t \in Threads :
          /\ th'[t].fc = None /\ th'[t].pc \notin OwnerPoints
    BY <1>31 DEF AgentDies, RequestTypes, Idle, DriverInv, Owners,
      OwnerPoints, AgentPoints
  <2>2. lock' = None /\ handle' = None /\ UNCHANGED spawned
    BY <1>31 DEF AgentDies, hostVars
  <2>. QED
    BY <2>1, <2>2 DEF DriverMove, AllLost
<1>32. ASSUME NEW t \in Threads, StopKillZero(t) PROVE DriverMove
  BY <1>32, <1>31 DEF StopKillZero
<1>33. CASE AgentCrash
  BY <1>33, <1>31 DEF AgentCrash
<1>34. CASE CpRestart
  <2>1. /\ th' = [t \in Threads |-> Idle] /\ lock' = None
        /\ UNCHANGED <<handle, spawned>>
    BY <1>34 DEF CpRestart, hostVars
  <2>2. \A t \in Threads :
          /\ th'[t].fc = None /\ th'[t].pc \notin OwnerPoints
    BY <2>1 DEF Idle, OwnerPoints
  <2>. QED
    BY <2>1, <2>2 DEF DriverMove, AllLost
<1>35. ASSUME NEW p \in Procs, ProcCrash(p) PROVE DriverMove
  BY <1>35, NoMove DEF ProcCrash, Kill, agentVars
<1>36. CASE Watcher
  BY <1>36, NoMove DEF Watcher, WatchNext, WatchStatus, WatchRoute,
    watchOnly, hostVars, agentVars
<1>37. CASE Heartbeat
  BY <1>37, NoMove DEF Heartbeat, HbSample, HbReceive, HbStatus, HbRoute,
    hbOnly, hostVars, agentVars
<1>38. CASE HealthChecks
  BY <1>38, NoMove DEF HealthChecks, HealthRead, HealthCheck, healthOnly,
    hostVars, agentVars
<1>39. CASE Reconciliation
  BY <1>39, NoMove DEF Reconciliation, RecRead, RecStatus, RecTaps,
    recOnly, hostVars, agentVars
<1>40. CASE AgentRestart \/ StreamConnect \/ StreamDrop
  BY <1>40, NoMove DEF AgentRestart, StreamConnect, StreamDrop, hostVars,
    agentVars
<1>41. CASE UNCHANGED vars
  BY <1>41, NoMove DEF vars
<1>. QED
  BY <1>1, <1>2, <1>3, <1>4, <1>5, <1>6, <1>7, <1>8, <1>9, <1>10, <1>11,
    <1>12, <1>13, <1>14, <1>15, <1>16, <1>17, <1>18, <1>19, <1>20, <1>21,
    <1>22, <1>23, <1>24, <1>25, <1>26, <1>27, <1>28, <1>29, <1>30, <1>32,
    <1>33, <1>34, <1>35, <1>36, <1>37, <1>38, <1>39, <1>40, <1>41 DEF Next,
    ClientRequest, RequestStep, Environment

\* Each of them keeps the discipline.
LEMMA DriversStep == TypeOK /\ DriverInv /\ DriverMove => DriverInv'
<1> SUFFICES ASSUME TypeOK, DriverInv, DriverMove PROVE DriverInv'
  OBVIOUS
<1>0. /\ handle \in Procs \cup {None} /\ lock \in Threads \cup {None}
      /\ Owners /\ HandleDiscipline
  BY DEF TypeOK, AgentTypes, DriverInv
<1>1. ASSUME NEW t \in Threads, NEW point \in Points, Drops(t, point)
      PROVE  DriverInv'
  BY <1>0, <1>1, ConstantsAssumption
     DEF DriverInv, Owners, HandleDiscipline, Drops, OwnerPoints, MovesTo, At
<1>2. ASSUME NEW t \in Threads, NEW point \in Points, Quiet(t, point)
      PROVE  DriverInv'
  <2>1. th[t].fc = None /\ lock # t
    BY <1>0, <1>2 DEF Quiet, Owners, HandleDiscipline, At, OwnerPoints
  <2>. QED
    BY <1>0, <1>2, <2>1, ConstantsAssumption
       DEF DriverInv, Owners, HandleDiscipline, Quiet, OwnerPoints, MovesTo, At
<1>3. ASSUME NEW t \in Threads, NEW point \in Points, TakesOut(t, point)
      PROVE  DriverInv'
  BY <1>0, <1>3, ConstantsAssumption
     DEF DriverInv, Owners, HandleDiscipline, TakesOut, OwnerPoints, MovesTo,
         At
<1>4. ASSUME NEW t \in Threads, NEW p \in Procs, Boots(t, p)
      PROVE  DriverInv'
  <2>1. /\ lock # t /\ p # None /\ p # handle
        /\ \A u \in Threads : th[u].fc # p
    BY <1>0, <1>4, ConstantsAssumption
       DEF Boots, Owners, HandleDiscipline, At
  <2>2. Owners'
    BY <1>0, <1>4, <2>1 DEF Boots, Owners, OwnerPoints, MovesTo
  <2>3. HandleDiscipline'
    BY <1>0, <1>4, <2>1 DEF Boots, HandleDiscipline, MovesTo, At
  <2>. QED
    BY <2>2, <2>3 DEF DriverInv
<1>5. ASSUME NEW t \in Threads, Records(t)
      PROVE  DriverInv'
  BY <1>0, <1>5
     DEF DriverInv, Owners, HandleDiscipline, Records, OwnerPoints, MovesTo, At
<1>6. ASSUME NEW t \in Threads, PutsBack(t)
      PROVE  DriverInv'
  BY <1>0, <1>6, ConstantsAssumption
     DEF DriverInv, Owners, HandleDiscipline, PutsBack, OwnerPoints, MovesTo,
         At
<1>7. ASSUME AllLost
      PROVE  DriverInv'
  BY <1>0, <1>7, ConstantsAssumption
     DEF DriverInv, Owners, HandleDiscipline, AllLost, OwnerPoints, At
<1>8. ASSUME UNCHANGED <<th, handle, spawned, lock>>
      PROVE  DriverInv'
  BY <1>0, <1>8 DEF DriverInv, Owners, HandleDiscipline, At
<1>. QED
  BY <1>1, <1>2, <1>3, <1>4, <1>5, <1>6, <1>7, <1>8 DEF DriverMove

(***************************************************************************)
(* The refinement of VmDriver                                              *)
(***************************************************************************)

\* Where VmDriver sees the driver of a request that stands at a point.
StageAt(point) ==
    IF point \in {"start_record", "start_insert"} THEN "starting"
    ELSE IF point = "snap_put" THEN "borrowed" ELSE "stopping"

\* Where, read from the map and the requests: by the discipline only one of
\* the cases is about a given process.
WhereSays ==
    /\ Where = [p \in Procs |-> Where[p]]
    /\ \A p \in Procs :
         /\ handle = p => Where[p] = "map"
         /\ \A t \in Threads : th[t].fc = p => Where[p] = StageAt(th[t].pc)
         /\ (handle # p /\ \A t \in Threads : th[t].fc # p) =>
              Where[p] = IF p \in spawned THEN "dropped" ELSE "unborn"

\* The discipline makes Where what WhereSays reads off the map and the requests.
LEMMA WhereIs == TypeOK /\ DriverInv => WhereSays
<1> SUFFICES ASSUME TypeOK, DriverInv PROVE WhereSays
  OBVIOUS
<1>0. Owners /\ HandleDiscipline
  BY DEF DriverInv
<1>1. Where = [p \in Procs |-> Where[p]]
  BY DEF Where
<1>2. ASSUME NEW p \in Procs, handle = p
      PROVE  Where[p] = "map"
  BY <1>2 DEF Where
<1>3. ASSUME NEW p \in Procs, NEW t \in Threads, th[t].fc = p
      PROVE  Where[p] = StageAt(th[t].pc)
  <2>1. handle # p /\ th[t].pc \in OwnerPoints
    BY <1>0, <1>3, ConstantsAssumption DEF Owners, HandleDiscipline
  <2>2. \A u \in Threads : th[u].fc = p => u = t
    BY <1>0, <1>3, ConstantsAssumption DEF HandleDiscipline
  <2>3. \A points : HeldAt(p, points) <=> th[t].pc \in points
    BY <1>3, <2>2 DEF HeldAt
  <2>. QED
    BY <2>1, <2>3 DEF Where, StageAt, OwnerPoints
<1>4. ASSUME NEW p \in Procs, handle # p, \A t \in Threads : th[t].fc # p
      PROVE  Where[p] = IF p \in spawned THEN "dropped" ELSE "unborn"
  BY <1>4 DEF Where, HeldAt
<1>. QED
  BY <1>1, <1>2, <1>3, <1>4 DEF WhereSays

\* Initially a process has its driver in the map or was not spawned.
LEMMA DriverSpecInit == Init => Driver!Init
<1> SUFFICES ASSUME Init PROVE Driver!Init
  OBVIOUS
<1>1. WhereSays
  BY TypesInit, DriversInit, WhereIs
<1>2. \A t \in Threads : th[t].fc = None
  BY DEF Init, Idle
<1>3. \A p \in Procs : p \in spawned => handle = p
  BY DEF Init, InitStopped, InitRunning
<1>4. \A p \in Procs : Where[p] = IF handle = p THEN "map" ELSE "unborn"
  BY <1>1, <1>2, <1>3, ConstantsAssumption DEF WhereSays
<1>. QED
  BY <1>1, <1>4 DEF WhereSays, Driver!Init

\* A step after which every driver is where it was, or dropped, is a GiveUp.
LEMMA GivesUp ==
    ASSUME WhereSays, WhereSays',
           \A p \in Procs : Where'[p] = Where[p] \/ Where'[p] = "dropped"
    PROVE  Driver!Next
<1> DEFINE S == {p \in Procs : Where'[p] = "dropped"}
<1>1. Where' = [p \in Procs |-> Where'[p]]
  BY DEF WhereSays
<1>2. \A p \in Procs : Where'[p] = IF p \in S THEN "dropped" ELSE Where[p]
  OBVIOUS
<1>3. Where' = [p \in Procs |-> IF p \in S THEN "dropped" ELSE Where[p]]
  BY <1>1, <1>2
<1>4. S \in SUBSET Procs
  OBVIOUS
<1>. HIDE DEF S
<1>. QED
  BY <1>3, <1>4 DEF Driver!Next, Driver!GiveUp

\* A step after which one driver is elsewhere, and all others where they were.
LEMMA OneMoves ==
    ASSUME WhereSays, WhereSays', NEW p \in Procs, NEW to,
           Where'[p] = to, \A q \in Procs \ {p} : Where'[q] = Where[q]
    PROVE  Where' = [Where EXCEPT ![p] = to]
<1>1. /\ Where = [q \in Procs |-> Where[q]]
      /\ Where' = [q \in Procs |-> Where'[q]]
  BY DEF WhereSays
<1>. QED
  BY <1>1

\* Each kind of step moves the drivers as VmDriver allows.
LEMMA DriverMaps ==
    TypeOK /\ DriverInv /\ WhereSays /\ WhereSays' /\ DriverMove
        => [Driver!Next]_Where
<1> SUFFICES ASSUME TypeOK, DriverInv, WhereSays, WhereSays', DriverMove
             PROVE  Driver!Next \/ Where' = Where
  OBVIOUS
<1>0. /\ handle \in Procs \cup {None} /\ Owners /\ HandleDiscipline
      /\ \A t \in Threads : th[t].fc \in Procs \cup {None}
      /\ spawned \subseteq Procs /\ None \notin Procs \cup Threads
  BY RequestParts, ConstantsAssumption
     DEF TypeOK, AgentTypes, HostTypes, DriverInv
<1>1. ASSUME NEW t \in Threads, NEW point \in Points,
             Quiet(t, point) \/ Drops(t, point)
      PROVE  Driver!Next
  <2>1. /\ th'[t].fc = None /\ handle' = handle /\ spawned \subseteq spawned'
        /\ \A u \in Threads \ {t} : th'[u] = th[u]
    BY <1>0, <1>1 DEF Quiet, Drops, MovesTo, Owners
  <2>2. ASSUME NEW p \in Procs
        PROVE  Where'[p] = Where[p] \/ Where'[p] = "dropped"
    <3>1. CASE handle = p
      BY <2>1, <3>1 DEF WhereSays
    <3>2. ASSUME NEW u \in Threads \ {t}, th[u].fc = p
          PROVE  Where'[p] = Where[p]
      BY <2>1, <3>2 DEF WhereSays
    <3>3. CASE handle # p /\ \A u \in Threads \ {t} : th[u].fc # p
      <4>1. handle' # p /\ \A u \in Threads : th'[u].fc # p
        BY <1>0, <2>1, <3>3
      <4>2. Where'[p] = IF p \in spawned' THEN "dropped" ELSE "unborn"
        BY <4>1 DEF WhereSays
      <4>3. p \notin spawned' => Where[p] = "unborn"
        BY <1>0, <2>1, <3>3 DEF WhereSays, Owners
      <4>. QED
        BY <4>2, <4>3
    <3>. QED
      BY <3>1, <3>2, <3>3
  <2>. QED
    BY <2>2, GivesUp
<1>2. ASSUME NEW t \in Threads, NEW p \in Procs, Boots(t, p)
      PROVE  Driver!Next
  <2>1. /\ th[t].fc = None /\ th'[t].fc = p /\ th'[t].pc = "start_record"
        /\ \A u \in Threads \ {t} : th'[u] = th[u]
        /\ handle' = handle /\ spawned' = spawned \cup {p} /\ p \notin spawned
    BY <1>0, <1>2 DEF Boots, MovesTo, Owners, OwnerPoints
  <2>2. Where[p] = "unborn"
    BY <1>0, <2>1 DEF WhereSays, Owners
  <2>3. Where'[p] = "starting"
    BY <2>1 DEF WhereSays, StageAt
  <2>4. ASSUME NEW q \in Procs \ {p}
        PROVE  Where'[q] = Where[q]
    <3>1. CASE handle = q
      BY <2>1, <3>1 DEF WhereSays
    <3>2. ASSUME NEW u \in Threads, th[u].fc = q
          PROVE  Where'[q] = Where[q]
      BY <1>0, <2>1, <3>2 DEF WhereSays
    <3>3. CASE handle # q /\ \A u \in Threads : th[u].fc # q
      BY <2>1, <3>3 DEF WhereSays
    <3>. QED
      BY <3>1, <3>2, <3>3
  <2>5. Where' = [Where EXCEPT ![p] = "starting"]
    BY <2>3, <2>4, OneMoves
  <2>. QED
    BY <2>2, <2>5 DEF Driver!Next, Driver!Spawn, Driver!Move
<1>3. ASSUME NEW t \in Threads, Records(t)
      PROVE  Driver!Next
  <2>1. /\ th'[t].fc = th[t].fc /\ StageAt(th'[t].pc) = StageAt(th[t].pc)
        /\ \A u \in Threads \ {t} : th'[u] = th[u]
        /\ handle' = handle /\ spawned' = spawned
    BY <1>3 DEF Records, MovesTo, StageAt
  <2>2. \A u \in Threads :
           th'[u].fc = th[u].fc /\ StageAt(th'[u].pc) = StageAt(th[u].pc)
    BY <2>1
  <2>3. \A p \in Procs : Where'[p] = Where[p]
    BY <2>1, <2>2 DEF WhereSays
  <2>. QED
    BY <2>3, GivesUp
<1>4. ASSUME NEW t \in Threads, PutsBack(t)
      PROVE  Driver!Next
  <2> DEFINE p == th[t].fc
  <2>1. /\ p \in Procs /\ p # handle /\ handle' = p /\ spawned' = spawned
        /\ th[t].pc \in {"start_insert", "snap_put"} /\ th'[t].fc = None
        /\ \A u \in Threads \ {t} : th'[u] = th[u]
    BY <1>0, <1>4 DEF PutsBack, MovesTo, Owners, OwnerPoints, HandleDiscipline
  <2>2. Where[p] \in {"starting", "borrowed"}
    BY <2>1 DEF WhereSays, StageAt
  <2>3. \A u \in Threads : th[u].pc # "stop_shutdown"
    BY <1>0, <1>4 DEF PutsBack, HandleDiscipline, At
  <2>4. \A q \in Procs : Where[q] # "stopping"
    BY <1>0, <2>3 DEF WhereSays, StageAt, Owners, OwnerPoints
  <2>5. Where'[p] = "map"
    BY <2>1 DEF WhereSays
  <2>6. ASSUME NEW q \in Procs \ {p}
        PROVE  Where'[q] = IF Where[q] = "map" THEN "dropped" ELSE Where[q]
    <3>1. CASE handle = q
      <4>1. q \in spawned /\ \A u \in Threads : th'[u].fc # q
        BY <1>0, <2>1, <3>1 DEF Owners, HandleDiscipline
      <4>. QED
        BY <2>1, <3>1, <4>1 DEF WhereSays
    <3>2. ASSUME NEW u \in Threads, th[u].fc = q
          PROVE  Where'[q] = Where[q] /\ Where[q] # "map"
      BY <1>0, <2>1, <3>2 DEF WhereSays, StageAt
    <3>3. CASE handle # q /\ \A u \in Threads : th[u].fc # q
      <4>1. \A u \in Threads : th'[u].fc # q
        BY <1>0, <2>1, <3>3
      <4>. QED
        BY <2>1, <3>3, <4>1 DEF WhereSays
    <3>. QED
      BY <3>1, <3>2, <3>3
  <2>7. Where' = [q \in Procs |-> IF q = p THEN "map"
                                  ELSE IF Where[q] = "map" THEN "dropped"
                                  ELSE Where[q]]
    <3>1. Where' = [q \in Procs |-> Where'[q]]
      BY DEF WhereSays
    <3>. QED
      BY <2>5, <2>6, <3>1
  <2> HIDE DEF p
  <2>8. Driver!Enter(p)
    BY <2>2, <2>4, <2>7 DEF Driver!Enter
  <2>. QED
    BY <2>1, <2>8 DEF Driver!Next
<1>5. ASSUME NEW t \in Threads, NEW point \in Points, TakesOut(t, point)
      PROVE  Driver!Next
  <2>1. /\ handle \in Procs /\ handle' = None /\ spawned' = spawned
        /\ th[t].fc = None /\ th'[t].fc = handle /\ th'[t].pc = point
        /\ point \in {"stop_shutdown", "snap_put"}
        /\ \A u \in Threads \ {t} : th'[u] = th[u]
    BY <1>0, <1>5 DEF TakesOut, MovesTo, Owners
  <2>2. Where[handle] = "map"
    BY <2>1 DEF WhereSays
  <2>3. Where'[handle] = StageAt(point)
    BY <2>1 DEF WhereSays
  <2>4. ASSUME NEW q \in Procs \ {handle}
        PROVE  Where'[q] = Where[q]
    <3>1. ASSUME NEW u \in Threads, th[u].fc = q
          PROVE  Where'[q] = Where[q]
      BY <1>0, <2>1, <3>1 DEF WhereSays
    <3>2. CASE \A u \in Threads : th[u].fc # q
      <4>1. handle' # q /\ \A u \in Threads : th'[u].fc # q
        BY <1>0, <2>1, <3>2
      <4>. QED
        BY <2>1, <3>2, <4>1 DEF WhereSays
    <3>. QED
      BY <3>1, <3>2
  <2>5. Where' = [Where EXCEPT ![handle] = StageAt(point)]
    BY <2>1, <2>3, <2>4, OneMoves
  <2>6. StageAt(point) = IF point = "snap_put" THEN "borrowed" ELSE "stopping"
    BY <2>1 DEF StageAt
  <2>. QED
    BY <2>1, <2>2, <2>5, <2>6
       DEF Driver!Next, Driver!Borrow, Driver!Stop, Driver!Move
<1>6. ASSUME AllLost
      PROVE  Driver!Next
  <2>1. /\ \A u \in Threads : th'[u].fc = None
        /\ handle' \in {handle, None} /\ spawned' = spawned
    BY <1>6 DEF AllLost
  <2>2. ASSUME NEW p \in Procs
        PROVE  Where'[p] = Where[p] \/ Where'[p] = "dropped"
    <3>1. CASE handle' = p
      BY <1>0, <2>1, <3>1 DEF WhereSays
    <3>2. CASE handle' # p
      <4>1. Where'[p] = IF p \in spawned THEN "dropped" ELSE "unborn"
        BY <1>0, <2>1, <3>2 DEF WhereSays
      <4>2. p \notin spawned => Where[p] = "unborn"
        BY <1>0 DEF WhereSays, Owners
      <4>. QED
        BY <4>1, <4>2
    <3>. QED
      BY <3>1, <3>2
  <2>. QED
    BY <2>2, GivesUp
<1>7. ASSUME UNCHANGED <<th, handle, spawned, lock>>
      PROVE  Where' = Where
  BY <1>7 DEF Where, HeldAt
<1>. QED
  BY <1>1, <1>2, <1>3, <1>4, <1>5, <1>6, <1>7 DEF DriverMove

(***************************************************************************)
(* The theorems                                                            *)
(***************************************************************************)

\* The inductive invariant: types and owners hold one another up.
LEMMA Inductive == Spec => [](TypeOK /\ DriverInv)
<1>1. Init => TypeOK /\ DriverInv
  BY TypesInit, DriversInit
<1>2. TypeOK /\ DriverInv /\ [Next]_vars => (TypeOK /\ DriverInv)'
  BY TypesStep, DriverMoves, DriversStep DEF DriverInv
<1>. QED
  BY <1>1, <1>2, PTL DEF Spec

\* Every variable keeps its type, whatever overlaps and whatever fails.
THEOREM TypeCorrect == Spec => []TypeOK
  BY Inductive, PTL

\* One driver per process, in one place, and the map's lock held exactly while
\* a stop shuts the VM down: for any number of requests and processes.
THEOREM DriversDisciplined == Spec => []HandleDiscipline
<1>1. DriverInv => HandleDiscipline
  BY DEF DriverInv
<1>. QED
  BY <1>1, Inductive, PTL

\* The agent implements VmDriver: every step of the program moves the drivers as
\* one of its actions does, or leaves them where they are.
THEOREM DriversImplemented == Spec => DriverSpec
<1>1. TypeOK /\ DriverInv => WhereSays
  BY WhereIs
<1>2. TypeOK /\ DriverInv /\ WhereSays /\ WhereSays' /\ [Next]_vars
          => [Driver!Next]_Where
  BY DriverMoves, DriverMaps
<1>. QED
  BY <1>1, <1>2, Inductive, DriverSpecInit, PTL DEF Spec, DriverSpec,
     Driver!Spec

\* A driver that was given up is never used again, whichever early return of
\* start_vm_inner or take_snapshot, dropped request or crash it was: no other
\* request has it in a variable and nobody finds it in the map.
THEOREM DroppedForGood ==
    Spec => [][\A p \in Procs : Where[p] = "dropped" => Where'[p] = "dropped"]_vars
<1>1. TypeOK /\ DriverInv => WhereSays
  BY WhereIs
<1>2. ASSUME TypeOK, DriverInv, WhereSays, WhereSays', [Next]_vars,
             NEW p \in Procs, Where[p] = "dropped"
      PROVE  Where'[p] = "dropped"
  <2>1. Driver!Next \/ Where' = Where
    BY <1>2, DriverMoves, DriverMaps
  <2>2. Where = [q \in Procs |-> Where[q]]
    BY <1>2 DEF WhereSays
  <2>3. ASSUME NEW q \in Procs,
               Driver!Spawn(q) \/ Driver!Borrow(q) \/ Driver!Stop(q)
        PROVE  Where'[p] = "dropped"
    <3>1. PICK to : Where' = [Where EXCEPT ![q] = to] /\ Where[q] # "dropped"
      BY <2>3 DEF Driver!Spawn, Driver!Borrow, Driver!Stop, Driver!Move
    <3>. QED
      BY <1>2, <2>2, <3>1
  <2>4. ASSUME NEW q \in Procs, Driver!Enter(q)
        PROVE  Where'[p] = "dropped"
    BY <1>2, <2>4 DEF Driver!Enter
  <2>5. ASSUME NEW S \in SUBSET Procs, Driver!GiveUp(S)
        PROVE  Where'[p] = "dropped"
    BY <1>2, <2>5 DEF Driver!GiveUp
  <2>. QED
    BY <1>2, <2>1, <2>3, <2>4, <2>5 DEF Driver!Next
<1>3. TypeOK /\ DriverInv /\ WhereSays /\ WhereSays' /\ [Next]_vars
          => \A p \in Procs : Where[p] = "dropped" => Where'[p] = "dropped"
  BY <1>2
<1>. QED
  BY <1>1, <1>3, Inductive, PTL DEF Spec
=============================================================================
