------------------------- MODULE Placement_proofs -------------------------
(***************************************************************************)
(* Theorems about Placement, for any sets of VMs, hosts and requests and   *)
(* any number of slots and faults.                                         *)
(***************************************************************************)
EXTENDS Placement, TLAPS

(***************************************************************************)
(* The inductive invariant. A host may be written into a row because the   *)
(* writer made the disk (AssignHost) or has just seen it (Claim): both are *)
(* right only because a VM's disk is on one host at most, which in turn    *)
(* rests on every request having an id of its own.                         *)
(***************************************************************************)
RowsShaped ==
    \A v \in VMs : /\ Exists(v) => row[v].slot \in Slot
                   /\ ~Exists(v) => row[v].host = None

OneDisk ==
    \A v \in VMs, g, h \in Hosts :
        <<g, v>> \in disks /\ <<h, v>> \in disks => g = h

RowsHaveDisks ==
    \A v \in VMs : Exists(v) => \E h \in Hosts : <<h, v>> \in disks

NoTrace(v) == row[v].status = "none" /\ \A h \in Hosts : <<h, v>> \notin disks

FreshIds == \A v \in VMs \ born : NoTrace(v)

\* What a request under way knows of its VM.
Knows(r) ==
    /\ req[r].vm \in born /\ req[r].host \in Hosts
    /\ req[r].pc # "slot" => req[r].slot \in Slot
    /\ req[r].pc \in {"slot", "call"} => NoTrace(req[r].vm)
    /\ req[r].pc = "insert" => /\ row[req[r].vm].status = "none"
                               /\ <<req[r].host, req[r].vm>> \in disks
    /\ req[r].pc \in {"assign", "restore"} =>
          /\ row[req[r].vm].status # "none"
          /\ Exists(req[r].vm) => <<req[r].host, req[r].vm>> \in disks

RequestsKnow == \A r \in Requests : req[r].pc # "idle" => Knows(r)

OwnIds ==
    \A q, r \in Requests :
        q # r /\ req[q].pc # "idle" /\ req[r].pc # "idle"
            => req[q].vm # req[r].vm

RowsSound == RowsShaped /\ OneDisk /\ RowsHaveDisks /\ OwnerHasDisk

RequestsSound == FreshIds /\ RequestsKnow /\ OwnIds

IInv == TypeOK /\ RowsSound /\ RequestsSound

\* The invariant holds when nothing has been created.
LEMMA InitInv == Init => IInv
  BY ConstantsAssumption
  DEF Init, IInv, RowsSound, RequestsSound, TypeOK, RowsShaped, OneDisk, RowsHaveDisks, OwnerHasDisk,
      FreshIds, RequestsKnow, OwnIds, NoTrace, Exists, Row, NoRow, Request,
      Idle, Reconciliation, RecIdle, Slot

\* SetHost changes the host of one row that exists, and nothing else.
LEMMA SetHostEffect ==
  ASSUME row \in [VMs -> Row], NEW v \in VMs, NEW h \in Hosts, SetHost(v, h)
  PROVE  /\ row' \in [VMs -> Row]
         /\ \A w \in VMs : /\ row'[w].status = row[w].status
                           /\ row'[w].slot = row[w].slot
                           /\ row'[w].host = IF w = v /\ Exists(v) THEN h
                                            ELSE row[w].host
<1>1. CASE Exists(v)
  <2>1. row' = [row EXCEPT ![v].host = h]
    BY <1>1 DEF SetHost
  <2> QED
    BY <1>1, <2>1 DEF Row
<1>2. CASE ~Exists(v)
  <2>1. row' = row
    BY <1>2 DEF SetHost
  <2> QED
    BY <1>2, <2>1
<1> QED
  BY <1>1, <1>2

\* A device is one of this host, at this slot, with this user.
LEMMA AllocateTapTyped ==
  ASSUME taps \subseteq Device, NEW v \in VMs, NEW h \in Hosts,
         NEW n \in Slot, AllocateTap(v, h, n)
  PROVE  taps' \subseteq Device
BY DEF AllocateTap, AtSlot, Device

\* Every step keeps the types (requests need a slot before they insert it).
LEMMA TypeStep == IInv /\ [Next]_vars => TypeOK'
<1> SUFFICES ASSUME IInv, [Next]_vars PROVE TypeOK'
  OBVIOUS
<1> USE ConstantsAssumption
<1>0. TypeOK /\ RowsShaped /\ RequestsKnow
  BY DEF IInv, RowsSound, RequestsSound
<1>1. ASSUME NEW r \in Requests, NEW v \in VMs, NEW h \in Hosts,
             CreateBegin(r, v, h)
      PROVE TypeOK'
  BY <1>0, <1>1 DEF TypeOK, CreateBegin, NewRequest, Request
<1>2. ASSUME NEW r \in Requests, NEW v \in VMs, NEW s \in VMs,
             NEW after \in {"restore", "idle"}, CloneBegin(r, v, s, after)
      PROVE TypeOK'
  BY <1>0, <1>2 DEF TypeOK, CloneBegin, NewRequest, Request, Row
<1>3. ASSUME NEW r \in Requests, ChooseSlot(r)
      PROVE TypeOK'
  BY <1>0, <1>3 DEF TypeOK, ChooseSlot, Request
<1>4. ASSUME NEW r \in Requests, SlotsExhausted(r) \/ CallDropped(r)
      PROVE TypeOK'
  BY <1>0, <1>4 DEF TypeOK, SlotsExhausted, CallDropped, Request, Idle
<1>5. ASSUME NEW r \in Requests, ProvisionDisk(r) \/ CopyDisk(r)
      PROVE TypeOK'
  BY <1>0, <1>5 DEF TypeOK, ProvisionDisk, CopyDisk, Request, Idle,
                    RequestsKnow, Knows
<1>6. ASSUME NEW r \in Requests, InsertRow(r)
      PROVE TypeOK'
  <2>1. req[r].vm \in VMs /\ req[r].slot \in Slot
    BY <1>0, <1>6 DEF TypeOK, InsertRow, RequestsKnow, Knows
  <2>2. row' \in [VMs -> Row]
    BY <1>0, <1>6, <2>1 DEF TypeOK, InsertRow, Row
  <2>3. req' \in [Requests -> Request]
    <3>1. req[r].after \in {"assign", "restore", "idle"}
      BY <1>0 DEF TypeOK, Request
    <3>2. Idle \in Request
      BY DEF Idle, Request
    <3>3. [req[r] EXCEPT !.pc = req[r].after] \in Request
      BY <1>0, <3>1 DEF TypeOK, Request
    <3> QED
      BY <1>0, <1>6, <3>2, <3>3 DEF TypeOK, InsertRow
  <2> QED
    BY <1>0, <1>6, <2>2, <2>3 DEF TypeOK, InsertRow
<1>7. ASSUME NEW r \in Requests, AssignHost(r)
      PROVE TypeOK'
  <2>1. req[r].vm \in VMs /\ req[r].host \in Hosts
    BY <1>0, <1>7 DEF TypeOK, AssignHost, RequestsKnow, Knows
  <2>2. row' \in [VMs -> Row]
    BY <1>0, <1>7, <2>1, SetHostEffect DEF TypeOK, AssignHost
  <2> QED
    BY <1>0, <1>7, <2>2 DEF TypeOK, AssignHost, Request, Idle
<1>8. ASSUME NEW r \in Requests, RestoreClone(r)
      PROVE TypeOK'
  <2>1. req[r].vm \in VMs /\ req[r].host \in Hosts
    BY <1>0, <1>8 DEF TypeOK, RestoreClone, RequestsKnow, Knows
  <2>2. row' \in [VMs -> Row]
    BY <1>0, <1>8, <2>1 DEF TypeOK, RestoreClone, Row
  <2>3. taps' \subseteq Device
    <3>1. CASE row[req[r].vm].status = "stopped"
      <4>1. row[req[r].vm].slot \in Slot
        BY <1>0, <2>1, <3>1 DEF RowsShaped, Exists
      <4>2. AllocateTap(req[r].vm, req[r].host, row[req[r].vm].slot)
        BY <1>8, <3>1 DEF RestoreClone
      <4> QED
        BY <1>0, <2>1, <4>1, <4>2, AllocateTapTyped DEF TypeOK
    <3>2. CASE row[req[r].vm].status # "stopped"
      BY <1>0, <1>8, <3>2 DEF TypeOK, RestoreClone
    <3> QED
      BY <3>1, <3>2
  <2> QED
    BY <1>0, <1>8, <2>2, <2>3 DEF TypeOK, RestoreClone, Request, Idle
<1>9. ASSUME NEW v \in VMs, StartVm(v)
      PROVE TypeOK'
  BY <1>0, <1>9 DEF TypeOK, StartVm, AllocateTap, AtSlot, Device, Row,
                    RowsShaped, Exists
<1>10. ASSUME NEW v \in VMs, StopVm(v)
       PROVE TypeOK'
  BY <1>0, <1>10 DEF TypeOK, StopVm, ReleaseTap, Row
<1>11. ASSUME NEW v \in VMs, DeleteVm(v)
       PROVE TypeOK'
  BY <1>0, <1>11 DEF TypeOK, DeleteVm, Gone, Row
<1>12. ASSUME NEW h \in Hosts, ReadRows(h)
       PROVE TypeOK'
  BY <1>0, <1>12 DEF TypeOK, ReadRows, OnHost, Reconciliation, RowsShaped,
                     Exists
<1>13. ASSUME NEW h \in Hosts,
              RemoveOrphanTaps(h) \/ FindUnassigned(h) \/ EndReconcile(h)
       PROVE TypeOK'
  BY <1>0, <1>13 DEF TypeOK, RemoveOrphanTaps, FindUnassigned, EndReconcile,
                     Reconciliation, RecIdle
<1>14. ASSUME NEW h \in Hosts, NEW v \in VMs, Claim(h, v)
       PROVE TypeOK'
  <2>1. row' \in [VMs -> Row]
    BY <1>0, <1>14, SetHostEffect DEF TypeOK, Claim
  <2> QED
    BY <1>0, <1>14, <2>1 DEF TypeOK, Claim, Reconciliation
<1>15. CASE UNCHANGED vars
  BY <1>0, <1>15 DEF TypeOK, vars
<1> QED
  BY <1>1, <1>2, <1>3, <1>4, <1>5, <1>6, <1>7, <1>8, <1>9, <1>10, <1>11,
     <1>12, <1>13, <1>14, <1>15
  DEF Next, Create, Reconcile

\* Steps that touch neither rows, ids, disks nor requests.
LEMMA Frame ==
  ASSUME RowsSound, RequestsSound, UNCHANGED <<row, born, disks, req>>
  PROVE  RowsSound' /\ RequestsSound'
BY DEF RowsSound, RequestsSound, RowsShaped, OneDisk, RowsHaveDisks,
       OwnerHasDisk, FreshIds, RequestsKnow, OwnIds, NoTrace, Knows, Exists

\* A request ends: nothing else has to hold of it.
LEMMA RequestEnds ==
  ASSUME TypeOK, RowsSound, RequestsSound, NEW r \in Requests,
         req' = [req EXCEPT ![r] = Idle], UNCHANGED <<row, born, disks>>
  PROVE  RowsSound' /\ RequestsSound'
<1>1. \A q \in Requests : req'[q].pc # "idle" => q # r /\ req'[q] = req[q]
  BY DEF TypeOK, Idle
<1>2. RowsSound'
  BY DEF RowsSound, RowsShaped, OneDisk, RowsHaveDisks, OwnerHasDisk, Exists
<1>3. FreshIds'
  BY DEF RequestsSound, FreshIds, NoTrace
<1>4. RequestsKnow'
  BY <1>1 DEF RequestsSound, RequestsKnow, Knows, NoTrace, Exists
<1>5. OwnIds'
  BY <1>1 DEF RequestsSound, OwnIds
<1> QED
  BY <1>2, <1>3, <1>4, <1>5 DEF RequestsSound

\* A new request takes an id nobody used.
LEMMA BeginSound ==
  ASSUME TypeOK, RowsSound, RequestsSound,
         NEW r \in Requests, NEW v \in VMs \ born, NEW h \in Hosts, NEW s,
         NEW after, req' = [req EXCEPT ![r] = NewRequest(v, h, s, after)],
         born' = born \cup {v}, UNCHANGED <<row, disks>>
  PROVE  RowsSound' /\ RequestsSound'
<1>1. /\ req'[r].pc = "slot" /\ req'[r].vm = v /\ req'[r].host = h
      /\ \A q \in Requests : q # r => req'[q] = req[q]
  BY DEF TypeOK, NewRequest
<1>2. RowsSound'
  BY DEF RowsSound, RowsShaped, OneDisk, RowsHaveDisks, OwnerHasDisk, Exists
<1>3. FreshIds'
  BY DEF RequestsSound, FreshIds, NoTrace
<1>4. RequestsKnow'
  <2> SUFFICES ASSUME NEW q \in Requests, req'[q].pc # "idle" PROVE Knows(q)'
    BY DEF RequestsKnow
  <2>1. CASE q = r
    BY <1>1, <2>1 DEF RequestsSound, FreshIds, Knows, NoTrace
  <2>2. CASE q # r
    BY <1>1, <2>2 DEF RequestsSound, RequestsKnow, Knows, NoTrace, Exists
  <2> QED
    BY <2>1, <2>2
<1>5. OwnIds'
  <2>1. \A q \in Requests : q # r /\ req'[q].pc # "idle" => req'[q].vm # v
    BY <1>1 DEF RequestsSound, RequestsKnow, Knows
  <2> QED
    BY <1>1, <2>1 DEF RequestsSound, OwnIds
<1> QED
  BY <1>2, <1>3, <1>4, <1>5 DEF RequestsSound

\* A request goes on while rows, ids and disks stay as they are.
LEMMA ChooseSlotSound ==
  ASSUME TypeOK, RowsSound, RequestsSound, NEW r \in Requests, ChooseSlot(r)
  PROVE  RowsSound' /\ RequestsSound'
<1>1. /\ req[r].pc = "slot"
      /\ req'[r].pc = "call" /\ req'[r].slot \in Slot
      /\ req'[r].vm = req[r].vm /\ req'[r].host = req[r].host
      /\ \A q \in Requests : q # r => req'[q] = req[q]
      /\ UNCHANGED <<row, born, disks>>
  <2>1. req[r].pc = "slot" /\ UNCHANGED <<row, born, disks>>
    BY DEF ChooseSlot
  <2>2. PICK n \in Slot : req' = [req EXCEPT ![r].slot = n, ![r].pc = "call"]
    BY DEF ChooseSlot
  <2>3. req'[r] = [req[r] EXCEPT !.slot = n, !.pc = "call"]
    BY <2>2 DEF TypeOK
  <2>4. req[r] \in Request
    BY DEF TypeOK
  <2>5. /\ req'[r].pc = "call" /\ req'[r].slot = n
        /\ req'[r].vm = req[r].vm /\ req'[r].host = req[r].host
    BY <2>3, <2>4 DEF Request
  <2>6. \A q \in Requests : q # r => req'[q] = req[q]
    BY <2>2 DEF TypeOK
  <2> QED
    BY <2>1, <2>5, <2>6
<1>2. RowsSound'
  BY <1>1
  DEF RowsSound, RowsShaped, OneDisk, RowsHaveDisks, OwnerHasDisk, Exists
<1>3. FreshIds'
  BY <1>1 DEF RequestsSound, FreshIds, NoTrace
<1>4. RequestsKnow'
  <2> SUFFICES ASSUME NEW q \in Requests, req'[q].pc # "idle" PROVE Knows(q)'
    BY DEF RequestsKnow
  <2>1. CASE q = r
    BY <1>1, <2>1 DEF RequestsSound, RequestsKnow, Knows, NoTrace
  <2>2. CASE q # r
    BY <1>1, <2>2 DEF RequestsSound, RequestsKnow, Knows, NoTrace, Exists
  <2> QED
    BY <2>1, <2>2
<1>5. OwnIds'
  BY <1>1 DEF RequestsSound, OwnIds
<1> QED
  BY <1>2, <1>3, <1>4, <1>5 DEF RequestsSound

\* The disk of a new VM is made: the only trace of its id so far.
LEMMA DiskMadeSound ==
  ASSUME TypeOK, RowsSound, RequestsSound, NEW r \in Requests,
         req[r].pc = "call",
         disks' = disks \cup {<<req[r].host, req[r].vm>>},
         req' = [req EXCEPT ![r].pc = "insert"], UNCHANGED <<row, born>>
  PROVE  RowsSound' /\ RequestsSound'
<1>1. /\ req'[r].pc = "insert" /\ req'[r].slot = req[r].slot
      /\ req'[r].vm = req[r].vm /\ req'[r].host = req[r].host
      /\ \A q \in Requests : q # r => req'[q] = req[q]
  BY DEF TypeOK, Request
<1>2. Knows(r) /\ NoTrace(req[r].vm)
  BY DEF RequestsSound, RequestsKnow, Knows
<1>3. RowsShaped' /\ RowsHaveDisks' /\ OwnerHasDisk'
  BY DEF RowsSound, RowsShaped, RowsHaveDisks, OwnerHasDisk, Exists
<1>4. OneDisk'
  BY <1>2 DEF RowsSound, OneDisk, NoTrace
<1>5. FreshIds'
  BY <1>2 DEF RequestsSound, FreshIds, NoTrace, Knows
<1>6. RequestsKnow'
  <2> SUFFICES ASSUME NEW q \in Requests, req'[q].pc # "idle" PROVE Knows(q)'
    BY DEF RequestsKnow
  <2>1. CASE q = r
    BY <1>1, <1>2, <2>1 DEF Knows, NoTrace
  <2>2. CASE q # r
    <3>1. Knows(q) /\ req[q].vm # req[r].vm
      BY <1>1, <2>2 DEF RequestsSound, RequestsKnow, OwnIds
    <3> QED
      BY <1>1, <2>2, <3>1 DEF Knows, NoTrace, Exists
  <2> QED
    BY <2>1, <2>2
<1>7. OwnIds'
  BY <1>1 DEF RequestsSound, OwnIds
<1> QED
  BY <1>3, <1>4, <1>5, <1>6, <1>7 DEF RowsSound, RequestsSound

\* The row is inserted: its disk is there, its host is not known yet.
LEMMA InsertSound ==
  ASSUME TypeOK, RowsSound, RequestsSound, NEW r \in Requests, InsertRow(r)
  PROVE  RowsSound' /\ RequestsSound'
<1>1. /\ req[r].pc = "insert" /\ Knows(r)
      /\ req[r].vm \in VMs /\ req[r].host \in Hosts /\ req[r].slot \in Slot
      /\ <<req[r].host, req[r].vm>> \in disks
      /\ UNCHANGED <<born, disks>>
  BY DEF TypeOK, RequestsSound, RequestsKnow, Knows, InsertRow
<1>2. /\ row'[req[r].vm].status = "stopped"
      /\ row'[req[r].vm].host = None
      /\ row'[req[r].vm].slot = req[r].slot
      /\ \A v \in VMs : v # req[r].vm => row'[v] = row[v]
  BY <1>1 DEF TypeOK, InsertRow
<1>3. /\ req'[r].pc \in {"idle", "assign", "restore"}
      /\ req'[r].pc # "idle" =>
            /\ req'[r].slot = req[r].slot
            /\ req'[r].vm = req[r].vm /\ req'[r].host = req[r].host
  <2>1. CASE req[r].after = "idle"
    BY <2>1 DEF TypeOK, InsertRow, Idle
  <2>2. CASE req[r].after # "idle"
    <3>1. req[r] \in Request
      BY DEF TypeOK
    <3>2. req'[r] = [req[r] EXCEPT !.pc = req[r].after]
      BY <2>2 DEF TypeOK, InsertRow
    <3> QED
      BY <3>1, <3>2 DEF Request
  <2> QED
    BY <2>1, <2>2
<1>4. \A q \in Requests : q # r => req'[q] = req[q]
  BY DEF TypeOK, InsertRow
<1>5. RowsShaped' /\ RowsHaveDisks' /\ OwnerHasDisk'
  BY <1>1, <1>2
  DEF RowsSound, RowsShaped, RowsHaveDisks, OwnerHasDisk, Exists
<1>6. OneDisk'
  BY <1>1 DEF RowsSound, OneDisk
<1>7. FreshIds'
  BY <1>1, <1>2 DEF RequestsSound, FreshIds, NoTrace, Knows
<1>8. RequestsKnow'
  <2> SUFFICES ASSUME NEW q \in Requests, req'[q].pc # "idle" PROVE Knows(q)'
    BY DEF RequestsKnow
  <2>1. CASE q = r
    BY <1>1, <1>2, <1>3, <2>1 DEF Knows
  <2>2. CASE q # r
    <3>1. Knows(q) /\ req[q].vm # req[r].vm /\ req[q].vm \in VMs
      BY <1>1, <1>4, <2>2 DEF TypeOK, RequestsSound, RequestsKnow, OwnIds, Knows
    <3> QED
      BY <1>1, <1>2, <1>4, <2>2, <3>1 DEF Knows, NoTrace, Exists
  <2> QED
    BY <2>1, <2>2
<1>9. OwnIds'
  BY <1>1, <1>3, <1>4 DEF RequestsSound, OwnIds
<1> QED
  BY <1>5, <1>6, <1>7, <1>8, <1>9 DEF RowsSound, RequestsSound

\* The requests that go on after a step stand where they stood.
Others == \A q \in Requests : req'[q].pc # "idle" => req'[q] = req[q]

\* Whoever writes a host has the disk in front of it.
LEMMA SetHostSound ==
  ASSUME TypeOK, RowsSound, RequestsSound, NEW v \in VMs, NEW h \in Hosts,
         Exists(v) => <<h, v>> \in disks, SetHost(v, h),
         Others, UNCHANGED <<born, disks>>
  PROVE  RowsSound' /\ RequestsSound'
<1>1. \A w \in VMs : /\ row'[w].status = row[w].status
                     /\ row'[w].slot = row[w].slot
                     /\ row'[w].host = IF w = v /\ Exists(v) THEN h
                                      ELSE row[w].host
  BY SetHostEffect DEF TypeOK
<1>2. \A w \in VMs : Exists(w)' <=> Exists(w)
  BY <1>1 DEF Exists
<1>3. RowsShaped' /\ RowsHaveDisks' /\ OneDisk' /\ OwnerHasDisk'
  BY <1>1, <1>2, ConstantsAssumption
  DEF RowsSound, RowsShaped, RowsHaveDisks, OneDisk, OwnerHasDisk
<1>4. FreshIds'
  BY <1>1 DEF RequestsSound, FreshIds, NoTrace
<1>5. RequestsKnow'
  <2> SUFFICES ASSUME NEW q \in Requests, req'[q].pc # "idle" PROVE Knows(q)'
    BY DEF RequestsKnow
  <2>1. Knows(q) /\ req[q].vm \in VMs /\ req'[q] = req[q]
    BY DEF Others, TypeOK, RequestsSound, RequestsKnow, Knows
  <2> QED
    BY <1>1, <1>2, <2>1 DEF Knows, NoTrace
<1>6. OwnIds'
  BY DEF Others, RequestsSound, OwnIds
<1> QED
  BY <1>3, <1>4, <1>5, <1>6 DEF RowsSound, RequestsSound

\* A start or a stop changes the status of a row that exists.
LEMMA StatusSound ==
  ASSUME TypeOK, RowsSound, RequestsSound, NEW v \in VMs, Exists(v),
         NEW s \in {"stopped", "running"},
         row' = [row EXCEPT ![v].status = s],
         Others, UNCHANGED <<born, disks>>
  PROVE  RowsSound' /\ RequestsSound'
<1>1. \A w \in VMs : /\ row'[w].host = row[w].host
                     /\ row'[w].slot = row[w].slot
                     /\ row'[w].status = IF w = v THEN s ELSE row[w].status
  BY DEF TypeOK, Row
<1>2. \A w \in VMs : /\ Exists(w)' <=> Exists(w)
                     /\ row'[w].status = "none" <=> row[w].status = "none"
  BY <1>1 DEF Exists
<1>3. RowsShaped' /\ RowsHaveDisks' /\ OneDisk' /\ OwnerHasDisk'
  BY <1>1, <1>2
  DEF RowsSound, RowsShaped, RowsHaveDisks, OneDisk, OwnerHasDisk
<1>4. FreshIds'
  BY <1>2 DEF RequestsSound, FreshIds, NoTrace
<1>5. RequestsKnow'
  <2> SUFFICES ASSUME NEW q \in Requests, req'[q].pc # "idle" PROVE Knows(q)'
    BY DEF RequestsKnow
  <2>1. Knows(q) /\ req[q].vm \in VMs /\ req'[q] = req[q]
    BY DEF Others, TypeOK, RequestsSound, RequestsKnow, Knows
  <2> QED
    BY <1>2, <2>1 DEF Knows, NoTrace
<1>6. OwnIds'
  BY DEF Others, RequestsSound, OwnIds
<1> QED
  BY <1>3, <1>4, <1>5, <1>6 DEF RowsSound, RequestsSound

\* A deletion takes the row and the VM's only disk.
LEMMA DeleteSound ==
  ASSUME TypeOK, RowsSound, RequestsSound, NEW v \in VMs, DeleteVm(v)
  PROVE  RowsSound' /\ RequestsSound'
<1>1. /\ Exists(v) /\ row[v].host \in Hosts
      /\ disks' = disks \ {<<row[v].host, v>>}
      /\ UNCHANGED <<born, req>>
  BY DEF TypeOK, DeleteVm, Exists, Row
<1>2. /\ row'[v].status = "deleted" /\ row'[v].host = None
      /\ \A w \in VMs : w # v => row'[w] = row[w]
  BY DEF TypeOK, DeleteVm, Gone
<1>3. \A w \in VMs, h \in Hosts :
          w # v => (<<h, w>> \in disks' <=> <<h, w>> \in disks)
  BY <1>1
<1>4. RowsShaped' /\ RowsHaveDisks' /\ OwnerHasDisk'
  BY <1>1, <1>2, <1>3
  DEF RowsSound, RowsShaped, RowsHaveDisks, OwnerHasDisk, Exists
<1>5. OneDisk'
  BY <1>1 DEF RowsSound, OneDisk
<1>6. FreshIds'
  BY <1>1, <1>2, <1>3 DEF RequestsSound, FreshIds, NoTrace, Exists
<1>7. RequestsKnow'
  <2> SUFFICES ASSUME NEW q \in Requests, req'[q].pc # "idle" PROVE Knows(q)'
    BY DEF RequestsKnow
  <2>1. Knows(q) /\ req[q].vm \in VMs /\ req' = req /\ born' = born
    BY <1>1 DEF TypeOK, RequestsSound, RequestsKnow, Knows
  <2>2. CASE req[q].vm = v
    BY <1>1, <1>2, <2>1, <2>2 DEF Knows, NoTrace, Exists
  <2>3. CASE req[q].vm # v
    BY <1>2, <1>3, <2>1, <2>3 DEF Knows, NoTrace, Exists
  <2> QED
    BY <2>2, <2>3
<1>8. OwnIds'
  BY <1>1 DEF RequestsSound, OwnIds
<1> QED
  BY <1>4, <1>5, <1>6, <1>7, <1>8 DEF RowsSound, RequestsSound

(***************************************************************************)
(* The invariant is inductive: one step per action.                        *)
(***************************************************************************)
LEMMA SoundStep == IInv /\ [Next]_vars => RowsSound' /\ RequestsSound'
<1> SUFFICES ASSUME IInv, [Next]_vars PROVE RowsSound' /\ RequestsSound'
  OBVIOUS
<1>0. TypeOK /\ RowsSound /\ RequestsSound
  BY DEF IInv
<1>1. ASSUME NEW r \in Requests, NEW v \in VMs, NEW h \in Hosts,
             CreateBegin(r, v, h)
      PROVE RowsSound' /\ RequestsSound'
  BY <1>0, <1>1, BeginSound DEF CreateBegin
<1>2. ASSUME NEW r \in Requests, NEW v \in VMs, NEW s \in VMs,
             NEW after \in {"restore", "idle"}, CloneBegin(r, v, s, after)
      PROVE RowsSound' /\ RequestsSound'
  <2>1. row[s].host \in Hosts
    BY <1>0, <1>2 DEF TypeOK, Row, CloneBegin
  <2> QED
    BY <1>0, <1>2, <2>1, BeginSound DEF CloneBegin
<1>3. ASSUME NEW r \in Requests, ChooseSlot(r)
      PROVE RowsSound' /\ RequestsSound'
  BY <1>0, <1>3, ChooseSlotSound
<1>4. ASSUME NEW r \in Requests, SlotsExhausted(r) \/ CallDropped(r)
      PROVE RowsSound' /\ RequestsSound'
  BY <1>0, <1>4, RequestEnds DEF SlotsExhausted, CallDropped
<1>5. ASSUME NEW r \in Requests, ProvisionDisk(r)
      PROVE RowsSound' /\ RequestsSound'
  BY <1>0, <1>5, DiskMadeSound DEF ProvisionDisk
<1>6. ASSUME NEW r \in Requests, CopyDisk(r)
      PROVE RowsSound' /\ RequestsSound'
  <2>1. CASE Cloneable(r)
    BY <1>0, <1>6, <2>1, DiskMadeSound DEF CopyDisk
  <2>2. CASE ~Cloneable(r)
    BY <1>0, <1>6, <2>2, RequestEnds DEF CopyDisk
  <2> QED
    BY <2>1, <2>2
<1>7. ASSUME NEW r \in Requests, InsertRow(r)
      PROVE RowsSound' /\ RequestsSound'
  BY <1>0, <1>7, InsertSound
<1>8. ASSUME NEW r \in Requests, AssignHost(r)
      PROVE RowsSound' /\ RequestsSound'
  <2>1. /\ Knows(r) /\ req[r].vm \in VMs /\ req[r].host \in Hosts
        /\ Exists(req[r].vm) => <<req[r].host, req[r].vm>> \in disks
    BY <1>0, <1>8 DEF AssignHost, TypeOK, RequestsSound, RequestsKnow, Knows
  <2>2. Others
    BY <1>0, <1>8 DEF AssignHost, Others, TypeOK, Idle
  <2> QED
    BY <1>0, <1>8, <2>1, <2>2, SetHostSound DEF AssignHost
<1>9. ASSUME NEW r \in Requests, RestoreClone(r)
      PROVE RowsSound' /\ RequestsSound'
  <2>1. req[r].vm \in VMs
    BY <1>0, <1>9 DEF RestoreClone, TypeOK, RequestsSound, RequestsKnow, Knows
  <2>2. Others /\ UNCHANGED <<born, disks>>
    BY <1>0, <1>9 DEF RestoreClone, Others, TypeOK, Idle
  <2>3. CASE row[req[r].vm].status = "stopped"
    <3>1. row' = [row EXCEPT ![req[r].vm].status = "running"]
      BY <1>9, <2>3 DEF RestoreClone
    <3> QED
      BY <1>0, <2>1, <2>2, <2>3, <3>1, StatusSound DEF Exists
  <2>4. CASE row[req[r].vm].status # "stopped"
    BY <1>0, <1>9, <2>4, RequestEnds DEF RestoreClone
  <2> QED
    BY <2>3, <2>4
<1>10. ASSUME NEW v \in VMs, StartVm(v)
       PROVE RowsSound' /\ RequestsSound'
  <2>1. Exists(v) /\ Others /\ UNCHANGED born
    BY <1>0, <1>10 DEF StartVm, Exists, Others
  <2>2. disks' = disks
    BY <1>0, <1>10 DEF StartVm, RowsSound, OwnerHasDisk
  <2>3. row' = [row EXCEPT ![v].status = "running"]
    BY <1>10 DEF StartVm
  <2> QED
    BY <1>0, <2>1, <2>2, <2>3, StatusSound
<1>11. ASSUME NEW v \in VMs, StopVm(v)
       PROVE RowsSound' /\ RequestsSound'
  BY <1>0, <1>11, StatusSound DEF StopVm, Exists, Others
<1>12. ASSUME NEW v \in VMs, DeleteVm(v)
       PROVE RowsSound' /\ RequestsSound'
  BY <1>0, <1>12, DeleteSound
<1>13. ASSUME NEW h \in Hosts, \/ ReadRows(h) \/ RemoveOrphanTaps(h)
                              \/ FindUnassigned(h) \/ EndReconcile(h)
       PROVE RowsSound' /\ RequestsSound'
  BY <1>0, <1>13, Frame
  DEF ReadRows, RemoveOrphanTaps, FindUnassigned, EndReconcile
<1>14. ASSUME NEW h \in Hosts, NEW v \in VMs, Claim(h, v)
       PROVE RowsSound' /\ RequestsSound'
  <2>1. CASE <<h, v>> \in disks
    BY <1>0, <1>14, <2>1, SetHostSound DEF Claim, Others
  <2>2. CASE <<h, v>> \notin disks
    BY <1>0, <1>14, <2>2, Frame DEF Claim
  <2> QED
    BY <2>1, <2>2
<1>15. CASE UNCHANGED vars
  BY <1>0, <1>15, Frame DEF vars
<1> QED
  BY <1>1, <1>2, <1>3, <1>4, <1>5, <1>6, <1>7, <1>8, <1>9, <1>10, <1>11,
     <1>12, <1>13, <1>14, <1>15
  DEF Next, Create, Reconcile

\* The invariant holds in every reachable state.
LEMMA Inductive == Spec => []IInv
<1>1. IInv /\ [Next]_vars => IInv'
  BY TypeStep, SoundStep DEF IInv
<1> QED
  BY InitInv, <1>1, PTL DEF Spec

\* Placement's variables keep their types (Placement!TypeOK).
THEOREM TypeCorrect == Spec => []TypeOK
<1>1. IInv => TypeOK
  BY DEF IInv
<1> QED
  BY Inductive, <1>1, PTL

\* The host in a row has the VM's disk: no start boots an empty one,
\* whichever of create_vm and the reconciliations wrote the host.
THEOREM OwnersHaveDisks == Spec => []OwnerHasDisk
<1>1. IInv => OwnerHasDisk
  BY DEF IInv, RowsSound
<1> QED
  BY Inductive, <1>1, PTL

(***************************************************************************)
(* Placement implements VmOwnership: inserting the row creates the VM at   *)
(* the host of its disk, the first write of a host owns it, and a write of *)
(* a host over another changes nothing.                                    *)
(***************************************************************************)
LEMMA DiskHostUnique ==
  ASSUME OneDisk, NEW v \in VMs, NEW h \in Hosts, <<h, v>> \in disks
  PROVE  DiskHost(v) = h
<1>1. DiskHosts(v) = {h}
  BY DEF OneDisk, DiskHosts
<1> QED
  BY <1>1 DEF DiskHost

\* What a row says of its VM's place.
LEMMA PlaceCases ==
  ASSUME TypeOK, NEW v \in VMs
  PROVE  /\ row[v].status = "none"
                => PlaceOf(v) = [stage |-> "unborn", disk |-> None]
         /\ row[v].status = "deleted"
                => PlaceOf(v) = [stage |-> "gone", disk |-> None]
         /\ Exists(v) /\ row[v].host = None
                => PlaceOf(v) = [stage |-> "unowned", disk |-> DiskHost(v)]
         /\ Exists(v) /\ row[v].host # None
                => PlaceOf(v) = [stage |-> "owned", disk |-> row[v].host]
BY DEF PlaceOf, Exists

\* The same in the next state.
LEMMA PlaceCasesNext ==
  ASSUME TypeOK', NEW v \in VMs
  PROVE  /\ row'[v].status = "none"
                => PlaceOf(v)' = [stage |-> "unborn", disk |-> None]
         /\ row'[v].status = "deleted"
                => PlaceOf(v)' = [stage |-> "gone", disk |-> None]
         /\ Exists(v)' /\ row'[v].host = None
                => PlaceOf(v)' = [stage |-> "unowned", disk |-> DiskHost(v)']
         /\ Exists(v)' /\ row'[v].host # None
                => PlaceOf(v)' = [stage |-> "owned", disk |-> row'[v].host]
BY DEF PlaceOf, Exists

\* A VM whose row keeps its host, and does not begin or cease to exist, stays
\* in its place while its disk stays.
LEMMA PlaceKept ==
  ASSUME TypeOK, TypeOK', NEW v \in VMs,
         row'[v].host = row[v].host,
         \/ row'[v].status = row[v].status
         \/ Exists(v) /\ Exists(v)',
         \/ row[v].status = "none"
         \/ \A h \in Hosts : <<h, v>> \in disks' <=> <<h, v>> \in disks
  PROVE  PlaceOf(v)' = PlaceOf(v)
<1>1. CASE row[v].status \in {"none", "deleted"}
  <2>1. row'[v].status = row[v].status
    BY <1>1 DEF Exists
  <2> QED
    BY <1>1, <2>1, PlaceCases, PlaceCasesNext
<1>2. CASE row[v].status \notin {"none", "deleted"}
  <2>1. Exists(v) /\ Exists(v)'
    BY <1>2 DEF TypeOK, Row, Exists
  <2>2. DiskHosts(v)' = DiskHosts(v)
    BY <1>2 DEF DiskHosts
  <2>3. DiskHost(v)' = DiskHost(v)
    BY <2>2 DEF DiskHost
  <2> QED
    BY <2>1, <2>3, PlaceCases, PlaceCasesNext
<1> QED
  BY <1>1, <1>2

\* The abstract step is a stutter when every VM stays in its place.
LEMMA NobodyMoves ==
  ASSUME \A v \in VMs : PlaceOf(v)' = PlaceOf(v)
  PROVE  place' = place
BY DEF place

\* The INSERT creates a VM at the host of its disk.
LEMMA InsertCreates ==
  ASSUME IInv, IInv', NEW r \in Requests, InsertRow(r),
         NEW v \in VMs, NEW h \in Hosts, v = req[r].vm, h = req[r].host
  PROVE  Ownership!Create(v, h)
<1>0. TypeOK /\ TypeOK' /\ OneDisk'
  BY DEF IInv, RowsSound
<1>1. row[v].status = "none" /\ <<h, v>> \in disks /\ UNCHANGED disks
  BY DEF IInv, TypeOK, RequestsSound, RequestsKnow, Knows, InsertRow
<1>2. /\ row'[v].status = "stopped" /\ row'[v].host = None
      /\ \A w \in VMs : w # v => row'[w] = row[w]
  BY <1>0, <1>1 DEF TypeOK, InsertRow
<1>3. PlaceOf(v) = Ownership!Unborn
  BY <1>0, <1>1, PlaceCases DEF Ownership!Unborn
<1>4. PlaceOf(v)' = [stage |-> "unowned", disk |-> h]
  <2>1. DiskHosts(v)' = {h}
    BY <1>0, <1>1 DEF OneDisk, DiskHosts
  <2>2. DiskHost(v)' = h
    BY <2>1 DEF DiskHost
  <2> QED
    BY <1>0, <1>1, <1>2, <2>2, PlaceCasesNext DEF Exists
<1>5. \A w \in VMs : w # v => PlaceOf(w)' = PlaceOf(w)
  BY <1>0, <1>1, <1>2, PlaceKept
<1>6. place' = [place EXCEPT ![v] = [stage |-> "unowned", disk |-> h]]
  BY <1>4, <1>5 DEF place
<1>7. place[v] = Ownership!Unborn
  BY <1>3 DEF place
<1> QED
  BY <1>6, <1>7 DEF Ownership!Create

\* A write of a host owns the VM, or finds it owned by the same host, or gone.
LEMMA SetHostOwns ==
  ASSUME IInv, IInv', NEW v \in VMs, NEW h \in Hosts,
         Exists(v) => <<h, v>> \in disks, SetHost(v, h), UNCHANGED disks
  PROVE  Ownership!Own(v) \/ place' = place
<1>0. TypeOK /\ TypeOK' /\ OneDisk /\ OwnerHasDisk
  BY DEF IInv, RowsSound
<1>1. \A w \in VMs : /\ row'[w].status = row[w].status
                     /\ row'[w].host = IF w = v /\ Exists(v) THEN h
                                      ELSE row[w].host
  BY <1>0, SetHostEffect DEF TypeOK
<1>2. \A w \in VMs : w # v => PlaceOf(w)' = PlaceOf(w)
  BY <1>0, <1>1, PlaceKept
<1>3. CASE Exists(v) /\ row[v].host = None
  <2>1. PlaceOf(v) = [stage |-> "unowned", disk |-> h]
    BY <1>0, <1>3, DiskHostUnique, PlaceCases
  <2>2. PlaceOf(v)' = [stage |-> "owned", disk |-> h]
    <3>1. Exists(v)' /\ row'[v].host = h /\ h # None
      BY <1>1, <1>3, ConstantsAssumption DEF Exists
    <3> QED
      BY <1>0, <3>1, PlaceCasesNext
  <2>3. place' = [place EXCEPT ![v].stage = "owned"]
    <3>1. place'[v] = [place[v] EXCEPT !.stage = "owned"]
      BY <2>1, <2>2 DEF place
    <3> QED
      BY <1>2, <3>1 DEF place
  <2>4. place[v].stage = "unowned"
    BY <2>1 DEF place
  <2> QED
    BY <2>3, <2>4 DEF Ownership!Own
<1>4. CASE ~(Exists(v) /\ row[v].host = None)
  <2>1. row'[v].host = row[v].host
    <3>1. CASE Exists(v)
      <4>1. row[v].host \in Hosts /\ <<row[v].host, v>> \in disks
        BY <1>0, <1>4, <3>1 DEF TypeOK, Row, OwnerHasDisk
      <4> QED
        BY <1>0, <1>1, <3>1, <4>1 DEF OneDisk
    <3>2. CASE ~Exists(v)
      BY <1>1, <3>2
    <3> QED
      BY <3>1, <3>2
  <2>2. PlaceOf(v)' = PlaceOf(v)
    BY <1>0, <1>1, <2>1, PlaceKept
  <2> QED
    BY <1>2, <2>2, NobodyMoves
<1> QED
  BY <1>3, <1>4

\* A VM is deleted with its disk, and only one that has a host.
LEMMA DeleteDeletes ==
  ASSUME IInv, IInv', NEW v \in VMs, DeleteVm(v)
  PROVE  Ownership!Delete(v)
<1>0. TypeOK /\ TypeOK'
  BY DEF IInv
<1>1. /\ Exists(v) /\ row[v].host # None
      /\ disks' = disks \ {<<row[v].host, v>>}
  BY DEF DeleteVm, Exists
<1>2. /\ row'[v].status = "deleted"
      /\ \A w \in VMs : w # v => row'[w] = row[w]
  BY <1>0 DEF TypeOK, DeleteVm, Gone
<1>3. PlaceOf(v)' = Ownership!Gone /\ PlaceOf(v).stage = "owned"
  BY <1>0, <1>1, <1>2, PlaceCases, PlaceCasesNext DEF Ownership!Gone
<1>4. \A w \in VMs : w # v => PlaceOf(w)' = PlaceOf(w)
  BY <1>0, <1>1, <1>2, PlaceKept
<1> QED
  BY <1>3, <1>4 DEF Ownership!Delete, place

\* No VM is born at first.
LEMMA OwnershipInit == Init => Ownership!Init
<1> SUFFICES ASSUME Init PROVE Ownership!Init
  OBVIOUS
<1>1. TypeOK
  BY InitInv DEF IInv
<1>2. \A v \in VMs : row[v].status = "none"
  BY DEF Init, NoRow
<1>3. \A v \in VMs : PlaceOf(v) = [stage |-> "unborn", disk |-> None]
  BY <1>1, <1>2, PlaceCases
<1> QED
  BY <1>3 DEF Ownership!Init, Ownership!Unborn, place

\* Every step moves at most one VM's place, as VmOwnership says.
LEMMA OwnershipStep == IInv /\ IInv' /\ [Next]_vars => [Ownership!Next]_place
<1> SUFFICES ASSUME IInv, IInv', [Next]_vars PROVE [Ownership!Next]_place
  OBVIOUS
<1>0. TypeOK /\ TypeOK' /\ RowsSound /\ RequestsSound
  BY DEF IInv
<1>1. ASSUME UNCHANGED <<row, disks>>
      PROVE place' = place
  BY <1>0, <1>1, PlaceKept, NobodyMoves
<1>2. ASSUME NEW r \in Requests, NEW v \in VMs, NEW h \in Hosts,
             CreateBegin(r, v, h)
      PROVE place' = place
  BY <1>1, <1>2 DEF CreateBegin
<1>3. ASSUME NEW r \in Requests, NEW v \in VMs, NEW s \in VMs,
             NEW after \in {"restore", "idle"}, CloneBegin(r, v, s, after)
      PROVE place' = place
  BY <1>1, <1>3 DEF CloneBegin
<1>4. ASSUME NEW r \in Requests,
             ChooseSlot(r) \/ SlotsExhausted(r) \/ CallDropped(r)
      PROVE place' = place
  BY <1>1, <1>4 DEF ChooseSlot, SlotsExhausted, CallDropped
<1>5. ASSUME NEW r \in Requests, ProvisionDisk(r) \/ CopyDisk(r)
      PROVE place' = place
  <2>1. CASE UNCHANGED disks
    BY <1>1, <1>5, <2>1 DEF ProvisionDisk, CopyDisk
  <2>2. CASE disks' # disks
    <3>1. /\ req[r].pc = "call" /\ row' = row
          /\ disks' = disks \cup {<<req[r].host, req[r].vm>>}
      BY <1>5, <2>2 DEF ProvisionDisk, CopyDisk
    <3>2. row[req[r].vm].status = "none"
      BY <1>0, <3>1 DEF RequestsSound, RequestsKnow, Knows, NoTrace
    <3> QED
      BY <1>0, <3>1, <3>2, PlaceKept, NobodyMoves
  <2> QED
    BY <2>1, <2>2
<1>6. ASSUME NEW r \in Requests, InsertRow(r)
      PROVE Ownership!Next
  <2>1. req[r].vm \in VMs /\ req[r].host \in Hosts
    BY <1>0, <1>6 DEF InsertRow, TypeOK, RequestsSound, RequestsKnow, Knows
  <2> QED
    BY <1>6, <2>1, InsertCreates DEF Ownership!Next
<1>7. ASSUME NEW r \in Requests, AssignHost(r)
      PROVE [Ownership!Next]_place
  <2>1. /\ req[r].vm \in VMs /\ req[r].host \in Hosts
        /\ Exists(req[r].vm) => <<req[r].host, req[r].vm>> \in disks
    BY <1>0, <1>7 DEF AssignHost, TypeOK, RequestsSound, RequestsKnow, Knows
  <2> QED
    BY <1>7, <2>1, SetHostOwns DEF AssignHost, Ownership!Next
<1>8. ASSUME NEW v \in VMs, Exists(v), NEW s \in {"stopped", "running"},
             row' = [row EXCEPT ![v].status = s], UNCHANGED disks
      PROVE place' = place
  <2>1. \A w \in VMs : /\ row'[w].host = row[w].host
                       /\ row'[w].status = IF w = v THEN s ELSE row[w].status
    BY <1>0, <1>8 DEF TypeOK, Row
  <2>2. \A w \in VMs : \/ row'[w].status = row[w].status
                       \/ Exists(w) /\ Exists(w)'
    BY <1>8, <2>1 DEF Exists
  <2> QED
    BY <1>0, <1>8, <2>1, <2>2, PlaceKept, NobodyMoves
<1>9. ASSUME NEW r \in Requests, RestoreClone(r)
      PROVE place' = place
  <2>1. req[r].vm \in VMs
    BY <1>0, <1>9 DEF RestoreClone, TypeOK, RequestsSound, RequestsKnow, Knows
  <2>2. CASE row[req[r].vm].status = "stopped"
    <3>1. row' = [row EXCEPT ![req[r].vm].status = "running"]
          /\ UNCHANGED disks
      BY <1>9, <2>2 DEF RestoreClone
    <3> QED
      BY <1>8, <2>1, <2>2, <3>1 DEF Exists
  <2>3. CASE row[req[r].vm].status # "stopped"
    BY <1>1, <1>9, <2>3 DEF RestoreClone
  <2> QED
    BY <2>2, <2>3
<1>10. ASSUME NEW v \in VMs, StartVm(v)
       PROVE place' = place
  <2>1. Exists(v) /\ row' = [row EXCEPT ![v].status = "running"]
    BY <1>10 DEF StartVm, Exists
  <2>2. disks' = disks
    BY <1>0, <1>10 DEF StartVm, RowsSound, OwnerHasDisk
  <2> QED
    BY <1>8, <2>1, <2>2
<1>11. ASSUME NEW v \in VMs, StopVm(v)
       PROVE place' = place
  BY <1>8, <1>11 DEF StopVm, Exists
<1>12. ASSUME NEW v \in VMs, DeleteVm(v)
       PROVE Ownership!Next
  BY <1>12, DeleteDeletes DEF Ownership!Next
<1>13. ASSUME NEW h \in Hosts, \/ ReadRows(h) \/ RemoveOrphanTaps(h)
                              \/ FindUnassigned(h) \/ EndReconcile(h)
       PROVE place' = place
  BY <1>1, <1>13
  DEF ReadRows, RemoveOrphanTaps, FindUnassigned, EndReconcile
<1>14. ASSUME NEW h \in Hosts, NEW v \in VMs, Claim(h, v)
       PROVE [Ownership!Next]_place
  <2>1. CASE <<h, v>> \in disks
    BY <1>14, <2>1, SetHostOwns DEF Claim, Ownership!Next
  <2>2. CASE <<h, v>> \notin disks
    BY <1>1, <1>14, <2>2 DEF Claim
  <2> QED
    BY <2>1, <2>2
<1>15. CASE UNCHANGED vars
  BY <1>1, <1>15 DEF vars
<1> QED
  BY <1>2, <1>3, <1>4, <1>5, <1>6, <1>7, <1>9, <1>10, <1>11, <1>12, <1>13,
     <1>14, <1>15
  DEF Next, Create, Reconcile

\* Every step of Placement creates a VM at its disk's host, gives it that host
\* for good, deletes it, or leaves every VM where it belongs.
THEOREM OwnershipImplemented == Spec => OwnershipSafe
  BY Inductive, OwnershipInit, OwnershipStep, PTL DEF Spec, OwnershipSafe

\* A VM that exists and has a host keeps it as long as it exists: of the writers of
\* hosts none writes a second one (db/src/lib.rs 324-331, reconcile.rs 136-152).
THEOREM HostWrittenOnce ==
    Spec => [][\A v \in VMs : Exists(v) /\ Exists(v)' /\ row[v].host # None
                   => row'[v].host = row[v].host]_vars
<1>1. ASSUME IInv, IInv', [Next]_vars, NEW v \in VMs,
             Exists(v), Exists(v)', row[v].host # None
      PROVE  row'[v].host = row[v].host
  <2>1. TypeOK /\ TypeOK'
    BY <1>1 DEF IInv
  <2>2. place[v] = [stage |-> "owned", disk |-> row[v].host]
    BY <1>1, <2>1, PlaceCases DEF place
  <2>3. /\ place'[v].stage \in {"unowned", "owned"}
        /\ place'[v].stage = "owned" => place'[v].disk = row'[v].host
    BY <1>1, <2>1, PlaceCasesNext DEF place
  <2>4. place = [w \in VMs |-> place[w]]
    BY DEF place
  <2>5. Ownership!Next \/ place' = place
    BY <1>1, OwnershipStep
  <2>6. place'[v] = place[v]
    <3>1. ASSUME NEW w \in VMs, Ownership!Own(w)
          PROVE  place'[v] = place[v]
      BY <2>2, <2>4, <3>1 DEF Ownership!Own
    <3>2. ASSUME NEW w \in VMs, Ownership!Delete(w)
          PROVE  place'[v] = place[v]
      BY <2>3, <2>4, <3>2 DEF Ownership!Delete, Ownership!Gone
    <3>3. ASSUME NEW w \in VMs, NEW h \in Hosts, Ownership!Create(w, h)
          PROVE  place'[v] = place[v]
      BY <2>2, <2>4, <3>3 DEF Ownership!Create, Ownership!Unborn
    <3> QED
      BY <2>5, <3>1, <3>2, <3>3 DEF Ownership!Next
  <2> QED
    BY <2>2, <2>3, <2>6
<1>2. IInv /\ IInv' /\ [Next]_vars
          => \A v \in VMs : Exists(v) /\ Exists(v)' /\ row[v].host # None
                               => row'[v].host = row[v].host
  BY <1>1
<1> QED
  BY <1>2, Inductive, PTL DEF Spec
=============================================================================
