-------------------------- MODULE Snapshots_proofs --------------------------
(***************************************************************************)
(* Theorems about Snapshots, for any set of ids, any limit and any finite  *)
(* set of requests.                                                        *)
(***************************************************************************)
EXTENDS Snapshots, FiniteSetTheorems, TLAPS

(***************************************************************************)
(* The inductive invariant. A request is followed from its count of the    *)
(* rows to its insert: by then its files are complete, nobody else may     *)
(* have begun to delete them, because no deletion knows of an id that is   *)
(* not listed, and it counts against the limit as its row will. What a     *)
(* deleted VM may leave is followed through the last step of delete_vm.    *)
(***************************************************************************)
Counted == {"handle", "pause", "create", "resume", "failed", "put", "insert"}

\* The requests that counted the rows and have not inserted theirs.
PastCount == {r \in Requests : req[r] # None /\ req[r].at \in Counted}

LimitShared ==
    /\ IsFiniteSet(rows)
    /\ Cardinality(rows) + Cardinality(PastCount) + 1
          =< Limit + Cardinality(Requests)

\* What a request under way holds.
Holds(r) ==
    /\ req[r].at \in Counted \cup {"boot", "files", "row"} => req[r].snap \in Snaps
    /\ req[r].at = "failed" => ~req[r].ok
    /\ req[r].at \in {"resume", "put", "insert"} /\ req[r].ok
       /\ status # "gone" => req[r].snap \in files \cup cleaned
    /\ req[r].at = "vmjail" => status = "gone"

RequestsHold == \A r \in Requests : req[r] # None => Holds(r)

Taking(r) == req[r] # None /\ req[r].at \in Counted

\* The snapshots whose files r removes, has removed, or is about to.
Victims(r) ==
    IF req[r] = None THEN {}
    ELSE IF req[r].at \in {"files", "row"} THEN {req[r].snap}
    ELSE IF req[r].at \in {"vmfiles", "vmrow"} THEN req[r].list ELSE {}

\* A snapshot that is being taken is one request's, and no deletion knows of it.
IdsApart ==
    /\ rows \subseteq used
    /\ \A r \in Requests : Victims(r) \subseteq used
    /\ \A r \in Requests : Taking(r) =>
          /\ req[r].snap \in used \ rows
          /\ \A q \in Requests : req[r].snap \notin Victims(q)
          /\ \A q \in Requests \ {r} : Taking(q) => req[q].snap # req[r].snap

RowsOfGone == status = "gone" => rows = {}

Cleaning == \E r \in Requests : Handling(r, "vmjail")

JailCleared ==
    status = "gone" /\ "jail" \notin faults => Cleaning \/ files = {}

IInv ==
    /\ TypeOK /\ RequestsHold /\ IdsApart /\ RowsOfGone /\ ListedHasFiles
    /\ JailCleared /\ PausedIsResumed /\ LimitShared

\* The invariant holds while the VM runs and no snapshot has been taken.
LEMMA InitInv == Init => IInv
<1> SUFFICES ASSUME Init PROVE IInv
  OBVIOUS
<1>1. TypeOK
  BY DEF Init, TypeOK, Statuses
<1>2. RequestsHold /\ ListedHasFiles /\ JailCleared /\ PausedIsResumed /\ IdsApart /\ RowsOfGone
  BY DEF Init, RequestsHold, ListedHasFiles, JailCleared, PausedIsResumed, IdsApart, RowsOfGone,
         Taking, Victims
<1>3. LimitShared
  <2>1. rows = {} /\ PastCount = {}
    BY DEF Init, PastCount
  <2>2. IsFiniteSet({}) /\ Cardinality({}) = 0
    BY FS_EmptySet
  <2>3. Cardinality(Requests) \in Nat
    BY RequestsAssumption, FS_CardinalityType
  <2> QED
    BY <2>1, <2>2, <2>3, LimitAssumption DEF LimitShared
<1> QED
  BY <1>1, <1>2, <1>3 DEF IInv

\* What a request does, from its first statement to its last.
Acts(r) ==
    \/ TakeRead(r) \/ RestoreRead(r) \/ DeleteRead(r) \/ VmRead(r)
    \/ Step(r) \/ Dropped(r)

\* A request's step changes no other request.
LEMMA OthersKept ==
  ASSUME TypeOK, NEW r \in Requests, Acts(r), NEW q \in Requests, q # r
  PROVE  req'[q] = req[q]
<1>1. req \in [Requests -> Handler \cup {None}]
  BY DEF TypeOK
<1> QED
  BY <1>1 DEF Acts, TakeRead, RestoreRead, DeleteRead, VmRead, Step, Dropped,
              TakeCount, TakeHandle, TakePause, TakeCreate, TakeFails, TakeResume,
              TakeResumeFails, TakeGivesUp, TakePut, TakeInsert, RestoreBoot,
              DeleteFiles, DeleteRow, VmList, VmFiles, VmRow, VmJail,
              Accept, Continue, Answer

\* What each step makes of its own request: it goes on with the same snapshot,
\* begins, is given an id, or ends.
LEMMA OwnStep ==
  ASSUME TypeOK, RequestsHold, NEW r \in Requests, Acts(r)
  PROVE  /\ req' \in [Requests -> Handler \cup {None}]
         /\ req'[r] = None \/ (req'[r] # None /\ req'[r] \in Handler)
<1>0. req \in [Requests -> Handler \cup {None}]
  BY DEF TypeOK
<1>1. ASSUME NEW s \in Snaps \cup {None}, NEW at \in {"count", "boot", "files", "vmlist"},
             Accept(r, at, s)
      PROVE  req' \in [Requests -> Handler \cup {None}] /\ req'[r] \in Handler
  <2>1. [at |-> at, via |-> "socket", snap |-> s, ok |-> TRUE, list |-> {}] \in Handler
    BY DEF Handler
  <2> QED
    BY <1>0, <1>1, <2>1 DEF Accept
<1>2. CASE Answer(r)
  BY <1>0, <1>2 DEF Answer
<1>3. ASSUME req[r] # None,
             NEW at \in {"create", "resume", "failed", "put", "insert", "row", "vmrow", "vmjail"},
             Continue(r, at)
      PROVE  req' \in [Requests -> Handler \cup {None}] /\ req'[r] \in Handler
  BY <1>0, <1>3 DEF Continue, Handler
<1>4. CASE TakeRead(r) \/ VmRead(r)
  BY <1>1, <1>4, NoneAssumption DEF TakeRead, VmRead
<1>5. CASE RestoreRead(r) \/ DeleteRead(r)
  <2>1. rows \subseteq Snaps
    BY DEF TypeOK
  <2> QED
    BY <1>1, <1>5, <2>1, NoneAssumption DEF RestoreRead, DeleteRead
<1>6. CASE TakeCount(r)
  <2>1. CASE Answer(r)
    BY <1>2, <2>1
  <2>2. ASSUME NEW s \in Snaps, req' = [req EXCEPT ![r].at = "handle", ![r].snap = s]
        PROVE  req' \in [Requests -> Handler \cup {None}] /\ req'[r] \in Handler
    BY <1>0, <1>6, <2>2 DEF TakeCount, Handling, Handler
  <2> QED
    BY <1>6, <2>1, <2>2, NoneAssumption DEF TakeCount
<1>7. CASE TakeHandle(r)
  BY <1>0, <1>7, NoneAssumption DEF TakeHandle, Handling, Handler
<1>8. CASE TakePause(r) \/ TakeCreate(r) \/ TakePut(r)
  BY <1>3, <1>8, NoneAssumption DEF TakePause, TakeCreate, TakePut, Handling
<1>9. CASE TakeFails(r)
  BY <1>0, <1>9, NoneAssumption DEF TakeFails, Handling, Handler
<1>10. CASE TakeResume(r) \/ TakeGivesUp(r)
  BY <1>3, <1>10, NoneAssumption DEF TakeResume, TakeGivesUp, AfterResume, Handling
<1>11. CASE TakeResumeFails(r)
  BY <1>0, <1>11, NoneAssumption, ZenonT(30) DEF TakeResumeFails, AfterResume, Handling, Handler
<1>12. CASE TakeInsert(r) \/ RestoreBoot(r) \/ DeleteRow(r) \/ VmJail(r) \/ Dropped(r)
  BY <1>2, <1>12 DEF TakeInsert, RestoreBoot, DeleteRow, VmJail, Dropped
<1>13. CASE DeleteFiles(r) \/ VmFiles(r)
  BY <1>3, <1>13, NoneAssumption DEF DeleteFiles, VmFiles, Handling
<1>14. CASE VmList(r)
  BY <1>0, <1>14, NoneAssumption, ZenonT(30) DEF VmList, Handling, Handler, TypeOK
<1>15. CASE VmRow(r)
  BY <1>2, <1>3, <1>15, NoneAssumption DEF VmRow, Handling
<1> QED
  BY <1>4, <1>5, <1>6, <1>7, <1>8, <1>9, <1>10, <1>11, <1>12, <1>13, <1>14, <1>15
  DEF Acts, Step

\* The fields of a request from the count to the insert.
LEMMA SnapOf ==
  ASSUME RequestsHold, NEW r \in Requests, req[r] # None,
         req[r].at \in Counted \cup {"boot", "files", "row"}
  PROVE  req[r].snap \in Snaps
BY DEF RequestsHold, Holds

\* The VM's part of the types.
LEMMA TypeStep == IInv /\ [Next]_vars => TypeOK'
<1> SUFFICES ASSUME IInv, [Next]_vars PROVE TypeOK'
  OBVIOUS
<1>0. TypeOK /\ RequestsHold
  BY DEF IInv
<1>1. CASE Stop \/ Start \/ Refer \/ UNCHANGED vars
  BY <1>0, <1>1 DEF TypeOK, Stop, Start, Refer, Jail, vars, vmVars, snapVars, Statuses
<1>2. CASE AgentRestart
  BY <1>0, <1>2 DEF TypeOK, AgentRestart, Left, Statuses
<1>3. ASSUME NEW r \in Requests, Acts(r) PROVE TypeOK'
  <2>1. req' \in [Requests -> Handler \cup {None}]
    BY <1>0, <1>3, OwnStep
  <2>2. CASE TakeRead(r) \/ RestoreRead(r) \/ DeleteRead(r) \/ VmRead(r) \/ VmList(r)
             \/ TakeFails(r) \/ TakeHandle(r) \/ TakePut(r)
    BY <1>0, <2>1, <2>2 DEF TypeOK, TakeRead, RestoreRead, DeleteRead, VmRead, VmList,
       TakeFails, TakeHandle, TakePut, vmVars, snapVars, Statuses
  <2>3. CASE TakePause(r) \/ TakeResume(r) \/ TakeResumeFails(r) \/ TakeGivesUp(r)
    BY <1>0, <2>1, <2>3 DEF TypeOK, TakePause, TakeResume, TakeResumeFails, TakeGivesUp,
       Resumed, Unresumed, vmVars, snapVars
  <2>4. CASE TakeCount(r) \/ RestoreBoot(r) \/ Dropped(r)
    BY <1>0, <2>1, <2>4 DEF TypeOK, TakeCount, RestoreBoot, Dropped, Left, Jail,
       vmVars, snapVars, Statuses
  <2>5. CASE TakeCreate(r) \/ TakeInsert(r) \/ DeleteFiles(r) \/ DeleteRow(r)
    <3>1. req[r].snap \in Snaps
      BY <1>0, <2>5, SnapOf DEF TakeCreate, TakeInsert, DeleteFiles, DeleteRow, Handling, Counted
    <3> QED
      BY <1>0, <2>1, <2>5, <3>1 DEF TypeOK, TakeCreate, TakeInsert, DeleteFiles, DeleteRow,
         Unlink, vmVars
  <2>6. CASE VmFiles(r) \/ VmRow(r) \/ VmJail(r)
    <3>1. req[r] # None => req[r].list \subseteq Snaps
      BY <1>0 DEF TypeOK, Handler
    <3> QED
      BY <1>0, <2>1, <2>6, <3>1 DEF TypeOK, VmFiles, VmRow, VmJail, Unlink, Handling,
         vmVars, Statuses
  <2> QED
    BY <1>3, <2>2, <2>3, <2>4, <2>5, <2>6 DEF Acts, Step
<1> QED
  BY <1>1, <1>2, <1>3 DEF Next, Acts

\* A VM that is gone stays gone, and only an insert lists a snapshot.
LEMMA GoneStays ==
  ASSUME TypeOK, [Next]_vars
  PROVE  /\ status = "gone" => status' = "gone"
         /\ rows' \subseteq rows \/ \E r \in Requests : TakeInsert(r)
<1>1. CASE Stop \/ Start \/ Refer \/ AgentRestart \/ UNCHANGED vars
  BY <1>1 DEF Stop, Start, Refer, AgentRestart, vars, snapVars
<1>2. ASSUME NEW r \in Requests, Acts(r)
      PROVE  /\ status = "gone" => status' = "gone"
             /\ rows' \subseteq rows \/ TakeInsert(r)
  BY <1>2 DEF Acts, TakeRead, RestoreRead, DeleteRead, VmRead, Step, Dropped,
              TakeCount, TakeHandle, TakePause, TakeCreate, TakeFails, TakeResume,
              TakeResumeFails, TakeGivesUp, TakePut, TakeInsert, RestoreBoot,
              DeleteFiles, DeleteRow, VmList, VmFiles, VmRow, VmJail, snapVars, vmVars
<1> QED
  BY <1>1, <1>2 DEF Next, Acts

\* The rows go with the VM's.
LEMMA GoneStep == IInv /\ [Next]_vars => RowsOfGone'
<1> SUFFICES ASSUME IInv, [Next]_vars, status' = "gone" PROVE rows' = {}
  BY DEF RowsOfGone
<1>0. TypeOK /\ RowsOfGone
  BY DEF IInv
<1>1. CASE status = "gone"
  <2>1. rows = {}
    BY <1>0, <1>1 DEF RowsOfGone
  <2>2. ASSUME NEW r \in Requests, TakeInsert(r) PROVE rows' = {}
    BY <1>1, <2>1, <2>2 DEF TakeInsert
  <2> QED
    BY <1>0, <2>1, <2>2, GoneStays
<1>2. CASE status # "gone"
  <2>1. ~(Stop \/ Start \/ Refer \/ AgentRestart \/ UNCHANGED vars)
    BY <1>2 DEF Stop, Start, Refer, AgentRestart, vars, snapVars
  <2>2. ASSUME NEW r \in Requests, Acts(r) PROVE rows' = {}
    BY <1>2, <2>2 DEF Acts, TakeRead, RestoreRead, DeleteRead, VmRead, Step, Dropped,
              TakeCount, TakeHandle, TakePause, TakeCreate, TakeFails, TakeResume,
              TakeResumeFails, TakeGivesUp, TakePut, TakeInsert, RestoreBoot,
              DeleteFiles, DeleteRow, VmList, VmFiles, VmRow, VmJail, snapVars, vmVars
  <2> QED
    BY <2>1, <2>2 DEF Next, Acts
<1> QED
  BY <1>1, <1>2

\* What a step means for the ids of its request: a taker keeps its id or gets one
\* that nobody had, and a deletion learns of snapshots that are listed.
LEMMA OwnIds ==
  ASSUME TypeOK, NEW r \in Requests, Acts(r)
  PROVE  /\ used \subseteq used'
         /\ Taking(r)' => \/ Taking(r) /\ req'[r].snap = req[r].snap
                          \/ req'[r].snap \in used' \ used
         /\ Victims(r)' \subseteq Victims(r) \cup rows
         /\ rows' \subseteq rows \/ TakeInsert(r)
         /\ TakeInsert(r) => /\ Taking(r) /\ ~Taking(r)'
                             /\ rows' \subseteq rows \cup {req[r].snap}
<1>0. req \in [Requests -> Handler \cup {None}]
  BY DEF TypeOK
<1>1. CASE Answer(r)
  <2>0. req'[r] = None
    BY <1>0, <1>1 DEF Answer
  <2>1. ~Taking(r)' /\ Victims(r)' = {}
    BY <2>0 DEF Taking, Victims
  <2>2. /\ used \subseteq used' /\ (rows' \subseteq rows \/ TakeInsert(r))
        /\ TakeInsert(r) => Taking(r) /\ rows' \subseteq rows \cup {req[r].snap}
    BY <1>1, NoneAssumption DEF Acts, TakeRead, RestoreRead, DeleteRead, VmRead, Step, Dropped,
              TakeCount, TakeHandle, TakePause, TakeCreate, TakeFails, TakeResume,
              TakeResumeFails, TakeGivesUp, TakePut, TakeInsert, RestoreBoot,
              DeleteFiles, DeleteRow, VmList, VmFiles, VmRow, VmJail, snapVars,
              Taking, Counted, Handling
  <2> QED
    BY <2>1, <2>2
<1>2. CASE TakeRead(r) \/ VmRead(r) \/ RestoreRead(r) \/ DeleteRead(r)
  <2>1. /\ req'[r] # None => req'[r].at \in {"count", "vmlist", "boot", "files"}
        /\ req'[r].at = "files" => req'[r].snap \in rows
        /\ UNCHANGED <<used, rows>>
    BY <1>0, <1>2 DEF TakeRead, VmRead, RestoreRead, DeleteRead, Accept, snapVars
  <2>2. ~Handling(r, "insert")
    BY <1>2 DEF TakeRead, VmRead, RestoreRead, DeleteRead, Accept, Handling
  <2> QED
    BY <2>1, <2>2 DEF Taking, Victims, Counted, TakeInsert
<1>3. CASE TakeCount(r)
  <2>1. ASSUME NEW s \in Snaps, FreeId(s), used' = used \cup {s},
               req' = [req EXCEPT ![r].at = "handle", ![r].snap = s]
        PROVE  req'[r].at = "handle" /\ req'[r].snap \in used' \ used /\ used \subseteq used'
    BY <1>0, <1>3, <2>1 DEF TakeCount, Handling, Handler, FreeId
  <2>2. UNCHANGED rows /\ ~Handling(r, "insert")
    BY <1>3 DEF TakeCount, Handling
  <2>3. CASE ~Answer(r)
    <3>1. PICK s \in Snaps : /\ FreeId(s) /\ used' = used \cup {s}
                             /\ req' = [req EXCEPT ![r].at = "handle", ![r].snap = s]
      BY <1>3, <2>3 DEF TakeCount
    <3>2. req'[r].at = "handle" /\ req'[r].snap \in used' \ used /\ used \subseteq used'
      BY <2>1, <3>1
    <3> QED
      BY <2>2, <3>2 DEF Taking, Victims, TakeInsert
  <2> QED
    BY <1>1, <2>3
<1>4. CASE TakeHandle(r) \/ TakePause(r) \/ TakeCreate(r) \/ TakeFails(r) \/ TakeResume(r)
           \/ TakeResumeFails(r) \/ TakeGivesUp(r) \/ TakePut(r)
  <2>1. /\ req[r] # None /\ req[r] \in Handler /\ req[r].at \in Counted
        /\ req[r].at # "insert"
    BY <1>0, <1>4 DEF TakeHandle, TakePause, TakeCreate, TakeFails, TakeResume,
       TakeResumeFails, TakeGivesUp, TakePut, Handling, Counted
  <2>2. /\ req'[r].at \in Counted /\ req'[r].snap = req[r].snap
        /\ UNCHANGED <<used, rows>>
    BY <1>0, <1>4, <2>1 DEF TakeHandle, TakePause, TakeCreate, TakeFails, TakeResume,
       TakeResumeFails, TakeGivesUp, TakePut, Continue, AfterResume, Handler, Counted, snapVars
  <2>3. Victims(r)' = {} /\ ~Handling(r, "insert")
    BY <2>1, <2>2 DEF Victims, Counted, Handling
  <2> QED
    BY <2>1, <2>2, <2>3 DEF Taking, TakeInsert
<1>5. CASE DeleteFiles(r)
  <2>1. /\ req[r] # None /\ req[r].at = "files" /\ UNCHANGED <<used, rows>>
        /\ req'[r].at = "row" /\ req'[r].snap = req[r].snap
    BY <1>0, <1>5 DEF DeleteFiles, Handling, Continue, Handler
  <2> QED
    BY <2>1 DEF Taking, Victims, Counted, TakeInsert, Handling
<1>6. CASE VmList(r) \/ VmFiles(r)
  <2>1. /\ req[r] # None /\ req[r] \in Handler /\ req[r].at \in {"vmlist", "vmfiles"}
        /\ UNCHANGED <<used, rows>>
    BY <1>0, <1>6 DEF VmList, VmFiles, Handling, snapVars
  <2>2. /\ req'[r].at \in {"vmfiles", "vmrow"}
        /\ \/ req[r].at = "vmlist" /\ req'[r].list = rows
           \/ req[r].at = "vmfiles" /\ req'[r].list = req[r].list
    BY <1>0, <1>6, <2>1 DEF VmList, VmFiles, Handling, Continue, Handler
  <2> QED
    BY <2>1, <2>2 DEF Taking, Victims, Counted, TakeInsert, Handling
<1>7. CASE VmRow(r) /\ ~Answer(r)
  <2>1. /\ req[r] # None /\ req[r] \in Handler /\ req[r].at = "vmrow"
        /\ UNCHANGED used /\ rows' \subseteq rows /\ req'[r].at = "vmjail"
    BY <1>0, <1>7 DEF VmRow, Handling, Continue, Handler
  <2> QED
    BY <2>1 DEF Taking, Victims, Counted, TakeInsert, Handling
<1> QED
  BY <1>1, <1>2, <1>3, <1>4, <1>5, <1>6, <1>7
  DEF Acts, Step, TakeInsert, RestoreBoot, DeleteRow, VmJail, Dropped

\* Ids stay apart.
LEMMA IdStep == IInv /\ [Next]_vars => IdsApart'
<1> SUFFICES ASSUME IInv, [Next]_vars PROVE IdsApart'
  OBVIOUS
<1>0. TypeOK /\ IdsApart
  BY DEF IInv
<1>1. CASE Stop \/ Start \/ Refer \/ UNCHANGED vars
  <2>1. UNCHANGED <<rows, used, req>>
    BY <1>1 DEF Stop, Start, Refer, vars, snapVars
  <2> QED
    BY <1>0, <2>1 DEF IdsApart, Taking, Victims
<1>2. CASE AgentRestart
  <2>1. UNCHANGED <<rows, used>> /\ \A r \in Requests : req'[r] = None
    BY <1>2 DEF AgentRestart
  <2> QED
    BY <1>0, <2>1 DEF IdsApart, Taking, Victims
<1>3. ASSUME NEW r \in Requests, Acts(r) PROVE IdsApart'
  <2>1. /\ used \subseteq used'
        /\ Taking(r)' => \/ Taking(r) /\ req'[r].snap = req[r].snap
                         \/ req'[r].snap \in used' \ used
        /\ Victims(r)' \subseteq Victims(r) \cup rows
        /\ rows' \subseteq rows \/ TakeInsert(r)
        /\ TakeInsert(r) => /\ Taking(r) /\ ~Taking(r)'
                            /\ rows' \subseteq rows \cup {req[r].snap}
    BY <1>0, <1>3, OwnIds
  <2>2. \A q \in Requests \ {r} : /\ req'[q] = req[q] /\ Taking(q)' = Taking(q)
                                  /\ Victims(q)' = Victims(q)
    BY <1>0, <1>3, OthersKept DEF Taking, Victims
  <2>3. /\ rows \subseteq used /\ \A q \in Requests : Victims(q) \subseteq used
        /\ \A x \in Requests : Taking(x) =>
              /\ req[x].snap \in used \ rows
              /\ \A q \in Requests : req[x].snap \notin Victims(q)
              /\ \A q \in Requests \ {x} : Taking(q) => req[q].snap # req[x].snap
    BY <1>0 DEF IdsApart
  <2>4. rows' \subseteq used' /\ \A q \in Requests : Victims(q)' \subseteq used'
    BY <2>1, <2>2, <2>3
  <2>5. ASSUME NEW x \in Requests, Taking(x)'
        PROVE  /\ req'[x].snap \in used' \ rows'
               /\ \A q \in Requests : req'[x].snap \notin Victims(q)'
               /\ \A q \in Requests \ {x} : Taking(q)' => req'[q].snap # req'[x].snap
    <3>1. CASE x = r
      BY <2>1, <2>2, <2>3, <2>5, <3>1
    <3>2. CASE x # r
      <4>1. Taking(x) /\ req'[x].snap = req[x].snap
        BY <2>2, <2>5, <3>2
      <4> QED
        BY <2>1, <2>2, <2>3, <3>2, <4>1
    <3> QED
      BY <3>1, <3>2
  <2> QED
    BY <2>4, <2>5 DEF IdsApart
<1> QED
  BY <1>1, <1>2, <1>3 DEF Next, Acts

\* Files go by a deletion that knows of them, with the VM, or by fctools.
LEMMA FilesKept ==
  ASSUME IInv, [Next]_vars, NEW s \in files \cup cleaned
  PROVE  \/ s \in files' \cup cleaned' \/ status' = "gone"
         \/ \E r \in Requests : s \in Victims(r)
<1>0. TypeOK /\ RequestsHold
  BY DEF IInv
<1>1. CASE Stop \/ Start \/ Refer \/ AgentRestart \/ UNCHANGED vars
  BY <1>1 DEF Stop, Start, Refer, AgentRestart, Jail, vars, snapVars
<1>2. ASSUME NEW r \in Requests, Acts(r)
      PROVE  s \in files' \cup cleaned' \/ status' = "gone" \/ s \in Victims(r)
  <2>1. CASE DeleteFiles(r) \/ DeleteRow(r)
    BY <2>1 DEF DeleteFiles, DeleteRow, Unlink, Victims, Handling
  <2>2. CASE VmFiles(r)
    BY <2>2 DEF VmFiles, Unlink, Victims, Handling
  <2>3. CASE VmJail(r)
    BY <1>0, <2>3 DEF VmJail, Handling, RequestsHold, Holds, vmVars
  <2>4. CASE ~(DeleteFiles(r) \/ DeleteRow(r)) /\ ~VmFiles(r) /\ ~VmJail(r)
    BY <1>2, <2>4 DEF Acts, TakeRead, RestoreRead, DeleteRead, VmRead, Step, Dropped,
              TakeCount, TakeHandle, TakePause, TakeCreate, TakeFails, TakeResume,
              TakeResumeFails, TakeGivesUp, TakePut, TakeInsert, RestoreBoot,
              VmList, VmRow, Jail, snapVars
  <2> QED
    BY <2>1, <2>2, <2>3, <2>4
<1> QED
  BY <1>1, <1>2 DEF Next, Acts

\* A request that goes on holds what its next statement relies on.
LEMMA OwnHolds ==
  ASSUME IInv, NEW r \in Requests, Acts(r), req'[r] # None
  PROVE  Holds(r)'
<1>0. TypeOK /\ RequestsHold /\ req \in [Requests -> Handler \cup {None}]
  BY DEF IInv, TypeOK
<1>1. CASE Answer(r)
  BY <1>0, <1>1 DEF Answer
<1>2. CASE TakeRead(r) \/ VmRead(r)
  BY <1>0, <1>2 DEF TakeRead, VmRead, Accept, Holds, Counted
<1>3. CASE RestoreRead(r) \/ DeleteRead(r)
  <2>1. rows \subseteq Snaps
    BY <1>0 DEF TypeOK
  <2> QED
    BY <1>0, <1>3, <2>1 DEF RestoreRead, DeleteRead, Accept, Holds, Counted
<1>4. CASE TakeCount(r)
  <2>1. ASSUME NEW s \in Snaps, req' = [req EXCEPT ![r].at = "handle", ![r].snap = s]
        PROVE  req'[r].at = "handle" /\ req'[r].snap = s
    BY <1>0, <1>4, <2>1 DEF TakeCount, Handling, Handler
  <2> QED
    BY <1>1, <1>4, <2>1 DEF TakeCount, Holds
<1>5. CASE TakeHandle(r) \/ TakePause(r) \/ TakeFails(r)
  <2>1. /\ req[r] # None /\ req[r] \in Handler /\ req[r].snap \in Snaps
        /\ req'[r].at \in {"pause", "create", "failed"} /\ req'[r].snap = req[r].snap
        /\ req'[r].at = "failed" => ~req'[r].ok
    BY <1>0, <1>5, SnapOf DEF TakeHandle, TakePause, TakeFails, Handling, Continue, Handler, Counted
  <2> QED
    BY <2>1 DEF Holds
<1>6. CASE TakeCreate(r)
  <2>1. /\ req[r] # None /\ req[r] \in Handler /\ req[r].snap \in Snaps
        /\ req'[r].at = "resume" /\ req'[r].snap = req[r].snap /\ req[r].snap \in files'
    BY <1>0, <1>6, SnapOf DEF TakeCreate, Handling, Continue, Handler, Counted
  <2> QED
    BY <2>1 DEF Holds
<1>7. CASE TakeResume(r) \/ TakeGivesUp(r) \/ TakeResumeFails(r) \/ TakePut(r)
  <2>1. /\ req[r] # None /\ req[r] \in Handler /\ req[r].snap \in Snaps /\ Holds(r)
        /\ req[r].at \in {"resume", "failed", "put"}
    BY <1>0, <1>7, SnapOf DEF TakeResume, TakeGivesUp, TakeResumeFails, TakePut, Handling,
       Counted, RequestsHold
  <2>2. /\ req'[r].at \in {"put", "insert"} /\ req'[r].snap = req[r].snap
        /\ req'[r].ok => req[r].ok
    BY <1>0, <1>7, <2>1 DEF TakeResume, TakeGivesUp, TakeResumeFails, TakePut, Continue,
       AfterResume, Handler
  <2>3. UNCHANGED <<files, cleaned, status>>
    BY <1>7 DEF TakeResume, TakeGivesUp, TakeResumeFails, TakePut, snapVars, vmVars
  <2> QED
    BY <2>1, <2>2, <2>3 DEF Holds
<1>8. CASE DeleteFiles(r)
  <2>1. /\ req[r] # None /\ req[r] \in Handler /\ req[r].snap \in Snaps
        /\ req'[r].at = "row" /\ req'[r].snap = req[r].snap
    BY <1>0, <1>8, SnapOf DEF DeleteFiles, Handling, Continue, Handler, Counted
  <2> QED
    BY <2>1 DEF Holds
<1>9. CASE VmList(r) \/ VmFiles(r) \/ VmRow(r)
  <2>1. CASE req'[r].at \in {"vmfiles", "vmrow"}
    BY <2>1 DEF Holds, Counted
  <2>2. CASE VmRow(r) /\ ~Answer(r)
    <3>1. req'[r].at = "vmjail" /\ status' = "gone"
      BY <1>0, <2>2 DEF VmRow, Handling, Continue, Handler
    <3> QED
      BY <3>1 DEF Holds, Counted
  <2>3. CASE VmList(r) \/ VmFiles(r)
    BY <1>0, <2>1, <2>3 DEF VmList, VmFiles, Handling, Continue, Handler
  <2> QED
    BY <1>1, <1>9, <2>2, <2>3
<1>10. CASE TakeInsert(r) \/ RestoreBoot(r) \/ DeleteRow(r) \/ VmJail(r) \/ Dropped(r)
  BY <1>1, <1>10 DEF TakeInsert, RestoreBoot, DeleteRow, VmJail, Dropped
<1> QED
  BY <1>2, <1>3, <1>4, <1>5, <1>6, <1>7, <1>8, <1>9, <1>10 DEF Acts, Step

\* Every request under way goes on holding it, whatever others remove.
LEMMA HoldStep == IInv /\ [Next]_vars => RequestsHold'
<1> SUFFICES ASSUME IInv, [Next]_vars, NEW q \in Requests, req'[q] # None
             PROVE  Holds(q)'
  BY DEF RequestsHold
<1>0. TypeOK /\ RequestsHold /\ IdsApart
  BY DEF IInv
<1>1. CASE req'[q] = req[q]
  <2>1. Holds(q) /\ req[q] # None
    BY <1>0, <1>1 DEF RequestsHold
  <2>2. status = "gone" => status' = "gone"
    BY <1>0, GoneStays
  <2>3. ASSUME req[q].at \in {"resume", "put", "insert"}, req[q].ok, status' # "gone"
        PROVE  req[q].snap \in files' \cup cleaned'
    <3>1. req[q].snap \in files \cup cleaned
      BY <2>1, <2>2, <2>3 DEF Holds
    <3>2. \A r \in Requests : req[q].snap \notin Victims(r)
      BY <1>0, <2>1, <2>3 DEF IdsApart, Taking, Counted
    <3> QED
      BY <2>3, <3>1, <3>2, FilesKept
  <2> QED
    BY <1>1, <2>1, <2>2, <2>3 DEF Holds
<1>2. ASSUME NEW r \in Requests, Acts(r) PROVE Holds(q)'
  <2>1. CASE q = r
    BY <1>2, <2>1, OwnHolds
  <2>2. CASE q # r
    BY <1>0, <1>1, <1>2, <2>2, OthersKept
  <2> QED
    BY <2>1, <2>2
<1>3. CASE Stop \/ Start \/ Refer \/ UNCHANGED vars
  BY <1>1, <1>3 DEF Stop, Start, Refer, vars
<1>4. CASE AgentRestart
  BY <1>4 DEF AgentRestart
<1> QED
  BY <1>2, <1>3, <1>4 DEF Next, Acts

\* A row is inserted for a snapshot whose files are complete, and they stay until
\* a deletion is under way, which either gets to the row or is left before it.
LEMMA ListedStep == IInv /\ [Next]_vars => ListedHasFiles'
<1> SUFFICES ASSUME IInv, [Next]_vars, NEW s \in rows', s \notin files', s \notin cleaned',
                    s \notin half'
             PROVE  \E q \in Requests : s \in Deleting(q)'
  BY DEF ListedHasFiles
<1>0. TypeOK /\ RequestsHold /\ RowsOfGone
  BY DEF IInv
<1>1. s \in rows => s \in files \cup cleaned \cup half \/ \E q \in Requests : s \in Deleting(q)
  BY DEF IInv, ListedHasFiles
<1>2. CASE Stop \/ Start \/ Refer \/ UNCHANGED vars
  <2>1. UNCHANGED <<rows, req, half>> /\ files \cup cleaned \subseteq files' \cup cleaned'
    BY <1>2 DEF Stop, Start, Refer, Jail, vars, snapVars
  <2> QED
    BY <1>1, <2>1 DEF Deleting
<1>3. CASE AgentRestart
  <2>1. /\ UNCHANGED <<rows, files, cleaned>> /\ half \subseteq half'
        /\ \A q \in Requests : rows \cap Deleting(q) \subseteq half'
    BY <1>3 DEF AgentRestart
  <2> QED
    BY <1>1, <2>1
<1>4. ASSUME NEW r \in Requests, Acts(r) PROVE \E q \in Requests : s \in Deleting(q)'
  <2>0. req \in [Requests -> Handler \cup {None}]
    BY <1>0 DEF TypeOK
  <2>1. \A q \in Requests \ {r} : Deleting(q)' = Deleting(q)
    BY <1>0, <1>4, OthersKept DEF Deleting
  <2>2. CASE TakeInsert(r)
    <3>1. /\ UNCHANGED <<files, cleaned, half>> /\ Deleting(r) = {}
          /\ \/ rows' = rows
             \/ rows' \subseteq rows \cup {req[r].snap} /\ status # "gone" /\ req[r].ok
      BY <2>2 DEF TakeInsert, Handling, Deleting
    <3>2. req[r].ok /\ status # "gone" => req[r].snap \in files \cup cleaned
      BY <1>0, <2>2 DEF TakeInsert, Handling, RequestsHold, Holds
    <3> QED
      BY <1>1, <2>1, <3>1, <3>2
  <2>3. CASE DeleteFiles(r)
    <3>1. /\ Deleting(r) = {} /\ Deleting(r)' = {req[r].snap}
          /\ files \subseteq files' \cup {req[r].snap} /\ UNCHANGED <<rows, cleaned, half>>
      BY <2>0, <2>3, NoneAssumption
      DEF DeleteFiles, Unlink, Handling, Continue, Handler, Deleting
    <3> QED
      BY <1>1, <2>1, <3>1
  <2>4. CASE DeleteRow(r)
    <3>1. /\ rows' = rows \ {req[r].snap} /\ half' = half \ {req[r].snap}
          /\ cleaned' = cleaned \ {req[r].snap} /\ files' = files
          /\ Deleting(r) = {req[r].snap}
      BY <2>4 DEF DeleteRow, Deleting, Handling
    <3> QED
      BY <1>1, <2>1, <3>1
  <2>5. CASE VmFiles(r)
    <3>1. /\ Deleting(r) = {} /\ Deleting(r)' = req[r].list
          /\ files \subseteq files' \cup req[r].list /\ UNCHANGED <<rows, cleaned, half>>
      BY <2>0, <2>5, NoneAssumption
      DEF VmFiles, Unlink, Handling, Continue, Handler, Deleting
    <3> QED
      BY <1>1, <2>1, <3>1
  <2>6. CASE VmRow(r)
    <3>1. CASE rows' = {}
      BY <3>1
    <3>2. CASE rows' = rows /\ half' = half \cup (rows \cap Deleting(r))
      <4>1. UNCHANGED <<files, cleaned>>
        BY <2>6 DEF VmRow
      <4> QED
        BY <1>1, <2>1, <3>2, <4>1
    <3> QED
      BY <2>6, <3>1, <3>2 DEF VmRow
  <2>7. CASE VmJail(r)
    <3>1. rows' = {}
      BY <1>0, <2>7 DEF VmJail, Handling, RequestsHold, Holds, RowsOfGone
    <3> QED
      BY <3>1
  <2>8. CASE Dropped(r)
    <3>1. /\ UNCHANGED <<rows, files, cleaned>>
          /\ half' = half \cup (rows \cap Deleting(r))
      BY <2>8 DEF Dropped
    <3> QED
      BY <1>1, <2>1, <3>1
  <2>9. CASE ~TakeInsert(r) /\ ~DeleteFiles(r) /\ ~DeleteRow(r) /\ ~VmFiles(r) /\ ~VmRow(r)
             /\ ~VmJail(r) /\ ~Dropped(r)
    <3>1. /\ UNCHANGED <<rows, half>> /\ files \cup cleaned \subseteq files' \cup cleaned'
          /\ Deleting(r) = {}
      BY <1>4, <2>9 DEF Acts, TakeRead, RestoreRead, DeleteRead, VmRead, Step,
              TakeCount, TakeHandle, TakePause, TakeCreate, TakeFails, TakeResume,
              TakeResumeFails, TakeGivesUp, TakePut, RestoreBoot,
              VmList, Jail, snapVars, Deleting, Handling, Accept
    <3> QED
      BY <1>1, <2>1, <3>1
  <2> QED
    BY <2>2, <2>3, <2>4, <2>5, <2>6, <2>7, <2>8, <2>9
<1> QED
  BY <1>2, <1>3, <1>4 DEF Next, Acts

\* delete_vm removes the jail last, and a file that is written after the row is
\* gone needs the jail.
LEMMA JailStep == IInv /\ [Next]_vars => JailCleared'
<1> SUFFICES ASSUME IInv, [Next]_vars, status' = "gone", "jail" \notin faults',
                    ~Cleaning'
             PROVE  files' = {}
  BY DEF JailCleared
<1>0. TypeOK /\ JailCleared
  BY DEF IInv
<1>1. CASE Stop \/ Start
  BY <1>1 DEF Stop, Start
<1>2. CASE Refer \/ UNCHANGED vars
  BY <1>0, <1>2 DEF Refer, vars, snapVars, JailCleared, Cleaning, Handling
<1>3. CASE AgentRestart
  <2>1. status = "gone" /\ "jail" \notin faults /\ files' = files
    BY <1>3 DEF AgentRestart
  <2>2. ASSUME NEW q \in Requests, Handling(q, "vmjail") PROVE FALSE
    BY <1>3, <2>2 DEF AgentRestart, Handling, Left
  <2> QED
    BY <1>0, <2>1, <2>2 DEF JailCleared, Cleaning
<1>4. ASSUME NEW r \in Requests, Acts(r) PROVE files' = {}
  <2>1. ASSUME NEW q \in Requests, q # r PROVE ~Handling(q, "vmjail")
    BY <1>0, <1>4, <2>1, OthersKept DEF Cleaning, Handling
  <2>2. CASE VmJail(r)
    BY <2>2 DEF VmJail, Unlink
  <2>3. CASE VmRow(r)
    <3>1. CASE Continue(r, "vmjail")
      <4>1. req'[r] # None /\ req'[r].at = "vmjail"
        BY <1>0, <2>3, <3>1, NoneAssumption DEF VmRow, TypeOK, Handling, Continue, Handler
      <4> QED
        BY <4>1 DEF Cleaning, Handling
    <3>2. CASE UNCHANGED status
      BY <1>0, <2>1, <2>3, <3>2 DEF VmRow, JailCleared, Cleaning, Handling
    <3> QED
      BY <2>3, <3>1, <3>2 DEF VmRow
  <2>4. CASE Dropped(r)
    BY <1>0, <2>1, <2>4 DEF Dropped, Left, JailCleared, Cleaning, Handling, vmVars, snapVars
  <2>5. CASE ~VmJail(r) /\ ~VmRow(r) /\ ~Dropped(r)
    <3>1. /\ ~Handling(r, "vmjail") /\ status = "gone" /\ "jail" \notin faults
          /\ files' \subseteq files \/ (TakeCreate(r) /\ JailExists)
      BY <1>4, <2>5 DEF Acts, TakeRead, RestoreRead, DeleteRead, VmRead, Step,
              TakeCount, TakeHandle, TakePause, TakeCreate, TakeFails, TakeResume,
              TakeResumeFails, TakeGivesUp, TakePut, TakeInsert, RestoreBoot,
              DeleteFiles, DeleteRow, VmList, VmFiles, Unlink, Unresumed, Jail, snapVars, vmVars,
              Accept, Handling
    <3>2. ~Cleaning
      BY <2>1, <3>1 DEF Cleaning
    <3> QED
      BY <1>0, <3>1, <3>2 DEF JailCleared, JailExists, Cleaning
  <2> QED
    BY <2>2, <2>3, <2>4, <2>5
<1> QED
  BY <1>1, <1>2, <1>3, <1>4 DEF Next, Acts

\* A guest is left paused by a request that may still resume it, or for a reason
\* that `faults` names.
LEMMA PausedStep == IInv /\ [Next]_vars => PausedIsResumed'
<1> SUFFICES ASSUME IInv, [Next]_vars, guest' = "paused", "paused" \notin faults'
             PROVE  \E r \in Requests :
                      req'[r] # None /\ req'[r].at \in {"create", "resume", "failed"}
  BY DEF PausedIsResumed
<1> DEFINE Resuming(r) == req[r] # None /\ req[r].at \in {"create", "resume", "failed"}
<1>0. /\ TypeOK
      /\ guest = "paused" /\ "paused" \notin faults => \E r \in Requests : Resuming(r)
  BY DEF IInv, PausedIsResumed
<1>1. CASE Stop \/ Start
  BY <1>1 DEF Stop, Start
<1>2. CASE Refer \/ UNCHANGED vars
  BY <1>0, <1>2 DEF Refer, vars, snapVars
<1>3. CASE AgentRestart
  <2>1. guest = "paused" /\ "paused" \notin faults
    BY <1>3 DEF AgentRestart
  <2>2. ASSUME NEW q \in Requests, Resuming(q) PROVE FALSE
    BY <1>3, <2>1, <2>2 DEF AgentRestart, Left
  <2> QED
    BY <1>0, <2>1, <2>2
<1>4. ASSUME NEW r \in Requests, Acts(r)
      PROVE  \E q \in Requests : Resuming(q)'
  <2>1. ASSUME NEW q \in Requests, q # r, Resuming(q) PROVE Resuming(q)'
    BY <1>0, <1>4, <2>1, OthersKept
  <2>2. CASE TakePause(r) \/ TakeCreate(r) \/ TakeFails(r)
    BY <1>0, <2>2, NoneAssumption
    DEF TakePause, TakeCreate, TakeFails, TypeOK, Handling, Continue, Handler
  <2>3. CASE TakeResume(r) \/ TakeGivesUp(r) \/ TakeResumeFails(r)
    BY <2>3 DEF TakeResume, TakeGivesUp, TakeResumeFails, Resumed, Unresumed
  <2>4. CASE Dropped(r)
    <3>1. guest = "paused" /\ "paused" \notin faults /\ ~Resuming(r)
      BY <2>4 DEF Dropped, Left, vmVars
    <3> QED
      BY <1>0, <2>1, <3>1
  <2>5. CASE ~TakePause(r) /\ ~TakeCreate(r) /\ ~TakeFails(r) /\ ~TakeResume(r)
             /\ ~TakeGivesUp(r) /\ ~TakeResumeFails(r) /\ ~Dropped(r)
    <3>1. guest = "paused" /\ "paused" \notin faults /\ ~Resuming(r)
      BY <1>4, <2>5 DEF Acts, TakeRead, RestoreRead, DeleteRead, VmRead, Step,
              TakeCount, TakeHandle, TakePut, TakeInsert, RestoreBoot,
              DeleteFiles, DeleteRow, VmList, VmFiles, VmRow, VmJail, Accept, Handling
    <3> QED
      BY <1>0, <2>1, <3>1
  <2> QED
    BY <2>2, <2>3, <2>4, <2>5
<1> QED
  BY <1>1, <1>2, <1>3, <1>4 DEF Next, Acts

\* A request that counts the rows adds at most itself to those past their count,
\* and its insert turns a request past its count into a row.
LEMMA LimitStep == IInv /\ [Next]_vars => LimitShared'
<1> SUFFICES ASSUME IInv, [Next]_vars PROVE LimitShared'
  OBVIOUS
<1>0. TypeOK /\ LimitShared /\ req \in [Requests -> Handler \cup {None}]
  BY DEF IInv, TypeOK
<1>1. /\ Cardinality(Requests) \in Nat
      /\ \A S \in SUBSET Requests : /\ IsFiniteSet(S) /\ Cardinality(S) \in Nat
                                    /\ Cardinality(S) =< Cardinality(Requests)
  BY RequestsAssumption, FS_Subset, FS_CardinalityType
<1>2. PastCount \in SUBSET Requests /\ PastCount' \in SUBSET Requests
  BY DEF PastCount
<1>3. IsFiniteSet(rows) /\ Cardinality(rows) \in Nat
  BY <1>0, FS_CardinalityType DEF LimitShared
<1>4. ASSUME rows' \subseteq rows, PastCount' \subseteq PastCount PROVE LimitShared'
  <2>1. /\ IsFiniteSet(rows') /\ Cardinality(rows') \in Nat
        /\ Cardinality(rows') =< Cardinality(rows)
    BY <1>3, <1>4, FS_Subset, FS_CardinalityType
  <2>2. Cardinality(PastCount') =< Cardinality(PastCount)
    BY <1>1, <1>2, <1>4, FS_Subset
  <2> QED
    BY <1>0, <1>1, <1>2, <1>3, <2>1, <2>2, LimitAssumption DEF LimitShared
<1>5. ASSUME NEW r \in Requests, TakeCount(r) PROVE LimitShared'
  <2>1. CASE Answer(r)
    BY <1>0, <1>4, <1>5, <2>1 DEF TakeCount, Answer, PastCount
  <2>2. CASE Cardinality(rows) < Limit
    <3>1. rows' = rows
      BY <1>5 DEF TakeCount
    <3>2. Cardinality(PastCount') \in Nat /\ Cardinality(PastCount') =< Cardinality(Requests)
      BY <1>1, <1>2
    <3> QED
      BY <1>1, <1>3, <2>2, <3>1, <3>2, LimitAssumption DEF LimitShared
  <2> QED
    BY <1>5, <2>1, <2>2 DEF TakeCount
<1>6. ASSUME NEW r \in Requests, TakeInsert(r) PROVE LimitShared'
  <2>1. r \in PastCount /\ PastCount' \subseteq PastCount \ {r}
    BY <1>0, <1>6 DEF TakeInsert, Handling, Answer, PastCount, Counted
  <2>2. rows' \subseteq rows \cup {req[r].snap}
    BY <1>6 DEF TakeInsert
  <2>3. /\ IsFiniteSet(PastCount \ {r}) /\ Cardinality(PastCount') \in Nat
        /\ Cardinality(PastCount \ {r}) = Cardinality(PastCount) - 1
        /\ Cardinality(PastCount') =< Cardinality(PastCount \ {r})
    <3>1. IsFiniteSet(PastCount)
      BY <1>1, <1>2
    <3>2. /\ IsFiniteSet(PastCount \ {r})
          /\ Cardinality(PastCount \ {r}) = Cardinality(PastCount) - 1
      BY <2>1, <3>1, FS_RemoveElement
    <3> QED
      BY <1>1, <1>2, <2>1, <3>2, FS_Subset
  <2>4. /\ IsFiniteSet(rows') /\ Cardinality(rows') \in Nat
        /\ Cardinality(rows') =< Cardinality(rows) + 1
    <3>1. /\ IsFiniteSet(rows \cup {req[r].snap})
          /\ Cardinality(rows \cup {req[r].snap}) =
               IF req[r].snap \in rows THEN Cardinality(rows) ELSE Cardinality(rows) + 1
      BY <1>3, FS_AddElement
    <3>2. /\ IsFiniteSet(rows')
          /\ Cardinality(rows') =< Cardinality(rows \cup {req[r].snap})
      BY <2>2, <3>1, FS_Subset
    <3>3. Cardinality(rows') \in Nat
      BY <3>2, FS_CardinalityType
    <3> QED
      BY <1>3, <3>1, <3>2, <3>3
  <2>5. Cardinality(PastCount) \in Nat
    BY <1>1, <1>2
  <2> QED
    BY <1>0, <1>1, <1>3, <2>3, <2>4, <2>5, LimitAssumption DEF LimitShared
<1>7. ASSUME NEW r \in Requests, Acts(r), ~TakeCount(r), ~TakeInsert(r)
      PROVE  rows' \subseteq rows /\ PastCount' \subseteq PastCount
  <2>1. rows' \subseteq rows
    BY <1>7 DEF Acts, TakeRead, RestoreRead, DeleteRead, VmRead, Step, Dropped,
              TakeHandle, TakePause, TakeCreate, TakeFails, TakeResume,
              TakeResumeFails, TakeGivesUp, TakePut, RestoreBoot,
              DeleteFiles, DeleteRow, VmList, VmFiles, VmRow, VmJail, snapVars
  <2>2. r \in PastCount' => r \in PastCount
    BY <1>0, <1>7 DEF PastCount, Counted, Acts, TakeRead, RestoreRead, DeleteRead, VmRead,
              Step, Dropped, TakeHandle, TakePause, TakeCreate, TakeFails, TakeResume,
              TakeResumeFails, TakeGivesUp, TakePut, RestoreBoot,
              DeleteFiles, DeleteRow, VmList, VmFiles, VmRow, VmJail,
              Accept, Continue, Answer, Handling, Handler
  <2>3. ASSUME NEW q \in PastCount', q # r PROVE q \in PastCount
    BY <1>0, <1>7, <2>3, OthersKept DEF PastCount
  <2> QED
    BY <2>1, <2>2, <2>3
<1>8. CASE Stop \/ Start \/ Refer \/ AgentRestart \/ UNCHANGED vars
  <2>1. rows' \subseteq rows /\ PastCount' \subseteq PastCount
    BY <1>8 DEF Stop, Start, Refer, AgentRestart, vars, snapVars, PastCount
  <2> QED
    BY <1>4, <2>1
<1> QED
  BY <1>4, <1>5, <1>6, <1>7, <1>8 DEF Next, Acts

\* The invariant holds in every state the program reaches.
LEMMA Invariant == Spec => []IInv
<1>1. IInv /\ [Next]_vars => IInv'
  BY TypeStep, IdStep, GoneStep, HoldStep, ListedStep, JailStep, PausedStep, LimitStep DEF IInv
<1> QED
  BY <1>1, InitInv, PTL DEF Spec

\* The variables keep their types.
THEOREM TypeCorrect == Spec => []TypeOK
<1>1. IInv => TypeOK
  BY DEF IInv
<1> QED
  BY <1>1, Invariant, PTL

\* However many requests take snapshots at once, the rows exceed the limit by
\* fewer than there are requests (snapshot.rs take_snapshot counts the rows long
\* before it inserts its own).
THEOREM LimitKept == Spec => []LimitUpToOverlap
<1>1. IInv => LimitUpToOverlap
  <2> SUFFICES ASSUME IInv PROVE LimitUpToOverlap
    OBVIOUS
  <2>1. PastCount \subseteq Requests /\ LimitShared
    BY DEF IInv, PastCount
  <2>2. /\ Cardinality(PastCount) \in Nat /\ Cardinality(rows) \in Nat
        /\ Cardinality(Requests) \in Nat
    BY <2>1, RequestsAssumption, FS_Subset, FS_CardinalityType DEF LimitShared
  <2> QED
    BY <2>1, <2>2, LimitAssumption DEF LimitShared, LimitUpToOverlap
<1> QED
  BY <1>1, Invariant, PTL

\* A listed snapshot is without its files only while its deletion is under way or
\* because one was left there, or because fctools took them with the jail when
\* the VM was stopped or started, whatever fails between the pause and the insert
\* and however the agent restarts (snapshot.rs take_snapshot, delete_snapshot).
THEOREM ListedComplete == Spec => []ListedHasFiles
<1>1. IInv => ListedHasFiles
  BY DEF IInv
<1> QED
  BY <1>1, Invariant, PTL

\* A deleted VM leaves no snapshot file unless delete_vm's last step failed or was
\* not reached, although a snapshot may be under way (manager/mod.rs delete_vm).
THEOREM DeletedLeavesNothing == Spec => []GoneLeavesNothing
<1>1. IInv => GoneLeavesNothing
  BY DEF IInv, JailCleared, Cleaning, Handling, GoneLeavesNothing
<1> QED
  BY <1>1, Invariant, PTL

\* Whatever pauses a guest also resumes it, but for the two ways `faults` names
\* (snapshot.rs take_snapshot).
THEOREM PausesEnd == Spec => []PausedIsResumed
<1>1. IInv => PausedIsResumed
  BY DEF IInv
<1> QED
  BY <1>1, Invariant, PTL

=============================================================================
