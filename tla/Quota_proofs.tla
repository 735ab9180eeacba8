---------------------------- MODULE Quota_proofs ----------------------------
(***************************************************************************)
(* Proofs about Quota, for any number of VMs, requests, sizes and limits:  *)
(* type correctness, AdmittedFit, and the refinement of QuotaLedger.       *)
(*                                                                         *)
(* What is granted is what counts: a VM without a reason to use more was   *)
(* granted all that its row has (InFull), since the demand its start read  *)
(* is not outgrown (DemandsCover).  That the grants fit (GrantsFit) is not *)
(* inductive.  What makes it so is PendingFit: a transaction that may      *)
(* still commit would fit beside the present grants, since these only      *)
(* shrink until another reservation commits, and then it is stale.         *)
(***************************************************************************)
EXTENDS Quota, FiniteSetTheorems, TLAPS

\* The types of everything but the reasons to use more.
Typed ==
    /\ status \in [VMs -> Status]
    /\ size \in [VMs -> Demand]
    /\ grant \in [VMs -> Demand]
    /\ req \in [Requests -> Request]
    /\ \A r \in Requests : req[r].pc # "idle" => req[r].vm \in VMs

HistoryTyped == over \in [VMs -> Excess] /\ outgrown \subseteq Requests

(***************************************************************************)
(* Sums                                                                    *)
(***************************************************************************)

\* The units of a resource are finitely many.
LEMMA UnitsFinite ==
    ASSUME NEW f, NEW k
    PROVE  IsFiniteSet(Units(f, k)) /\ Total(f, k) \in Nat
<1>1. IsFiniteSet(VMs) /\ MaxUnits \in Nat
  BY UnitsAssumption
<1>2. IsFiniteSet(1..MaxUnits)
  BY <1>1, FS_Interval
<1>3. IsFiniteSet(VMs \X (1..MaxUnits))
  BY <1>1, <1>2, FS_Product
<1>4. Units(f, k) \subseteq VMs \X (1..MaxUnits)
  BY DEF Units
<1>5. IsFiniteSet(Units(f, k))
  BY <1>3, <1>4, FS_Subset
<1> QED
  BY <1>5, FS_CardinalityType DEF Total

\* Demands that are lower VM by VM have a lower sum.
LEMMA TotalMonotone ==
    ASSUME NEW f \in [VMs -> Demand], NEW g \in [VMs -> Demand],
           NEW k \in Resource, \A v \in VMs : f[v][k] <= g[v][k]
    PROVE  Total(f, k) <= Total(g, k)
<1>1. ASSUME NEW u \in VMs \X (1..MaxUnits), u[2] <= f[u[1]][k]
      PROVE  u[2] <= g[u[1]][k]
  <2>1. u[1] \in VMs /\ u[2] \in 1..MaxUnits
    BY <1>1
  <2>2. f[u[1]][k] \in 0..MaxUnits /\ g[u[1]][k] \in 0..MaxUnits
    BY <2>1 DEF Demand
  <2>3. f[u[1]][k] <= g[u[1]][k]
    BY <2>1
  <2> QED
    BY <1>1, <2>1, <2>2, <2>3, UnitsAssumption
<1>2. Units(f, k) \subseteq Units(g, k)
  BY <1>1 DEF Units
<1> QED
  BY <1>2, UnitsFinite, FS_Subset DEF Total

\* One VM's demand replaced: the sum grows by the new demand at most.
LEMMA TotalReplace ==
    ASSUME NEW f \in [VMs -> Demand], NEW v \in VMs, NEW d \in Demand,
           NEW k \in Resource
    PROVE  Total([f EXCEPT ![v] = d], k) <= Total(f, k) + d[k]
<1> DEFINE g == [f EXCEPT ![v] = d]
           own == {v} \X (1..d[k])
<1>1. d[k] \in 0..MaxUnits /\ MaxUnits \in Nat
  BY UnitsAssumption DEF Demand
<1>2. IsFiniteSet(1..d[k]) /\ Cardinality(1..d[k]) = d[k]
  <2>1. 1 \in Int /\ d[k] \in Int /\ d[k] \in Nat
    BY <1>1
  <2>2. /\ IsFiniteSet(1..d[k])
        /\ Cardinality(1..d[k]) = IF 1 > d[k] THEN 0 ELSE d[k] - 1 + 1
    BY <2>1, FS_Interval, Zenon
  <2> HIDE DEF own, g
  <2> QED
    BY <2>1, <2>2, SMT
<1>3. IsFiniteSet(own) /\ Cardinality(own) = d[k]
  <2>1. IsFiniteSet({v}) /\ Cardinality({v}) = 1
    BY FS_Singleton
  <2>2. /\ IsFiniteSet(own)
        /\ Cardinality(own) = Cardinality({v}) * Cardinality(1..d[k])
    BY <1>2, <2>1, FS_Product, Zenon
  <2> HIDE DEF own
  <2>3. Cardinality(own) = 1 * d[k]
    BY <1>2, <2>1, <2>2, Zenon
  <2> QED
    BY <1>1, <2>2, <2>3
<1>4. Units(g, k) \subseteq Units(f, k) \cup own
  <2>1. SUFFICES ASSUME NEW w \in VMs, NEW n \in 1..MaxUnits, n <= g[w][k]
                 PROVE  <<w, n>> \in Units(f, k) \cup own
    BY DEF Units
  <2>2. CASE w = v
    BY <1>1, <2>1, <2>2
  <2>3. CASE w # v
    BY <2>1, <2>3 DEF Units
  <2> QED
    BY <2>2, <2>3
<1>5. Cardinality(Units(f, k) \cup own) <= Total(f, k) + d[k]
  <2>1. /\ IsFiniteSet(Units(f, k) \cup own)
        /\ Cardinality(Units(f, k) \cup own) =
             Cardinality(Units(f, k)) + Cardinality(own)
               - Cardinality(Units(f, k) \cap own)
    BY <1>3, UnitsFinite, FS_Union
  <2>2. Cardinality(Units(f, k) \cap own) \in Nat
    BY UnitsFinite, FS_Intersection, FS_CardinalityType
  <2>3. Total(f, k) \in Nat
    BY UnitsFinite
  <2> QED
    BY <1>1, <1>3, <2>1, <2>2, <2>3 DEF Total
<1>6. Total(g, k) <= Cardinality(Units(f, k) \cup own)
  BY <1>3, <1>4, UnitsFinite, FS_Union, FS_Subset DEF Total
<1>7. /\ Total(g, k) \in Nat /\ Total(f, k) \in Nat
      /\ Cardinality(Units(f, k) \cup own) \in Nat
  BY <1>3, UnitsFinite, FS_Union, FS_CardinalityType
<1> QED
  BY <1>1, <1>5, <1>6, <1>7

\* Lowering demands keeps them within the limits.
LEMMA FitsMonotone ==
    ASSUME NEW f \in [VMs -> Demand], NEW g \in [VMs -> Demand], Fits(g),
           \A v \in VMs, k \in Resource : f[v][k] <= g[v][k]
    PROVE  Fits(f)
<1> SUFFICES ASSUME NEW k \in Resource PROVE Total(f, k) <= Limit[k]
  BY DEF Fits
<1>1. Total(f, k) <= Total(g, k)
  BY TotalMonotone
<1>2. Total(f, k) \in Nat /\ Total(g, k) \in Nat /\ Limit[k] \in Nat
  BY UnitsFinite, UnitsAssumption
<1> QED
  BY <1>1, <1>2 DEF Fits

\* Nothing is a demand and Lower is one, below both of its arguments.
LEMMA LowerFacts ==
    /\ Nothing \in Demand
    /\ \A d, e \in Demand :
         /\ Lower(d, e) \in Demand
         /\ \A k \in Resource :
              Lower(d, e)[k] <= d[k] /\ Lower(d, e)[k] <= e[k]
         /\ Lower(d, Nothing) = Nothing
<1>1. MaxUnits \in Nat
  BY UnitsAssumption
<1>2. Nothing \in Demand
  BY <1>1 DEF Nothing, Demand
<1>3. ASSUME NEW d \in Demand, NEW e \in Demand
      PROVE  /\ Lower(d, e) \in Demand
             /\ \A k \in Resource :
                  Lower(d, e)[k] <= d[k] /\ Lower(d, e)[k] <= e[k]
             /\ Lower(d, Nothing) = Nothing
  <2>1. \A k \in Resource : d[k] \in 0..MaxUnits /\ e[k] \in 0..MaxUnits
    BY DEF Demand
  <2>2. Lower(d, e) \in Demand
    BY <1>1, <2>1 DEF Lower, Demand
  <2>3. \A k \in Resource :
          Lower(d, e)[k] <= d[k] /\ Lower(d, e)[k] <= e[k]
    BY <1>1, <2>1 DEF Lower
  <2>4. Lower(d, Nothing) = Nothing
    BY <1>1, <2>1 DEF Lower, Nothing
  <2> QED
    BY <2>2, <2>3, <2>4
<1> QED
  BY <1>2, <1>3

(***************************************************************************)
(* Type correctness                                                        *)
(***************************************************************************)

\* Requests start, and rest, well typed.
LEMMA RequestTypes ==
    /\ Idle \in Request /\ Idle.pc = "idle"
    /\ \A p \in Points, v \in VMs, d \in Demand, n \in 0..2 :
         /\ Fresh(p, v, d, n) \in Request
         /\ Fresh(p, v, d, n).pc = p
         /\ Fresh(p, v, d, n).vm = v
<1>1. Idle \in Request /\ Idle.pc = "idle"
  BY LowerFacts DEF Request, Idle, Fresh, Points
<1> QED
  BY <1>1 DEF Fresh, Request

\* A request that moves on keeps everything but its point.
LEMMA EnteringTypes ==
    ASSUME NEW q \in Request, NEW p \in Points
    PROVE  /\ Entering(q, p) \in Request
           /\ Entering(q, p).pc = p
           /\ Entering(q, p).vm = q.vm
           /\ Entering(q, p).want = q.want
           /\ Entering(q, p).seen = q.seen
BY DEF Request, Entering

\* A transaction that notices a write is only marked.
LEMMA MarkTypes ==
    ASSUME NEW q \in Request, NEW v
    PROVE  /\ Overwritten(q) \in Request
           /\ Overwritten(q).pc = q.pc
           /\ Overwritten(q).vm = q.vm
           /\ Overwritten(q).want = q.want
           /\ Overwritten(q).seen = q.seen \cup {"row"}
           /\ Outrun(q, v) \in Request
           /\ Outrun(q, v).pc = q.pc
           /\ Outrun(q, v).vm = q.vm
           /\ Outrun(q, v).want = q.want
           /\ "reservation" \in Outrun(q, v).seen
<1>1. /\ Overwritten(q) \in Request
      /\ Overwritten(q).pc = q.pc
      /\ Overwritten(q).vm = q.vm
      /\ Overwritten(q).want = q.want
      /\ Overwritten(q).seen = q.seen \cup {"row"}
  BY DEF Request, Overwritten, Conflict
<1>2. /\ Outrun(q, v) \in Request
      /\ Outrun(q, v).pc = q.pc
      /\ Outrun(q, v).vm = q.vm
      /\ Outrun(q, v).want = q.want
      /\ "reservation" \in Outrun(q, v).seen
  BY DEF Request, Outrun, Conflict
<1> QED
  BY <1>1, <1>2

\* What is true of every request, by type.
LEMMA RequestParts ==
    ASSUME Typed, NEW r \in Requests
    PROVE  /\ req[r] \in Request
           /\ req[r].want \in Demand
           /\ req[r].pc # "idle" => req[r].vm \in VMs
BY DEF Typed, Request

\* A plain write marks the transactions on its row, and no more.
LEMMA MovedTypes ==
    ASSUME Typed, NEW v \in VMs
    PROVE  /\ Moved(v) \in [Requests -> Request]
           /\ \A q \in Requests : /\ Moved(v)[q].pc = req[q].pc
                                  /\ Moved(v)[q].vm = req[q].vm
                                  /\ Moved(v)[q].want = req[q].want
                                  /\ "reservation" \in Moved(v)[q].seen
                                     <=> "reservation" \in req[q].seen
<1>1. ASSUME NEW q \in Requests
      PROVE  /\ Moved(v)[q] \in Request
             /\ Moved(v)[q].pc = req[q].pc
             /\ Moved(v)[q].vm = req[q].vm
             /\ Moved(v)[q].want = req[q].want
             /\ "reservation" \in Moved(v)[q].seen
                                     <=> "reservation" \in req[q].seen
  <2>1. Moved(v)[q] = req[q] \/ Moved(v)[q] = Overwritten(req[q])
    BY DEF Moved
  <2> QED
    BY <2>1, RequestParts, MarkTypes
<1>2. Moved(v) = [q \in Requests |-> Moved(v)[q]]
  BY DEF Moved
<1> QED
  BY <1>1, <1>2

\* A committed reservation makes every other transaction stale.
LEMMA OvertakenTypes ==
    ASSUME Typed, NEW r \in Requests
    PROVE  /\ Overtaken(r) \in [Requests -> Request]
           /\ Overtaken(r)[r] = Idle
           /\ \A q \in Requests \ {r} :
                /\ Overtaken(r)[q].pc = req[q].pc
                /\ Overtaken(r)[q].vm = req[q].vm
                /\ Overtaken(r)[q].want = req[q].want
                /\ InTransaction(q) => "reservation" \in Overtaken(r)[q].seen
<1>1. Overtaken(r)[r] = Idle
  BY DEF Overtaken
<1>2. ASSUME NEW q \in Requests \ {r}
      PROVE  /\ Overtaken(r)[q] \in Request
             /\ Overtaken(r)[q].pc = req[q].pc
             /\ Overtaken(r)[q].vm = req[q].vm
             /\ Overtaken(r)[q].want = req[q].want
             /\ InTransaction(q) => "reservation" \in Overtaken(r)[q].seen
  <2>1. CASE InTransaction(q)
    <3>1. Overtaken(r)[q] = Outrun(req[q], req[r].vm)
      BY <2>1 DEF Overtaken
    <3>2. req[q] \in Request
      BY RequestParts
    <3> DEFINE o == Outrun(req[q], req[r].vm)
    <3>3. /\ o \in Request /\ o.pc = req[q].pc /\ o.vm = req[q].vm /\ o.want = req[q].want
          /\ "reservation" \in o.seen
      BY <3>2, MarkTypes
    <3> HIDE DEF o
    <3> QED
      BY <3>1, <3>3 DEF o
  <2>2. CASE ~InTransaction(q)
    BY <2>2, RequestParts DEF Overtaken
  <2> QED
    BY <2>1, <2>2
<1>3. Overtaken(r) = [q \in Requests |-> Overtaken(r)[q]]
  BY DEF Overtaken
<1> QED
  BY <1>1, <1>2, <1>3, RequestTypes

\* A step that only changes where one request stands keeps the types.
LEMMA GotoTypes ==
    ASSUME Typed, UNCHANGED <<status, size, grant>>,
           NEW r \in Requests, NEW q \in Request,
           q.pc # "idle" => q.vm \in VMs,
           Goto(r, q)
    PROVE  Typed'
BY DEF Typed, Goto

\* The initial states are well typed.
LEMMA TypesInit == Init => Typed
<1>1. Nothing \in Demand /\ Sizes \subseteq Demand
  BY LowerFacts, QuotaAssumption
<1> QED
  BY <1>1, RequestTypes DEF Init, Typed, Status

\* Every step keeps the types.
LEMMA TypesStep == Typed /\ [Next]_vars => Typed'
<1> SUFFICES ASSUME Typed, [Next]_vars PROVE Typed'
  OBVIOUS
<1>1. ASSUME NEW r \in Requests, NEW v \in VMs, StartRead(r, v) PROVE Typed'
  <2>1. size[v] \in Demand /\ "begin" \in Points
    BY DEF Typed, Points
  <2> QED
    BY <1>1, <2>1, RequestTypes, GotoTypes DEF StartRead
<1>2. ASSUME NEW r \in Requests, NEW p \in Points, Advance(r, p),
             req[r].pc # "idle", UNCHANGED <<status, size, grant>>
      PROVE  Typed'
  BY <1>2, RequestParts, EnteringTypes, GotoTypes DEF Advance
<1>3. ASSUME NEW r \in Requests, Done(r), UNCHANGED <<status, size, grant>>
      PROVE  Typed'
  BY <1>3, RequestTypes, GotoTypes DEF Done
<1>4. ASSUME NEW r \in Requests, CheckQuota(r) PROVE Typed'
  BY <1>2, <1>3, <1>4 DEF CheckQuota, Points
<1>5. ASSUME NEW r \in Requests, UpdateRow(r) PROVE Typed'
  BY <1>2, <1>3, <1>5 DEF UpdateRow, Points
<1>6. ASSUME NEW r \in Requests, Commit(r) PROVE Typed'
  <2>1. req[r].vm \in VMs
    BY <1>6, RequestParts DEF Commit
  <2>2. Lower(req[r].want, size[req[r].vm]) \in Demand
    BY <2>1, RequestParts, LowerFacts DEF Typed
  <2>3. /\ status' \in [VMs -> Status] /\ grant' \in [VMs -> Demand]
        /\ size' \in [VMs -> Demand]
    BY <1>6, <2>1, <2>2 DEF Commit, Reserve, Typed, Status
  <2>4. req' = Overtaken(r)
    BY <1>6 DEF Commit, Reserve
  <2>5. \A q \in Requests : req'[q].pc # "idle" => req'[q].vm \in VMs
    <3>1. ASSUME NEW q \in Requests, q # r, req'[q].pc # "idle"
          PROVE  req'[q].vm \in VMs
      BY <2>4, <3>1, RequestParts, OvertakenTypes
    <3>2. req'[r].pc = "idle"
      BY <2>4, OvertakenTypes, RequestTypes
    <3> QED
      BY <3>1, <3>2
  <2>6. req' \in [Requests -> Request]
    BY <2>4, OvertakenTypes
  <2> QED
    BY <2>3, <2>5, <2>6 DEF Typed
<1>7. ASSUME NEW r \in Requests, CommitFails(r) PROVE Typed'
  <2>1. CASE req[r].tries = 2
    BY <1>3, <1>7, <2>1 DEF CommitFails
  <2>2. CASE req[r].tries # 2
    <3>1. Goto(r, Fresh("begin", req[r].vm, req[r].want, 2))
      BY <1>7, <2>2 DEF CommitFails
    <3>2. req[r].vm \in VMs /\ req[r].want \in Demand
      BY <1>7, RequestParts DEF CommitFails
    <3>3. "begin" \in Points
      BY DEF Points
    <3> QED
      BY <1>7, <3>1, <3>2, <3>3, RequestTypes, GotoTypes DEF CommitFails
  <2> QED
    BY <2>1, <2>2
<1>8. ASSUME NEW r \in Requests, Abort(r) PROVE Typed'
  BY <1>3, <1>8 DEF Abort
<1>9. ASSUME NEW r \in Requests, NEW v \in VMs, NEW d \in Sizes,
             ResizeRead(r, v, d)
      PROVE  Typed'
  <2>1. d \in Demand /\ "resize" \in Points
    BY QuotaAssumption DEF Points
  <2> QED
    BY <1>9, <2>1, RequestTypes, GotoTypes DEF ResizeRead
<1>10. ASSUME NEW r \in Requests, ResizeWrite(r) PROVE Typed'
  <2>1. req[r].vm \in VMs
    BY <1>10, RequestParts DEF ResizeWrite
  <2>2. Lower(grant[req[r].vm], req[r].want) \in Demand
    BY <2>1, RequestParts, LowerFacts DEF Typed
  <2>3. /\ status' \in [VMs -> Status] /\ grant' \in [VMs -> Demand]
        /\ size' \in [VMs -> Demand]
    BY <1>10, <2>1, <2>2, RequestParts DEF ResizeWrite, Typed
  <2>4. req' = [Moved(req[r].vm) EXCEPT ![r] = Idle]
    BY <1>10 DEF ResizeWrite
  <2>5. /\ req' \in [Requests -> Request]
        /\ \A q \in Requests : req'[q].pc # "idle" => req'[q].vm \in VMs
    BY <2>1, <2>4, RequestParts, MovedTypes, RequestTypes
  <2> QED
    BY <2>3, <2>5 DEF Typed
<1>11. ASSUME NEW v \in VMs, NEW s \in Status, StatusWrite(v, s) PROVE Typed'
  <2>1. /\ status' \in [VMs -> Status] /\ grant' \in [VMs -> Demand]
        /\ size' \in [VMs -> Demand]
    BY <1>11, LowerFacts DEF StatusWrite, Typed
  <2>2. /\ req' \in [Requests -> Request]
        /\ \A q \in Requests : req'[q].pc # "idle" => req'[q].vm \in VMs
    BY <1>11, RequestParts, MovedTypes DEF StatusWrite
  <2> QED
    BY <2>1, <2>2 DEF Typed
<1>12. CASE UNCHANGED vars
  BY <1>12 DEF vars, Typed
<1> QED
  BY <1>1, <1>4, <1>5, <1>6, <1>7, <1>8, <1>9, <1>10, <1>11, <1>12
     DEF Next, Start, Resize

\* So do the reasons to use more.
LEMMA HistoryStep == HistoryTyped /\ [Next]_vars => HistoryTyped'
<1> SUFFICES ASSUME HistoryTyped, [Next]_vars PROVE HistoryTyped'
  OBVIOUS
<1>1. /\ outgrown' \subseteq Requests
      /\ \/ over' = over
         \/ \E v \in VMs, x \in Excess : over' = [over EXCEPT ![v] = x]
         \/ \E v, x : over' = [over EXCEPT ![v] = x] /\ x \in Excess
  <2>1. CASE \E r \in Requests : Start(r)
    BY <2>1 DEF Start, StartRead, CheckQuota, UpdateRow, Commit, Reserve, CommitFails, Abort, Done,
       Advance, HistoryTyped, Excess, histories
  <2>2. CASE \E r \in Requests : Resize(r)
    <3>1. PICK r \in Requests : Resize(r)
      BY <2>2
    <3>2. CASE \E v \in VMs, d \in Sizes : ResizeRead(r, v, d)
      BY <3>2 DEF ResizeRead, HistoryTyped, histories
    <3>3. CASE ResizeWrite(r)
      <4> DEFINE v == req[r].vm
      <4>1. over' = [over EXCEPT ![v] = "grown"] \/ over' = [over EXCEPT ![v] = over[v]]
        BY <3>3 DEF ResizeWrite
      <4>2. over' = [over EXCEPT ![v] = "grown"] \/ over' = over
        BY <4>1 DEF HistoryTyped
      <4>3. outgrown' \subseteq Requests
        BY <3>3 DEF ResizeWrite, ReadersOf, HistoryTyped
      <4> QED
        BY <4>2, <4>3 DEF Excess
    <3> QED
      BY <3>1, <3>2, <3>3 DEF Resize
  <2>3. CASE \E v \in VMs, s \in Status : StatusWrite(v, s)
    BY <2>3 DEF StatusWrite, HistoryTyped, Excess
  <2>4. CASE UNCHANGED vars
    BY <2>4 DEF vars, histories, HistoryTyped
  <2> QED
    BY <2>1, <2>2, <2>3, <2>4 DEF Next
<1> QED
  BY <1>1 DEF HistoryTyped

\* Rows, requests and grants keep their types.
THEOREM TypeCorrect == Spec => []TypeOK
<1>1. Init => HistoryTyped
  BY DEF Init, HistoryTyped, Excess
<1>2. Typed /\ HistoryTyped => TypeOK
  BY DEF Typed, HistoryTyped, TypeOK
<1> QED
  BY <1>1, <1>2, TypesInit, TypesStep, HistoryStep, PTL DEF Spec

(***************************************************************************)
(* What is granted fits                                                    *)
(***************************************************************************)
GrantsFit == Fits(grant)

Covered == \A v \in VMs, k \in Resource : grant[v][k] <= size[v][k]

OnlyActive ==
    \A v \in VMs : status[v] \notin ActiveStatus => grant[v] = Nothing

PendingFit == \A r \in Requests :
    InTransaction(r) /\ "reservation" \notin req[r].seen
        => Fits([grant EXCEPT ![req[r].vm] = req[r].want])

FitInv == Typed /\ Covered /\ OnlyActive /\ PendingFit /\ GrantsFit

\* Where the grants shrink and no transaction gets further, what fits still
\* fits.
LEMMA ShrinkFits ==
    ASSUME FitInv, Typed',
           \A v \in VMs, k \in Resource : grant'[v][k] <= grant[v][k],
           \A r \in Requests : InTransaction(r)' =>
               /\ InTransaction(r) /\ "reservation" \notin req'[r].seen
                                      => "reservation" \notin req[r].seen
               /\ InTransaction(r)
               /\ req'[r].vm = req[r].vm /\ req'[r].want = req[r].want
    PROVE  PendingFit' /\ GrantsFit'
<1>1. grant \in [VMs -> Demand] /\ grant' \in [VMs -> Demand]
  BY DEF FitInv, Typed
<1>2. GrantsFit'
  BY <1>1, FitsMonotone DEF FitInv, GrantsFit
<1>3. ASSUME NEW r \in Requests, InTransaction(r)',
             "reservation" \notin req'[r].seen
      PROVE  Fits([grant' EXCEPT ![req'[r].vm] = req'[r].want])
  <2>1. /\ InTransaction(r) /\ "reservation" \notin req[r].seen
        /\ req'[r].vm = req[r].vm /\ req'[r].want = req[r].want
    BY <1>3
  <2>2. req[r].want \in Demand
    BY RequestParts DEF FitInv
  <2> DEFINE f == [grant' EXCEPT ![req[r].vm] = req[r].want]
             g == [grant EXCEPT ![req[r].vm] = req[r].want]
  <2>3. f \in [VMs -> Demand] /\ g \in [VMs -> Demand]
    BY <1>1, <2>2
  <2>4. Fits(g)
    BY <2>1 DEF FitInv, PendingFit
  <2>5. ASSUME NEW v \in VMs, NEW k \in Resource PROVE f[v][k] <= g[v][k]
    <3>1. CASE v = req[r].vm
      <4>1. f[v] = req[r].want /\ g[v] = req[r].want
        BY <1>1, <3>1
      <4>2. req[r].want[k] \in 0..MaxUnits
        BY <2>2 DEF Demand
      <4> QED
        BY <4>1, <4>2, UnitsAssumption
    <3>2. CASE v # req[r].vm
      BY <1>1, <3>2
    <3> QED
      BY <3>1, <3>2
  <2> HIDE DEF f, g
  <2>6. Fits(f)
    BY <2>3, <2>4, <2>5, FitsMonotone
  <2> QED
    BY <2>1, <2>6 DEF f
<1>4. PendingFit'
  BY <1>3 DEF PendingFit, InTransaction
<1> QED
  BY <1>2, <1>4

\* The check at the snapshot leaves room beside the grants, which cover no
\* more than the active rows do.
LEMMA RoomFits ==
    ASSUME FitInv, NEW v \in VMs, NEW d \in Demand, Room(d)
    PROVE  Fits([grant EXCEPT ![v] = d])
<1> SUFFICES ASSUME NEW k \in Resource
             PROVE  Total([grant EXCEPT ![v] = d], k) <= Limit[k]
  BY DEF Fits
<1>1. /\ grant \in [VMs -> Demand] /\ size \in [VMs -> Demand]
      /\ Used \in [VMs -> Demand]
  BY LowerFacts DEF FitInv, Typed, Used
<1>2. Total([grant EXCEPT ![v] = d], k) <= Total(grant, k) + d[k]
  BY <1>1, TotalReplace
<1>3. \A w \in VMs : grant[w][k] <= Used[w][k]
  <2> TAKE w \in VMs
  <2>1. CASE status[w] \in ActiveStatus
    BY <2>1 DEF Used, FitInv, Covered
  <2>2. CASE status[w] \notin ActiveStatus
    <3>1. grant[w] = Nothing /\ Used[w] = Nothing
      BY <2>2 DEF Used, FitInv, OnlyActive
    <3> QED
      BY <3>1 DEF Nothing
  <2> QED
    BY <2>1, <2>2
<1>4. Total(grant, k) <= Total(Used, k)
  BY <1>1, <1>3, TotalMonotone
<1>5. /\ Total([grant EXCEPT ![v] = d], k) \in Nat
      /\ Total(grant, k) \in Nat /\ Total(Used, k) \in Nat
      /\ d[k] \in Nat /\ Limit[k] \in Nat
  BY UnitsFinite, UnitsAssumption DEF Demand
<1>6. Total(Used, k) + d[k] <= Limit[k]
  BY DEF Room
<1> QED
  BY <1>2, <1>4, <1>5, <1>6

\* A step that only moves one request, and into a transaction only if it was
\* in one, keeps what fits.
LEMMA GotoFits ==
    ASSUME FitInv, Typed', UNCHANGED <<status, size, grant>>,
           NEW r \in Requests, NEW q \in Request, Goto(r, q),
           q.pc \in {"update", "commit"} =>
              /\ InTransaction(r) /\ q.seen = req[r].seen
              /\ q.vm = req[r].vm /\ q.want = req[r].want
    PROVE  FitInv'
<1>1. grant \in [VMs -> Demand] /\ req \in [Requests -> Request]
  BY DEF FitInv, Typed
<1>2. \A v \in VMs, k \in Resource : grant'[v][k] <= grant[v][k]
  BY <1>1, UnitsAssumption DEF Demand
<1>3. req' = [req EXCEPT ![r] = q]
  BY DEF Goto
<1>4. \A p \in Requests : InTransaction(p)' =>
        /\ InTransaction(p)
        /\ "reservation" \notin req'[p].seen
             => "reservation" \notin req[p].seen
        /\ req'[p].vm = req[p].vm /\ req'[p].want = req[p].want
  BY <1>1, <1>3 DEF InTransaction
<1>5. PendingFit' /\ GrantsFit'
  BY <1>2, <1>4, ShrinkFits
<1>6. Covered' /\ OnlyActive'
  BY DEF FitInv, Covered, OnlyActive
<1> QED
  BY <1>5, <1>6 DEF FitInv

\* Initially nothing is granted.
LEMMA FitInit == Init => FitInv
<1> SUFFICES ASSUME Init PROVE FitInv
  OBVIOUS
<1>1. Typed
  BY TypesInit
<1>2. Covered
  <2> SUFFICES ASSUME NEW v \in VMs, NEW k \in Resource
               PROVE  grant[v][k] <= size[v][k]
    BY DEF Covered
  <2>1. grant[v][k] = 0 /\ size[v][k] \in 0..MaxUnits
    BY <1>1 DEF Init, Typed, Demand, Nothing
  <2> QED
    BY <2>1, UnitsAssumption
<1>3. OnlyActive
  BY DEF Init, OnlyActive
<1>4. PendingFit
  BY RequestTypes DEF Init, PendingFit, InTransaction
<1>5. GrantsFit
  <2> SUFFICES ASSUME NEW k \in Resource PROVE Total(grant, k) <= Limit[k]
    BY DEF GrantsFit, Fits
  <2>1. Units(grant, k) = {}
    BY UnitsAssumption DEF Init, Units, Nothing
  <2> QED
    BY <2>1, FS_EmptySet, UnitsAssumption DEF Total
<1> QED
  BY <1>1, <1>2, <1>3, <1>4, <1>5 DEF FitInv

\* A reservation is granted what the check found room for, or less, and every
\* other transaction has seen it.
LEMMA CommitFits ==
    ASSUME FitInv, Typed', NEW r \in Requests, Commit(r)
    PROVE  /\ FitInv'
           /\ req[r].vm \in VMs
           /\ Lower(req[r].want, size[req[r].vm]) \in Demand
           /\ Fits([grant EXCEPT ![req[r].vm] =
                                   Lower(req[r].want, size[req[r].vm])])
<1> DEFINE v == req[r].vm
           d == Lower(req[r].want, size[v])
<1>1. /\ v \in VMs /\ req[r].want \in Demand /\ size[v] \in Demand
      /\ grant \in [VMs -> Demand] /\ size \in [VMs -> Demand]
  BY RequestParts DEF FitInv, Typed, Commit
<1>2. /\ d \in Demand
      /\ \A k \in Resource : d[k] <= req[r].want[k] /\ d[k] <= size[v][k]
  BY <1>1, LowerFacts
<1>3. Fits([grant EXCEPT ![v] = req[r].want])
  BY DEF FitInv, PendingFit, Commit, InTransaction
<1> HIDE DEF d
<1>4. Fits([grant EXCEPT ![v] = d])
  <2> DEFINE f == [grant EXCEPT ![v] = d]
             g == [grant EXCEPT ![v] = req[r].want]
  <2>1. f \in [VMs -> Demand] /\ g \in [VMs -> Demand]
    BY <1>1, <1>2
  <2>2. ASSUME NEW w \in VMs, NEW k \in Resource PROVE f[w][k] <= g[w][k]
    <3>1. CASE w = v
      BY <1>1, <1>2, <3>1
    <3>2. CASE w # v
      <4>1. f[w] = grant[w] /\ g[w] = grant[w] /\ grant[w][k] \in 0..MaxUnits
        BY <1>1, <3>2 DEF Demand
      <4> QED
        BY <4>1, UnitsAssumption
    <3> QED
      BY <3>1, <3>2
  <2>3. Fits(g)
    BY <1>3
  <2> HIDE DEF f, g
  <2>4. Fits(f)
    BY <2>1, <2>2, <2>3, FitsMonotone
  <2> QED
    BY <2>4 DEF f
<1>5. /\ grant' = [grant EXCEPT ![v] = d] /\ size' = size
      /\ status' = [status EXCEPT ![v] = "starting"]
      /\ req' = Overtaken(r)
  BY DEF Commit, Reserve, d
<1>6. GrantsFit'
  BY <1>4, <1>5 DEF GrantsFit
<1>7. Covered'
  <2> SUFFICES ASSUME NEW w \in VMs, NEW k \in Resource
               PROVE  grant'[w][k] <= size'[w][k]
    BY DEF Covered
  <2>1. CASE w = v
    BY <1>1, <1>2, <1>5, <2>1
  <2>2. CASE w # v
    BY <1>1, <1>5, <2>2 DEF FitInv, Covered
  <2> QED
    BY <2>1, <2>2
<1>8. OnlyActive'
  <2>1. status \in [VMs -> Status]
    BY DEF FitInv, Typed
  <2> QED
    BY <1>1, <1>5, <2>1 DEF FitInv, OnlyActive, ActiveStatus
<1>9. PendingFit'
  <2> SUFFICES ASSUME NEW q \in Requests, req'[q].pc \in {"update", "commit"}
               PROVE  "reservation" \in req'[q].seen
    BY DEF PendingFit, InTransaction
  <2>1. q # r
    BY <1>5, OvertakenTypes, RequestTypes DEF FitInv
  <2> QED
    BY <1>5, <2>1, OvertakenTypes DEF FitInv, InTransaction
<1> QED
  BY <1>1, <1>2, <1>4, <1>6, <1>7, <1>8, <1>9 DEF FitInv, d

\* A resize grows no grant.
LEMMA ResizeFits ==
    ASSUME FitInv, Typed', NEW r \in Requests, ResizeWrite(r)
    PROVE  FitInv'
<1> DEFINE v == req[r].vm
<1>1. /\ v \in VMs /\ req[r].want \in Demand /\ grant[v] \in Demand
      /\ grant \in [VMs -> Demand] /\ size \in [VMs -> Demand]
  BY RequestParts DEF FitInv, Typed, ResizeWrite
<1>2. /\ grant' = [grant EXCEPT ![v] = Lower(grant[v], req[r].want)]
      /\ size' = [size EXCEPT ![v] = req[r].want] /\ status' = status
      /\ req' = [Moved(v) EXCEPT ![r] = Idle]
  BY DEF ResizeWrite
<1>3. \A k \in Resource : /\ Lower(grant[v], req[r].want)[k] <= grant[v][k]
                          /\ Lower(grant[v], req[r].want)[k] <= req[r].want[k]
  BY <1>1, LowerFacts
<1>4. \A w \in VMs, k \in Resource : grant'[w][k] <= grant[w][k]
  <2> TAKE w \in VMs, k \in Resource
  <2>1. grant[w][k] \in 0..MaxUnits
    BY <1>1 DEF Demand
  <2> QED
    BY <1>1, <1>2, <1>3, <2>1, UnitsAssumption
<1>5. \A q \in Requests : InTransaction(q)' =>
        /\ InTransaction(q)
        /\ "reservation" \notin req'[q].seen
             => "reservation" \notin req[q].seen
        /\ req'[q].vm = req[q].vm /\ req'[q].want = req[q].want
  <2> TAKE q \in Requests
  <2>1. CASE q = r
    <3>1. Moved(v) \in [Requests -> Request]
      BY <1>1, MovedTypes DEF FitInv
    <3>2. req'[q].pc = "idle"
      BY <1>2, <2>1, <3>1, RequestTypes
    <3> QED
      BY <3>2 DEF InTransaction
  <2>2. CASE q # r
    <3>1. Moved(v) \in [Requests -> Request]
      BY <1>1, MovedTypes DEF FitInv
    <3>2. req'[q] = Moved(v)[q]
      BY <1>2, <2>2, <3>1
    <3> QED
      BY <1>1, <3>2, MovedTypes DEF FitInv, InTransaction
  <2> QED
    BY <2>1, <2>2
<1>6. PendingFit' /\ GrantsFit'
  BY <1>4, <1>5, ShrinkFits
<1>7. Covered'
  <2> SUFFICES ASSUME NEW w \in VMs, NEW k \in Resource
               PROVE  grant'[w][k] <= size'[w][k]
    BY DEF Covered
  <2>1. CASE w = v
    BY <1>1, <1>2, <1>3, <2>1
  <2>2. CASE w # v
    BY <1>1, <1>2, <2>2 DEF FitInv, Covered
  <2> QED
    BY <2>1, <2>2
<1>8. OnlyActive'
  <2> SUFFICES ASSUME NEW w \in VMs, status[w] \notin ActiveStatus
               PROVE  grant'[w] = Nothing
    BY <1>2 DEF OnlyActive
  <2>1. grant[w] = Nothing
    BY DEF FitInv, OnlyActive
  <2>2. Lower(Nothing, req[r].want) = Nothing
    BY <1>1, UnitsAssumption DEF Lower, Nothing, Demand
  <2> QED
    BY <1>1, <1>2, <2>1, <2>2
<1> QED
  BY <1>6, <1>7, <1>8 DEF FitInv

\* A VM that leaves the active states, or enters them without a check, holds
\* no grant.
LEMMA StatusFits ==
    ASSUME FitInv, Typed', NEW v \in VMs, NEW s \in Status, StatusWrite(v, s)
    PROVE  FitInv'
<1>1. /\ grant \in [VMs -> Demand] /\ size \in [VMs -> Demand]
      /\ status \in [VMs -> Status]
  BY DEF FitInv, Typed
<1>2. /\ size' = size /\ req' = Moved(v)
      /\ status' = [status EXCEPT ![v] = s]
      /\ \A w \in VMs : w # v => grant'[w] = grant[w]
      /\ \/ grant'[v] = grant[v] /\ {s, status[v]} \subseteq ActiveStatus
         \/ grant'[v] = Nothing
  BY <1>1 DEF StatusWrite
<1>3. \A w \in VMs, k \in Resource : grant'[w][k] <= grant[w][k]
  <2> TAKE w \in VMs, k \in Resource
  <2>1. grant[w][k] \in 0..MaxUnits /\ Nothing[k] = 0
    BY <1>1 DEF Demand, Nothing
  <2>2. grant'[w] = grant[w] \/ grant'[w] = Nothing
    BY <1>2
  <2> QED
    BY <2>1, <2>2, UnitsAssumption
<1>4. PendingFit' /\ GrantsFit'
  <2>1. \A q \in Requests : InTransaction(q)' =>
          /\ InTransaction(q)
          /\ "reservation" \notin req'[q].seen
               => "reservation" \notin req[q].seen
          /\ req'[q].vm = req[q].vm /\ req'[q].want = req[q].want
    BY <1>2, MovedTypes DEF FitInv, InTransaction
  <2> QED
    BY <1>3, <2>1, ShrinkFits
<1>5. Covered'
  <2> SUFFICES ASSUME NEW w \in VMs, NEW k \in Resource
               PROVE  grant'[w][k] <= size'[w][k]
    BY DEF Covered
  <2>1. /\ grant'[w][k] \in 0..MaxUnits /\ grant[w][k] \in 0..MaxUnits
        /\ size[w][k] \in 0..MaxUnits
    BY <1>1 DEF Typed, Demand
  <2>2. grant'[w][k] <= grant[w][k] /\ grant[w][k] <= size[w][k]
    BY <1>3 DEF FitInv, Covered
  <2> QED
    BY <1>2, <2>1, <2>2, UnitsAssumption
<1>6. OnlyActive'
  BY <1>1, <1>2 DEF FitInv, OnlyActive
<1> QED
  BY <1>4, <1>5, <1>6 DEF FitInv

\* Every step keeps the invariant.
LEMMA FitStep == FitInv /\ [Next]_vars => FitInv'
<1> SUFFICES ASSUME FitInv, [Next]_vars PROVE FitInv'
  OBVIOUS
<1>0. Typed /\ Typed'
  BY TypesStep DEF FitInv
<1>1. ASSUME NEW r \in Requests, Done(r), UNCHANGED <<status, size, grant>>
      PROVE  FitInv'
  BY <1>0, <1>1, RequestTypes, GotoFits DEF Done
<1>2. ASSUME NEW r \in Requests, NEW p \in Points, NEW v \in VMs,
             NEW d \in Demand, NEW n \in 0..2, p \notin {"update", "commit"},
             Goto(r, Fresh(p, v, d, n)), UNCHANGED <<status, size, grant>>
      PROVE  FitInv'
  BY <1>0, <1>2, RequestTypes, GotoFits
<1>3. ASSUME NEW r \in Requests, NEW v \in VMs, StartRead(r, v) PROVE FitInv'
  <2>1. size[v] \in Demand /\ "begin" \in Points
    BY <1>0 DEF Typed, Points
  <2> QED
    BY <1>2, <1>3, <2>1 DEF StartRead
<1>4. ASSUME NEW r \in Requests, CheckQuota(r) PROVE FitInv'
  <2>1. CASE ~Room(req[r].want)
    BY <1>1, <1>4, <2>1 DEF CheckQuota
  <2>2. CASE Room(req[r].want)
    <3>1. req[r].vm \in VMs /\ req[r].want \in Demand /\ req[r] \in Request
      BY <1>0, <1>4, RequestParts DEF CheckQuota
    <3>2. Fits([grant EXCEPT ![req[r].vm] = req[r].want])
      BY <2>2, <3>1, RoomFits
    <3>3. /\ req' = [req EXCEPT ![r] = Entering(req[r], "update")]
          /\ UNCHANGED <<status, size, grant>>
      BY <1>4, <2>2 DEF CheckQuota, Advance, Goto
    <3>4. PendingFit'
      <4> SUFFICES ASSUME NEW q \in Requests, InTransaction(q)',
                          "reservation" \notin req'[q].seen
                   PROVE  Fits([grant' EXCEPT ![req'[q].vm] = req'[q].want])
        BY DEF PendingFit
      <4>1. CASE q = r
        <5>1. req'[q].vm = req[r].vm /\ req'[q].want = req[r].want
          BY <1>0, <3>1, <3>3, <4>1, EnteringTypes DEF Points, Typed
        <5> QED
          BY <3>2, <3>3, <5>1
      <4>2. CASE q # r
        <5>1. req'[q] = req[q]
          BY <1>0, <3>3, <4>2 DEF Typed
        <5>2. InTransaction(q) /\ "reservation" \notin req[q].seen
          BY <5>1 DEF InTransaction
        <5> QED
          BY <3>3, <5>1, <5>2 DEF FitInv, PendingFit
      <4> QED
        BY <4>1, <4>2
    <3>5. Covered' /\ OnlyActive' /\ GrantsFit'
      BY <3>3 DEF FitInv, Covered, OnlyActive, GrantsFit
    <3> QED
      BY <1>0, <3>4, <3>5 DEF FitInv
  <2> QED
    BY <2>1, <2>2
<1>5. ASSUME NEW r \in Requests, UpdateRow(r) PROVE FitInv'
  <2>1. CASE "row" \in req[r].seen
    BY <1>1, <1>5, <2>1 DEF UpdateRow
  <2>2. CASE "row" \notin req[r].seen
    <3>1. /\ Goto(r, Entering(req[r], "commit"))
          /\ UNCHANGED <<status, size, grant>> /\ InTransaction(r)
      BY <1>5, <2>2 DEF UpdateRow, Advance, InTransaction
    <3>2. req[r] \in Request /\ "commit" \in Points
      BY <1>0, RequestParts DEF Points
    <3> QED
      BY <1>0, <3>1, <3>2, EnteringTypes, GotoFits
  <2> QED
    BY <2>1, <2>2
<1>6. ASSUME NEW r \in Requests, Commit(r) PROVE FitInv'
  BY <1>0, <1>6, CommitFits
<1>7. ASSUME NEW r \in Requests, CommitFails(r) PROVE FitInv'
  <2>1. req[r].vm \in VMs /\ req[r].want \in Demand /\ "begin" \in Points
    BY <1>0, <1>7, RequestParts DEF CommitFails, Points
  <2> QED
    BY <1>1, <1>2, <1>7, <2>1 DEF CommitFails
<1>8. ASSUME NEW r \in Requests, Abort(r) PROVE FitInv'
  BY <1>1, <1>8 DEF Abort
<1>9. ASSUME NEW r \in Requests, NEW v \in VMs, NEW d \in Sizes,
             ResizeRead(r, v, d)
      PROVE  FitInv'
  <2>1. d \in Demand /\ "resize" \in Points
    BY QuotaAssumption DEF Points
  <2> QED
    BY <1>2, <1>9, <2>1 DEF ResizeRead
<1>10. ASSUME NEW r \in Requests, ResizeWrite(r) PROVE FitInv'
  BY <1>0, <1>10, ResizeFits
<1>11. ASSUME NEW v \in VMs, NEW s \in Status, StatusWrite(v, s) PROVE FitInv'
  BY <1>0, <1>11, StatusFits
<1>12. CASE UNCHANGED vars
  BY <1>0, <1>12 DEF vars, FitInv, Covered, OnlyActive, PendingFit, GrantsFit,
                    InTransaction
<1> QED
  BY <1>3, <1>4, <1>5, <1>6, <1>7, <1>8, <1>9, <1>10, <1>11, <1>12
     DEF Next, Start, Resize

(***************************************************************************)
(* What is granted is what counts                                          *)
(***************************************************************************)
Starting(q) == q.pc \in {"begin", "update", "commit"}

DemandsCover == \A r \in Requests \ outgrown, k \in Resource :
    Starting(req[r]) => size[req[r].vm][k] <= req[r].want[k]

InFull == \A v \in VMs : over[v] = "none" /\ Active(v) => grant[v] = size[v]

FullInv == FitInv /\ HistoryTyped /\ DemandsCover /\ InFull

\* A demand that covers another is lowered to it.
LEMMA LowerToLess ==
    ASSUME NEW d \in Demand, NEW e \in Demand, \A k \in Resource : e[k] <= d[k]
    PROVE  Lower(d, e) = e /\ Lower(e, d) = e
<1>1. \A k \in Resource : d[k] \in 0..MaxUnits /\ e[k] \in 0..MaxUnits /\ MaxUnits \in Nat
  BY UnitsAssumption DEF Demand
<1>2. \A k \in Resource : /\ (IF d[k] <= e[k] THEN d[k] ELSE e[k]) = e[k]
                          /\ (IF e[k] <= d[k] THEN e[k] ELSE d[k]) = e[k]
  BY <1>1
<1>3. e = [k \in Resource |-> e[k]]
  BY DEF Demand
<1> QED
  BY <1>2, <1>3 DEF Lower

\* A step that moves one request keeps the demands that cover, if the request
\* keeps its own or has just read it.
LEMMA GotoFull ==
    ASSUME FullInv, UNCHANGED <<status, size, grant, over>>,
           NEW r \in Requests, NEW q, Goto(r, q),
           outgrown \ {r} \subseteq outgrown', r \in outgrown => r \in outgrown' \/ ~Starting(q),
           Starting(q) => \/ Starting(req[r]) /\ q.vm = req[r].vm /\ q.want = req[r].want
                          \/ q.want = size[q.vm] /\ q.vm \in VMs
    PROVE  DemandsCover' /\ InFull'
<1>1. req \in [Requests -> Request] /\ size \in [VMs -> Demand] /\ req' = [req EXCEPT ![r] = q]
  BY DEF FullInv, FitInv, Typed, Goto
<1>2. InFull'
  BY DEF FullInv, InFull, Active
<1>3. ASSUME NEW p \in Requests \ outgrown', NEW k \in Resource, Starting(req'[p])
      PROVE  size'[req'[p].vm][k] <= req'[p].want[k]
  <2>1. CASE p # r
    BY <1>1, <1>3, <2>1 DEF FullInv, DemandsCover
  <2>2. CASE p = r
    <3>1. req'[p] = q
      BY <1>1, <2>2
    <3>2. CASE Starting(req[r]) /\ q.vm = req[r].vm /\ q.want = req[r].want
      <4>1. r \notin outgrown
        BY <1>3, <2>2, <3>1
      <4> QED
        BY <3>1, <3>2, <4>1 DEF FullInv, DemandsCover
    <3>3. CASE q.want = size[q.vm] /\ q.vm \in VMs
      <4>1. size[q.vm][k] \in 0..MaxUnits
        BY <1>1, <3>3 DEF Demand
      <4> QED
        BY <3>1, <3>3, <4>1, UnitsAssumption
    <3> QED
      BY <1>3, <3>1, <3>2, <3>3
  <2> QED
    BY <2>1, <2>2
<1> QED
  BY <1>2, <1>3 DEF DemandsCover, Starting

\* A reservation whose demand is not outgrown is granted all of the row.
LEMMA CommitFull ==
    ASSUME FullInv, NEW r \in Requests, Commit(r)
    PROVE  DemandsCover' /\ InFull'
<1> DEFINE v == req[r].vm
<1>1. /\ v \in VMs /\ req[r].want \in Demand /\ size[v] \in Demand
      /\ grant \in [VMs -> Demand] /\ size \in [VMs -> Demand] /\ status \in [VMs -> Status]
      /\ over \in [VMs -> Excess]
  BY RequestParts DEF FullInv, FitInv, Typed, Commit, HistoryTyped
<1>2. /\ grant' = [grant EXCEPT ![v] = Lower(req[r].want, size[v])] /\ size' = size
      /\ status' = [status EXCEPT ![v] = "starting"]
      /\ over' = [over EXCEPT ![v] = IF r \in outgrown THEN "stale" ELSE "none"]
      /\ req' = Overtaken(r) /\ outgrown' = outgrown \ {r}
  BY DEF Commit, Reserve
<1>3. InFull'
  <2> SUFFICES ASSUME NEW w \in VMs, over'[w] = "none", Active(w)' PROVE grant'[w] = size'[w]
    BY DEF InFull
  <2>1. CASE w = v
    <3>1. r \notin outgrown
      BY <1>1, <1>2, <2>1
    <3>2. \A k \in Resource : size[v][k] <= req[r].want[k]
      BY <3>1 DEF FullInv, DemandsCover, Starting, Commit
    <3>3. Lower(req[r].want, size[v]) = size[v]
      BY <1>1, <3>2, LowerToLess
    <3> QED
      BY <1>1, <1>2, <2>1, <3>3
  <2>2. CASE w # v
    <3>1. over[w] = "none" /\ Active(w)
      BY <1>1, <1>2, <2>2 DEF Active
    <3> QED
      BY <1>1, <1>2, <2>2, <3>1 DEF FullInv, InFull
  <2> QED
    BY <2>1, <2>2
<1>4. DemandsCover'
  <2> SUFFICES ASSUME NEW q \in Requests, q \notin outgrown', NEW k \in Resource, Starting(req'[q])
               PROVE  size'[req'[q].vm][k] <= req'[q].want[k]
    BY DEF DemandsCover, Starting
  <2>1. q # r
    BY <1>2, OvertakenTypes, RequestTypes DEF FullInv, FitInv, Starting
  <2>2. req'[q].pc = req[q].pc /\ req'[q].vm = req[q].vm /\ req'[q].want = req[q].want
    BY <1>2, <2>1, OvertakenTypes DEF FullInv, FitInv
  <2> QED
    BY <1>2, <2>1, <2>2 DEF FullInv, DemandsCover, Starting
<1> QED
  BY <1>3, <1>4

\* A resize outgrows the demands that were read before, or lowers the grant with
\* the row.
LEMMA ResizeFull ==
    ASSUME FullInv, NEW r \in Requests, ResizeWrite(r)
    PROVE  DemandsCover' /\ InFull'
<1> DEFINE v == req[r].vm
           d == req[r].want
<1>1. /\ v \in VMs /\ d \in Demand /\ size[v] \in Demand /\ grant[v] \in Demand
      /\ grant \in [VMs -> Demand] /\ size \in [VMs -> Demand] /\ over \in [VMs -> Excess]
  BY RequestParts DEF FullInv, FitInv, Typed, ResizeWrite, HistoryTyped
<1>2. /\ grant' = [grant EXCEPT ![v] = Lower(grant[v], d)] /\ size' = [size EXCEPT ![v] = d]
      /\ status' = status /\ req' = [Moved(v) EXCEPT ![r] = Idle]
      /\ over' = [over EXCEPT ![v] = IF Grows(v, d) /\ Active(v) THEN "grown" ELSE over[v]]
      /\ outgrown' = outgrown \cup IF Grows(v, d) THEN ReadersOf(v) ELSE {}
  BY DEF ResizeWrite
<1>3. ~Grows(v, d) => \A k \in Resource : d[k] <= size[v][k]
  <2>1. \A k \in Resource : d[k] \in 0..MaxUnits /\ size[v][k] \in 0..MaxUnits /\ MaxUnits \in Nat
    BY <1>1, UnitsAssumption DEF Demand
  <2> QED
    BY <2>1 DEF Grows
<1> HIDE DEF v, d
<1>4. InFull'
  <2> SUFFICES ASSUME NEW w \in VMs, over'[w] = "none", Active(w)' PROVE grant'[w] = size'[w]
    BY DEF InFull
  <2>1. Active(w)
    BY <1>2 DEF Active
  <2>2. CASE w = v
    <3>1. over[v] = "none" /\ ~Grows(v, d)
      BY <1>1, <1>2, <2>1, <2>2
    <3>2. grant[v] = size[v]
      BY <1>1, <2>1, <2>2, <3>1 DEF FullInv, InFull
    <3>3. Lower(grant[v], d) = d
      BY <1>1, <1>3, <3>1, <3>2, LowerToLess
    <3> QED
      BY <1>1, <1>2, <2>2, <3>3
  <2>3. CASE w # v
    BY <1>1, <1>2, <2>1, <2>3 DEF FullInv, InFull
  <2> QED
    BY <2>2, <2>3
<1>5. DemandsCover'
  <2> SUFFICES ASSUME NEW q \in Requests, q \notin outgrown', NEW k \in Resource, Starting(req'[q])
               PROVE  size'[req'[q].vm][k] <= req'[q].want[k]
    BY DEF DemandsCover, Starting
  <2>1. Moved(v) \in [Requests -> Request]
    BY <1>1, MovedTypes DEF FullInv, FitInv
  <2>2. q # r
    BY <1>2, <2>1, RequestTypes DEF Starting
  <2>3. req'[q].pc = req[q].pc /\ req'[q].vm = req[q].vm /\ req'[q].want = req[q].want
    BY <1>1, <1>2, <2>1, <2>2, MovedTypes DEF FullInv, FitInv
  <2>4. /\ q \notin outgrown /\ Starting(req[q]) /\ req[q].vm \in VMs /\ req[q].want \in Demand
        /\ size[req[q].vm][k] <= req[q].want[k]
    BY <1>2, <2>3, RequestParts DEF FullInv, FitInv, DemandsCover, Starting
  <2>5. CASE req[q].vm = v
    <3>1. ~Grows(v, d)
      BY <1>2, <2>4, <2>5 DEF ReadersOf, Starting
    <3>2. /\ d[k] <= size[v][k] /\ d[k] \in Int /\ size[v][k] \in Int /\ req[q].want[k] \in Int
          /\ size'[v] = d
      BY <1>1, <1>2, <1>3, <2>4, <3>1, UnitsAssumption DEF Demand
    <3> QED
      BY <2>3, <2>4, <2>5, <3>2
  <2>6. CASE req[q].vm # v
    BY <1>1, <1>2, <2>3, <2>4, <2>6
  <2> QED
    BY <2>5, <2>6
<1> QED
  BY <1>4, <1>5

\* A VM that is active after a plain write without a reason was so before it.
LEMMA StatusFull ==
    ASSUME FullInv, NEW v \in VMs, NEW s \in Status, StatusWrite(v, s)
    PROVE  DemandsCover' /\ InFull'
<1>1. /\ grant \in [VMs -> Demand] /\ status \in [VMs -> Status] /\ over \in [VMs -> Excess]
  BY DEF FullInv, FitInv, Typed, HistoryTyped
<1>2. InFull'
  <2> SUFFICES ASSUME NEW w \in VMs, over'[w] = "none", Active(w)' PROVE grant'[w] = size'[w]
    BY DEF InFull
  <2>1. CASE w = v
    <3>1. s \in ActiveStatus /\ Active(v) /\ over[v] = "none"
      BY <1>1, <2>1 DEF StatusWrite, Active
    <3>2. grant' = grant /\ size' = size
      BY <1>1, <3>1 DEF StatusWrite, Active
    <3> QED
      BY <2>1, <3>1, <3>2 DEF FullInv, InFull
  <2>2. CASE w # v
    BY <1>1, <2>2 DEF StatusWrite, Active, FullInv, InFull
  <2> QED
    BY <2>1, <2>2
<1>3. DemandsCover'
  <2>1. \A q \in Requests : /\ req'[q].pc = req[q].pc /\ req'[q].vm = req[q].vm
                            /\ req'[q].want = req[q].want
    BY MovedTypes DEF FullInv, FitInv, StatusWrite
  <2> QED
    BY <2>1 DEF FullInv, DemandsCover, Starting, StatusWrite
<1> QED
  BY <1>2, <1>3

\* Every step keeps what is in full.
LEMMA FullStep == FullInv /\ [Next]_vars => FullInv'
<1> SUFFICES ASSUME FullInv, [Next]_vars PROVE FullInv'
  OBVIOUS
<1>0. FitInv' /\ HistoryTyped' /\ Typed
  BY FitStep, HistoryStep DEF FullInv, FitInv
<1>1. ASSUME NEW r \in Requests, NEW v \in VMs, StartRead(r, v) PROVE DemandsCover' /\ InFull'
  <2>1. Fresh("begin", v, size[v], 1).vm = v /\ Fresh("begin", v, size[v], 1).want = size[v]
    BY DEF Fresh
  <2> QED
    BY <1>1, <2>1, GotoFull DEF StartRead, histories
<1>2. ASSUME NEW r \in Requests, Done(r), UNCHANGED <<status, size, grant, over>>
      PROVE  DemandsCover' /\ InFull'
  <2>1. ~Starting(Idle)
    BY RequestTypes DEF Starting
  <2> QED
    BY <1>2, <2>1, GotoFull DEF Done
<1>3. ASSUME NEW r \in Requests, NEW p \in Points, Starting(req[r]), Advance(r, p),
             UNCHANGED <<status, size, grant, over>>
      PROVE  DemandsCover' /\ InFull'
  <2>1. Entering(req[r], p).vm = req[r].vm /\ Entering(req[r], p).want = req[r].want
    BY <1>0, RequestParts, EnteringTypes
  <2> QED
    BY <1>3, <2>1, GotoFull DEF Advance
<1>4. ASSUME NEW r \in Requests, CheckQuota(r) \/ UpdateRow(r) \/ Abort(r)
      PROVE  DemandsCover' /\ InFull'
  BY <1>2, <1>3, <1>4 DEF CheckQuota, UpdateRow, Abort, Points, Starting
<1>5. ASSUME NEW r \in Requests, CommitFails(r) PROVE DemandsCover' /\ InFull'
  <2> DEFINE q == Fresh("begin", req[r].vm, req[r].want, 2)
  <2>1. q.vm = req[r].vm /\ q.want = req[r].want
    BY DEF Fresh
  <2>2. Starting(req[r]) /\ UNCHANGED <<status, size, grant, over>>
    BY <1>5 DEF CommitFails, Starting
  <2>3. Done(r) \/ (Goto(r, q) /\ UNCHANGED outgrown)
    BY <1>5 DEF CommitFails
  <2> HIDE DEF q
  <2> QED
    BY <1>2, <2>1, <2>2, <2>3, GotoFull
<1>6. ASSUME NEW r \in Requests, NEW v \in VMs, NEW d \in Sizes, ResizeRead(r, v, d)
      PROVE  DemandsCover' /\ InFull'
  <2>1. ~Starting(Fresh("resize", v, d, 1))
    BY DEF Fresh, Starting
  <2> QED
    BY <1>6, <2>1, GotoFull DEF ResizeRead, histories
<1>7. CASE UNCHANGED vars
  BY <1>0, <1>7 DEF vars, histories, FullInv, DemandsCover, InFull, Active
<1> QED
  BY <1>0, <1>1, <1>4, <1>5, <1>6, <1>7, CommitFull, ResizeFull, StatusFull
     DEF Next, Start, Resize, FullInv

\* The account's active VMs fit its limits, each in full unless it was not reserved,
\* has grown in its run, or grew between its start's read and the reservation, for
\* any number of overlapping starts, retries, resizes, restores and crashes.
THEOREM AdmissionsFit == Spec => []AdmittedFit
<1>1. Init => FullInv
  <2>1. Init => DemandsCover /\ InFull
    BY RequestTypes DEF Init, DemandsCover, InFull, Starting, Active, ActiveStatus
  <2> QED
    BY <2>1, FitInit DEF Init, FullInv, HistoryTyped, Excess
<1>2. FullInv => AdmittedFit
  <2> SUFFICES ASSUME FullInv PROVE AdmittedFit
    OBVIOUS
  <2>1. ASSUME NEW v \in VMs, over[v] = "none" PROVE Used[v] = grant[v]
    BY <2>1 DEF FullInv, FitInv, OnlyActive, InFull, Active, Used
  <2>2. grant \in [VMs -> Demand]
    BY DEF FullInv, FitInv, Typed
  <2>3. Counted = grant
    BY <2>1, <2>2 DEF Counted
  <2> QED
    BY <2>3 DEF AdmittedFit, FullInv, FitInv, GrantsFit
<1> QED
  BY <1>1, <1>2, FullStep, PTL DEF Spec

(***************************************************************************)
(* Quota implements QuotaLedger                                            *)
(***************************************************************************)

\* Every step is an atomic admission, gives units back, or leaves the ledger.
LEMMA LedgerStep ==
    ASSUME FitInv, [Next]_vars
    PROVE  [Ledger!Next]_grant
<1>0. Typed /\ Typed'
  BY TypesStep DEF FitInv
<1>1. ASSUME NEW r \in Requests, Commit(r) PROVE Ledger!Next
  <2> DEFINE v == req[r].vm
             d == Lower(req[r].want, size[v])
  <2>1. v \in VMs /\ d \in Demand /\ Fits([grant EXCEPT ![v] = d])
    BY <1>0, <1>1, CommitFits
  <2>2. grant' = [grant EXCEPT ![v] = d]
    BY <1>1 DEF Commit, Reserve
  <2> HIDE DEF v, d
  <2>3. Ledger!Admit(v, d)
    BY <2>1, <2>2 DEF Ledger!Admit, Ledger!Fits, Fits, Ledger!Total, Total,
                      Ledger!Units, Units, Ledger!Cardinality, Cardinality
  <2> QED
    BY <2>1, <2>3 DEF Ledger!Next, Ledger!Demand, Demand
<1>2. ASSUME NEW r \in Requests, ResizeWrite(r) PROVE Ledger!Next
  <2>1. req[r].vm \in VMs /\ req[r].want \in Demand
    BY <1>0, <1>2, RequestParts DEF ResizeWrite
  <2>2. Ledger!GiveBack(req[r].vm, req[r].want)
    BY <1>2 DEF ResizeWrite, Ledger!GiveBack, Ledger!Lower, Lower
  <2> QED
    BY <2>1, <2>2 DEF Ledger!Next, Ledger!Demand, Demand
<1>3. ASSUME NEW v \in VMs, NEW s \in Status, StatusWrite(v, s)
      PROVE  [Ledger!Next]_grant
  <2>1. grant \in [VMs -> Demand]
    BY <1>0 DEF Typed
  <2>2. CASE {s, status[v]} \subseteq ActiveStatus
    BY <1>3, <2>1, <2>2 DEF StatusWrite
  <2>3. CASE ~({s, status[v]} \subseteq ActiveStatus)
    <3>1. Nothing \in Demand /\ Lower(grant[v], Nothing) = Nothing
      BY <2>1, LowerFacts
    <3>2. grant' = [grant EXCEPT ![v] = Lower(grant[v], Nothing)]
      BY <1>3, <2>3, <3>1 DEF StatusWrite
    <3>3. Ledger!GiveBack(v, Nothing)
      BY <3>2 DEF Ledger!GiveBack, Ledger!Lower, Lower
    <3> QED
      BY <3>1, <3>3 DEF Ledger!Next, Ledger!Demand, Demand
  <2> QED
    BY <2>2, <2>3
<1>4. ASSUME NEW r \in Requests,
             \/ \E v \in VMs : StartRead(r, v)
             \/ CheckQuota(r) \/ UpdateRow(r) \/ CommitFails(r) \/ Abort(r)
             \/ \E v \in VMs, d \in Sizes : ResizeRead(r, v, d)
      PROVE  UNCHANGED grant
  BY <1>4 DEF StartRead, CheckQuota, UpdateRow, CommitFails, Abort, ResizeRead
<1>5. CASE UNCHANGED vars
  BY <1>5 DEF vars
<1> QED
  BY <1>1, <1>2, <1>3, <1>4, <1>5 DEF Next, Start, Resize

\* The serializable transaction with its one retry is as good as an atomic
\* check-and-reserve.
THEOREM LedgerImplemented == Spec => AtomicAdmission
<1>1. Init => Ledger!Init
  BY DEF Init, Ledger!Init, Ledger!Nothing, Nothing
<1> QED
  BY <1>1, FitInit, FitStep, LedgerStep, PTL DEF Spec, AtomicAdmission,
     Ledger!Spec
=============================================================================
