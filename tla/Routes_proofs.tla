--------------------------- MODULE Routes_proofs ---------------------------
(***************************************************************************)
(* Theorems about Routes, for any sets of VMs, names, ports and requests   *)
(* and any bounds.                                                         *)
(***************************************************************************)
EXTENDS Routes, FiniteSetTheorems, SequenceTheorems, TLAPS

(***************************************************************************)
(* The inductive invariant. RouteOrWriter is threatened by one thing, the  *)
(* DELETE of a route; each DELETE that is still to come is either followed *)
(* by a POST of the same name, or its name is released: no VM has it, or   *)
(* one that it was given to a second time. That a name which was read      *)
(* stays released rests on names being apart and never forgotten.          *)
(***************************************************************************)
RowsUsed == \A v \in VMs : Live(v) => v \in used /\ rows[v].name \in used

NamesApart == \A v, w \in VMs :
    Live(v) /\ Live(w) /\ rows[v].name = rows[w].name => v = w

\* No VM but v has the name n, unless the name was given a second time.
LeftTo(v, n) ==
    /\ n \in used
    /\ \A w \in VMs : Live(w) /\ rows[w].name = n => w = v \/ n \in again

Released(n) == LeftTo(None, n)

\* What a request under way has in hand.
Shaped(r) ==
    /\ req[r].op # "routes" => req[r].vm \in VMs
    /\ req[r].op \in {"create", "created", "rename", "renaming"} => req[r].name \in Names
    /\ req[r].op \in {"renaming", "port", "delete"} => req[r].seen \in Row
    /\ req[r].op = "port" => req[r].port \in Ports
    /\ req[r].op = "create" => req[r].vm \in used
    /\ req[r].op = "routes" => req[r].calls # <<>>
    /\ req[r].op \in {"renaming", "delete"} => LeftTo(req[r].vm, req[r].seen.name)

\* The i-th call is the DELETE of an upsert.
Covered(calls, i) ==
    /\ i + 1 \in DOMAIN calls
    /\ calls[i + 1].verb = "post" /\ calls[i + 1].name = calls[i].name

CallSound(calls, i) ==
    /\ calls[i].verb # "delete" => calls[i].to \in Routed
    /\ calls[i].verb = "delete" => Covered(calls, i) \/ Released(calls[i].name)

CallsSound(r) == req[r].op = "routes" => \A i \in DOMAIN req[r].calls : CallSound(req[r].calls, i)

RequestsSound == \A r \in Requests : ~Idle(r) => Shaped(r) /\ CallsSound(r)

\* Nobody is at work while the control plane starts up.
BootAlone == boot => "restart" \in since /\ \A r \in Requests : Idle(r)

NamesSound == RowsUsed /\ NamesApart

IInv == TypeOK /\ NamesSound /\ RequestsSound /\ BootAlone /\ RouteOrWriter

(***************************************************************************)
(* What ServesRows rests on besides: since the last rebuild one request at *)
(* most was at work at a time, so its calls lead from what Caddy serves to *)
(* what the rows ask for - or, for a VM of which an event or a status is   *)
(* still to be handled, to some route w[n], which that will write again.   *)
(***************************************************************************)
\* FromRows, of any rows.
Wants(rw) ==
    [n \in Names |->
       IF n \in {rw[v].name : v \in {w \in VMs : rw[w] # None}}
       THEN LET v == CHOOSE w \in VMs : rw[w] # None /\ rw[w].name = n IN TargetOf(v, rw[v])
       ELSE None]

\* The calls s make the routes rt those that w asks for. A name occurs once,
\* but for the DELETE and the POST of an upsert, which come first.
Leads(s, rt, w) ==
    /\ \A n \in Names : (\A i \in DOMAIN s : s[i].name # n) => rt[n] = w[n]
    /\ \A i \in DOMAIN s :
         /\ s[i].verb # "delete" => s[i].to = w[s[i].name]
         /\ s[i].verb = "delete" => (i = 1 /\ Covered(s, 1)) \/ w[s[i].name] = None
         /\ s[i].verb = "post" => \/ i = 1 /\ rt[s[i].name] = None
                                  \/ i = 2 /\ s[1].verb = "delete" /\ s[1].name = s[2].name
    /\ \A i, j \in DOMAIN s : i < j /\ s[i].name = s[j].name => i = 1 /\ j = 2 /\ Covered(s, 1)

\* An event of v is to be read; a status is to be written before the route of n.
Told(v) == \E x \in Watchers : \E i \in DOMAIN events[x] : events[x][i].vm = v
Marks(s, n) == \E i \in DOMAIN s : s[i].verb = "mark" /\ s[i].name = n
Marked(n) == \E r \in Requests : At(r, "routes") /\ Marks(req[r].calls, n)

Late(n) == (\E v \in VMs : Live(v) /\ rows[v].name = n /\ Told(v)) \/ Marked(n)

\* w is what the rows ask for, but for what comes late.
Agrees(w) ==
    /\ w \in [Names -> Routed \cup {None}]
    /\ \A n \in Names : ~Late(n) => w[n] = Wants(rows)[n]

\* A status that is to be written is that of the row which will be routed by it.
MarkSound(c) ==
    /\ c.vm \in VMs /\ Live(c.vm) /\ rows[c.vm].name = c.name
    /\ c.to \in {Stopped, [vm |-> c.vm, port |-> rows[c.vm].port]}

Follows(r, w) ==
    /\ req[r].op \notin {"created", "routes"} => routes = w
    /\ req[r].op \in {"create", "rename", "renaming"} =>
          \A v \in VMs : Live(v) => rows[v].name # req[r].name
    /\ req[r].op = "create" => ~Live(req[r].vm)
    /\ req[r].op = "created" =>
          /\ Live(req[r].vm) /\ w[rows[req[r].vm].name] = Stopped
          /\ \A n \in Names \ {rows[req[r].vm].name} : routes[n] = w[n]
    /\ req[r].op = "rename" => Live(req[r].vm)
    /\ req[r].op \in {"renaming", "port", "delete"} =>
          /\ Live(req[r].vm) /\ req[r].seen.name = rows[req[r].vm].name
          /\ req[r].seen = rows[req[r].vm] \/ Told(req[r].vm)
    /\ req[r].op = "routes" =>
          /\ Leads(req[r].calls, routes, w)
          /\ \A i \in DOMAIN req[r].calls :
               req[r].calls[i].verb = "mark" => MarkSound(req[r].calls[i])

Alone(r) == \A q \in Requests \ {r} : Idle(q)

InStepBy(w) ==
    /\ Agrees(w)
    /\ (\A r \in Requests : Idle(r)) => routes = w
    /\ \A r \in Requests : ~Idle(r) => Alone(r) /\ Follows(r, w)

InStep == (since = {} /\ ~boot) => \E w : InStepBy(w)
-----------------------------------------------------------------------------
\* A sequence whose head is replaced by the calls t.
LEMMA Advanced ==
  ASSUME NEW S, NEW s \in Seq(S), s # <<>>, NEW t \in Seq(S)
  PROVE  /\ t \o Tail(s) \in Seq(S) /\ Len(t \o Tail(s)) = Len(t) + Len(s) - 1
         /\ \A i \in 1..Len(t) : (t \o Tail(s))[i] = t[i]
         /\ \A i \in 2..Len(s) : (t \o Tail(s))[Len(t) + i - 1] = s[i]
<1>1. Tail(s) \in Seq(S) /\ Len(Tail(s)) = Len(s) - 1 /\ \A i \in 1..Len(Tail(s)) : Tail(s)[i] = s[i + 1]
  BY HeadTailProperties
<1>2. Len(s) \in Nat /\ Len(t) \in Nat /\ Len(s) > 0
  BY LenProperties, EmptySeq
<1>3. /\ t \o Tail(s) \in Seq(S) /\ Len(t \o Tail(s)) = Len(t) + Len(Tail(s))
      /\ \A i \in 1..(Len(t) + Len(Tail(s))) :
           (t \o Tail(s))[i] = IF i <= Len(t) THEN t[i] ELSE Tail(s)[i - Len(t)]
  BY <1>1, ConcatProperties
<1>4. ASSUME NEW i \in 2..Len(s) PROVE (t \o Tail(s))[Len(t) + i - 1] = s[i]
  <2>1. Len(t) + i - 1 \in 1..(Len(t) + Len(Tail(s))) /\ Len(t) + i - 1 > Len(t)
        /\ i - 1 \in 1..Len(Tail(s)) /\ (Len(t) + i - 1) - Len(t) = i - 1 /\ (i - 1) + 1 = i
    BY <1>1, <1>2
  <2>2. (t \o Tail(s))[Len(t) + i - 1] = Tail(s)[i - 1]
    BY <1>2, <1>3, <2>1
  <2> QED
    BY <1>1, <2>1, <2>2
<1> QED
  BY <1>1, <1>2, <1>3, <1>4

\* The same, of calls, with the new sequence named.
LEMMA AdvancedIs ==
  ASSUME NEW s \in Seq(Call), s # <<>>, NEW t \in Seq(Call)
  PROVE  \E u \in Seq(Call) :
           /\ u = t \o Tail(s) /\ Len(u) = Len(t) + Len(s) - 1 /\ DOMAIN u = 1..Len(u)
           /\ \A i \in 1..Len(t) : u[i] = t[i]
           /\ \A i \in 2..Len(s) : u[Len(t) + i - 1] = s[i]
<1>1. /\ t \o Tail(s) \in Seq(Call) /\ Len(t \o Tail(s)) = Len(t) + Len(s) - 1
      /\ \A i \in 1..Len(t) : (t \o Tail(s))[i] = t[i]
      /\ \A i \in 2..Len(s) : (t \o Tail(s))[Len(t) + i - 1] = s[i]
  BY Advanced
<1>2. DOMAIN (t \o Tail(s)) = 1..Len(t \o Tail(s))
  BY <1>1, LenProperties
<1> WITNESS t \o Tail(s) \in Seq(Call)
<1> QED
  BY <1>1, <1>2

\* A sequence without its first k - 1 members.
LEMMA Dropped ==
  ASSUME NEW S, NEW s \in Seq(S), NEW k \in 1..(Len(s) + 1)
  PROVE  /\ SubSeq(s, k, Len(s)) \in Seq(S) /\ Len(SubSeq(s, k, Len(s))) = Len(s) - k + 1
         /\ \A i \in 1..(Len(s) - k + 1) : SubSeq(s, k, Len(s))[i] = s[k + i - 1]
<1>1. Len(s) \in Nat
  BY LenProperties
<1>2. \A i \in k..Len(s) : s[i] \in S
  BY <1>1, ElementOfSeq
<1>3. /\ SubSeq(s, k, Len(s)) \in Seq(S)
      /\ Len(SubSeq(s, k, Len(s))) = IF k <= Len(s) THEN Len(s) - k + 1 ELSE 0
      /\ \A i \in 1..(Len(s) - k + 1) : SubSeq(s, k, Len(s))[i] = s[k + i - 1]
  BY <1>1, <1>2, SubSeqProperties
<1> QED
  BY <1>1, <1>3

\* What a request is once it goes on with its calls.
LEMMA CallingIs ==
  ASSUME NEW calls \in Seq(Call)
  PROVE  /\ Calling(calls) \in Request \cup {None}
         /\ calls # <<>> => Calling(calls) # None
         /\ Calling(calls) # None =>
              /\ Calling(calls) = [Blank EXCEPT !.calls = calls] /\ calls # <<>>
              /\ Calling(calls).op = "routes" /\ Calling(calls).calls = calls
<1>1. [Blank EXCEPT !.calls = calls] \in Request
  BY DEF Blank, Request
<1> QED
  BY <1>1, NoneAssumption DEF Calling, Blank

-----------------------------------------------------------------------------
\* The two things that a step does to the names of the rows.
NamesKept ==
    /\ used \subseteq used' /\ again' = again
    /\ \A w \in VMs : rows'[w] # None => Live(w) /\ rows'[w].name = rows[w].name

Named(v, n) ==
    /\ n \notin Taken
    /\ used' = used \cup {n} /\ again' = again \cup ({n} \cap used)
    /\ \A w \in VMs : rows'[w] # None =>
         IF w = v THEN v \in used /\ rows'[w].name = n
         ELSE Live(w) /\ rows'[w].name = rows[w].name

\* Rows change in other fields than their names.
NamesSame ==
    /\ UNCHANGED <<used, again>>
    /\ \A w \in VMs : /\ rows'[w] # None <=> Live(w)
                      /\ Live(w) => rows'[w].name = rows[w].name

NamesStep == NamesKept \/ \E v \in VMs, n \in Names : Named(v, n)

\* A step that gives at most one new name keeps names apart, and a name that was
\* left to a VM stays so.
LEMMA NamesFollow ==
  ASSUME NamesSound, NamesStep
  PROVE  /\ NamesSound' /\ used \subseteq used' /\ again \subseteq again'
         /\ \A v, n : LeftTo(v, n) => LeftTo(v, n)'
<1>1. CASE NamesKept
  BY <1>1 DEF NamesKept, NamesSound, RowsUsed, NamesApart, LeftTo, Live
<1>2. ASSUME NEW u \in VMs, NEW m \in Names, Named(u, m)
      PROVE  /\ NamesSound' /\ used \subseteq used' /\ again \subseteq again'
             /\ \A v, n : LeftTo(v, n) => LeftTo(v, n)'
  <2>1. \A w \in VMs : Live(w) => rows[w].name # m
    BY <1>2 DEF Named, Taken
  <2>2. RowsUsed'
    BY <1>2 DEF Named, NamesSound, RowsUsed, Live
  <2>3. NamesApart'
    BY <1>2, <2>1 DEF Named, NamesSound, NamesApart, Live
  <2>4. ASSUME NEW v, NEW n, LeftTo(v, n) PROVE LeftTo(v, n)'
    BY <1>2, <2>4 DEF Named, LeftTo, Live
  <2> QED
    BY <1>2, <2>2, <2>3, <2>4 DEF Named, NamesSound
<1> QED
  BY <1>1, <1>2 DEF NamesStep

\* A request that is left alone stays sound.
LEMMA RequestKept ==
  ASSUME NEW r \in Requests, req'[r] = req[r], used \subseteq used',
         \A v, n : LeftTo(v, n) => LeftTo(v, n)',
         Shaped(r), CallsSound(r)
  PROVE  Shaped(r)' /\ CallsSound(r)'
<1>1. Shaped(r)'
  BY DEF Shaped
<1>2. CallsSound(r)'
  BY DEF CallsSound, CallSound, Covered, Released
<1> QED
  BY <1>1, <1>2
\* One request goes on, and the names follow: all requests stay sound if it does.
LEMMA RequestsFollow ==
  ASSUME TypeOK, NamesSound, RequestsSound, NamesStep, NEW r \in Requests,
         \A q \in Requests \ {r} : req'[q] = req[q],
         req'[r] # None => Shaped(r)' /\ CallsSound(r)'
  PROVE  NamesSound' /\ RequestsSound'
<1>1. NamesSound' /\ used \subseteq used' /\ \A v, n : LeftTo(v, n) => LeftTo(v, n)'
  BY NamesFollow
<1>2. ASSUME NEW q \in Requests, q # r, req'[q] # None PROVE Shaped(q)' /\ CallsSound(q)'
  <2>1. req'[q] = req[q] /\ Shaped(q) /\ CallsSound(q)
    BY <1>2 DEF RequestsSound, Idle
  <2> QED
    BY <1>1, <2>1, RequestKept
<1> QED
  BY <1>1, <1>2 DEF RequestsSound, Idle

\* What a step of r has to leave for every name that a VM has.
Served(r) == \A v \in VMs, n \in Names :
    (rows'[v] # None /\ rows'[v].name = n /\ n \notin again' \cup since') =>
       \/ routes'[n] # None
       \/ WillRoute(r, n)'
       \/ Live(v) /\ rows[v].name = n /\ routes[n] = None /\ ~WillRoute(r, n)

\* The others' routes to come are still to come.
LEMMA ServedIsEnough ==
  ASSUME TypeOK', NamesSound, RequestsSound, RouteOrWriter, NamesStep, NEW r \in Requests,
         \A q \in Requests \ {r} : req'[q] = req[q],
         boot' = boot, since \subseteq since', Served(r)
  PROVE  RouteOrWriter'
<1>1. SUFFICES ASSUME ~boot, "restart" \notin since, NEW v \in VMs, rows'[v] # None,
                      NEW n \in Names, rows'[v].name = n, n \notin again' \cup since'
               PROVE  \/ routes'[n] # None
                      \/ \E q \in Requests : WillRoute(q, n)'
  <2>1. \A v \in VMs : rows'[v] # None => rows'[v].name \in Names
    BY DEF TypeOK, Row
  <2> QED
    BY <2>1 DEF RouteOrWriter, Live, WillRoute, At, Idle
<1>2. CASE routes'[n] # None \/ WillRoute(r, n)'
  BY <1>2
<1>3. CASE Live(v) /\ rows[v].name = n /\ routes[n] = None /\ ~WillRoute(r, n)
  <2>1. n \notin again \cup since
    BY <1>1, NamesFollow
  <2>2. PICK q \in Requests : WillRoute(q, n)
    BY <1>1, <1>3, <2>1 DEF RouteOrWriter, WillRoute, At, Idle, Live
  <2>3. req'[q] = req[q]
    BY <1>3, <2>2
  <2>4. CASE At(q, "routes")
    <3>1. \E c \in Range(req[q].calls) : c.name = n /\ c.verb # "delete"
      BY <2>2, <2>4 DEF WillRoute, At
    <3>2. WillRoute(q, n)'
      BY <2>3, <2>4, <3>1 DEF WillRoute, At, Idle
    <3> QED
      BY <3>2
  <2>5. CASE At(q, "created") /\ Live(req[q].vm) /\ rows[req[q].vm].name = n
    <3>1. req[q].vm \in VMs
      BY <2>5 DEF RequestsSound, Shaped, At
    <3>2. req[q].vm = v
      BY <1>3, <2>5, <3>1 DEF NamesSound, NamesApart
    <3>3. WillRoute(q, n)'
      BY <1>1, <2>3, <2>5, <3>2 DEF WillRoute, At, Idle, Live
    <3> QED
      BY <3>3
  <2> QED
    BY <2>2, <2>4, <2>5 DEF WillRoute
<1> QED
  BY <1>1, <1>2, <1>3 DEF Served
-----------------------------------------------------------------------------
\* Type correctness.
LEMMA EnterTyped ==
  ASSUME TypeOK, NEW r \in Requests, NEW request \in Request \cup {None}, Enter(r, request),
         rows' \in [VMs -> Row \cup {None}],
         used' = used \/ \E v \in VMs : used' = used \cup {v},
         ops' \in 0..MaxOps, events' \in [Watchers -> Seq(Event)]
  PROVE  TypeOK' /\ req'[r] = request /\ \A q \in Requests \ {r} : req'[q] = req[q]
<1>1. req \in [Requests -> Request \cup {None}] /\ req' = [req EXCEPT ![r] = request]
  BY DEF TypeOK, Enter
<1>2. req' \in [Requests -> Request \cup {None}]
  BY <1>1
<1>3. used' \subseteq VMs \cup Names /\ again' \subseteq used' /\ since' \subseteq Excuses
  BY DEF TypeOK, Enter, Excuses
<1> QED
  BY <1>1, <1>2, <1>3 DEF TypeOK, Enter

\* A handler's request is counted.
LEMMA BeginIs ==
  ASSUME TypeOK, NEW r \in Requests, NEW request, Begin(r, request)
  PROVE  Enter(r, request) /\ ops' \in 0..MaxOps /\ events' \in [Watchers -> Seq(Event)]
<1>1. ops \in 0..MaxOps /\ ops < MaxOps /\ ops' = ops + 1 /\ events' = events /\ Enter(r, request)
  BY DEF TypeOK, Begin
<1> QED
  BY <1>1, BoundsAssumption DEF TypeOK

\* What a heartbeat makes of one row.
LEMMA BeatIs ==
  ASSUME NEW v \in VMs, rows[v] \in Row, NEW reported,
         NEW c, c = BeatCall(v, reported)
  PROVE  /\ c \in Call /\ c.name = rows[v].name /\ c.to \in Routed
         /\ \/ c.verb = "put" /\ c.to = TargetOf(v, rows[v])
            \/ /\ c.verb = "mark" /\ c.vm = v
               /\ c.to \in {Stopped, [vm |-> v, port |-> rows[v].port]}
<1> DEFINE row == [rows[v] EXCEPT !.running = (v \in reported)]
<1>0. (v \in reported) \in BOOLEAN
  OBVIOUS
<1>1. row \in Row /\ row.port = rows[v].port
  BY <1>0 DEF Row
<1>2. TargetOf(v, row) \in Routed /\ TargetOf(v, row) \in {Stopped, [vm |-> v, port |-> rows[v].port]}
  BY <1>1 DEF TargetOf, Routed, Target, Row
<1>3. TargetOf(v, rows[v]) \in Routed /\ rows[v].name \in Names
  BY DEF TargetOf, Routed, Target, Row
<1>4. c = Put(rows[v].name, TargetOf(v, rows[v])) \/ c = Mark(v, rows[v], v \in reported)
  BY DEF BeatCall
<1>5. CASE c = Put(rows[v].name, TargetOf(v, rows[v]))
  BY <1>3, <1>5 DEF Put, Call
<1>6. CASE c = Mark(v, rows[v], v \in reported)
  <2>1. c = [verb |-> "mark", vm |-> v, name |-> rows[v].name, to |-> TargetOf(v, row)]
    BY <1>6 DEF Mark
  <2> HIDE DEF row
  <2> QED
    BY <1>2, <1>3, <2>1 DEF Call
<1> QED
  BY <1>4, <1>5, <1>6

\* The rows that a heartbeat handles, and its calls.
Todo(reported) == {v \in VMs : Live(v) /\ (rows[v].running \/ v \in reported)}

HeartbeatCalls(reported) ==
    LET seq == SetToSeq(Todo(reported)) IN [i \in DOMAIN seq |-> BeatCall(seq[i], reported)]

\* A heartbeat handles each of its rows once, each under another name.
LEMMA HeartbeatCallsAre ==
  ASSUME TypeOK, NEW reported
  PROVE  /\ HeartbeatCalls(reported) \in Seq(Call)
         /\ \A i \in DOMAIN HeartbeatCalls(reported) : \E v \in VMs :
              Live(v) /\ HeartbeatCalls(reported)[i] = BeatCall(v, reported)
         /\ \A i, j \in DOMAIN HeartbeatCalls(reported) :
              NamesApart /\ HeartbeatCalls(reported)[i].name = HeartbeatCalls(reported)[j].name
                => i = j
         /\ Todo(reported) # {} => HeartbeatCalls(reported) # <<>>
<1> DEFINE S == Todo(reported)
<1>1. IsFiniteSet(S)
  BY BoundsAssumption, FS_Subset DEF Todo
<1>2. PICK n \in Nat : n = Cardinality(S)
  BY <1>1, FS_CardinalityType
<1>3. \E f \in [1..n -> S] : IsInjective(f)
  <2>1. PICK f \in Bijection(1..n, S) : TRUE
    BY <1>1, <1>2, FS_CardinalityType DEF ExistsBijection
  <2> QED
    BY <2>1 DEF Bijection, Injection, IsInjective
<1>4. PICK seq \in [1..n -> S] :
        /\ IsInjective(seq)
        /\ HeartbeatCalls(reported) = [i \in DOMAIN seq |-> BeatCall(seq[i], reported)]
  BY <1>2, <1>3 DEF SetToSeq, HeartbeatCalls
<1> PICK u : u = HeartbeatCalls(reported)
  OBVIOUS
<1>5. DOMAIN u = 1..n
  BY <1>4
<1>6. \A i \in 1..n :
        /\ seq[i] \in VMs /\ Live(seq[i]) /\ rows[seq[i]] \in Row
        /\ u[i] = BeatCall(seq[i], reported)
  BY <1>4 DEF Todo, TypeOK, Live
<1>7. S # {} => u # <<>>
  <2>1. S # {} => n # 0
    BY <1>1, <1>2, FS_EmptySet
  <2> QED
    BY <1>5, <2>1
<1>8. \A i \in 1..n : u[i] \in Call /\ u[i].name = rows[seq[i]].name
  BY <1>6, BeatIs
<1>9. u \in Seq(Call)
  <2>1. u \in [1..n -> Call]
    BY <1>4, <1>5, <1>8
  <2> QED
    BY <2>1
<1>10. ASSUME NEW i \in 1..n, NEW j \in 1..n, NamesApart, u[i].name = u[j].name PROVE i = j
  <2>1. seq[i] = seq[j]
    BY <1>6, <1>8, <1>10 DEF NamesApart
  <2> QED
    BY <1>4, <2>1 DEF IsInjective
<1> QED
  BY <1>5, <1>6, <1>7, <1>9, <1>10
-----------------------------------------------------------------------------
\* What every step of a request has to establish.
Good(r) ==
    /\ TypeOK' /\ NamesStep /\ boot' = boot /\ since \subseteq since'
    /\ \A q \in Requests \ {r} : req'[q] = req[q]
    /\ req'[r] # None => Shaped(r)' /\ CallsSound(r)'
    /\ Served(r)

\* A step of r that is Good keeps the invariant: nothing else can break it.
LEMMA GoodIsEnough ==
  ASSUME IInv, NEW r \in Requests, ~boot, Good(r)
  PROVE  IInv'
<1>1. NamesSound' /\ RequestsSound'
  BY RequestsFollow DEF Good, IInv
<1>2. RouteOrWriter'
  BY ServedIsEnough DEF Good, IInv
<1>3. BootAlone'
  BY DEF Good, BootAlone
<1> QED
  BY <1>1, <1>2, <1>3 DEF Good, IInv

\* Names that stay served are served.
LEMMA ServedIfKept ==
  ASSUME NEW r \in Requests, NamesKept,
         \A n \in Names : routes[n] # None => routes'[n] # None,
         \A n \in Names : WillRoute(r, n) => routes'[n] # None \/ WillRoute(r, n)'
  PROVE  Served(r)
BY DEF Served, NamesKept

\* A request begins, and no row gets a name.
LEMMA EnterGood ==
  ASSUME IInv, NEW r \in Requests, NEW request \in Request \cup {None}, Enter(r, request),
         rows' \in [VMs -> Row \cup {None}],
         used' = used \/ \E v \in VMs : used' = used \cup {v},
         ops' \in 0..MaxOps, events' \in [Watchers -> Seq(Event)],
         NamesKept, req'[r] # None => Shaped(r)' /\ CallsSound(r)'
  PROVE  ~boot /\ Good(r)
<1>1. TypeOK' /\ \A q \in Requests \ {r} : req'[q] = req[q]
  BY EnterTyped DEF IInv
<1>2. ~boot /\ boot' = boot /\ since \subseteq since' /\ Idle(r) /\ routes' = routes
  BY DEF Enter
<1>3. \A n : ~WillRoute(r, n)
  BY <1>2 DEF WillRoute, At
<1>4. Served(r)
  BY <1>2, <1>3, ServedIfKept
<1> QED
  BY <1>1, <1>2, <1>4 DEF Good, NamesStep

LEMMA BeginGood ==
  ASSUME IInv, NEW r \in Requests, NEW request \in Request, Begin(r, request),
         rows' \in [VMs -> Row \cup {None}],
         used' = used \/ \E v \in VMs : used' = used \cup {v},
         NamesKept, Shaped(r)' /\ CallsSound(r)'
  PROVE  ~boot /\ Good(r)
<1>1. Enter(r, request) /\ ops' \in 0..MaxOps /\ events' \in [Watchers -> Seq(Event)]
  BY BeginIs DEF IInv
<1> QED
  BY <1>1, EnterGood

\* The record of a request that has read nothing is one.
LEMMA BlankIs == Blank \in Request
<1>1. <<>> \in Seq(Call)
  BY EmptySeq
<1> QED
  BY <1>1 DEF Blank, Request

\* A request begins: it only reads, or takes a new id.
LEMMA BeginKeeps ==
  ASSUME IInv, NEW r \in Requests,
         CreateBegin(r) \/ RenameBegin(r) \/ PortBegin(r) \/ DeleteBegin(r)
  PROVE  IInv'
<1>0. TypeOK /\ NamesSound /\ rows \in [VMs -> Row \cup {None}] /\ req \in [Requests -> Request \cup {None}]
  BY DEF IInv, TypeOK
<1>1. CASE CreateBegin(r)
  <2>1. PICK v \in VMs \ used, n \in Vacant :
          /\ Begin(r, [Blank EXCEPT !.op = "create", !.vm = v, !.name = n])
          /\ used' = used \cup {v} /\ UNCHANGED rows
    BY <1>1 DEF CreateBegin
  <2> DEFINE q == [Blank EXCEPT !.op = "create", !.vm = v, !.name = n]
  <2>2. q \in Request /\ q.op = "create" /\ q.vm = v /\ q.name = n /\ n \in Names
    BY BlankIs DEF Request, Vacant
  <2> HIDE DEF q
  <2>3. Begin(r, q) /\ req'[r] = q /\ NamesKept
    BY <1>0, <2>1 DEF Begin, Enter, NamesKept, q, Live
  <2>4. Shaped(r)' /\ CallsSound(r)'
    BY <2>1, <2>2, <2>3 DEF Shaped, CallsSound
  <2> QED
    BY <1>0, <2>1, <2>2, <2>3, <2>4, BeginGood, GoodIsEnough
<1>2. CASE RenameBegin(r)
  <2>1. PICK v \in VMs, n \in Vacant :
          /\ Begin(r, [Blank EXCEPT !.op = "rename", !.vm = v, !.name = n])
          /\ UNCHANGED <<rows, used>>
    BY <1>2 DEF RenameBegin
  <2> DEFINE q == [Blank EXCEPT !.op = "rename", !.vm = v, !.name = n]
  <2>2. q \in Request /\ q.op = "rename" /\ q.vm = v /\ q.name = n /\ n \in Names
    BY BlankIs DEF Request, Vacant
  <2> HIDE DEF q
  <2>3. Begin(r, q) /\ req'[r] = q /\ NamesKept
    BY <1>0, <2>1 DEF Begin, Enter, NamesKept, q, Live
  <2>4. Shaped(r)' /\ CallsSound(r)'
    BY <2>1, <2>2, <2>3 DEF Shaped, CallsSound
  <2> QED
    BY <1>0, <2>1, <2>2, <2>3, <2>4, BeginGood, GoodIsEnough
<1>3. CASE PortBegin(r)
  <2>1. PICK v \in VMs, p \in Ports :
          /\ Live(v) /\ UNCHANGED <<rows, used>>
          /\ Begin(r, [Blank EXCEPT !.op = "port", !.vm = v, !.port = p, !.seen = rows[v]])
    BY <1>3 DEF PortBegin
  <2> DEFINE q == [Blank EXCEPT !.op = "port", !.vm = v, !.port = p, !.seen = rows[v]]
  <2>2. q \in Request /\ q.op = "port" /\ q.vm = v /\ q.port = p /\ q.seen \in Row
    BY <1>0, <2>1, BlankIs DEF Request, Live
  <2> HIDE DEF q
  <2>3. Begin(r, q) /\ req'[r] = q /\ NamesKept
    BY <1>0, <2>1 DEF Begin, Enter, NamesKept, q, Live
  <2>4. Shaped(r)' /\ CallsSound(r)'
    BY <2>1, <2>2, <2>3 DEF Shaped, CallsSound
  <2> QED
    BY <1>0, <2>1, <2>2, <2>3, <2>4, BeginGood, GoodIsEnough
<1>4. CASE DeleteBegin(r)
  <2>1. PICK v \in VMs :
          /\ Live(v) /\ UNCHANGED <<rows, used>>
          /\ Begin(r, [Blank EXCEPT !.op = "delete", !.vm = v, !.seen = rows[v]])
    BY <1>4 DEF DeleteBegin
  <2> DEFINE q == [Blank EXCEPT !.op = "delete", !.vm = v, !.seen = rows[v]]
  <2>2. q \in Request /\ q.op = "delete" /\ q.vm = v /\ q.seen = rows[v] /\ q.seen \in Row
    BY <1>0, <2>1, BlankIs DEF Request, Live
  <2> HIDE DEF q
  <2>3. Begin(r, q) /\ req'[r] = q /\ NamesKept
    BY <1>0, <2>1 DEF Begin, Enter, NamesKept, q, Live
  <2>4. LeftTo(v, rows[v].name)'
    BY <1>0, <2>1, <2>3 DEF LeftTo, NamesSound, RowsUsed, NamesApart, Live, Begin, Enter
  <2>5. Shaped(r)' /\ CallsSound(r)'
    BY <2>1, <2>2, <2>3, <2>4 DEF Shaped, CallsSound, LeftTo, Live
  <2> QED
    BY <1>0, <2>1, <2>2, <2>3, <2>5, BeginGood, GoodIsEnough
<1> QED
  BY <1>1, <1>2, <1>3, <1>4
\* A call to come is sound in the next state.
ReleasedNext(n) ==
    /\ n \in used'
    /\ \A w \in VMs : rows'[w] # None /\ rows'[w].name = n => n \in again'

CallSoundNext(calls, i) ==
    /\ calls[i].verb # "delete" => calls[i].to \in Routed
    /\ calls[i].verb = "delete" => Covered(calls, i) \/ ReleasedNext(calls[i].name)

\* A request whose calls are sound one by one is sound.
LEMMA CallingSound ==
  ASSUME NEW r, NEW calls \in Seq(Call), req'[r] = Calling(calls), req'[r] # None,
         \A i \in DOMAIN calls : CallSoundNext(calls, i)
  PROVE  Shaped(r)' /\ CallsSound(r)'
<1>1. req'[r].op = "routes" /\ req'[r].calls = calls /\ calls # <<>>
  BY CallingIs
<1>2. Shaped(r)'
  BY <1>1 DEF Shaped
<1>3. CallsSound(r)'
  BY <1>1 DEF CallsSound, CallSound, CallSoundNext, Covered, Released, ReleasedNext, LeftTo, Live
<1> QED
  BY <1>2, <1>3

\* One PUT.
LEMMA PutIs ==
  ASSUME NEW n \in Names, NEW to \in Routed
  PROVE  /\ Put(n, to) \in Call /\ Put(n, to).verb = "put"
         /\ Put(n, to).name = n /\ Put(n, to).to = to
         /\ <<Put(n, to)>> \in Seq(Call) /\ DOMAIN <<Put(n, to)>> = {1}
         /\ <<Put(n, to)>> # <<>> /\ CallSoundNext(<<Put(n, to)>>, 1)
<1>1. /\ Put(n, to) \in Call /\ Put(n, to).verb = "put"
      /\ Put(n, to).name = n /\ Put(n, to).to = to
  BY DEF Put, Call
<1> QED
  BY <1>1 DEF CallSoundNext

\* A VM's row always asks for a route.
LEMMA TargetIsRouted ==
  ASSUME NEW v \in VMs, NEW row \in Row
  PROVE  TargetOf(v, row) \in Routed /\ TargetOf(v, row) # None
BY NoneAssumption DEF TargetOf, Routed, Target, Row

\* A heartbeat has PUTs and writes of statuses before it, and none takes a route away.
LEMMA HeartbeatKeeps ==
  ASSUME IInv, NEW r \in Requests, Heartbeat(r)
  PROVE  IInv'
<1>0. TypeOK /\ rows \in [VMs -> Row \cup {None}] /\ req \in [Requests -> Request \cup {None}]
  BY DEF IInv, TypeOK
<1>1. PICK reported \in SUBSET VMs :
        /\ Todo(reported) # {} /\ Begin(r, Calling(HeartbeatCalls(reported)))
        /\ UNCHANGED <<rows, used>>
  BY DEF Heartbeat, HeartbeatCalls, Todo
<1>2. PICK calls \in Seq(Call) : calls = HeartbeatCalls(reported) /\ calls # <<>>
  BY <1>0, <1>1, HeartbeatCallsAre
<1>3. ASSUME NEW i \in DOMAIN calls PROVE CallSoundNext(calls, i)
  <2>1. PICK v \in VMs : Live(v) /\ calls[i] = BeatCall(v, reported)
    BY <1>0, <1>2, HeartbeatCallsAre
  <2>2. rows[v] \in Row
    BY <1>0, <2>1 DEF Live
  <2>3. calls[i].to \in Routed /\ calls[i].verb # "delete"
    BY <2>1, <2>2, BeatIs
  <2> QED
    BY <2>3 DEF CallSoundNext
<1>4. Calling(calls) \in Request /\ req'[r] = Calling(calls) /\ Begin(r, Calling(calls))
  BY <1>0, <1>1, <1>2, CallingIs DEF Begin, Enter
<1>5. NamesKept /\ rows' \in [VMs -> Row \cup {None}]
  BY <1>0, <1>1 DEF NamesKept, Begin, Enter, Live
<1>6. Shaped(r)' /\ CallsSound(r)'
  BY <1>3, <1>4, CallingSound, NoneAssumption
<1> QED
  BY <1>1, <1>4, <1>5, <1>6, BeginGood, GoodIsEnough

\* A status to be written, with the row that was read.
LEMMA MarkIs ==
  ASSUME NEW v \in VMs, NEW row \in Row, NEW up \in BOOLEAN, NEW c, c = Mark(v, row, up)
  PROVE  /\ c \in Call /\ c.verb = "mark" /\ c.vm = v /\ c.name = row.name
         /\ c.to \in Routed /\ c.to \in {Stopped, [vm |-> v, port |-> row.port]}
<1> DEFINE new == [row EXCEPT !.running = up]
<1>1. new \in Row /\ new.port = row.port
  BY DEF Row
<1>2. TargetOf(v, new) \in Routed /\ TargetOf(v, new) \in {Stopped, [vm |-> v, port |-> row.port]}
  BY <1>1 DEF TargetOf, Routed, Target, Row
<1>3. c = [verb |-> "mark", vm |-> v, name |-> row.name, to |-> TargetOf(v, new)] /\ row.name \in Names
  BY DEF Mark, Row
<1> HIDE DEF new
<1> QED
  BY <1>2, <1>3 DEF Call

\* The first of a watcher's events, and what is left.
LEMMA EventsAre ==
  ASSUME TypeOK, NEW w \in Watchers, events[w] # <<>>
  PROVE  /\ Head(events[w]) \in Event /\ Head(events[w]) = events[w][1]
         /\ 1 \in DOMAIN events[w] /\ Tail(events[w]) \in Seq(Event)
         /\ \A i \in DOMAIN events[w] : i # 1 => /\ i - 1 \in DOMAIN Tail(events[w])
                                               /\ Tail(events[w])[i - 1] = events[w][i]
         /\ \A i \in DOMAIN Tail(events[w]) : /\ i + 1 \in DOMAIN events[w]
                                             /\ Tail(events[w])[i] = events[w][i + 1]
<1> PICK s \in Seq(Event) : s = events[w] /\ s # <<>>
  BY DEF TypeOK
<1>1. Len(s) \in Nat /\ Len(s) > 0 /\ DOMAIN s = 1..Len(s)
  BY LenProperties, EmptySeq
<1>2. Head(s) = s[1] /\ s[1] \in Event
  BY <1>1, ElementOfSeq, HeadTailProperties
<1>3. Tail(s) \in Seq(Event) /\ Len(Tail(s)) = Len(s) - 1 /\ \A i \in 1..Len(Tail(s)) : Tail(s)[i] = s[i + 1]
  BY HeadTailProperties
<1>4. DOMAIN Tail(s) = 1..(Len(s) - 1)
  BY <1>3, LenProperties
<1> QED
  BY <1>1, <1>2, <1>3, <1>4

\* The watcher has a status to write, or nothing.
LEMMA TakeKeeps ==
  ASSUME IInv, NEW r \in Requests, Take(r)
  PROVE  IInv'
<1>0. /\ TypeOK /\ rows \in [VMs -> Row \cup {None}] /\ req \in [Requests -> Request \cup {None}]
      /\ events \in [Watchers -> Seq(Event)] /\ ops \in 0..MaxOps
  BY DEF IInv, TypeOK
<1>1. /\ r \in Watchers /\ events[r] # <<>> /\ events' = [events EXCEPT ![r] = Tail(events[r])]
      /\ UNCHANGED <<rows, used, ops>>
  BY DEF Take
<1>2. PICK e \in Event : e = Head(events[r])
  BY <1>0, <1>1, EventsAre
<1>3. e.vm \in VMs /\ e.running \in BOOLEAN
  BY DEF Event
<1>4. events' \in [Watchers -> Seq(Event)]
  BY <1>0, <1>1, EventsAre
<1>5. PICK x : x = (IF Live(e.vm) THEN Calling(<<Mark(e.vm, rows[e.vm], e.running)>>) ELSE None)
               /\ Enter(r, x)
  BY <1>2 DEF Take
<1>6. req'[r] = x /\ NamesKept
  BY <1>0, <1>1, <1>5 DEF Enter, NamesKept, Live
<1>7. x \in Request \cup {None} /\ (req'[r] # None => Shaped(r)' /\ CallsSound(r)')
  <2>1. CASE ~Live(e.vm)
    BY <1>5, <1>6, <2>1
  <2>2. CASE Live(e.vm)
    <3>1. PICK c \in Call : /\ c = Mark(e.vm, rows[e.vm], e.running)
                            /\ c.verb = "mark" /\ c.to \in Routed
      <4>1. rows[e.vm] \in Row
        BY <1>0, <1>3, <2>2 DEF Live
      <4> QED
        BY <1>3, <4>1, MarkIs
    <3>2. PICK calls \in Seq(Call) : calls = <<c>> /\ DOMAIN calls = {1} /\ calls[1] = c
      <4>1. <<c>> \in Seq(Call) /\ DOMAIN <<c>> = {1}
        OBVIOUS
      <4> QED
        BY <4>1
    <3>3. x = Calling(calls)
      BY <1>5, <2>2, <3>1, <3>2
    <3>4. \A i \in DOMAIN calls : CallSoundNext(calls, i)
      BY <3>1, <3>2 DEF CallSoundNext
    <3> QED
      BY <1>6, <3>3, <3>4, CallingIs, CallingSound
  <2> QED
    BY <2>1, <2>2
<1> QED
  BY <1>0, <1>1, <1>4, <1>5, <1>6, <1>7, EnterGood, GoodIsEnough

\* What is no request's step leaves the requests' routes to come.
LEMMA OthersKeep ==
  ASSUME IInv, TypeOK', UNCHANGED <<req, routes, boot>>, since \subseteq since', NamesSame
  PROVE  IInv'
<1>1. NamesStep
  BY DEF NamesStep, NamesKept, NamesSame, Live
<1>2. NamesSound' /\ used \subseteq used' /\ \A v, n : LeftTo(v, n) => LeftTo(v, n)'
  BY <1>1, NamesFollow DEF IInv
<1>3. RequestsSound'
  <2> SUFFICES ASSUME NEW r \in Requests, req'[r] # None PROVE Shaped(r)' /\ CallsSound(r)'
    BY DEF RequestsSound, Idle
  <2>1. req'[r] = req[r] /\ Shaped(r) /\ CallsSound(r)
    BY DEF IInv, RequestsSound, Idle
  <2> QED
    BY <1>2, <2>1, RequestKept
<1>4. RouteOrWriter'
  <2> SUFFICES ASSUME ~boot', "restart" \notin since', NEW v \in VMs, rows'[v] # None,
                      NEW n \in Names, rows'[v].name = n, n \notin again' \cup since'
               PROVE  routes'[n] # None \/ \E q \in Requests : WillRoute(q, n)'
    <3>1. \A v \in VMs : rows'[v] # None => rows'[v].name \in Names
      BY DEF TypeOK, Row
    <3> QED
      BY <3>1 DEF RouteOrWriter, Live
  <2>0. ~boot /\ "restart" \notin since
    OBVIOUS
  <2>1. n = rows[v].name /\ Live(v) /\ n \notin again \cup since
    BY DEF NamesSame, Live
  <2>2. CASE routes[n] # None
    BY <2>1, <2>2
  <2>3. CASE routes[n] = None
    <3>1. PICK q \in Requests : WillRoute(q, n)
      BY <2>0, <2>1, <2>3 DEF IInv, RouteOrWriter
    <3>2. At(q, "created") => req[q].vm \in VMs
      BY DEF IInv, RequestsSound, Shaped, At
    <3>3. CASE At(q, "created") /\ Live(req[q].vm) /\ rows[req[q].vm].name = n
      <4>1. rows'[req[q].vm] # None /\ rows'[req[q].vm].name = n /\ req' = req
        BY <3>2, <3>3 DEF NamesSame, Live
      <4>2. WillRoute(q, n)'
        BY <3>3, <4>1 DEF WillRoute, At, Idle, Live
      <4> QED
        BY <4>2
    <3>4. CASE At(q, "routes") /\ \E c \in Range(req[q].calls) : c.name = n /\ c.verb # "delete"
      <4>1. req' = req
        OBVIOUS
      <4>2. WillRoute(q, n)'
        BY <3>4, <4>1 DEF WillRoute, At, Idle
      <4> QED
        BY <4>2
    <3> QED
      BY <3>1, <3>3, <3>4 DEF WillRoute
  <2> QED
    BY <2>2, <2>3
<1>5. BootAlone'
  BY DEF IInv, BootAlone, Idle
<1> QED
  BY <1>2, <1>3, <1>4, <1>5 DEF IInv

\* The agents' writes, with events or without, and events that are lost.
LEMMA AgentKeeps ==
  ASSUME IInv,
         AgentIsSilent \/ \E w \in Watchers : AgentWrites(w) \/ AgentRecovers(w) \/ StreamBreaks(w)
  PROVE  IInv'
<1>0. /\ TypeOK /\ rows \in [VMs -> Row \cup {None}] /\ events \in [Watchers -> Seq(Event)]
      /\ ops \in 0..MaxOps /\ faults \in 0..MaxFaults /\ since \subseteq Excuses
  BY DEF IInv, TypeOK
<1>1. ASSUME NEW v \in VMs, Live(v), NEW up \in BOOLEAN, Written(v, up)
      PROVE  /\ rows' \in [VMs -> Row \cup {None}]
             /\ UNCHANGED <<used, again>> => NamesSame
  <2>1. [rows[v] EXCEPT !.running = up] \in Row /\ [rows[v] EXCEPT !.running = up].name = rows[v].name
    BY <1>0, <1>1 DEF Row, Live
  <2>2. rows' = [rows EXCEPT ![v] = [rows[v] EXCEPT !.running = up]]
    BY <1>1 DEF Written
  <2> QED
    BY <1>0, <1>1, <2>1, <2>2, NoneAssumption DEF NamesSame, Live
<1>2. ASSUME NEW w \in Watchers, NEW v \in VMs, NEW up \in BOOLEAN, Sent(w, v, up)
      PROVE  events' \in [Watchers -> Seq(Event)]
  <2>1. [vm |-> v, running |-> up] \in Event
    BY DEF Event
  <2>2. Append(events[w], [vm |-> v, running |-> up]) \in Seq(Event)
    BY <1>0, <2>1, AppendProperties
  <2> QED
    BY <1>0, <1>2, <2>2 DEF Sent
<1>3. AgentOp => ops' \in 0..MaxOps
  BY <1>0, BoundsAssumption DEF AgentOp
<1>4. \A v \in VMs : Live(v) => (~rows[v].running) \in BOOLEAN
  BY DEF Live
<1>5. CASE AgentIsSilent
  <2>1. PICK v \in VMs : /\ Live(v) /\ AgentOp /\ Written(v, ~rows[v].running)
                         /\ since' = since \cup {"lost"} /\ UNCHANGED events
    BY <1>5 DEF AgentIsSilent
  <2>2. rows' \in [VMs -> Row \cup {None}] /\ NamesSame
    BY <1>1, <1>4, <2>1 DEF AgentOp
  <2>3. TypeOK'
    BY <1>0, <1>3, <2>1, <2>2 DEF TypeOK, AgentOp, Excuses
  <2> QED
    BY <2>1, <2>2, <2>3, OthersKeep DEF AgentOp
<1>6. ASSUME NEW w \in Watchers, AgentWrites(w) PROVE IInv'
  <2>1. PICK v \in VMs : /\ Live(v) /\ AgentOp /\ Written(v, ~rows[v].running)
                         /\ Sent(w, v, ~rows[v].running) /\ UNCHANGED since
    BY <1>6 DEF AgentWrites
  <2>2. rows' \in [VMs -> Row \cup {None}] /\ NamesSame /\ events' \in [Watchers -> Seq(Event)]
    BY <1>1, <1>2, <1>4, <2>1 DEF AgentOp
  <2>3. TypeOK'
    BY <1>0, <1>3, <2>1, <2>2 DEF TypeOK, AgentOp
  <2> QED
    BY <2>1, <2>2, <2>3, OthersKeep DEF AgentOp
<1>7. ASSUME NEW w \in Watchers, AgentRecovers(w) PROVE IInv'
  <2>1. PICK v \in VMs : AgentOp /\ Sent(w, v, TRUE) /\ UNCHANGED <<rows, since>>
    BY <1>7 DEF AgentRecovers
  <2>2. NamesSame /\ events' \in [Watchers -> Seq(Event)]
    BY <1>2, <2>1 DEF AgentOp, NamesSame, Live
  <2>3. TypeOK'
    BY <1>0, <1>3, <2>1, <2>2 DEF TypeOK, AgentOp
  <2> QED
    BY <2>1, <2>2, <2>3, OthersKeep DEF AgentOp
<1>8. ASSUME NEW w \in Watchers, StreamBreaks(w) PROVE IInv'
  <2>1. /\ UNCHANGED <<rows, used, again, routes, req, boot, ops>> /\ Fault({"lost"})
        /\ events' = [events EXCEPT ![w] = <<>>]
    BY <1>8 DEF StreamBreaks
  <2>2. <<>> \in Seq(Event)
    BY EmptySeq
  <2>3. NamesSame /\ events' \in [Watchers -> Seq(Event)]
    BY <1>0, <2>1, <2>2 DEF NamesSame, Live
  <2>4. faults' \in 0..MaxFaults /\ since \subseteq since' /\ since' \subseteq Excuses
    BY <1>0, <2>1, BoundsAssumption DEF Fault, Excuses
  <2>5. TypeOK'
    BY <1>0, <2>1, <2>3, <2>4 DEF TypeOK
  <2> QED
    BY <2>1, <2>3, <2>4, <2>5, OthersKeep
<1> QED
  BY <1>5, <1>6, <1>7, <1>8
-----------------------------------------------------------------------------
\* A request goes on with some calls, or ends.
LEMMA ProceedIs ==
  ASSUME TypeOK, NEW r \in Requests, NEW calls \in Seq(Call), Proceed(r, calls)
  PROVE  /\ req'[r] = Calling(calls) /\ req' \in [Requests -> Request \cup {None}]
         /\ \A q \in Requests \ {r} : req'[q] = req[q]
         /\ calls = <<>> => req'[r] = None
         /\ calls # <<>> => /\ req'[r] # None /\ req'[r].op = "routes"
                            /\ req'[r].calls = calls
<1>1. req \in [Requests -> Request \cup {None}] /\ req' = [req EXCEPT ![r] = Calling(calls)]
  BY DEF TypeOK, Proceed
<1>2. /\ Calling(calls) \in Request \cup {None} /\ calls = <<>> => Calling(calls) = None
      /\ calls # <<>> => Calling(calls) # None
  BY CallingIs DEF Calling
<1> QED
  BY <1>1, <1>2, CallingIs

\* A request that goes on or is given up, while no row gets a name.
LEMMA GivenUpGood ==
  ASSUME IInv, NEW r \in Requests, ~Idle(r), NEW calls \in Seq(Call), Proceed(r, calls),
         \A i \in DOMAIN calls : CallSoundNext(calls, i),
         rows' \in [VMs -> Row \cup {None}], NamesKept,
         UNCHANGED <<used, again, events, boot, ops, routes>>,
         since \subseteq since', since' \subseteq Excuses, faults' \in 0..MaxFaults,
         \A n \in Names : WillRoute(r, n) => WillRoute(r, n)' \/ n \in since'
  PROVE  IInv'
<1>1. TypeOK /\ ~boot
  BY DEF IInv, BootAlone
<1>2. /\ req'[r] = Calling(calls) /\ req' \in [Requests -> Request \cup {None}]
      /\ \A q \in Requests \ {r} : req'[q] = req[q]
  BY <1>1, ProceedIs
<1>3. TypeOK'
  BY <1>1, <1>2 DEF TypeOK
<1>4. req'[r] # None => Shaped(r)' /\ CallsSound(r)'
  BY <1>2, CallingSound
<1>5. Served(r)
  BY DEF Served, NamesKept
<1>6. NamesStep /\ boot' = boot /\ since \subseteq since'
  BY DEF NamesStep
<1>7. Good(r)
  BY <1>2, <1>3, <1>4, <1>5, <1>6 DEF Good
<1> QED
  BY <1>1, <1>7, GoodIsEnough

\* A request that goes on, while no row gets a name.
LEMMA ProceedGood ==
  ASSUME IInv, NEW r \in Requests, ~Idle(r), NEW calls \in Seq(Call), Proceed(r, calls),
         \A i \in DOMAIN calls : CallSoundNext(calls, i),
         rows' \in [VMs -> Row \cup {None}], NamesKept, KeepAll, UNCHANGED <<routes, since>>,
         \A n \in Names : WillRoute(r, n) => WillRoute(r, n)'
  PROVE  IInv'
<1>1. /\ UNCHANGED <<used, again, events, boot, ops, routes>> /\ since \subseteq since'
      /\ since' \subseteq Excuses /\ faults' \in 0..MaxFaults
  BY DEF KeepAll, IInv, TypeOK
<1> QED
  BY <1>1, GivenUpGood

\* A fault keeps the types.
LEMMA FaultIs ==
  ASSUME TypeOK, NEW names \in SUBSET Excuses, Fault(names)
  PROVE  /\ faults' \in 0..MaxFaults /\ since \subseteq since' /\ since' \subseteq Excuses
         /\ names \subseteq since'
<1>1. faults \in 0..MaxFaults /\ since \subseteq Excuses
  BY DEF TypeOK
<1> QED
  BY <1>1, BoundsAssumption DEF Fault

\* A handler that is dropped owed its routes to some names: those are remembered.
LEMMA HandlerDroppedKeeps ==
  ASSUME IInv, NEW r \in Requests, HandlerDropped(r)
  PROVE  IInv'
<1>0. /\ TypeOK /\ ~Idle(r) /\ req \in [Requests -> Request \cup {None}]
      /\ req' = [req EXCEPT ![r] = None] /\ Fault(Owed(r))
      /\ UNCHANGED <<rows, used, again, routes, events, boot, ops>>
  BY DEF IInv, TypeOK, HandlerDropped
<1>1. Owed(r) \in SUBSET Excuses
  BY DEF Owed, Excuses
<1>2. /\ faults' \in 0..MaxFaults /\ since \subseteq since' /\ since' \subseteq Excuses
      /\ Owed(r) \subseteq since'
  BY <1>0, <1>1, FaultIs
<1>3. <<>> \in Seq(Call) /\ Proceed(r, <<>>) /\ \A i \in DOMAIN <<>> : CallSoundNext(<<>>, i)
  BY <1>0, EmptySeq DEF Proceed, Calling
<1>4. rows' \in [VMs -> Row \cup {None}] /\ NamesKept
  BY <1>0 DEF TypeOK, NamesKept, Live
<1>5. \A n \in Names : WillRoute(r, n) => n \in since'
  BY <1>2 DEF WillRoute, Owed
<1> QED
  BY <1>0, <1>2, <1>3, <1>4, <1>5, GivenUpGood

\* A create that has its row goes on to its PUT.
LEMMA EndOfCreateKeeps ==
  ASSUME IInv, NEW r \in Requests, CreateRoute(r)
  PROVE  IInv'
<1>0. /\ TypeOK /\ ~Idle(r) /\ req[r].op = "created" /\ req[r].vm \in VMs
      /\ rows \in [VMs -> Row \cup {None}]
  BY DEF IInv, TypeOK, CreateRoute, At, RequestsSound, Shaped
<1> DEFINE row == rows[req[r].vm]
           calls == IF row = None THEN <<>> ELSE <<Put(row.name, Stopped)>>
<1>1. Proceed(r, calls) /\ UNCHANGED <<rows, routes, since>> /\ KeepAll
  BY DEF CreateRoute
<1>2. row # None => row.name \in Names
  BY <1>0 DEF Row
<1>3. /\ calls \in Seq(Call) /\ \A i \in DOMAIN calls : CallSoundNext(calls, i)
  <2>1. CASE row = None
    BY <2>1, EmptySeq
  <2>2. CASE row # None
    BY <1>2, <2>2, PutIs DEF Routed
  <2> QED
    BY <2>1, <2>2
<1>4. NamesKept
  BY <1>1 DEF NamesKept, KeepAll, Live
<1>5. ASSUME NEW n \in Names, WillRoute(r, n) PROVE WillRoute(r, n)'
  <2>1. row # None /\ row.name = n
    BY <1>0, <1>5 DEF WillRoute, At, Live
  <2>2. calls = <<Put(n, Stopped)>> /\ calls # <<>>
    BY <2>1
  <2>3. req'[r] # None /\ req'[r].op = "routes" /\ req'[r].calls = <<Put(n, Stopped)>>
    BY <1>0, <1>1, <1>3, <2>2, ProceedIs, ZenonT(30)
  <2>4. Put(n, Stopped) \in Range(<<Put(n, Stopped)>>)
    BY DEF Range
  <2> QED
    BY <2>3, <2>4, PutIs DEF WillRoute, At, Idle, Put
<1> HIDE DEF calls
<1> QED
  BY <1>0, <1>1, <1>3, <1>4, <1>5, ProceedGood

\* A rename reads the row whose name it will release.
LEMMA RenameReadKeeps ==
  ASSUME IInv, NEW r \in Requests, RenameRead(r)
  PROVE  IInv'
<1>0. /\ TypeOK /\ NamesSound /\ ~boot /\ ~Idle(r) /\ req[r].op = "rename"
      /\ req[r] \in Request /\ req[r].vm \in VMs /\ req[r].name \in Names
      /\ rows \in [VMs -> Row \cup {None}] /\ req \in [Requests -> Request \cup {None}]
  BY DEF IInv, TypeOK, RenameRead, At, RequestsSound, Shaped, Idle, BootAlone
<1> DEFINE v == req[r].vm
           x == IF rows[v] = None THEN None
                ELSE [req[r] EXCEPT !.op = "renaming", !.seen = rows[v]]
<1>1. req' = [req EXCEPT ![r] = x] /\ UNCHANGED <<rows, routes, since, used, again, events, boot, ops, faults>>
  BY DEF RenameRead, KeepAll
<1>2. x # None => /\ x \in Request /\ x.op = "renaming" /\ x.vm = v /\ x.name = req[r].name
                  /\ x.seen = rows[v] /\ x.seen \in Row /\ Live(v)
  BY <1>0 DEF Request, Live
<1> HIDE DEF x
<1>3. /\ req' \in [Requests -> Request \cup {None}] /\ req'[r] = x
      /\ \A q \in Requests \ {r} : req'[q] = req[q]
  <2>1. x \in Request \cup {None}
    BY <1>2
  <2> QED
    BY <1>0, <1>1, <2>1
<1>4. TypeOK' /\ NamesKept
  BY <1>0, <1>1, <1>3 DEF TypeOK, NamesKept, Live
<1>5. ASSUME x # None PROVE Shaped(r)' /\ CallsSound(r)'
  <2>1. LeftTo(v, rows[v].name)
    BY <1>0, <1>2, <1>5 DEF LeftTo, NamesSound, RowsUsed, NamesApart
  <2>2. Shaped(r)'
    BY <1>0, <1>1, <1>2, <1>3, <1>5, <2>1 DEF Shaped, LeftTo, Live
  <2>3. CallsSound(r)'
    BY <1>2, <1>3, <1>5 DEF CallsSound
  <2> QED
    BY <2>2, <2>3
<1>6. Served(r)
  <2>1. \A n : ~WillRoute(r, n)
    BY <1>0 DEF WillRoute, At
  <2> QED
    BY <1>1, <1>4, <2>1, ServedIfKept
<1>7. Good(r)
  BY <1>1, <1>3, <1>4, <1>5, <1>6 DEF Good, NamesStep
<1> QED
  BY <1>0, <1>7, GoodIsEnough

\* A new port: the PUT that follows is of the name read before.
LEMMA PortRowKeeps ==
  ASSUME IInv, NEW r \in Requests, PortRow(r)
  PROVE  IInv'
<1>0. /\ TypeOK /\ ~Idle(r) /\ req[r].op = "port" /\ req[r].vm \in VMs
      /\ req[r].port \in Ports /\ req[r].seen \in Row
      /\ rows \in [VMs -> Row \cup {None}]
  BY DEF IInv, TypeOK, PortRow, At, RequestsSound, Shaped
<1> DEFINE v == req[r].vm
           to == [vm |-> v, port |-> req[r].port]
           calls == IF req[r].seen.running THEN <<Put(req[r].seen.name, to)>> ELSE <<>>
<1>1. /\ rows' = IF Live(v) THEN [rows EXCEPT ![v].port = req[r].port] ELSE rows
      /\ Proceed(r, calls) /\ UNCHANGED <<routes, since>> /\ KeepAll
  BY DEF PortRow
<1>2. to \in Routed /\ req[r].seen.name \in Names
  BY <1>0 DEF Routed, Target, Row
<1>3. /\ calls \in Seq(Call) /\ \A i \in DOMAIN calls : CallSoundNext(calls, i)
  <2>1. CASE req[r].seen.running
    BY <1>2, <2>1, PutIs
  <2>2. CASE ~req[r].seen.running
    BY <2>2, EmptySeq
  <2> QED
    BY <2>1, <2>2
<1> HIDE DEF calls
<1>4. rows' \in [VMs -> Row \cup {None}] /\ NamesKept
  <2>1. CASE Live(v)
    <3>1. [rows[v] EXCEPT !.port = req[r].port] \in Row
      BY <1>0, <2>1 DEF Row, Live
    <3>2. rows' = [rows EXCEPT ![v] = [rows[v] EXCEPT !.port = req[r].port]]
      BY <1>1, <2>1
    <3>3. [rows[v] EXCEPT !.port = req[r].port].name = rows[v].name
      BY <1>0, <2>1 DEF Row, Live
    <3> QED
      BY <1>0, <1>1, <2>1, <3>1, <3>2, <3>3 DEF NamesKept, KeepAll, Live
  <2>2. CASE ~Live(v)
    BY <1>0, <1>1, <2>2 DEF NamesKept, KeepAll, Live
  <2> QED
    BY <2>1, <2>2
<1>5. \A n : ~WillRoute(r, n)
  BY <1>0 DEF WillRoute, At
<1> QED
  BY <1>0, <1>1, <1>3, <1>4, <1>5, ProceedGood

\* A row goes, and with it the last claim to the name whose route is to be deleted.
LEMMA DeleteRowKeeps ==
  ASSUME IInv, NEW r \in Requests, DeleteRow(r)
  PROVE  IInv'
<1>0. /\ TypeOK /\ ~Idle(r) /\ req[r].op = "delete" /\ req[r].vm \in VMs
      /\ req[r].seen \in Row /\ rows \in [VMs -> Row \cup {None}]
      /\ LeftTo(req[r].vm, req[r].seen.name)
  BY DEF IInv, TypeOK, DeleteRow, At, RequestsSound, Shaped
<1> DEFINE v == req[r].vm
           n == req[r].seen.name
           refused == ~Live(v) \/ (Live(v) /\ rows[v].running)
           calls == IF refused THEN <<>> ELSE <<DeleteCall(n)>>
<1>1. /\ rows' = IF refused THEN rows ELSE [rows EXCEPT ![v] = None]
      /\ Proceed(r, calls) /\ UNCHANGED <<routes, since>> /\ KeepAll
  BY DEF DeleteRow
<1>2. DeleteCall(n) \in Call /\ DeleteCall(n).verb = "delete" /\ DeleteCall(n).name = n
  BY <1>0 DEF DeleteCall, Call, Row
<1>3. calls \in Seq(Call) /\ \A i \in DOMAIN calls : CallSoundNext(calls, i)
  <2>1. CASE refused
    BY <2>1, EmptySeq
  <2>2. CASE ~refused
    <3>1. ReleasedNext(n)
      BY <1>0, <1>1, <2>2 DEF ReleasedNext, LeftTo, KeepAll, Live
    <3> QED
      BY <1>2, <2>2, <3>1 DEF CallSoundNext
  <2> QED
    BY <2>1, <2>2
<1> HIDE DEF calls
<1>4. rows' \in [VMs -> Row \cup {None}] /\ NamesKept
  BY <1>0, <1>1 DEF NamesKept, KeepAll, Live
<1>5. \A m : ~WillRoute(r, m)
  BY <1>0 DEF WillRoute, At
<1> QED
  BY <1>0, <1>1, <1>3, <1>4, <1>5, ProceedGood
\* A row goes, and its request does not know.
LEMMA DeleteUnansweredKeeps ==
  ASSUME IInv, NEW r \in Requests, DeleteUnanswered(r)
  PROVE  IInv'
<1>0. /\ TypeOK /\ ~Idle(r) /\ req[r].op = "delete" /\ req[r].vm \in VMs
      /\ req[r].seen.name \in Names /\ rows \in [VMs -> Row \cup {None}]
  BY DEF IInv, TypeOK, DeleteUnanswered, At, RequestsSound, Shaped, Row
<1>1. /\ rows' = [rows EXCEPT ![req[r].vm] = None] /\ Proceed(r, <<>>)
      /\ Fault({req[r].seen.name}) /\ UNCHANGED <<used, again, routes, events, boot, ops>>
  BY DEF DeleteUnanswered
<1>2. faults' \in 0..MaxFaults /\ since \subseteq since' /\ since' \subseteq Excuses
  BY <1>0, <1>1, FaultIs DEF Excuses
<1>3. rows' \in [VMs -> Row \cup {None}] /\ NamesKept
  BY <1>0, <1>1 DEF NamesKept, Live
<1>4. <<>> \in Seq(Call) /\ \A i \in DOMAIN <<>> : CallSoundNext(<<>>, i)
  BY EmptySeq
<1>5. \A n : ~WillRoute(r, n)
  BY <1>0 DEF WillRoute, At
<1> QED
  BY <1>0, <1>1, <1>2, <1>3, <1>4, <1>5, GivenUpGood

\* A row gets a name, and its request is about to route it, or gives it up.
LEMMA NamedServed ==
  ASSUME NEW r \in Requests, NEW v \in VMs, NEW m \in Names, Named(v, m), routes' = routes,
         \A n \in Names : ~WillRoute(r, n),
         rows'[v] # None => WillRoute(r, m)' \/ m \in since'
  PROVE  Served(r)
<1> SUFFICES ASSUME NEW w \in VMs, NEW n \in Names,
                    rows'[w] # None, rows'[w].name = n, n \notin again' \cup since'
             PROVE  \/ routes'[n] # None
                    \/ WillRoute(r, n)'
                    \/ Live(w) /\ rows[w].name = n /\ routes[n] = None /\ ~WillRoute(r, n)
  BY DEF Served
<1>1. CASE w = v
  <2>1. n = m
    BY <1>1 DEF Named
  <2> QED
    BY <1>1, <2>1
<1>2. CASE w # v
  BY <1>2 DEF Named
<1> QED
  BY <1>1, <1>2

\* A row is inserted under a name that no row has.
LEMMA InsertIs ==
  ASSUME IInv, NEW v \in VMs, v \in used, NEW n \in Names, n \notin Taken, Insert(v, n)
  PROVE  /\ rows' \in [VMs -> Row \cup {None}] /\ rows'[v] # None /\ rows'[v].name = n
         /\ Named(v, n)
         /\ used' \subseteq VMs \cup Names /\ again' \subseteq used'
         /\ UNCHANGED <<routes, events, boot, ops>>
<1>0. /\ rows \in [VMs -> Row \cup {None}] /\ used \subseteq VMs \cup Names /\ again \subseteq used
  BY DEF IInv, TypeOK
<1>1. PICK p \in Ports :
        /\ rows' = [rows EXCEPT ![v] = [name |-> n, port |-> p, running |-> FALSE]]
        /\ Give(n) /\ UNCHANGED <<routes, events, boot, ops>>
  BY DEF Insert
<1>2. [name |-> n, port |-> p, running |-> FALSE] \in Row
  BY DEF Row
<1>3. /\ rows' \in [VMs -> Row \cup {None}] /\ rows'[v] # None /\ rows'[v].name = n
      /\ \A w \in VMs \ {v} : rows'[w] = rows[w]
  BY <1>0, <1>1, <1>2, NoneAssumption
<1>4. Named(v, n)
  BY <1>1, <1>3 DEF Named, Give, Live
<1> QED
  BY <1>0, <1>1, <1>3, <1>4 DEF Give

\* A new row has no route yet, but its create is under way, or was given up.
LEMMA CreateRowKeeps ==
  ASSUME IInv, NEW r \in Requests, CreateRow(r) \/ CreateUnanswered(r) \/ CreateRefused(r)
  PROVE  IInv'
<1>0. /\ TypeOK /\ NamesSound /\ ~boot /\ ~Idle(r) /\ req[r].op = "create"
      /\ req[r] \in Request /\ req[r].vm \in VMs /\ req[r].vm \in used /\ req[r].name \in Names
      /\ rows \in [VMs -> Row \cup {None}] /\ req \in [Requests -> Request \cup {None}]
  BY DEF IInv, TypeOK, CreateRow, CreateUnanswered, CreateRefused, At, RequestsSound, Shaped,
     Idle, BootAlone
<1>1. \A n : ~WillRoute(r, n)
  BY <1>0 DEF WillRoute, At
<1>2. <<>> \in Seq(Call) /\ \A i \in DOMAIN <<>> : CallSoundNext(<<>>, i)
  BY EmptySeq
<1> PICK v \in VMs : v = req[r].vm
  BY <1>0
<1> PICK n \in Names : n = req[r].name
  BY <1>0
<1>3. CASE CreateRefused(r)
  <2>1. /\ Proceed(r, <<>>) /\ UNCHANGED <<rows, routes, since>> /\ KeepAll
        /\ rows' \in [VMs -> Row \cup {None}] /\ NamesKept
    BY <1>0, <1>3 DEF CreateRefused, NamesKept, KeepAll, Live
  <2> QED
    BY <1>0, <1>1, <1>2, <2>1, ProceedGood
<1>4. CASE CreateRow(r)
  <2> DEFINE x == [req[r] EXCEPT !.op = "created"]
  <2>1. x \in Request /\ x.op = "created" /\ x.vm = v /\ x.name = n
    BY <1>0 DEF Request
  <2>2. /\ req' = [req EXCEPT ![r] = x] /\ n \notin Taken /\ Insert(v, n)
        /\ UNCHANGED <<since, faults>>
    BY <1>4 DEF CreateRow
  <2> HIDE DEF x
  <2>3. req'[r] = x /\ req' \in [Requests -> Request \cup {None}]
        /\ \A q \in Requests \ {r} : req'[q] = req[q]
    BY <1>0, <2>1, <2>2
  <2>4. /\ rows' \in [VMs -> Row \cup {None}] /\ rows'[v] # None /\ rows'[v].name = n
        /\ Named(v, n)
        /\ used' \subseteq VMs \cup Names /\ again' \subseteq used'
        /\ UNCHANGED <<routes, events, boot, ops>>
    BY <1>0, <2>2, InsertIs
  <2>5. TypeOK'
    BY <1>0, <2>2, <2>3, <2>4 DEF TypeOK
  <2>6. Shaped(r)' /\ CallsSound(r)'
    BY <1>0, <2>1, <2>3 DEF Shaped, CallsSound
  <2>7. WillRoute(r, n)'
    BY <2>1, <2>3, <2>4, NoneAssumption DEF WillRoute, At, Idle, Live
  <2>8. Served(r)
    BY <1>1, <2>4, <2>7, NamedServed
  <2>9. Good(r)
    BY <2>2, <2>3, <2>4, <2>5, <2>6, <2>8 DEF Good, NamesStep
  <2> QED
    BY <1>0, <2>9, GoodIsEnough
<1>5. CASE CreateUnanswered(r)
  <2>1. Proceed(r, <<>>) /\ n \notin Taken /\ Insert(v, n) /\ Fault({n})
    BY <1>5 DEF CreateUnanswered
  <2>2. /\ req'[r] = None /\ req' \in [Requests -> Request \cup {None}]
        /\ \A q \in Requests \ {r} : req'[q] = req[q]
    BY <1>0, <1>2, <2>1, ProceedIs
  <2>3. /\ rows' \in [VMs -> Row \cup {None}] /\ Named(v, n)
        /\ used' \subseteq VMs \cup Names /\ again' \subseteq used'
        /\ UNCHANGED <<routes, events, boot, ops>>
    BY <1>0, <2>1, InsertIs
  <2>0. {n} \subseteq Excuses
    BY DEF Excuses
  <2>4. /\ faults' \in 0..MaxFaults /\ since \subseteq since' /\ since' \subseteq Excuses
        /\ n \in since'
    BY <1>0, <2>0, <2>1, FaultIs
  <2>5. TypeOK'
    BY <1>0, <2>2, <2>3, <2>4 DEF TypeOK
  <2>6. Served(r)
    BY <1>1, <2>3, <2>4, NamedServed
  <2>7. Good(r)
    BY <2>2, <2>3, <2>4, <2>5, <2>6 DEF Good, NamesStep
  <2> QED
    BY <1>0, <2>7, GoodIsEnough
<1> QED
  BY <1>3, <1>4, <1>5

\* A row changes its name: the old one is released, the new one is about to be routed.
LEMMA RenameRowKeeps ==
  ASSUME IInv, NEW r \in Requests, RenameRow(r)
  PROVE  IInv'
<1>0. /\ TypeOK /\ NamesSound /\ ~boot /\ ~Idle(r) /\ req[r].op = "renaming"
      /\ req[r].vm \in VMs /\ req[r].name \in Names /\ req[r].seen \in Row
      /\ rows \in [VMs -> Row \cup {None}] /\ req \in [Requests -> Request \cup {None}]
      /\ used \subseteq VMs \cup Names /\ again \subseteq used
      /\ LeftTo(req[r].vm, req[r].seen.name)
  BY DEF IInv, TypeOK, RenameRow, At, RequestsSound, Shaped, Idle, BootAlone
<1>1. UNCHANGED <<routes, events, boot, since, ops, faults>>
  BY DEF RenameRow
<1>2. \A n : ~WillRoute(r, n)
  BY <1>0 DEF WillRoute, At
<1>3. CASE Proceed(r, <<>>) /\ UNCHANGED <<rows, used, again>>
  <2>1. KeepAll /\ NamesKept /\ UNCHANGED <<routes, since>>
    BY <1>1, <1>3 DEF NamesKept, KeepAll, Live
  <2>2. <<>> \in Seq(Call) /\ \A i \in DOMAIN <<>> : CallSoundNext(<<>>, i)
    BY EmptySeq
  <2> QED
    BY <1>0, <1>2, <1>3, <2>1, <2>2, ProceedGood
<1> DEFINE v == req[r].vm
           seen == req[r].seen
<1> PICK n \in Names : n = req[r].name
  BY <1>0
<1> DEFINE calls == <<Put(n, TargetOf(v, seen)), DeleteCall(seen.name)>>
<1>4. CASE /\ n \notin Taken /\ Give(n) /\ Proceed(r, calls)
           /\ rows' = IF Live(v) THEN [rows EXCEPT ![v].name = n] ELSE rows
  <2>1. /\ Put(n, TargetOf(v, seen)) \in Call /\ Put(n, TargetOf(v, seen)).verb = "put"
        /\ Put(n, TargetOf(v, seen)).name = n /\ Put(n, TargetOf(v, seen)).to \in Routed
    <3>1. TargetOf(v, seen) \in Routed
      BY <1>0, TargetIsRouted
    <3> QED
      BY <3>1, PutIs
  <2>2. /\ DeleteCall(seen.name) \in Call /\ DeleteCall(seen.name).verb = "delete"
        /\ DeleteCall(seen.name).name = seen.name
    BY <1>0 DEF DeleteCall, Call, Row
  <2>3. /\ rows' \in [VMs -> Row \cup {None}]
        /\ rows'[v] # None => Live(v) /\ rows'[v].name = n
        /\ \A w \in VMs \ {v} : rows'[w] = rows[w]
    <3>1. CASE Live(v)
      <4>1. [rows[v] EXCEPT !.name = n] \in Row /\ [rows[v] EXCEPT !.name = n].name = n
        BY <1>0, <3>1 DEF Row, Live
      <4>2. rows' = [rows EXCEPT ![v] = [rows[v] EXCEPT !.name = n]]
        BY <1>4, <3>1
      <4> QED
        BY <1>0, <3>1, <4>1, <4>2
    <3>2. CASE ~Live(v)
      BY <1>0, <1>4, <3>2 DEF Live
    <3> QED
      BY <3>1, <3>2
  <2>4. Named(v, n)
    BY <1>0, <1>4, <2>3 DEF Named, Give, Live, NamesSound, RowsUsed
  <2>5. ReleasedNext(seen.name)
    BY <1>0, <2>3, <2>4 DEF ReleasedNext, LeftTo, Named, Live
  <2>6. calls \in Seq(Call) /\ \A i \in DOMAIN calls : CallSoundNext(calls, i)
    BY <2>1, <2>2, <2>5 DEF CallSoundNext
  <2>7. Put(n, TargetOf(v, seen)) \in Range(calls) /\ calls # <<>>
    BY DEF Range
  <2> HIDE DEF calls
  <2>8. /\ req'[r] = Calling(calls) /\ req' \in [Requests -> Request \cup {None}]
        /\ \A q \in Requests \ {r} : req'[q] = req[q]
        /\ req'[r] # None /\ req'[r].op = "routes" /\ req'[r].calls = calls
    BY <1>0, <1>4, <2>6, <2>7, ProceedIs
  <2>9. TypeOK'
    BY <1>0, <1>1, <1>4, <2>3, <2>8 DEF TypeOK, Give
  <2>10. Shaped(r)' /\ CallsSound(r)'
    BY <2>6, <2>8, CallingSound
  <2>11. WillRoute(r, n)'
    BY <2>1, <2>7, <2>8 DEF WillRoute, At, Idle
  <2>12. Served(r)
    BY <1>0, <1>1, <1>2, <2>4, <2>11, NamedServed
  <2>13. Good(r)
    BY <1>0, <1>1, <2>4, <2>8, <2>9, <2>10, <2>12 DEF Good, NamesStep
  <2> QED
    BY <1>0, <2>13, GoodIsEnough
<1> QED
  BY <1>3, <1>4 DEF RenameRow
-----------------------------------------------------------------------------
\* A request with calls to make is about to route the names of its PUTs and POSTs.
Routing(calls, n) == \E i \in DOMAIN calls : calls[i].name = n /\ calls[i].verb # "delete"

\* Whether a request will route a name depends on its calls alone.
LEMMA RoutingIs ==
  ASSUME TypeOK, NEW r \in Requests, At(r, "routes")
  PROVE  \A n : WillRoute(r, n) <=> Routing(req[r].calls, n)
BY DEF WillRoute, At, Routing, Range

\* Caddy answers a call, and the request goes on.
LEMMA AnsweredGood ==
  ASSUME IInv, NEW r \in Requests, At(r, "routes"),
         NEW s \in Seq(Call), s = req[r].calls,
         NEW u \in Seq(Call), Proceed(r, u), NamesSame, rows' \in [VMs -> Row \cup {None}],
         UNCHANGED <<events, boot, ops>>,
         since \subseteq since', since' \subseteq Excuses, faults' \in 0..MaxFaults,
         routes' \in [Names -> Routed \cup {None}],
         \A i \in DOMAIN u : CallSoundNext(u, i),
         \A n \in Names \ since' :
            /\ routes[n] # None => routes'[n] # None \/ Routing(u, n) \/ Released(n)
            /\ Routing(s, n) => routes'[n] # None \/ Routing(u, n)
  PROVE  IInv'
<1>1. TypeOK /\ ~boot
  BY DEF IInv, BootAlone, At
<1>2. /\ req'[r] = Calling(u) /\ req' \in [Requests -> Request \cup {None}]
      /\ \A q \in Requests \ {r} : req'[q] = req[q]
      /\ u # <<>> => req'[r] # None /\ req'[r].op = "routes" /\ req'[r].calls = u
  BY <1>1, ProceedIs
<1>3. TypeOK'
  BY <1>1, <1>2 DEF TypeOK, NamesSame
<1>4. req'[r] # None => Shaped(r)' /\ CallsSound(r)'
  BY <1>2, CallingSound
<1>5. NamesStep
  BY DEF NamesStep, NamesKept, NamesSame, Live
<1>6. NamesSound' /\ RequestsSound' /\ BootAlone'
  BY <1>1, <1>2, <1>4, <1>5, RequestsFollow DEF IInv, BootAlone
<1>7. RouteOrWriter'
  <2>1. Served(r)
    <3> SUFFICES ASSUME NEW v \in VMs, NEW n \in Names, rows'[v] # None, rows'[v].name = n,
                        n \notin again' \cup since', routes'[n] = None, ~WillRoute(r, n)'
                 PROVE  Live(v) /\ rows[v].name = n /\ routes[n] = None /\ ~WillRoute(r, n)
      BY DEF Served
    <3>1. ~Routing(u, n)
      <4> SUFFICES ASSUME Routing(u, n) PROVE FALSE
        OBVIOUS
      <4>1. u # <<>>
        BY DEF Routing
      <4>2. req'[r] # None /\ req'[r].op = "routes" /\ req'[r].calls = u
        BY <1>2, <4>1
      <4> QED
        BY <4>2 DEF WillRoute, At, Idle, Routing, Range
    <3>2. Live(v) /\ rows[v].name = n /\ again' = again
      BY DEF NamesSame, Live
    <3>3. ~Released(n)
      BY <3>2, NoneAssumption DEF Released, LeftTo
    <3>4. routes[n] = None /\ ~Routing(s, n)
      BY <3>1, <3>3
    <3> QED
      BY <1>1, <3>2, <3>4, RoutingIs
  <2> QED
    BY <1>3, <1>2, <1>5, <2>1, ServedIsEnough DEF IInv
<1> QED
  BY <1>3, <1>6, <1>7 DEF IInv

\* The calls after the first stay sound, whatever is put before them.
LEMMA RestSound ==
  ASSUME NEW s \in Seq(Call), s # <<>>, NEW t \in Seq(Call),
         NamesSame,
         \A i \in DOMAIN s : CallSound(s, i),
         \A i \in 1..Len(t) : CallSoundNext(t \o Tail(s), i)
  PROVE  /\ t \o Tail(s) \in Seq(Call)
         /\ \A i \in DOMAIN (t \o Tail(s)) : CallSoundNext(t \o Tail(s), i)
         /\ \A n : Routing(t \o Tail(s), n) <=>
                     Routing(t, n) \/ \E i \in 2..Len(s) : s[i].name = n /\ s[i].verb # "delete"
<1> PICK u \in Seq(Call) : u = t \o Tail(s)
  BY Advanced
<1>1. /\ Len(u) = Len(t) + Len(s) - 1 /\ Len(t) \in Nat /\ Len(s) \in Nat /\ Len(s) > 0
      /\ \A i \in 1..Len(t) : u[i] = t[i]
      /\ \A i \in 2..Len(s) : u[Len(t) + i - 1] = s[i]
      /\ DOMAIN u = 1..Len(u) /\ DOMAIN s = 1..Len(s) /\ DOMAIN t = 1..Len(t)
  BY Advanced, LenProperties, EmptySeq
<1>2. \A j \in 1..Len(u) : j \in 1..Len(t) \/ \E i \in 2..Len(s) : j = Len(t) + i - 1
  <2> TAKE j \in 1..Len(u)
  <2>1. CASE j > Len(t)
    <3>1. j - Len(t) + 1 \in 2..Len(s) /\ j = Len(t) + (j - Len(t) + 1) - 1
      BY <1>1, <2>1
    <3> QED
      BY <3>1
  <2>2. CASE j <= Len(t)
    BY <1>1, <2>2
  <2> QED
    BY <1>1, <2>1, <2>2
<1>3. ASSUME NEW i \in 2..Len(s) PROVE CallSoundNext(u, Len(t) + i - 1)
  <2>1. CallSound(s, i) /\ u[Len(t) + i - 1] = s[i]
    BY <1>1, <1>3
  <2>2. ASSUME Covered(s, i) PROVE Covered(u, Len(t) + i - 1)
    <3>1. i + 1 \in 2..Len(s) /\ Len(t) + (i + 1) - 1 = (Len(t) + i - 1) + 1
          /\ (Len(t) + i - 1) + 1 \in 1..Len(u)
      BY <1>1, <2>2 DEF Covered
    <3>2. u[(Len(t) + i - 1) + 1] = s[i + 1]
      BY <1>1, <3>1
    <3> QED
      BY <1>1, <2>1, <2>2, <3>1, <3>2 DEF Covered
  <2>3. ASSUME NEW n, Released(n) PROVE ReleasedNext(n)
    BY <2>3, NoneAssumption DEF Released, LeftTo, ReleasedNext, NamesSame, Live
  <2> QED
    BY <2>1, <2>2, <2>3 DEF CallSound, CallSoundNext
<1>4. \A j \in 1..Len(u) : CallSoundNext(u, j)
  BY <1>2, <1>3
<1>5. ASSUME NEW n
      PROVE  Routing(u, n) <=>
               Routing(t, n) \/ \E i \in 2..Len(s) : s[i].name = n /\ s[i].verb # "delete"
  <2>1. ASSUME Routing(u, n)
        PROVE  Routing(t, n) \/ \E i \in 2..Len(s) : s[i].name = n /\ s[i].verb # "delete"
    BY <1>1, <1>2, <2>1 DEF Routing
  <2>2. ASSUME Routing(t, n) PROVE Routing(u, n)
    <3>1. PICK i \in 1..Len(t) : t[i].name = n /\ t[i].verb # "delete"
      BY <1>1, <2>2 DEF Routing
    <3>2. i \in DOMAIN u /\ u[i] = t[i]
      BY <1>1
    <3> QED
      BY <3>1, <3>2 DEF Routing
  <2>3. ASSUME NEW i \in 2..Len(s), s[i].name = n, s[i].verb # "delete" PROVE Routing(u, n)
    <3>1. Len(t) + i - 1 \in DOMAIN u /\ u[Len(t) + i - 1] = s[i]
      BY <1>1
    <3> QED
      BY <2>3, <3>1 DEF Routing
  <2> QED
    BY <2>1, <2>2, <2>3
<1> QED
  BY <1>1, <1>4, <1>5
\* The calls of a request that has some.
LEMMA CallsAre ==
  ASSUME IInv, NEW r \in Requests, At(r, "routes")
  PROVE  /\ req[r].calls \in Seq(Call) /\ req[r].calls # <<>> /\ Len(req[r].calls) \in Nat
         /\ Len(req[r].calls) > 0 /\ DOMAIN req[r].calls = 1..Len(req[r].calls)
         /\ Next1(r) = req[r].calls[1] /\ Next1(r) \in Call
         /\ \A i \in DOMAIN req[r].calls : CallSound(req[r].calls, i)
<1>1. /\ req[r] \in Request /\ req[r].calls # <<>>
      /\ \A i \in DOMAIN req[r].calls : CallSound(req[r].calls, i)
  BY DEF IInv, TypeOK, At, Idle, RequestsSound, Shaped, CallsSound
<1>2. req[r].calls \in Seq(Call)
  BY <1>1 DEF Request
<1>3. req[r].calls[1] = Head(req[r].calls) /\ req[r].calls[1] \in Call
  BY <1>1, <1>2, LenProperties, EmptySeq, ElementOfSeq, HeadTailProperties
<1> QED
  BY <1>1, <1>2, <1>3, LenProperties, EmptySeq DEF Next1

\* The first call is answered, and the calls t take its place.
LEMMA AnswerKeeps ==
  ASSUME IInv, NEW r \in Requests, At(r, "routes"),
         NEW c \in Call, c = Next1(r), NEW t \in Seq(Call), Answered(r, t),
         \A i \in 1..Len(t) : CallSoundNext(t \o Tail(req[r].calls), i),
         routes' \in [Names -> Routed \cup {None}],
         \A n \in Names \ {c.name} : routes'[n] = routes[n],
         c.verb # "delete" => routes'[c.name] # None \/ Routing(t, c.name),
         routes[c.name] # None => routes'[c.name] # None \/ Routing(t, c.name) \/ Released(c.name)
                                    \/ Covered(req[r].calls, 1)
  PROVE  IInv'
<1> PICK s \in Seq(Call) : s = req[r].calls
  BY CallsAre
<1>1. /\ s # <<>> /\ Len(s) \in Nat /\ Len(s) > 0 /\ DOMAIN s = 1..Len(s)
      /\ c = s[1] /\ \A i \in DOMAIN s : CallSound(s, i)
  BY CallsAre
<1>2. /\ UNCHANGED <<events, boot, ops, faults, since>> /\ NamesSame
      /\ rows' \in [VMs -> Row \cup {None}] /\ Proceed(r, t \o Tail(s))
  BY DEF Answered, KeepAll, NamesSame, Live, IInv, TypeOK
<1>3. /\ t \o Tail(s) \in Seq(Call)
      /\ \A i \in DOMAIN (t \o Tail(s)) : CallSoundNext(t \o Tail(s), i)
      /\ \A n : Routing(t \o Tail(s), n) <=>
                  Routing(t, n) \/ \E i \in 2..Len(s) : s[i].name = n /\ s[i].verb # "delete"
  BY <1>1, <1>2, RestSound
<1> PICK u \in Seq(Call) : u = t \o Tail(s)
  BY <1>3
<1>4. ASSUME NEW n \in Names
      PROVE  /\ routes[n] # None => routes'[n] # None \/ Routing(u, n) \/ Released(n)
             /\ Routing(s, n) => routes'[n] # None \/ Routing(u, n)
  <2>1. CASE n # c.name
    <3>1. Routing(s, n) => \E i \in 2..Len(s) : s[i].name = n /\ s[i].verb # "delete"
      <4> SUFFICES ASSUME NEW i \in 1..Len(s), s[i].name = n, s[i].verb # "delete"
                   PROVE  i \in 2..Len(s)
        BY <1>1 DEF Routing
      <4> QED
        BY <1>1, <2>1
    <3> QED
      BY <1>3, <2>1, <3>1
  <2>2. CASE n = c.name
    <3>1. Covered(s, 1) => Routing(u, n)
      <4> SUFFICES ASSUME Covered(s, 1) PROVE Routing(u, n)
        OBVIOUS
      <4>1. 2 \in 2..Len(s) /\ s[2].name = n /\ s[2].verb # "delete"
        BY <1>1, <2>2 DEF Covered
      <4> QED
        BY <1>3, <4>1
    <3>2. Routing(s, n) => c.verb # "delete" \/ Routing(u, n)
      <4> SUFFICES ASSUME NEW i \in 1..Len(s), s[i].name = n, s[i].verb # "delete"
                   PROVE  c.verb # "delete" \/ Routing(u, n)
        BY <1>1 DEF Routing
      <4>1. CASE i = 1
        BY <1>1, <4>1
      <4>2. CASE i \in 2..Len(s)
        BY <1>3, <4>2
      <4> QED
        BY <1>1, <4>1, <4>2
    <3>3. Routing(t, n) => Routing(u, n)
      BY <1>3
    <3> QED
      BY <2>2, <3>1, <3>2, <3>3
  <2> QED
    BY <2>1, <2>2
<1>5. faults' \in 0..MaxFaults /\ since' \subseteq Excuses
  BY <1>2 DEF IInv, TypeOK
<1> QED
  BY <1>2, <1>3, <1>4, <1>5, AnsweredGood

\* One POST.
LEMMA PostIs ==
  ASSUME NEW n \in Names, NEW to \in Routed
  PROVE  Post(n, to) \in Call /\ Post(n, to).verb = "post" /\ Post(n, to).name = n /\ Post(n, to).to = to
BY DEF Post, Call

\* One DELETE.
LEMMA DeleteIs ==
  ASSUME NEW n \in Names
  PROVE  DeleteCall(n) \in Call /\ DeleteCall(n).verb = "delete" /\ DeleteCall(n).name = n
BY DEF DeleteCall, Call

\* The first call is answered, and the next one follows.
LEMMA DoneKeeps ==
  ASSUME IInv, NEW r \in Requests, At(r, "routes"),
         NEW c \in Call, c = Next1(r), Answered(r, <<>>),
         routes' \in [Names -> Routed \cup {None}],
         \A n \in Names \ {c.name} : routes'[n] = routes[n],
         \/ routes'[c.name] # None
         \/ /\ c.verb = "delete"
            /\ Released(c.name) \/ Covered(req[r].calls, 1)
  PROVE  IInv'
<1> PICK t \in Seq(Call) : t = <<>>
  BY EmptySeq
<1>1. \A i \in 1..Len(t) : CallSoundNext(t \o Tail(req[r].calls), i)
  <2>1. Len(t) = 0
    BY EmptySeq
  <2> QED
    BY <2>1
<1>2. Answered(r, t)
  OBVIOUS
<1> QED
  BY <1>1, <1>2, AnswerKeeps

\* A PUT writes the route, or turns into a DELETE with a POST after it.
LEMMA PutRouteKeeps ==
  ASSUME IInv, NEW r \in Requests, PutRoute(r)
  PROVE  IInv'
<1>0. At(r, "routes") /\ routes \in [Names -> Routed \cup {None}]
  BY DEF PutRoute, Ready, IInv, TypeOK
<1> PICK c \in Call : c = Next1(r)
  BY <1>0, CallsAre
<1> PICK s \in Seq(Call) : s = req[r].calls
  BY <1>0, CallsAre
<1>1. /\ s # <<>> /\ Len(s) > 0 /\ Len(s) \in Nat /\ s[1] = c /\ c.verb = "put"
      /\ c.name \in Names /\ c.to \in Routed
  <2>1. CallSound(s, 1) /\ s[1] = c /\ c.verb = "put" /\ s # <<>> /\ Len(s) > 0 /\ Len(s) \in Nat
    BY <1>0, CallsAre DEF PutRoute, Ready
  <2> QED
    BY <2>1 DEF CallSound, Call
<1>2. CASE routes[c.name] = None /\ Answered(r, <<Post(c.name, c.to)>>) /\ UNCHANGED routes
  <2> DEFINE t == <<Post(c.name, c.to)>>
  <2>1. t \in Seq(Call) /\ Len(t) = 1 /\ t[1] = Post(c.name, c.to)
    BY <1>1, PostIs
  <2>2. Routing(t, c.name)
    BY <1>1, <2>1, PostIs DEF Routing
  <2>3. Answered(r, t)
    BY <1>2
  <2> HIDE DEF t
  <2>4. PICK u \in Seq(Call) :
          /\ u = t \o Tail(s) /\ Len(u) = Len(t) + Len(s) - 1 /\ DOMAIN u = 1..Len(u)
          /\ \A i \in 1..Len(t) : u[i] = t[i]
    BY <1>1, <2>1, AdvancedIs
  <2>5. CallSoundNext(u, 1)
    <3>1. 1 \in 1..Len(t)
      BY <2>1
    <3>2. u[1] = t[1]
      BY <2>4, <3>1
    <3> QED
      BY <1>1, <2>1, <3>2, PostIs DEF CallSoundNext
  <2>6. \A i \in 1..Len(t) : CallSoundNext(t \o Tail(s), i)
    BY <2>1, <2>4, <2>5
  <2> QED
    BY <1>0, <1>1, <1>2, <2>1, <2>2, <2>3, <2>6, AnswerKeeps
<1>3. CASE routes[c.name] # None /\ routes' = [routes EXCEPT ![c.name] = c.to] /\ Answered(r, <<>>)
  <2>1. c.to # None /\ routes' \in [Names -> Routed \cup {None}] /\ routes'[c.name] = c.to
        /\ \A n \in Names \ {c.name} : routes'[n] = routes[n]
    BY <1>0, <1>1, <1>3, NoneAssumption DEF Routed
  <2> QED
    <3>1. Answered(r, <<>>)
      BY <1>3
    <3> QED
      BY <1>0, <2>1, <3>1, DoneKeeps
<1>4. CASE routes[c.name] # None /\ Answered(r, Replacement(c)) /\ UNCHANGED routes
  <2> DEFINE t == <<DeleteCall(c.name), Post(c.name, c.to)>>
  <2>1. /\ t \in Seq(Call) /\ Len(t) = 2
        /\ t[1] = DeleteCall(c.name) /\ t[2] = Post(c.name, c.to) /\ t = Replacement(c)
    BY <1>1, PostIs, DeleteIs DEF Replacement
  <2>2. Routing(t, c.name)
    BY <1>1, <2>1, PostIs DEF Routing
  <2> HIDE DEF t
  <2>3. PICK u \in Seq(Call) :
          /\ u = t \o Tail(s) /\ Len(u) = Len(t) + Len(s) - 1 /\ DOMAIN u = 1..Len(u)
          /\ \A i \in 1..Len(t) : u[i] = t[i]
    BY <1>1, <2>1, AdvancedIs, ZenonT(30)
  <2>4. u[1] = DeleteCall(c.name) /\ u[2] = Post(c.name, c.to) /\ 2 \in DOMAIN u
    <3>1. 1 \in 1..Len(t) /\ 2 \in 1..Len(t)
      BY <2>1
    <3>2. 2 \in 1..Len(u)
      BY <1>1, <2>1, <2>3
    <3> QED
      BY <2>1, <2>3, <3>1, <3>2
  <2>5. CallSoundNext(u, 1) /\ CallSoundNext(u, 2)
    <3>1. /\ u[1].verb = "delete" /\ u[1].name = c.name /\ u[2].verb = "post"
          /\ u[2].name = c.name /\ u[2].to = c.to
      <4>1. DeleteCall(c.name).verb = "delete" /\ DeleteCall(c.name).name = c.name
        BY <1>1, DeleteIs
      <4>2. /\ Post(c.name, c.to).verb = "post" /\ Post(c.name, c.to).name = c.name
            /\ Post(c.name, c.to).to = c.to
        BY <1>1, PostIs
      <4> QED
        BY <2>4, <4>1, <4>2
    <3>2. Covered(u, 1)
      BY <2>4, <3>1 DEF Covered
    <3> QED
      BY <1>1, <3>1, <3>2 DEF CallSoundNext
  <2>6. \A i \in 1..Len(t) : CallSoundNext(t \o Tail(s), i)
    BY <2>1, <2>3, <2>5
  <2>7. Answered(r, t)
    BY <1>4, <2>1
  <2> QED
    BY <1>0, <1>1, <1>4, <2>1, <2>2, <2>6, <2>7, AnswerKeeps
<1> QED
  BY <1>2, <1>3, <1>4 DEF PutRoute

\* A POST leaves a route under its name, accepted or refused.
LEMMA PostRouteKeeps ==
  ASSUME IInv, NEW r \in Requests, PostRoute(r)
  PROVE  IInv'
<1>0. At(r, "routes") /\ routes \in [Names -> Routed \cup {None}]
  BY DEF PostRoute, Ready, IInv, TypeOK
<1> PICK c \in Call : c = Next1(r)
  BY <1>0, CallsAre
<1>1. c.verb = "post" /\ c.name \in Names /\ c.to \in Routed /\ c.to # None
  <2>1. CallSound(req[r].calls, 1) /\ req[r].calls[1] = c /\ c.verb = "post"
    BY <1>0, CallsAre DEF PostRoute, Ready
  <2> QED
    BY <2>1, NoneAssumption DEF CallSound, Call, Routed
<1>2. Answered(r, <<>>)
  BY DEF PostRoute
<1>3. /\ routes' \in [Names -> Routed \cup {None}] /\ routes'[c.name] # None
      /\ \A n \in Names \ {c.name} : routes'[n] = routes[n]
  <2>1. routes' = IF routes[c.name] = None THEN [routes EXCEPT ![c.name] = c.to] ELSE routes
    BY DEF PostRoute
  <2> QED
    BY <1>0, <1>1, <2>1
<1> QED
  BY <1>0, <1>1, <1>2, <1>3, DoneKeeps

\* A DELETE is of a released name, or its POST comes next.
LEMMA DeleteRouteKeeps ==
  ASSUME IInv, NEW r \in Requests, DeleteRoute(r)
  PROVE  IInv'
<1>0. At(r, "routes") /\ routes \in [Names -> Routed \cup {None}]
  BY DEF DeleteRoute, Ready, IInv, TypeOK
<1> PICK c \in Call : c = Next1(r)
  BY <1>0, CallsAre
<1>1. c.verb = "delete" /\ c.name \in Names /\ (Covered(req[r].calls, 1) \/ Released(c.name))
  <2>1. CallSound(req[r].calls, 1) /\ req[r].calls[1] = c /\ c.verb = "delete"
    BY <1>0, CallsAre DEF DeleteRoute, Ready
  <2> QED
    BY <2>1 DEF CallSound, Call
<1>2. Answered(r, <<>>) /\ routes' = [routes EXCEPT ![c.name] = None]
  BY DEF DeleteRoute
<1>3. /\ routes' \in [Names -> Routed \cup {None}]
      /\ \A n \in Names \ {c.name} : routes'[n] = routes[n]
  BY <1>0, <1>1, <1>2
<1> QED
  BY <1>0, <1>1, <1>2, <1>3, DoneKeeps

\* The place after i in a sequence of n calls without its first k - 1: it is there
\* when its place in the whole sequence is.
LEMMA NextPlace ==
  ASSUME NEW n \in Nat, NEW k \in Int, NEW i \in 1..(n - k + 1),
         (k + i - 1) + 1 \in 1..n
  PROVE  i + 1 \in 1..(n - k + 1) /\ k + (i + 1) - 1 = (k + i - 1) + 1
<1>1. i \in Int /\ 1 <= i
  OBVIOUS
<1>2. k + i <= n
  BY <1>1
<1> QED
  BY <1>1, <1>2

\* A failed call is remembered in since, under its name, until the next rebuild.
LEMMA CallFailsKeeps ==
  ASSUME IInv, NEW r \in Requests, CallFails(r)
  PROVE  IInv'
<1>0. At(r, "routes")
  BY DEF CallFails
<1> PICK s \in Seq(Call) : s = req[r].calls
  BY <1>0, CallsAre
<1>1. /\ Len(s) \in Nat /\ Len(s) > 0 /\ DOMAIN s = 1..Len(s)
      /\ \A i \in DOMAIN s : CallSound(s, i)
  BY <1>0, CallsAre
<1> PICK n1 : n1 = s[1].name
  OBVIOUS
<1>2. PICK k \in 2..(Len(s) + 1) :
        /\ Proceed(r, SubSeq(s, k, Len(s))) /\ k \in {2, 3} /\ (k = 3 => s[2].name = n1)
  <2> DEFINE inUpsert == /\ Len(s) > 1 /\ s[1].verb = "delete"
                         /\ s[2].verb = "post" /\ s[2].name = s[1].name
  <2>1. Proceed(r, SubSeq(s, IF inUpsert THEN 3 ELSE 2, Len(s)))
    BY DEF CallFails
  <2>2. CASE inUpsert
    <3>1. 3 \in 2..(Len(s) + 1)
      BY <1>1, <2>2
    <3>2. Proceed(r, SubSeq(s, 3, Len(s)))
      BY <2>1, <2>2
    <3>3. s[2].name = n1
      BY <2>2
    <3> HIDE DEF inUpsert
    <3> QED
      BY <3>1, <3>2, <3>3
  <2>3. CASE ~inUpsert
    <3>1. 2 \in 2..(Len(s) + 1)
      BY <1>1
    <3>2. Proceed(r, SubSeq(s, 2, Len(s)))
      BY <2>1, <2>3
    <3> HIDE DEF inUpsert
    <3> QED
      BY <3>1, <3>2
  <2> QED
    BY <2>2, <2>3
<1>3. /\ UNCHANGED <<rows, used, again, routes, events, boot, ops>> /\ Fault({n1})
      /\ n1 \in Names
  <2>1. Next1(r) \in Call /\ Next1(r) = s[1]
    BY <1>0, CallsAre
  <2> QED
    BY <2>1 DEF CallFails, Call
<1>4. PICK u \in Seq(Call) :
        /\ u = SubSeq(s, k, Len(s)) /\ Len(u) = Len(s) - k + 1
        /\ \A i \in 1..(Len(s) - k + 1) : u[i] = s[k + i - 1]
  <2>1. k \in 1..(Len(s) + 1)
    BY <1>1
  <2>2. /\ SubSeq(s, k, Len(s)) \in Seq(Call) /\ Len(SubSeq(s, k, Len(s))) = Len(s) - k + 1
        /\ \A i \in 1..(Len(s) - k + 1) : SubSeq(s, k, Len(s))[i] = s[k + i - 1]
    BY <2>1, Dropped
  <2> QED
    BY <2>2
<1>5. DOMAIN u = 1..Len(u)
  BY LenProperties
<1>6. ASSUME NEW i \in DOMAIN u PROVE CallSoundNext(u, i)
  <2>0. k \in Int /\ k >= 2 /\ i \in 1..(Len(s) - k + 1)
    BY <1>1, <1>4, <1>5
  <2>1. k + i - 1 \in DOMAIN s /\ u[i] = s[k + i - 1] /\ CallSound(s, k + i - 1)
    <3>1. k + i - 1 \in 1..Len(s)
      BY <1>1, <2>0
    <3> QED
      BY <1>1, <1>4, <2>0, <3>1
  <2>2. ASSUME Covered(s, k + i - 1) PROVE Covered(u, i)
    <3>0. (k + i - 1) + 1 \in DOMAIN s
      BY <2>2 DEF Covered
    <3>5. /\ Len(s) \in Nat /\ k \in Int /\ i \in 1..(Len(s) - k + 1)
          /\ (k + i - 1) + 1 \in 1..Len(s)
      BY <1>1, <1>4, <1>5, <3>0
    <3>1. i + 1 \in 1..(Len(s) - k + 1) /\ k + (i + 1) - 1 = (k + i - 1) + 1
      BY <3>5, NextPlace
    <3>2. u[i + 1] = s[(k + i - 1) + 1] /\ i + 1 \in DOMAIN u
      BY <1>4, <1>5, <3>1
    <3> QED
      BY <2>1, <2>2, <3>2 DEF Covered
  <2>3. ASSUME NEW n, Released(n) PROVE ReleasedNext(n)
    BY <1>3, <2>3, NoneAssumption DEF Released, LeftTo, ReleasedNext, Live
  <2> QED
    BY <2>1, <2>2, <2>3 DEF CallSound, CallSoundNext
<1>7. /\ faults' \in 0..MaxFaults /\ since \subseteq since' /\ since' \subseteq Excuses
      /\ n1 \in since'
  <2>1. {n1} \subseteq Excuses
    BY <1>3 DEF Excuses
  <2> QED
    BY <1>3, <2>1, FaultIs DEF IInv
<1>8. NamesSame /\ rows' \in [VMs -> Row \cup {None}] /\ routes' \in [Names -> Routed \cup {None}]
  BY <1>3 DEF IInv, TypeOK, NamesSame, Live
<1>9. ASSUME NEW n \in Names \ since', Routing(s, n) PROVE Routing(u, n)
  <2>1. PICK i \in 1..Len(s) : s[i].name = n /\ s[i].verb # "delete"
    BY <1>1, <1>9 DEF Routing
  <2>2. i # 1 /\ (k = 3 => i # 2)
    <3>1. n # n1
      BY <1>7, <1>9
    <3> QED
      BY <1>2, <2>1, <3>1
  <2>3. i - k + 1 \in 1..(Len(s) - k + 1) /\ k + (i - k + 1) - 1 = i
    <3>1. i \in 1..Len(s) /\ Len(s) \in Nat /\ (k = 2 \/ k = 3) /\ i >= k
      BY <1>1, <1>2, <2>2
    <3>2. CASE k = 2
      BY <3>1, <3>2
    <3>3. CASE k = 3
      BY <3>1, <3>3
    <3> QED
      BY <3>1, <3>2, <3>3
  <2>4. i - k + 1 \in DOMAIN u /\ u[i - k + 1] = s[i]
    BY <1>4, <1>5, <2>3
  <2> QED
    BY <2>1, <2>4 DEF Routing
<1>10. /\ Proceed(r, u) /\ UNCHANGED <<events, boot, ops>>
       /\ \A n \in Names \ since' :
            /\ routes[n] # None => routes'[n] # None \/ Routing(u, n) \/ Released(n)
            /\ Routing(s, n) => routes'[n] # None \/ Routing(u, n)
  <2>1. Proceed(r, u) /\ UNCHANGED <<events, boot, ops>> /\ routes' = routes
    BY <1>2, <1>3, <1>4
  <2>2. \A n \in Names \ since' : Routing(s, n) => Routing(u, n)
    BY <1>9
  <2> QED
    BY <2>1, <2>2
<1> QED
  BY <1>0, <1>6, <1>7, <1>8, <1>10, AnsweredGood

\* A status is written, or not, and its PUT takes its place: no name changes.
LEMMA MarkKeeps ==
  ASSUME IInv, NEW r \in Requests, MarkRow(r) \/ MarkFails(r)
  PROVE  IInv'
<1>0. /\ At(r, "routes") /\ rows \in [VMs -> Row \cup {None}]
      /\ routes \in [Names -> Routed \cup {None}] /\ faults \in 0..MaxFaults /\ TypeOK
  BY DEF MarkRow, MarkFails, Ready, IInv, TypeOK
<1> PICK c \in Call : c = Next1(r)
  BY <1>0, CallsAre
<1> PICK s \in Seq(Call) : s = req[r].calls
  BY <1>0, CallsAre
<1>1. /\ s # <<>> /\ Len(s) > 0 /\ Len(s) \in Nat /\ DOMAIN s = 1..Len(s) /\ s[1] = c
      /\ c.verb = "mark" /\ c.name \in Names /\ c.to \in Routed
      /\ \A i \in DOMAIN s : CallSound(s, i)
  <2>1. /\ CallSound(s, 1) /\ s[1] = c /\ c.verb = "mark" /\ s # <<>> /\ Len(s) > 0
        /\ Len(s) \in Nat /\ DOMAIN s = 1..Len(s) /\ \A i \in DOMAIN s : CallSound(s, i)
    BY <1>0, CallsAre DEF MarkRow, MarkFails, Ready
  <2> QED
    BY <2>1 DEF CallSound, Call
<1>2. /\ Proceed(r, <<Put(c.name, c.to)>> \o Tail(s))
      /\ UNCHANGED <<used, again, routes, events, boot, ops>>
      /\ \/ rows' = rows
         \/ rows' = [rows EXCEPT ![c.vm].running = (c.to # Stopped)] /\ Live(c.vm)
      /\ UNCHANGED <<since, faults>> \/ Fault({c.name})
  <2>1. CASE MarkRow(r)
    BY <2>1 DEF MarkRow, KeepAll
  <2>2. CASE MarkFails(r)
    BY <2>2 DEF MarkFails
  <2> QED
    BY <2>1, <2>2
<1>3. rows' \in [VMs -> Row \cup {None}] /\ NamesSame
  <2>1. CASE rows' = rows
    BY <1>0, <1>2, <2>1 DEF NamesSame, Live
  <2>2. CASE /\ rows' = [rows EXCEPT ![c.vm].running = (c.to # Stopped)] /\ Live(c.vm)
             /\ c.vm \in VMs
    <3>1. /\ [rows[c.vm] EXCEPT !.running = (c.to # Stopped)] \in Row
          /\ [rows[c.vm] EXCEPT !.running = (c.to # Stopped)].name = rows[c.vm].name
      BY <1>0, <2>2 DEF Row, Live
    <3>2. rows' = [rows EXCEPT ![c.vm] = [rows[c.vm] EXCEPT !.running = (c.to # Stopped)]]
      BY <2>2
    <3> QED
      BY <1>0, <1>2, <2>2, <3>1, <3>2, NoneAssumption DEF NamesSame, Live
  <2>3. CASE rows' = [rows EXCEPT ![c.vm].running = (c.to # Stopped)] /\ c.vm \notin VMs
    BY <1>0, <1>2, <2>3 DEF NamesSame, Live
  <2> QED
    BY <1>2, <2>1, <2>2, <2>3
<1>4. since \subseteq since' /\ since' \subseteq Excuses /\ faults' \in 0..MaxFaults
  <2>1. CASE UNCHANGED <<since, faults>>
    BY <1>0, <2>1 DEF TypeOK
  <2>2. CASE Fault({c.name})
    <3>1. {c.name} \subseteq Excuses
      BY <1>1 DEF Excuses
    <3> QED
      BY <1>0, <2>2, <3>1, FaultIs
  <2> QED
    BY <1>2, <2>1, <2>2
<1>5. PICK t \in Seq(Call) : /\ t = <<Put(c.name, c.to)>> /\ Len(t) = 1 /\ DOMAIN t = {1}
                             /\ t[1] = Put(c.name, c.to)
  <2>1. <<Put(c.name, c.to)>> \in Seq(Call) /\ DOMAIN <<Put(c.name, c.to)>> = {1}
    BY <1>1, PutIs
  <2> QED
    BY <2>1
<1>6. t[1].verb = "put" /\ t[1].name = c.name /\ t[1].to = c.to
  BY <1>1, <1>5, PutIs
<1>7. \A i \in 1..Len(t) : CallSoundNext(t \o Tail(s), i)
  <2>1. (t \o Tail(s))[1] = t[1]
    BY <1>1, <1>5, Advanced
  <2> QED
    BY <1>1, <1>5, <1>6, <2>1 DEF CallSoundNext
<1>8. /\ t \o Tail(s) \in Seq(Call)
      /\ \A i \in DOMAIN (t \o Tail(s)) : CallSoundNext(t \o Tail(s), i)
      /\ \A n : Routing(t \o Tail(s), n) <=>
                  Routing(t, n) \/ \E i \in 2..Len(s) : s[i].name = n /\ s[i].verb # "delete"
  BY <1>1, <1>3, <1>7, RestSound
<1>9. ASSUME NEW n, Routing(s, n) PROVE Routing(t \o Tail(s), n)
  <2>1. PICK i \in 1..Len(s) : s[i].name = n /\ s[i].verb # "delete"
    BY <1>1, <1>9 DEF Routing
  <2>2. CASE i = 1
    <3>1. 1 \in DOMAIN t
      BY <1>5
    <3>2. Routing(t, n)
      BY <1>1, <1>6, <2>1, <2>2, <3>1 DEF Routing
    <3> QED
      BY <1>8, <3>2
  <2>3. CASE i # 1
    BY <1>1, <1>8, <2>1, <2>3
  <2> QED
    BY <2>2, <2>3
<1> PICK u \in Seq(Call) : u = t \o Tail(s)
  BY <1>8
<1>10. /\ Proceed(r, u) /\ \A i \in DOMAIN u : CallSoundNext(u, i)
       /\ \A n \in Names : Routing(s, n) => Routing(u, n)
  BY <1>2, <1>5, <1>8, <1>9
<1> QED
  BY <1>0, <1>2, <1>3, <1>4, <1>10, AnsweredGood

-----------------------------------------------------------------------------
\* What rows ask for, name by name.
LEMMA WantsIs ==
  ASSUME NEW rw \in [VMs -> Row \cup {None}],
         \A v, w \in VMs : rw[v] # None /\ rw[w] # None /\ rw[v].name = rw[w].name => v = w
  PROVE  /\ Wants(rw) \in [Names -> Routed \cup {None}]
         /\ \A v \in VMs : rw[v] # None => /\ rw[v].name \in Names
                                           /\ Wants(rw)[rw[v].name] = TargetOf(v, rw[v])
                                           /\ Wants(rw)[rw[v].name] # None
         /\ \A n \in Names : (\A v \in VMs : rw[v] # None => rw[v].name # n) => Wants(rw)[n] = None
<1> DEFINE Has == {rw[v].name : v \in {w \in VMs : rw[w] # None}}
<1>1. \A v \in VMs : rw[v] # None => rw[v] \in Row /\ rw[v].name \in Names
  BY DEF Row
<1>2. ASSUME NEW v \in VMs, rw[v] # None
      PROVE  /\ Wants(rw)[rw[v].name] = TargetOf(v, rw[v])
             /\ TargetOf(v, rw[v]) \in Routed /\ TargetOf(v, rw[v]) # None
  <2>1. TargetOf(v, rw[v]) \in Routed /\ TargetOf(v, rw[v]) # None
    BY <1>1, <1>2, TargetIsRouted
  <2>2. rw[v].name \in Has /\ rw[v].name \in Names
    BY <1>1, <1>2
  <2> DEFINE u == CHOOSE w \in VMs : rw[w] # None /\ rw[w].name = rw[v].name
  <2>3. u \in VMs /\ rw[u] # None /\ rw[u].name = rw[v].name
    BY <1>2
  <2>4. u = v
    BY <1>2, <2>3
  <2>5. Wants(rw)[rw[v].name] = TargetOf(u, rw[u])
    BY <2>2 DEF Wants
  <2> QED
    BY <2>1, <2>4, <2>5
<1>3. \A n \in Names : n \notin Has => Wants(rw)[n] = None
  BY DEF Wants
<1>4. Wants(rw) \in [Names -> Routed \cup {None}]
  <2>1. ASSUME NEW n \in Names PROVE Wants(rw)[n] \in Routed \cup {None}
    <3>1. CASE n \in Has
      <4>1. PICK v \in VMs : rw[v] # None /\ rw[v].name = n
        BY <3>1
      <4> QED
        BY <1>2, <4>1
    <3> QED
      BY <1>3, <3>1
  <2> QED
    BY <2>1 DEF Wants
<1> QED
  BY <1>1, <1>2, <1>3, <1>4

\* FromRows asks for what Wants says, in this state and the next.
LEMMA FromRowsIs == FromRows = Wants(rows) /\ FromRows' = Wants(rows')
BY DEF FromRows, Wants, Taken, Live

\* A crash leaves no request, and a rebuild routes every row.
LEMMA CrashKeeps ==
  ASSUME IInv, Crash \/ Rebuild \/ RebuildFails
  PROVE  IInv'
<1>0. TypeOK /\ NamesSound /\ NamesApart /\ BootAlone
  BY DEF IInv, NamesSound
<1>1. /\ UNCHANGED <<rows, used, again, ops>> /\ \A r \in Requests : req'[r] = None
  <2>1. CASE Crash
    BY <2>1 DEF Crash
  <2>2. CASE Rebuild \/ RebuildFails
    BY <1>0, <2>2 DEF Rebuild, RebuildFails, BootAlone, Idle
  <2> QED
    BY <2>1, <2>2
<1>2. NamesSound' /\ RequestsSound'
  BY <1>0, <1>1 DEF NamesSound, RowsUsed, NamesApart, RequestsSound, Idle, Live
<1>3. /\ Wants(rows) \in [Names -> Routed \cup {None}]
      /\ \A v \in VMs : rows[v] # None => Wants(rows)[rows[v].name] # None
  BY <1>0, WantsIs DEF TypeOK, NamesApart, Live
<1>4. CASE Crash
  <2>1. faults' \in 0..MaxFaults
    BY <1>0, <1>4, FaultIs DEF Crash, Excuses
  <2>2. TypeOK'
    <3>1. events' \in [Watchers -> Seq(Event)]
      BY <1>4, EmptySeq DEF Crash
    <3> QED
      BY <1>0, <1>4, <2>1, <3>1 DEF Crash, TypeOK, Fault, Excuses
  <2>3. BootAlone' /\ RouteOrWriter'
    BY <1>1, <1>4 DEF Crash, BootAlone, RouteOrWriter, Idle, Fault
  <2> QED
    BY <1>2, <2>2, <2>3 DEF IInv
<1>5. CASE Rebuild
  <2>1. routes' = FromRows /\ boot' = FALSE /\ since' = {} /\ UNCHANGED <<req, events, faults>>
    BY <1>5 DEF Rebuild
  <2>2. TypeOK'
    <3>1. routes' \in [Names -> Routed \cup {None}]
      BY <1>3, <2>1, FromRowsIs
    <3> QED
      BY <1>0, <1>1, <2>1, <3>1 DEF TypeOK
  <2>3. RouteOrWriter'
    <3>1. \A v \in VMs : rows'[v] # None => routes'[rows'[v].name] # None
      BY <1>1, <1>3, <2>1, FromRowsIs
    <3> QED
      BY <3>1 DEF RouteOrWriter, Live
  <2> QED
    BY <1>2, <2>1, <2>2, <2>3 DEF IInv, BootAlone
<1>6. CASE RebuildFails
  <2>1. TypeOK'
    BY <1>0, <1>6 DEF RebuildFails, TypeOK
  <2>2. BootAlone' /\ RouteOrWriter'
    BY <1>0, <1>6 DEF RebuildFails, BootAlone, RouteOrWriter
  <2> QED
    BY <1>2, <2>1, <2>2 DEF IInv
<1> QED
  BY <1>4, <1>5, <1>6

\* The invariant holds when the control plane has just started.
LEMMA InitHolds == Init => IInv
<1> SUFFICES ASSUME Init PROVE IInv
  OBVIOUS
<1>1. PICK v \in VMs, n \in Names, p \in Ports :
        /\ rows = [w \in VMs |-> IF w = v THEN Serves(v, n, p) ELSE None]
        /\ routes = [m \in Names |-> IF m = n THEN [vm |-> v, port |-> p] ELSE None]
        /\ used = {v, n} /\ again = {}
  BY DEF Init
<1>2. Serves(v, n, p) \in Row /\ Serves(v, n, p).name = n
      /\ [vm |-> v, port |-> p] \in Target
  BY DEF Serves, Row, Target
<1>3. /\ rows \in [VMs -> Row \cup {None}] /\ \A w \in VMs : Live(w) => w = v /\ rows[w].name = n
      /\ routes \in [Names -> Routed \cup {None}] /\ routes[n] # None
  BY <1>1, <1>2, NoneAssumption DEF Live, Routed
<1>4. TypeOK
  <2>1. req \in [Requests -> Request \cup {None}] /\ boot \in BOOLEAN /\ since \subseteq Excuses
        /\ events \in [Watchers -> Seq(Event)]
    BY EmptySeq DEF Init
  <2>2. ops \in 0..MaxOps /\ faults \in 0..MaxFaults
    BY BoundsAssumption DEF Init
  <2>3. used \subseteq VMs \cup Names /\ again \subseteq used
    BY <1>1
  <2> QED
    BY <1>3, <2>1, <2>2, <2>3 DEF TypeOK
<1>5. NamesSound /\ RouteOrWriter
  BY <1>1, <1>3 DEF NamesSound, RowsUsed, NamesApart, RouteOrWriter
<1>6. RequestsSound /\ BootAlone
  BY DEF Init, RequestsSound, BootAlone, Idle
<1> QED
  BY <1>4, <1>5, <1>6 DEF IInv

\* Every step keeps the invariant.
LEMMA StepKeeps == IInv /\ [Next]_vars => IInv'
<1> SUFFICES ASSUME IInv, [Next]_vars PROVE IInv'
  OBVIOUS
<1>1. ASSUME NEW r \in Requests,
             CreateBegin(r) \/ RenameBegin(r) \/ PortBegin(r) \/ DeleteBegin(r) \/ Heartbeat(r)
      PROVE  IInv'
  BY <1>1, BeginKeeps, HeartbeatKeeps
<1>2. ASSUME NEW r \in Requests, Step(r) PROVE IInv'
  BY <1>2, CreateRowKeeps, EndOfCreateKeeps, RenameReadKeeps, RenameRowKeeps, PortRowKeeps,
     DeleteRowKeeps, TakeKeeps, MarkKeeps, PutRouteKeeps, PostRouteKeeps, DeleteRouteKeeps DEF Step
<1>3. ASSUME NEW r \in Requests, CreateUnanswered(r) \/ DeleteUnanswered(r) PROVE IInv'
  BY <1>3, CreateRowKeeps, DeleteUnansweredKeeps
<1>4. ASSUME NEW r \in Requests, CallFails(r) \/ MarkFails(r) \/ HandlerDropped(r) PROVE IInv'
  BY <1>4, CallFailsKeeps, MarkKeeps, HandlerDroppedKeeps
<1>5. CASE Crash \/ Rebuild \/ RebuildFails
  BY <1>5, CrashKeeps
<1>6. CASE AgentIsSilent \/ \E w \in Watchers : AgentWrites(w) \/ AgentRecovers(w) \/ StreamBreaks(w)
  BY <1>6, AgentKeeps
<1>7. CASE UNCHANGED vars
  BY <1>7 DEF vars, IInv, TypeOK, NamesSound, RowsUsed, NamesApart, RequestsSound, Shaped,
     CallsSound, CallSound, Covered, Released, LeftTo, BootAlone, RouteOrWriter, WillRoute,
     At, Idle, Live
<1>8. CASE Rest
  BY <1>7, <1>8 DEF Rest
<1> QED
  BY <1>1, <1>2, <1>3, <1>4, <1>5, <1>6, <1>7, <1>8 DEF Next
-----------------------------------------------------------------------------
\* What the rows ask for under a name changes with the row that has it.
LEMMA WantsAgree ==
  ASSUME NEW rw \in [VMs -> Row \cup {None}], NEW rx \in [VMs -> Row \cup {None}],
         \A v, w \in VMs : rw[v] # None /\ rw[w] # None /\ rw[v].name = rw[w].name => v = w,
         \A v, w \in VMs : rx[v] # None /\ rx[w] # None /\ rx[v].name = rx[w].name => v = w,
         NEW n \in Names,
         \A v \in VMs : \/ rw[v] = rx[v]
                        \/ /\ rw[v] = None \/ rw[v].name # n
                           /\ rx[v] = None \/ rx[v].name # n
  PROVE  Wants(rw)[n] = Wants(rx)[n]
<1>1. CASE \E v \in VMs : rw[v] # None /\ rw[v].name = n
  <2>1. PICK v \in VMs : rw[v] # None /\ rw[v].name = n
    BY <1>1
  <2>2. rx[v] = rw[v]
    BY <2>1
  <2>3. Wants(rw)[n] = TargetOf(v, rw[v])
    BY <2>1, WantsIs
  <2>4. Wants(rx)[n] = TargetOf(v, rx[v])
    BY <2>1, <2>2, WantsIs
  <2> QED
    BY <2>2, <2>3, <2>4
<1>2. CASE \A v \in VMs : rw[v] # None => rw[v].name # n
  <2>1. \A v \in VMs : rx[v] # None => rx[v].name # n
    BY <1>2
  <2>2. Wants(rw)[n] = None
    BY <1>2, WantsIs
  <2>3. Wants(rx)[n] = None
    BY <2>1, WantsIs
  <2> QED
    BY <2>2, <2>3
<1> QED
  BY <1>1, <1>2

\* The types of what Wants speaks about, and the names of rows apart.
LEMMA RowsTyped ==
  IInv => /\ rows \in [VMs -> Row \cup {None}] /\ routes \in [Names -> Routed \cup {None}]
          /\ req \in [Requests -> Request \cup {None}]
          /\ \A v, w \in VMs :
               rows[v] # None /\ rows[w] # None /\ rows[v].name = rows[w].name => v = w
BY DEF IInv, TypeOK, NamesSound, NamesApart, Live

\* The same in the next state.
LEMMA RowsTypedNext ==
  IInv' => /\ rows' \in [VMs -> Row \cup {None}] /\ routes' \in [Names -> Routed \cup {None}]
           /\ req' \in [Requests -> Request \cup {None}]
           /\ \A v, w \in VMs :
                rows'[v] # None /\ rows'[w] # None /\ rows'[v].name = rows'[w].name => v = w
BY DEF IInv, TypeOK, NamesSound, NamesApart, Live

\* What rows want is a route or none for each name, before and after a step.
LEMMA WantsTyped ==
  ASSUME IInv, IInv'
  PROVE  /\ Wants(rows) \in [Names -> Routed \cup {None}]
         /\ Wants(rows') \in [Names -> Routed \cup {None}]
BY RowsTyped, RowsTypedNext, WantsIs

\* A request's step leaves it in step with some routing w.
OnTrack(r) == \E w : /\ Agrees(w)'
                     /\ IF req'[r] = None THEN routes' = w ELSE Follows(r, w)'

\* If one request acts, alone since the last rebuild, and is on track after its
\* step, the rows and Caddy are in step.
LEMMA InStepIf ==
  ASSUME IInv, InStep, NEW r \in Requests, boot' = boot, since \subseteq since',
         \A q \in Requests \ {r} : req'[q] = req[q],
         ~Idle(r) \/ (since' = {} => Alone(r)),
         since' = {} /\ ~boot => OnTrack(r)
  PROVE  InStep'
<1> SUFFICES ASSUME since' = {}, ~boot' PROVE \E w : InStepBy(w)'
  BY DEF InStep
<1>1. OnTrack(r) /\ since = {} /\ ~boot
  OBVIOUS
<1>2. Alone(r)
  BY <1>1 DEF InStep, InStepBy
<1>3. \A q \in Requests \ {r} : req'[q] = None
  BY <1>2 DEF Alone, Idle
<1> PICK w : Agrees(w)' /\ IF req'[r] = None THEN routes' = w ELSE Follows(r, w)'
  BY <1>1 DEF OnTrack
<1>4. (\A q \in Requests : req'[q] = None) => routes' = w
  OBVIOUS
<1>5. ASSUME NEW q \in Requests, req'[q] # None PROVE Alone(q)' /\ Follows(q, w)'
  <2>1. q = r
    BY <1>3, <1>5
  <2> QED
    BY <1>3, <1>5, <2>1 DEF Alone, Idle
<1>6. InStepBy(w)'
  BY <1>4, <1>5 DEF InStepBy, Idle
<1> QED
  BY <1>6

\* A request that goes on with calls that lead to some routing that agrees.
LEMMA LeadsOn ==
  ASSUME IInv', NEW r \in Requests, NEW u \in Seq(Call), req'[r] = Calling(u),
         NEW w, Agrees(w)', Leads(u, routes', w),
         \A i \in DOMAIN u : u[i].verb = "mark" => MarkSound(u[i])'
  PROVE  OnTrack(r)
<1>0. w \in [Names -> Routed \cup {None}] /\ routes' \in [Names -> Routed \cup {None}]
  BY RowsTypedNext DEF Agrees
<1>1. CASE u = <<>>
  <2>1. req'[r] = None
    BY <1>1 DEF Calling
  <2>2. \A n \in Names : routes'[n] = w[n]
    BY <1>1 DEF Leads
  <2>3. routes' = w
    BY <1>0, <2>2
  <2> QED
    BY <2>1, <2>3 DEF OnTrack
<1>2. CASE u # <<>>
  <2>1. req'[r] # None /\ req'[r].op = "routes" /\ req'[r].calls = u
    BY <1>2, CallingIs
  <2>2. Follows(r, w)'
    BY <2>1 DEF Follows, Leads
  <2> QED
    BY <2>1, <2>2 DEF OnTrack
<1> QED
  BY <1>1, <1>2

\* What is late stays late, while its rows keep their names, its events are not
\* read and its status is not written.
LEMMA LateStays ==
  ASSUME NEW r \in Requests, Alone(r), NEW n, Late(n),
         \A v \in VMs : Told(v) => Told(v)',
         \A v \in VMs : Live(v) /\ rows[v].name = n => rows'[v] # None /\ rows'[v].name = n,
         At(r, "routes") /\ Marks(req[r].calls, n) =>
            req'[r] # None /\ req'[r].op = "routes" /\ Marks(req'[r].calls, n)
  PROVE  Late(n)'
<1>1. CASE \E v \in VMs : Live(v) /\ rows[v].name = n /\ Told(v)
  BY <1>1 DEF Late, Live
<1>2. CASE Marked(n)
  <2>1. At(r, "routes") /\ Marks(req[r].calls, n)
    BY <1>2 DEF Marked, Alone, At
  <2>2. Marked(n)'
    BY <2>1 DEF Marked, At, Idle, Marks
  <2> QED
    BY <2>2 DEF Late
<1> QED
  BY <1>1, <1>2 DEF Late

\* A routing that agrees is changed under the names N only, and there it is what
\* the rows ask for, or that comes late.
LEMMA AgreesOn ==
  ASSUME IInv, IInv', NEW w, Agrees(w), NEW N,
         NEW x \in [Names -> Routed \cup {None}],
         \A n \in Names \ N : x[n] = w[n] /\ (Late(n) => Late(n)'),
         \A n \in Names \ N : \A v \in VMs :
            \/ rows'[v] = rows[v]
            \/ /\ rows'[v] = None \/ rows'[v].name # n
               /\ rows[v] = None \/ rows[v].name # n,
         \A n \in Names \cap N : Late(n)' \/ x[n] = Wants(rows')[n]
  PROVE  Agrees(x)'
<1>1. ASSUME NEW n \in Names \ N, ~Late(n)' PROVE x[n] = Wants(rows')[n]
  <2>1. x[n] = w[n] /\ w[n] = Wants(rows)[n]
    BY <1>1 DEF Agrees
  <2>2. Wants(rows')[n] = Wants(rows)[n]
    BY RowsTyped, RowsTypedNext, WantsAgree
  <2> QED
    BY <2>1, <2>2
<1>2. \A n \in Names : ~Late(n)' => x[n] = Wants(rows')[n]
  BY <1>1
<1>3. \A n : Wants(rows)'[n] = Wants(rows')[n]
  BY DEF Wants
<1> QED
  BY <1>2, <1>3 DEF Agrees

\* The same, while no row changes.
LEMMA AgreesSame ==
  ASSUME IInv, IInv', NEW w, Agrees(w), rows' = rows, NEW N,
         NEW x \in [Names -> Routed \cup {None}],
         \A n \in Names \ N : x[n] = w[n] /\ (Late(n) => Late(n)'),
         \A n \in Names \cap N : Late(n)' \/ x[n] = Wants(rows')[n]
  PROVE  Agrees(x)'
<1>1. \A n \in Names \ N : \A v \in VMs :
         \/ rows'[v] = rows[v]
         \/ /\ rows'[v] = None \/ rows'[v].name # n
            /\ rows[v] = None \/ rows[v].name # n
  OBVIOUS
<1> QED
  BY <1>1, AgreesOn, SMT, ZenonT(60)

\* The same, of the same routing.
LEMMA StillAgrees ==
  ASSUME IInv, IInv', NEW w, Agrees(w), rows' = rows,
         \A n \in Names : Late(n) => Late(n)'
  PROVE  Agrees(w)'
<1>1. w \in [Names -> Routed \cup {None}]
  BY DEF Agrees
<1> PICK N : N = {}
  OBVIOUS
<1>2. /\ \A n \in Names \ N : w[n] = w[n] /\ (Late(n) => Late(n)')
      /\ \A n \in Names \cap N : Late(n)' \/ w[n] = Wants(rows')[n]
  OBVIOUS
<1> QED
  BY <1>1, <1>2, AgreesSame, SMT, ZenonT(60)

\* A request at work since the last rebuild is alone, and in step.
LEMMA AloneFollows ==
  ASSUME InStep, NEW r \in Requests, ~Idle(r), since = {}, ~boot
  PROVE  Alone(r) /\ \E w : Agrees(w) /\ Follows(r, w)
BY DEF InStep, InStepBy
-----------------------------------------------------------------------------
\* The calls after one that is not the DELETE of an upsert: PUTs and DELETEs,
\* each of a name of its own.
LEMMA RestLeads ==
  ASSUME NEW s \in Seq(Call), s # <<>>, NEW rt, NEW w, Leads(s, rt, w),
         s[1].verb # "delete" \/ ~Covered(s, 1)
  PROVE  /\ \A i \in 2..Len(s) : /\ s[i].verb # "post" /\ s[i].name # s[1].name
                                 /\ s[i].verb # "delete" => s[i].to = w[s[i].name]
                                 /\ s[i].verb = "delete" => w[s[i].name] = None
         /\ \A i, j \in 2..Len(s) : i < j => s[i].name # s[j].name
<1>1. Len(s) \in Nat /\ Len(s) > 0 /\ DOMAIN s = 1..Len(s)
  BY LenProperties, EmptySeq
<1>2. Covered(s, 1) => s[1].verb = "delete"
  <2> SUFFICES ASSUME Covered(s, 1) PROVE s[1].verb = "delete"
    OBVIOUS
  <2>1. 2 \in DOMAIN s /\ s[2].verb = "post"
    BY DEF Covered
  <2> QED
    BY <2>1 DEF Leads
<1>3. ~Covered(s, 1)
  BY <1>2
<1>4. ASSUME NEW i \in 2..Len(s)
      PROVE  /\ s[i].verb # "post" /\ s[i].name # s[1].name
             /\ s[i].verb # "delete" => s[i].to = w[s[i].name]
             /\ s[i].verb = "delete" => w[s[i].name] = None
  <2>1. i \in DOMAIN s /\ 1 \in DOMAIN s /\ i # 1 /\ 1 < i
    BY <1>1
  <2>2. s[i].name # s[1].name
    BY <1>3, <2>1 DEF Leads
  <2>3. s[i].verb # "post"
    BY <2>1, <2>2 DEF Leads
  <2>4. /\ s[i].verb # "delete" => s[i].to = w[s[i].name]
        /\ s[i].verb = "delete" => w[s[i].name] = None
    BY <2>1 DEF Leads
  <2> QED
    BY <2>2, <2>3, <2>4
<1>5. \A i, j \in 2..Len(s) : i < j => s[i].name # s[j].name
  BY <1>1, <1>3 DEF Leads
<1> QED
  BY <1>4, <1>5

\* The first call is done.
LEMMA DoneLeads ==
  ASSUME NEW s \in Seq(Call), s # <<>>, NEW rt, NEW rx, NEW w, Leads(s, rt, w),
         \A n \in Names \ {s[1].name} : rx[n] = rt[n],
         IF s[1].verb = "delete" THEN rx[s[1].name] = None
                                 ELSE rx[s[1].name] = w[s[1].name]
  PROVE  Leads(Tail(s), rx, w)
<1>1. Len(s) \in Nat /\ Len(s) > 0 /\ DOMAIN s = 1..Len(s) /\ 1 \in DOMAIN s
  BY LenProperties, EmptySeq
<1>2. PICK u \in Seq(Call) : /\ u = Tail(s) /\ DOMAIN u = 1..(Len(s) - 1)
                             /\ \A i \in 1..(Len(s) - 1) : u[i] = s[i + 1]
  <2>1. Tail(s) \in Seq(Call) /\ Len(Tail(s)) = Len(s) - 1
        /\ \A i \in 1..Len(Tail(s)) : Tail(s)[i] = s[i + 1]
    BY HeadTailProperties
  <2>2. DOMAIN Tail(s) = 1..(Len(s) - 1)
    BY <2>1, LenProperties
  <2> QED
    BY <2>1, <2>2
<1>3. \A i \in DOMAIN u : i + 1 \in 2..Len(s) /\ u[i] = s[i + 1]
  BY <1>1, <1>2
<1>4. CASE s[1].verb # "delete" \/ ~Covered(s, 1)
  <2>1. rx[s[1].name] = w[s[1].name]
    <3>1. s[1].verb = "delete" => w[s[1].name] = None
      BY <1>1, <1>4 DEF Leads
    <3> QED
      BY <3>1
  <2>2. /\ \A i \in 2..Len(s) : /\ s[i].verb # "post" /\ s[i].name # s[1].name
                                /\ s[i].verb # "delete" => s[i].to = w[s[i].name]
                                /\ s[i].verb = "delete" => w[s[i].name] = None
        /\ \A i, j \in 2..Len(s) : i < j => s[i].name # s[j].name
    BY <1>4, RestLeads
  <2>3. ASSUME NEW n \in Names, \A i \in DOMAIN u : u[i].name # n PROVE rx[n] = w[n]
    <3>1. CASE n = s[1].name
      BY <2>1, <3>1
    <3>2. CASE n # s[1].name
      <4>1. \A i \in DOMAIN s : s[i].name # n
        <5> SUFFICES ASSUME NEW i \in 2..Len(s) PROVE s[i].name # n
          BY <1>1, <3>2
        <5>1. i - 1 \in DOMAIN u /\ u[i - 1] = s[i]
          BY <1>1, <1>2
        <5> QED
          BY <2>3, <5>1
      <4> QED
        BY <3>2, <4>1 DEF Leads
    <3> QED
      BY <3>1, <3>2
  <2>4. ASSUME NEW i \in DOMAIN u
        PROVE  /\ u[i].verb # "delete" => u[i].to = w[u[i].name]
               /\ u[i].verb = "delete" => w[u[i].name] = None
               /\ u[i].verb # "post"
    BY <1>3, <2>2, SMTT(30)
  <2>5. ASSUME NEW i \in DOMAIN u, NEW j \in DOMAIN u, i < j PROVE u[i].name # u[j].name
    <3>1. i + 1 \in 2..Len(s) /\ j + 1 \in 2..Len(s) /\ i + 1 < j + 1
          /\ u[i] = s[i + 1] /\ u[j] = s[j + 1]
      BY <1>1, <1>2, <1>3, <2>5
    <3> QED
      BY <2>2, <3>1
  <2>6. Leads(u, rx, w)
    BY <2>3, <2>4, <2>5 DEF Leads
  <2> QED
    BY <1>2, <2>6
<1>5. CASE s[1].verb = "delete" /\ Covered(s, 1)
  <2>1. 2 \in DOMAIN s /\ s[2].verb = "post" /\ s[2].name = s[1].name /\ Len(s) >= 2
    BY <1>1, <1>5 DEF Covered
  <2>2. 1 \in DOMAIN u /\ u[1] = s[2]
    BY <1>1, <1>2, <2>1
  <2>3. \A i \in 3..Len(s) : /\ s[i].verb # "post"
                             /\ s[i].verb # "delete" => s[i].to = w[s[i].name]
                             /\ s[i].verb = "delete" => w[s[i].name] = None
    <3> TAKE i \in 3..Len(s)
    <3>1. i \in DOMAIN s /\ i # 1 /\ i # 2
      BY <1>1
    <3> QED
      BY <3>1 DEF Leads
  <2>4. s[2].to = w[s[2].name]
    BY <2>1 DEF Leads
  <2>5. ASSUME NEW n \in Names, \A i \in DOMAIN u : u[i].name # n PROVE rx[n] = w[n]
    <3>1. n # s[1].name
      BY <2>1, <2>2, <2>5
    <3>2. \A i \in DOMAIN s : s[i].name # n
      <4> SUFFICES ASSUME NEW i \in 2..Len(s) PROVE s[i].name # n
        BY <1>1, <3>1
      <4>1. i - 1 \in DOMAIN u /\ u[i - 1] = s[i]
        BY <1>1, <1>2
      <4> QED
        BY <2>5, <4>1
    <3> QED
      BY <3>1, <3>2 DEF Leads
  <2>6. ASSUME NEW i \in DOMAIN u
        PROVE  /\ u[i].verb # "delete" => u[i].to = w[u[i].name]
               /\ u[i].verb = "delete" => w[u[i].name] = None
               /\ u[i].verb = "post" => i = 1 /\ rx[u[i].name] = None
    <3>1. CASE i = 1
      BY <1>5, <2>1, <2>2, <2>4, <3>1
    <3>2. CASE i # 1
      <4>1. i + 1 \in 3..Len(s) /\ u[i] = s[i + 1]
        BY <1>1, <1>2, <3>2
      <4> QED
        BY <2>3, <4>1
    <3> QED
      BY <3>1, <3>2
  <2>7. ASSUME NEW i \in DOMAIN u, NEW j \in DOMAIN u, i < j PROVE u[i].name # u[j].name
    <3>1. i + 1 \in DOMAIN s /\ j + 1 \in DOMAIN s /\ i + 1 < j + 1 /\ i + 1 # 1
          /\ u[i] = s[i + 1] /\ u[j] = s[j + 1]
      BY <1>1, <1>2, <2>7
    <3> QED
      BY <3>1 DEF Leads
  <2>8. Leads(u, rx, w)
    BY <2>5, <2>6, <2>7 DEF Leads
  <2> QED
    BY <1>2, <2>8
<1> QED
  BY <1>4, <1>5
\* A PUT is answered, and calls of the same name take its place.
LEMMA PutLeads ==
  ASSUME NEW s \in Seq(Call), s # <<>>, NEW rt, NEW w, Leads(s, rt, w),
         s[1].verb = "put", s[1].name \in Names, s[1].to \in Routed,
         NEW t \in Seq(Call),
         \/ t = <<Post(s[1].name, s[1].to)>> /\ rt[s[1].name] = None
         \/ t = <<DeleteCall(s[1].name), Post(s[1].name, s[1].to)>>
  PROVE  Leads(t \o Tail(s), rt, w)
<1>1. Len(s) \in Nat /\ Len(s) > 0 /\ DOMAIN s = 1..Len(s) /\ 1 \in DOMAIN s
  BY LenProperties, EmptySeq
<1> PICK c \in Call : c = s[1]
  BY <1>1, ElementOfSeq
<1>2. PICK u \in Seq(Call) :
        /\ u = t \o Tail(s) /\ Len(u) = Len(t) + Len(s) - 1 /\ DOMAIN u = 1..Len(u)
        /\ \A i \in 1..Len(t) : u[i] = t[i]
        /\ \A i \in 2..Len(s) : u[Len(t) + i - 1] = s[i]
  BY AdvancedIs
<1>3. /\ \A i \in 2..Len(s) : /\ s[i].verb # "post" /\ s[i].name # c.name
                              /\ s[i].verb # "delete" => s[i].to = w[s[i].name]
                              /\ s[i].verb = "delete" => w[s[i].name] = None
      /\ \A i, j \in 2..Len(s) : i < j => s[i].name # s[j].name
  BY RestLeads
<1>4. c.to = w[c.name] /\ c.verb = "put" /\ c.name \in Names /\ c.to \in Routed
  BY <1>1 DEF Leads
<1>5. /\ Post(c.name, c.to).verb = "post" /\ Post(c.name, c.to).name = c.name
      /\ Post(c.name, c.to).to = c.to
  BY <1>4, PostIs
<1>6. CASE t = <<Post(c.name, c.to)>> /\ rt[c.name] = None
  <2>1. Len(t) = 1 /\ t[1] = Post(c.name, c.to)
    BY <1>6
  <2>2. Len(u) = Len(s) /\ u[1] = Post(c.name, c.to) /\ \A i \in 2..Len(s) : u[i] = s[i]
    BY <1>1, <1>2, <2>1
  <2>3. DOMAIN u = 1..Len(s) /\ 1 \in DOMAIN u
    BY <1>1, <1>2, <2>2
  <2>4. ASSUME NEW n \in Names, \A i \in DOMAIN u : u[i].name # n PROVE rt[n] = w[n]
    <3>1. n # c.name
      BY <1>5, <2>2, <2>3, <2>4
    <3>2. \A i \in DOMAIN s : s[i].name # n
      BY <1>1, <2>2, <2>3, <2>4, <3>1
    <3> QED
      BY <3>2 DEF Leads
  <2>5. ASSUME NEW i \in DOMAIN u
        PROVE  /\ u[i].verb # "delete" => u[i].to = w[u[i].name]
               /\ u[i].verb = "delete" => w[u[i].name] = None
               /\ u[i].verb = "post" => i = 1 /\ rt[u[i].name] = None
    <3>1. CASE i = 1
      BY <1>4, <1>5, <1>6, <2>2, <3>1
    <3>2. CASE i \in 2..Len(s)
      BY <1>3, <2>2, <3>2
    <3> QED
      BY <2>3, <3>1, <3>2
  <2>6. ASSUME NEW i \in DOMAIN u, NEW j \in DOMAIN u, i < j PROVE u[i].name # u[j].name
    <3>1. j \in 2..Len(s) /\ u[j] = s[j]
      BY <2>2, <2>3, <2>6
    <3>2. CASE i = 1
      BY <1>3, <1>5, <2>2, <3>1, <3>2
    <3>3. CASE i \in 2..Len(s)
      BY <1>3, <2>2, <2>6, <3>1, <3>3
    <3> QED
      BY <2>3, <3>2, <3>3
  <2>7. Leads(u, rt, w)
    BY <2>4, <2>5, <2>6 DEF Leads
  <2> QED
    BY <1>2, <2>7
<1>7. CASE t = <<DeleteCall(c.name), Post(c.name, c.to)>>
  <2>1. Len(t) = 2 /\ t[1] = DeleteCall(c.name) /\ t[2] = Post(c.name, c.to)
    BY <1>7
  <2>2. /\ Len(u) = Len(s) + 1 /\ u[1] = DeleteCall(c.name) /\ u[2] = Post(c.name, c.to)
        /\ \A i \in 2..Len(s) : u[i + 1] = s[i]
    BY <1>1, <1>2, <2>1
  <2>3. DOMAIN u = 1..(Len(s) + 1) /\ 1 \in DOMAIN u /\ 2 \in DOMAIN u
    BY <1>1, <1>2, <2>2
  <2>4. DeleteCall(c.name).verb = "delete" /\ DeleteCall(c.name).name = c.name
    BY <1>4, DeleteIs
  <2>5. \A i \in 3..(Len(s) + 1) : i - 1 \in 2..Len(s) /\ u[i] = s[i - 1]
    <3> TAKE i \in 3..(Len(s) + 1)
    <3>1. i - 1 \in 2..Len(s) /\ (i - 1) + 1 = i
      BY <1>1
    <3> QED
      BY <2>2, <3>1
  <2>6. Covered(u, 1)
    BY <1>5, <2>2, <2>3, <2>4 DEF Covered
  <2>7. ASSUME NEW n \in Names, \A i \in DOMAIN u : u[i].name # n PROVE rt[n] = w[n]
    <3>1. n # c.name
      BY <1>5, <2>2, <2>3, <2>7
    <3>2. \A i \in DOMAIN s : s[i].name # n
      <4> SUFFICES ASSUME NEW i \in 2..Len(s) PROVE s[i].name # n
        BY <1>1, <3>1
      <4>1. i + 1 \in DOMAIN u /\ u[i + 1] = s[i]
        BY <1>1, <2>2, <2>3
      <4> QED
        BY <2>7, <4>1
    <3> QED
      BY <3>2 DEF Leads
  <2>8. ASSUME NEW i \in DOMAIN u
        PROVE  /\ u[i].verb # "delete" => u[i].to = w[u[i].name]
               /\ u[i].verb = "delete" => (i = 1 /\ Covered(u, 1)) \/ w[u[i].name] = None
               /\ u[i].verb = "post" => i = 2 /\ u[1].verb = "delete" /\ u[1].name = u[2].name
    <3>1. CASE i = 1
      BY <2>2, <2>4, <2>6, <3>1
    <3>2. CASE i = 2
      BY <1>4, <1>5, <2>2, <2>4, <3>2
    <3>3. CASE i \in 3..(Len(s) + 1)
      BY <1>3, <2>5, <3>3
    <3> QED
      BY <1>1, <2>3, <3>1, <3>2, <3>3
  <2>9. ASSUME NEW i \in DOMAIN u, NEW j \in DOMAIN u, i < j, u[i].name = u[j].name
        PROVE  i = 1 /\ j = 2
    <3>1. CASE j = 2
      BY <2>3, <2>9, <3>1
    <3>2. CASE j \in 3..(Len(s) + 1)
      <4>1. j - 1 \in 2..Len(s) /\ u[j] = s[j - 1]
        BY <2>5, <3>2
      <4>2. CASE i = 1 \/ i = 2
        BY <1>3, <1>5, <2>2, <2>4, <2>9, <4>1, <4>2
      <4>3. CASE i \in 3..(Len(s) + 1)
        <5>1. i - 1 \in 2..Len(s) /\ u[i] = s[i - 1] /\ i - 1 < j - 1
          BY <1>1, <2>5, <2>9, <3>2, <4>3
        <5> QED
          BY <1>3, <2>9, <4>1, <5>1
      <4> QED
        BY <1>1, <2>3, <4>2, <4>3
    <3> QED
      BY <1>1, <2>3, <2>9, <3>1, <3>2
  <2>10. Leads(u, rt, w)
    BY <2>6, <2>7, <2>8, <2>9 DEF Leads
  <2> QED
    BY <1>2, <2>10
<1> QED
  BY <1>6, <1>7
\* One PUT leads to what is asked for, if that differs under its name at most.
LEMMA OnePutLeads ==
  ASSUME NEW n \in Names, NEW to \in Routed, NEW rt, NEW w, w[n] = to,
         \A m \in Names \ {n} : rt[m] = w[m]
  PROVE  Leads(<<Put(n, to)>>, rt, w)
<1>1. PICK s \in Seq(Call) : s = <<Put(n, to)>> /\ DOMAIN s = {1} /\ s[1] = Put(n, to)
  <2>1. <<Put(n, to)>> \in Seq(Call) /\ DOMAIN <<Put(n, to)>> = {1}
    BY PutIs
  <2>2. <<Put(n, to)>>[1] = Put(n, to)
    OBVIOUS
  <2> QED
    BY <2>1, <2>2
<1>2. s[1].verb = "put" /\ s[1].name = n /\ s[1].to = to
  BY <1>1, PutIs
<1>3. Leads(s, rt, w)
  BY <1>1, <1>2 DEF Leads
<1> QED
  BY <1>1, <1>3

\* What a rename calls: a PUT of the new name, a DELETE of the old one.
LEMMA RenameLeads ==
  ASSUME NEW n \in Names, NEW m \in Names, n # m, NEW to \in Routed, NEW rt, NEW w,
         w[n] = to, w[m] = None, \A k \in Names \ {n, m} : rt[k] = w[k]
  PROVE  Leads(<<Put(n, to), DeleteCall(m)>>, rt, w) /\ <<Put(n, to), DeleteCall(m)>> \in Seq(Call)
<1>1. PICK c \in Call : c = Put(n, to) /\ c.verb = "put" /\ c.name = n /\ c.to = to
  <2>1. Put(n, to) \in Call /\ Put(n, to).verb = "put" /\ Put(n, to).name = n /\ Put(n, to).to = to
    BY PutIs
  <2> QED
    BY <2>1
<1>2. PICK d \in Call : d = DeleteCall(m) /\ d.verb = "delete" /\ d.name = m
  BY DeleteIs
<1>3. PICK s \in Seq(Call) : s = <<c, d>> /\ DOMAIN s = 1..2 /\ s[1] = c /\ s[2] = d
  <2>1. <<c, d>> \in Seq(Call) /\ DOMAIN <<c, d>> = 1..2
    OBVIOUS
  <2> QED
    BY <2>1
<1>4. Leads(s, rt, w)
  <2>1. \A k \in Names : (\A i \in DOMAIN s : s[i].name # k) => rt[k] = w[k]
    BY <1>1, <1>2, <1>3
  <2>2. \A i \in DOMAIN s : i = 1 \/ i = 2
    BY <1>3
  <2>3. \A i, j \in DOMAIN s : i < j => s[i].name # s[j].name
    BY <1>1, <1>2, <1>3
  <2> QED
    BY <1>1, <1>2, <1>3, <2>1, <2>2, <2>3 DEF Leads
<1> QED
  BY <1>1, <1>2, <1>3, <1>4

\* No call leads on if there is nothing to change.
LEMMA NoCallLeads ==
  ASSUME NEW rt, NEW w, \A n \in Names : rt[n] = w[n]
  PROVE  Leads(<<>>, rt, w) /\ <<>> \in Seq(Call)
BY DEF Leads

\* A status is written, and its PUT takes its place.
LEMMA MarkLeads ==
  ASSUME NEW s \in Seq(Call), s # <<>>, NEW rt, NEW w, Leads(s, rt, w),
         s[1].verb = "mark", s[1].name \in Names, s[1].to \in Routed,
         NEW t \in Seq(Call), t = <<Put(s[1].name, s[1].to)>>
  PROVE  Leads(t \o Tail(s), rt, w)
<1>1. Len(s) \in Nat /\ Len(s) > 0 /\ DOMAIN s = 1..Len(s) /\ 1 \in DOMAIN s
  BY LenProperties, EmptySeq
<1> PICK c \in Call : c = s[1]
  BY <1>1, ElementOfSeq
<1>2. PICK u \in Seq(Call) :
        /\ u = t \o Tail(s) /\ Len(u) = Len(t) + Len(s) - 1 /\ DOMAIN u = 1..Len(u)
        /\ \A i \in 1..Len(t) : u[i] = t[i]
        /\ \A i \in 2..Len(s) : u[Len(t) + i - 1] = s[i]
  BY AdvancedIs
<1>3. /\ \A i \in 2..Len(s) : /\ s[i].verb # "post" /\ s[i].name # c.name
                              /\ s[i].verb # "delete" => s[i].to = w[s[i].name]
                              /\ s[i].verb = "delete" => w[s[i].name] = None
      /\ \A i, j \in 2..Len(s) : i < j => s[i].name # s[j].name
  BY RestLeads
<1>4. c.to = w[c.name] /\ c.name \in Names /\ c.to \in Routed
  BY <1>1 DEF Leads
<1>5. /\ Put(c.name, c.to).verb = "put" /\ Put(c.name, c.to).name = c.name
      /\ Put(c.name, c.to).to = c.to
  BY <1>4, PutIs
<1>6. Len(t) = 1 /\ t[1] = Put(c.name, c.to)
  OBVIOUS
<1>7. Len(u) = Len(s) /\ u[1] = Put(c.name, c.to) /\ \A i \in 2..Len(s) : u[i] = s[i]
  BY <1>1, <1>2, <1>6
<1>8. DOMAIN u = 1..Len(s) /\ 1 \in DOMAIN u
  BY <1>1, <1>2, <1>7
<1>9. ASSUME NEW n \in Names, \A i \in DOMAIN u : u[i].name # n PROVE rt[n] = w[n]
  <2>1. n # c.name
    BY <1>5, <1>7, <1>8, <1>9
  <2>2. \A i \in DOMAIN s : s[i].name # n
    BY <1>1, <1>7, <1>8, <1>9, <2>1
  <2> QED
    BY <2>2 DEF Leads
<1>10. ASSUME NEW i \in DOMAIN u
       PROVE  /\ u[i].verb # "delete" => u[i].to = w[u[i].name]
              /\ u[i].verb = "delete" => w[u[i].name] = None
              /\ u[i].verb # "post"
  <2>1. CASE i = 1
    BY <1>4, <1>5, <1>7, <2>1
  <2>2. CASE i \in 2..Len(s)
    BY <1>3, <1>7, <2>2
  <2> QED
    BY <1>8, <2>1, <2>2
<1>11. ASSUME NEW i \in DOMAIN u, NEW j \in DOMAIN u, i < j PROVE u[i].name # u[j].name
  <2>1. j \in 2..Len(s) /\ u[j] = s[j]
    BY <1>7, <1>8, <1>11
  <2>2. CASE i = 1
    BY <1>3, <1>5, <1>7, <2>1, <2>2
  <2>3. CASE i \in 2..Len(s)
    BY <1>3, <1>7, <1>11, <2>1, <2>3
  <2> QED
    BY <1>8, <2>2, <2>3
<1>12. Leads(u, rt, w)
  BY <1>9, <1>10, <1>11 DEF Leads
<1> QED
  BY <1>2, <1>12

\* The statuses that are still to be written after the first call is answered by t.
LEMMA MarksRest ==
  ASSUME NEW s \in Seq(Call), s # <<>>, NEW t \in Seq(Call),
         \A i \in 1..Len(t) : t[i].verb # "mark"
  PROVE  /\ \A n : Marks(s, n) /\ (s[1].verb # "mark" \/ s[1].name # n) => Marks(t \o Tail(s), n)
         /\ \A i \in DOMAIN (t \o Tail(s)) : (t \o Tail(s))[i].verb = "mark" =>
              \E j \in DOMAIN s : j # 1 /\ (t \o Tail(s))[i] = s[j]
<1>1. Len(s) \in Nat /\ Len(s) > 0 /\ DOMAIN s = 1..Len(s) /\ Len(t) \in Nat
  BY LenProperties, EmptySeq
<1>2. PICK u \in Seq(Call) :
        /\ u = t \o Tail(s) /\ Len(u) = Len(t) + Len(s) - 1 /\ DOMAIN u = 1..Len(u)
        /\ \A i \in 1..Len(t) : u[i] = t[i]
        /\ \A i \in 2..Len(s) : u[Len(t) + i - 1] = s[i]
  BY AdvancedIs
<1>3. ASSUME NEW n, Marks(s, n), s[1].verb # "mark" \/ s[1].name # n PROVE Marks(u, n)
  <2>1. PICK i \in DOMAIN s : s[i].verb = "mark" /\ s[i].name = n
    BY <1>3 DEF Marks
  <2>2. i \in 2..Len(s)
    BY <1>1, <1>3, <2>1
  <2>3. Len(t) + i - 1 \in DOMAIN u /\ u[Len(t) + i - 1] = s[i]
    BY <1>1, <1>2, <2>2
  <2> QED
    BY <2>1, <2>3 DEF Marks
<1>4. ASSUME NEW i \in DOMAIN u, u[i].verb = "mark"
      PROVE  \E j \in DOMAIN s : j # 1 /\ u[i] = s[j]
  <2>1. i \notin 1..Len(t)
    BY <1>2, <1>4
  <2>2. i - Len(t) + 1 \in 2..Len(s) /\ Len(t) + (i - Len(t) + 1) - 1 = i
    BY <1>1, <1>2, <2>1
  <2>3. i - Len(t) + 1 \in DOMAIN s /\ i - Len(t) + 1 # 1 /\ u[i] = s[i - Len(t) + 1]
    BY <1>1, <1>2, <2>2
  <2> QED
    BY <2>3
<1> QED
  BY <1>2, <1>3, <1>4

\* The request that makes calls, alone.
LEMMA CallerFollows ==
  ASSUME InStep, NEW r \in Requests, At(r, "routes"), since = {}, ~boot
  PROVE  /\ Alone(r)
         /\ \E w : /\ Agrees(w) /\ Leads(req[r].calls, routes, w)
                   /\ \A i \in DOMAIN req[r].calls :
                        req[r].calls[i].verb = "mark" => MarkSound(req[r].calls[i])
BY AloneFollows DEF At, Follows

\* An answer of Caddy keeps its request in step.
LEMMA AnswerInStep ==
  ASSUME IInv, IInv', InStep, NEW r \in Requests, PutRoute(r) \/ PostRoute(r) \/ DeleteRoute(r)
  PROVE  InStep'
<1>1. At(r, "routes") /\ ~Idle(r)
  BY DEF PutRoute, PostRoute, DeleteRoute, Ready, At
<1> PICK s \in Seq(Call) : s = req[r].calls
  BY <1>1, CallsAre
<1> PICK c \in Call : c = Next1(r)
  BY <1>1, CallsAre
<1>2. s # <<>> /\ s[1] = c /\ CallSound(s, 1) /\ c.name \in Names
  BY <1>1, CallsAre DEF Call
<1>3. PICK t \in Seq(Call) :
        /\ Answered(r, t) /\ c.verb # "mark" /\ \A i \in 1..Len(t) : t[i].verb # "mark"
        /\ \/ /\ c.verb = "put" /\ UNCHANGED routes
              /\ \/ t = <<Post(c.name, c.to)>> /\ routes[c.name] = None
                 \/ t = <<DeleteCall(c.name), Post(c.name, c.to)>>
           \/ /\ t = <<>> /\ \A n \in Names \ {c.name} : routes'[n] = routes[n]
              /\ \/ c.verb = "delete" /\ routes'[c.name] = None
                 \/ c.verb = "put" /\ routes'[c.name] = c.to
                 \/ c.verb = "post" /\ (routes[c.name] = None => routes'[c.name] = c.to)
  <2>1. /\ <<>> \in Seq(Call) /\ routes \in [Names -> Routed \cup {None}]
        /\ \A i \in 1..Len(<<>>) : <<>>[i].verb # "mark"
    BY EmptySeq, RowsTyped
  <2>2. CASE PutRoute(r)
    <3>1. c.verb = "put"
      BY <2>2 DEF PutRoute, Ready
    <3>2. c.to \in Routed
      BY <1>2, <3>1 DEF CallSound
    <3>3. /\ <<Post(c.name, c.to)>> \in Seq(Call)
          /\ \A i \in 1..Len(<<Post(c.name, c.to)>>) : <<Post(c.name, c.to)>>[i].verb # "mark"
      <4>1. Post(c.name, c.to) \in Call /\ Post(c.name, c.to).verb # "mark"
        BY <1>2, <3>2, PostIs
      <4> QED
        BY <4>1
    <3>4. /\ Replacement(c) \in Seq(Call)
          /\ Replacement(c) = <<DeleteCall(c.name), Post(c.name, c.to)>>
          /\ \A i \in 1..Len(Replacement(c)) : Replacement(c)[i].verb # "mark"
      <4>1. /\ Post(c.name, c.to) \in Call /\ Post(c.name, c.to).verb # "mark"
            /\ DeleteCall(c.name) \in Call /\ DeleteCall(c.name).verb # "mark"
        BY <1>2, <3>2, PostIs, DeleteIs
      <4> QED
        BY <4>1 DEF Replacement
    <3>5. CASE routes[c.name] = None /\ Answered(r, <<Post(c.name, c.to)>>) /\ UNCHANGED routes
      BY <3>1, <3>3, <3>5
    <3>6. CASE routes[c.name] # None /\ routes' = [routes EXCEPT ![c.name] = c.to] /\ Answered(r, <<>>)
      BY <1>2, <2>1, <3>1, <3>6
    <3>7. CASE routes[c.name] # None /\ Answered(r, Replacement(c)) /\ UNCHANGED routes
      BY <3>1, <3>4, <3>7
    <3> QED
      BY <2>2, <3>5, <3>6, <3>7 DEF PutRoute
  <2>3. CASE PostRoute(r)
    BY <1>2, <2>1, <2>3 DEF PostRoute, Ready
  <2>4. CASE DeleteRoute(r)
    BY <1>2, <2>1, <2>4 DEF DeleteRoute, Ready
  <2> QED
    BY <2>2, <2>3, <2>4
<1>4. UNCHANGED <<rows, events, boot, since>> /\ Proceed(r, t \o Tail(s))
  BY <1>3 DEF Answered, KeepAll
<1>5. PICK u \in Seq(Call) : u = t \o Tail(s)
  BY <1>2, AdvancedIs
<1>6. req'[r] = Calling(u) /\ \A q \in Requests \ {r} : req'[q] = req[q]
  BY <1>4, <1>5, ProceedIs DEF IInv
<1>7. ASSUME since' = {}, ~boot PROVE OnTrack(r)
  <2>1. since = {}
    BY <1>4, <1>7
  <2> PICK w : /\ Agrees(w) /\ Leads(s, routes, w)
               /\ \A i \in DOMAIN s : s[i].verb = "mark" => MarkSound(s[i])
    BY <1>1, <1>7, <2>1, CallerFollows
  <2> PICK rt : rt = routes
    OBVIOUS
  <2> PICK rx : rx = routes'
    OBVIOUS
  <2>2. 1 \in DOMAIN s
    BY <1>2, LenProperties, EmptySeq
  <2>3. Leads(u, rx, w)
    <3>1. CASE /\ c.verb = "put" /\ UNCHANGED routes
               /\ \/ t = <<Post(c.name, c.to)>> /\ routes[c.name] = None
                  \/ t = <<DeleteCall(c.name), Post(c.name, c.to)>>
      <4>1. c.to \in Routed /\ rx = rt /\ Leads(s, rt, w)
        BY <1>2, <3>1 DEF CallSound
      <4> QED
        BY <1>2, <1>5, <3>1, <4>1, PutLeads
    <3>2. CASE /\ t = <<>> /\ \A n \in Names \ {c.name} : routes'[n] = routes[n]
               /\ \/ c.verb = "delete" /\ routes'[c.name] = None
                  \/ c.verb = "put" /\ routes'[c.name] = c.to
                  \/ c.verb = "post" /\ (routes[c.name] = None => routes'[c.name] = c.to)
      <4>1. c.verb # "delete" => c.to = w[c.name]
        BY <1>2, <2>2 DEF Leads
      <4>2. c.verb = "post" => rt[c.name] = None
        BY <1>2, <2>2 DEF Leads
      <4>3. Leads(Tail(s), rx, w)
        <5>1. IF s[1].verb = "delete" THEN rx[s[1].name] = None
                                      ELSE rx[s[1].name] = w[s[1].name]
          BY <1>2, <3>2, <4>1, <4>2
        <5>2. (\A n \in Names \ {s[1].name} : rx[n] = rt[n]) /\ Leads(s, rt, w)
          BY <1>2, <3>2
        <5> QED
          BY <1>2, <5>1, <5>2, DoneLeads
      <4>4. u = Tail(s)
        BY <1>2, <1>5, <3>2, HeadTailProperties, ConcatEmptySeq
      <4> QED
        BY <4>3, <4>4
    <3> QED
      BY <1>3, <3>1, <3>2
  <2>4. /\ \A n : Marks(s, n) => Marks(u, n)
        /\ \A i \in DOMAIN u : u[i].verb = "mark" => \E j \in DOMAIN s : u[i] = s[j]
    <3>1. /\ \A n : Marks(s, n) => Marks(t \o Tail(s), n)
          /\ \A i \in DOMAIN (t \o Tail(s)) : (t \o Tail(s))[i].verb = "mark" =>
               \E j \in DOMAIN s : (t \o Tail(s))[i] = s[j]
      <4>1. s[1].verb # "mark" /\ \A i \in 1..Len(t) : t[i].verb # "mark"
        BY <1>2, <1>3
      <4>2. /\ \A n : Marks(s, n) /\ (s[1].verb # "mark" \/ s[1].name # n) => Marks(t \o Tail(s), n)
            /\ \A i \in DOMAIN (t \o Tail(s)) : (t \o Tail(s))[i].verb = "mark" =>
                 \E j \in DOMAIN s : j # 1 /\ (t \o Tail(s))[i] = s[j]
        BY <1>2, <4>1, MarksRest
      <4> QED
        BY <4>1, <4>2
    <3> QED
      BY <1>5, <3>1
  <2>5. Agrees(w)'
    <3>1. w \in [Names -> Routed \cup {None}]
      BY DEF Agrees
    <3>2. ASSUME NEW n \in Names, Late(n) PROVE Late(n)'
      <4>1. Alone(r)
        BY <1>1, <1>7, <2>1, CallerFollows
      <4>2. \A v \in VMs : Told(v) => Told(v)'
        BY <1>4 DEF Told
      <4>3. \A v \in VMs : Live(v) /\ rows[v].name = n => rows'[v] # None /\ rows'[v].name = n
        BY <1>4 DEF Live
      <4>4. Marks(req[r].calls, n) => req'[r] # None /\ req'[r].op = "routes" /\ Marks(req'[r].calls, n)
        <5> SUFFICES ASSUME Marks(s, n)
                     PROVE  req'[r] # None /\ req'[r].op = "routes" /\ Marks(req'[r].calls, n)
          OBVIOUS
        <5>1. Marks(u, n)
          BY <2>4
        <5>2. u # <<>>
          BY <5>1 DEF Marks
        <5> QED
          BY <1>6, <5>1, <5>2, CallingIs
      <4> QED
        BY <3>2, <4>1, <4>2, <4>3, <4>4, LateStays
    <3> QED
      BY <1>4, <3>1, <3>2, StillAgrees
  <2>6. ASSUME NEW i \in DOMAIN u, u[i].verb = "mark" PROVE MarkSound(u[i])'
    <3>1. MarkSound(u[i])
      BY <2>4, <2>6
    <3> QED
      BY <1>4, <3>1 DEF MarkSound, Live
  <2> QED
    BY <1>6, <2>3, <2>5, <2>6, LeadsOn
<1> QED
  BY <1>1, <1>4, <1>6, <1>7, InStepIf
-----------------------------------------------------------------------------
\* A request that begins alone finds the routes in step with the rows.
LEMMA EnterAlone ==
  ASSUME IInv, InStep, NEW r \in Requests, NEW request \in Request \cup {None}, Enter(r, request)
  PROVE  /\ boot' = boot /\ since \subseteq since' /\ routes' = routes /\ req'[r] = request
         /\ Idle(r) /\ \A q \in Requests \ {r} : req'[q] = req[q]
         /\ since' = {} => Alone(r) /\ Agrees(routes)
<1>1. /\ boot' = boot /\ since \subseteq since' /\ routes' = routes /\ ~boot /\ Idle(r)
      /\ req' = [req EXCEPT ![r] = request]
  BY DEF Enter
<1>2. ASSUME since' = {} PROVE Alone(r) /\ Agrees(routes)
  <2>1. since = {} /\ \A q \in Requests : Idle(q)
    BY <1>2 DEF Enter
  <2> PICK w : InStepBy(w)
    BY <1>1, <2>1 DEF InStep
  <2>2. Agrees(w) /\ routes = w
    BY <2>1 DEF InStepBy
  <2> QED
    BY <2>1, <2>2 DEF Alone
<1> QED
  BY <1>1, <1>2, RowsTyped

\* The same, of a handler's request that has read what it has read.
LEMMA BeginOn ==
  ASSUME IInv, IInv', InStep, NEW r \in Requests, NEW q \in Request, Begin(r, q),
         UNCHANGED rows,
         q.op \notin {"created", "routes"},
         q.op \in {"create", "rename", "renaming"} => \A v \in VMs : Live(v) => rows[v].name # q.name,
         q.op = "create" => ~Live(q.vm),
         q.op = "rename" => Live(q.vm),
         q.op \in {"renaming", "port", "delete"} => Live(q.vm) /\ q.seen = rows[q.vm]
  PROVE  InStep'
<1>1. Enter(r, q) /\ events' = events /\ q # None
  BY NoneAssumption DEF Begin
<1>2. /\ boot' = boot /\ since \subseteq since' /\ routes' = routes /\ req'[r] = q
      /\ Idle(r) /\ \A p \in Requests \ {r} : req'[p] = req[p]
      /\ since' = {} => Alone(r) /\ Agrees(routes)
  BY <1>1, EnterAlone
<1>3. ASSUME since' = {} PROVE OnTrack(r)
  <2> PICK w : w = routes
    OBVIOUS
  <2>1. Alone(r) /\ Agrees(w)
    BY <1>2, <1>3
  <2>2. Agrees(w)'
    <3>1. ASSUME NEW n \in Names, Late(n) PROVE Late(n)'
      <4>1. \A v \in VMs : Told(v) => Told(v)'
        BY <1>1 DEF Told
      <4>2. \A v \in VMs : Live(v) /\ rows[v].name = n => rows'[v] # None /\ rows'[v].name = n
        BY DEF Live
      <4>3. ~At(r, "routes")
        BY <1>2 DEF At
      <4> QED
        BY <2>1, <3>1, <4>1, <4>2, <4>3, LateStays
    <3> QED
      BY <2>1, <3>1, StillAgrees
  <2>3. Follows(r, w)'
    BY <1>2 DEF Follows, Live
  <2> QED
    BY <1>1, <1>2, <2>2, <2>3 DEF OnTrack
<1> QED
  BY <1>2, <1>3, InStepIf

\* A request that begins alone finds Caddy in step.
LEMMA BeginInStep ==
  ASSUME IInv, IInv', InStep, NEW r \in Requests,
         CreateBegin(r) \/ RenameBegin(r) \/ PortBegin(r) \/ DeleteBegin(r)
  PROVE  InStep'
<1>0. rows \in [VMs -> Row \cup {None}]
  BY RowsTyped
<1>1. CASE CreateBegin(r)
  <2>1. PICK v \in VMs \ used, n \in Vacant :
          /\ Begin(r, [Blank EXCEPT !.op = "create", !.vm = v, !.name = n]) /\ UNCHANGED rows
    BY <1>1 DEF CreateBegin
  <2> DEFINE q == [Blank EXCEPT !.op = "create", !.vm = v, !.name = n]
  <2>2. q \in Request /\ q.op = "create" /\ q.vm = v /\ q.name = n
    BY BlankIs DEF Request, Vacant
  <2> HIDE DEF q
  <2>3. Begin(r, q)
    BY <2>1 DEF q
  <2>4. ~Live(v) /\ \A w \in VMs : Live(w) => rows[w].name # n
    BY <2>1 DEF IInv, NamesSound, RowsUsed, Vacant, Taken
  <2> QED
    BY <2>1, <2>2, <2>3, <2>4, BeginOn
<1>2. CASE RenameBegin(r)
  <2>1. PICK v \in VMs, n \in Vacant :
          /\ Live(v) /\ UNCHANGED rows
          /\ Begin(r, [Blank EXCEPT !.op = "rename", !.vm = v, !.name = n])
    BY <1>2 DEF RenameBegin
  <2> DEFINE q == [Blank EXCEPT !.op = "rename", !.vm = v, !.name = n]
  <2>2. q \in Request /\ q.op = "rename" /\ q.vm = v /\ q.name = n
    BY BlankIs DEF Request, Vacant
  <2> HIDE DEF q
  <2>3. Begin(r, q)
    BY <2>1 DEF q
  <2>4. \A w \in VMs : Live(w) => rows[w].name # n
    BY <2>1 DEF Vacant, Taken
  <2> QED
    BY <2>1, <2>2, <2>3, <2>4, BeginOn
<1>3. CASE PortBegin(r)
  <2>1. PICK v \in VMs, p \in Ports :
          /\ Live(v) /\ UNCHANGED rows
          /\ Begin(r, [Blank EXCEPT !.op = "port", !.vm = v, !.port = p, !.seen = rows[v]])
    BY <1>3 DEF PortBegin
  <2> DEFINE q == [Blank EXCEPT !.op = "port", !.vm = v, !.port = p, !.seen = rows[v]]
  <2>2. q \in Request /\ q.op = "port" /\ q.vm = v /\ q.seen = rows[v]
    BY <1>0, <2>1, BlankIs DEF Request, Live
  <2> HIDE DEF q
  <2>3. Begin(r, q)
    BY <2>1 DEF q
  <2> QED
    BY <2>1, <2>2, <2>3, BeginOn
<1>4. CASE DeleteBegin(r)
  <2>1. PICK v \in VMs :
          /\ Live(v) /\ UNCHANGED rows
          /\ Begin(r, [Blank EXCEPT !.op = "delete", !.vm = v, !.seen = rows[v]])
    BY <1>4 DEF DeleteBegin
  <2> DEFINE q == [Blank EXCEPT !.op = "delete", !.vm = v, !.seen = rows[v]]
  <2>2. q \in Request /\ q.op = "delete" /\ q.vm = v /\ q.seen = rows[v]
    BY <1>0, <2>1, BlankIs DEF Request, Live
  <2> HIDE DEF q
  <2>3. Begin(r, q)
    BY <2>1 DEF q
  <2> QED
    BY <2>1, <2>2, <2>3, BeginOn
<1> QED
  BY <1>1, <1>2, <1>3, <1>4

\* Calls that each put or mark a name of its own lead to what they say.
LEMMA CallsLead ==
  ASSUME IInv, NEW u \in Seq(Call), NEW w, Agrees(w), routes' = w,
         \A i \in DOMAIN u : u[i].verb \in {"put", "mark"} /\ u[i].to \in Routed,
         \A i, j \in DOMAIN u : u[i].name = u[j].name => i = j
  PROVE  \E x \in [Names -> Routed \cup {None}] :
           /\ Leads(u, routes', x)
           /\ \A i \in DOMAIN u : x[u[i].name] = u[i].to
           /\ \A n \in Names : (\A i \in DOMAIN u : u[i].name # n) => x[n] = w[n]
<1>0. /\ DOMAIN u = 1..Len(u) /\ Len(u) \in Nat /\ w \in [Names -> Routed \cup {None}]
      /\ \A i \in DOMAIN u : u[i] \in Call
  BY LenProperties, ElementOfSeq DEF Agrees
<1> DEFINE Named1(n) == \E i \in DOMAIN u : u[i].name = n
           at(n) == CHOOSE i \in DOMAIN u : u[i].name = n
           y == [n \in Names |-> IF Named1(n) THEN u[at(n)].to ELSE w[n]]
<1>1. \A i \in DOMAIN u : at(u[i].name) = i /\ u[i].name \in Names /\ Named1(u[i].name)
  <2> TAKE i \in DOMAIN u
  <2>1. at(u[i].name) \in DOMAIN u /\ u[at(u[i].name)].name = u[i].name
    OBVIOUS
  <2>2. at(u[i].name) = i
    BY <2>1
  <2> QED
    BY <1>0, <2>2 DEF Call
<1>2. \A n \in Names : y[n] \in Routed \cup {None}
  <2> TAKE n \in Names
  <2>1. CASE Named1(n)
    <3>1. at(n) \in DOMAIN u
      BY <2>1
    <3> QED
      BY <2>1, <3>1
  <2>2. CASE ~Named1(n)
    BY <1>0, <2>2
  <2> QED
    BY <2>1, <2>2
<1>3. y \in [Names -> Routed \cup {None}]
  BY <1>2
<1>4. \A i \in DOMAIN u : y[u[i].name] = u[i].to
  BY <1>1
<1>5. \A n \in Names : (\A i \in DOMAIN u : u[i].name # n) => y[n] = w[n]
  OBVIOUS
<1> PICK x \in [Names -> Routed \cup {None}] :
      /\ \A i \in DOMAIN u : x[u[i].name] = u[i].to
      /\ \A n \in Names : (\A i \in DOMAIN u : u[i].name # n) => x[n] = w[n]
  BY <1>3, <1>4, <1>5
<1>6. Leads(u, routes', x)
  <2>1. \A i, j \in DOMAIN u : i < j => u[i].name # u[j].name
    BY <1>0
  <2> QED
    BY <2>1 DEF Leads
<1> QED
  BY <1>6

\* The calls of a heartbeat change what has no event or status to come.
LEMMA HeartbeatInStep ==
  ASSUME IInv, IInv', InStep, NEW r \in Requests, Heartbeat(r)
  PROVE  InStep'
<1>0. TypeOK /\ rows \in [VMs -> Row \cup {None}] /\ NamesApart
  BY DEF IInv, TypeOK, NamesSound
<1>1. PICK reported \in SUBSET VMs :
        /\ Todo(reported) # {} /\ Begin(r, Calling(HeartbeatCalls(reported)))
        /\ UNCHANGED <<rows, used>>
  BY DEF Heartbeat, HeartbeatCalls, Todo
<1>2. PICK u \in Seq(Call) :
        /\ u = HeartbeatCalls(reported) /\ u # <<>>
        /\ \A i \in DOMAIN u : \E v \in VMs : Live(v) /\ u[i] = BeatCall(v, reported)
        /\ \A i, j \in DOMAIN u : u[i].name = u[j].name => i = j
  BY <1>0, <1>1, HeartbeatCallsAre
<1>3. /\ Calling(u) \in Request \cup {None} /\ Enter(r, Calling(u)) /\ events' = events
      /\ Calling(u) # None /\ Calling(u).op = "routes" /\ Calling(u).calls = u
  BY <1>1, <1>2, CallingIs DEF Begin
<1>4. /\ boot' = boot /\ since \subseteq since' /\ routes' = routes /\ req'[r] = Calling(u)
      /\ Idle(r) /\ \A p \in Requests \ {r} : req'[p] = req[p]
      /\ since' = {} => Alone(r) /\ Agrees(routes)
  BY <1>3, EnterAlone
<1>5. ASSUME NEW i \in DOMAIN u
      PROVE  /\ u[i].to \in Routed
             /\ \/ u[i].verb = "put" /\ u[i].to = Wants(rows)[u[i].name]
                \/ u[i].verb = "mark" /\ MarkSound(u[i])
  <2>1. PICK v \in VMs : Live(v) /\ u[i] = BeatCall(v, reported)
    BY <1>2
  <2>2. rows[v] \in Row
    BY <1>0, <2>1 DEF Live
  <2>3. /\ u[i].name = rows[v].name /\ u[i].to \in Routed
        /\ \/ u[i].verb = "put" /\ u[i].to = TargetOf(v, rows[v])
           \/ /\ u[i].verb = "mark" /\ u[i].vm = v
              /\ u[i].to \in {Stopped, [vm |-> v, port |-> rows[v].port]}
    BY <2>1, <2>2, BeatIs
  <2>4. Wants(rows)[rows[v].name] = TargetOf(v, rows[v])
    BY <2>1, RowsTyped, WantsIs DEF Live
  <2> QED
    BY <2>1, <2>3, <2>4 DEF MarkSound
<1>6. ASSUME since' = {} PROVE OnTrack(r)
  <2>0. PICK w : w = routes
    OBVIOUS
  <2>1. Alone(r) /\ Agrees(w) /\ routes' = w
    BY <1>4, <1>6, <2>0
  <2>2. PICK x \in [Names -> Routed \cup {None}] :
           /\ Leads(u, routes', x)
           /\ \A i \in DOMAIN u : x[u[i].name] = u[i].to
           /\ \A n \in Names : (\A i \in DOMAIN u : u[i].name # n) => x[n] = w[n]
    <3>1. \A i \in DOMAIN u : u[i].verb \in {"put", "mark"} /\ u[i].to \in Routed
      BY <1>5
    <3> QED
      BY <1>2, <2>1, <3>1, CallsLead
  <2>3. Agrees(x)'
    <3>0. PICK N : N = {u[i].name : i \in DOMAIN u}
      OBVIOUS
    <3>1. ASSUME NEW n \in Names \ N PROVE x[n] = w[n] /\ (Late(n) => Late(n)')
      <4>1. x[n] = w[n]
        BY <2>2, <3>0
      <4>2. \A v \in VMs : Told(v) => Told(v)'
        BY <1>3 DEF Told
      <4>3. \A v \in VMs : Live(v) /\ rows[v].name = n => rows'[v] # None /\ rows'[v].name = n
        BY <1>1 DEF Live
      <4>4. ~At(r, "routes")
        BY <1>4 DEF At
      <4> QED
        BY <2>1, <4>1, <4>2, <4>3, <4>4, LateStays
    <3>2. ASSUME NEW n \in Names \cap N PROVE Late(n)' \/ x[n] = Wants(rows')[n]
      <4>1. PICK i \in DOMAIN u : u[i].name = n
        BY <3>0
      <4>2. CASE u[i].verb = "put" /\ u[i].to = Wants(rows)[n]
        BY <1>1, <2>2, <4>1, <4>2
      <4>3. CASE u[i].verb = "mark"
        <5>1. Marks(u, n)
          BY <4>1, <4>3 DEF Marks
        <5>2. Late(n)'
          BY <1>3, <1>4, <5>1 DEF Late, Marked, At, Idle
        <5> QED
          BY <5>2
      <4> QED
        BY <1>5, <4>1, <4>2, <4>3
    <3>3. rows' = rows
      BY <1>1
    <3>4. \A n \in Names \cap N : Late(n)' \/ x[n] = Wants(rows')[n]
      BY <3>2
    <3>7. Agrees(w)
      BY <2>1
    <3>5. x \in [Names -> Routed \cup {None}]
      BY <2>2
    <3>6. \A n \in Names \ N : x[n] = w[n] /\ (Late(n) => Late(n)')
      BY <3>1
    <3> QED
      BY <3>3, <3>4, <3>5, <3>6, <3>7, AgreesSame, ZenonT(60)
  <2>4. \A i \in DOMAIN u : u[i].verb = "mark" => MarkSound(u[i])'
    <3> TAKE i \in DOMAIN u
    <3>1. u[i].verb = "mark" => MarkSound(u[i])
      BY <1>5
    <3> QED
      BY <1>1, <3>1 DEF MarkSound, Live
  <2> QED
    BY <1>4, <2>2, <2>3, <2>4, LeadsOn
<1> QED
  BY <1>4, <1>6, InStepIf

\* The status that a watcher is about to write is late from now on, not the event.
LEMMA TakeInStep ==
  ASSUME IInv, IInv', InStep, NEW r \in Requests, Take(r)
  PROVE  InStep'
<1>0. /\ TypeOK /\ rows \in [VMs -> Row \cup {None}] /\ events \in [Watchers -> Seq(Event)]
      /\ r \in Watchers /\ events[r] # <<>> /\ rows' = rows
      /\ events' = [events EXCEPT ![r] = Tail(events[r])]
  BY DEF IInv, TypeOK, Take
<1>1. PICK e \in Event : e = Head(events[r]) /\ e = events[r][1]
  BY <1>0, EventsAre
<1>2. e.vm \in VMs /\ e.running \in BOOLEAN
  BY DEF Event
<1>3. \A v \in VMs : Told(v) /\ v # e.vm => Told(v)'
  <2> SUFFICES ASSUME NEW v \in VMs, Told(v), v # e.vm PROVE Told(v)'
    OBVIOUS
  <2>1. PICK x \in Watchers : \E i \in DOMAIN events[x] : events[x][i].vm = v
    BY DEF Told
  <2>2. PICK i \in DOMAIN events[x] : events[x][i].vm = v
    BY <2>1
  <2>3. CASE x # r
    <3>1. events'[x] = events[x]
      BY <1>0, <2>3
    <3> QED
      BY <2>2, <3>1 DEF Told
  <2>4. CASE x = r
    <3>1. i - 1 \in DOMAIN Tail(events[r]) /\ Tail(events[r])[i - 1] = events[r][i]
      BY <1>0, <1>1, <2>2, <2>4, EventsAre
    <3>2. events'[r] = Tail(events[r])
      BY <1>0
    <3> QED
      BY <1>0, <2>2, <2>4, <3>1, <3>2 DEF Told
  <2> QED
    BY <2>3, <2>4
<1>4. PICK q : /\ q = (IF Live(e.vm) THEN Calling(<<Mark(e.vm, rows[e.vm], e.running)>>) ELSE None)
               /\ Enter(r, q)
  BY <1>1 DEF Take
<1>5. CASE ~Live(e.vm)
  <2>1. q = None
    BY <1>4, <1>5
  <2>2. /\ boot' = boot /\ since \subseteq since' /\ routes' = routes /\ req'[r] = None
        /\ Idle(r) /\ \A p \in Requests \ {r} : req'[p] = req[p]
        /\ since' = {} => Alone(r) /\ Agrees(routes)
    BY <1>4, <2>1, EnterAlone
  <2>3. ASSUME since' = {} PROVE OnTrack(r)
    <3> PICK w : w = routes
      OBVIOUS
    <3>1. ASSUME NEW n \in Names, Late(n) PROVE Late(n)'
      <4>1. ~Marked(n)
        BY <2>2, <2>3 DEF Marked, At, Alone
      <4>2. PICK v \in VMs : Live(v) /\ rows[v].name = n /\ Told(v)
        BY <3>1, <4>1 DEF Late
      <4> QED
        BY <1>0, <1>3, <1>5, <4>2 DEF Late, Live
    <3>2. Agrees(w)'
      BY <1>0, <2>2, <2>3, <3>1, StillAgrees
    <3> QED
      BY <2>2, <3>2 DEF OnTrack
  <2> QED
    BY <2>2, <2>3, InStepIf
<1>6. CASE Live(e.vm)
  <2>1. rows[e.vm] \in Row
    BY <1>0, <1>2, <1>6 DEF Live
  <2>2. PICK c \in Call : /\ c = Mark(e.vm, rows[e.vm], e.running)
                          /\ c.verb = "mark" /\ c.vm = e.vm /\ c.name = rows[e.vm].name
                          /\ c.to \in Routed /\ c.to \in {Stopped, [vm |-> e.vm, port |-> rows[e.vm].port]}
    BY <1>2, <2>1, MarkIs
  <2>3. PICK u \in Seq(Call) : u = <<c>> /\ DOMAIN u = {1} /\ u[1] = c /\ u # <<>>
    <3>1. <<c>> \in Seq(Call) /\ DOMAIN <<c>> = {1} /\ <<c>> # <<>>
      OBVIOUS
    <3> QED
      BY <3>1
  <2>4. q = Calling(u) /\ q \in Request \cup {None} /\ q # None /\ q.op = "routes" /\ q.calls = u
    BY <1>4, <1>6, <2>2, <2>3, CallingIs
  <2>5. /\ boot' = boot /\ since \subseteq since' /\ routes' = routes /\ req'[r] = q
        /\ Idle(r) /\ \A p \in Requests \ {r} : req'[p] = req[p]
        /\ since' = {} => Alone(r) /\ Agrees(routes)
    BY <1>4, <2>4, EnterAlone
  <2>6. ASSUME since' = {} PROVE OnTrack(r)
    <3>0. PICK w : w = routes
      OBVIOUS
    <3>1. Alone(r) /\ Agrees(w) /\ routes' = w
      BY <2>5, <2>6, <3>0
    <3>2. PICK x \in [Names -> Routed \cup {None}] :
             /\ Leads(u, routes', x)
             /\ \A n \in Names : n # c.name => x[n] = w[n]
      <4>1. PICK x \in [Names -> Routed \cup {None}] :
             /\ Leads(u, routes', x)
             /\ \A i \in DOMAIN u : x[u[i].name] = u[i].to
             /\ \A n \in Names : (\A i \in DOMAIN u : u[i].name # n) => x[n] = w[n]
        <5>1. /\ \A i \in DOMAIN u : u[i].verb \in {"put", "mark"} /\ u[i].to \in Routed
              /\ \A i, j \in DOMAIN u : u[i].name = u[j].name => i = j
          BY <2>2, <2>3
        <5> QED
          BY <3>1, <5>1, CallsLead
      <4> QED
        BY <2>3, <4>1
    <3>3. Late(c.name)'
      <4>1. Marks(u, c.name)
        BY <2>2, <2>3 DEF Marks
      <4> QED
        BY <2>4, <2>5, <4>1 DEF Late, Marked, At, Idle
    <3>4. Agrees(x)'
      <4>0. PICK N : N = {c.name}
        OBVIOUS
      <4>1. ASSUME NEW n \in Names \ N, Late(n) PROVE Late(n)'
        <5>1. ~Marked(n)
          BY <2>5, <3>1 DEF Marked, At, Alone
        <5>2. PICK v \in VMs : Live(v) /\ rows[v].name = n /\ Told(v)
          BY <4>1, <5>1 DEF Late
        <5>3. v # e.vm
          BY <2>2, <4>0, <5>2
        <5> QED
          BY <1>0, <1>3, <5>2, <5>3 DEF Late, Live
      <4>2. \A n \in Names \cap N : Late(n)' \/ x[n] = Wants(rows')[n]
        BY <3>3, <4>0
      <4>3. \A n \in Names \ N : x[n] = w[n] /\ (Late(n) => Late(n)')
        BY <3>2, <4>0, <4>1
      <4>4. rows' = rows
        BY <1>0
      <4>5. Agrees(w)
        BY <3>1
      <4>6. x \in [Names -> Routed \cup {None}]
        BY <3>2
      <4> QED
        BY <4>2, <4>3, <4>4, <4>5, <4>6, AgreesSame, SMT, ZenonT(60)
    <3>5. MarkSound(c)'
      BY <1>0, <1>2, <1>6, <2>2 DEF MarkSound, Live
    <3> QED
      BY <2>3, <2>4, <2>5, <3>2, <3>4, <3>5, LeadsOn
  <2> QED
    BY <2>5, <2>6, InStepIf
<1> QED
  BY <1>5, <1>6
-----------------------------------------------------------------------------
\* One row is written, and no other name than N is about it: what is late under
\* the others stays late, and what the rows ask for there stays the same.
LEMMA RowWritten ==
  ASSUME IInv, IInv', NEW r \in Requests, Alone(r), ~At(r, "routes"), events' = events,
         NEW v \in VMs, \A u \in VMs \ {v} : rows'[u] = rows[u],
         NEW N, rows[v] # None => rows[v].name \in N, rows'[v] # None => rows'[v].name \in N,
         NEW w, Agrees(w), NEW x \in [Names -> Routed \cup {None}],
         \A n \in Names \ N : x[n] = w[n],
         \A n \in Names \cap N : Late(n)' \/ x[n] = Wants(rows')[n]
  PROVE  Agrees(x)'
<1>1. ASSUME NEW n \in Names \ N, Late(n) PROVE Late(n)'
  <2>1. \A u \in VMs : Told(u) => Told(u)'
    BY DEF Told
  <2>2. \A u \in VMs : Live(u) /\ rows[u].name = n => rows'[u] # None /\ rows'[u].name = n
    BY DEF Live
  <2> QED
    BY <1>1, <2>1, <2>2, LateStays
<1>2. \A n \in Names \ N : x[n] = w[n] /\ (Late(n) => Late(n)')
  BY <1>1
<1>3. \A n \in Names \ N : \A u \in VMs :
         \/ rows'[u] = rows[u]
         \/ /\ rows'[u] = None \/ rows'[u].name # n
            /\ rows[u] = None \/ rows[u].name # n
  <2> TAKE n \in Names \ N
  <2> TAKE u \in VMs
  <2>1. CASE u = v
    BY <2>1
  <2>2. CASE u # v
    BY <2>2
  <2> QED
    BY <2>1, <2>2
<1> QED
  BY <1>2, <1>3, AgreesOn, SMT, ZenonT(60)

\* A new row is the one thing that Caddy does not serve yet.
LEMMA CreateRowInStep ==
  ASSUME IInv, IInv', InStep, NEW r \in Requests, CreateRow(r)
  PROVE  InStep'
<1>0. /\ ~Idle(r) /\ req[r].op = "create" /\ req[r] \in Request
      /\ req[r].vm \in VMs /\ req[r].name \in Names
      /\ UNCHANGED <<routes, events, boot, since, ops, faults>>
  BY RowsTyped DEF CreateRow, Insert, At, IInv, RequestsSound, Shaped, Idle
<1>1. \A q \in Requests \ {r} : req'[q] = req[q]
  BY RowsTyped DEF CreateRow
<1>2. ASSUME since' = {}, ~boot PROVE OnTrack(r)
  <2>1. Alone(r) /\ since = {}
    BY <1>0, <1>2, AloneFollows
  <2> PICK w : Agrees(w) /\ Follows(r, w)
    BY <1>0, <1>2, <2>1, AloneFollows
  <2> PICK v \in VMs : v = req[r].vm
    BY <1>0
  <2> PICK n \in Names : n = req[r].name
    BY <1>0
  <2>2. /\ routes = w /\ ~Live(v) /\ w \in [Names -> Routed \cup {None}]
        /\ \A u \in VMs : Live(u) => rows[u].name # n
    BY <1>0 DEF Follows, Agrees
  <2>3. PICK p \in Ports :
          /\ rows' = [rows EXCEPT ![v] = [name |-> n, port |-> p, running |-> FALSE]]
          /\ req' = [req EXCEPT ![r].op = "created"]
    BY DEF CreateRow, Insert
  <2> DEFINE q == [req[r] EXCEPT !.op = "created"]
  <2>4. req'[r] = q /\ q \in Request /\ q.op = "created" /\ q.vm = v
    BY <1>0, <2>3, RowsTyped DEF Request
  <2> HIDE DEF q
  <2>5. [name |-> n, port |-> p, running |-> FALSE] \in Row
    BY DEF Row
  <2>6. /\ rows'[v] # None /\ rows'[v].name = n /\ ~rows'[v].running
        /\ \A u \in VMs \ {v} : rows'[u] = rows[u]
    BY <2>3, <2>5, RowsTyped, NoneAssumption
  <2> PICK x \in [Names -> Routed \cup {None}] : x[n] = Stopped /\ \A m \in Names \ {n} : x[m] = w[m]
    <3>1. [w EXCEPT ![n] = Stopped] \in [Names -> Routed \cup {None}]
      BY <2>2 DEF Routed
    <3> QED
      BY <2>2, <3>1
  <2>7. Wants(rows')[n] = Stopped
    <3>1. Wants(rows')[rows'[v].name] = TargetOf(v, rows'[v])
      BY <2>6, RowsTypedNext, WantsIs
    <3> QED
      BY <2>6, <3>1 DEF TargetOf
  <2>8. Agrees(x)'
    <3> PICK N : N = {n}
      OBVIOUS
    <3>1. /\ rows[v] # None => rows[v].name \in N
          /\ rows'[v] # None => rows'[v].name \in N
          /\ \A m \in Names \ N : x[m] = w[m]
          /\ \A m \in Names \cap N : Late(m)' \/ x[m] = Wants(rows')[m]
      BY <2>2, <2>6, <2>7 DEF Live
    <3>2. ~At(r, "routes")
      BY <1>0 DEF At
    <3> QED
      BY <1>0, <2>1, <2>6, <3>1, <3>2, RowWritten, SMT, ZenonT(60)
  <2>9. Follows(r, x)'
    <3>1. \A m \in Names \ {n} : routes'[m] = x[m]
      BY <1>0, <2>2
    <3> QED
      BY <2>4, <2>6, <3>1 DEF Follows, Live
  <2>10. req'[r] # None
    BY <2>4, NoneAssumption
  <2> QED
    BY <2>8, <2>9, <2>10 DEF OnTrack
<1> QED
  BY <1>0, <1>1, <1>2, InStepIf

\* A step that only reads, or ends its request, keeps what agrees.
LEMMA NothingWritten ==
  ASSUME IInv, IInv', NEW r \in Requests, Alone(r), ~At(r, "routes"), UNCHANGED <<rows, events>>,
         NEW w, Agrees(w)
  PROVE  Agrees(w)'
<1>1. ASSUME NEW n \in Names, Late(n) PROVE Late(n)'
  <2>1. \A u \in VMs : Told(u) => Told(u)'
    BY DEF Told
  <2>2. \A u \in VMs : Live(u) /\ rows[u].name = n => rows'[u] # None /\ rows'[u].name = n
    BY DEF Live
  <2> QED
    BY <1>1, <2>1, <2>2, LateStays
<1> QED
  BY <1>1, StillAgrees

\* The PUT of a create leads to what the row asked for; that its name was taken
\* cannot be, for a request alone.
LEMMA EndOfCreateInStep ==
  ASSUME IInv, IInv', InStep, NEW r \in Requests, CreateRoute(r) \/ CreateRefused(r)
  PROVE  InStep'
<1>0. /\ ~Idle(r) /\ req[r].op \in {"create", "created"} /\ req[r].vm \in VMs
      /\ UNCHANGED <<rows, routes, since, events, boot>>
  BY DEF CreateRoute, CreateRefused, At, IInv, RequestsSound, Shaped, Idle, KeepAll
<1>1. \A q \in Requests \ {r} : req'[q] = req[q]
  BY RowsTyped DEF CreateRoute, CreateRefused, Proceed
<1>2. ASSUME since' = {}, ~boot PROVE OnTrack(r)
  <2>1. Alone(r) /\ since = {} /\ ~At(r, "routes")
    BY <1>0, <1>2, AloneFollows DEF At
  <2> PICK w : Agrees(w) /\ Follows(r, w)
    BY <1>0, <1>2, <2>1, AloneFollows
  <2>2. CreateRoute(r)
    <3> SUFFICES ASSUME CreateRefused(r) PROVE FALSE
      OBVIOUS
    <3> QED
      BY DEF CreateRefused, At, Follows, Taken
  <2> PICK v \in VMs : v = req[r].vm
    BY <1>0
  <2>3. /\ rows[v] # None /\ w[rows[v].name] = Stopped
        /\ \A m \in Names \ {rows[v].name} : routes[m] = w[m]
    BY <2>2 DEF Follows, Live, CreateRoute, At
  <2> PICK n \in Names : n = rows[v].name
    BY <2>3, RowsTyped DEF Row
  <2>4. Proceed(r, <<Put(n, Stopped)>>)
    BY <2>2, <2>3 DEF CreateRoute
  <2>5. Stopped \in Routed
    BY DEF Routed
  <2>6. PICK u \in Seq(Call) : u = <<Put(n, Stopped)>> /\ DOMAIN u = {1} /\ u[1].verb = "put"
    <3>1. <<Put(n, Stopped)>> \in Seq(Call) /\ DOMAIN <<Put(n, Stopped)>> = {1} /\ Put(n, Stopped).verb = "put"
      BY <2>5, PutIs
    <3> QED
      BY <3>1
  <2>7. Leads(u, routes', w)
    <3>1. w[n] = Stopped /\ \A m \in Names \ {n} : routes'[m] = w[m]
      BY <1>0, <2>3
    <3> QED
      BY <2>5, <2>6, <3>1, OnePutLeads
  <2>8. req'[r] = Calling(u)
    BY <2>4, <2>6, ProceedIs DEF IInv
  <2>9. Agrees(w)'
    BY <1>0, <2>1, NothingWritten
  <2>10. \A i \in DOMAIN u : u[i].verb = "mark" => MarkSound(u[i])'
    BY <2>6
  <2> QED
    BY <2>7, <2>8, <2>9, <2>10, LeadsOn
<1> QED
  BY <1>0, <1>1, <1>2, InStepIf

\* What a rename reads alone is the row.
LEMMA RenameReadInStep ==
  ASSUME IInv, IInv', InStep, NEW r \in Requests, RenameRead(r)
  PROVE  InStep'
<1>0. /\ ~Idle(r) /\ req[r].op = "rename" /\ req[r] \in Request /\ req[r].vm \in VMs
      /\ UNCHANGED <<rows, routes, since, events, boot>>
  BY RowsTyped DEF RenameRead, At, Idle, KeepAll, IInv, RequestsSound, Shaped
<1>1. \A q \in Requests \ {r} : req'[q] = req[q]
  BY RowsTyped DEF RenameRead
<1>2. ASSUME since' = {}, ~boot PROVE OnTrack(r)
  <2>1. Alone(r) /\ since = {} /\ ~At(r, "routes")
    BY <1>0, <1>2, AloneFollows DEF At
  <2> PICK w : Agrees(w) /\ Follows(r, w)
    BY <1>0, <1>2, <2>1, AloneFollows
  <2>2. /\ rows[req[r].vm] # None /\ routes = w
        /\ \A u \in VMs : Live(u) => rows[u].name # req[r].name
    BY <1>0 DEF Follows, Live
  <2> DEFINE q == [req[r] EXCEPT !.op = "renaming", !.seen = rows[req[r].vm]]
  <2>3. req'[r] = q
    BY <1>0, <2>2, RowsTyped DEF RenameRead
  <2>4. q.op = "renaming" /\ q.vm = req[r].vm /\ q.name = req[r].name /\ q.seen = rows[req[r].vm]
    BY <1>0 DEF Request
  <2>5. q \in Request
    <3>1. rows[req[r].vm] \in Row
      BY <1>0, <2>2, RowsTyped
    <3> QED
      BY <1>0, <3>1 DEF Request
  <2> HIDE DEF q
  <2>6. Follows(r, w)'
    BY <1>0, <2>2, <2>3, <2>4 DEF Follows, Live
  <2>7. req'[r] # None
    BY <2>3, <2>5, NoneAssumption
  <2>8. Agrees(w)'
    BY <1>0, <2>1, NothingWritten
  <2> QED
    BY <2>6, <2>7, <2>8 DEF OnTrack
<1> QED
  BY <1>0, <1>1, <1>2, InStepIf
\* The calls of a rename delete the old name and put the new one.
LEMMA RenameRowInStep ==
  ASSUME IInv, IInv', InStep, NEW r \in Requests, RenameRow(r)
  PROVE  InStep'
<1>0. /\ ~Idle(r) /\ req[r].op = "renaming" /\ req[r].vm \in VMs /\ req[r].name \in Names
      /\ req[r].seen \in Row /\ UNCHANGED <<routes, events, boot, since>>
  BY DEF RenameRow, At, IInv, RequestsSound, Shaped, Idle
<1>1. \A q \in Requests \ {r} : req'[q] = req[q]
  BY RowsTyped DEF RenameRow, Proceed
<1>2. ASSUME since' = {}, ~boot PROVE OnTrack(r)
  <2>1. Alone(r) /\ since = {} /\ ~At(r, "routes")
    BY <1>0, <1>2, AloneFollows DEF At
  <2> PICK w : Agrees(w) /\ Follows(r, w)
    BY <1>0, <1>2, <2>1, AloneFollows
  <2> PICK v \in VMs : v = req[r].vm
    BY <1>0
  <2> PICK n \in Names : n = req[r].name
    BY <1>0
  <2> PICK seen \in Row : seen = req[r].seen
    BY <1>0
  <2>2. /\ routes = w /\ Live(v) /\ seen.name = rows[v].name /\ (seen = rows[v] \/ Told(v))
        /\ \A u \in VMs : Live(u) => rows[u].name # n
    BY <1>0 DEF Follows
  <2>3. n \notin Taken /\ w \in [Names -> Routed \cup {None}]
    BY <2>2 DEF Taken, Agrees
  <2> PICK row \in Row : row = rows[v]
    BY <2>2, RowsTyped DEF Live
  <2> PICK m \in Names : m = row.name
    BY DEF Row
  <2>4. /\ rows' = [rows EXCEPT ![v].name = n]
        /\ Proceed(r, <<Put(n, TargetOf(v, seen)), DeleteCall(m)>>)
    BY <2>2, <2>3 DEF RenameRow
  <2> DEFINE new == [row EXCEPT !.name = n]
  <2>5. new \in Row /\ new.name = n /\ TargetOf(v, new) = TargetOf(v, row)
    BY DEF Row, TargetOf
  <2>6. rows'[v] = new /\ \A u \in VMs \ {v} : rows'[u] = rows[u]
    BY <2>4, RowsTyped
  <2> HIDE DEF new
  <2>7. n # m
    BY <2>2
  <2>8. rows'[v] # None
    BY <2>5, <2>6, NoneAssumption
  <2>9. Wants(rows')[n] = TargetOf(v, row)
    BY <2>5, <2>6, <2>8, RowsTypedNext, WantsIs
  <2>10. Wants(rows')[m] = None
    <3>1. \A u \in VMs : rows'[u] # None => rows'[u].name # m
      BY <2>2, <2>5, <2>6, <2>7, RowsTyped DEF Live
    <3> QED
      BY <3>1, RowsTypedNext, WantsIs
  <2>11. PICK to \in Routed : to = TargetOf(v, seen)
    BY TargetIsRouted
  <2>12. PICK x \in [Names -> Routed \cup {None}] :
           x[n] = to /\ x[m] = None /\ \A k \in Names \ {n, m} : x[k] = w[k]
    <3>1. [w EXCEPT ![n] = to, ![m] = None] \in [Names -> Routed \cup {None}]
      BY <2>3
    <3> QED
      BY <2>3, <2>7, <3>1
  <2>13. Agrees(x)'
    <3>0. PICK N : N = {n, m}
      OBVIOUS
    <3>1. Late(n)' \/ x[n] = Wants(rows')[n]
      <4>1. CASE seen = row
        BY <2>9, <2>11, <2>12, <4>1
      <4>2. CASE Told(v)
        <5>1. Told(v)' /\ rows'[v].name = n
          BY <1>0, <2>5, <2>6, <4>2 DEF Told
        <5>2. Late(n)'
          BY <2>8, <5>1 DEF Late, Live
        <5> QED
          BY <5>2
      <4> QED
        BY <2>2, <4>1, <4>2
    <3>2. /\ rows[v] # None => rows[v].name \in N
          /\ rows'[v] # None => rows'[v].name \in N
      BY <2>5, <2>6, <3>0
    <3>3. \A k \in Names \ N : x[k] = w[k]
      BY <2>12, <3>0
    <3>4. \A k \in Names \cap N : Late(k)' \/ x[k] = Wants(rows')[k]
      BY <2>10, <2>12, <3>0, <3>1
    <3>5. \A u \in VMs \ {v} : rows'[u] = rows[u]
      BY <2>6
    <3>6. x \in [Names -> Routed \cup {None}]
      BY <2>12
    <3> QED
      BY <1>0, <2>1, <3>2, <3>3, <3>4, <3>5, <3>6, RowWritten, SMT, ZenonT(60)
  <2>14. PICK u \in Seq(Call) : /\ u = <<Put(n, to), DeleteCall(m)>>
                                /\ Leads(u, routes', x)
                                /\ \A i \in DOMAIN u : u[i].verb # "mark"
    <3>1. \A k \in Names \ {n, m} : routes'[k] = x[k]
      BY <1>0, <2>2, <2>12
    <3>2. /\ Leads(<<Put(n, to), DeleteCall(m)>>, routes', x)
          /\ <<Put(n, to), DeleteCall(m)>> \in Seq(Call)
      BY <2>7, <2>12, <3>1, RenameLeads
    <3>0. Put(n, to).verb # "mark" /\ DeleteCall(m).verb # "mark"
      BY <2>11, PutIs, DeleteIs
    <3>3. PICK a, b : /\ a = Put(n, to) /\ b = DeleteCall(m)
                      /\ a.verb # "mark" /\ b.verb # "mark"
      BY <3>0
    <3>4. PICK u \in Seq(Call) : u = <<a, b>> /\ Leads(u, routes', x)
      BY <3>2, <3>3
    <3>5. DOMAIN u = 1..2 /\ u[1] = a /\ u[2] = b
      BY <3>4
    <3>6. \A i \in DOMAIN u : u[i].verb # "mark"
      BY <3>3, <3>5
    <3> QED
      BY <3>3, <3>4, <3>6
  <2>15. req'[r] = Calling(u)
    BY <2>4, <2>11, <2>14, ProceedIs DEF IInv
  <2> QED
    BY <2>13, <2>14, <2>15, LeadsOn
<1> QED
  BY <1>0, <1>1, <1>2, InStepIf

\* The call of a port change puts what the row that was read asks for.
LEMMA PortRowInStep ==
  ASSUME IInv, IInv', InStep, NEW r \in Requests, PortRow(r)
  PROVE  InStep'
<1>0. /\ ~Idle(r) /\ req[r].op = "port" /\ req[r].vm \in VMs /\ req[r].port \in Ports
      /\ req[r].seen \in Row /\ UNCHANGED <<routes, events, boot, since>>
  BY DEF PortRow, At, IInv, RequestsSound, Shaped, Idle, KeepAll
<1>1. \A q \in Requests \ {r} : req'[q] = req[q]
  BY RowsTyped DEF PortRow, Proceed
<1>2. ASSUME since' = {}, ~boot PROVE OnTrack(r)
  <2>1. Alone(r) /\ since = {} /\ ~At(r, "routes")
    BY <1>0, <1>2, AloneFollows DEF At
  <2> PICK w : Agrees(w) /\ Follows(r, w)
    BY <1>0, <1>2, <2>1, AloneFollows
  <2> PICK v \in VMs : v = req[r].vm
    BY <1>0
  <2> PICK p \in Ports : p = req[r].port
    BY <1>0
  <2> PICK seen \in Row : seen = req[r].seen
    BY <1>0
  <2>2. /\ routes = w /\ Live(v) /\ seen.name = rows[v].name /\ (seen = rows[v] \/ Told(v))
        /\ w \in [Names -> Routed \cup {None}]
    BY <1>0 DEF Follows, Agrees
  <2> PICK row \in Row : row = rows[v]
    BY <2>2, RowsTyped DEF Live
  <2> PICK n \in Names : n = row.name
    BY DEF Row
  <2> DEFINE to == [vm |-> v, port |-> p]
  <2>3. /\ rows' = [rows EXCEPT ![v].port = p]
        /\ Proceed(r, IF seen.running THEN <<Put(n, to)>> ELSE <<>>)
    BY <2>2 DEF PortRow
  <2> DEFINE new == [row EXCEPT !.port = p]
  <2>4. /\ new \in Row /\ new.name = n /\ new.running = row.running
        /\ TargetOf(v, new) = IF row.running THEN to ELSE Stopped
        /\ ~row.running => TargetOf(v, row) = Stopped
    BY DEF Row, TargetOf
  <2>5. to \in Routed
    BY DEF Routed, Target
  <2>6. rows'[v] = new /\ \A u \in VMs \ {v} : rows'[u] = rows[u]
    BY <2>3, RowsTyped
  <2> HIDE DEF new, to
  <2>7. rows'[v] # None
    BY <2>4, <2>6, NoneAssumption
  <2>8. Wants(rows')[n] = IF row.running THEN to ELSE Stopped
    BY <2>4, <2>6, <2>7, RowsTypedNext, WantsIs
  <2>9. Told(v) => Late(n) /\ Late(n)'
    <3> SUFFICES ASSUME Told(v) PROVE Late(n) /\ Late(n)'
      OBVIOUS
    <3>1. Told(v)' /\ rows'[v].name = n
      BY <1>0, <2>4, <2>6 DEF Told
    <3> QED
      BY <2>2, <2>7, <3>1 DEF Late, Live
  <2>10. PICK x \in [Names -> Routed \cup {None}] :
           x[n] = (IF seen.running THEN to ELSE w[n]) /\ \A k \in Names \ {n} : x[k] = w[k]
    <3>1. [w EXCEPT ![n] = IF seen.running THEN to ELSE w[n]] \in [Names -> Routed \cup {None}]
      BY <2>2, <2>5
    <3> QED
      BY <2>2, <3>1
  <2>11. Agrees(x)'
    <3>0. PICK N : N = {n}
      OBVIOUS
    <3>1. Late(n)' \/ x[n] = Wants(rows')[n]
      <4>1. CASE Told(v)
        BY <2>9, <4>1
      <4>2. CASE seen = row /\ row.running
        BY <2>8, <2>10, <4>2
      <4>3. CASE seen = row /\ ~row.running
        <5>1. Wants(rows)[n] = Stopped
          BY <2>2, <2>4, <4>3, RowsTyped, WantsIs DEF Live
        <5>2. CASE Late(n)
          <6>1. \A u \in VMs : Told(u) => Told(u)'
            BY <1>0 DEF Told
          <6>2. \A u \in VMs : Live(u) /\ rows[u].name = n => rows'[u] # None /\ rows'[u].name = n
            BY <2>4, <2>6, <2>7 DEF Live
          <6> QED
            BY <2>1, <5>2, <6>1, <6>2, LateStays
        <5>3. CASE ~Late(n)
          BY <2>8, <2>10, <4>3, <5>1, <5>3 DEF Agrees
        <5> QED
          BY <5>2, <5>3
      <4> QED
        BY <2>2, <4>1, <4>2, <4>3
    <3>2. /\ rows[v] # None => rows[v].name \in N
          /\ rows'[v] # None => rows'[v].name \in N
      BY <2>4, <2>6, <3>0
    <3>3. \A k \in Names \ N : x[k] = w[k]
      BY <2>10, <3>0
    <3>4. \A k \in Names \cap N : Late(k)' \/ x[k] = Wants(rows')[k]
      BY <3>0, <3>1
    <3>5. \A u \in VMs \ {v} : rows'[u] = rows[u]
      BY <2>6
    <3>6. x \in [Names -> Routed \cup {None}]
      BY <2>10
    <3> QED
      BY <1>0, <2>1, <3>2, <3>3, <3>4, <3>5, <3>6, RowWritten, SMT, ZenonT(60)
  <2>12. PICK u \in Seq(Call) : /\ u = IF seen.running THEN <<Put(n, to)>> ELSE <<>>
                                /\ Leads(u, routes', x)
                                /\ \A i \in DOMAIN u : u[i].verb # "mark"
    <3>1. \A k \in Names \ {n} : routes'[k] = x[k]
      BY <1>0, <2>2, <2>10
    <3>2. CASE seen.running
      <4>1. Leads(<<Put(n, to)>>, routes', x)
        BY <2>5, <2>10, <3>1, <3>2, OnePutLeads
      <4>2. <<Put(n, to)>> \in Seq(Call) /\ DOMAIN <<Put(n, to)>> = {1} /\ Put(n, to).verb # "mark"
        BY <2>5, PutIs
      <4>3. PICK u \in Seq(Call) : /\ u = <<Put(n, to)>> /\ Leads(u, routes', x)
                                    /\ DOMAIN u = {1} /\ u[1].verb # "mark"
        BY <4>1, <4>2
      <4> QED
        BY <3>2, <4>3
    <3>3. CASE ~seen.running
      <4>1. \A k \in Names : routes'[k] = x[k]
        BY <1>0, <2>2, <2>10, <3>1, <3>3
      <4>2. Leads(<<>>, routes', x) /\ <<>> \in Seq(Call)
        BY <4>1, NoCallLeads
      <4>3. PICK u \in Seq(Call) : u = <<>> /\ Leads(u, routes', x)
        BY <4>2
      <4>4. Len(u) = 0 /\ DOMAIN u = 1..Len(u)
        BY <4>3, EmptySeq, LenProperties
      <4>5. \A i \in DOMAIN u : u[i].verb # "mark"
        BY <4>4
      <4> QED
        BY <3>3, <4>3, <4>5
    <3> QED
      BY <3>2, <3>3
  <2>13. req'[r] = Calling(u)
    BY <2>3, <2>12, ProceedIs DEF IInv
  <2> QED
    BY <2>11, <2>12, <2>13, LeadsOn
<1> QED
  BY <1>0, <1>1, <1>2, InStepIf

\* The call of a deletion deletes the one name that no row asks for now.
LEMMA DeleteRowInStep ==
  ASSUME IInv, IInv', InStep, NEW r \in Requests, DeleteRow(r)
  PROVE  InStep'
<1>0. /\ ~Idle(r) /\ req[r].op = "delete" /\ req[r].vm \in VMs
      /\ UNCHANGED <<routes, events, boot, since>>
  BY DEF DeleteRow, At, IInv, RequestsSound, Shaped, Idle, KeepAll
<1>1. \A q \in Requests \ {r} : req'[q] = req[q]
  BY RowsTyped DEF DeleteRow, Proceed
<1>2. ASSUME since' = {}, ~boot PROVE OnTrack(r)
  <2>1. Alone(r) /\ since = {} /\ ~At(r, "routes")
    BY <1>0, <1>2, AloneFollows DEF At
  <2> PICK w : Agrees(w) /\ Follows(r, w)
    BY <1>0, <1>2, <2>1, AloneFollows
  <2> PICK v \in VMs : v = req[r].vm
    BY <1>0
  <2>2. /\ routes = w /\ Live(v) /\ req[r].seen.name = rows[v].name
        /\ w \in [Names -> Routed \cup {None}]
    BY <1>0 DEF Follows, Agrees
  <2> PICK n \in Names : n = rows[v].name
    BY <2>2, RowsTyped DEF Live, Row
  <2>3. CASE rows[v].running
    <3>1. rows' = rows /\ Proceed(r, <<>>)
      BY <2>2, <2>3 DEF DeleteRow
    <3>2. req'[r] = None
      BY <3>1, EmptySeq, ProceedIs DEF IInv
    <3>3. Agrees(w)'
      BY <1>0, <2>1, <3>1, NothingWritten
    <3> QED
      BY <1>0, <2>2, <3>2, <3>3 DEF OnTrack
  <2>4. CASE ~rows[v].running
    <3>1. rows' = [rows EXCEPT ![v] = None] /\ Proceed(r, <<DeleteCall(n)>>)
      BY <2>2, <2>4 DEF DeleteRow
    <3>2. rows'[v] = None /\ \A u \in VMs \ {v} : rows'[u] = rows[u]
      BY <3>1, RowsTyped
    <3>3. Wants(rows')[n] = None
      <4>1. \A u \in VMs : rows'[u] # None => rows'[u].name # n
        BY <2>2, <3>2, RowsTyped DEF Live
      <4> QED
        BY <4>1, RowsTypedNext, WantsIs
    <3>4. PICK x \in [Names -> Routed \cup {None}] : x[n] = None /\ \A k \in Names \ {n} : x[k] = w[k]
      <4>1. [w EXCEPT ![n] = None] \in [Names -> Routed \cup {None}]
        BY <2>2
      <4> QED
        BY <2>2, <4>1
    <3>5. Agrees(x)'
      <4>0. PICK N : N = {n}
        OBVIOUS
      <4>1. /\ rows[v] # None => rows[v].name \in N
            /\ rows'[v] # None => rows'[v].name \in N
        BY <3>2, <4>0
      <4>2. \A k \in Names \ N : x[k] = w[k]
        BY <3>4, <4>0
      <4>3. \A k \in Names \cap N : Late(k)' \/ x[k] = Wants(rows')[k]
        BY <3>3, <3>4, <4>0
      <4>4. \A u \in VMs \ {v} : rows'[u] = rows[u]
        BY <3>2
      <4>5. x \in [Names -> Routed \cup {None}]
        BY <3>4
      <4> QED
        BY <1>0, <2>1, <4>1, <4>2, <4>3, <4>4, <4>5, RowWritten, SMT, ZenonT(60)
    <3>6. PICK d \in Call : d = DeleteCall(n) /\ d.verb = "delete" /\ d.name = n
      BY DeleteIs
    <3>7. PICK u \in Seq(Call) : u = <<d>> /\ DOMAIN u = {1} /\ u[1] = d
      <4>1. <<d>> \in Seq(Call) /\ DOMAIN <<d>> = {1}
        OBVIOUS
      <4> QED
        BY <4>1
    <3>8. Leads(u, routes', x)
      <4>1. \A k \in Names : (\A i \in DOMAIN u : u[i].name # k) => routes'[k] = x[k]
        BY <1>0, <2>2, <3>4, <3>6, <3>7
      <4>2. \A i \in DOMAIN u : u[i].verb = "delete" /\ x[u[i].name] = None
        BY <3>4, <3>6, <3>7
      <4>3. \A i, j \in DOMAIN u : ~(i < j)
        BY <3>7
      <4> QED
        BY <4>1, <4>2, <4>3 DEF Leads
    <3>9. req'[r] = Calling(u)
      BY <3>1, <3>6, <3>7, ProceedIs DEF IInv
    <3>10. \A i \in DOMAIN u : u[i].verb # "mark"
      BY <3>6, <3>7
    <3> QED
      BY <3>5, <3>8, <3>9, <3>10, LeadsOn
  <2> QED
    BY <2>3, <2>4
<1> QED
  BY <1>0, <1>1, <1>2, InStepIf
-----------------------------------------------------------------------------
\* A status is written: its row is what the PUT that follows asks for.
LEMMA MarkRowInStep ==
  ASSUME IInv, IInv', InStep, NEW r \in Requests, MarkRow(r)
  PROVE  InStep'
<1>1. /\ At(r, "routes") /\ ~Idle(r) /\ rows \in [VMs -> Row \cup {None}]
      /\ UNCHANGED <<routes, since, events, boot>>
  BY RowsTyped DEF MarkRow, Ready, At, KeepAll
<1> PICK s \in Seq(Call) : s = req[r].calls
  BY <1>1, CallsAre
<1> PICK c \in Call : c = Next1(r)
  BY <1>1, CallsAre
<1>2. /\ s # <<>> /\ s[1] = c /\ 1 \in DOMAIN s /\ c.verb = "mark" /\ c.name \in Names
      /\ c.to \in Routed
  <2>1. s # <<>> /\ s[1] = c /\ 1 \in DOMAIN s /\ c.verb = "mark" /\ CallSound(s, 1)
    BY <1>1, CallsAre DEF MarkRow, Ready
  <2> QED
    BY <2>1 DEF CallSound, Call
<1>3. PICK t \in Seq(Call) : /\ t = <<Put(c.name, c.to)>> /\ Len(t) = 1
                             /\ \A i \in 1..Len(t) : t[i].verb # "mark"
  <2>1. PICK a \in Call : a = Put(c.name, c.to) /\ a.verb # "mark"
    BY <1>2, PutIs
  <2>2. <<a>> \in Seq(Call) /\ Len(<<a>>) = 1 /\ <<a>>[1] = a
    OBVIOUS
  <2>3. \A i \in 1..Len(<<a>>) : <<a>>[i].verb # "mark"
    BY <2>1, <2>2
  <2> QED
    BY <2>1, <2>2, <2>3
<1>4. /\ rows' = IF Live(c.vm) THEN [rows EXCEPT ![c.vm].running = (c.to # Stopped)] ELSE rows
      /\ Proceed(r, t \o Tail(s))
  BY <1>3 DEF MarkRow
<1>5. PICK u \in Seq(Call) : u = t \o Tail(s)
  BY <1>2, AdvancedIs
<1>6. req'[r] = Calling(u) /\ \A q \in Requests \ {r} : req'[q] = req[q]
  BY <1>4, <1>5, ProceedIs DEF IInv
<1>7. ASSUME since' = {}, ~boot PROVE OnTrack(r)
  <2>1. since = {}
    BY <1>1, <1>7
  <2>2. PICK w : /\ Agrees(w) /\ Leads(s, routes, w)
                 /\ \A i \in DOMAIN s : s[i].verb = "mark" => MarkSound(s[i])
    BY <1>1, <1>7, <2>1, CallerFollows
  <2>3. Alone(r)
    BY <1>1, <1>7, <2>1, CallerFollows
  <2> PICK v \in VMs : v = c.vm
    BY <1>2, <2>2 DEF MarkSound
  <2>4. /\ Live(v) /\ rows[v].name = c.name /\ c.to \in {Stopped, [vm |-> v, port |-> rows[v].port]}
        /\ w \in [Names -> Routed \cup {None}] /\ w[c.name] = c.to
    BY <1>2, <2>2 DEF MarkSound, Leads, Agrees
  <2> PICK row \in Row : row = rows[v]
    BY <2>4, RowsTyped DEF Live
  <2> DEFINE up == (c.to # Stopped)
             new == [row EXCEPT !.running = up]
  <2>5. /\ up \in BOOLEAN /\ new \in Row /\ new.name = row.name /\ new.port = row.port
        /\ TargetOf(v, new) = c.to
    <3>1. up \in BOOLEAN
      OBVIOUS
    <3>2. new \in Row /\ new.name = row.name /\ new.port = row.port /\ new.running = up
      BY <3>1 DEF Row
    <3>3. Stopped # [vm |-> v, port |-> row.port]
      BY NoneAssumption DEF Target, Row
    <3> HIDE DEF new
    <3> QED
      BY <2>4, <3>1, <3>2, <3>3 DEF TargetOf
  <2>6. rows'[v] = new /\ \A q \in VMs \ {v} : rows'[q] = rows[q]
    BY <1>1, <1>4, <2>4
  <2> HIDE DEF new, up
  <2>7. rows'[v] # None
    BY <2>5, <2>6, NoneAssumption
  <2>8. \A q \in VMs : Live(q) => /\ rows'[q] # None /\ rows'[q].name = rows[q].name
                                  /\ rows'[q].port = rows[q].port
    <3> TAKE q \in VMs
    <3> HAVE Live(q)
    <3>1. CASE q = v
      BY <2>5, <2>6, <2>7, <3>1
    <3>2. CASE q # v
      BY <2>6, <3>2 DEF Live
    <3> QED
      BY <3>1, <3>2
  <2>9. Leads(u, routes', w)
    <3> PICK rt : rt = routes
      OBVIOUS
    <3>1. Leads(t \o Tail(s), rt, w)
      BY <1>2, <1>3, <2>2, MarkLeads
    <3> QED
      BY <1>1, <1>5, <3>1
  <2>10. /\ \A n : Marks(s, n) /\ n # c.name => Marks(t \o Tail(s), n)
         /\ \A i \in DOMAIN (t \o Tail(s)) : (t \o Tail(s))[i].verb = "mark" =>
              \E j \in DOMAIN s : j # 1 /\ (t \o Tail(s))[i] = s[j]
    <3>1. /\ \A n : Marks(s, n) /\ (s[1].verb # "mark" \/ s[1].name # n) => Marks(t \o Tail(s), n)
          /\ \A i \in DOMAIN (t \o Tail(s)) : (t \o Tail(s))[i].verb = "mark" =>
               \E j \in DOMAIN s : j # 1 /\ (t \o Tail(s))[i] = s[j]
      BY <1>2, <1>3, MarksRest
    <3> QED
      BY <1>2, <3>1
  <2>11. ASSUME NEW n \in Names \ {c.name}, Late(n) PROVE Late(n)'
    <3>1. \A q \in VMs : Told(q) => Told(q)'
      BY <1>1 DEF Told
    <3>2. \A q \in VMs : Live(q) /\ rows[q].name = n => rows'[q] # None /\ rows'[q].name = n
      BY <2>8
    <3>3. Marks(req[r].calls, n) => req'[r] # None /\ req'[r].op = "routes" /\ Marks(req'[r].calls, n)
      <4> SUFFICES ASSUME Marks(s, n)
                   PROVE  req'[r] # None /\ req'[r].op = "routes" /\ Marks(req'[r].calls, n)
        OBVIOUS
      <4>1. Marks(u, n)
        BY <1>5, <2>10, <2>11
      <4>2. u # <<>>
        BY <4>1 DEF Marks
      <4> QED
        BY <1>6, <4>1, <4>2, CallingIs
    <3> QED
      BY <2>3, <2>11, <3>1, <3>2, <3>3, LateStays
  <2>12. Agrees(w)'
    <3>0. PICK N : N = {c.name}
      OBVIOUS
    <3>1. \A n \in Names \ N : w[n] = w[n] /\ (Late(n) => Late(n)')
      BY <2>11, <3>0
    <3>2. \A n \in Names \ N : \A q \in VMs :
            \/ rows'[q] = rows[q]
            \/ /\ rows'[q] = None \/ rows'[q].name # n
               /\ rows[q] = None \/ rows[q].name # n
      <4> TAKE n \in Names \ N
      <4> TAKE q \in VMs
      <4>1. CASE q = v
        BY <2>4, <2>5, <2>6, <3>0, <4>1
      <4>2. CASE q # v
        BY <2>6, <4>2
      <4> QED
        BY <4>1, <4>2
    <3>3. \A n \in Names \cap N : Late(n)' \/ w[n] = Wants(rows')[n]
      <4>1. Wants(rows')[rows'[v].name] = TargetOf(v, rows'[v])
        BY <2>7, RowsTypedNext, WantsIs
      <4> QED
        BY <2>4, <2>5, <2>6, <3>0, <4>1
    <3>4. Agrees(w) /\ w \in [Names -> Routed \cup {None}]
      BY <2>2, <2>4
    <3> QED
      BY <3>1, <3>2, <3>3, <3>4, AgreesOn, SMT, ZenonT(60)
  <2>13. ASSUME NEW i \in DOMAIN u, u[i].verb = "mark" PROVE MarkSound(u[i])'
    <3>1. PICK j \in DOMAIN s : u[i] = s[j]
      BY <1>5, <2>10, <2>13
    <3>2. MarkSound(u[i])
      BY <2>2, <2>13, <3>1
    <3> QED
      BY <2>8, <3>2 DEF MarkSound, Live
  <2> QED
    BY <1>6, <2>9, <2>12, <2>13, LeadsOn
<1> QED
  BY <1>1, <1>4, <1>6, <1>7, InStepIf

\* A handler that is dropped without owing a route has written none.
LEMMA HandlerDroppedInStep ==
  ASSUME IInv, IInv', InStep, NEW r \in Requests, HandlerDropped(r)
  PROVE  InStep'
<1>1. /\ ~Idle(r) /\ UNCHANGED <<rows, routes, events, boot>> /\ req'[r] = None
      /\ \A q \in Requests \ {r} : req'[q] = req[q]
      /\ since' = since \cup Owed(r)
  BY RowsTyped DEF HandlerDropped, Fault
<1>2. ASSUME since' = {}, ~boot PROVE OnTrack(r)
  <2>1. since = {} /\ Owed(r) = {}
    BY <1>1, <1>2
  <2>2. Alone(r)
    BY <1>1, <1>2, <2>1, AloneFollows
  <2>3. PICK w : Agrees(w) /\ Follows(r, w)
    BY <1>1, <1>2, <2>1, AloneFollows
  <2>4. ~At(r, "routes")
    <3> SUFFICES ASSUME At(r, "routes") PROVE FALSE
      OBVIOUS
    <3>1. PICK c \in Call : c = req[r].calls[1] /\ 1 \in DOMAIN req[r].calls
      BY CallsAre
    <3>2. c.name \in Names /\ c \in Range(req[r].calls)
      BY <3>1 DEF Call, Range
    <3>3. c.name \in Owed(r)
      BY <3>2 DEF Owed
    <3> QED
      BY <2>1, <3>3
  <2>5. ~At(r, "created")
    <3> SUFFICES ASSUME At(r, "created") PROVE FALSE
      OBVIOUS
    <3>1. Live(req[r].vm) /\ req[r].vm \in VMs
      BY <1>1, <2>3 DEF Follows, At, IInv, RequestsSound, Shaped
    <3>2. rows[req[r].vm].name \in Names
      BY <3>1, RowsTyped DEF Live, Row
    <3>3. rows[req[r].vm].name \in Owed(r)
      BY <3>1, <3>2 DEF Owed
    <3> QED
      BY <2>1, <3>3
  <2>6. routes' = w
    BY <1>1, <2>3, <2>4, <2>5 DEF Follows, At
  <2>7. Agrees(w)'
    BY <1>1, <2>2, <2>3, <2>4, NothingWritten
  <2> QED
    BY <1>1, <2>6, <2>7 DEF OnTrack
<1>3. boot' = boot /\ since \subseteq since'
  BY <1>1
<1> QED
  BY <1>1, <1>2, <1>3, InStepIf

\* A row is written with its event still to be read, or an event is sent: that
\* its VM is late is all that happens.
LEMMA AgentOn ==
  ASSUME IInv, IInv', InStep, UNCHANGED <<req, routes, boot, since>>,
         \A v \in VMs : Told(v) => Told(v)',
         \A v \in VMs : rows'[v] # rows[v] => Told(v)',
         \A v \in VMs : /\ rows'[v] # None <=> rows[v] # None
                        /\ rows[v] # None => /\ rows'[v].name = rows[v].name
                                             /\ rows'[v].port = rows[v].port
  PROVE  InStep'
<1> SUFFICES ASSUME since' = {}, ~boot' PROVE \E w : InStepBy(w)'
  BY DEF InStep
<1>1. PICK w : InStepBy(w)
  BY DEF InStep
<1>2. Agrees(w)'
  <2>0. PICK N : N = {n \in Names : Late(n)'}
    OBVIOUS
  <2>1. ASSUME NEW n, Late(n) PROVE Late(n)'
    <3>1. CASE Marked(n)
      BY <3>1 DEF Late, Marked, At, Idle
    <3>2. CASE \E v \in VMs : Live(v) /\ rows[v].name = n /\ Told(v)
      BY <3>2 DEF Late, Live
    <3> QED
      BY <2>1, <3>1, <3>2 DEF Late
  <2>2. \A n \in Names \ N : w[n] = w[n] /\ (Late(n) => Late(n)')
    BY <2>1
  <2>3. \A n \in Names \ N : \A v \in VMs :
            \/ rows'[v] = rows[v]
            \/ /\ rows'[v] = None \/ rows'[v].name # n
               /\ rows[v] = None \/ rows[v].name # n
    <3> TAKE n \in Names \ N
    <3> TAKE v \in VMs
    <3>1. CASE rows'[v] = rows[v]
      BY <3>1
    <3>2. CASE rows'[v] # rows[v] /\ rows'[v] # None /\ rows'[v].name = n
      <4>1. Told(v)'
        BY <3>2
      <4>2. Late(n)'
        BY <3>2, <4>1 DEF Late, Live
      <4> QED
        BY <2>0, <4>2
    <3> QED
      BY <3>1, <3>2
  <2>4. \A n \in Names \cap N : Late(n)' \/ w[n] = Wants(rows')[n]
    BY <2>0
  <2>5. Agrees(w) /\ w \in [Names -> Routed \cup {None}]
    BY <1>1 DEF InStepBy, Agrees
  <2> QED
    BY <2>2, <2>3, <2>4, <2>5, AgreesOn, SMT, ZenonT(60)
<1>3. ASSUME NEW r \in Requests, req'[r] # None PROVE Alone(r)' /\ Follows(r, w)'
  <2>1. ~Idle(r) /\ Alone(r) /\ Follows(r, w) /\ req'[r] = req[r]
    BY <1>1, <1>3 DEF InStepBy, Idle
  <2>2. Alone(r)'
    BY <2>1 DEF Alone, Idle
  <2>3. \A v \in VMs : (Live(v) <=> Live(v)') /\ (Live(v) => rows'[v].name = rows[v].name)
    BY DEF Live
  <2>4. req[r].op # "routes" => req[r].vm \in VMs
    BY <2>1 DEF IInv, RequestsSound, Shaped
  <2>5. ASSUME req[r].op \notin {"created", "routes"} PROVE routes' = w
    BY <2>1, <2>5 DEF Follows
  <2>6. ASSUME req[r].op \in {"create", "rename", "renaming"}
        PROVE  \A v \in VMs : Live(v)' => rows'[v].name # req'[r].name
    BY <2>1, <2>3, <2>6 DEF Follows
  <2>7. /\ req[r].op = "create" => ~Live(req[r].vm)'
        /\ req[r].op = "rename" => Live(req[r].vm)'
    <3>1. /\ req[r].op = "create" => req[r].vm \in VMs /\ rows[req[r].vm] = None
          /\ req[r].op = "rename" => req[r].vm \in VMs /\ rows[req[r].vm] # None
      BY <2>1, <2>4 DEF Follows, Live
    <3> QED
      BY <2>1, <3>1 DEF Live
  <2>8. ASSUME req[r].op = "created"
        PROVE  /\ rows'[req'[r].vm] # None /\ w[rows'[req'[r].vm].name] = Stopped
               /\ \A n \in Names \ {rows'[req'[r].vm].name} : routes'[n] = w[n]
    BY <2>1, <2>3, <2>4, <2>8 DEF Follows, Live
  <2>9. ASSUME req[r].op \in {"renaming", "port", "delete"}
        PROVE  /\ rows'[req'[r].vm] # None /\ req'[r].seen.name = rows'[req'[r].vm].name
               /\ req'[r].seen = rows'[req'[r].vm] \/ Told(req[r].vm)'
    <3>1. /\ Live(req[r].vm) /\ req[r].seen.name = rows[req[r].vm].name
          /\ req[r].seen = rows[req[r].vm] \/ Told(req[r].vm)
      BY <2>1, <2>9 DEF Follows
    <3>2. req[r].vm \in VMs
      BY <2>4, <2>9
    <3> QED
      BY <2>1, <2>3, <3>1, <3>2 DEF Live
  <2>10. ASSUME req[r].op = "routes"
         PROVE  /\ Leads(req'[r].calls, routes', w)
                /\ \A i \in DOMAIN req'[r].calls :
                     req'[r].calls[i].verb = "mark" => MarkSound(req[r].calls[i])'
    <3>1. /\ Leads(req[r].calls, routes, w)
          /\ \A i \in DOMAIN req[r].calls :
               req[r].calls[i].verb = "mark" => MarkSound(req[r].calls[i])
      BY <2>1, <2>10 DEF Follows
    <3>2. ASSUME NEW i \in DOMAIN req[r].calls, req[r].calls[i].verb = "mark"
          PROVE  MarkSound(req[r].calls[i])'
      <4>1. MarkSound(req[r].calls[i])
        BY <3>1, <3>2
      <4> QED
        BY <2>3, <4>1 DEF MarkSound, Live
    <3> QED
      BY <2>1, <3>1, <3>2
  <2>11. Follows(r, w)'
    <3>1. /\ req'[r].op \notin {"created", "routes"} => routes' = w
          /\ req'[r].op \in {"create", "rename", "renaming"} =>
               \A v \in VMs : Live(v)' => rows'[v].name # req'[r].name
          /\ req'[r].op = "create" => ~Live(req[r].vm)'
          /\ req'[r].op = "rename" => Live(req[r].vm)'
      BY <2>1, <2>5, <2>6, <2>7
    <3>2. /\ req'[r].op = "created" =>
               /\ Live(req[r].vm)' /\ w[rows'[req'[r].vm].name] = Stopped
               /\ \A n \in Names \ {rows'[req'[r].vm].name} : routes'[n] = w[n]
          /\ req'[r].op \in {"renaming", "port", "delete"} =>
               /\ Live(req[r].vm)' /\ req'[r].seen.name = rows'[req'[r].vm].name
               /\ req'[r].seen = rows'[req'[r].vm] \/ Told(req[r].vm)'
      BY <2>1, <2>8, <2>9 DEF Live
    <3>3. req'[r].op = "routes" =>
            /\ Leads(req'[r].calls, routes', w)
            /\ \A i \in DOMAIN req'[r].calls :
                 req'[r].calls[i].verb = "mark" => MarkSound(req[r].calls[i])'
      BY <2>1, <2>10
    <3> QED
      BY <3>1, <3>2, <3>3 DEF Follows, Leads
  <2> QED
    BY <2>2, <2>11
<1>4. (\A r \in Requests : req'[r] = None) => routes' = w
  BY <1>1 DEF InStepBy, Idle
<1>5. InStepBy(w)'
  BY <1>2, <1>3, <1>4 DEF InStepBy, Idle
<1> QED
  BY <1>5

\* What the agents write on their own leaves the routes in step: the event is
\* still to be read, or its loss is on record.
LEMMA AgentInStep ==
  ASSUME IInv, IInv', InStep,
         \/ \E w \in Watchers : AgentWrites(w) \/ AgentRecovers(w) \/ StreamBreaks(w)
         \/ AgentIsSilent
  PROVE  InStep'
<1>1. CASE AgentIsSilent \/ \E w \in Watchers : StreamBreaks(w)
  <2>1. since' # {}
    BY <1>1 DEF AgentIsSilent, StreamBreaks, Fault
  <2> QED
    BY <2>1 DEF InStep
<1>2. ASSUME NEW w \in Watchers, AgentWrites(w) \/ AgentRecovers(w) PROVE InStep'
  <2> PICK v \in VMs, up \in BOOLEAN :
        /\ Live(v) /\ Sent(w, v, up) /\ UNCHANGED <<req, routes, boot, since>>
        /\ rows' = rows \/ rows' = [rows EXCEPT ![v].running = up]
    <3>1. CASE AgentWrites(w)
      <4> PICK v \in VMs : /\ Live(v) /\ AgentOp /\ UNCHANGED since
                           /\ Written(v, ~rows[v].running) /\ Sent(w, v, ~rows[v].running)
        BY <3>1 DEF AgentWrites
      <4> PICK up \in BOOLEAN : up = ~rows[v].running
        OBVIOUS
      <4> QED
        BY DEF AgentOp, Written
    <3>2. CASE AgentRecovers(w)
      BY <3>2 DEF AgentRecovers, AgentOp
    <3> QED
      BY <1>2, <3>1, <3>2
  <2>1. events \in [Watchers -> Seq(Event)] /\ [vm |-> v, running |-> up] \in Event
    BY DEF IInv, TypeOK, Event
  <2> PICK e \in Event : e = [vm |-> v, running |-> up] /\ e.vm = v
    BY <2>1
  <2>2. /\ events' = [events EXCEPT ![w] = Append(events[w], e)]
        /\ \A x \in Watchers \ {w} : events'[x] = events[x]
        /\ events'[w] = Append(events[w], e)
    BY <2>1 DEF Sent
  <2> PICK s \in Seq(Event) : s = events[w]
    BY <2>1
  <2>3. /\ Len(s) \in Nat /\ DOMAIN s = 1..Len(s)
        /\ Len(Append(s, e)) = Len(s) + 1 /\ DOMAIN Append(s, e) = 1..(Len(s) + 1)
        /\ \A i \in 1..Len(s) : Append(s, e)[i] = s[i]
        /\ Append(s, e)[Len(s) + 1] = e
    BY AppendProperties, LenProperties
  <2>4. Told(v)'
    BY <2>2, <2>3 DEF Told
  <2>5. ASSUME NEW u \in VMs, Told(u) PROVE Told(u)'
    <3> PICK x \in Watchers : \E i \in DOMAIN events[x] : events[x][i].vm = u
      BY <2>5 DEF Told
    <3> PICK i \in DOMAIN events[x] : events[x][i].vm = u
      OBVIOUS
    <3>1. CASE x = w
      <4>1. i \in DOMAIN Append(s, e) /\ Append(s, e)[i] = s[i]
        BY <2>3, <3>1
      <4> QED
        BY <2>2, <3>1, <4>1 DEF Told
    <3>2. CASE x # w
      BY <2>2, <3>2 DEF Told
    <3> QED
      BY <3>1, <3>2
  <2>6. ASSUME NEW u \in VMs
        PROVE  /\ rows'[u] # rows[u] => u = v
               /\ rows'[u] # None <=> rows[u] # None
               /\ rows[u] # None => rows'[u].name = rows[u].name /\ rows'[u].port = rows[u].port
    <3>1. CASE rows' = rows \/ u # v
      BY <3>1, RowsTyped
    <3>2. CASE u = v /\ rows' = [rows EXCEPT ![v].running = up]
      <4> PICK row \in Row : row = rows[v]
        BY RowsTyped DEF Live
      <4>0. /\ [row EXCEPT !.running = up] \in Row
            /\ [row EXCEPT !.running = up].name = row.name
            /\ [row EXCEPT !.running = up].port = row.port
        BY DEF Row
      <4> PICK new \in Row : /\ new = [row EXCEPT !.running = up]
                             /\ new.name = row.name /\ new.port = row.port
        BY <4>0
      <4>1. rows'[v] = new
        BY <3>2, RowsTyped
      <4> QED
        BY <3>2, <4>1, NoneAssumption DEF Live
    <3> QED
      BY <3>1, <3>2
  <2> QED
    BY <2>4, <2>5, <2>6, AgentOn
<1> QED
  BY <1>1, <1>2

\* What goes wrong is on record, and a rebuild makes up for it.
LEMMA FaultsInStep ==
  ASSUME IInv, IInv', InStep,
         \/ \E r \in Requests :
              CreateUnanswered(r) \/ DeleteUnanswered(r) \/ CallFails(r) \/ MarkFails(r)
         \/ Crash \/ RebuildFails \/ Rebuild \/ UNCHANGED vars
  PROVE  InStep'
<1>1. CASE Crash \/ \E r \in Requests :
             CreateUnanswered(r) \/ DeleteUnanswered(r) \/ CallFails(r) \/ MarkFails(r)
  <2>1. since' # {}
    BY <1>1 DEF Crash, CreateUnanswered, DeleteUnanswered, CallFails, MarkFails, Fault
  <2> QED
    BY <2>1 DEF InStep
<1>2. CASE RebuildFails
  <2>1. since' # {}
    BY <1>2 DEF RebuildFails, IInv, BootAlone
  <2> QED
    BY <2>1 DEF InStep
<1>3. CASE Rebuild
  <2>1. FromRows' = Wants(rows') /\ rows' = rows /\ \A r \in Requests : req'[r] = None
    BY <1>3, FromRowsIs DEF Rebuild, IInv, BootAlone, Idle
  <2>2. routes' = Wants(rows')
    BY <1>3, <2>1, FromRowsIs DEF Rebuild
  <2> PICK x : x = Wants(rows')
    OBVIOUS
  <2>3. x \in [Names -> Routed \cup {None}]
    BY WantsTyped, RowsTypedNext
  <2>4. \A n : Wants(rows)'[n] = x[n]
    BY DEF Wants
  <2>5. Agrees(x)'
    BY <2>3, <2>4 DEF Agrees
  <2>6. InStepBy(x)'
    BY <2>1, <2>2, <2>5 DEF InStepBy, Idle
  <2> QED
    BY <2>6 DEF InStep
<1>4. CASE UNCHANGED vars
  <2>1. UNCHANGED <<rows, routes, req, boot, since, events>>
    BY <1>4 DEF vars
  <2>2. \A v \in VMs : Told(v) => Told(v)'
    BY <2>1 DEF Told
  <2> QED
    BY <2>1, <2>2, AgentOn
<1> QED
  BY <1>1, <1>2, <1>3, <1>4

\* At first Caddy serves the rows.
LEMMA InitInStep == Init => InStep
<1> SUFFICES ASSUME Init PROVE InStep
  OBVIOUS
<1>0. IInv
  BY InitHolds
<1>1. PICK v \in VMs, n \in Names, p \in Ports :
        /\ rows = [w \in VMs |-> IF w = v THEN Serves(v, n, p) ELSE None]
        /\ routes = [m \in Names |-> IF m = n THEN [vm |-> v, port |-> p] ELSE None]
  BY DEF Init
<1>2. /\ Serves(v, n, p) \in Row /\ Serves(v, n, p).name = n
      /\ TargetOf(v, Serves(v, n, p)) = [vm |-> v, port |-> p]
  BY DEF Serves, Row, TargetOf
<1>3. rows[v] = Serves(v, n, p) /\ rows[v] # None /\ \A w \in VMs \ {v} : rows[w] = None
  BY <1>1, <1>2, NoneAssumption
<1>4. Wants(rows)[n] = [vm |-> v, port |-> p] /\ \A m \in Names \ {n} : Wants(rows)[m] = None
  BY <1>0, <1>2, <1>3, RowsTyped, WantsIs
<1>5. Wants(rows) \in [Names -> Routed \cup {None}]
  BY <1>0, RowsTyped, WantsIs
<1>6. routes = Wants(rows)
  BY <1>1, <1>4, <1>5
<1>7. Agrees(Wants(rows))
  BY <1>5 DEF Agrees
<1>8. InStepBy(Wants(rows))
  BY <1>6, <1>7 DEF Init, InStepBy, Idle
<1> QED
  BY <1>8 DEF InStep

\* Every step keeps the rows and Caddy in step.
LEMMA StepInStep == IInv /\ InStep /\ [Next]_vars => InStep'
<1> SUFFICES ASSUME IInv, InStep, [Next]_vars PROVE InStep'
  OBVIOUS
<1>1. IInv'
  BY StepKeeps
<1>2. ASSUME NEW r \in Requests,
             \/ CreateBegin(r) \/ RenameBegin(r) \/ PortBegin(r) \/ DeleteBegin(r)
             \/ Heartbeat(r) \/ HandlerDropped(r)
      PROVE  InStep'
  BY <1>1, <1>2, BeginInStep, HeartbeatInStep, HandlerDroppedInStep
<1>3. ASSUME NEW r \in Requests, Step(r) PROVE InStep'
  <2>1. CASE CreateRow(r) \/ CreateRefused(r) \/ CreateRoute(r)
    BY <1>1, <2>1, CreateRowInStep, EndOfCreateInStep
  <2>2. CASE RenameRead(r) \/ RenameRow(r) \/ PortRow(r) \/ DeleteRow(r)
    BY <1>1, <2>2, RenameReadInStep, RenameRowInStep, PortRowInStep, DeleteRowInStep
  <2>3. CASE Take(r) \/ MarkRow(r) \/ PutRoute(r) \/ PostRoute(r) \/ DeleteRoute(r)
    BY <1>1, <2>3, TakeInStep, MarkRowInStep, AnswerInStep
  <2> QED
    BY <1>3, <2>1, <2>2, <2>3 DEF Step
<1>4. CASE \/ \E w \in Watchers : AgentWrites(w) \/ AgentRecovers(w) \/ StreamBreaks(w)
           \/ AgentIsSilent
  BY <1>1, <1>4, AgentInStep
<1>5. CASE \/ \E r \in Requests :
                CreateUnanswered(r) \/ DeleteUnanswered(r) \/ CallFails(r) \/ MarkFails(r)
           \/ Crash \/ RebuildFails \/ Rebuild \/ UNCHANGED vars
  BY <1>1, <1>5, FaultsInStep
<1> QED
  BY <1>2, <1>3, <1>4, <1>5 DEF Next, Rest
-----------------------------------------------------------------------------
\* Both invariants hold in every state the program reaches.
LEMMA Invariant == Spec => [](IInv /\ InStep)
<1>1. IInv /\ InStep /\ [Next]_vars => (IInv /\ InStep)'
  BY StepKeeps, StepInStep
<1> QED
  BY <1>1, InitHolds, InitInStep, PTL DEF Spec

\* The variables keep their types.
THEOREM TypeCorrect == Spec => []TypeOK
<1>1. IInv => TypeOK
  BY DEF IInv
<1> QED
  BY <1>1, Invariant, PTL

\* However many upserts of a name see each other's intermediate state, the VM
\* that has it is routed or about to be (router-sync lib.rs upsert_route), for
\* every name of which no request was given up: no call failed, no client hung
\* up and no answer of an agent was lost between its row and its route.
THEOREM RoutesKept == Spec => []RouteOrWriter
<1>1. IInv => RouteOrWriter
  BY DEF IInv
<1> QED
  BY <1>1, Invariant, PTL

\* When nothing is at work and no event is to be read, Caddy serves the rows
\* and nothing else, whatever the agents wrote on their own meanwhile, unless
\* requests overlapped, an event was lost or a request was given up since the
\* last rebuild (ops.rs, events.rs, registration.rs, main.rs rebuild_caddy_routes).
THEOREM RowsServed == Spec => []ServesRows
<1>1. ASSUME IInv, InStep, Quiet, since = {} PROVE routes = FromRows
  <2>1. PICK w : InStepBy(w)
    BY <1>1 DEF InStep, Quiet
  <2>2. routes = w /\ w \in [Names -> Routed \cup {None}]
    BY <1>1, <2>1 DEF InStepBy, Agrees, Quiet
  <2>3. \A v \in VMs : ~Told(v)
    BY <1>1 DEF Quiet, Told
  <2>4. ASSUME NEW n \in Names PROVE ~Late(n)
    BY <1>1, <2>3 DEF Quiet, Late, Marked, At, Told
  <2>5. \A n \in Names : w[n] = Wants(rows)[n]
    BY <2>1, <2>4 DEF InStepBy, Agrees
  <2>6. Wants(rows) \in [Names -> Routed \cup {None}]
    BY <1>1, RowsTyped, WantsIs
  <2> QED
    BY <2>2, <2>5, <2>6, FromRowsIs
<1>2. IInv /\ InStep => ServesRows
  BY <1>1 DEF ServesRows
<1> QED
  BY <1>2, Invariant, PTL
=============================================================================
