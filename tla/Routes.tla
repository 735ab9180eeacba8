------------------------------- MODULE Routes -------------------------------
(***************************************************************************)
(* The routes of one Caddy and the requests of the control plane that      *)
(* write them (router-sync/src/lib.rs, control-plane/src/ops.rs, events.rs,*)
(* registration.rs, main.rs).  A route is replaced by several calls of     *)
(* Caddy's API, and one request's calls interleave with another's and with *)
(* the agent's own writes to the rows, whose events come later or never.   *)
(* What Caddy answers is modelled from how the client uses it: a PUT to an *)
(* id that is absent is a 404, one to an id that exists replaces the route *)
(* or is a 400, and a POST of an id that exists is an error.               *)
(***************************************************************************)
EXTENDS Naturals, Sequences, SequencesExt, FiniteSets

CONSTANTS VMs,          \* VMs that may be created
          Names,        \* subdomains
          Ports,        \* ports a VM may expose
          Requests,     \* handlers, heartbeats and watchers at work at once
          Watchers,     \* those of them that are watchers, one for each host
          None,         \* no row, no route
          Stopped,      \* the page of a VM that does not run
          MaxOps,       \* bound: requests begun and writes of the agents
          MaxFaults     \* bound: calls that fail, clients that hang up, crashes

ASSUME BoundsAssumption == IsFiniteSet(VMs) /\ MaxOps \in Nat /\ MaxFaults \in Nat
ASSUME WatchersAssumption == Watchers \subseteq Requests

VARIABLES rows,     \* rows[v]: the VM's row: its subdomain, port and whether it runs
          used,     \* names and VM ids that are or were in use
          again,    \* names that were given to a row a second time
          routes,   \* routes[n]: what Caddy serves under a name
          req,      \* req[r]: the request that r handles, and its calls to come
          events,   \* events[w]: the agent's events that the watcher w has still to read
          boot,     \* TRUE while the control plane starts up
          since,    \* what no rebuild has made up for, see Excuses
          ops,      \* requests begun, writes of the agents
          faults    \* failed calls, clients that hung up and crashes so far

vars == <<rows, used, again, routes, req, events, boot, since, ops, faults>>

Row == [name : Names, port : Ports, running : BOOLEAN]
Target == [vm : VMs, port : Ports]
Routed == Target \cup {Stopped}
\* A call to Caddy, or - "mark" - a write of the VM's status before its PUT.
Call == [verb : {"put", "post", "delete", "mark"}, vm : VMs \cup {None},
         name : Names, to : Routed \cup {None}]
Event == [vm : VMs, running : BOOLEAN]

\* What may have gone wrong since Caddy was rebuilt from the rows: requests that
\* overlap, an agent's write whose event is lost, a restart, and the names whose
\* routes a request left as they were: a call failed, or its client hung up.
Excuses == {"overlap", "lost", "restart"} \cup Names

\* A handler between two of its awaits: what it is about, the name it chose,
\* the row it read, and the calls to Caddy it still has to make.
Request == [op : {"create", "created", "rename", "renaming", "port", "delete", "routes"},
            vm : VMs \cup {None}, name : Names \cup {None}, port : Ports \cup {None},
            seen : Row \cup {None}, calls : Seq(Call)]

ASSUME NoneAssumption ==
    /\ None \notin VMs \cup Names /\ Stopped \notin Target \cup {None}
    /\ None \notin Row \cup Target \cup Request

Live(v) == rows[v] # None
Taken == {rows[v].name : v \in {w \in VMs : Live(w)}}
Vacant == Names \ Taken

\* What the row of v asks for.
TargetOf(v, row) == IF row.running THEN [vm |-> v, port |-> row.port] ELSE Stopped

Put(n, to) == [verb |-> "put", vm |-> None, name |-> n, to |-> to]
Post(n, to) == [verb |-> "post", vm |-> None, name |-> n, to |-> to]
DeleteCall(n) == [verb |-> "delete", vm |-> None, name |-> n, to |-> None]

\* The status of v is written, and then the route that the status asks for.
Mark(v, row, up) ==
    [verb |-> "mark", vm |-> v, name |-> row.name, to |-> TargetOf(v, [row EXCEPT !.running = up])]

Handlers == Requests \ Watchers
Idle(r) == req[r] = None
Quiet == ~boot /\ (\A r \in Requests : Idle(r)) /\ \A w \in Watchers : events[w] = <<>>
At(r, op) == ~Idle(r) /\ req[r].op = op

-----------------------------------------------------------------------------
Serves(v, n, p) == [name |-> n, port |-> p, running |-> TRUE]

\* One VM runs and is routed; the others are to be created.
Init ==
    /\ \E v \in VMs, n \in Names, p \in Ports :
         /\ rows = [w \in VMs |-> IF w = v THEN Serves(v, n, p) ELSE None]
         /\ routes = [m \in Names |-> IF m = n THEN [vm |-> v, port |-> p] ELSE None]
         /\ used = {v, n} /\ again = {}
    /\ req = [r \in Requests |-> None]
    /\ events = [w \in Watchers |-> <<>>]
    /\ boot = FALSE /\ since = {} /\ ops = 0 /\ faults = 0

Enter(r, request) ==
    /\ ~boot /\ Idle(r)
    /\ req' = [req EXCEPT ![r] = request]
    /\ since' = since \cup (IF \E q \in Requests : ~Idle(q) THEN {"overlap"} ELSE {})
    /\ UNCHANGED <<again, routes, boot, faults>>

\* A handler's request.
Begin(r, request) ==
    /\ r \in Handlers /\ Enter(r, request)
    /\ ops < MaxOps /\ ops' = ops + 1
    /\ UNCHANGED events

Blank == [op |-> "routes", vm |-> None, name |-> None, port |-> None,
          seen |-> None, calls |-> <<>>]

\* What a request goes on with: its calls, or nothing, which ends it.
Calling(calls) == IF calls = <<>> THEN None ELSE [Blank EXCEPT !.calls = calls]
Proceed(r, calls) == req' = [req EXCEPT ![r] = Calling(calls)]
KeepAll == UNCHANGED <<used, again, events, boot, ops, faults>>

\* Something goes wrong, and the routes of some names stay as they are.
Fault(names) == faults < MaxFaults /\ faults' = faults + 1 /\ since' = since \cup names

\* A row gets the name n.
Give(n) == used' = used \cup {n} /\ again' = again \cup ({n} \cap used)

\* create_vm and clone_vm: subdomain::generate found a vacant name; the agent
\* is called with it.
CreateBegin(r) == \E v \in VMs \ used, n \in Vacant :
    /\ Begin(r, [Blank EXCEPT !.op = "create", !.vm = v, !.name = n])
    /\ used' = used \cup {v}
    /\ UNCHANGED rows

\* The agent inserts the row; subdomain is UNIQUE.
Insert(v, n) == \E p \in Ports :
    /\ rows' = [rows EXCEPT ![v] = [name |-> n, port |-> p, running |-> FALSE]]
    /\ Give(n)
    /\ UNCHANGED <<routes, events, boot, ops>>

CreateRow(r) ==
    /\ At(r, "create") /\ req[r].name \notin Taken
    /\ Insert(req[r].vm, req[r].name)
    /\ req' = [req EXCEPT ![r].op = "created"]
    /\ UNCHANGED <<since, faults>>

\* The row is inserted, but an error comes back, of what follows on the agent or
\* of the connection: create_vm and clone_vm return it, and no page is routed.
CreateUnanswered(r) ==
    /\ At(r, "create") /\ req[r].name \notin Taken
    /\ Insert(req[r].vm, req[r].name)
    /\ Proceed(r, <<>>)
    /\ Fault({req[r].name})

\* The name is taken by now: nothing is inserted.
CreateRefused(r) ==
    /\ At(r, "create") /\ req[r].name \in Taken
    /\ Proceed(r, <<>>)
    /\ UNCHANGED <<rows, routes, since>> /\ KeepAll

\* The end of create_vm and clone_vm: the row is read again and the stopped
\* page is set under its name, whatever the VM does by now.
CreateRoute(r) ==
    /\ At(r, "created")
    /\ LET row == rows[req[r].vm]
       IN  Proceed(r, IF row = None THEN <<>> ELSE <<Put(row.name, Stopped)>>)
    /\ UNCHANGED <<rows, routes, since>> /\ KeepAll

\* update_vm with a name: generate finds a vacant one ...
RenameBegin(r) == \E v \in VMs, n \in Vacant :
    /\ Live(v)
    /\ Begin(r, [Blank EXCEPT !.op = "rename", !.vm = v, !.name = n])
    /\ UNCHANGED <<rows, used>>

\* ... then the current row is read ...
RenameRead(r) ==
    /\ At(r, "rename")
    /\ LET row == rows[req[r].vm]
       IN  req' = [req EXCEPT ![r] = IF row = None THEN None
                                     ELSE [@ EXCEPT !.op = "renaming", !.seen = row]]
    /\ UNCHANGED <<rows, routes, since>> /\ KeepAll

\* Mutant: a rename leaves the old route.
RenameRowKeepsOld(r) ==
    /\ At(r, "renaming")
    /\ LET v == req[r].vm
           n == req[r].name
       IN  IF n \in Taken
           THEN Proceed(r, <<>>) /\ UNCHANGED <<rows, used, again>>
           ELSE /\ rows' = IF Live(v) THEN [rows EXCEPT ![v].name = n] ELSE rows
                /\ Give(n)
                /\ Proceed(r, <<Put(n, TargetOf(v, req[r].seen))>>)
    /\ UNCHANGED <<routes, events, boot, since, ops, faults>>

\* ... then rename_vm writes the name, and the routes follow the row that was read.
RenameRow(r) ==
    /\ At(r, "renaming")
    /\ LET v == req[r].vm
           n == req[r].name
           seen == req[r].seen
       IN  IF n \in Taken
           THEN Proceed(r, <<>>) /\ UNCHANGED <<rows, used, again>>
           ELSE /\ rows' = IF Live(v) THEN [rows EXCEPT ![v].name = n] ELSE rows
                /\ Give(n)
                /\ Proceed(r, <<Put(n, TargetOf(v, seen)), DeleteCall(seen.name)>>)
    /\ UNCHANGED <<routes, events, boot, since, ops, faults>>

\* update_vm with a port: the current row is read ...
PortBegin(r) == \E v \in VMs, p \in Ports :
    /\ Live(v) /\ rows[v].port # p
    /\ Begin(r, [Blank EXCEPT !.op = "port", !.vm = v, !.port = p, !.seen = rows[v]])
    /\ UNCHANGED <<rows, used>>

\* Mutant: the arguments of update_vm_port are mixed up.
PortRowSwapped(r) ==
    /\ At(r, "port")
    /\ LET v == req[r].vm
           to == [vm |-> v, port |-> req[r].port]
       IN  /\ rows' = IF Live(v) THEN [rows EXCEPT ![v].port = req[r].vm] ELSE rows
           /\ Proceed(r, IF req[r].seen.running THEN <<Put(req[r].seen.name, to)>> ELSE <<>>)
    /\ UNCHANGED <<routes, since>> /\ KeepAll

\* ... update_vm_port writes the port; the route is set if the row read was running.
PortRow(r) ==
    /\ At(r, "port")
    /\ LET v == req[r].vm
           seen == req[r].seen
           to == [vm |-> v, port |-> req[r].port]
       IN  /\ rows' = IF Live(v) THEN [rows EXCEPT ![v].port = req[r].port] ELSE rows
           /\ Proceed(r, IF seen.running THEN <<Put(seen.name, to)>> ELSE <<>>)
    /\ UNCHANGED <<routes, since>> /\ KeepAll

\* delete_vm: the row is read and must be stopped ...
DeleteBegin(r) == \E v \in VMs :
    /\ Live(v) /\ ~rows[v].running
    /\ Begin(r, [Blank EXCEPT !.op = "delete", !.vm = v, !.seen = rows[v]])
    /\ UNCHANGED <<rows, used>>

\* ... the agent checks it again and deletes the row, then the route that was read goes.
DeleteRow(r) ==
    /\ At(r, "delete")
    /\ LET v == req[r].vm
           refused == ~Live(v) \/ (Live(v) /\ rows[v].running)
       IN  /\ rows' = IF refused THEN rows ELSE [rows EXCEPT ![v] = None]
           /\ Proceed(r, IF refused THEN <<>> ELSE <<DeleteCall(req[r].seen.name)>>)
    /\ UNCHANGED <<routes, since>> /\ KeepAll

\* The row is deleted, but an error comes back: the route stays.
DeleteUnanswered(r) ==
    /\ At(r, "delete")
    /\ LET v == req[r].vm
       IN  Live(v) /\ ~rows[v].running /\ rows' = [rows EXCEPT ![v] = None]
    /\ Proceed(r, <<>>)
    /\ Fault({req[r].seen.name})
    /\ UNCHANGED <<used, again, routes, events, boot, ops>>

-----------------------------------------------------------------------------
\* The agent's own writes: start_vm, stop_vm, a restore and the health check
\* write the row of a VM that starts, stops or crashes, and then send an event.
\* A stop writes 'stopping' first: its event is on its way from then on.
AgentOp ==
    /\ ops < MaxOps /\ ops' = ops + 1
    /\ UNCHANGED <<used, again, routes, req, boot, faults>>

Written(v, up) == rows' = [rows EXCEPT ![v].running = up]
Sent(w, v, up) == events' = [events EXCEPT ![w] = Append(@, [vm |-> v, running |-> up])]

AgentWrites(w) == \E v \in VMs :
    /\ ~boot /\ Live(v) /\ AgentOp
    /\ Written(v, ~rows[v].running) /\ Sent(w, v, ~rows[v].running)
    /\ UNCHANGED since

\* A write without an event: the reconciliation's, that of a stop which breaks
\* off at 'stopping', and any write while the watcher is not connected.
AgentIsSilent == \E v \in VMs :
    /\ Live(v) /\ AgentOp
    /\ Written(v, ~rows[v].running)
    /\ since' = since \cup {"lost"} /\ UNCHANGED events

\* An event without a write: the reconciliation finds the process of a VM whose
\* row does not say that it runs.
AgentRecovers(w) == \E v \in VMs :
    /\ ~boot /\ Live(v) /\ ~rows[v].running /\ AgentOp
    /\ Sent(w, v, TRUE)
    /\ UNCHANGED <<rows, since>>

\* The watcher reads an event, and the row: it will write the status that the
\* event tells, and then the route, under the name and the port read here.
Take(w) ==
    /\ w \in Watchers /\ events[w] # <<>>
    /\ LET e == Head(events[w])
       IN  Enter(w, IF Live(e.vm) THEN Calling(<<Mark(e.vm, rows[e.vm], e.running)>>) ELSE None)
    /\ events' = [events EXCEPT ![w] = Tail(@)]
    /\ UNCHANGED <<rows, used, ops>>

\* The stream breaks, with the events in it.
StreamBreaks(w) ==
    /\ events[w] # <<>> /\ Fault({"lost"})
    /\ events' = [events EXCEPT ![w] = <<>>]
    /\ UNCHANGED <<rows, used, again, routes, req, boot, ops>>

\* What a heartbeat does about the row of v: 'running' but not reported is
\* marked as an error, 'running' and reported is routed again, 'stopped' or
\* 'error' but reported is marked as running.
BeatCall(v, reported) ==
    IF rows[v].running = (v \in reported) THEN Put(rows[v].name, TargetOf(v, rows[v]))
    ELSE Mark(v, rows[v], v \in reported)

\* reconcile_from_heartbeat: the rows are read once and handled in turn. What
\* the agent reports is what its map holds, whatever the rows say. A VM that is
\* 'starting' or 'stopping' is left alone, as if it were not reported.
Heartbeat(r) == \E reported \in SUBSET VMs :
    LET todo == {v \in VMs : Live(v) /\ (rows[v].running \/ v \in reported)}
        seq == SetToSeq(todo)
    IN  /\ todo # {}
        /\ Begin(r, Calling([i \in DOMAIN seq |-> BeatCall(seq[i], reported)]))
        /\ UNCHANGED <<rows, used>>

-----------------------------------------------------------------------------
Next1(r) == Head(req[r].calls)
Ready(r, verb) == At(r, "routes") /\ Next1(r).verb = verb

Answered(r, calls) ==
    /\ Proceed(r, calls \o Tail(req[r].calls))
    /\ UNCHANGED <<rows, since>> /\ KeepAll

\* Mutant: the new route is posted before the old one is deleted.
ReplacementSwapped(c) == <<Post(c.name, c.to), DeleteCall(c.name)>>

\* upsert_route after a 400.
Replacement(c) == <<DeleteCall(c.name), Post(c.name, c.to)>>

\* Mutant: after a 404 the PUT is tried again.
PutRouteAgain(r) ==
    /\ Ready(r, "put")
    /\ LET c == Next1(r)
       IN  \/ /\ routes[c.name] = None
              /\ Answered(r, <<c>>) /\ UNCHANGED routes
           \/ /\ routes[c.name] # None
              /\ routes' = [routes EXCEPT ![c.name] = c.to]
              /\ Answered(r, <<>>)

\* PUT /id/route-<name>: 404, replaced, or 400 for the duplicate id.
PutRoute(r) ==
    /\ Ready(r, "put")
    /\ LET c == Next1(r)
       IN  \/ /\ routes[c.name] = None
              /\ Answered(r, <<Post(c.name, c.to)>>) /\ UNCHANGED routes
           \/ /\ routes[c.name] # None
              /\ routes' = [routes EXCEPT ![c.name] = c.to]
              /\ Answered(r, <<>>)
           \/ /\ routes[c.name] # None
              /\ Answered(r, Replacement(c)) /\ UNCHANGED routes

\* POST to the end of the list: refused if the id exists, and only logged.
PostRoute(r) ==
    /\ Ready(r, "post")
    /\ LET c == Next1(r)
       IN  routes' = IF routes[c.name] = None THEN [routes EXCEPT ![c.name] = c.to] ELSE routes
    /\ Answered(r, <<>>)

\* delete_route: a 404 is success.
DeleteRoute(r) ==
    /\ Ready(r, "delete")
    /\ routes' = [routes EXCEPT ![Next1(r).name] = None]
    /\ Answered(r, <<>>)

\* A status is written by the watcher or a heartbeat, the VM's row permitting.
MarkRow(r) ==
    /\ Ready(r, "mark")
    /\ LET c == Next1(r)
       IN  /\ rows' = IF Live(c.vm) THEN [rows EXCEPT ![c.vm].running = (c.to # Stopped)] ELSE rows
           /\ Proceed(r, <<Put(c.name, c.to)>> \o Tail(req[r].calls))
    /\ UNCHANGED <<routes, since>> /\ KeepAll

\* That write fails: the error is dropped, and the route is set all the same.
MarkFails(r) ==
    /\ Ready(r, "mark")
    /\ LET c == Next1(r)
       IN  Proceed(r, <<Put(c.name, c.to)>> \o Tail(req[r].calls)) /\ Fault({c.name})
    /\ UNCHANGED <<rows, used, again, routes, events, boot, ops>>

\* A call fails: its upsert ends with an error, which the caller logs, and goes on.
CallFails(r) ==
    /\ At(r, "routes") /\ Next1(r).verb # "mark"
    /\ LET calls == req[r].calls
           inUpsert == /\ Len(calls) > 1 /\ calls[1].verb = "delete"
                       /\ calls[2].verb = "post" /\ calls[2].name = calls[1].name
       IN  Proceed(r, SubSeq(calls, IF inUpsert THEN 3 ELSE 2, Len(calls)))
    /\ Fault({Next1(r).name})
    /\ UNCHANGED <<rows, used, again, routes, events, boot, ops>>

\* The names whose routes r has still to write.
Owed(r) == {n \in Names :
    \/ At(r, "created") /\ Live(req[r].vm) /\ rows[req[r].vm].name = n
    \/ At(r, "routes") /\ \E c \in Range(req[r].calls) : c.name = n}

\* The client hangs up, or the agent's connection breaks: the handler is dropped
\* at the await it is at. The watchers are tasks of their own.
HandlerDropped(r) ==
    /\ r \in Handlers /\ ~Idle(r)
    /\ req' = [req EXCEPT ![r] = None]
    /\ Fault(Owed(r))
    /\ UNCHANGED <<rows, used, again, routes, events, boot, ops>>

-----------------------------------------------------------------------------
\* The control plane stops with everything it was doing, and the streams break.
Crash ==
    /\ ~boot /\ Fault({"restart"})
    /\ req' = [r \in Requests |-> None]
    /\ events' = [w \in Watchers |-> <<>>]
    /\ boot' = TRUE
    /\ UNCHANGED <<rows, used, again, routes, ops>>

\* rebuild_caddy_routes, before any watcher or handler: the list is replaced
\* by what the rows ask for. A row that is written between the SELECT and the
\* PATCH counts as written after both: no watcher is there to see it.
FromRows == [n \in Names |->
               IF n \in Taken
               THEN LET v == CHOOSE w \in VMs : Live(w) /\ rows[w].name = n
                    IN  TargetOf(v, rows[v])
               ELSE None]

Rebuild ==
    /\ boot /\ boot' = FALSE
    /\ routes' = FromRows /\ since' = {}
    /\ UNCHANGED <<rows, used, again, req, events, ops, faults>>

\* The PATCH fails: it is logged, and the control plane goes on.
RebuildFails ==
    /\ boot /\ boot' = FALSE
    /\ UNCHANGED <<rows, used, again, routes, req, events, since, ops, faults>>

\* Nobody asks for anything.
Rest == Quiet /\ UNCHANGED vars

Step(r) ==
    \/ CreateRow(r) \/ CreateRefused(r) \/ CreateRoute(r)
    \/ RenameRead(r) \/ RenameRow(r) \/ PortRow(r) \/ DeleteRow(r)
    \/ Take(r) \/ MarkRow(r)
    \/ PutRoute(r) \/ PostRoute(r) \/ DeleteRoute(r)

Next ==
    \/ \E r \in Requests :
         \/ CreateBegin(r) \/ RenameBegin(r) \/ PortBegin(r) \/ DeleteBegin(r) \/ Heartbeat(r)
         \/ Step(r)
         \/ CreateUnanswered(r) \/ DeleteUnanswered(r)
         \/ CallFails(r) \/ MarkFails(r) \/ HandlerDropped(r)
    \/ \E w \in Watchers : AgentWrites(w) \/ AgentRecovers(w) \/ StreamBreaks(w)
    \/ AgentIsSilent
    \/ Crash \/ Rebuild \/ RebuildFails
    \/ Rest

\* Every task is run, and the control plane starts up again.
Fairness == (\A r \in Requests : WF_vars(Step(r))) /\ WF_vars(Rebuild)

Spec == Init /\ [][Next]_vars /\ Fairness

-----------------------------------------------------------------------------
TypeOK ==
    /\ rows \in [VMs -> Row \cup {None}]
    /\ used \subseteq VMs \cup Names /\ again \subseteq used
    /\ routes \in [Names -> Routed \cup {None}]
    /\ req \in [Requests -> Request \cup {None}]
    /\ events \in [Watchers -> Seq(Event)]
    /\ boot \in BOOLEAN /\ since \subseteq Excuses
    /\ ops \in 0..MaxOps /\ faults \in 0..MaxFaults

\* The request is about to set the route of n.
WillRoute(r, n) ==
    \/ At(r, "created") /\ Live(req[r].vm) /\ rows[req[r].vm].name = n
    \/ At(r, "routes") /\ \E c \in Range(req[r].calls) : c.name = n /\ c.verb # "delete"

\* However many upserts of a name see each other's intermediate state, the VM
\* that has the name is routed or a request is about to route it: the DELETE of
\* one never comes after the last POST of the others (lib.rs:105-120).  What
\* fails or is dropped costs the names that it was about (since), no others.
\* Names given a second time are left out: there the delete_route of a rename
\* or of a delete_vm may come after the new owner's POST.
RouteOrWriter ==
    boot \/ "restart" \in since \/ \A v \in VMs :
        (Live(v) /\ rows[v].name \notin again \cup since) =>
            LET n == rows[v].name
            IN  routes[n] # None \/ \E r \in Requests : WillRoute(r, n)

\* Whenever no request is at work and no event is to be read, Caddy serves the
\* rows and nothing else - the names of deleted VMs and old names included -
\* unless, since Caddy was last rebuilt from the rows, requests overlapped, an
\* event was lost, or a request was given up. The agent may write a row while
\* a handler that read it is at work, and its events may come as late as they
\* like: the last of them settles the row and the route alike.
ServesRows == (Quiet /\ since = {}) => routes = FromRows

\* A VM without a route does not stay without one, unless the request that was
\* to write it was given up: the handlers' calls end, and what a restart breaks
\* off the rebuild makes up for, if it succeeds.
EventuallyRouted == \A v \in VMs, n \in Names :
    (Live(v) /\ rows[v].name = n /\ n \notin again)
        ~> \/ routes[n] # None \/ n \in again \cup since \/ ("restart" \in since /\ ~boot)
           \/ ~Live(v) \/ (Live(v) /\ rows[v].name # n)
=============================================================================
