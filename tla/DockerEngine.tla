---------------------------- MODULE DockerEngine ----------------------------
(***************************************************************************)
(* The Docker engine (adapters/runtime/docker-engine): deploy, sync,       *)
(* undeploy, stop, start, access and status requests over four stores that *)
(* nothing keeps together: Docker's containers, the port file, the nginx   *)
(* location files and the deployment records in SQLite.  Host network mode *)
(* (DEPLOYKIT_DOCKER_NETWORK unset), where nginx reaches a container by    *)
(* its host port.                                                          *)
(*                                                                         *)
(* A task is one request in the asyncio process; a step is what it does up *)
(* to the next command it awaits.  Nothing excludes two tasks on one       *)
(* application.  Deploy and sync write their records in the background     *)
(* (_bg_upsert): such a write lands later than it was issued, in any order *)
(* with the others, or fails without a trace.  A docker command may fail,  *)
(* or time out before or after its effect; containers neither exit nor     *)
(* start of themselves.                                                    *)
(***************************************************************************)
EXTENDS Integers, FiniteSets, SequencesExt

CONSTANTS
  Apps,      \* application ids
  Ports,     \* host ports the allocator hands out
  Lists,     \* non-empty allowlists
  Open,      \* the empty allowlist: whoever passes the edge
  None,
  Requests,  \* the requests clients make: an operation with what it asks for
  MaxTasks, MaxRestarts, MaxPending, MaxExcused  \* bounds of the exploration

Operations == {"deploy", "sync", "undeploy", "stop", "start", "access", "status"}
Statuses == {"absent", "pending", "building", "starting", "running", "stopped",
             "failed", "removed"}
Allowlists == Lists \cup {Open}

ASSUME NoneAssumption == None \notin Ports \cup Allowlists /\ Open \notin Lists
ASSUME RequestsAssumption ==
  Requests \subseteq [op : Operations, allow : Allowlists, data : BOOLEAN, syncable : BOOLEAN]
ASSUME BoundsAssumption == {MaxTasks, MaxRestarts, MaxPending, MaxExcused} \subseteq Nat

VARIABLES
  ports,      \* ports.json: the port assigned to an application
  container,  \* the container with the application's name
  route,      \* the application's nginx location file
  database,   \* whether a datastore is provisioned for the application
  record,     \* the application's row in `deployments'
  writes,     \* background record writes, in the order they were issued
  tasks,      \* requests, in the order they were accepted
  restarts,   \* restarts of the engine
  excused,    \* history: applications of which two requests overlapped, or whose port
              \* was released, or lost with the port file, while a container was left
  garbled     \* history: applications whose record missed or reordered writes

infra == <<ports, container, route, database>>
vars == <<infra, record, writes, tasks, restarts, excused, garbled>>

Ended == {"done", "failed", "refused", "lost"}
Stages == Ended \cup {"accepted", "remove", "build", "start", "health", "route",
                      "restart", "release", "record"}

NoRecord == [status |-> "absent", port |-> None, allow |-> Open, data |-> FALSE]

Task == [op : Operations, app : Apps, at : Stages, allow : Allowlists, data : BOOLEAN,
         syncable : BOOLEAN, port : Ports \cup {None}, status : Statuses]
Container == [by : Nat, port : Ports, up : BOOLEAN, syncable : BOOLEAN]
Route == [port : Ports, allow : Allowlists]
ASSUME AbsenceAssumption == None \notin Container \cup Route
Record == [status : Statuses, port : Ports \cup {None}, allow : Allowlists, data : BOOLEAN]
Write == [status : Statuses, port : Ports \cup {None}, allow : Allowlists \cup {None},
          data : BOOLEAN]

\* Types; in particular a container and a route always have a port.
TypeOK ==
  /\ ports \in [Apps -> Ports \cup {None}]
  /\ container \in [Apps -> Container \cup {None}]
  /\ route \in [Apps -> Route \cup {None}]
  /\ database \in [Apps -> BOOLEAN]
  /\ record \in [Apps -> Record]
  /\ writes \in [Apps -> Seq(Write)]
  /\ tasks \in Seq(Task)
  /\ restarts \in 0..MaxRestarts
  /\ excused \subseteq Apps /\ garbled \subseteq Apps

Init ==
  /\ ports = [a \in Apps |-> None]
  /\ container = [a \in Apps |-> None]
  /\ route = [a \in Apps |-> None]
  /\ database = [a \in Apps |-> FALSE]
  /\ record = [a \in Apps |-> NoRecord]
  /\ writes = [a \in Apps |-> <<>>]
  /\ tasks = <<>>
  /\ restarts = 0
  /\ excused = {} /\ garbled = {}

-----------------------------------------------------------------------------
(* Records *)

\* Mutants of upsert: `extra' is overwritten; the first port is kept.
UpsertOverwrites(r, w) ==
  [status |-> w.status,
   port   |-> IF w.port = None THEN r.port ELSE w.port,
   allow  |-> IF w.allow = None THEN Open ELSE w.allow,
   data   |-> w.data]
UpsertKeepsPort(r, w) ==
  [status |-> w.status,
   port   |-> IF r.port = None THEN w.port ELSE r.port,
   allow  |-> IF w.allow = None THEN r.allow ELSE w.allow,
   data   |-> r.data \/ w.data]

\* DeploymentStore.upsert: an omitted port keeps the stored one, `extra' is merged.
Upsert(r, w) ==
  [status |-> w.status,
   port   |-> IF w.port = None THEN r.port ELSE w.port,
   allow  |-> IF w.allow = None THEN r.allow ELSE w.allow,
   data   |-> r.data \/ w.data]

StatusOnly(s) == [status |-> s, port |-> None, allow |-> None, data |-> FALSE]

\* _bg_upsert; no more than MaxPending writes of an application are under way.
Issue(a, w) ==
  /\ Len(writes[a]) < MaxPending
  /\ writes' = [writes EXCEPT ![a] = Append(@, w)]

\* A background write ends: it lands, or its exception is swallowed.
LandWrite(a, i) ==
  /\ i \in DOMAIN writes[a]
  /\ record' = [record EXCEPT ![a] = Upsert(@, writes[a][i])]
  /\ writes' = [writes EXCEPT ![a] = RemoveAt(@, i)]
  /\ garbled' = IF i = 1 THEN garbled ELSE garbled \cup {a}
  /\ UNCHANGED <<infra, tasks, restarts, excused>>

DropWrite(a, i) ==
  /\ i \in DOMAIN writes[a]
  /\ writes' = [writes EXCEPT ![a] = RemoveAt(@, i)]
  /\ garbled' = garbled \cup {a}
  /\ UNCHANGED <<infra, record, tasks, restarts, excused>>

-----------------------------------------------------------------------------
(* Tasks *)

Live(t) == tasks[t].at \notin Ended
Busy(a) == writes[a] # <<>> \/ \E t \in DOMAIN tasks : tasks[t].app = a /\ Live(t)

\* At most MaxExcused applications are excused; with 0, no two requests overlap and
\* no port is released or lost while its container is left.
Excuse(a) ==
  /\ Cardinality(excused \cup {a}) <= MaxExcused
  /\ excused' = excused \cup {a}

Accept(a, r) ==
  /\ Len(tasks) < MaxTasks
  /\ tasks' = Append(tasks, [op |-> r.op, app |-> a, at |-> "accepted", allow |-> r.allow,
                             data |-> r.data, syncable |-> r.syncable, port |-> None,
                             status |-> "absent"])
  /\ IF Busy(a) THEN Excuse(a) ELSE UNCHANGED excused
  /\ UNCHANGED <<infra, record, writes, restarts, garbled>>

At(t, op, stage) == t \in DOMAIN tasks /\ tasks[t].op = op /\ tasks[t].at = stage
Move(t, stage) == tasks' = [tasks EXCEPT ![t].at = stage]

Bound == {container[a].port : a \in {b \in Apps : container[b] # None /\ container[b].up}}
Assigned == {ports[a] : a \in Apps}

\* Mutants: nothing is returned when no port is left; the bind check alone decides.
ObtainableOrNone(a) ==
  IF ports[a] # None THEN {ports[a]}
  ELSE IF Ports \ (Assigned \cup Bound) = {} THEN {None} ELSE Ports \ (Assigned \cup Bound)
ObtainableUnbound(a) == IF ports[a] # None THEN {ports[a]} ELSE Ports \ Bound

\* PortAllocator.allocate: the assigned port, or one that is neither assigned nor in use.
Obtainable(a) == IF ports[a] # None THEN {ports[a]} ELSE Ports \ (Assigned \cup Bound)

DeployAllocate(t) ==
  LET a == tasks[t].app IN
  /\ At(t, "deploy", "accepted")
  /\ Issue(a, StatusOnly("pending"))
  /\ \/ \E p \in Obtainable(a) :
          /\ ports' = [ports EXCEPT ![a] = p]
          /\ tasks' = [tasks EXCEPT ![t].at = "remove", ![t].port = p]
     \/ Obtainable(a) = {} /\ Move(t, "failed") /\ UNCHANGED ports
  /\ UNCHANGED <<container, route, database, record, restarts, excused, garbled>>

Leave(a, c) == container' = [container EXCEPT ![a] = c]

\* What an attempt to remove the container leaves: nothing, or, when Docker fails, what
\* was there, stopped or not.
Remnants(a) ==
  IF container[a] = None THEN {None}
  ELSE {None, container[a], [container[a] EXCEPT !.up = FALSE]}

\* A failed removal is ignored, a removal that times out is not.
DeployRemove(t) ==
  LET a == tasks[t].app IN
  /\ At(t, "deploy", "remove")
  /\ \E c \in Remnants(a) : Leave(a, c)
  /\ \/ Issue(a, StatusOnly("building")) /\ Move(t, "build")
     \/ Move(t, "failed") /\ UNCHANGED writes
  /\ UNCHANGED <<ports, route, database, record, restarts, excused, garbled>>

\* A missing source or a failed command raises: the record stays "building".
DeployBuild(t) ==
  /\ At(t, "deploy", "build")
  /\ \/ Issue(tasks[t].app, StatusOnly("starting")) /\ Move(t, "start")
     \/ Move(t, "failed") /\ UNCHANGED writes
  /\ UNCHANGED <<infra, record, restarts, excused, garbled>>

NewContainer(t, up) ==
  [by |-> t, port |-> tasks[t].port, up |-> up, syncable |-> tasks[t].syncable]

\* What `docker run' may leave behind when it fails or times out: what had the name,
\* or a container that was created and perhaps started.
LeftBehind(t) ==
  LET a == tasks[t].app IN
  IF container[a] # None THEN {container[a]}
  ELSE {None, NewContainer(t, FALSE)} \cup
       (IF tasks[t].port \in Bound THEN {} ELSE {NewContainer(t, TRUE)})

\* Provisioning may fail and is then skipped; then `docker run'.
DeployStart(t) ==
  LET a == tasks[t].app IN
  /\ At(t, "deploy", "start")
  /\ \E provisioned \in {FALSE, tasks[t].data} :
       /\ database' = [database EXCEPT ![a] = @ \/ provisioned]
       /\ \/ /\ container[a] = None /\ tasks[t].port \notin Bound
             /\ Leave(a, NewContainer(t, TRUE))
             /\ tasks' = [tasks EXCEPT ![t].at = "health", ![t].data = provisioned]
          \/ /\ \E c \in LeftBehind(t) : Leave(a, c)
             /\ tasks' = [tasks EXCEPT ![t].at = "failed", ![t].data = provisioned]
  /\ UNCHANGED <<ports, route, record, writes, restarts, excused, garbled>>

\* A removal whose failure is ignored, and after which the port is released.
Released(a) ==
  \E c \in Remnants(a) : Leave(a, c) /\ IF c = None THEN UNCHANGED excused ELSE Excuse(a)

\* Whatever listens on the port answers, unless the task's own container is seen to be down.
Healthy(t) ==
  LET c == container[tasks[t].app] IN
  tasks[t].port \in Bound /\ (c = None \/ c.by # t \/ c.up)

\* Mutant: a failed health check leaves the container for its logs.
HealthKeepsContainer(t) ==
  LET a == tasks[t].app IN
  /\ At(t, "deploy", "health")
  /\ \/ Healthy(t) /\ Move(t, "route") /\ UNCHANGED <<ports, writes>>
     \/ /\ ports' = [ports EXCEPT ![a] = None]
        /\ Issue(a, StatusOnly("failed"))
        /\ Move(t, "failed")
  /\ UNCHANGED <<container, route, database, record, restarts, excused, garbled>>

\* An unhealthy container is removed by name, whoever started it, and the port is
\* released, unless reading the logs or the removal times out.
DeployHealth(t) ==
  LET a == tasks[t].app IN
  /\ At(t, "deploy", "health")
  /\ \/ Healthy(t) /\ Move(t, "route") /\ UNCHANGED <<ports, container, writes, excused>>
     \/ /\ Released(a)
        /\ ports' = [ports EXCEPT ![a] = None]
        /\ Issue(a, StatusOnly("failed"))
        /\ Move(t, "failed")
     \/ /\ \E c \in Remnants(a) : Leave(a, c)
        /\ Move(t, "failed")
        /\ UNCHANGED <<ports, writes, excused>>
  /\ UNCHANGED <<route, database, record, restarts, garbled>>

\* NginxProxy.add_route: the file is written and nginx reloads; a refused file is
\* unlinked, and a list nginx could not express is refused before it is written.
AddRoute(a, p, l) == route' = [route EXCEPT ![a] = [port |-> p, allow |-> l]]
RouteFails(a) == route' \in {route, [route EXCEPT ![a] = None]}

DeployRoute(t) ==
  LET a == tasks[t].app
      l == tasks[t].allow IN
  /\ At(t, "deploy", "route")
  /\ \/ /\ AddRoute(a, tasks[t].port, l)
        /\ Issue(a, [status |-> "running", port |-> tasks[t].port,
                     allow |-> IF l = Open THEN None ELSE l, data |-> tasks[t].data])
        /\ Move(t, "done")
     \/ RouteFails(a) /\ Move(t, "failed") /\ UNCHANGED writes
  /\ UNCHANGED <<ports, container, database, record, restarts, excused, garbled>>

-----------------------------------------------------------------------------
\* A container that docker inspect does not show counts as missing.
SyncLookup(t) ==
  LET a == tasks[t].app IN
  /\ At(t, "sync", "accepted")
  /\ \/ /\ container[a] # None /\ container[a].syncable
        /\ Issue(a, StatusOnly("starting")) /\ Move(t, "restart")
     \/ Move(t, "refused") /\ UNCHANGED writes
  /\ UNCHANGED <<infra, record, restarts, excused, garbled>>

\* docker start or restart, and docker stop, of the container with the application's name
BringUp(a) ==
  /\ container[a] # None /\ (container[a].up \/ container[a].port \notin Bound)
  /\ container' = [container EXCEPT ![a].up = TRUE]
BringDown(a) ==
  /\ container[a] # None
  /\ container' = [container EXCEPT ![a].up = FALSE]

SyncRestart(t) ==
  LET a == tasks[t].app IN
  /\ At(t, "sync", "restart")
  /\ \/ BringUp(a) /\ Move(t, "health")
     \/ (BringUp(a) \/ BringDown(a) \/ UNCHANGED container) /\ Move(t, "failed")
  /\ UNCHANGED <<ports, route, database, record, writes, restarts, excused, garbled>>

\* The check goes to the recorded port.
SyncHealth(t) ==
  LET a == tasks[t].app IN
  /\ At(t, "sync", "health")
  /\ \/ record[a].port \in Bound /\ Issue(a, StatusOnly("running")) /\ Move(t, "done")
     \/ Issue(a, StatusOnly("failed")) /\ Move(t, "failed")
     \/ Move(t, "failed") /\ UNCHANGED writes
  /\ UNCHANGED <<infra, record, restarts, excused, garbled>>

-----------------------------------------------------------------------------
UndeployRemove(t) ==
  LET a == tasks[t].app IN
  /\ At(t, "undeploy", "accepted")
  /\ \/ Released(a) /\ Move(t, "release")
     \/ /\ \E c \in Remnants(a) : Leave(a, c)
        /\ Move(t, "failed")
        /\ UNCHANGED excused
  /\ UNCHANGED <<ports, route, database, record, writes, restarts, garbled>>

\* Mutant: the port is kept for the next deployment.
UndeployKeepsPort(t) ==
  /\ At(t, "undeploy", "release")
  /\ route' = [route EXCEPT ![tasks[t].app] = None]
  /\ Move(t, "record")
  /\ UNCHANGED <<ports, container, database, record, writes, restarts, excused, garbled>>

UndeployRelease(t) ==
  /\ At(t, "undeploy", "release")
  /\ route' = [route EXCEPT ![tasks[t].app] = None]
  /\ ports' = [ports EXCEPT ![tasks[t].app] = None]
  /\ Move(t, "record")
  /\ UNCHANGED <<container, database, record, writes, restarts, excused, garbled>>

\* The last step of a request writes the record, or fails and leaves it behind.
Conclude(t, w) ==
  LET a == tasks[t].app IN
  \/ /\ record' = [record EXCEPT ![a] = Upsert(@, w)]
     /\ Move(t, "done")
     /\ UNCHANGED garbled
  \/ /\ garbled' = garbled \cup {a}
     /\ Move(t, "failed")
     /\ UNCHANGED record

\* Datastores are removed when the record knows of them; a failure is logged.
UndeployRecord(t) ==
  LET a == tasks[t].app IN
  /\ At(t, "undeploy", "record")
  /\ \/ record[a].data /\ database' = [database EXCEPT ![a] = FALSE]
     \/ UNCHANGED database
  /\ Conclude(t, StatusOnly("removed"))
  /\ UNCHANGED <<ports, container, route, writes, restarts, excused>>

\* Without a container that docker inspect shows, stop and start only write the record.
StopContainer(t) ==
  LET a == tasks[t].app IN
  /\ At(t, "stop", "accepted")
  /\ \/ UNCHANGED container /\ Move(t, "record")
     \/ BringDown(a) /\ \E stage \in {"record", "failed"} : Move(t, stage)
     \/ container[a] # None /\ UNCHANGED container /\ Move(t, "failed")
  /\ UNCHANGED <<ports, route, database, record, writes, restarts, excused, garbled>>

StartContainer(t) ==
  LET a == tasks[t].app IN
  /\ At(t, "start", "accepted")
  /\ \/ UNCHANGED container /\ Move(t, "record")
     \/ BringUp(a) /\ \E stage \in {"record", "failed"} : Move(t, stage)
     \/ container[a] # None /\ UNCHANGED container /\ Move(t, "failed")
  /\ UNCHANGED <<ports, route, database, record, writes, restarts, excused, garbled>>

\* set_access_endpoint: route first, then the record, with the status that was read first.
AccessRoute(t) ==
  LET a == tasks[t].app IN
  /\ At(t, "access", "accepted")
  /\ \/ record[a].port = None /\ Move(t, "failed") /\ UNCHANGED route
     \/ /\ record[a].port # None
        /\ AddRoute(a, record[a].port, tasks[t].allow)
        /\ tasks' = [tasks EXCEPT ![t].at = "record", ![t].status = record[a].status]
     \/ record[a].port # None /\ RouteFails(a) /\ Move(t, "failed")
  /\ UNCHANGED <<ports, container, database, record, writes, restarts, excused, garbled>>

\* Mutant: a container that exists counts as running.
StatusTrustsContainer(t) ==
  LET a == tasks[t].app IN
  /\ At(t, "status", "accepted")
  /\ \/ container[a] # None /\ record[a].status # "absent" /\ Move(t, "record")
     \/ Move(t, "done")
  /\ UNCHANGED <<infra, record, writes, restarts, excused, garbled>>

\* status(): a running container makes the record say so.
StatusRead(t) ==
  LET a == tasks[t].app
      up == container[a] # None /\ container[a].up IN
  /\ At(t, "status", "accepted")
  /\ \/ up /\ record[a].status \notin {"absent", "running"} /\ Move(t, "record")
     \/ Move(t, "done")
  /\ UNCHANGED <<infra, record, writes, restarts, excused, garbled>>

Outcome(t) ==
  CASE tasks[t].op = "stop"   -> StatusOnly("stopped")
    [] tasks[t].op = "access" -> [StatusOnly(tasks[t].status) EXCEPT !.allow = tasks[t].allow]
    [] OTHER                  -> StatusOnly("running")

RecordOutcome(t) ==
  /\ \E op \in {"stop", "start", "access", "status"} : At(t, op, "record")
  /\ Conclude(t, Outcome(t))
  /\ UNCHANGED <<infra, writes, restarts, excused>>

-----------------------------------------------------------------------------
\* lifespan(): routes are restored for records that say running; the first failure
\* ends the restore.  The bootstrap may have wiped the location files before.
Restorable == {a \in Apps : record[a].status = "running" /\ record[a].port # None}
Restored(a) == [port |-> record[a].port, allow |-> record[a].allow]

\* The process dies, `before' being the location files it leaves, and comes up again.
Reboot(before) ==
  /\ restarts < MaxRestarts
  /\ restarts' = restarts + 1
  /\ tasks' = [t \in DOMAIN tasks |-> IF Live(t) THEN [tasks[t] EXCEPT !.at = "lost"] ELSE tasks[t]]
  /\ writes' = [a \in Apps |-> <<>>]
  /\ garbled' = garbled \cup {a \in Apps : Busy(a)}
  /\ \E kept \in {before, [a \in Apps |-> None]} :
       \/ route' = [a \in Apps |-> IF a \in Restorable THEN Restored(a) ELSE kept[a]]
       \/ \E f \in Restorable : \E done \in SUBSET (Restorable \ {f}) :
            route' = [a \in Apps |-> IF a = f THEN None
                                     ELSE IF a \in done THEN Restored(a) ELSE kept[a]]
  /\ UNCHANGED <<database, record>>

Restart == Reboot(route) /\ UNCHANGED <<ports, container, excused>>

\* The process dies in a step of the request that rewrites the port file; what is left of the
\* application's container, and the location files.
DiesRewritingPorts(t) ==
  LET a == tasks[t].app IN
  \/ /\ At(t, "deploy", "accepted") /\ ports[a] = None /\ Obtainable(a) # {}
     /\ UNCHANGED container /\ Reboot(route)
  \/ /\ At(t, "deploy", "health")
     /\ \E c \in Remnants(a) : Leave(a, c)
     /\ Reboot(route)
  \/ /\ At(t, "undeploy", "release")
     /\ UNCHANGED container /\ Reboot([route EXCEPT ![a] = None])

\* PortAllocator._write truncates the file before it writes it, and _read takes a torn
\* file for an empty one: a crash in between loses the port of every application.
CrashInPortFile(t) ==
  /\ DiesRewritingPorts(t)
  /\ ports' = [b \in Apps |-> None]
  /\ excused' = excused \cup {b \in Apps : container'[b] # None}
  /\ Cardinality(excused') <= MaxExcused

TaskStep(t) ==
  \/ DeployAllocate(t) \/ DeployRemove(t) \/ DeployBuild(t)
  \/ DeployStart(t) \/ DeployHealth(t) \/ DeployRoute(t)
  \/ SyncLookup(t) \/ SyncRestart(t) \/ SyncHealth(t)
  \/ UndeployRemove(t) \/ UndeployRelease(t) \/ UndeployRecord(t)
  \/ StopContainer(t) \/ StartContainer(t)
  \/ AccessRoute(t) \/ StatusRead(t) \/ RecordOutcome(t)

Next ==
  \/ \E a \in Apps, r \in Requests : Accept(a, r)
  \/ \E t \in DOMAIN tasks : TaskStep(t)
  \/ \E a \in Apps : \E i \in DOMAIN writes[a] : LandWrite(a, i) \/ DropWrite(a, i)
  \/ Restart
  \/ \E t \in DOMAIN tasks : CrashInPortFile(t)

Spec == Init /\ [][Next]_vars

-----------------------------------------------------------------------------
(* Properties.  Nothing is promised for an excused application; the ones   *)
(* about records also need its writes to have landed in order.             *)

\* An application at rest: no request and no write under way.
AtRest(a) == ~Busy(a) /\ a \notin excused \cup garbled
Asked(a, op) == \E t \in DOMAIN tasks : tasks[t].app = a /\ tasks[t].op = op

\* However deployments interleave, the port file never gives one port to two
\* applications (the lock of ports.py).
PortsDisjoint ==
  \A a, b \in Apps : a # b /\ ports[a] # None => ports[a] # ports[b]

\* A container keeps its port assigned for as long as it exists, through failed
\* deployments, removals that time out and restarts that spare the port file: no other
\* application can be given a port that something listens on, or will when it is
\* started.  Overlapping requests, a removal that Docker refuses and a crash while the
\* port file is written are exceptions, of the applications they concern.
ContainerHoldsPort ==
  \A a \in Apps : container[a] # None /\ a \notin excused => ports[a] = container[a].port

\* A record that says running is about a container that runs, however deployments and
\* synchronisations fail on the way.  Two requests are exceptions: start(), which
\* records running without looking, and a stop or an undeployment that fails after
\* Docker has stopped the container.
RunningHasContainer ==
  \A a \in Apps :
    /\ AtRest(a) /\ record[a].status = "running" /\ ~Asked(a, "start")
    /\ ~\E t \in DOMAIN tasks :
         tasks[t].app = a /\ tasks[t].op \in {"stop", "undeploy"} /\ tasks[t].at = "failed"
    => container[a] # None /\ container[a].up

\* A record that says removed leaves neither container nor port behind, and no route
\* unless a change of access wrote it again: the record of a removed application
\* keeps its port.
RemovedLeavesNothing ==
  \A a \in Apps :
    AtRest(a) /\ record[a].status = "removed" =>
      /\ container[a] = None /\ ports[a] = None
      /\ route[a] = None \/ Asked(a, "access")

\* The allowlist set last, by a deployment that names one or through the access
\* endpoint, stays on record through every other request and every restart: it is
\* the only durable copy.
ListSetBy(t) ==
  /\ tasks[t].at = "done"
  /\ tasks[t].op = "access" \/ (tasks[t].op = "deploy" /\ tasks[t].allow # Open)
LastList(a) ==
  LET setters == {t \in DOMAIN tasks : tasks[t].app = a /\ ListSetBy(t)} IN
  IF setters = {} THEN Open ELSE tasks[Max(setters)].allow
AllowlistKept == \A a \in Apps : AtRest(a) => record[a].allow = LastList(a)

\* The route of a running application leads to its own container, also after the
\* port changed between deployments and after a restart restored it from the
\* record.  After a failed request that is not so: an unhealthy deployment
\* releases its port and leaves the previous route to it.
RouteLeadsHome ==
  \A a \in Apps :
    /\ AtRest(a) /\ record[a].status = "running" /\ route[a] # None /\ ~Asked(a, "start")
    /\ \A t \in DOMAIN tasks : tasks[t].app = a => tasks[t].at # "failed"
    => container[a] # None /\ route[a].port = container[a].port

\* Expected to fail.  undeploy(): "Deprovision any datastores that were provisioned
\* for this app."  A deployment that fails after provisioning has recorded none.
RemovedLeavesNoDatabase ==
  \A a \in Apps : AtRest(a) /\ record[a].status = "removed" => ~database[a]

=============================================================================
