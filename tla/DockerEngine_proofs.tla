------------------------ MODULE DockerEngine_proofs ------------------------
(* Theorems about DockerEngine, for every set of applications and ports.   *)
EXTENDS DockerEngine, SequenceTheorems, TLAPS

Assigns == ports \in [Apps -> Ports \cup {None}]

\* What a port obtained for an application may be.
LEMMA ObtainedPort ==
  ASSUME Assigns, PortsDisjoint, NEW a \in Apps, NEW p \in Obtainable(a)
  PROVE  p \in Ports /\ \A b \in Apps \ {a} : ports[b] # p
<1> QED  BY NoneAssumption DEF Assigns, PortsDisjoint, Obtainable, Assigned

\* Only the start of a deployment assigns a port.
LEMMA PortStep ==
  ASSUME Assigns, PortsDisjoint, [Next]_vars
  PROVE  Assigns' /\ PortsDisjoint'
<1>1. CASE UNCHANGED ports
  BY <1>1 DEF Assigns, PortsDisjoint
<1>2. ASSUME NEW a, NEW p \in Obtainable(a), ports' = [ports EXCEPT ![a] = p]
      PROVE  Assigns' /\ PortsDisjoint'
  <2>1. CASE a \in Apps
    BY <1>2, <2>1, ObtainedPort DEF Assigns, PortsDisjoint
  <2>2. CASE a \notin Apps
    BY <1>2, <2>2 DEF Assigns, PortsDisjoint
  <2> QED  BY <2>1, <2>2
<1>3. ASSUME NEW a, ports' = [ports EXCEPT ![a] = None]
      PROVE  Assigns' /\ PortsDisjoint'
  BY <1>3 DEF Assigns, PortsDisjoint
<1>4. ASSUME NEW t \in DOMAIN tasks, TaskStep(t)
      PROVE  Assigns' /\ PortsDisjoint'
  <2>1. CASE DeployAllocate(t)
    BY <2>1, <1>1, <1>2 DEF DeployAllocate
  <2>2. CASE DeployHealth(t)
    BY <2>2, <1>1, <1>3 DEF DeployHealth
  <2>3. CASE UndeployRelease(t)
    BY <2>3, <1>3 DEF UndeployRelease
  <2>4. CASE DeployRemove(t) \/ DeployBuild(t) \/ DeployStart(t) \/ DeployRoute(t)
    BY <2>4, <1>1 DEF DeployRemove, DeployBuild, DeployStart, DeployRoute, infra
  <2>5. CASE SyncLookup(t) \/ SyncRestart(t) \/ SyncHealth(t)
    BY <2>5, <1>1 DEF SyncLookup, SyncRestart, SyncHealth, infra
  <2>6. CASE UndeployRemove(t) \/ UndeployRecord(t) \/ StopContainer(t) \/ StartContainer(t)
    BY <2>6, <1>1 DEF UndeployRemove, UndeployRecord, StopContainer, StartContainer
  <2>7. CASE AccessRoute(t) \/ StatusRead(t) \/ RecordOutcome(t)
    BY <2>7, <1>1 DEF AccessRoute, StatusRead, RecordOutcome, infra
  <2> QED  BY <1>4, <2>1, <2>2, <2>3, <2>4, <2>5, <2>6, <2>7 DEF TaskStep
<1>5. CASE \E a \in Apps, r \in Requests : Accept(a, r)
  BY <1>5, <1>1 DEF Accept, infra
<1>6. CASE \E a \in Apps : \E i \in DOMAIN writes[a] : LandWrite(a, i) \/ DropWrite(a, i)
  BY <1>6, <1>1 DEF LandWrite, DropWrite, infra
<1>7. CASE Restart
  BY <1>7, <1>1 DEF Restart
<1>8. CASE \E t \in DOMAIN tasks : CrashInPortFile(t)
  BY <1>8 DEF CrashInPortFile, Assigns, PortsDisjoint
<1>9. CASE UNCHANGED vars
  BY <1>9, <1>1 DEF vars, infra
<1> QED  BY <1>4, <1>5, <1>6, <1>7, <1>8, <1>9 DEF Next

\* ports.py: however requests interleave, no port is assigned to two applications.
THEOREM PortsNeverShared == Spec => []PortsDisjoint
<1>1. Init => Assigns /\ PortsDisjoint
  BY DEF Init, Assigns, PortsDisjoint
<1>2. Assigns /\ PortsDisjoint /\ [Next]_vars => (Assigns /\ PortsDisjoint)'
  BY PortStep
<1> QED  BY <1>1, <1>2, PTL DEF Spec

-----------------------------------------------------------------------------
(* ContainerHoldsPort is not inductive: a deployment creates its container *)
(* with the port it allocated earlier, and an undeployment releases the    *)
(* port after it removed the container.  Between those steps both depend   *)
(* on being the application's only live request.                           *)

Placing == {"remove", "build", "start", "health", "route"}
Ported(t) == tasks[t].op = "deploy" /\ tasks[t].at \in Placing => tasks[t].port \in Ports

Books ==
  /\ route \in [Apps -> Route \cup {None}]
  /\ database \in [Apps -> BOOLEAN]
  /\ record \in [Apps -> Record]
  /\ writes \in [Apps -> Seq(Write)]
  /\ restarts \in 0..MaxRestarts
  /\ excused \subseteq Apps /\ garbled \subseteq Apps

Typed ==
  /\ Assigns /\ Books
  /\ container \in [Apps -> Container \cup {None}]
  /\ tasks \in Seq(Task)
  /\ \A t \in DOMAIN tasks : Ported(t)

Alone(a) == \A t, u \in DOMAIN tasks :
  tasks[t].app = a /\ tasks[u].app = a /\ Live(t) /\ Live(u) => t = u
Holds(a) == container[a] # None => ports[a] = container[a].port
Placed(a) == \A t \in DOMAIN tasks :
  tasks[t].app = a /\ tasks[t].op = "deploy" /\ tasks[t].at \in Placing =>
    tasks[t].port = ports[a] /\ ports[a] # None
Cleared(a) == \A t \in DOMAIN tasks :
  tasks[t].app = a /\ tasks[t].op = "undeploy" /\ tasks[t].at = "release" => container[a] = None

Kept(a) == Alone(a) /\ Holds(a) /\ Placed(a) /\ Cleared(a)
HoldsInv == Typed /\ \A a \in Apps \ excused : Kept(a)

\* What every step of a task does to the list of tasks: only its own entry changes,
\* which was live and keeps its operation and its application.
Moves(t) ==
  /\ tasks' \in Seq(Task) /\ DOMAIN tasks' = DOMAIN tasks
  /\ \A u \in DOMAIN tasks : u # t => tasks'[u] = tasks[u]
  /\ tasks'[t].app = tasks[t].app /\ tasks'[t].op = tasks[t].op
  /\ Live(t)

LEMMA MoveMoves ==
  ASSUME tasks \in Seq(Task), NEW t \in DOMAIN tasks, NEW at \in Stages,
         NEW p \in Ports \cup {None}, NEW d \in BOOLEAN, NEW s \in Statuses, Live(t),
         tasks' = [tasks EXCEPT ![t] = [@ EXCEPT !.at = at, !.port = p, !.data = d, !.status = s]]
  PROVE  Moves(t) /\ tasks'[t].at = at /\ tasks'[t].port = p
<1>1. tasks[t] \in Task
  OBVIOUS
<1>2. [tasks[t] EXCEPT !.at = at, !.port = p, !.data = d, !.status = s] \in Task
  BY <1>1 DEF Task
<1>3. tasks' \in Seq(Task)
  BY <1>2
<1> QED  BY <1>1, <1>2, <1>3 DEF Moves, Task

LEMMA PlainMove ==
  ASSUME tasks \in Seq(Task), NEW t \in DOMAIN tasks, NEW at \in Stages, Live(t), Move(t, at)
  PROVE  Moves(t) /\ tasks'[t].at = at /\ tasks'[t].port = tasks[t].port
<1>1. tasks[t] \in Task
  OBVIOUS
<1>2. [tasks[t] EXCEPT !.at = at] \in Task
  BY <1>1 DEF Task
<1>3. tasks' \in Seq(Task)
  BY <1>2 DEF Move
<1> QED  BY <1>1, <1>2, <1>3 DEF Moves, Move, Task

\* The conditions on the moving task itself.
Own(t) ==
  /\ tasks[t].op = "deploy" /\ tasks[t].at \in Placing =>
       tasks[t].port = ports[tasks[t].app] /\ ports[tasks[t].app] # None
  /\ tasks[t].op = "undeploy" /\ tasks[t].at = "release" => container[tasks[t].app] = None

\* A step of t that leaves every other application alone and keeps its own in order.
Sound(t) ==
  /\ Moves(t) /\ Ported(t)' /\ Assigns' /\ excused \subseteq excused'
  /\ container' \in [Apps -> Container \cup {None}]
  /\ \A b \in Apps \ {tasks[t].app} : container'[b] = container[b] /\ ports'[b] = ports[b]
  /\ \A b \in Apps : b = tasks[t].app /\ b \notin excused' /\ Kept(b) => Holds(b)' /\ Own(t)'

LEMMA SoundKeeps ==
  ASSUME HoldsInv, NEW t \in DOMAIN tasks, Sound(t), Books'
  PROVE  HoldsInv'
<1> DEFINE own == tasks[t].app
<1>t. Typed'
  BY DEF HoldsInv, Typed, Sound, Moves, Ported
<1> SUFFICES ASSUME NEW a \in Apps, a \notin excused' PROVE Kept(a)'
  BY <1>t DEF HoldsInv
<1>0. Kept(a)
  BY DEF HoldsInv, Sound
<1>1. /\ DOMAIN tasks' = DOMAIN tasks
      /\ \A u \in DOMAIN tasks : tasks'[u].app = tasks[u].app /\ tasks'[u].op = tasks[u].op
      /\ \A u \in DOMAIN tasks : Live(u)' => Live(u)
  BY DEF Sound, Moves, Live
<1>2. Alone(a)'
  BY <1>0, <1>1 DEF Kept, Alone
<1>3. CASE a # own
  <2>1. container'[a] = container[a] /\ ports'[a] = ports[a]
    BY <1>3 DEF Sound
  <2>2. \A u \in DOMAIN tasks : tasks[u].app = a => tasks'[u] = tasks[u]
    BY <1>3 DEF Sound, Moves
  <2> QED  BY <1>0, <1>1, <1>2, <2>1, <2>2 DEF Kept, Holds, Placed, Cleared
<1>4. CASE a = own
  <2>1. Holds(a)' /\ Own(t)'
    BY <1>0, <1>4 DEF Sound
  <2>2. \A u \in DOMAIN tasks : tasks[u].app = a /\ Live(u) => u = t
    BY <1>0, <1>4 DEF Kept, Alone, Sound, Moves
  <2>3. \A u \in DOMAIN tasks : tasks'[u].app = a /\ tasks'[u].at \notin Ended => u = t
    BY <1>1, <2>2 DEF Live
  <2>4. Placed(a)'
    BY <1>1, <1>4, <2>1, <2>3 DEF Placed, Own, Placing, Ended
  <2>5. Cleared(a)'
    BY <1>1, <1>4, <2>1, <2>3 DEF Cleared, Own, Ended
  <2> QED  BY <1>2, <2>1, <2>4, <2>5 DEF Kept
<1> QED  BY <1>3, <1>4

\* A removal keeps the container's port, or removes the container.
LEMMA RemovalTyped ==
  ASSUME Typed, NEW a \in Apps, NEW c \in Remnants(a), Leave(a, c)
  PROVE  /\ container' \in [Apps -> Container \cup {None}]
         /\ \A b \in Apps \ {a} : container'[b] = container[b]
         /\ container'[a] = c
         /\ Holds(a) => c = None \/ ports[a] = c.port
<1>1. container[a] \in Container \cup {None}
  BY DEF Typed
<1>2. c \in Container \cup {None}
  BY <1>1 DEF Remnants, Container
<1>3. c # None => c.port = container[a].port /\ container[a] # None
  BY <1>1 DEF Remnants, Container
<1> QED  BY <1>2, <1>3 DEF Typed, Leave, Holds

LEMMA ReleasedCleared ==
  ASSUME Typed, NEW a \in Apps, Released(a)
  PROVE  /\ container' \in [Apps -> Container \cup {None}]
         /\ \A b \in Apps \ {a} : container'[b] = container[b]
         /\ excused \subseteq excused' /\ excused' \subseteq Apps
         /\ a \notin excused' => container'[a] = None
<1>1. PICK c \in Remnants(a) : Leave(a, c) /\ IF c = None THEN UNCHANGED excused ELSE Excuse(a)
  BY DEF Released
<1>2. /\ container' \in [Apps -> Container \cup {None}]
      /\ \A b \in Apps \ {a} : container'[b] = container[b]
      /\ container'[a] = c
  BY <1>1, RemovalTyped
<1>3. excused \subseteq Apps
  BY DEF Typed, Books
<1> QED  BY <1>1, <1>2, <1>3 DEF Excuse

LEMMA DeploySound ==
  ASSUME Typed, PortsDisjoint, Assigns', NEW t \in DOMAIN tasks,
         \/ DeployAllocate(t) \/ DeployRemove(t) \/ DeployBuild(t)
         \/ DeployStart(t) \/ DeployHealth(t) \/ DeployRoute(t)
  PROVE  Sound(t)
<1>0. tasks[t] \in Task /\ tasks \in Seq(Task) /\ tasks[t].app \in Apps
  <2>1. tasks[t] \in Task /\ tasks \in Seq(Task)
    BY DEF Typed
  <2> QED  BY <2>1 DEF Task
<1> SUFFICES ASSUME NEW a \in Apps, a = tasks[t].app PROVE Sound(t)
  BY <1>0
<1>1. CASE DeployAllocate(t)
  <2>1. Live(t)
    BY <1>1 DEF DeployAllocate, At, Live, Ended
  <2>2. CASE Move(t, "failed") /\ UNCHANGED ports
    <3>1. Moves(t) /\ tasks'[t].at = "failed"
      BY <1>0, <2>1, <2>2, PlainMove DEF Stages, Ended
    <3> QED  BY <1>0, <1>1, <2>2, <3>1 DEF Sound, Typed, Moves, Own, Ported, Kept, Holds, DeployAllocate, Placing
  <2>3. ASSUME NEW p \in Obtainable(a), ports' = [ports EXCEPT ![a] = p],
               tasks' = [tasks EXCEPT ![t].at = "remove", ![t].port = p]
        PROVE  Sound(t)
    <3>1. p \in Ports
      BY <1>0, ObtainedPort DEF Typed
    <3>2. tasks' = [tasks EXCEPT ![t] = [@ EXCEPT !.at = "remove", !.port = p,
                                                  !.data = tasks[t].data, !.status = tasks[t].status]]
      BY <1>0, <2>3 DEF Task
    <3>3. Moves(t) /\ tasks'[t].at = "remove" /\ tasks'[t].port = p
      BY <1>0, <2>1, <3>1, <3>2, MoveMoves DEF Stages, Task
    <3>4. ASSUME Kept(a) PROVE Holds(a)'
      <4>1. container' = container /\ Holds(a)
        BY <1>1, <3>4 DEF DeployAllocate, Kept
      <4>2. CASE ports[a] # None
        BY <1>0, <2>3, <4>1, <4>2 DEF Holds, Obtainable, Typed, Assigns
      <4>3. CASE container[a] = None
        BY <4>1, <4>3 DEF Holds
      <4>4. CASE container[a] # None /\ ports[a] = None
        <5>1. container[a] \in Container
          BY <1>0, <4>4 DEF Typed
        <5> QED  BY <4>1, <4>4, <5>1, NoneAssumption DEF Holds, Container
      <4> QED  BY <4>2, <4>3, <4>4
    <3>5. Own(t)' /\ Ported(t)'
      BY <1>0, <1>1, <2>3, <3>1, <3>3, NoneAssumption
      DEF Own, Ported, Moves, Typed, Assigns, At, DeployAllocate
    <3> QED  BY <1>0, <1>1, <2>3, <3>3, <3>4, <3>5 DEF Sound, Typed, Assigns, DeployAllocate
  <2> QED  BY <1>1, <2>2, <2>3 DEF DeployAllocate
<1>2. CASE DeployRemove(t)
  <2>1. Moves(t) /\ tasks'[t].at \in {"build", "failed"} /\ tasks'[t].port = tasks[t].port
    BY <1>0, <1>2, PlainMove DEF Stages, Ended, DeployRemove, At, Live
  <2>2. PICK c \in Remnants(a) : Leave(a, c)
    BY <1>2 DEF DeployRemove
  <2> QED  BY <1>0, <1>2, <2>1, <2>2, RemovalTyped
           DEF Sound, Typed, Assigns, Moves, Own, Ported, Kept, Holds, Placed, DeployRemove, At, Placing
<1>3. CASE DeployBuild(t)
  <2>1. /\ Moves(t) /\ tasks'[t].at \in {"start", "failed"}
        /\ tasks'[t].port = tasks[t].port
    BY <1>0, <1>3, PlainMove DEF Stages, Ended, DeployBuild, At, Live
  <2> QED  BY <1>0, <1>3, <2>1
           DEF Sound, Typed, Moves, Own, Ported, Kept, Holds, Placed, DeployBuild, At, Placing, infra
<1>4. CASE DeployHealth(t)
  <2>1. Live(t) /\ At(t, "deploy", "health")
    BY <1>4 DEF DeployHealth, At, Live, Ended
  <2>2. CASE Move(t, "route") /\ UNCHANGED <<ports, container, writes, excused>>
    <3>1. Moves(t) /\ tasks'[t].at = "route" /\ tasks'[t].port = tasks[t].port
      BY <1>0, <2>1, <2>2, PlainMove DEF Stages
    <3> QED  BY <1>0, <1>4, <2>1, <2>2, <3>1
             DEF Sound, Typed, Moves, Own, Ported, Kept, Holds, Placed, DeployHealth, At, Placing
  <2>3. CASE Released(a) /\ ports' = [ports EXCEPT ![a] = None] /\ Move(t, "failed")
    <3>1. Moves(t) /\ tasks'[t].at = "failed"
      BY <1>0, <2>1, <2>3, PlainMove DEF Stages, Ended
    <3> QED  BY <1>0, <1>4, <2>1, <2>3, <3>1, ReleasedCleared
             DEF Sound, Typed, Assigns, Moves, Own, Ported, Holds, DeployHealth, At, Placing
  <2>4. CASE /\ \E c \in Remnants(a) : Leave(a, c)
             /\ Move(t, "failed") /\ UNCHANGED <<ports, writes, excused>>
    <3>1. Moves(t) /\ tasks'[t].at = "failed"
      BY <1>0, <2>1, <2>4, PlainMove DEF Stages, Ended
    <3> QED  BY <1>0, <1>4, <2>1, <2>4, <3>1, RemovalTyped
             DEF Sound, Typed, Assigns, Moves, Own, Ported, Kept, Holds, DeployHealth, At, Placing
  <2> QED  BY <1>4, <2>2, <2>3, <2>4 DEF DeployHealth
<1>5. CASE DeployRoute(t)
  <2>1. Moves(t) /\ tasks'[t].at \in {"done", "failed"}
    BY <1>0, <1>5, PlainMove DEF Stages, Ended, DeployRoute, At, Live
  <2> QED  BY <1>0, <1>5, <2>1
           DEF Sound, Typed, Moves, Own, Ported, Kept, Holds, DeployRoute, At, Placing
<1>6. CASE DeployStart(t)
  <2>0. Live(t) /\ At(t, "deploy", "start") /\ UNCHANGED <<ports, excused>>
    BY <1>6 DEF DeployStart, At, Live, Ended
  <2>1. PICK provisioned \in {FALSE, tasks[t].data} :
          \/ /\ container' = [container EXCEPT ![a] = NewContainer(t, TRUE)]
             /\ tasks' = [tasks EXCEPT ![t].at = "health", ![t].data = provisioned]
          \/ /\ \E c \in LeftBehind(t) : container' = [container EXCEPT ![a] = c]
             /\ tasks' = [tasks EXCEPT ![t].at = "failed", ![t].data = provisioned]
    BY <1>6 DEF DeployStart, Leave
  <2>2. PICK at \in {"health", "failed"} :
          tasks' = [tasks EXCEPT ![t].at = at, ![t].data = provisioned]
    BY <2>1
  <2>3. tasks' = [tasks EXCEPT ![t] = [@ EXCEPT !.at = at, !.port = tasks[t].port,
                                        !.data = provisioned, !.status = tasks[t].status]]
    BY <1>0, <2>2 DEF Task
  <2>4. Moves(t) /\ tasks'[t].at = at /\ tasks'[t].port = tasks[t].port
    BY <1>0, <2>0, <2>3, MoveMoves DEF Stages, Ended, Task
  <2>5. PICK c \in {NewContainer(t, TRUE)} \cup LeftBehind(t) : container' = [container EXCEPT ![a] = c]
    BY <2>1
  <2>6. c \in {None, container[a], NewContainer(t, TRUE), NewContainer(t, FALSE)}
    BY DEF LeftBehind
  <2>7. NewContainer(t, TRUE) \in Container /\ NewContainer(t, FALSE) \in Container
    <3>1. tasks[t].port \in Ports /\ t \in Nat
      BY <1>0, <2>0 DEF Typed, Ported, Placing, At
    <3> QED  BY <1>0, <3>1 DEF NewContainer, Container, Task
  <2>8. container' \in [Apps -> Container \cup {None}]
    BY <1>0, <2>5, <2>6, <2>7 DEF Typed
  <2>9. ASSUME Kept(a) PROVE Holds(a)' /\ Own(t)'
    <3>1. tasks[t].port = ports[a] /\ ports[a] # None /\ Holds(a)
      BY <1>0, <2>0, <2>9 DEF Kept, Placed, At, Placing
    <3>2. c = None \/ c = container[a] \/ c.port = ports[a]
      BY <2>6, <3>1 DEF NewContainer
    <3>3. Holds(a)'
      BY <1>0, <2>0, <2>5, <3>1, <3>2 DEF Holds, Typed
    <3> QED  BY <2>0, <2>4, <3>1, <3>3 DEF Own, Moves, At
  <2> QED  BY <1>0, <2>0, <2>4, <2>5, <2>8, <2>9 DEF Sound, Typed, Moves, Ported, At, Placing
<1> QED  BY <1>1, <1>2, <1>3, <1>4, <1>5, <1>6

\* Steps that leave ports and containers alone, or only remove or restart a container.
LEMMA OtherSound ==
  ASSUME Typed, Assigns', NEW t \in DOMAIN tasks,
         \/ SyncLookup(t) \/ SyncRestart(t) \/ SyncHealth(t)
         \/ UndeployRemove(t) \/ UndeployRelease(t) \/ UndeployRecord(t)
         \/ StopContainer(t) \/ StartContainer(t)
         \/ AccessRoute(t) \/ StatusRead(t) \/ RecordOutcome(t)
  PROVE  Sound(t)
<1>0. tasks[t] \in Task /\ tasks \in Seq(Task) /\ tasks[t].app \in Apps
  <2>1. tasks[t] \in Task /\ tasks \in Seq(Task)
    BY DEF Typed
  <2> QED  BY <2>1 DEF Task
<1> SUFFICES ASSUME NEW a \in Apps, a = tasks[t].app PROVE Sound(t)
  BY <1>0
\* Steps that keep ports and containers and do not enter an undeployment's "release".
<1>1. ASSUME Moves(t), UNCHANGED <<ports, container, excused>>,
             tasks[t].op # "deploy", tasks'[t].at # "release"
      PROVE  Sound(t)
  BY <1>0, <1>1 DEF Sound, Typed, Moves, Own, Ported, Kept, Holds
\* Steps that bring the container up or down.
<1>2. ASSUME Moves(t), UNCHANGED <<ports, excused>>, NEW up \in BOOLEAN,
             container[a] # None, container' = [container EXCEPT ![a].up = up],
             tasks[t].op # "deploy", tasks'[t].at # "release"
      PROVE  Sound(t)
  <2>1. container[a] \in Container
    BY <1>2 DEF Typed
  <2>2. /\ container' \in [Apps -> Container \cup {None}]
        /\ container'[a].port = container[a].port
    BY <1>2, <2>1 DEF Container, Typed
  <2> QED  BY <1>0, <1>2, <2>2 DEF Sound, Typed, Moves, Own, Ported, Kept, Holds
<1>3. CASE SyncLookup(t) \/ SyncHealth(t) \/ StatusRead(t) \/ UndeployRecord(t) \/ RecordOutcome(t)
  <2>1. PICK at \in Stages \ {"release"} : Move(t, at)
    BY <1>3 DEF SyncLookup, SyncHealth, StatusRead, UndeployRecord, RecordOutcome, Conclude, Stages, Ended
  <2>2. Live(t) /\ tasks[t].op # "deploy" /\ UNCHANGED <<ports, container, excused>>
    BY <1>3 DEF SyncLookup, SyncHealth, StatusRead, UndeployRecord, RecordOutcome,
                At, Live, Ended, infra
  <2> QED  BY <1>0, <1>1, <2>1, <2>2, PlainMove
<1>4. CASE AccessRoute(t)
  <2>1. /\ Live(t) /\ tasks[t].op # "deploy" /\ UNCHANGED <<ports, container, excused>>
    BY <1>4 DEF AccessRoute, At, Live, Ended
  <2>2. Moves(t) /\ tasks'[t].at \in {"record", "failed"}
    <3>1. CASE Move(t, "failed")
      BY <1>0, <2>1, <3>1, PlainMove DEF Stages, Ended
    <3>2. CASE tasks' = [tasks EXCEPT ![t].at = "record", ![t].status = record[a].status]
      <4>1. record[a].status \in Statuses
        BY DEF Typed, Books, Record
      <4>2. tasks' = [tasks EXCEPT ![t] = [@ EXCEPT !.at = "record", !.port = tasks[t].port,
                                            !.data = tasks[t].data, !.status = record[a].status]]
        BY <1>0, <3>2 DEF Task
      <4>3. tasks[t].port \in Ports \cup {None} /\ tasks[t].data \in BOOLEAN
        BY <1>0 DEF Task
      <4>4. "record" \in Stages
        BY DEF Stages
      <4> QED  BY <1>0, <2>1, <4>1, <4>2, <4>3, <4>4, MoveMoves
    <3> QED  BY <1>4, <3>1, <3>2 DEF AccessRoute
  <2> QED  BY <1>1, <2>1, <2>2
<1>5. CASE SyncRestart(t) \/ StopContainer(t) \/ StartContainer(t)
  <2>1. PICK at \in Stages \ {"release"} : Move(t, at)
    BY <1>5 DEF SyncRestart, StopContainer, StartContainer, Stages, Ended
  <2>2. Live(t) /\ tasks[t].op # "deploy" /\ UNCHANGED <<ports, excused>>
    BY <1>5 DEF SyncRestart, StopContainer, StartContainer, At, Live, Ended
  <2>3. Moves(t) /\ tasks'[t].at # "release"
    BY <1>0, <2>1, <2>2, PlainMove
  <2>4. \/ UNCHANGED container
        \/ container[a] # None /\ \E up \in BOOLEAN : container' = [container EXCEPT ![a].up = up]
    BY <1>5 DEF SyncRestart, StopContainer, StartContainer, BringUp, BringDown
  <2> QED  BY <1>1, <1>2, <2>2, <2>3, <2>4
<1>6. CASE UndeployRemove(t)
  <2>0. Live(t) /\ At(t, "undeploy", "accepted") /\ UNCHANGED ports
    BY <1>6 DEF UndeployRemove, At, Live, Ended
  <2>1. CASE Released(a) /\ Move(t, "release")
    <3>1. Moves(t) /\ tasks'[t].at = "release"
      BY <1>0, <2>0, <2>1, PlainMove DEF Stages
    <3> QED  BY <1>0, <2>0, <2>1, <3>1, ReleasedCleared DEF Sound, Typed, Moves, Own, Ported, Holds, At
  <2>2. CASE (\E c \in Remnants(a) : Leave(a, c)) /\ Move(t, "failed") /\ UNCHANGED excused
    <3>1. Moves(t) /\ tasks'[t].at = "failed"
      BY <1>0, <2>0, <2>2, PlainMove DEF Stages, Ended
    <3> QED  BY <1>0, <2>0, <2>2, <3>1, RemovalTyped DEF Sound, Typed, Moves, Own, Ported, Kept, Holds, At
  <2> QED  BY <1>6, <2>1, <2>2 DEF UndeployRemove
<1>7. CASE UndeployRelease(t)
  <2>1. Moves(t) /\ At(t, "undeploy", "release") /\ tasks'[t].at = "record"
    BY <1>0, <1>7, PlainMove DEF UndeployRelease, At, Live, Stages, Ended
  <2> QED  BY <1>0, <1>7, <2>1
           DEF Sound, Typed, Assigns, Moves, Own, Ported, Kept, Holds, Cleared, UndeployRelease, At
<1> QED  BY <1>3, <1>4, <1>5, <1>6, <1>7

-----------------------------------------------------------------------------
(* Records, routes and the histories keep their types. *)

LEMMA UpsertTyped ==
  ASSUME NEW r \in Record, NEW w \in Write
  PROVE  Upsert(r, w) \in Record
BY DEF Upsert, Record, Write

LEMMA StatusOnlyTyped ==
  ASSUME NEW s \in Statuses
  PROVE  StatusOnly(s) \in Write
BY DEF StatusOnly, Write

LEMMA IssueTyped ==
  ASSUME Books, NEW a, NEW w \in Write, Issue(a, w)
  PROVE  writes' \in [Apps -> Seq(Write)]
<1>1. CASE a \in Apps
  <2>1. Append(writes[a], w) \in Seq(Write)
    BY <1>1 DEF Books
  <2> QED  BY <2>1 DEF Issue, Books
<1>2. CASE a \notin Apps
  BY <1>2 DEF Issue, Books
<1> QED  BY <1>1, <1>2

LEMMA RemoveAtTyped ==
  ASSUME NEW s \in Seq(Write), NEW i \in DOMAIN s
  PROVE  RemoveAt(s, i) \in Seq(Write) /\ s[i] \in Write
<1>1. i \in 1..Len(s)
  OBVIOUS
<1>2. SubSeq(s, 1, i-1) \in Seq(Write)
  BY <1>1, SubSeqProperties
<1>3. SubSeq(s, i+1, Len(s)) \in Seq(Write)
  BY <1>1, SubSeqProperties
<1> QED  BY <1>1, <1>2, <1>3, ConcatProperties DEF RemoveAt

LEMMA RouteTyped ==
  ASSUME Books, NEW a, NEW p \in Ports, NEW l \in Allowlists, AddRoute(a, p, l) \/ RouteFails(a)
  PROVE  route' \in [Apps -> Route \cup {None}]
BY DEF Books, AddRoute, RouteFails, Route

LEMMA RouteFailsTyped ==
  ASSUME Books, NEW a, RouteFails(a)
  PROVE  route' \in [Apps -> Route \cup {None}]
BY DEF Books, RouteFails

LEMMA BackgroundBooks ==
  ASSUME Books, NEW a \in Apps, NEW i \in DOMAIN writes[a], LandWrite(a, i) \/ DropWrite(a, i)
  PROVE  Books'
<1>1. RemoveAt(writes[a], i) \in Seq(Write) /\ writes[a][i] \in Write
  BY RemoveAtTyped DEF Books
<1>2. Upsert(record[a], writes[a][i]) \in Record
  BY <1>1, UpsertTyped DEF Books
<1> QED  BY <1>1, <1>2 DEF LandWrite, DropWrite, Books, infra

LEMMA RebootBooks ==
  ASSUME Books, NEW before \in [Apps -> Route \cup {None}], Reboot(before), excused' \subseteq Apps
  PROVE  Books'
<1>1. restarts' \in 0..MaxRestarts
  BY BoundsAssumption DEF Reboot, Books
<1>2. writes' \in [Apps -> Seq(Write)]
  BY DEF Reboot
<1>3. \A a \in Restorable : Restored(a) \in Route
  <2> SUFFICES ASSUME NEW a \in Restorable PROVE Restored(a) \in Route
    OBVIOUS
  <2>1. record[a] \in Record /\ record[a].port # None
    BY DEF Restorable, Books
  <2> QED  BY <2>1 DEF Restored, Record, Route
<1>4. PICK kept \in {before, [a \in Apps |-> None]} :
        \/ route' = [a \in Apps |-> IF a \in Restorable THEN Restored(a) ELSE kept[a]]
        \/ \E f \in Restorable : \E done \in SUBSET (Restorable \ {f}) :
             route' = [a \in Apps |-> IF a = f THEN None
                                      ELSE IF a \in done THEN Restored(a) ELSE kept[a]]
  BY DEF Reboot
<1>5. \A a \in Apps : kept[a] \in Route \cup {None}
  OBVIOUS
<1>6. route' \in [Apps -> Route \cup {None}]
  <2>1. CASE route' = [a \in Apps |-> IF a \in Restorable THEN Restored(a) ELSE kept[a]]
    BY <1>3, <1>5, <2>1
  <2>2. ASSUME NEW f \in Restorable, NEW done \in SUBSET (Restorable \ {f}),
               route' = [a \in Apps |-> IF a = f THEN None
                                        ELSE IF a \in done THEN Restored(a) ELSE kept[a]]
        PROVE  route' \in [Apps -> Route \cup {None}]
    BY <1>3, <1>5, <2>2
  <2> QED  BY <1>4, <2>1, <2>2
<1> QED  BY <1>1, <1>2, <1>6 DEF Reboot, Books

LEMMA TaskBooks ==
  ASSUME Typed, NEW t \in DOMAIN tasks, TaskStep(t)
  PROVE  Books'
<1>0. tasks[t] \in Task /\ Books
  BY DEF Typed
<1>1. tasks[t].app \in Apps /\ tasks[t].allow \in Allowlists /\ tasks[t].data \in BOOLEAN
  BY <1>0 DEF Task
<1> SUFFICES ASSUME NEW a \in Apps, a = tasks[t].app PROVE Books'
  BY <1>1
<1>2. \A s \in Statuses : Issue(a, StatusOnly(s)) => writes' \in [Apps -> Seq(Write)]
  BY <1>0, StatusOnlyTyped, IssueTyped
<1>3. CASE DeployAllocate(t) \/ DeployRemove(t) \/ DeployBuild(t) \/ DeployHealth(t)
  <2>1. writes' \in [Apps -> Seq(Write)]
    BY <1>0, <1>2, <1>3
    DEF DeployAllocate, DeployRemove, DeployBuild, DeployHealth, Statuses, Books
  <2>2. excused' \subseteq Apps
    BY <1>0, <1>3, ReleasedCleared
    DEF DeployAllocate, DeployRemove, DeployBuild, DeployHealth, Books
  <2> QED  BY <1>0, <1>3, <2>1, <2>2
           DEF DeployAllocate, DeployRemove, DeployBuild, DeployHealth, Books, infra
<1>4. CASE DeployStart(t)
  BY <1>0, <1>1, <1>4 DEF DeployStart, Books
<1>5. CASE DeployRoute(t)
  <2>1. tasks[t].port \in Ports
    BY <1>5 DEF Typed, Ported, Placing, DeployRoute, At
  <2>2. [status |-> "running", port |-> tasks[t].port,
         allow |-> IF tasks[t].allow = Open THEN None ELSE tasks[t].allow,
         data |-> tasks[t].data] \in Write
    BY <1>1, <2>1 DEF Write, Statuses
  <2>3. writes' \in [Apps -> Seq(Write)]
    BY <1>0, <1>5, <2>2, IssueTyped DEF DeployRoute, Books
  <2>4. route' \in [Apps -> Route \cup {None}]
    BY <1>0, <1>1, <1>5, <2>1, RouteTyped, RouteFailsTyped DEF DeployRoute
  <2> QED  BY <1>0, <1>5, <2>3, <2>4 DEF DeployRoute, Books
<1>6. CASE SyncLookup(t) \/ SyncRestart(t) \/ SyncHealth(t)
  <2>1. writes' \in [Apps -> Seq(Write)]
    BY <1>0, <1>2, <1>6 DEF SyncLookup, SyncRestart, SyncHealth, Statuses, Books
  <2> QED  BY <1>0, <1>6, <2>1 DEF SyncLookup, SyncRestart, SyncHealth, Books, infra
<1>7. CASE UndeployRecord(t)
  <2>1. Upsert(record[a], StatusOnly("removed")) \in Record
    BY <1>0, StatusOnlyTyped, UpsertTyped DEF Statuses, Books
  <2> QED  BY <1>0, <1>7, <2>1 DEF UndeployRecord, Conclude, Books
<1>8. CASE UndeployRelease(t) \/ StopContainer(t) \/ StartContainer(t) \/ StatusRead(t)
  BY <1>0, <1>8 DEF UndeployRelease, StopContainer, StartContainer, StatusRead,
                    Books, infra
<1>9. CASE AccessRoute(t)
  <2>1. record[a].port # None => record[a].port \in Ports
    BY <1>0 DEF Books, Record
  <2>2. route' \in [Apps -> Route \cup {None}]
    BY <1>0, <1>1, <1>9, <2>1, RouteTyped, RouteFailsTyped DEF AccessRoute, Books
  <2> QED  BY <1>0, <1>9, <2>2 DEF AccessRoute, Books
<1>10. CASE RecordOutcome(t)
  <2>1. Outcome(t) \in Write
    BY <1>0 DEF Outcome, StatusOnly, Write, Task, Statuses, Allowlists
  <2>2. Upsert(record[a], Outcome(t)) \in Record
    BY <1>0, <2>1, UpsertTyped DEF Books
  <2> QED  BY <1>0, <1>10, <2>2 DEF RecordOutcome, Conclude, Books, infra
<1>11. CASE UndeployRemove(t)
  <2>1. excused' \subseteq Apps
    BY <1>0, <1>11, ReleasedCleared DEF UndeployRemove, Books
  <2> QED  BY <1>0, <1>11, <2>1 DEF UndeployRemove, Books
<1> QED  BY <1>3, <1>4, <1>5, <1>6, <1>7, <1>8, <1>9, <1>10, <1>11 DEF TaskStep

-----------------------------------------------------------------------------
\* A request is added: the application has no other one under way, or from now on
\* counts as excused.
LEMMA AcceptKeeps ==
  ASSUME HoldsInv, NEW a \in Apps, NEW r \in Requests, Accept(a, r)
  PROVE  HoldsInv'
<1> DEFINE new == [op |-> r.op, app |-> a, at |-> "accepted", allow |-> r.allow,
                   data |-> r.data, syncable |-> r.syncable, port |-> None, status |-> "absent"]
<1>1. new \in Task
  BY RequestsAssumption DEF Task, Stages, Ended, Statuses
<1>2. tasks \in Seq(Task) /\ tasks' = Append(tasks, new)
  BY DEF HoldsInv, Typed, Accept
<1> HIDE DEF new
<1>3. /\ tasks' \in Seq(Task) /\ Len(tasks') = Len(tasks) + 1
      /\ \A t \in DOMAIN tasks : t \in DOMAIN tasks' /\ tasks'[t] = tasks[t]
      /\ \A t \in DOMAIN tasks' : t \in DOMAIN tasks \/ t = Len(tasks) + 1
      /\ tasks'[Len(tasks) + 1] = new
  BY <1>1, <1>2
<1>4. new.app = a /\ new.at = "accepted"
  BY DEF new
<1>5. UNCHANGED <<ports, container, route, database, record, writes, restarts, garbled>>
  BY DEF Accept, infra
<1>6. excused \subseteq excused' /\ excused' \subseteq excused \cup {a}
  BY DEF Accept, Excuse
<1>7. Typed'
  <2>1. \A t \in DOMAIN tasks' : Ported(t)'
    BY <1>3, <1>4 DEF HoldsInv, Typed, Ported, Placing
  <2>2. Books'
    BY <1>5, <1>6 DEF HoldsInv, Typed, Books
  <2> QED  BY <1>3, <1>5, <2>1, <2>2 DEF HoldsInv, Typed, Assigns
<1>8. ASSUME NEW b \in Apps, b \notin excused' PROVE Kept(b)'
  <2>1. Kept(b)
    BY <1>6, <1>8 DEF HoldsInv
  <2>2. b = a => \A t \in DOMAIN tasks : tasks[t].app = b => ~Live(t)
    BY <1>8 DEF Accept, Busy, Excuse
  <2>3. Alone(b)'
    BY <1>3, <1>4, <2>1, <2>2 DEF Kept, Alone, Live
  <2>4. Holds(b)'
    BY <1>5, <2>1 DEF Kept, Holds
  <2>5. Placed(b)'
    BY <1>3, <1>4, <1>5, <2>1 DEF Kept, Placed, Placing
  <2>6. Cleared(b)'
    BY <1>3, <1>4, <1>5, <2>1 DEF Kept, Cleared
  <2> QED  BY <2>3, <2>4, <2>5, <2>6 DEF Kept
<1> QED  BY <1>7, <1>8 DEF HoldsInv

\* What every restart does to the requests: none is live, each has the type it had.
LEMMA RebootEnds ==
  ASSUME tasks \in Seq(Task), NEW before, Reboot(before)
  PROVE  /\ tasks' \in Seq(Task) /\ DOMAIN tasks' = DOMAIN tasks
         /\ \A t \in DOMAIN tasks : tasks'[t].at \in Ended
<1>1. tasks' = [t \in DOMAIN tasks |-> IF Live(t) THEN [tasks[t] EXCEPT !.at = "lost"] ELSE tasks[t]]
  BY DEF Reboot
<1>2. \A t \in DOMAIN tasks :
        /\ tasks[t] \in Task
        /\ [tasks[t] EXCEPT !.at = "lost"] \in Task
        /\ [tasks[t] EXCEPT !.at = "lost"].at = "lost"
  <2> SUFFICES ASSUME NEW t \in DOMAIN tasks
               PROVE  /\ tasks[t] \in Task
                      /\ [tasks[t] EXCEPT !.at = "lost"] \in Task
                      /\ [tasks[t] EXCEPT !.at = "lost"].at = "lost"
    OBVIOUS
  <2>1. tasks[t] \in Task
    BY <1>1
  <2> QED  BY <2>1 DEF Task, Stages, Ended
<1>3. DOMAIN tasks' = DOMAIN tasks /\ \A t \in DOMAIN tasks : tasks'[t] \in Task /\ tasks'[t].at \in Ended
  BY <1>1, <1>2 DEF Live, Ended
<1>4. tasks' \in Seq(Task)
  <2>1. DOMAIN tasks = 1..Len(tasks) /\ Len(tasks) \in Nat
    BY <1>1
  <2>2. tasks' \in [1..Len(tasks) -> Task]
    BY <1>1, <1>3, <2>1
  <2> QED  BY <2>1, <2>2
<1> QED  BY <1>3, <1>4

\* The invariant survives every restart that leaves the port file whole, and one that
\* loses it, if every application with a container is then excused.
LEMMA RebootKeeps ==
  ASSUME HoldsInv, NEW before \in [Apps -> Route \cup {None}], Reboot(before),
         container' \in [Apps -> Container \cup {None}], Assigns',
         excused' \subseteq Apps, excused \subseteq excused',
         \A a \in Apps \ excused' : Holds(a)'
  PROVE  HoldsInv'
<1>1. tasks \in Seq(Task) /\ Books
  BY DEF HoldsInv, Typed
<1>2. /\ tasks' \in Seq(Task) /\ DOMAIN tasks' = DOMAIN tasks
      /\ \A t \in DOMAIN tasks : tasks'[t].at \in Ended
  BY <1>1, RebootEnds
<1>3. Typed'
  BY <1>1, <1>2, RebootBooks DEF Typed, Ported, Placing, Ended
<1>4. ASSUME NEW a \in Apps, a \notin excused' PROVE Kept(a)'
  BY <1>2, <1>4 DEF Kept, Alone, Placed, Cleared, Live, Placing, Ended
<1> QED  BY <1>3, <1>4 DEF HoldsInv

LEMMA RestartKeeps ==
  ASSUME HoldsInv, Restart
  PROVE  HoldsInv'
<1>1. Typed /\ route \in [Apps -> Route \cup {None}]
  BY DEF HoldsInv, Typed, Books
<1>2. Reboot(route) /\ UNCHANGED <<ports, container, excused>>
  BY DEF Restart
<1>3. container' \in [Apps -> Container \cup {None}] /\ Assigns' /\ excused' \subseteq Apps
  BY <1>1, <1>2 DEF Typed, Books, Assigns
<1>4. \A a \in Apps \ excused' : Holds(a)'
  BY <1>2 DEF HoldsInv, Kept, Holds
<1> QED  BY <1>1, <1>2, <1>3, <1>4, RebootKeeps

\* A crash in a rewrite of the port file: what it does besides losing the ports.
LEMMA CrashReboots ==
  ASSUME Typed, NEW t \in DOMAIN tasks, CrashInPortFile(t)
  PROVE  /\ Live(t)
         /\ container' \in [Apps -> Container \cup {None}]
         /\ \A b \in Apps : b # tasks[t].app => container'[b] = container[b]
         /\ \E before \in [Apps -> Route \cup {None}] :
              /\ Reboot(before)
              /\ \A b \in Apps : b # tasks[t].app => before[b] = route[b]
<1> DEFINE a == tasks[t].app
<1>1. /\ route \in [Apps -> Route \cup {None}]
      /\ container \in [Apps -> Container \cup {None}] /\ a \in Apps
  <2>1. tasks[t] \in Task
    BY DEF Typed
  <2> QED  BY <2>1 DEF Typed, Books, Task
<1>2. Live(t)
  BY DEF CrashInPortFile, DiesRewritingPorts, At, Live, Ended
<1>3. CASE UNCHANGED container /\ Reboot(route)
  BY <1>1, <1>2, <1>3
<1>4. CASE UNCHANGED container /\ Reboot([route EXCEPT ![a] = None])
  <2>1. /\ [route EXCEPT ![a] = None] \in [Apps -> Route \cup {None}]
        /\ \A b \in Apps : b # a => [route EXCEPT ![a] = None][b] = route[b]
    BY <1>1
  <2> QED  BY <1>1, <1>2, <1>4, <2>1
<1>5. ASSUME NEW c \in Remnants(a), Leave(a, c), Reboot(route)
      PROVE  /\ container' \in [Apps -> Container \cup {None}]
             /\ \A b \in Apps : b # a => container'[b] = container[b]
  <2>1. c \in Container \cup {None}
    BY <1>1 DEF Remnants, Container
  <2> QED  BY <1>1, <1>5, <2>1 DEF Leave
<1> QED  BY <1>1, <1>2, <1>3, <1>4, <1>5 DEF CrashInPortFile, DiesRewritingPorts

LEMMA CrashKeeps ==
  ASSUME HoldsInv, NEW t \in DOMAIN tasks, CrashInPortFile(t)
  PROVE  HoldsInv'
<1>1. Typed
  BY DEF HoldsInv
<1>2. PICK before \in [Apps -> Route \cup {None}] : Reboot(before)
  BY <1>1, CrashReboots
<1>3. container' \in [Apps -> Container \cup {None}]
  BY <1>1, CrashReboots
<1>4. /\ Assigns'
      /\ excused' = excused \cup {b \in Apps : container'[b] # None}
  BY DEF CrashInPortFile, Assigns
<1>5. excused' \subseteq Apps /\ excused \subseteq excused'
  BY <1>1, <1>4 DEF Typed, Books
<1>6. \A a \in Apps \ excused' : Holds(a)'
  BY <1>4 DEF Holds
<1> QED  BY <1>2, <1>3, <1>4, <1>5, <1>6, RebootKeeps

LEMMA InvariantStep ==
  ASSUME HoldsInv, PortsDisjoint, [Next]_vars
  PROVE  HoldsInv'
<1>0. Typed /\ Assigns /\ Books
  BY DEF HoldsInv, Typed
<1>1. Assigns'
  BY <1>0, PortStep
<1>2. CASE \E a \in Apps, r \in Requests : Accept(a, r)
  BY <1>2, AcceptKeeps
<1>3. ASSUME NEW t \in DOMAIN tasks, TaskStep(t)
      PROVE  HoldsInv'
  <2>1. Sound(t)
    BY <1>0, <1>1, <1>3, DeploySound, OtherSound DEF TaskStep
  <2> QED  BY <1>0, <1>3, <2>1, TaskBooks, SoundKeeps
<1>4. ASSUME NEW a \in Apps, NEW i \in DOMAIN writes[a], LandWrite(a, i) \/ DropWrite(a, i)
      PROVE  HoldsInv'
  <2>1. Books' /\ UNCHANGED <<ports, container, tasks, excused>>
    BY <1>0, <1>4, BackgroundBooks DEF LandWrite, DropWrite, infra
  <2> QED  BY <2>1 DEF HoldsInv, Typed, Assigns, Ported, Kept, Alone, Holds, Placed, Cleared, Live
<1>5. CASE Restart
  BY <1>5, RestartKeeps
<1>6. CASE \E t \in DOMAIN tasks : CrashInPortFile(t)
  BY <1>6, CrashKeeps
<1>7. CASE UNCHANGED vars
  BY <1>7 DEF vars, infra, HoldsInv, Typed, Assigns, Books, Ported, Kept, Alone, Holds, Placed,
              Cleared, Live
<1> QED  BY <1>2, <1>3, <1>4, <1>5, <1>6, <1>7 DEF Next

LEMMA InvariantHolds == Spec => [](HoldsInv /\ PortsDisjoint)
<1>1. Init => HoldsInv /\ PortsDisjoint
  <2> SUFFICES ASSUME Init PROVE HoldsInv /\ PortsDisjoint
    OBVIOUS
  <2>1. Books
    BY BoundsAssumption DEF Init, Books, Record, NoRecord, Statuses, Allowlists
  <2>2. Typed
    BY <2>1 DEF Init, Typed, Assigns
  <2> QED  BY <2>2 DEF Init, HoldsInv, PortsDisjoint, Kept, Alone, Holds, Placed, Cleared
<1>2. HoldsInv /\ PortsDisjoint /\ [Next]_vars => (HoldsInv /\ PortsDisjoint)'
  BY InvariantStep, PortStep DEF HoldsInv, Typed
<1> QED  BY <1>1, <1>2, PTL DEF Spec

\* Every variable keeps its type; a deployment past its allocation has a port.
THEOREM EngineTypeCorrect == Spec => []TypeOK
<1>1. HoldsInv => TypeOK
  BY DEF HoldsInv, Typed, Assigns, Books, TypeOK
<1> QED  BY <1>1, InvariantHolds, PTL

\* docker.py: as long as the requests for an application do not overlap, its container's
\* port stays assigned to it, whichever steps fail and whenever the engine restarts, unless
\* it dies while it rewrites the port file, with the container there.
THEOREM ContainersHoldPorts == Spec => []ContainerHoldsPort
<1>1. HoldsInv => ContainerHoldsPort
  BY DEF HoldsInv, Kept, Holds, ContainerHoldsPort
<1> QED  BY <1>1, InvariantHolds, PTL

-----------------------------------------------------------------------------
(* What the record says.  A request's writes land later than it issues     *)
(* them, so the invariant is about the record as it will be once they have *)
(* landed (Final).  Only the last of a deployment's writes says more than  *)
(* a status, so that one and the stored record determine it.               *)

Bare(w) == w.port = None /\ w.allow = None /\ w.data = FALSE
AllBare(a) == \A i \in DOMAIN writes[a] : Bare(writes[a][i])
Ordered(a) == \A i \in DOMAIN writes[a] : i < Len(writes[a]) => Bare(writes[a][i])
Final(a) ==
  IF writes[a] = <<>> THEN record[a] ELSE Upsert(record[a], writes[a][Len(writes[a])])

\* A live request is the latest of its application.
Newest(a) == \A t, u \in DOMAIN tasks :
  tasks[t].app = a /\ tasks[u].app = a /\ Live(t) => u <= t

\* What a live request knows of its application at each of its steps.
IsUp(a) == container[a] # None /\ container[a].up
IsGone(a) == container[a] = None /\ ports[a] = None /\ route[a] = None
Silent == {"stop", "start", "access", "status", "undeploy"}
StageOK(t) ==
  LET a == tasks[t].app IN
  /\ AllBare(a)
  /\ tasks[t].op \in Silent \/ tasks[t].at = "accepted" => writes[a] = <<>>
  /\ tasks[t].op \in {"deploy", "sync"} /\ tasks[t].at # "accepted" =>
       Final(a).status \notin {"running", "removed"}
  /\ tasks[t].op = "deploy" /\ tasks[t].at \in {"health", "route"} => IsUp(a)
  /\ tasks[t].op = "sync" /\ tasks[t].at = "health" => IsUp(a)
  /\ tasks[t].op = "status" /\ tasks[t].at = "record" => IsUp(a)
  /\ tasks[t].op = "access" /\ tasks[t].at = "record" => tasks[t].status = record[a].status
  /\ tasks[t].op = "undeploy" /\ tasks[t].at = "record" => IsGone(a)
Staged(a) == \A t \in DOMAIN tasks : tasks[t].app = a /\ Live(t) => StageOK(t)

Leaves(t) == \/ tasks[t].op = "undeploy" /\ tasks[t].at \in {"release", "record"}
             \/ tasks[t].op = "stop" /\ tasks[t].at = "record"
Leaving(a) == \E t \in DOMAIN tasks : tasks[t].app = a /\ Leaves(t)
Deploys(t) == tasks[t].op = "deploy" /\ tasks[t].at \in Placing
Deploying(a) == \E t \in DOMAIN tasks : tasks[t].app = a /\ Deploys(t)
Fails(t, ops) == tasks[t].op \in ops /\ tasks[t].at = "failed"
Failed(a, ops) == \E t \in DOMAIN tasks : tasks[t].app = a /\ Fails(t, ops)
Stops == {"stop", "undeploy"}

\* The four properties, of the record as it will be and at any moment.
Runs(a) ==
  Final(a).status = "running" /\ ~Leaving(a) /\ ~Asked(a, "start") /\ ~Failed(a, Stops)
  => IsUp(a)
Gone(a) ==
  Final(a).status = "removed" =>
    container[a] = None /\ ports[a] = None /\ (route[a] = None \/ Asked(a, "access"))
AtHome(a) ==
  /\ Final(a).port = container[a].port
  /\ route[a] # None => route[a].port = container[a].port
Homed(a) == container[a] # None /\ ~Deploying(a) /\ ~Failed(a, Operations) => AtHome(a)
Setters(a) == {t \in DOMAIN tasks : tasks[t].app = a /\ ListSetBy(t)}
Latest(a) == Setters(a) = {} \/ \E t \in Setters(a) : \A u \in Setters(a) : t >= u
Listed(a) == Latest(a) /\ Final(a).allow = LastList(a)

Told(a) == Newest(a) /\ Ordered(a) /\ Staged(a) /\ Runs(a) /\ Gone(a) /\ Homed(a) /\ Listed(a)
RecordInv == \A a \in Apps \ (excused \cup garbled) : Told(a)

\* Issuing a write on top of bare ones changes what the record will be as the write says.
LEMMA IssueFinal ==
  ASSUME Books, NEW a \in Apps, NEW w \in Write, Issue(a, w), AllBare(a), UNCHANGED record
  PROVE  /\ Final(a)'.status = w.status
         /\ Final(a)'.port = IF w.port = None THEN Final(a).port ELSE w.port
         /\ Final(a)'.allow = IF w.allow = None THEN Final(a).allow ELSE w.allow
         /\ Ordered(a)' /\ (Bare(w) => AllBare(a)') /\ writes'[a] # <<>>
<1> DEFINE s == writes[a]
<1>1. s \in Seq(Write) /\ writes'[a] = Append(s, w) /\ record'[a] = record[a]
  BY DEF Books, Issue
<1>2. /\ Len(Append(s, w)) = Len(s) + 1 /\ Append(s, w) # <<>> /\ Len(s) \in Nat
      /\ DOMAIN Append(s, w) = 1..(Len(s) + 1) /\ DOMAIN s = 1..Len(s)
      /\ Append(s, w)[Len(s) + 1] = w
      /\ \A i \in 1..Len(s) : Append(s, w)[i] = s[i]
  BY <1>1
<1>3. \A i \in DOMAIN s : Bare(s[i])
  BY DEF AllBare
<1> HIDE DEF s
<1>4. writes'[a] # <<>> /\ writes'[a][Len(writes'[a])] = w
  BY <1>1, <1>2
<1>5. Final(a)' = Upsert(record[a], w)
  BY <1>1, <1>4 DEF Final
<1>6. /\ Final(a).port = record[a].port /\ Final(a).allow = record[a].allow
  <2>1. CASE s = <<>>
    BY <2>1 DEF Final, s
  <2>2. CASE s # <<>>
    <3>1. Len(s) \in DOMAIN s
      BY <1>1, <1>2, <2>2
    <3>2. Bare(s[Len(s)])
      BY <1>3, <3>1
    <3> QED  BY <2>2, <3>2 DEF Final, Upsert, Bare, s
  <2> QED  BY <2>1, <2>2
<1>7. Ordered(a)'
  <2> SUFFICES ASSUME NEW i \in DOMAIN writes'[a], i < Len(writes'[a]) PROVE Bare(writes'[a][i])
    BY DEF Ordered
  <2>1. i \in DOMAIN s
    BY <1>1, <1>2
  <2> QED  BY <1>1, <1>2, <1>3, <2>1
<1>8. Bare(w) => AllBare(a)'
  BY <1>1, <1>2, <1>3 DEF AllBare
<1> QED  BY <1>4, <1>5, <1>6, <1>7, <1>8 DEF Upsert

LEMMA WithoutFirst ==
  ASSUME NEW s \in Seq(Write), s # <<>>
  PROVE  /\ RemoveAt(s, 1) \in Seq(Write) /\ Len(RemoveAt(s, 1)) = Len(s) - 1
         /\ \A i \in 1..(Len(s) - 1) : RemoveAt(s, 1)[i] = s[i + 1]
<1>1. RemoveAt(s, 1) = SubSeq(s, 1, 0) \o SubSeq(s, 2, Len(s))
  BY DEF RemoveAt
<1>2. SubSeq(s, 1, 0) = <<>> /\ Len(s) \in Nat /\ Len(s) >= 1
  BY SubSeqProperties, EmptySeq
<1>3. /\ SubSeq(s, 2, Len(s)) \in Seq(Write) /\ Len(SubSeq(s, 2, Len(s))) = Len(s) - 1
      /\ \A i \in 1..(Len(s) - 1) : SubSeq(s, 2, Len(s))[i] = s[i + 1]
  <2>1. /\ SubSeq(s, 2, Len(s)) \in Seq(Write)
        /\ Len(SubSeq(s, 2, Len(s))) = IF 2 <= Len(s) THEN Len(s) - 2 + 1 ELSE 0
        /\ \A i \in 1..(Len(s) - 2 + 1) : SubSeq(s, 2, Len(s))[i] = s[2 + i - 1]
    <3>1. \A i \in 2..Len(s) : s[i] \in Write
      BY <1>2
    <3>2. 2 \in Int /\ Len(s) \in Int
      BY <1>2
    <3>3. ASSUME NEW n \in Int, \A i \in 2..n : s[i] \in Write
          PROVE  /\ SubSeq(s, 2, n) \in Seq(Write)
                 /\ Len(SubSeq(s, 2, n)) = IF 2 <= n THEN n - 2 + 1 ELSE 0
                 /\ \A i \in 1..(n - 2 + 1) : SubSeq(s, 2, n)[i] = s[2 + i - 1]
      <4> QED  BY ONLY <3>2, <3>3, SubSeqProperties
    <3> QED  BY ONLY <3>1, <3>2, <3>3, Zenon
  <2>2. Len(s) - 2 + 1 = Len(s) - 1 /\ \A i \in 1..(Len(s) - 1) : 2 + i - 1 = i + 1
    BY <1>2
  <2> QED  BY <1>2, <2>1, <2>2
<1>4. <<>> \o SubSeq(s, 2, Len(s)) = SubSeq(s, 2, Len(s))
  BY <1>3
<1> QED  BY <1>1, <1>2, <1>3, <1>4

\* The oldest write lands: the record comes closer to what it will be.
LEMMA LandKeepsFinal ==
  ASSUME Books, NEW a \in Apps, LandWrite(a, 1), Ordered(a)
  PROVE  Final(a)' = Final(a) /\ Ordered(a)' /\ (AllBare(a) => AllBare(a)')
<1> DEFINE s == writes[a]  r == record[a]
<1>1. /\ s \in Seq(Write) /\ s # <<>> /\ 1 \in DOMAIN s /\ r \in Record
      /\ writes'[a] = RemoveAt(s, 1) /\ record'[a] = Upsert(r, s[1])
  BY DEF LandWrite, Books
<1>2. /\ RemoveAt(s, 1) \in Seq(Write) /\ Len(RemoveAt(s, 1)) = Len(s) - 1
      /\ \A i \in 1..(Len(s) - 1) : RemoveAt(s, 1)[i] = s[i + 1]
  BY <1>1, WithoutFirst
<1>3. \A i \in DOMAIN s : i < Len(s) => Bare(s[i])
  BY DEF Ordered
<1>4. Len(s) \in Nat /\ Len(s) >= 1 /\ DOMAIN s = 1..Len(s)
  BY <1>1
<1>5. Final(a) = Upsert(r, s[Len(s)])
  BY <1>1 DEF Final
<1> DEFINE q == RemoveAt(s, 1)
<1>6. q \in Seq(Write) /\ DOMAIN q = 1..(Len(s) - 1)
  BY <1>2, <1>4
<1>7. Final(a)' = IF q = <<>> THEN record'[a] ELSE Upsert(record'[a], q[Len(q)])
  BY <1>1 DEF Final
<1> HIDE DEF s, r, q
<1>8. CASE Len(s) = 1
  <2>1. q = <<>>
    BY <1>2, <1>6, <1>8, EmptySeq DEF q
  <2> QED  BY <1>1, <1>5, <1>6, <1>7, <1>8, <2>1 DEF Ordered, AllBare, s, q
<1>9. CASE Len(s) > 1
  <2>1. q # <<>> /\ Len(q) = Len(s) - 1 /\ q[Len(q)] = s[Len(s)]
    BY <1>2, <1>4, <1>9 DEF q
  <2>2. Bare(s[1]) /\ s[1] \in Write
    BY <1>1, <1>3, <1>4, <1>9
  <2>3. s[Len(s)] \in Write
    BY <1>1, <1>4
  <2>4. Upsert(Upsert(r, s[1]), s[Len(s)]) = Upsert(r, s[Len(s)])
    BY <1>1, <2>2, <2>3 DEF Upsert, Bare, Record, Write
  <2>5. \A i \in DOMAIN q : i + 1 \in DOMAIN s /\ q[i] = s[i + 1] /\ (i < Len(q) => i + 1 < Len(s))
    BY <1>2, <1>4, <1>6, <2>1 DEF q
  <2>6. writes'[a] = q
    BY <1>1 DEF q
  <2> QED  BY <1>1, <1>3, <1>5, <1>7, <2>1, <2>4, <2>5, <2>6 DEF Ordered, AllBare, s
<1> QED  BY <1>4, <1>8, <1>9

\* What the invariant says of an application with a live request.
LEMMA BeforeStep ==
  ASSUME tasks \in Seq(Task), NEW t \in DOMAIN tasks, NEW a, tasks[t].app = a, Live(t), Told(a)
  PROVE  /\ Ordered(a) /\ StageOK(t) /\ Gone(a)
         /\ Final(a).status = "running" /\ ~Leaves(t) /\ ~Asked(a, "start") /\ ~Failed(a, Stops)
              => IsUp(a)
         /\ container[a] # None /\ ~Deploys(t) /\ ~Failed(a, Operations) => AtHome(a)
<1>1. \A u \in DOMAIN tasks : tasks[u].app = a /\ Live(u) => u = t
  <2>1. DOMAIN tasks \subseteq Nat
    OBVIOUS
  <2> QED  BY <2>1 DEF Told, Newest
<1>2. \A u \in DOMAIN tasks : (Leaves(u) => Live(u)) /\ (Deploys(u) => Live(u))
  BY DEF Leaves, Deploys, Placing, Live, Ended
<1>3. (Leaving(a) => Leaves(t)) /\ (Deploying(a) => Deploys(t))
  BY <1>1, <1>2 DEF Leaving, Deploying
<1> QED  BY <1>3 DEF Told, Staged, Runs, Homed

\* The list that was set last, after a step of the latest request.
LEMMA ListedAfterStep ==
  ASSUME tasks \in Seq(Task), NEW t \in DOMAIN tasks, NEW a, tasks[t].app = a, Moves(t), Newest(a),
         Latest(a)
  PROVE  Latest(a)' /\ LastList(a)' = IF ListSetBy(t)' THEN tasks'[t].allow ELSE LastList(a)
<1> DEFINE old == Setters(a)
           new == Setters(a)'
<1>1. DOMAIN tasks' = DOMAIN tasks /\ DOMAIN tasks \subseteq Nat
  BY DEF Moves
<1>2. ~ListSetBy(t)
  BY DEF Moves, ListSetBy, Live, Ended
<1>3. \A u \in DOMAIN tasks : u # t => tasks'[u] = tasks[u] /\ (ListSetBy(u)' <=> ListSetBy(u))
  BY DEF Moves, ListSetBy
<1>4. t \in new <=> ListSetBy(t)'
  BY <1>1 DEF Moves, Setters
<1>5. \A u : u # t => (u \in new <=> u \in old)
  BY <1>1, <1>3 DEF Setters
<1>6. t \notin old
  BY <1>2 DEF Setters
<1>7. LastList(a) = IF old = {} THEN Open ELSE tasks[Max(old)].allow
  BY DEF LastList, Setters
<1>8. LastList(a)' = IF new = {} THEN Open ELSE tasks'[Max(new)].allow
  BY DEF LastList, Setters
<1>9. old \subseteq Nat /\ new \subseteq Nat /\ \A u \in old : u <= t
  BY <1>1 DEF Newest, Moves, Setters
<1>10. \A u \in old : tasks'[u] = tasks[u]
  BY <1>3, <1>6 DEF Setters
<1>11. /\ Latest(a) <=> old = {} \/ \E x \in old : \A u \in old : x >= u
       /\ Latest(a)' <=> new = {} \/ \E x \in new : \A u \in new : x >= u
  BY DEF Latest
<1>12. (\A u : u \in new <=> u \in old) => new = old
  BY Zenon DEF Setters
<1> HIDE DEF old, new
<1>13. CASE ListSetBy(t)'
  <2>1. \A u \in new : t >= u
    BY <1>1, <1>5, <1>9
  <2>2. t \in new /\ t \in Nat
    BY <1>1, <1>4, <1>13
  <2>3. \A x \in new : (\A u \in new : x >= u) => x = t
    BY <1>9, <2>1, <2>2
  <2>4. Max(new) = t
    BY <2>1, <2>2, <2>3 DEF Max
  <2> QED  BY <1>8, <1>13, <1>11, <2>1, <2>2, <2>4
<1>14. CASE ~ListSetBy(t)'
  <2>1. new = old
    BY <1>4, <1>5, <1>6, <1>14, <1>12
  <2>2. CASE old = {}
    BY <1>7, <1>8, <1>14, <1>11, <2>1, <2>2
  <2>3. CASE old # {}
    <3>1. Max(old) \in old
      BY <1>11, <2>3 DEF Max
    <3> QED  BY <1>7, <1>8, <1>10, <1>14, <1>11, <2>1, <2>3, <3>1
  <2> QED  BY <2>2, <2>3
<1> QED  BY <1>13, <1>14

\* What a step of an application's latest request has to establish.
LEMMA AfterStep ==
  ASSUME tasks \in Seq(Task), NEW t \in DOMAIN tasks, NEW a, tasks[t].app = a, Moves(t), Told(a),
         Ordered(a)', Live(t)' => StageOK(t)',
         Final(a)'.status = "running" /\ ~Leaves(t)' /\ ~Asked(a, "start") /\ ~Failed(a, Stops)
           /\ ~Fails(t, Stops)' => IsUp(a)',
         Final(a)'.status = "removed" =>
           container'[a] = None /\ ports'[a] = None /\ (route'[a] = None \/ Asked(a, "access")),
         container'[a] # None /\ ~Deploys(t)' /\ ~Failed(a, Operations) /\ ~Fails(t, Operations)'
           => AtHome(a)',
         Final(a)'.allow = IF ListSetBy(t)' THEN tasks'[t].allow ELSE Final(a).allow
  PROVE  Told(a)'
<1>1. /\ DOMAIN tasks' = DOMAIN tasks /\ DOMAIN tasks \subseteq Nat
      /\ \A u \in DOMAIN tasks : u # t => tasks'[u] = tasks[u]
      /\ \A u \in DOMAIN tasks : tasks'[u].app = tasks[u].app /\ tasks'[u].op = tasks[u].op
      /\ Live(t)
  BY DEF Moves
<1>2. \A u \in DOMAIN tasks : tasks[u].app = a /\ Live(u) => u = t
  BY <1>1 DEF Told, Newest
<1>3. \A u \in DOMAIN tasks : tasks[u].app = a => u <= t
  BY <1>1 DEF Told, Newest
<1>4. \A u \in DOMAIN tasks : tasks'[u].app = a /\ Live(u)' => u = t
  BY <1>1, <1>2 DEF Live
<1>5. Newest(a)'
  BY <1>1, <1>3, <1>4 DEF Newest
<1>6. Staged(a)'
  BY <1>1, <1>4 DEF Staged
<1>7. \A op : Asked(a, op)' <=> Asked(a, op)
  BY <1>1 DEF Asked
<1>8. /\ \A u \in DOMAIN tasks : u # t => (Fails(u, Stops)' <=> Fails(u, Stops))
      /\ \A u \in DOMAIN tasks : u # t => (Fails(u, Operations)' <=> Fails(u, Operations))
      /\ ~Fails(t, Stops) /\ ~Fails(t, Operations)
  BY <1>1 DEF Fails, Live, Ended
<1>9. /\ Failed(a, Stops)' <=> Failed(a, Stops) \/ Fails(t, Stops)'
      /\ Failed(a, Operations)' <=> Failed(a, Operations) \/ Fails(t, Operations)'
  BY <1>1, <1>8 DEF Failed
<1>10. (Leaves(t)' => Leaving(a)') /\ (Deploys(t)' => Deploying(a)')
  BY <1>1 DEF Leaving, Deploying
<1>11. Runs(a)'
  BY <1>7, <1>9, <1>10 DEF Runs
<1>12. Gone(a)'
  BY <1>7 DEF Gone
<1>13. Homed(a)'
  BY <1>9, <1>10 DEF Homed
<1>14. Listed(a)'
  BY ListedAfterStep DEF Told, Listed
<1> QED  BY <1>5, <1>6, <1>11, <1>12, <1>13, <1>14 DEF Told

\* A step that leaves alone what belongs to an application, its requests included.
Apart(a) ==
  /\ \A t \in DOMAIN tasks : tasks[t].app = a => t \in DOMAIN tasks' /\ tasks'[t] = tasks[t]
  /\ \A t \in DOMAIN tasks' : tasks'[t].app = a => t \in DOMAIN tasks /\ tasks'[t] = tasks[t]

LEMMA ApartRequests ==
  ASSUME NEW a, Apart(a)
  PROVE  /\ Newest(a) => Newest(a)'
         /\ \A op : Asked(a, op)' <=> Asked(a, op)
         /\ \A ops : Failed(a, ops)' <=> Failed(a, ops)
         /\ (Leaving(a)' <=> Leaving(a)) /\ (Deploying(a)' <=> Deploying(a))
         /\ Latest(a) => Latest(a)' /\ LastList(a)' = LastList(a)
<1>1. Newest(a) => Newest(a)'
  BY DEF Apart, Newest, Live
<1>2. \A op : Asked(a, op)' <=> Asked(a, op)
  BY DEF Apart, Asked
<1>3. \A ops : Failed(a, ops)' <=> Failed(a, ops)
  BY DEF Apart, Failed, Fails
<1>4. (Leaving(a)' <=> Leaving(a)) /\ (Deploying(a)' <=> Deploying(a))
  BY DEF Apart, Leaving, Leaves, Deploying, Deploys
<1>5. Setters(a)' = Setters(a)
  <2>1. \A t : t \in Setters(a)' <=> t \in Setters(a)
    BY DEF Apart, Setters, ListSetBy
  <2> QED  BY <2>1, Zenon DEF Setters
<1>6. Latest(a) => Latest(a)'
  BY <1>5 DEF Latest
<1>7. \A t \in Setters(a) : tasks'[t] = tasks[t]
  BY DEF Apart, Setters
<1>8. /\ LastList(a) = IF Setters(a) = {} THEN Open ELSE tasks[Max(Setters(a))].allow
      /\ LastList(a)' = IF Setters(a)' = {} THEN Open ELSE tasks'[Max(Setters(a)')].allow
  BY DEF LastList, Setters
<1>9. Latest(a) /\ Setters(a) # {} => Max(Setters(a)) \in Setters(a)
  BY DEF Latest, Max
<1> QED  BY <1>1, <1>2, <1>3, <1>4, <1>5, <1>6, <1>7, <1>8, <1>9

LEMMA ApartTold ==
  ASSUME NEW a, Told(a), Apart(a),
         container'[a] = container[a], ports'[a] = ports[a], route'[a] = route[a],
         Final(a)' = Final(a), Ordered(a)', AllBare(a) => AllBare(a)',
         writes[a] = <<>> => writes'[a] = <<>> /\ record'[a] = record[a]
  PROVE  Told(a)'
<1>1. Staged(a)'
  <2> SUFFICES ASSUME NEW t \in DOMAIN tasks', tasks'[t].app = a, Live(t)' PROVE StageOK(t)'
    BY DEF Staged
  <2>1. t \in DOMAIN tasks /\ tasks'[t] = tasks[t] /\ StageOK(t)
    BY DEF Apart, Told, Staged, Live
  <2>2. IsUp(a)' <=> IsUp(a)
    BY DEF IsUp
  <2>3. IsGone(a)' <=> IsGone(a)
    BY DEF IsGone
  <2> QED  BY <2>1, <2>2, <2>3 DEF StageOK, Silent
<1>2. Runs(a)' /\ Gone(a)' /\ Homed(a)' /\ Listed(a)' /\ Newest(a)'
  <2>1. Runs(a)'
    BY ApartRequests DEF Told, Runs, IsUp
  <2>2. Gone(a)'
    BY ApartRequests DEF Told, Gone
  <2>3. Homed(a)'
    BY ApartRequests DEF Told, Homed, AtHome
  <2> QED  BY <2>1, <2>2, <2>3, ApartRequests DEF Told, Listed
<1> QED  BY <1>1, <1>2 DEF Told

LEMMA SameFinal ==
  ASSUME NEW a, record'[a] = record[a], writes'[a] = writes[a]
  PROVE  Final(a)' = Final(a) /\ (Ordered(a) => Ordered(a)') /\ (AllBare(a) => AllBare(a)')
BY DEF Final, Ordered, AllBare

LEMMA StatusOnlyBare ==
  ASSUME NEW s
  PROVE  Bare(StatusOnly(s)) /\ StatusOnly(s).status = s
BY DEF Bare, StatusOnly

\* A status is issued, and nothing else said.
LEMMA IssueStatus ==
  ASSUME Books, NEW a \in Apps, NEW s \in Statuses, Issue(a, StatusOnly(s)), AllBare(a),
         UNCHANGED record
  PROVE  /\ Final(a)'.status = s /\ Final(a)'.port = Final(a).port
         /\ Final(a)'.allow = Final(a).allow
         /\ AllBare(a)' /\ Ordered(a)' /\ writes'[a] # <<>>
<1>1. StatusOnly(s).port = None /\ StatusOnly(s).allow = None
  BY DEF StatusOnly
<1> QED  BY <1>1, StatusOnlyTyped, StatusOnlyBare, IssueFinal

\* A deployment on its way, or one that fails on it.
LEMMA DeployUnderway ==
  ASSUME tasks \in Seq(Task), NEW t \in DOMAIN tasks, NEW a, tasks[t].app = a, Moves(t), Told(a),
         tasks[t].op = "deploy", tasks'[t].at \in Placing \cup {"failed"}, AllBare(a)',
         Final(a)'.status \notin {"running", "removed"}, Final(a)'.allow = Final(a).allow,
         tasks'[t].at \in {"health", "route"} => IsUp(a)'
  PROVE  Told(a)'
<1>1. tasks'[t].op = "deploy" /\ tasks'[t].app = a
  BY DEF Moves
<1>2. Ordered(a)'
  BY DEF AllBare, Ordered
<1>3. Live(t)' => StageOK(t)'
  BY <1>1 DEF StageOK, Silent, Placing, Live, Ended
<1>4. ~ListSetBy(t)'
  BY DEF ListSetBy, Placing
<1>5. Deploys(t)' \/ Fails(t, Operations)'
  BY <1>1 DEF Deploys, Fails, Operations
<1> QED  BY <1>2, <1>3, <1>4, <1>5, AfterStep

LEMMA DeployTold ==
  ASSUME Typed, NEW t \in DOMAIN tasks, NEW a \in Apps, tasks[t].app = a, Sound(t),
         Kept(a), Told(a),
         \/ DeployAllocate(t) \/ DeployRemove(t) \/ DeployBuild(t)
         \/ DeployStart(t) \/ DeployHealth(t) \/ DeployRoute(t)
  PROVE  Told(a)'
<1>0. /\ tasks[t] \in Task /\ tasks \in Seq(Task) /\ Books /\ Moves(t) /\ Live(t)
      /\ container[a] \in Container \cup {None}
  BY DEF Typed, Sound, Moves
<1>1. /\ Ordered(a) /\ StageOK(t) /\ AllBare(a)
      /\ tasks[t].op = "deploy" /\ tasks[t].at # "accepted" => Final(a).status \notin {"running", "removed"}
      /\ tasks[t].op = "deploy" /\ tasks[t].at \in {"health", "route"} => IsUp(a)
  <2>1. Ordered(a) /\ StageOK(t)
    BY <1>0, BeforeStep
  <2> QED  BY <2>1 DEF StageOK
<1>2. \A at \in Stages : Move(t, at) => tasks'[t].at = at
  BY <1>0, PlainMove
<1>3. \A s \in Statuses : Issue(a, StatusOnly(s)) /\ UNCHANGED record =>
        Final(a)'.status = s /\ Final(a)'.allow = Final(a).allow /\ AllBare(a)'
  BY <1>0, <1>1, IssueStatus
<1>4. UNCHANGED <<record, writes>> =>
        Final(a)'.status = Final(a).status /\ Final(a)'.allow = Final(a).allow /\ AllBare(a)'
  BY <1>1, SameFinal
<1>5. CASE DeployAllocate(t)
  <2>1. tasks[t].op = "deploy" /\ tasks'[t].at \in {"remove", "failed"}
    BY <1>0, <1>2, <1>5 DEF DeployAllocate, At, Stages, Ended, Task
  <2>2. Final(a)'.status = "pending" /\ Final(a)'.allow = Final(a).allow /\ AllBare(a)'
    BY <1>3, <1>5 DEF DeployAllocate, Statuses
  <2> QED  BY <1>0, <2>1, <2>2, DeployUnderway DEF Placing
<1>6. CASE DeployRemove(t)
  <2>1. /\ tasks[t].op = "deploy" /\ tasks[t].at = "remove" /\ tasks'[t].at \in {"build", "failed"}
    BY <1>2, <1>6 DEF DeployRemove, At, Stages, Ended
  <2>2. /\ Final(a)'.status \in {"building", Final(a).status}
        /\ Final(a)'.allow = Final(a).allow /\ AllBare(a)'
    BY <1>3, <1>4, <1>6 DEF DeployRemove, Statuses
  <2> QED  BY <1>0, <1>1, <2>1, <2>2, DeployUnderway DEF Placing
<1>7. CASE DeployBuild(t)
  <2>1. /\ tasks[t].op = "deploy" /\ tasks[t].at = "build" /\ tasks'[t].at \in {"start", "failed"}
    BY <1>2, <1>7 DEF DeployBuild, At, Stages, Ended
  <2>2. /\ Final(a)'.status \in {"starting", Final(a).status}
        /\ Final(a)'.allow = Final(a).allow /\ AllBare(a)'
    BY <1>3, <1>4, <1>7 DEF DeployBuild, Statuses
  <2> QED  BY <1>0, <1>1, <2>1, <2>2, DeployUnderway DEF Placing
<1>8. CASE DeployStart(t)
  <2>1. /\ tasks[t].op = "deploy" /\ tasks[t].at = "start" /\ tasks'[t].at \in {"health", "failed"}
        /\ tasks'[t].at = "health" => Leave(a, NewContainer(t, TRUE))
    <3>1. PICK provisioned \in {FALSE, tasks[t].data} :
            \/ /\ Leave(a, NewContainer(t, TRUE))
               /\ tasks' = [tasks EXCEPT ![t].at = "health", ![t].data = provisioned]
            \/ tasks' = [tasks EXCEPT ![t].at = "failed", ![t].data = provisioned]
      BY <1>8 DEF DeployStart
    <3>2. \/ Leave(a, NewContainer(t, TRUE)) /\ tasks'[t].at = "health"
          \/ tasks'[t].at = "failed"
      BY <1>0, <3>1 DEF Task
    <3> QED  BY <1>8, <3>2 DEF DeployStart, At
  <2>2. /\ Final(a)'.status = Final(a).status /\ Final(a)'.allow = Final(a).allow /\ AllBare(a)'
    BY <1>4, <1>8 DEF DeployStart
  <2>3. tasks'[t].at = "health" => IsUp(a)'
    <3> SUFFICES ASSUME tasks'[t].at = "health" PROVE IsUp(a)'
      OBVIOUS
    <3>1. container'[a] = NewContainer(t, TRUE)
      BY <2>1 DEF Leave, Typed
    <3>2. tasks[t].port \in Ports /\ t \in Nat
      BY <1>0, <2>1 DEF Typed, Ported, Placing
    <3>3. NewContainer(t, TRUE) \in Container /\ NewContainer(t, TRUE).up
      BY <1>0, <3>2 DEF NewContainer, Container, Task
    <3> QED  BY <3>1, <3>3, AbsenceAssumption DEF IsUp
  <2> QED  BY <1>0, <1>1, <2>1, <2>2, <2>3, DeployUnderway DEF Placing
<1>9. CASE DeployHealth(t)
  <2>1. /\ tasks[t].op = "deploy" /\ tasks[t].at = "health" /\ tasks'[t].at \in {"route", "failed"}
        /\ tasks'[t].at = "route" => UNCHANGED container
    BY <1>2, <1>9 DEF DeployHealth, At, Stages, Ended
  <2>2. /\ Final(a)'.status \in {"failed", Final(a).status}
        /\ Final(a)'.allow = Final(a).allow /\ AllBare(a)'
    BY <1>3, <1>4, <1>9 DEF DeployHealth, Statuses
  <2>3. tasks'[t].at = "route" => IsUp(a)'
    BY <1>1, <2>1 DEF IsUp
  <2> QED  BY <1>0, <1>1, <2>1, <2>2, <2>3, DeployUnderway DEF Placing
<1>10. CASE DeployRoute(t)
  <2>0. tasks[t].op = "deploy" /\ tasks[t].at = "route" /\ UNCHANGED <<ports, container, record>>
    BY <1>10 DEF DeployRoute, At
  <2>1. CASE Move(t, "failed") /\ UNCHANGED writes
    <3>1. tasks'[t].at = "failed"
      BY <1>2, <2>1 DEF Stages, Ended
    <3> QED  BY <1>0, <1>1, <1>4, <2>0, <2>1, <3>1, DeployUnderway DEF Placing
  <2> DEFINE l == tasks[t].allow
             w == [status |-> "running", port |-> tasks[t].port,
                   allow |-> IF l = Open THEN None ELSE l, data |-> tasks[t].data]
  <2>2. CASE AddRoute(a, tasks[t].port, l) /\ Issue(a, w) /\ Move(t, "done")
    <3>1. tasks'[t].at = "done" /\ tasks'[t].allow = l /\ tasks'[t].op = "deploy"
      BY <1>0, <2>0, <2>2 DEF Move, Task
    <3>2. tasks[t].port = ports[a] /\ tasks[t].port # None /\ tasks[t].port \in Ports
      BY <1>0, <2>0, NoneAssumption DEF Kept, Placed, Placing, Typed, Ported
    <3>3. w \in Write /\ w.status = "running" /\ w.port = tasks[t].port
          /\ w.allow = IF l = Open THEN None ELSE l
      BY <1>0, <3>2 DEF Write, Statuses, Task
    <3>4. /\ Final(a)'.status = "running" /\ Final(a)'.port = tasks[t].port
          /\ Final(a)'.allow = IF l = Open THEN Final(a).allow ELSE l
          /\ Ordered(a)'
      <4>1. l \in Allowlists /\ (l # Open => w.allow # None)
        BY <1>0, <3>3, NoneAssumption DEF Task
      <4> HIDE DEF w, l
      <4> QED  BY <1>0, <1>1, <2>0, <2>2, <3>2, <3>3, <4>1, IssueFinal
    <3>5. IsUp(a)'
      BY <1>1, <2>0 DEF IsUp
    <3>6. container[a] # None /\ ports[a] = container[a].port
      BY <1>1, <2>0 DEF IsUp, Kept, Holds
    <3>7. route'[a].port = tasks[t].port
      BY <2>2 DEF AddRoute, Typed, Books
    <3>8. AtHome(a)'
      BY <2>0, <3>2, <3>4, <3>6, <3>7 DEF AtHome
    <3>9. ~Live(t)' /\ (ListSetBy(t)' <=> l # Open)
      BY <3>1 DEF Live, Ended, ListSetBy
    <3> QED  BY <1>0, <3>1, <3>4, <3>5, <3>8, <3>9, AfterStep
  <2> QED  BY <1>10, <2>1, <2>2 DEF DeployRoute
<1> QED  BY <1>5, <1>6, <1>7, <1>8, <1>9, <1>10

\* What keeps the recorded port and the route those of the container.
LEMMA KeepsHome ==
  ASSUME NEW a, AtHome(a), Final(a)'.port = Final(a).port,
         container'[a].port = container[a].port, route'[a] \in {route[a], None}
  PROVE  AtHome(a)'
BY DEF AtHome

\* A request other than a deployment that changes no record yet, and whose step leaves the
\* container's port and at most removes the route.
LEMMA SilentStep ==
  ASSUME tasks \in Seq(Task), NEW t \in DOMAIN tasks, NEW a, tasks[t].app = a, Moves(t), Told(a),
         tasks[t].op # "deploy", ~ListSetBy(t)', Ordered(a)', Live(t)' => StageOK(t)',
         Final(a)'.port = Final(a).port, Final(a)'.allow = Final(a).allow,
         container'[a] # None => container[a] # None /\ container'[a].port = container[a].port,
         ports'[a] = ports[a], route'[a] \in {route[a], None},
         Final(a)'.status = "removed" => Final(a).status = "removed",
         Final(a)'.status = "running" /\ ~Leaves(t)' /\ ~Asked(a, "start") /\ ~Failed(a, Stops)
           /\ ~Fails(t, Stops)' => IsUp(a)'
  PROVE  Told(a)'
<1>1. /\ Gone(a) /\ Live(t)
      /\ container[a] # None /\ ~Deploys(t) /\ ~Failed(a, Operations) => AtHome(a)
  BY BeforeStep DEF Moves
<1>2. ~Deploys(t)
  BY DEF Deploys
<1>3. container'[a] # None /\ ~Failed(a, Operations) => AtHome(a)'
  BY <1>1, <1>2, KeepsHome
<1>4. Final(a)'.status = "removed" =>
        container'[a] = None /\ ports'[a] = None /\ (route'[a] = None \/ Asked(a, "access"))
  BY <1>1 DEF Gone
<1> QED  BY <1>3, <1>4, AfterStep

\* docker start, restart and stop change whether the container is up.
LEMMA BroughtKeepsPort ==
  ASSUME Typed, NEW a \in Apps, BringUp(a) \/ BringDown(a) \/ UNCHANGED container
  PROVE  /\ container'[a] # None => container[a] # None /\ container'[a].port = container[a].port
         /\ BringUp(a) => IsUp(a)'
<1>1. CASE UNCHANGED container
  <2>1. container[a] \in Container \cup {None}
    BY DEF Typed
  <2>2. BringUp(a) => container'[a] = [container[a] EXCEPT !.up = TRUE] /\ container[a] # None
    BY DEF BringUp, Typed
  <2> QED  BY <1>1, <2>1, <2>2 DEF IsUp, Container
<1>2. ASSUME NEW up \in BOOLEAN, container[a] # None, container' = [container EXCEPT ![a].up = up]
      PROVE  /\ container'[a] # None => container[a] # None /\ container'[a].port = container[a].port
             /\ up => IsUp(a)'
  <2>1. container[a] \in Container
    BY <1>2 DEF Typed
  <2>2. container'[a] = [container[a] EXCEPT !.up = up]
    BY <1>2 DEF Typed
  <2>3. /\ container'[a] \in Container /\ container'[a].port = container[a].port
        /\ container'[a].up = up
    BY <2>1, <2>2 DEF Container
  <2> QED  BY <1>2, <2>3, AbsenceAssumption DEF IsUp
<1>3. CASE BringUp(a)
  BY <1>2, <1>3 DEF BringUp
<1>4. CASE BringDown(a) /\ ~BringUp(a)
  BY <1>2, <1>4 DEF BringDown
<1> QED  BY <1>1, <1>3, <1>4

LEMMA SyncTold ==
  ASSUME Typed, NEW t \in DOMAIN tasks, NEW a \in Apps, tasks[t].app = a, Sound(t), Told(a),
         SyncLookup(t) \/ SyncRestart(t) \/ SyncHealth(t)
  PROVE  Told(a)'
<1>0. /\ tasks[t] \in Task /\ tasks \in Seq(Task) /\ Books /\ Moves(t) /\ Live(t)
      /\ tasks'[t].op = tasks[t].op /\ tasks'[t].app = a
  BY DEF Typed, Sound, Moves
<1>1. /\ Ordered(a) /\ StageOK(t) /\ AllBare(a)
      /\ Final(a).status = "running" /\ ~Leaves(t) /\ ~Asked(a, "start") /\ ~Failed(a, Stops)
           => IsUp(a)
  <2>1. StageOK(t)
    BY <1>0, BeforeStep
  <2> QED  BY <1>0, <2>1, BeforeStep DEF StageOK
<1>2. \A at \in Stages : Move(t, at) => tasks'[t].at = at
  BY <1>0, PlainMove
<1>3. \A s \in Statuses : Issue(a, StatusOnly(s)) /\ UNCHANGED record =>
        /\ Final(a)'.status = s /\ Final(a)'.port = Final(a).port
        /\ Final(a)'.allow = Final(a).allow /\ AllBare(a)' /\ Ordered(a)'
  BY <1>0, <1>1, IssueStatus
<1>4. UNCHANGED <<record, writes>> => Final(a)' = Final(a) /\ AllBare(a)' /\ Ordered(a)'
  BY <1>1, SameFinal
<1>5. tasks[t].op = "sync" /\ ~ListSetBy(t)' /\ ~Leaves(t)
  BY <1>0 DEF SyncLookup, SyncRestart, SyncHealth, At, ListSetBy, Leaves
<1>6. UNCHANGED container /\ IsUp(a) => IsUp(a)'
  BY DEF IsUp
<1>7. CASE SyncLookup(t)
  <2>1. CASE Issue(a, StatusOnly("starting")) /\ Move(t, "restart")
    <3>1. /\ tasks'[t].at = "restart" /\ UNCHANGED <<ports, container, route, record>>
          /\ Final(a)'.status = "starting" /\ Final(a)'.port = Final(a).port
          /\ Final(a)'.allow = Final(a).allow /\ AllBare(a)' /\ Ordered(a)'
      BY <1>2, <1>3, <1>7, <2>1 DEF SyncLookup, infra, Stages, Statuses
    <3>2. StageOK(t)'
      BY <1>0, <1>5, <3>1 DEF StageOK, Silent
    <3> QED  BY <1>0, <1>5, <3>1, <3>2, SilentStep
  <2>2. CASE Move(t, "refused") /\ UNCHANGED writes
    <3>1. /\ tasks'[t].at = "refused" /\ UNCHANGED <<ports, container, route>>
          /\ Final(a)' = Final(a) /\ Ordered(a)' /\ ~Live(t)'
      BY <1>2, <1>4, <1>7, <2>2 DEF SyncLookup, infra, Stages, Ended, Live
    <3> QED  BY <1>0, <1>1, <1>5, <1>6, <3>1, SilentStep
  <2> QED  BY <1>7, <2>1, <2>2 DEF SyncLookup
<1>8. CASE SyncRestart(t)
  <2>1. tasks[t].at = "restart" /\ UNCHANGED <<ports, route, record, writes>>
    BY <1>8 DEF SyncRestart, At
  <2>2. /\ tasks'[t].at \in {"health", "failed"}
        /\ BringUp(a) \/ BringDown(a) \/ UNCHANGED container
        /\ tasks'[t].at = "health" => BringUp(a)
    BY <1>2, <1>8 DEF SyncRestart, Stages, Ended
  <2>3. Final(a).status \notin {"running", "removed"}
    BY <1>1, <1>5, <2>1 DEF StageOK
  <2>4. Final(a)' = Final(a) /\ AllBare(a)' /\ Ordered(a)'
    BY <1>4, <2>1
  <2>5. /\ container'[a] # None => container[a] # None /\ container'[a].port = container[a].port
        /\ tasks'[t].at = "health" => IsUp(a)'
    BY <2>2, BroughtKeepsPort
  <2>6. Live(t)' => StageOK(t)'
    BY <1>0, <1>5, <2>2, <2>3, <2>4, <2>5 DEF StageOK, Silent, Live, Ended
  <2> QED  BY <1>0, <1>5, <2>1, <2>3, <2>4, <2>5, <2>6, SilentStep
<1>9. CASE SyncHealth(t)
  <2>1. /\ tasks[t].at = "health" /\ UNCHANGED <<ports, container, route, record>>
        /\ tasks'[t].at \in {"done", "failed"}
    BY <1>2, <1>9 DEF SyncHealth, At, infra, Stages, Ended
  <2>2. /\ Final(a)'.status \in {"running", "failed", Final(a).status}
        /\ Final(a)'.port = Final(a).port /\ Final(a)'.allow = Final(a).allow /\ Ordered(a)'
    BY <1>3, <1>4, <1>9, <2>1 DEF SyncHealth, Statuses
  <2>3. IsUp(a)
    BY <1>1, <1>5, <2>1 DEF StageOK
  <2>4. ~Live(t)'
    BY <2>1 DEF Live, Ended
  <2> QED  BY <1>0, <1>5, <1>6, <2>1, <2>2, <2>3, <2>4, SilentStep
<1> QED  BY <1>7, <1>8, <1>9

\* The last step of a request that has written nothing so far.
LEMMA ConcludeFinal ==
  ASSUME Books, NEW t, NEW a \in Apps, tasks[t].app = a, NEW w, Conclude(t, w), writes[a] = <<>>,
         UNCHANGED writes, a \notin garbled'
  PROVE  /\ Move(t, "done") /\ Final(a)' = Upsert(Final(a), w) /\ Ordered(a)'
         /\ Final(a) = record[a]
<1>1. record' = [record EXCEPT ![a] = Upsert(@, w)] /\ Move(t, "done")
  BY DEF Conclude
<1>2. record'[a] = Upsert(record[a], w)
  BY <1>1 DEF Books
<1>3. Ordered(a)'
  BY DEF Ordered
<1> QED  BY <1>1, <1>2, <1>3 DEF Final

LEMMA SilentTold ==
  ASSUME Typed, NEW t \in DOMAIN tasks, NEW a \in Apps, tasks[t].app = a, Sound(t),
         Kept(a), Told(a), a \notin excused', a \notin garbled',
         \/ UndeployRemove(t) \/ UndeployRelease(t) \/ UndeployRecord(t)
         \/ StopContainer(t) \/ StartContainer(t)
         \/ AccessRoute(t) \/ StatusRead(t) \/ RecordOutcome(t)
  PROVE  Told(a)'
<1>0. /\ tasks[t] \in Task /\ tasks \in Seq(Task) /\ Books /\ Moves(t) /\ Live(t)
      /\ tasks'[t].op = tasks[t].op /\ tasks'[t].app = a
      /\ container[a] \in Container \cup {None}
  BY DEF Typed, Sound, Moves
<1>1. /\ Ordered(a) /\ StageOK(t) /\ AllBare(a) /\ Gone(a)
      /\ tasks[t].op \in Silent => writes[a] = <<>>
      /\ Final(a).status = "running" /\ ~Leaves(t) /\ ~Asked(a, "start") /\ ~Failed(a, Stops)
           => IsUp(a)
      /\ container[a] # None /\ ~Deploys(t) /\ ~Failed(a, Operations) => AtHome(a)
  <2>1. StageOK(t)
    BY <1>0, BeforeStep
  <2> QED  BY <1>0, <2>1, BeforeStep DEF StageOK
<1>2. \A at \in Stages : Move(t, at) => tasks'[t].at = at
  BY <1>0, PlainMove
<1>3. tasks[t].op \in Silent
  BY DEF UndeployRemove, UndeployRelease, UndeployRecord, StopContainer, StartContainer,
         AccessRoute, StatusRead, RecordOutcome, At, Silent
<1>4. writes[a] = <<>> /\ tasks[t].op # "deploy" /\ tasks'[t].op # "deploy" /\ Final(a) = record[a]
  BY <1>0, <1>1, <1>3 DEF Silent, Final
<1>5. UNCHANGED <<record, writes>> =>
        Final(a)' = Final(a) /\ AllBare(a)' /\ Ordered(a)' /\ writes'[a] = <<>>
  BY <1>1, <1>4, SameFinal
<1>6. UNCHANGED container /\ IsUp(a) => IsUp(a)'
  BY DEF IsUp
<1>7. tasks'[t].at # "done" => ~ListSetBy(t)'
  BY DEF ListSetBy
<1>8. tasks'[t].at = "failed" => ~Live(t)' /\ Fails(t, Operations)'
  BY <1>0 DEF Live, Ended, Fails, Task
<1>9. CASE UndeployRemove(t)
  <2>0. /\ tasks[t].op = "undeploy" /\ UNCHANGED <<ports, route, record, writes>>
    BY <1>9 DEF UndeployRemove, At
  <2>1. CASE Released(a) /\ Move(t, "release")
    <3>1. tasks'[t].at = "release" /\ container'[a] = None
      BY <1>2, <2>1, ReleasedCleared DEF Stages
    <3>2. StageOK(t)' /\ Leaves(t)'
      BY <1>0, <1>5, <2>0, <3>1 DEF StageOK, Silent, Leaves
    <3> QED  BY <1>0, <1>4, <1>5, <1>7, <2>0, <3>1, <3>2, SilentStep
  <2>2. CASE (\E c \in Remnants(a) : Leave(a, c)) /\ Move(t, "failed")
    <3>1. tasks'[t].at = "failed"
      BY <1>2, <2>2 DEF Stages, Ended
    <3>2. PICK c \in Remnants(a) : container'[a] = c
      BY <2>2, RemovalTyped
    <3>3. container'[a] # None => container[a] # None /\ container'[a].port = container[a].port
      BY <1>0, <3>2 DEF Remnants, Container
    <3>4. Fails(t, Stops)'
      BY <1>0, <2>0, <3>1 DEF Fails, Stops
    <3> QED  BY <1>0, <1>4, <1>5, <1>7, <1>8, <2>0, <3>1, <3>3, <3>4, SilentStep
  <2> QED  BY <1>9, <2>1, <2>2 DEF UndeployRemove
<1>10. CASE UndeployRelease(t)
  <2>1. /\ tasks[t].op = "undeploy" /\ tasks[t].at = "release" /\ tasks'[t].at = "record"
        /\ UNCHANGED <<container, record, writes>>
    BY <1>2, <1>10 DEF UndeployRelease, At, Stages
  <2>2. container'[a] = None
    BY <2>1 DEF Kept, Cleared
  <2>3. ports'[a] = None /\ route'[a] = None
    BY <1>0, <1>10 DEF UndeployRelease, Typed, Assigns, Books
  <2>4. StageOK(t)' /\ Leaves(t)'
    BY <1>0, <1>5, <2>1, <2>2, <2>3 DEF StageOK, Silent, Leaves, IsGone
  <2> QED  BY <1>0, <1>5, <1>7, <2>1, <2>2, <2>3, <2>4, AfterStep
<1>11. CASE UndeployRecord(t)
  <2>1. /\ tasks[t].op = "undeploy" /\ tasks[t].at = "record"
        /\ UNCHANGED <<ports, container, route, writes>> /\ Conclude(t, StatusOnly("removed"))
    BY <1>11 DEF UndeployRecord, At
  <2>2. /\ Move(t, "done") /\ Final(a)' = Upsert(Final(a), StatusOnly("removed")) /\ Ordered(a)'
    BY <1>0, <1>4, <2>1, ConcludeFinal
  <2>3. Final(a)'.status = "removed" /\ Final(a)'.allow = Final(a).allow
    BY <2>2 DEF Upsert, StatusOnly
  <2>4. tasks'[t].at = "done" /\ ~ListSetBy(t)' /\ ~Live(t)'
    BY <1>0, <1>2, <2>1, <2>2 DEF ListSetBy, Stages, Ended, Live
  <2>5. IsGone(a)
    BY <1>0, <1>1, <2>1 DEF StageOK
  <2> QED  BY <1>0, <2>1, <2>2, <2>3, <2>4, <2>5, AfterStep DEF IsGone
<1>12. CASE StopContainer(t) \/ StartContainer(t)
  <2>1. /\ tasks[t].op \in {"stop", "start"} /\ UNCHANGED <<ports, route, record, writes>>
        /\ tasks'[t].at \in {"record", "failed"}
        /\ BringUp(a) \/ BringDown(a) \/ UNCHANGED container
    BY <1>0, <1>2, <1>12 DEF StopContainer, StartContainer, At, Stages, Ended
  <2>2. container'[a] # None => container[a] # None /\ container'[a].port = container[a].port
    BY <2>1, BroughtKeepsPort
  <2>3. Live(t)' => StageOK(t)'
    BY <1>0, <1>5, <1>8, <2>1 DEF StageOK, Silent
  <2>4. Leaves(t)' \/ Asked(a, "start") \/ Fails(t, Stops)'
    BY <1>0, <2>1 DEF Leaves, Asked, Fails, Stops
  <2> QED  BY <1>0, <1>4, <1>5, <1>7, <2>1, <2>2, <2>3, <2>4, SilentStep
<1>13. CASE AccessRoute(t)
  <2>0. /\ tasks[t].op = "access" /\ tasks[t].at = "accepted"
        /\ UNCHANGED <<ports, container, record, writes>>
    BY <1>13 DEF AccessRoute, At
  <2>1. ~Leaves(t) /\ Asked(a, "access")
    BY <2>0 DEF Leaves, Asked
  <2>2. CASE Move(t, "failed") /\ (UNCHANGED route \/ RouteFails(a))
    <3>1. tasks'[t].at = "failed"
      BY <1>2, <2>2 DEF Stages, Ended
    <3>2. route'[a] \in {route[a], None}
      BY <1>0, <2>2 DEF RouteFails, Books
    <3> QED  BY <1>0, <1>1, <1>4, <1>5, <1>6, <1>7, <1>8, <2>0, <2>1, <3>1, <3>2, SilentStep
  <2>3. CASE /\ AddRoute(a, record[a].port, tasks[t].allow)
             /\ tasks' = [tasks EXCEPT ![t].at = "record", ![t].status = record[a].status]
    <3>1. tasks'[t].at = "record" /\ tasks'[t].status = record[a].status
      BY <1>0, <2>3 DEF Task
    <3>2. route'[a].port = record[a].port
      BY <1>0, <2>3 DEF AddRoute, Books
    <3>3. StageOK(t)'
      BY <1>0, <1>5, <2>0, <3>1 DEF StageOK, Silent
    <3>4. container'[a] # None /\ ~Failed(a, Operations) => AtHome(a)'
      BY <1>1, <1>4, <1>5, <2>0, <3>2 DEF AtHome, Deploys
    <3>5. Final(a)'.status = "removed" =>
            container'[a] = None /\ ports'[a] = None /\ (route'[a] = None \/ Asked(a, "access"))
      BY <1>1, <1>5, <2>0, <2>1 DEF Gone
    <3> QED  BY <1>0, <1>1, <1>5, <1>6, <1>7, <2>0, <2>1, <3>1, <3>3, <3>4, <3>5, AfterStep
  <2> QED  BY <1>13, <2>2, <2>3 DEF AccessRoute
<1>14. CASE StatusRead(t)
  <2>1. /\ tasks[t].op = "status" /\ UNCHANGED <<ports, container, route, record, writes>>
        /\ tasks'[t].at \in {"record", "done"} /\ (tasks'[t].at = "record" => IsUp(a))
    BY <1>0, <1>2, <1>14 DEF StatusRead, At, infra, Stages, Ended, IsUp
  <2>2. Live(t)' => StageOK(t)'
    BY <1>0, <1>5, <1>6, <2>1 DEF StageOK, Silent, Live, Ended
  <2>3. ~ListSetBy(t)' /\ ~Leaves(t)
    BY <1>0, <2>1 DEF ListSetBy, Leaves
  <2> QED  BY <1>0, <1>1, <1>4, <1>5, <1>6, <2>1, <2>2, <2>3, SilentStep
<1>15. CASE RecordOutcome(t)
  <2>0. /\ tasks[t].op \in {"stop", "start", "access", "status"} /\ tasks[t].at = "record"
        /\ UNCHANGED <<ports, container, route, writes>> /\ Conclude(t, Outcome(t))
    BY <1>15 DEF RecordOutcome, At, infra
  <2>1. Move(t, "done") /\ Final(a)' = Upsert(Final(a), Outcome(t)) /\ Ordered(a)'
    BY <1>0, <1>4, <2>0, ConcludeFinal
  <2>2. tasks'[t].at = "done" /\ tasks'[t].allow = tasks[t].allow /\ ~Live(t)'
    BY <1>0, <2>1 DEF Move, Live, Ended, Task
  <2>3. CASE tasks[t].op = "access"
    <3>1. Outcome(t) = [StatusOnly(tasks[t].status) EXCEPT !.allow = tasks[t].allow]
      BY <2>3 DEF Outcome
    <3>2. tasks[t].status = record[a].status /\ tasks[t].allow # None
      BY <1>0, <1>1, <2>0, <2>3, NoneAssumption DEF StageOK, Task
    <3>3. /\ Final(a)'.status = Final(a).status /\ Final(a)'.port = Final(a).port
          /\ Final(a)'.allow = tasks[t].allow
      BY <1>4, <2>1, <3>1, <3>2 DEF Upsert, StatusOnly
    <3>4. ListSetBy(t)' /\ ~Leaves(t) /\ ~Deploys(t)
      BY <1>0, <2>2, <2>3 DEF ListSetBy, Leaves, Deploys
    <3>5. container'[a] # None /\ ~Failed(a, Operations) => AtHome(a)'
      BY <1>1, <2>0, <3>3, <3>4, KeepsHome
    <3>6. Final(a)'.status = "removed" =>
            container'[a] = None /\ ports'[a] = None /\ (route'[a] = None \/ Asked(a, "access"))
      BY <1>1, <2>0, <3>3 DEF Gone
    <3> QED  BY <1>0, <1>1, <1>6, <2>0, <2>1, <2>2, <3>3, <3>4, <3>5, <3>6, AfterStep
  <2>4. CASE tasks[t].op # "access"
    <3>1. PICK s \in {"stopped", "running"} :
            Outcome(t) = StatusOnly(s) /\ (s = "running" => tasks[t].op \in {"start", "status"})
      BY <2>0, <2>4 DEF Outcome
    <3>2. /\ Final(a)'.status = s /\ Final(a)'.port = Final(a).port
          /\ Final(a)'.allow = Final(a).allow
      BY <2>1, <3>1 DEF Upsert, StatusOnly
    <3>3. ~ListSetBy(t)'
      BY <1>0, <1>4, <2>4 DEF ListSetBy
    <3>4. s = "running" => Asked(a, "start") \/ IsUp(a)
      BY <1>0, <1>1, <2>0, <3>1 DEF StageOK, Asked
    <3> QED  BY <1>0, <1>4, <1>6, <2>0, <2>1, <2>2, <3>1, <3>2, <3>3, <3>4, SilentStep
  <2> QED  BY <2>3, <2>4
<1> QED  BY <1>9, <1>10, <1>11, <1>12, <1>13, <1>14, <1>15

\* A step of a request writes to the stores of its own application only.
LEMMA TaskFrame ==
  ASSUME Typed, NEW t \in DOMAIN tasks, TaskStep(t)
  PROVE  /\ \A b \in Apps \ {tasks[t].app} :
              route'[b] = route[b] /\ record'[b] = record[b] /\ writes'[b] = writes[b]
         /\ garbled \subseteq garbled'
<1> DEFINE Frame == /\ \A b \in Apps \ {tasks[t].app} :
                         route'[b] = route[b] /\ record'[b] = record[b] /\ writes'[b] = writes[b]
                    /\ garbled \subseteq garbled'
<1>1. \A a, w : Issue(a, w) => \A b \in Apps \ {a} : writes'[b] = writes[b]
  BY DEF Issue, Typed, Books
<1>2. \A a, p, l : AddRoute(a, p, l) \/ RouteFails(a) => \A b \in Apps \ {a} : route'[b] = route[b]
  BY DEF AddRoute, RouteFails, Typed, Books
<1>3. \A w : Conclude(t, w) =>
        garbled \subseteq garbled' /\ \A b \in Apps \ {tasks[t].app} : record'[b] = record[b]
  BY DEF Conclude, Typed, Books
<1>4. CASE DeployAllocate(t) \/ DeployRemove(t) \/ DeployBuild(t)
  BY <1>1, <1>4 DEF DeployAllocate, DeployRemove, DeployBuild, infra
<1>5. CASE DeployStart(t) \/ DeployHealth(t) \/ DeployRoute(t)
  BY <1>1, <1>2, <1>5 DEF DeployStart, DeployHealth, DeployRoute
<1>6. CASE SyncLookup(t) \/ SyncRestart(t) \/ SyncHealth(t)
  BY <1>1, <1>6 DEF SyncLookup, SyncRestart, SyncHealth, infra
<1>7. CASE UndeployRemove(t) \/ UndeployRelease(t)
  BY <1>7 DEF UndeployRemove, UndeployRelease, Typed, Books
<1>8. CASE UndeployRecord(t) \/ RecordOutcome(t)
  BY <1>3, <1>8 DEF UndeployRecord, RecordOutcome, infra
<1>9. CASE StopContainer(t) \/ StartContainer(t) \/ StatusRead(t)
  BY <1>9 DEF StopContainer, StartContainer, StatusRead, infra
<1>10. CASE AccessRoute(t)
  BY <1>2, <1>10 DEF AccessRoute
<1> QED  BY <1>4, <1>5, <1>6, <1>7, <1>8, <1>9, <1>10 DEF TaskStep

LEMMA TaskTold ==
  ASSUME HoldsInv, PortsDisjoint, Assigns', RecordInv, NEW t \in DOMAIN tasks, TaskStep(t)
  PROVE  RecordInv'
<1>1. Typed /\ Books
  BY DEF HoldsInv, Typed
<1>2. Sound(t)
  BY <1>1, DeploySound, OtherSound DEF HoldsInv, Typed, TaskStep
<1>3. /\ excused \subseteq excused' /\ garbled \subseteq garbled'
      /\ \A b \in Apps \ {tasks[t].app} :
           route'[b] = route[b] /\ record'[b] = record[b] /\ writes'[b] = writes[b]
  BY <1>1, <1>2, TaskFrame DEF Sound
<1> SUFFICES ASSUME NEW a \in Apps, a \notin excused', a \notin garbled' PROVE Told(a)'
  BY DEF RecordInv
<1>4. Told(a) /\ Kept(a)
  BY <1>3 DEF RecordInv, HoldsInv
<1>5. CASE tasks[t].app = a
  BY <1>1, <1>2, <1>4, <1>5, DeployTold, SyncTold, SilentTold DEF TaskStep
<1>6. CASE tasks[t].app # a
  <2>1. Apart(a)
    BY <1>2, <1>6 DEF Apart, Sound, Moves
  <2>2. container'[a] = container[a] /\ ports'[a] = ports[a]
    BY <1>2, <1>6 DEF Sound
  <2>3. Final(a)' = Final(a) /\ Ordered(a)' /\ (AllBare(a) => AllBare(a)')
    BY <1>3, <1>4, <1>6, SameFinal DEF Told
  <2> QED  BY <1>3, <1>4, <1>6, <2>1, <2>2, <2>3, ApartTold
<1> QED  BY <1>5, <1>6

\* A background write ends: in order it brings the record closer to what it will be,
\* otherwise nothing is said of the record any more.
LEMMA BackgroundTold ==
  ASSUME Typed, RecordInv, NEW b \in Apps, NEW i \in DOMAIN writes[b],
         LandWrite(b, i) \/ DropWrite(b, i)
  PROVE  RecordInv'
<1>1. UNCHANGED <<infra, tasks, excused>> /\ garbled \subseteq garbled'
  BY DEF LandWrite, DropWrite
<1> SUFFICES ASSUME NEW a \in Apps, a \notin excused', a \notin garbled' PROVE Told(a)'
  BY DEF RecordInv
<1>2. Told(a) /\ Ordered(a) /\ Apart(a) /\ Books
  BY <1>1 DEF RecordInv, Told, Apart, Typed
<1>3. UNCHANGED <<container, ports, route>>
  BY <1>1 DEF infra
<1>4. CASE a = b
  <2>1. LandWrite(a, 1) /\ writes[a] # <<>>
    BY <1>4 DEF LandWrite, DropWrite
  <2>2. Final(a)' = Final(a) /\ Ordered(a)' /\ (AllBare(a) => AllBare(a)')
    BY <1>2, <2>1, LandKeepsFinal
  <2> QED  BY <1>2, <1>3, <2>1, <2>2, ApartTold
<1>5. CASE a # b
  <2>1. record'[a] = record[a] /\ writes'[a] = writes[a]
    BY <1>2, <1>5 DEF LandWrite, DropWrite, Books
  <2>2. Final(a)' = Final(a) /\ Ordered(a)' /\ (AllBare(a) => AllBare(a)')
    BY <1>2, <2>1, SameFinal
  <2> QED  BY <1>2, <1>3, <2>1, <2>2, ApartTold
<1> QED  BY <1>4, <1>5

\* A request is accepted for an application at rest.
LEMMA AcceptTold ==
  ASSUME Typed, RecordInv, NEW b \in Apps, NEW r \in Requests, Accept(b, r)
  PROVE  RecordInv'
<1> DEFINE new == [op |-> r.op, app |-> b, at |-> "accepted", allow |-> r.allow,
                   data |-> r.data, syncable |-> r.syncable, port |-> None, status |-> "absent"]
<1>1. new.app = b /\ new.at = "accepted"
  OBVIOUS
<1>2. tasks \in Seq(Task) /\ tasks' = Append(tasks, new)
  BY DEF Typed, Accept
<1> HIDE DEF new
<1>n. PICK n \in Nat : n = Len(tasks) + 1
  BY <1>2
<1>3. /\ DOMAIN tasks \subseteq DOMAIN tasks' /\ DOMAIN tasks' = DOMAIN tasks \cup {n}
      /\ \A t \in DOMAIN tasks : tasks'[t] = tasks[t] /\ t <= n /\ t # n
      /\ tasks'[n] = new
  BY <1>2, <1>n
<1>4. /\ UNCHANGED <<ports, container, route, record, writes, garbled>>
      /\ excused \subseteq excused'
  BY DEF Accept, infra, Excuse
<1> SUFFICES ASSUME NEW a \in Apps, a \notin excused', a \notin garbled' PROVE Told(a)'
  BY DEF RecordInv
<1>5. Told(a)
  BY <1>4 DEF RecordInv
<1>6. Final(a)' = Final(a) /\ Ordered(a)' /\ (AllBare(a) => AllBare(a)')
  BY <1>4, <1>5, SameFinal DEF Told
<1>7. CASE a # b
  <2>1. Apart(a)
    BY <1>1, <1>3, <1>7 DEF Apart
  <2> QED  BY <1>4, <1>5, <1>6, <2>1, ApartTold
<1>8. CASE a = b
  <2>1. writes[a] = <<>> /\ \A t \in DOMAIN tasks : tasks[t].app = a => ~Live(t)
    BY <1>8 DEF Accept, Busy, Excuse
  <2>2. \A t \in DOMAIN tasks : Live(t)' <=> Live(t)
    BY <1>3 DEF Live
  <2>3. Newest(a)'
    BY <1>3, <2>1, <2>2 DEF Newest
  <2>4. Staged(a)'
    <3>1. StageOK(n)'
      <4>1. tasks'[n].app = a /\ tasks'[n].at = "accepted"
        BY <1>1, <1>3, <1>8
      <4>2. writes'[a] = <<>> /\ AllBare(a)'
        BY <1>4, <1>6, <2>1 DEF AllBare
      <4> QED  BY <4>1, <4>2 DEF StageOK
    <3> QED  BY <1>3, <2>1, <2>2, <3>1 DEF Staged
  <2>5. /\ \A op : Asked(a, op) => Asked(a, op)'
        /\ \A ops : Failed(a, ops) => Failed(a, ops)'
        /\ ~Leaving(a) /\ ~Deploying(a)
    <3>1. \A op : Asked(a, op) => Asked(a, op)'
      BY <1>3 DEF Asked
    <3>2. \A ops : Failed(a, ops) => Failed(a, ops)'
      BY <1>3 DEF Failed, Fails
    <3> QED  BY <2>1, <3>1, <3>2 DEF Leaving, Leaves, Deploying, Deploys, Placing, Live, Ended
  <2>6. Runs(a)' /\ Gone(a)' /\ Homed(a)'
    BY <1>4, <1>5, <1>6, <2>5 DEF Told, Runs, Gone, Homed, AtHome, IsUp
  <2>7. Setters(a)' = Setters(a)
    <3>1. \A t \in DOMAIN tasks : ListSetBy(t)' <=> ListSetBy(t)
      BY <1>3 DEF ListSetBy
    <3>2. ~ListSetBy(n)'
      BY <1>1, <1>3 DEF ListSetBy
    <3>3. \A t : t \in Setters(a)' <=> t \in Setters(a)
      BY <1>3, <3>1, <3>2 DEF Setters
    <3> QED  BY <3>3, Zenon DEF Setters
  <2>8. Listed(a)'
    <3>1. /\ LastList(a) = IF Setters(a) = {} THEN Open ELSE tasks[Max(Setters(a))].allow
          /\ LastList(a)' = IF Setters(a)' = {} THEN Open ELSE tasks'[Max(Setters(a)')].allow
      BY DEF LastList, Setters
    <3>2. Setters(a) # {} => Max(Setters(a)) \in Setters(a)
      BY <1>5 DEF Told, Listed, Latest, Max
    <3>3. \A t \in Setters(a) : tasks'[t] = tasks[t]
      BY <1>3 DEF Setters
    <3>4. Latest(a)'
      BY <1>5, <2>7 DEF Told, Listed, Latest
    <3> QED  BY <1>5, <1>6, <2>7, <3>1, <3>2, <3>3, <3>4 DEF Told, Listed
  <2> QED  BY <1>6, <2>3, <2>4, <2>6, <2>8 DEF Told
<1> QED  BY <1>7, <1>8

\* A restart loses what was under way; of an application at rest it can only change the
\* route, to none or to what the record says.
LEMMA RebootTold ==
  ASSUME Typed, RecordInv, NEW before, Reboot(before), NEW a \in Apps, a \notin excused,
         a \notin garbled', before[a] = route[a], container'[a] = container[a],
         ports'[a] \in {ports[a], None}
  PROVE  Told(a)'
<1>1. Told(a) /\ ~Busy(a)
  BY DEF Reboot, RecordInv
<1>2. /\ record'[a] = record[a]
      /\ writes[a] = <<>> /\ writes'[a] = <<>>
  BY <1>1 DEF Reboot, Busy
<1>3. Apart(a)
  BY <1>1 DEF Reboot, Busy, Apart
<1>4. \A t \in DOMAIN tasks : tasks[t].app = a => ~Live(t)
  BY <1>1 DEF Busy
<1>5. route'[a] \in {route[a], None} \/ (a \in Restorable /\ route'[a] = Restored(a))
  <2>1. PICK kept \in {before, [b \in Apps |-> None]} :
          \/ route' = [b \in Apps |-> IF b \in Restorable THEN Restored(b) ELSE kept[b]]
          \/ \E f \in Restorable : \E done \in SUBSET (Restorable \ {f}) :
               route' = [b \in Apps |-> IF b = f THEN None
                                        ELSE IF b \in done THEN Restored(b) ELSE kept[b]]
    BY DEF Reboot
  <2>2. kept[a] \in {route[a], None}
    OBVIOUS
  <2>3. CASE route' = [b \in Apps |-> IF b \in Restorable THEN Restored(b) ELSE kept[b]]
    BY <2>2, <2>3
  <2>4. ASSUME NEW f \in Restorable, NEW done \in SUBSET (Restorable \ {f}),
               route' = [b \in Apps |-> IF b = f THEN None
                                        ELSE IF b \in done THEN Restored(b) ELSE kept[b]]
        PROVE  route'[a] \in {route[a], None} \/ (a \in Restorable /\ route'[a] = Restored(a))
    BY <2>2, <2>4
  <2> QED  BY <2>1, <2>3, <2>4
<1>6. Final(a) = record[a] /\ Final(a)' = record[a]
  BY <1>2 DEF Final
<1>7. Staged(a)' /\ Ordered(a)'
  BY <1>2, <1>3, <1>4 DEF Staged, Ordered, Apart, Live
<1>8. Runs(a)'
  BY <1>1, <1>2, <1>3, <1>6, ApartRequests DEF Told, Runs, IsUp
<1>9. Gone(a)'
  <2>1. record[a].status = "removed" => a \notin Restorable
    BY DEF Restorable
  <2> QED  BY <1>1, <1>2, <1>3, <1>5, <1>6, <2>1, ApartRequests DEF Told, Gone
<1>10. Homed(a)'
  <2>1. AtHome(a) => AtHome(a)'
    BY <1>2, <1>5, <1>6 DEF AtHome, Restored
  <2> QED  BY <1>1, <1>2, <1>3, <2>1, ApartRequests DEF Told, Homed
<1>11. Newest(a)' /\ Listed(a)'
  BY <1>1, <1>3, <1>6, ApartRequests DEF Told, Listed
<1> QED  BY <1>7, <1>8, <1>9, <1>10, <1>11 DEF Told

LEMMA RestartTold ==
  ASSUME Typed, RecordInv, Restart
  PROVE  RecordInv'
BY RebootTold DEF Restart, RecordInv

\* The application whose request dies with the port file is garbled; of the others, one
\* that is not excused has no container, and no port to lose.
LEMMA CrashTold ==
  ASSUME Typed, RecordInv, NEW t \in DOMAIN tasks, CrashInPortFile(t)
  PROVE  RecordInv'
<1> SUFFICES ASSUME NEW a \in Apps, a \notin excused', a \notin garbled' PROVE Told(a)'
  BY DEF RecordInv
<1>1. PICK before \in [Apps -> Route \cup {None}] :
        /\ Reboot(before)
        /\ \A b \in Apps : b # tasks[t].app => before[b] = route[b]
  BY CrashReboots
<1>2. a # tasks[t].app
  <2>1. ~Busy(a)
    BY <1>1 DEF Reboot
  <2> QED  BY <2>1, CrashReboots DEF Busy
<1>3. before[a] = route[a] /\ container'[a] = container[a]
  BY <1>1, <1>2, CrashReboots
<1>4. a \notin excused /\ ports'[a] = None
  BY DEF CrashInPortFile
<1> QED  BY <1>1, <1>3, <1>4, RebootTold

LEMMA RecordStep ==
  ASSUME HoldsInv, PortsDisjoint, RecordInv, [Next]_vars
  PROVE  RecordInv'
<1>0. Typed /\ Assigns
  BY DEF HoldsInv, Typed
<1>1. CASE \E a \in Apps, r \in Requests : Accept(a, r)
  BY <1>0, <1>1, AcceptTold
<1>2. ASSUME NEW t \in DOMAIN tasks, TaskStep(t)
      PROVE  RecordInv'
  BY <1>0, <1>2, PortStep, TaskTold
<1>3. CASE \E a \in Apps : \E i \in DOMAIN writes[a] : LandWrite(a, i) \/ DropWrite(a, i)
  BY <1>0, <1>3, BackgroundTold
<1>4. CASE Restart
  BY <1>0, <1>4, RestartTold
<1>5. CASE \E t \in DOMAIN tasks : CrashInPortFile(t)
  BY <1>0, <1>5, CrashTold
<1>6. CASE UNCHANGED vars
  <2> SUFFICES ASSUME NEW a \in Apps, a \notin excused', a \notin garbled' PROVE Told(a)'
    BY DEF RecordInv
  <2>1. UNCHANGED <<ports, container, route, record, writes, tasks, excused, garbled>>
    BY <1>6 DEF vars, infra
  <2>2. Told(a) /\ Apart(a)
    BY <2>1 DEF RecordInv, Apart
  <2>3. Final(a)' = Final(a) /\ Ordered(a)' /\ (AllBare(a) => AllBare(a)')
    BY <2>1, <2>2, SameFinal DEF Told
  <2> QED  BY <2>1, <2>2, <2>3, ApartTold
<1> QED  BY <1>1, <1>2, <1>3, <1>4, <1>5, <1>6 DEF Next

\* The inductive invariant of the engine's records.
THEOREM RecordInvariant == Spec => []RecordInv
<1>1. Init => RecordInv
  BY DEF Init, RecordInv, Told, Newest, Ordered, Staged, Runs, Gone, Homed, Listed, Latest,
         Setters, LastList, Final, NoRecord
<1>2. HoldsInv /\ PortsDisjoint /\ RecordInv /\ [Next]_vars => RecordInv'
  BY RecordStep
<1> QED  BY <1>1, <1>2, InvariantHolds, PTL DEF Spec

\* At rest the record says what was said last.
LEMMA AtRestTold ==
  ASSUME RecordInv, NEW a \in Apps, AtRest(a)
  PROVE  Told(a) /\ Final(a) = record[a] /\ ~Leaving(a) /\ ~Deploying(a)
<1>1. Told(a) /\ writes[a] = <<>> /\ \A t \in DOMAIN tasks : tasks[t].app = a => ~Live(t)
  BY DEF RecordInv, AtRest, Busy
<1> QED  BY <1>1 DEF Final, Leaving, Leaves, Deploying, Deploys, Placing, Live, Ended

\* docker.py: once its requests and writes are through, a record says running only of a
\* container that is up, whatever failed on the way.
THEOREM EngineRunningHasContainer == Spec => []RunningHasContainer
<1>1. RecordInv => RunningHasContainer
  BY AtRestTold DEF RunningHasContainer, Told, Runs, Failed, Fails, Stops, IsUp
<1> QED  BY <1>1, RecordInvariant, PTL

\* docker.py: what the record calls removed has left neither container nor port, and no
\* route that a change of access has not written since.
THEOREM EngineRemovedLeavesNothing == Spec => []RemovedLeavesNothing
<1>1. RecordInv => RemovedLeavesNothing
  BY AtRestTold DEF RemovedLeavesNothing, Told, Gone
<1> QED  BY <1>1, RecordInvariant, PTL

\* store.py: the allowlist that was set last stays on record.
THEOREM EngineAllowlistKept == Spec => []AllowlistKept
<1>1. RecordInv => AllowlistKept
  BY AtRestTold DEF AllowlistKept, Told, Listed
<1> QED  BY <1>1, RecordInvariant, PTL

\* service.py, nginx.py: as long as no request failed, the route of a running application
\* leads to its own container, also after a restart of the engine.
THEOREM EngineRouteLeadsHome == Spec => []RouteLeadsHome
<1>1. HoldsInv /\ RecordInv => RouteLeadsHome
  <2> SUFFICES ASSUME RecordInv, NEW a \in Apps, AtRest(a), record[a].status = "running",
                      route[a] # None, ~Asked(a, "start"),
                      \A t \in DOMAIN tasks : tasks[t].app = a => tasks[t].at # "failed"
               PROVE  container[a] # None /\ route[a].port = container[a].port
    BY DEF RouteLeadsHome
  <2>1. ~Failed(a, Stops) /\ ~Failed(a, Operations)
    BY DEF Failed, Fails
  <2>2. IsUp(a)
    BY <2>1, AtRestTold DEF Told, Runs
  <2> QED  BY <2>1, <2>2, AtRestTold DEF Told, Homed, AtHome, IsUp
<1> QED  BY <1>1, InvariantHolds, RecordInvariant, PTL

=============================================================================
