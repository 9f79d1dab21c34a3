---------------------------- MODULE ArtifactStore ----------------------------
(***************************************************************************)
(* The artifact lifecycle of the control plane (demo/store.js and the      *)
(* write guards of demo/files.js): a draft definition is edited, generated *)
(* by a model call, built, published as a numbered release and rolled      *)
(* back, while the server may crash and restart at any point.              *)
(*                                                                         *)
(* The server is one Node process, so a handler runs atomically between    *)
(* two awaits and every action below is one such segment.  What outlives a *)
(* segment is a promise: a sandboxed build (`sandbox') or a generation run *)
(* (`runs').  A promise closes over the application OBJECT, not over the   *)
(* build or generation it started, which is where the races are.           *)
(*                                                                         *)
(* `source' stands for everything compile() reads from a definition (title,*)
(* brief, files, style); the source tree of an app-tier artifact lives on  *)
(* disk, outside the definition, in `tree'.  state.json is rewritten       *)
(* before every segment ends, so the variables are what a restart reads    *)
(* back; promises, slot counters and the abort map are memory only.        *)
(* Writing the tree may throw, and the server may crash after it and       *)
(* before the rewrite of state.json (StartGenerationThrows, SetStyleThrows,*)
(* CrashInEdit); a model call's child process outlives the server          *)
(* (`orphans').  save() itself is taken to succeed, and an edit whose      *)
(* handler threw to be saved with the next one.                            *)
(***************************************************************************)
EXTENDS Integers, FiniteSets

CONSTANTS
  Apps,         \* applications in state.json
  Sources,      \* source contents that can be told apart
  None,         \* no source, no tree, no result
  Definitions,  \* the definitions that editors and models produce
  PlanInputs,   \* the plan statuses that clients set
  BuildSlots,   \* concurrent sandboxed builds
  GenSlots,     \* concurrent generation runs
  MaxAttempts,  \* model calls per generation run
  Retained,     \* full releases kept for rollback
  MaxRevision, MaxJobs, MaxReleases, MaxRestarts  \* bounds of the exploration

Tiers == {"intent", "template", "static", "app"}
Kinds == {"classic", "page", "server"}  \* server: a workdir is handed to the model

\* definition(): an intent has no source yet and needs a kind, an app-tier
\* definition points at a tree, the other tiers carry their source.
WellFormed(d) ==
  /\ d.tier \in {"intent", "app"} <=> d.source = None
  /\ d.tier = "intent" => d.kind # "classic"

ASSUME DefinitionsAssumption ==
  /\ None \notin Sources
  /\ Definitions \subseteq [tier : Tiers, kind : Kinds, source : Sources \cup {None}]
  /\ \A d \in Definitions : WellFormed(d)
PlanStatuses == {"draft", "executing", "executed", "discarded"}
ASSUME PlanInputsAssumption == PlanInputs \subseteq PlanStatuses

ASSUME LimitsAssumption ==
  /\ {BuildSlots, GenSlots, MaxRevision, MaxJobs, MaxReleases, MaxRestarts} \subseteq Nat
  /\ MaxAttempts \in Nat \ {0}
  /\ Retained \in Nat \ {0}

VARIABLES
  config,      \* app.config, the draft
  revision,    \* app.revision
  tree,        \* the source tree on disk of an app-tier artifact
  restyled,    \* artifacts whose style may differ from the kit files of their tree
  build,       \* app.build
  generation,  \* app.generation
  plan,        \* app.plan; owner is the run that holds this very object
  number,      \* app.release.number, 0 before the first publish
  releases,    \* app.releases, by release number
  jobs,        \* build and generation ids handed out so far
  sandbox,     \* in-flight promises of startBuild
  runs,        \* in-flight promises of startGeneration
  abortOf,     \* this.jobs: the run that a cancel would abort
  running,     \* this.running
  generating,  \* this.generating
  restarts,    \* restarts so far
  overtaken,   \* history: a rollback replaced a build still in its sandbox
  stranded,    \* history: generations whose start threw, since the last restart
  orphans      \* adapter children that the server which started them left behind

draft   == <<config, revision, tree, restyled>>
ledger  == <<number, releases>>
memory  == <<sandbox, runs, abortOf, running, generating>>
aside   == <<restarts, overtaken, stranded, orphans>>
vars == <<config, revision, tree, restyled, build, generation, plan, number,
          releases, jobs, sandbox, runs, abortOf, running, generating, restarts, overtaken,
          stranded, orphans>>

NoBuild      == [id |-> 0, status |-> "none", revision |-> 0, result |-> None]
NoGeneration == [id |-> 0, status |-> "none", attempt |-> 0, base |-> 0]

\* compile(): what a build of definition d attests when t is the tree on disk.
Compile(d, t) == IF d.tier = "app" THEN t ELSE d.source

IsRevise(a) == config[a].tier \in {"static", "app"}

Building(a)         == build[a].status = "building"
Generating(a)       == generation[a].status = "generating"
SandboxOf(a)        == {j \in sandbox : j.app = a}
FreshJob(a)         == jobs[a] + 1
Job(a, id)          == [app |-> a, id |-> id]

\* "generating" is on record although the start threw before its promise began.
Stranded(a) == Generating(a) /\ Job(a, generation[a].id) \in stranded

Init ==
  /\ config \in [Apps -> {d \in Definitions : d.tier # "app"}]
  /\ revision   = [a \in Apps |-> 1]
  /\ tree       = [a \in Apps |-> None]
  /\ restyled   = {}
  /\ build      = [a \in Apps |-> NoBuild]
  /\ generation = [a \in Apps |-> NoGeneration]
  /\ plan       = [a \in Apps |-> [status |-> "draft", owner |-> 0]]
  /\ number     = [a \in Apps |-> 0]
  /\ releases   = [a \in Apps |-> << >>]
  /\ jobs       = [a \in Apps |-> 0]
  /\ sandbox    = {}
  /\ runs       = {}
  /\ abortOf    = [a \in Apps |-> 0]
  /\ running    = 0
  /\ generating = 0
  /\ restarts   = 0
  /\ overtaken  = [a \in Apps |-> FALSE]
  /\ stranded   = {}
  /\ orphans    = {}

----------------------------------------------------------------------------
(* Editing the draft *)

\* Mutant: an edit that forgets the revision.
SetDraftSilently(a, d) ==
  /\ revision[a] < MaxRevision
  /\ config' = [config EXCEPT ![a] = d]
  /\ UNCHANGED revision

SetDraft(a, d) ==
  /\ revision[a] < MaxRevision
  /\ config'   = [config EXCEPT ![a] = d]
  /\ revision' = [revision EXCEPT ![a] = @ + 1]

\* A definition that comes with another style leaves the kit files of a workdir
\* as they are.
Restyle(a) ==
  restyled' = IF tree[a] # None \/ \E r \in runs : r.app = a /\ r.workdir
                THEN restyled \cup {a} ELSE restyled

\* update(): compare-and-set on the revision, and nothing else: neither a
\* running build nor a running generation refuses it.
Update(a, d) ==
  /\ d.tier = "app" => tree[a] # None
  /\ SetDraft(a, d)
  /\ Restyle(a)
  /\ UNCHANGED <<tree, build, generation, plan, ledger, jobs, memory, aside>>

\* A definition that carries its source, with that source changed.
WithSource(d, s) == IF d.source = None THEN d ELSE [d EXCEPT !.source = s]

\* setCapabilities(): refused while generating.  The kind follows the
\* capabilities; they are part of a definition that carries its source.
SetCapabilities(a, kind, s) ==
  /\ ~Generating(a)
  /\ config[a].kind = "classic" => kind = "classic"
  /\ config[a].kind # "classic" => kind # "classic"
  /\ SetDraft(a, [WithSource(config[a], s) EXCEPT !.kind = kind])
  /\ UNCHANGED <<tree, restyled, build, generation, plan, ledger, jobs, memory, aside>>

\* Mutant: rewriting the kit of an app-tier tree is not counted as an edit.
SetStyleInPlace(a, s) ==
  /\ ~Generating(a)
  /\ IF config[a].tier = "app"
       THEN tree' = [tree EXCEPT ![a] = s] /\ UNCHANGED <<config, revision>>
       ELSE SetDraft(a, WithSource(config[a], s))
              /\ UNCHANGED tree
  /\ restyled' = IF config[a].tier = "app" THEN restyled \ {a} ELSE restyled
  /\ UNCHANGED <<build, generation, plan, ledger, jobs, memory, aside>>

\* setStyle(): refused while generating; the kit files of an app-tier artifact
\* are rewritten in its tree.
SetStyle(a, s) ==
  /\ ~Generating(a)
  /\ SetDraft(a, WithSource(config[a], s))
  /\ tree' = IF config[a].tier = "app" THEN [tree EXCEPT ![a] = s] ELSE tree
  /\ restyled' = IF config[a].tier = "app" THEN restyled \ {a} ELSE restyled
  /\ UNCHANGED <<build, generation, plan, ledger, jobs, memory, aside>>

\* The kit files of an app-tier tree could not both be written: the new style
\* and its revision stand, and the tree may hold a part of the kit.
SetStyleThrows(a, s) ==
  /\ ~Generating(a)
  /\ config[a].tier = "app"
  /\ SetDraft(a, config[a])
  /\ tree' \in {tree, [tree EXCEPT ![a] = s]}
  /\ restyled' = restyled \cup {a}
  /\ UNCHANGED <<build, generation, plan, ledger, jobs, memory, aside>>

\* saveFile(), deleteFile() and renameFile() under guardWrite().
EditFile(a, s) ==
  /\ ~Generating(a) /\ ~Building(a)
  /\ config[a].tier \in {"static", "app"}
  /\ IF config[a].tier = "app"
       THEN SetDraft(a, config[a]) /\ tree' = [tree EXCEPT ![a] = s]
       ELSE SetDraft(a, [config[a] EXCEPT !.source = s]) /\ UNCHANGED tree
  /\ UNCHANGED <<restyled, build, generation, plan, ledger, jobs, memory, aside>>

\* setPlan() and recordChat() install a plan object that no run holds; a chat
\* reply does not replace a plan that is executing.
SetPlan(a, s) ==
  /\ plan' = [plan EXCEPT ![a] = [status |-> s, owner |-> 0]]
  /\ UNCHANGED <<draft, build, generation, ledger, jobs, memory, aside>>

RecordPlanReply(a) ==
  /\ plan[a].status # "executing"
  /\ plan' = [plan EXCEPT ![a] = [status |-> "draft", owner |-> 0]]
  /\ UNCHANGED <<draft, build, generation, ledger, jobs, memory, aside>>

----------------------------------------------------------------------------
(* Building *)

\* Mutant: an intent reaches the builder.
BuildAllowedForIntent(a) ==
  ~Building(a) /\ ~Generating(a) /\ running < BuildSlots /\ jobs[a] < MaxJobs

BuildAllowed(a) ==
  /\ ~Building(a)
  /\ config[a].tier # "intent"
  /\ ~Generating(a)
  /\ running < BuildSlots
  /\ jobs[a] < MaxJobs

StartBuild(a) ==
  /\ BuildAllowed(a) /\ config[a].tier # "app"
  /\ jobs'    = [jobs EXCEPT ![a] = @ + 1]
  /\ running' = running + 1
  /\ build'   = [build EXCEPT ![a] = [id |-> FreshJob(a), status |-> "building",
                                      revision |-> revision[a], result |-> None]]
  /\ sandbox' = sandbox \cup {[app |-> a, id |-> FreshJob(a),
                               source |-> Compile(config[a], tree[a])]}
  /\ UNCHANGED <<draft, generation, plan, ledger, runs, abortOf, generating, aside>>

\* The tree of an app-tier artifact is digested in a microtask, before any
\* other request runs, and takes no slot.  A missing tree fails the build.
BuildSourceTree(a, ok) ==
  /\ BuildAllowed(a) /\ config[a].tier = "app"
  /\ ok => tree[a] # None
  /\ jobs'  = [jobs EXCEPT ![a] = @ + 1]
  /\ build' = [build EXCEPT ![a] =
                 [id |-> FreshJob(a), status |-> IF ok THEN "ready" ELSE "failed",
                  revision |-> revision[a],
                  result |-> IF ok THEN Compile(config[a], tree[a]) ELSE None]]
  /\ UNCHANGED <<draft, generation, plan, ledger, memory, aside>>

\* What the .then and .catch clauses make of app.build when the builder settles.
\* Mutant: the rejected promise is not caught.
VerdictUncaught(b, j, ok) ==
  IF ok THEN [b EXCEPT !.status = "ready", !.result = j.source] ELSE b

Verdict(b, j, ok) ==
  IF ok THEN [b EXCEPT !.status = "ready", !.result = j.source]
        ELSE [b EXCEPT !.status = "failed"]

\* The builder's promise settles.  Its output was compared with compile() of
\* the definition it was given, and is written to whatever app.build is NOW.
BuilderReturns(j, ok) ==
  /\ sandbox' = sandbox \ {j}
  /\ running' = running - 1
  /\ build'   = [build EXCEPT ![j.app] = Verdict(@, j, ok)]
  /\ UNCHANGED <<draft, generation, plan, ledger, jobs, runs, abortOf, generating, aside>>

----------------------------------------------------------------------------
(* Generating *)

\* Mutant: generation starts behind a running build.
GenerationAllowedDuringBuild(a) ==
  ~Generating(a) /\ generating < GenSlots /\ config[a].kind # "classic" /\ jobs[a] < MaxJobs

GenerationAllowed(a) ==
  /\ ~Generating(a) /\ ~Building(a)
  /\ generating < GenSlots
  /\ config[a].kind # "classic"
  /\ jobs[a] < MaxJobs

\* startGeneration() up to its first save: `planned' when an approved plan rides
\* along, which on a revision means that the change request is the drafted
\* plan's text.
TakeSlot(a, planned) ==
  /\ GenerationAllowed(a)
  /\ planned /\ IsRevise(a) => plan[a].status = "draft"
  /\ jobs'       = [jobs EXCEPT ![a] = @ + 1]
  /\ generating' = generating + 1
  /\ abortOf'    = [abortOf EXCEPT ![a] = FreshJob(a)]
  /\ generation' = [generation EXCEPT ![a] = [id |-> FreshJob(a), status |-> "generating",
                                              attempt |-> 1, base |-> revision[a]]]
  /\ plan'       = IF planned
                     THEN [plan EXCEPT ![a] = [status |-> "executing", owner |-> FreshJob(a)]]
                     ELSE plan
  /\ UNCHANGED <<config, revision, build, ledger, sandbox, running, restarts, overtaken, orphans>>

\* The kit files of the workdir are written, which makes s of a restyled tree,
\* and the promise begins.
StartGeneration(a, planned, s) ==
  /\ TakeSlot(a, planned)
  /\ runs'     = runs \cup {[app |-> a, id |-> FreshJob(a), aborted |-> FALSE,
                             workdir |-> config[a].kind = "server", wrote |-> FALSE]}
  /\ tree'     = IF config[a].kind = "server" /\ tree[a] # None /\ a \in restyled
                   THEN [tree EXCEPT ![a] = s] ELSE tree
  /\ restyled' = IF config[a].kind = "server" THEN restyled \ {a} ELSE restyled
  /\ UNCHANGED stranded

\* The workdir or its kit files could not be written.  What TakeSlot recorded
\* stands: the promise whose finally undoes it never began.
StartGenerationThrows(a, planned, s) ==
  /\ config[a].kind = "server"
  /\ TakeSlot(a, planned)
  /\ stranded' = stranded \cup {Job(a, FreshJob(a))}
  /\ \/ UNCHANGED <<tree, restyled>>
     \/ /\ tree[a] # None
        /\ tree' = [tree EXCEPT ![a] = s]
        /\ restyled' = restyled \cup {a}
  /\ UNCHANGED runs

\* The adapter's child writes the model's files into the workdir during the
\* call, before the store has accepted anything.
Scaffold(r, s) ==
  /\ r.workdir /\ ~r.aborted /\ ~r.wrote
  /\ tree' = [tree EXCEPT ![r.app] = s]
  /\ runs' = (runs \ {r}) \cup {[r EXCEPT !.wrote = TRUE]}
  /\ UNCHANGED <<config, revision, restyled, build, generation, plan, ledger, jobs,
                 sandbox, abortOf, running, generating, aside>>

\* The abort handle that a finishing run leaves: its own is forgotten.
\* Mutant: whatever handle is registered is dropped.
AbortAfterDropped(r) == 0

AbortAfter(r) == IF abortOf[r.app] = r.id THEN 0 ELSE abortOf[r.app]

\* The plan a run leaves when the generation has the given status: settled if
\* the run still holds it.
\* Mutants: settled on success only; settled by copying the generation's status.
SettledOnSuccess(p, r, status) ==
  IF p.owner = r.id /\ status = "ready" THEN [p EXCEPT !.status = "executed"] ELSE p

SettledByCopy(p, r, status) == IF p.owner = r.id THEN [p EXCEPT !.status = status] ELSE p

Settled(p, r, status) ==
  IF p.owner = r.id /\ p.status = "executing"
    THEN [p EXCEPT !.status = IF status = "ready" THEN "executed" ELSE "draft"]
    ELSE p

\* The finally clause of a run that ends with app.generation.status = status.
EndRun(r, status) ==
  /\ runs'       = runs \ {r}
  /\ generating' = generating - 1
  /\ abortOf'    = [abortOf EXCEPT ![r.app] = AbortAfter(r)]
  /\ plan'       = [plan EXCEPT ![r.app] = Settled(@, r, status)]

\* signal.aborted is looked at when the adapter's reply arrives.
\* Mutant: the reply of an aborted run is processed too.
LiveAnyway(r) == TRUE

Live(r) == ~r.aborted

\* The reply is accepted: the new definition goes through the CURRENT config
\* and replaces it, whatever was edited since the run began.
AcceptReply(r, d) ==
  /\ Live(r)
  /\ \/ d.tier = "static" /\ ~r.wrote
     \/ d.tier = "app" /\ r.workdir /\ r.wrote
  /\ SetDraft(r.app, d)
  /\ generation' = [generation EXCEPT ![r.app].status = "ready"]
  /\ EndRun(r, "ready")
  /\ UNCHANGED <<tree, restyled, build, ledger, jobs, sandbox, running, aside>>

\* The attempt counter of the retry loop.  Mutant: attempts are not counted.
NextAttemptUncounted(n) == n

NextAttempt(n) == n + 1

\* A reply the validators reject is retried while attempts are left.
RejectReply(r) ==
  /\ Live(r)
  /\ generation[r.app].attempt < MaxAttempts
  /\ generation' = [generation EXCEPT ![r.app].attempt = NextAttempt(@)]
  /\ runs' = (runs \ {r}) \cup {[r EXCEPT !.wrote = FALSE]}
  /\ UNCHANGED <<draft, build, plan, ledger, jobs, sandbox, abortOf, running, generating, aside>>

\* The last attempt was rejected, or the adapter failed in a way not retried.
FailRun(r) ==
  /\ Live(r)
  /\ generation' = [generation EXCEPT ![r.app].status = "failed"]
  /\ EndRun(r, "failed")
  /\ UNCHANGED <<draft, build, ledger, jobs, sandbox, running, aside>>

\* Mutant: the cancel frees the slot that the run's finally frees again.
CancelFreesSlot(a) ==
  /\ abortOf[a] # 0 /\ Generating(a)
  /\ runs' = {IF r.app = a /\ r.id = abortOf[a] THEN [r EXCEPT !.aborted = TRUE] ELSE r
                : r \in runs}
  /\ generation' = [generation EXCEPT ![a].status = "cancelled"]
  /\ generating' = IF generating > 0 THEN generating - 1 ELSE 0
  /\ UNCHANGED <<draft, build, plan, ledger, jobs, sandbox, abortOf, running, aside>>

\* cancelGeneration() records the outcome at once; the run itself only unwinds
\* when its adapter call rejects, and another run may start before that.  The
\* handle of a start that threw has no run behind it.
CancelGeneration(a) ==
  /\ abortOf[a] # 0 /\ Generating(a)
  /\ runs' = {IF r.app = a /\ r.id = abortOf[a] THEN [r EXCEPT !.aborted = TRUE] ELSE r
                : r \in runs}
  /\ generation' = [generation EXCEPT ![a].status = "cancelled"]
  /\ UNCHANGED <<draft, build, plan, ledger, jobs, sandbox, abortOf, running, generating, aside>>

\* Mutant: a run whose abort handle was replaced never unwinds.
UnwindRunIfRegistered(r) ==
  /\ r.aborted /\ abortOf[r.app] = r.id
  /\ EndRun(r, "cancelled")
  /\ UNCHANGED <<draft, build, generation, ledger, jobs, sandbox, running, aside>>

UnwindRun(r) ==
  /\ r.aborted
  /\ EndRun(r, "cancelled")
  /\ UNCHANGED <<draft, build, generation, ledger, jobs, sandbox, running, aside>>

----------------------------------------------------------------------------
(* Publishing *)

\* slice(-Retained) of the releases with n appended; numbers are consecutive.
\* Mutant: the window keeps one release too many.
KeptOneTooMany(a, n) == {m \in DOMAIN releases[a] \cup {n} : m + Retained >= n}

Kept(a, n) == {m \in DOMAIN releases[a] \cup {n} : m + Retained > n}

\* Mutant: a rollback numbers from the release it restores.
NextNumberOverwrites(a) == Cardinality(DOMAIN releases[a]) + 1

NextNumber(a) == number[a] + 1

\* Number the release and retain it.
Release(a, d, result) ==
  LET n == NextNumber(a) IN
  /\ number[a] < MaxReleases
  /\ number'   = [number EXCEPT ![a] = n]
  /\ releases' = [releases EXCEPT ![a] =
       [m \in Kept(a, n) |-> IF m = n THEN [config |-> d, result |-> result] ELSE @[m]]]

\* Mutant: any ready build is published, at whatever revision it was made.
PublishAllowedStale(a) == build[a].status = "ready"

PublishAllowed(a) == build[a].status = "ready" /\ build[a].revision = revision[a]

Publish(a) ==
  /\ PublishAllowed(a)
  /\ Release(a, config[a], build[a].result)
  /\ UNCHANGED <<draft, build, generation, plan, jobs, memory, aside>>

\* rollback(): re-publishes retained release n as a new one and installs its
\* result as the current build, without looking at a build still in flight.
Rollback(a, n) ==
  LET target == releases[a][n] IN
  /\ jobs[a] < MaxJobs
  /\ jobs' = [jobs EXCEPT ![a] = @ + 1]
  /\ SetDraft(a, target.config)
  /\ Restyle(a)
  /\ build' = [build EXCEPT ![a] = [id |-> FreshJob(a), status |-> "ready",
                                    revision |-> revision[a] + 1, result |-> target.result]]
  /\ Release(a, target.config, target.result)
  /\ overtaken' = [overtaken EXCEPT ![a] = @ \/ SandboxOf(a) # {}]
  /\ UNCHANGED <<tree, generation, plan, memory, restarts, stranded, orphans>>

----------------------------------------------------------------------------
(* Crash and restart *)

\* What the constructor makes of a build it finds.
\* Mutant: a build in flight is left as it is.
InterruptedKept(b) == b

Interrupted(b) == IF b.status = "building" THEN [b EXCEPT !.status = "failed"] ELSE b

\* The children of model calls that a crash leaves to finish: an abort has killed
\* its child already.
LeftBehind == {Job(r.app, r.id) : r \in {q \in runs : q.workdir /\ ~q.aborted /\ ~q.wrote}}

\* The constructor: whatever was in flight is recorded as failed.  A plan that
\* was executing is left as it is.
Reboot ==
  /\ restarts < MaxRestarts
  /\ restarts' = restarts + 1
  /\ build' = [a \in Apps |-> Interrupted(build[a])]
  /\ generation' = [a \in Apps |-> IF Generating(a)
                                     THEN [generation[a] EXCEPT !.status = "failed"]
                                     ELSE generation[a]]
  /\ sandbox' = {} /\ runs' = {}
  /\ abortOf' = [a \in Apps |-> 0]
  /\ running' = 0 /\ generating' = 0
  /\ stranded' = {}
  /\ orphans' = orphans \cup LeftBehind
  /\ UNCHANGED <<config, revision, plan, ledger, jobs, overtaken>>

Restart == Reboot /\ UNCHANGED <<tree, restyled>>

\* A crash in an edit of an app-tier artifact: after its tree or its kit files
\* were written (the latter in a style that is lost), before state.json was.
CrashInEdit(a, s) ==
  /\ config[a].tier = "app" /\ ~Generating(a)
  /\ Reboot
  /\ tree' = [tree EXCEPT ![a] = s]
  /\ restyled' \in {restyled, restyled \cup {a}}

\* A child left behind writes the model's files; nobody reads its reply.
OrphanScaffolds(o, s) ==
  /\ tree' = [tree EXCEPT ![o.app] = s]
  /\ orphans' = orphans \ {o}
  /\ UNCHANGED <<config, revision, restyled, build, generation, plan, ledger, jobs,
                 memory, restarts, overtaken, stranded>>

----------------------------------------------------------------------------

Edit(a) ==
  \/ \E d \in Definitions : Update(a, d)
  \/ \E s \in Sources :
       \/ SetStyle(a, s) \/ SetStyleThrows(a, s) \/ EditFile(a, s)
       \/ \E kind \in Kinds : SetCapabilities(a, kind, s)
  \/ \E s \in PlanInputs : SetPlan(a, s)
  \/ RecordPlanReply(a)

Operate(a) ==
  \/ StartBuild(a)
  \/ \E ok \in BOOLEAN : BuildSourceTree(a, ok)
  \/ \E planned \in BOOLEAN, s \in Sources :
       StartGeneration(a, planned, s) \/ StartGenerationThrows(a, planned, s)
  \/ CancelGeneration(a)
  \/ Publish(a)
  \/ \E n \in DOMAIN releases[a] : Rollback(a, n)

SandboxStep == \E j \in sandbox, ok \in BOOLEAN : BuilderReturns(j, ok)

\* A model call ends: the adapter host kills it at its deadline.
ReplyStep(r) ==
  \/ \E d \in Definitions : AcceptReply(r, d)
  \/ RejectReply(r)
  \/ FailRun(r)
  \/ UnwindRun(r)

RunStep == \E r \in runs : ReplyStep(r) \/ \E s \in Sources : Scaffold(r, s)

Crash == Restart \/ \E a \in Apps, s \in Sources : CrashInEdit(a, s)

OrphanStep == \E o \in orphans, s \in Sources : OrphanScaffolds(o, s)

Next ==
  \/ \E a \in Apps : Edit(a) \/ Operate(a)
  \/ SandboxStep
  \/ RunStep
  \/ OrphanStep
  \/ Crash

Spec == Init /\ [][Next]_vars

----------------------------------------------------------------------------
(* Fairness: a sandboxed build is killed after 30 seconds and a model call at
   its adapter's deadline, so each promise settles; nobody has to click.     *)

Fairness ==
  /\ \A a \in Apps : WF_vars(\E j \in SandboxOf(a), ok \in BOOLEAN : BuilderReturns(j, ok))
  /\ \A a \in Apps : WF_vars(\E r \in runs : r.app = a /\ ReplyStep(r))

FairSpec == Spec /\ Fairness

----------------------------------------------------------------------------
(* Properties *)

Results == Sources \cup {None}

Definition == [tier : Tiers, kind : Kinds, source : Sources \cup {None}]

ReleaseRecord == [config : Definition, result : Results]

BuildRecord == [id : Nat, status : {"none", "building", "ready", "failed"},
                revision : Nat, result : Results]

GenerationRecord == [id : Nat, attempt : Nat, base : Nat,
                     status : {"none", "generating", "ready", "failed", "cancelled"}]

SandboxJob == [app : Apps, id : Nat, source : Results]

Run == [app : Apps, id : Nat, aborted : BOOLEAN, workdir : BOOLEAN, wrote : BOOLEAN]

\* The records that demo/store.js keeps have the shape its readers expect.
TypeOK ==
  /\ config \in [Apps -> Definition]
  /\ revision \in [Apps -> Nat]
  /\ tree \in [Apps -> Results]
  /\ restyled \subseteq Apps
  /\ build \in [Apps -> BuildRecord]
  /\ generation \in [Apps -> GenerationRecord]
  /\ plan \in [Apps -> [status : PlanStatuses, owner : Nat]]
  /\ number \in [Apps -> Nat]
  /\ releases = [a \in Apps |-> releases[a]]
  /\ \A a \in Apps : releases[a] \in [DOMAIN releases[a] -> ReleaseRecord]
  /\ jobs \in [Apps -> Nat]
  /\ sandbox \subseteq SandboxJob
  /\ runs \subseteq Run
  /\ abortOf \in [Apps -> Nat]
  /\ running \in Int /\ generating \in Int
  /\ restarts \in Nat
  /\ overtaken \in [Apps -> BOOLEAN]
  /\ stranded \subseteq [app : Apps, id : Nat]
  /\ orphans \subseteq [app : Apps, id : Nat]

\* Slots are taken and given back exactly once per promise, through cancels,
\* failures, rollbacks and restarts, and the two-at-a-time limits hold.  The
\* slots of starts that threw are the only ones lost, until the next restart.
SlotsAccounted ==
  /\ running = Cardinality(sandbox) /\ running <= BuildSlots
  /\ generating = Cardinality(runs) + Cardinality(stranded) /\ generating <= GenSlots

\* An artifact is never being built and generated at once: startBuild and
\* startGeneration each look at the other's status, and nothing that writes one
\* status while the other is active may leave both set.
BuildExcludesGeneration == \A a \in Apps : ~(Building(a) /\ Generating(a))

\* "generating" means that one live run works on the artifact, unless its start
\* threw, and that cancelGeneration would abort that very generation, even while
\* runs cancelled earlier are still unwinding; and no run is live behind an
\* outcome already recorded.
OneLiveRun ==
  /\ \A a \in Apps : Generating(a) =>
       /\ abortOf[a] = generation[a].id
       /\ \/ Stranded(a)
          \/ \E r \in runs : r.app = a /\ r.id = generation[a].id /\ ~r.aborted
  /\ \A r \in runs : ~r.aborted => Generating(r.app) /\ generation[r.app].id = r.id

\* Nothing is "building" without a promise that will end it.
BuildingHasSandbox ==
  \A a \in Apps : Building(a) => \E j \in sandbox : j.app = a /\ j.id = build[a].id

\* The publish guard (build ready, at the current revision) admits only the
\* bytes that compile() derives from the draft it publishes, unless a rollback
\* has overtaken a running build.
PublishableIsCurrent ==
  \A a \in Apps :
    /\ build[a].status = "ready" /\ build[a].revision = revision[a]
    /\ config[a].tier # "app" /\ ~overtaken[a]
    => build[a].result = config[a].source

\* The release of a definition that carries its source has that source's result.
Attested(release) == release.config.tier # "app" => release.result = release.config.source

\* Every retained release, published or rolled forward to, carries the result
\* that was verified against its own definition, unless a rollback has
\* overtaken a running build.
ReleasesAttested ==
  \A a \in Apps : ~overtaken[a] =>
    \A n \in DOMAIN releases[a] : Attested(releases[a][n])

\* Only what can be served is ever released: never an intent, and a tree only
\* with a digest.
ReleasesBuildable ==
  \A a \in Apps : \A n \in DOMAIN releases[a] :
    releases[a][n].config.tier # "intent" /\ releases[a][n].result # None

\* The tree of an app-tier artifact lives outside its definition, so the publish
\* guard sees a change only through the revision: every change bumps it in the
\* same step.  The exceptions are the writes on behalf of a generation (its run,
\* its start that threw, its child that a crash left behind) and the edit that a
\* crash cuts off from its record.
TreeEditsBumpRevision ==
  [][\A a \in Apps : tree'[a] # tree[a] =>
       \/ revision'[a] > revision[a]
       \/ \E r \in runs' : r.app = a /\ r.workdir /\ ~r.aborted
       \/ \E o \in (stranded' \ stranded) \cup (orphans \ orphans') : o.app = a
       \/ restarts' > restarts /\ config[a].tier = "app" /\ ~Generating(a)]_vars

\* A run that links the plan settles it however it ends, cancellation included;
\* only a restart, or a start that threw, leaves a plan executing without its run.
RunSettlesPlan ==
  restarts = 0 =>
    \A a \in Apps : plan[a].status = "executing" /\ plan[a].owner # 0 =>
      \/ Job(a, plan[a].owner) \in stranded
      \/ \E r \in runs : r.app = a /\ r.id = plan[a].owner

\* The outcome of a generation is final: a late reply of a cancelled or dead run
\* changes neither its own generation nor a newer one.
OutcomesFinal ==
  [][\A a \in Apps :
       generation[a].status \in {"ready", "failed", "cancelled"} =>
         \/ generation'[a] = generation[a]
         \/ generation'[a].id > generation[a].id]_vars

\* publish() and rollback() keep the ledger they promise (ReleaseLedger): builds,
\* generations, late promises and restarts are edits of the draft or stutters.
Ledger == INSTANCE ReleaseLedger WITH Configs <- Definition, Results <- Results
LedgerKept == Ledger!Spec

\* A rollback is offered exactly the latest Retained releases.
RollbackWindow == Ledger!KeepsLatest

\* A build ends, a generation whose promise began ends, whatever fails, and so
\* does an aborted run.
BuildsSettle      == \A a \in Apps : Building(a) ~> ~Building(a)
GenerationsSettle == \A a \in Apps : (Generating(a) /\ ~Stranded(a)) ~> ~Generating(a)
SlotsDrain        == \A a \in Apps : (\E r \in runs : r.app = a /\ r.aborted)
                                       ~> ~(\E r \in runs : r.app = a /\ r.aborted)

----------------------------------------------------------------------------
(* What the repository's text says, where the code does otherwise *)

\* store.js on rollback: the result of a retained release was verified against
\* its definition when it was published.  Without the exception above.
ReleasesVerified ==
  \A a \in Apps : \A n \in DOMAIN releases[a] : Attested(releases[a][n])

\* store.js on startGeneration and on cancelGeneration: two generations are
\* already running when a third is refused, and the slot of each is freed.
RefusedForRuns == generating >= GenSlots => Cardinality(runs) >= GenSlots

\* server.js on cancel_generation: nothing is written to the application.  A
\* build that was current before the cancelled run still describes the artifact,
\* although the run's child had written its files.
CancelLeavesArtifact ==
  \A a \in Apps :
    /\ generation[a].status = "cancelled"
    /\ \E r \in runs : r.app = a /\ r.id = generation[a].id /\ r.wrote
    /\ build[a].status = "ready" /\ build[a].revision = revision[a]
    => build[a].result = Compile(config[a], tree[a])

\* specs/demo.md: draft revision conflicts are rejected.  A run replaces only the
\* draft it was given.
AcceptedRunSawDraft ==
  [][\A a \in Apps : Generating(a) /\ generation'[a].status = "ready"
       => generation[a].base = revision[a]]_vars

=============================================================================
