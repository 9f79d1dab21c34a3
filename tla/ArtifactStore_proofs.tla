------------------------- MODULE ArtifactStore_proofs -------------------------
(***************************************************************************)
(* Theorems about the artifact lifecycle, for any set of applications,     *)
(* definitions, limits and bounds.                                         *)
(***************************************************************************)
EXTENDS ArtifactStore, FiniteSetTheorems, TLAPS

(* Type correctness *)

\* A definition that an edit may install is a Definition.
LEMMA DefinitionsTyped == Definitions \subseteq Definition
  BY DefinitionsAssumption DEF Definition

\* A crash loses the server's memory, whatever it leaves of the tree.
LEMMA CrashReboots ==
  ASSUME Crash
  PROVE  Reboot
  BY DEF Crash, Restart, CrashInEdit

\* A child left behind writes a tree and nothing else that the store looks at.
LEMMA OrphanWritesTree ==
  ASSUME OrphanStep
  PROVE  UNCHANGED <<config, revision, restyled, build, generation, plan, number, releases,
                     jobs, sandbox, runs, abortOf, running, generating,
                     restarts, overtaken, stranded>>
  BY DEF OrphanStep, OrphanScaffolds, ledger, memory

LEMMA SetDraftType ==
  ASSUME NEW a \in Apps, NEW d \in Definition, SetDraft(a, d),
         config \in [Apps -> Definition], revision \in [Apps -> Nat]
  PROVE  config' \in [Apps -> Definition] /\ revision' \in [Apps -> Nat]
  BY DEF SetDraft

LEMMA ReleaseType ==
  ASSUME NEW a \in Apps, NEW d \in Definition, NEW x \in Results,
         Release(a, d, x), TypeOK
  PROVE  /\ number' \in [Apps -> Nat]
         /\ releases' = [b \in Apps |-> releases'[b]]
         /\ \A b \in Apps : releases'[b] \in [DOMAIN releases'[b] -> ReleaseRecord]
<1> DEFINE n == number[a] + 1
           c == [config |-> d, result |-> x]
           kept == [m \in Kept(a, n) |-> IF m = n THEN c ELSE releases[a][m]]
<1>1. number' \in [Apps -> Nat]
  BY DEF Release, NextNumber, TypeOK
<1>2. releases' = [releases EXCEPT ![a] = kept]
  BY DEF Release, NextNumber
<1>3. releases' = [b \in Apps |-> IF b = a THEN kept ELSE releases[b]]
  BY <1>2 DEF TypeOK
<1>4. c \in ReleaseRecord
  BY DEF ReleaseRecord
<1>5. kept \in [DOMAIN kept -> ReleaseRecord]
  BY <1>4 DEF TypeOK, Kept
<1> QED
  BY <1>1, <1>3, <1>5 DEF TypeOK

LEMMA EndRunType ==
  ASSUME NEW r \in runs, NEW status, EndRun(r, status), TypeOK
  PROVE  /\ runs' \subseteq Run
         /\ generating' \in Int
         /\ abortOf' \in [Apps -> Nat]
         /\ plan' \in [Apps -> [status : PlanStatuses, owner : Nat]]
<1>1. r \in Run
  BY DEF TypeOK
<1>2. r.app \in Apps /\ r.id \in Nat
  BY <1>1 DEF Run
<1>3. Settled(plan[r.app], r, status) \in [status : PlanStatuses, owner : Nat]
  BY <1>2 DEF Settled, TypeOK, PlanStatuses
<1>4. AbortAfter(r) \in Nat
  BY <1>2 DEF AbortAfter, TypeOK
<1> QED
  BY <1>2, <1>3, <1>4 DEF EndRun, TypeOK

LEMMA TypeInit == Init => TypeOK
<1> SUFFICES ASSUME Init PROVE TypeOK
  OBVIOUS
<1>1. config \in [Apps -> Definition]
  BY DefinitionsTyped DEF Init
<1>2. \A a \in Apps : releases[a] \in [DOMAIN releases[a] -> ReleaseRecord]
  BY DEF Init
<1> QED
  BY <1>1, <1>2 DEF Init, TypeOK, NoBuild, NoGeneration, BuildRecord, GenerationRecord,
        PlanStatuses, Results

LEMMA WithSourceType ==
  ASSUME NEW d \in Definition, NEW s \in Sources
  PROVE  WithSource(d, s) \in Definition
<1>1. [d EXCEPT !.source = s] \in Definition
  BY DEF Definition
<1> QED
  BY <1>1 DEF WithSource

LEMMA TypeEdit ==
  ASSUME TypeOK, NEW a \in Apps, Edit(a)
  PROVE  TypeOK'
<1> USE DEF draft, ledger, memory, aside
<1>1. ASSUME NEW d \in Definitions, Update(a, d) PROVE TypeOK'
  BY <1>1, SetDraftType, DefinitionsTyped DEF Update, Restyle, TypeOK
<1>2. ASSUME NEW s \in Sources, SetStyle(a, s) PROVE TypeOK'
  <2>1. WithSource(config[a], s) \in Definition
    BY WithSourceType DEF TypeOK
  <2>2. config' \in [Apps -> Definition] /\ revision' \in [Apps -> Nat]
    BY <1>2, <2>1, SetDraftType DEF SetStyle, TypeOK
  <2>3. tree' \in [Apps -> Results] /\ restyled' \subseteq Apps
    BY <1>2 DEF SetStyle, TypeOK, Results
  <2> QED
    BY <1>2, <2>2, <2>3 DEF SetStyle, TypeOK
<1>7. ASSUME NEW s \in Sources, SetStyleThrows(a, s) PROVE TypeOK'
  <2>1. config' \in [Apps -> Definition] /\ revision' \in [Apps -> Nat]
    BY <1>7, SetDraftType DEF SetStyleThrows, TypeOK
  <2>2. tree' \in [Apps -> Results] /\ restyled' \subseteq Apps
    BY <1>7 DEF SetStyleThrows, TypeOK, Results
  <2> QED
    BY <1>7, <2>1, <2>2 DEF SetStyleThrows, TypeOK
<1>6. ASSUME NEW s \in Sources, NEW kind \in Kinds, SetCapabilities(a, kind, s) PROVE TypeOK'
  <2> DEFINE d == WithSource(config[a], s)
  <2>1. [d EXCEPT !.kind = kind] \in Definition
    <3>1. d \in Definition
      BY WithSourceType DEF TypeOK
    <3> HIDE DEF d
    <3> QED
      BY <3>1 DEF Definition
  <2>2. config' \in [Apps -> Definition] /\ revision' \in [Apps -> Nat]
    BY <1>6, <2>1, SetDraftType DEF SetCapabilities, TypeOK
  <2> QED
    BY <1>6, <2>2 DEF SetCapabilities, TypeOK
<1>3. ASSUME NEW s \in Sources, EditFile(a, s) PROVE TypeOK'
  <2>1. [config[a] EXCEPT !.source = s] \in Definition /\ config[a] \in Definition
    BY DEF TypeOK, Definition
  <2>2. config' \in [Apps -> Definition] /\ revision' \in [Apps -> Nat]
    BY <1>3, <2>1, SetDraftType DEF EditFile, TypeOK
  <2>3. tree' \in [Apps -> Results]
    BY <1>3 DEF EditFile, TypeOK, Results
  <2> QED
    BY <1>3, <2>2, <2>3 DEF EditFile, TypeOK
<1>4. ASSUME NEW s \in PlanInputs, SetPlan(a, s) PROVE TypeOK'
  BY <1>4, PlanInputsAssumption DEF SetPlan, TypeOK
<1>5. ASSUME RecordPlanReply(a) PROVE TypeOK'
  BY <1>5 DEF RecordPlanReply, TypeOK, PlanStatuses
<1> QED
  BY <1>1, <1>2, <1>3, <1>4, <1>5, <1>6, <1>7 DEF Edit

LEMMA TypeOperate ==
  ASSUME TypeOK, NEW a \in Apps, Operate(a)
  PROVE  TypeOK'
<1> USE DEF draft, ledger, memory, aside
<1>0. FreshJob(a) \in Nat
  BY DEF FreshJob, TypeOK
<1>1. ASSUME StartBuild(a) PROVE TypeOK'
  <2>1. Compile(config[a], tree[a]) \in Results
    BY DEF Compile, TypeOK, Definition, Results
  <2>2. sandbox' \subseteq SandboxJob
    BY <1>1, <1>0, <2>1 DEF StartBuild, TypeOK, SandboxJob
  <2>3. build' \in [Apps -> BuildRecord]
    BY <1>1, <1>0 DEF StartBuild, TypeOK, BuildRecord, Results
  <2> QED
    BY <1>1, <2>2, <2>3 DEF StartBuild, TypeOK
<1>2. ASSUME NEW ok \in BOOLEAN, BuildSourceTree(a, ok) PROVE TypeOK'
  <2>1. Compile(config[a], tree[a]) \in Results
    BY DEF Compile, TypeOK, Definition, Results
  <2>2. build' \in [Apps -> BuildRecord]
    BY <1>2, <1>0, <2>1 DEF BuildSourceTree, TypeOK, BuildRecord, Results
  <2> QED
    BY <1>2, <2>2 DEF BuildSourceTree, TypeOK
<1>3. ASSUME NEW planned \in BOOLEAN, TakeSlot(a, planned)
      PROVE  /\ generation' \in [Apps -> GenerationRecord]
             /\ plan' \in [Apps -> [status : PlanStatuses, owner : Nat]]
             /\ jobs' \in [Apps -> Nat] /\ abortOf' \in [Apps -> Nat] /\ generating' \in Int
             /\ UNCHANGED <<config, revision, build, ledger, sandbox, running,
                            restarts, overtaken, orphans>>
  <2>1. generation' \in [Apps -> GenerationRecord]
    BY <1>3, <1>0 DEF TakeSlot, TypeOK, GenerationRecord
  <2>2. plan' \in [Apps -> [status : PlanStatuses, owner : Nat]]
    BY <1>3, <1>0 DEF TakeSlot, TypeOK, PlanStatuses
  <2> QED
    BY <1>3, <1>0, <2>1, <2>2 DEF TakeSlot, TypeOK
<1>7. ASSUME NEW planned \in BOOLEAN, NEW s \in Sources, StartGeneration(a, planned, s) PROVE TypeOK'
  <2>1. runs' \subseteq Run
    <3> DEFINE handed == config[a].kind = "server"
    <3>1. handed \in BOOLEAN
      OBVIOUS
    <3> HIDE DEF handed
    <3>2. [app |-> a, id |-> FreshJob(a), aborted |-> FALSE,
           workdir |-> handed, wrote |-> FALSE] \in Run
      BY <1>0, <3>1 DEF Run
    <3>3. runs' = runs \cup {[app |-> a, id |-> FreshJob(a), aborted |-> FALSE,
                              workdir |-> handed, wrote |-> FALSE]}
      BY <1>7 DEF StartGeneration, handed
    <3> QED
      BY <3>2, <3>3 DEF TypeOK
  <2>2. tree' \in [Apps -> Results] /\ restyled' \subseteq Apps
    BY <1>7 DEF StartGeneration, TypeOK, Results
  <2>3. TakeSlot(a, planned) /\ UNCHANGED stranded
    BY <1>7 DEF StartGeneration
  <2> QED
    BY <1>3, <2>1, <2>2, <2>3 DEF TypeOK
<1>8. ASSUME NEW planned \in BOOLEAN, NEW s \in Sources, StartGenerationThrows(a, planned, s)
      PROVE  TypeOK'
  <2>1. tree' \in [Apps -> Results] /\ restyled' \subseteq Apps
    BY <1>8 DEF StartGenerationThrows, TypeOK, Results
  <2>2. stranded' \subseteq [app : Apps, id : Nat]
    BY <1>8, <1>0 DEF StartGenerationThrows, TypeOK, Job
  <2>3. TakeSlot(a, planned) /\ UNCHANGED runs
    BY <1>8 DEF StartGenerationThrows
  <2> QED
    BY <1>3, <2>1, <2>2, <2>3 DEF TypeOK
<1>4. ASSUME CancelGeneration(a) PROVE TypeOK'
  <2>1. runs' \subseteq Run
    <3>1. \A r \in runs : r \in Run /\ [r EXCEPT !.aborted = TRUE] \in Run
      BY DEF TypeOK, Run
    <3> QED
      BY <1>4, <3>1 DEF CancelGeneration
  <2>2. generation' \in [Apps -> GenerationRecord]
    <3>1. generation \in [Apps -> GenerationRecord]
      BY DEF TypeOK
    <3>2. [generation[a] EXCEPT !.status = "cancelled"] \in GenerationRecord
      BY <3>1 DEF GenerationRecord
    <3>3. generation' = [generation EXCEPT ![a] = [generation[a] EXCEPT !.status = "cancelled"]]
      BY <1>4 DEF CancelGeneration
    <3> QED
      BY <3>1, <3>2, <3>3
  <2> QED
    BY <1>4, <2>1, <2>2 DEF CancelGeneration, TypeOK
<1>5. ASSUME Publish(a) PROVE TypeOK'
  <2>1. config[a] \in Definition /\ build[a].result \in Results
    BY DEF TypeOK, BuildRecord
  <2> QED
    BY <1>5, <2>1, ReleaseType DEF Publish, TypeOK
<1>6. ASSUME NEW n \in DOMAIN releases[a], Rollback(a, n) PROVE TypeOK'
  <2>1. releases[a][n].config \in Definition /\ releases[a][n].result \in Results
    BY DEF TypeOK, ReleaseRecord
  <2>2. config' \in [Apps -> Definition] /\ revision' \in [Apps -> Nat]
    BY <1>6, <2>1, SetDraftType DEF Rollback, TypeOK
  <2>3. build' \in [Apps -> BuildRecord]
    <3>1. revision[a] + 1 \in Nat
      BY DEF TypeOK
    <3>2. [id |-> FreshJob(a), status |-> "ready", revision |-> revision[a] + 1,
           result |-> releases[a][n].result] \in BuildRecord
      BY <1>0, <2>1, <3>1 DEF BuildRecord
    <3> QED
      BY <1>6, <3>2 DEF Rollback, TypeOK
  <2>4. overtaken' \in [Apps -> BOOLEAN]
    BY <1>6 DEF Rollback, TypeOK
  <2>5. Release(a, releases[a][n].config, releases[a][n].result)
    BY <1>6 DEF Rollback
  <2>6. /\ number' \in [Apps -> Nat]
        /\ releases' = [b \in Apps |-> releases'[b]]
        /\ \A b \in Apps : releases'[b] \in [DOMAIN releases'[b] -> ReleaseRecord]
    BY <2>1, <2>5, ReleaseType
  <2>7. jobs' \in [Apps -> Nat]
    BY <1>6 DEF Rollback, TypeOK
  <2>8. UNCHANGED <<tree, generation, plan, memory, restarts, stranded, orphans>> /\ restyled' \subseteq Apps
    BY <1>6 DEF Rollback, Restyle, TypeOK
  <2> QED
    BY <2>2, <2>3, <2>4, <2>6, <2>7, <2>8 DEF TypeOK
<1> QED
  BY <1>1, <1>2, <1>7, <1>8, <1>4, <1>5, <1>6 DEF Operate

LEMMA TypePromise ==
  ASSUME TypeOK, SandboxStep \/ RunStep
  PROVE  TypeOK'
<1> USE DEF draft, ledger, memory, aside
<1>1. ASSUME NEW j \in sandbox, NEW ok \in BOOLEAN, BuilderReturns(j, ok) PROVE TypeOK'
  <2>1. j.app \in Apps /\ j.source \in Results
    BY DEF TypeOK, SandboxJob
  <2>2. Verdict(build[j.app], j, ok) \in BuildRecord
    <3>1. build[j.app] \in BuildRecord
      BY <2>1 DEF TypeOK
    <3>2. /\ [build[j.app] EXCEPT !.status = "ready", !.result = j.source] \in BuildRecord
          /\ [build[j.app] EXCEPT !.status = "failed"] \in BuildRecord
      BY <2>1, <3>1 DEF BuildRecord
    <3> QED
      BY <3>2 DEF Verdict
  <2> QED
    BY <1>1, <2>1, <2>2 DEF BuilderReturns, TypeOK
<1>2. ASSUME NEW r \in runs PROVE r.app \in Apps /\ r \in Run
  BY DEF TypeOK, Run
<1>3. ASSUME NEW r \in runs, NEW s \in {"ready", "failed"}
      PROVE  [generation EXCEPT ![r.app].status = s] \in [Apps -> GenerationRecord]
  <2>1. generation[r.app] \in GenerationRecord /\ generation \in [Apps -> GenerationRecord]
    BY <1>2 DEF TypeOK
  <2>2. [generation[r.app] EXCEPT !.status = s] \in GenerationRecord
    BY <2>1 DEF GenerationRecord
  <2> QED
    BY <2>1, <2>2
<1>4. ASSUME NEW r \in runs, NEW d \in Definitions, AcceptReply(r, d) PROVE TypeOK'
  <2>1. config' \in [Apps -> Definition] /\ revision' \in [Apps -> Nat]
    BY <1>2, <1>4, DefinitionsTyped, SetDraftType DEF AcceptReply, TypeOK
  <2>2. generation' \in [Apps -> GenerationRecord]
    BY <1>3, <1>4 DEF AcceptReply
  <2> QED
    BY <1>4, <2>1, <2>2, EndRunType DEF AcceptReply, TypeOK
<1>5. ASSUME NEW r \in runs, RejectReply(r) PROVE TypeOK'
  <2>1. generation' \in [Apps -> GenerationRecord]
    <3>1. generation[r.app] \in GenerationRecord
      BY <1>2 DEF TypeOK
    <3> DEFINE retried == [generation[r.app] EXCEPT
                             !.attempt = generation[r.app].attempt + 1]
    <3>2. retried \in GenerationRecord
      BY <3>1 DEF GenerationRecord
    <3>3. generation' = [generation EXCEPT ![r.app] = retried]
      BY <1>5 DEF RejectReply, NextAttempt
    <3> QED
      BY <3>2, <3>3 DEF TypeOK
  <2>2. runs' \subseteq Run
    BY <1>2, <1>5 DEF RejectReply, TypeOK, Run
  <2> QED
    BY <1>5, <2>1, <2>2 DEF RejectReply, TypeOK
<1>6. ASSUME NEW r \in runs, FailRun(r) PROVE TypeOK'
  <2>1. generation' \in [Apps -> GenerationRecord]
    BY <1>3, <1>6 DEF FailRun
  <2> QED
    BY <1>6, <2>1, EndRunType DEF FailRun, TypeOK
<1>7. ASSUME NEW r \in runs, UnwindRun(r) PROVE TypeOK'
  BY <1>7, EndRunType DEF UnwindRun, TypeOK
<1>8. ASSUME NEW r \in runs, NEW s \in Sources, Scaffold(r, s) PROVE TypeOK'
  <2>1. runs' \subseteq Run
    BY <1>2, <1>8 DEF Scaffold, TypeOK, Run
  <2>2. tree' \in [Apps -> Results]
    BY <1>2, <1>8 DEF Scaffold, TypeOK, Results
  <2> QED
    BY <1>8, <2>1, <2>2 DEF Scaffold, TypeOK
<1> QED
  BY <1>1, <1>4, <1>5, <1>6, <1>7, <1>8 DEF SandboxStep, RunStep, ReplyStep

LEMMA TypeCrash ==
  ASSUME TypeOK, Crash
  PROVE  TypeOK'
<1> USE DEF draft, ledger, memory, aside
<1>0. Reboot
  BY CrashReboots
<1>1. build' \in [Apps -> BuildRecord]
  <2>1. \A a \in Apps : Interrupted(build[a]) \in BuildRecord
    BY DEF Interrupted, TypeOK, BuildRecord
  <2> QED
    BY <1>0, <2>1 DEF Reboot
<1>2. generation' \in [Apps -> GenerationRecord]
  <2>1. \A a \in Apps : generation[a] \in GenerationRecord /\ [generation[a] EXCEPT !.status = "failed"] \in GenerationRecord
    BY DEF TypeOK, GenerationRecord
  <2> QED
    BY <1>0, <2>1 DEF Reboot
<1>3. orphans' \subseteq [app : Apps, id : Nat]
  <2>1. LeftBehind \subseteq [app : Apps, id : Nat]
    BY DEF LeftBehind, Job, TypeOK, Run
  <2> QED
    BY <1>0, <2>1 DEF Reboot, TypeOK
<1>4. tree' \in [Apps -> Results] /\ restyled' \subseteq Apps
  BY DEF Crash, Restart, CrashInEdit, TypeOK, Results
<1> QED
  BY <1>0, <1>1, <1>2, <1>3, <1>4 DEF Reboot, TypeOK, SandboxJob, Run

LEMMA TypeOrphan ==
  ASSUME TypeOK, OrphanStep
  PROVE  TypeOK'
<1>1. PICK o \in orphans, s \in Sources : OrphanScaffolds(o, s)
  BY DEF OrphanStep
<1>2. tree' \in [Apps -> Results]
  BY <1>1 DEF OrphanScaffolds, TypeOK, Results
<1>3. orphans' \subseteq orphans
  BY <1>1 DEF OrphanScaffolds
<1> QED
  BY <1>2, <1>3, OrphanWritesTree DEF TypeOK

LEMMA TypeNext ==
  ASSUME TypeOK, [Next]_vars
  PROVE  TypeOK'
<1>1. CASE Next
  BY <1>1, TypeEdit, TypeOperate, TypePromise, TypeCrash, TypeOrphan DEF Next
<1>2. CASE UNCHANGED vars
  BY <1>2 DEF vars, TypeOK
<1> QED
  BY <1>1, <1>2

\* Every record the store keeps has the shape its readers expect, whatever the
\* order of edits, promises and restarts.
THEOREM TypeCorrect == Spec => []TypeOK
<1>1. Init => TypeOK
  BY TypeInit
<1>2. TypeOK /\ [Next]_vars => TypeOK'
  BY TypeNext
<1> QED
  BY <1>1, <1>2, PTL DEF Spec

-----------------------------------------------------------------------------
(* Publishing only what was verified.

   PublishableIsCurrent is not inductive: it does not say what a promise in
   flight may still write into app.build.  The strengthening adds that, until a
   rollback overtakes it, a sandboxed build is the only one of its artifact, is
   the one app.build names, and holds the current source whenever app.build
   claims the current revision; and that no build is ahead of the draft.      *)

SandboxTracked(a) ==
  ~overtaken[a] => \A j \in SandboxOf(a) :
    /\ Building(a)
    /\ \A k \in SandboxOf(a) : k = j
    /\ build[a].revision = revision[a] =>
         config[a].tier # "app" /\ j.source = config[a].source

BuildNotAhead(a) == build[a].revision <= revision[a]

BuildCurrent(a) ==
  /\ build[a].status = "ready" /\ build[a].revision = revision[a]
  /\ config[a].tier # "app" /\ ~overtaken[a]
  => build[a].result = config[a].source

ReleasesAttestedOf(a) ==
  ~overtaken[a] => \A n \in DOMAIN releases[a] : Attested(releases[a][n])

Held(a) == SandboxTracked(a) /\ BuildNotAhead(a) /\ BuildCurrent(a) /\ ReleasesAttestedOf(a)

PublishInv == TypeOK /\ \A a \in Apps : Held(a)

\* A step that leaves an artifact's draft, build, sandbox and releases alone.
LEMMA HeldFrame ==
  ASSUME NEW a \in Apps, Held(a),
         config'[a] = config[a], revision'[a] = revision[a], build'[a] = build[a],
         overtaken'[a] = overtaken[a], releases'[a] = releases[a],
         SandboxOf(a)' = SandboxOf(a)
  PROVE  Held(a)'
  BY DEF Held, SandboxTracked, BuildNotAhead, BuildCurrent, ReleasesAttestedOf,
         Building, Attested

\* A step that edits the draft and counts the edit: no build is current any more.
LEMMA HeldEdited ==
  ASSUME NEW a \in Apps, TypeOK, Held(a),
         revision'[a] = revision[a] + 1, build'[a] = build[a],
         overtaken'[a] = overtaken[a], releases'[a] = releases[a],
         SandboxOf(a)' = SandboxOf(a)
  PROVE  Held(a)'
<1>1. revision[a] \in Nat /\ build[a].revision \in Nat
  BY DEF TypeOK, BuildRecord
<1>2. build'[a].revision <= revision'[a] /\ build'[a].revision # revision'[a]
  BY <1>1 DEF Held, BuildNotAhead
<1> QED
  BY <1>2 DEF Held, SandboxTracked, BuildNotAhead, BuildCurrent, ReleasesAttestedOf,
              Building, Attested

\* SetDraft on one artifact, everything else the invariant reads unchanged.
LEMMA HeldSetDraft ==
  ASSUME PublishInv, NEW a \in Apps, NEW d, SetDraft(a, d),
         UNCHANGED <<build, overtaken, releases, sandbox>>
  PROVE  \A b \in Apps : Held(b)'
<1> SUFFICES ASSUME NEW b \in Apps PROVE Held(b)'
  OBVIOUS
<1>1. Held(b) /\ TypeOK /\ SandboxOf(b)' = SandboxOf(b)
  BY DEF PublishInv, SandboxOf
<1>2. CASE b = a
  BY <1>1, <1>2, HeldEdited DEF SetDraft, TypeOK
<1>3. CASE b # a
  BY <1>1, <1>3, HeldFrame DEF SetDraft, TypeOK
<1> QED
  BY <1>2, <1>3

\* A step the invariant does not see.
LEMMA HeldUnseen ==
  ASSUME PublishInv, UNCHANGED <<config, revision, build, overtaken, releases, sandbox>>
  PROVE  \A b \in Apps : Held(b)'
  BY HeldFrame DEF PublishInv, SandboxOf

LEMMA HeldInit == Init => PublishInv
<1> SUFFICES ASSUME Init PROVE PublishInv
  OBVIOUS
<1>1. TypeOK
  BY TypeInit
<1>2. ASSUME NEW a \in Apps PROVE Held(a)
  BY DEF Init, Held, SandboxTracked, SandboxOf, BuildNotAhead, BuildCurrent,
         ReleasesAttestedOf, NoBuild
<1> QED
  BY <1>1, <1>2 DEF PublishInv

LEMMA HeldEdit ==
  ASSUME PublishInv, NEW a \in Apps, Edit(a)
  PROVE  \A b \in Apps : Held(b)'
<1> USE DEF draft, ledger, memory, aside
<1>1. ASSUME NEW d \in Definitions, Update(a, d) PROVE \A b \in Apps : Held(b)'
  BY <1>1, HeldSetDraft DEF Update
<1>2. ASSUME NEW s \in Sources,
             SetStyle(a, s) \/ SetStyleThrows(a, s) \/ \E kind \in Kinds : SetCapabilities(a, kind, s)
      PROVE  \A b \in Apps : Held(b)'
  BY <1>2, HeldSetDraft DEF SetStyle, SetStyleThrows, SetCapabilities
<1>3. ASSUME NEW s \in Sources, EditFile(a, s) PROVE \A b \in Apps : Held(b)'
  BY <1>3, HeldSetDraft DEF EditFile
<1>4. ASSUME (\E s \in PlanInputs : SetPlan(a, s)) \/ RecordPlanReply(a)
      PROVE  \A b \in Apps : Held(b)'
  BY <1>4, HeldUnseen DEF SetPlan, RecordPlanReply
<1> QED
  BY <1>1, <1>2, <1>3, <1>4 DEF Edit

\* A build is admitted only when none is in flight, unless a rollback overtook one.
LEMMA BuildAdmitted ==
  ASSUME PublishInv, NEW a \in Apps, BuildAllowed(a), ~overtaken[a]
  PROVE  SandboxOf(a) = {}
  BY DEF PublishInv, Held, SandboxTracked, BuildAllowed, Building

LEMMA HeldStartBuild ==
  ASSUME PublishInv, NEW a \in Apps, StartBuild(a), NEW b \in Apps
  PROVE  Held(b)'
<1> USE DEF draft, ledger, memory, aside
<1> DEFINE j == [app |-> a, id |-> FreshJob(a), source |-> Compile(config[a], tree[a])]
<1>1. Held(b) /\ TypeOK
  BY DEF PublishInv
<1>2. sandbox' = sandbox \cup {j}
  BY DEF StartBuild
<1>3. UNCHANGED <<config, revision, overtaken, releases>>
  BY DEF StartBuild
<1>4. CASE b # a
  <2>1. SandboxOf(b)' = SandboxOf(b)
    BY <1>2, <1>4 DEF SandboxOf
  <2>2. build'[b] = build[b]
    BY <1>1, <1>4 DEF StartBuild, TypeOK
  <2> QED
    BY <1>1, <1>3, <2>1, <2>2, HeldFrame
<1>5. CASE b = a
  <2>1. build'[a] = [id |-> FreshJob(a), status |-> "building",
                     revision |-> revision[a], result |-> None]
    BY <1>1 DEF StartBuild, TypeOK
  <2>2. SandboxTracked(a)'
    <3> SUFFICES ASSUME ~overtaken[a], NEW i \in SandboxOf(a)'
                 PROVE  /\ Building(a)'
                        /\ \A k \in SandboxOf(a)' : k = i
                        /\ config[a].tier # "app" /\ i.source = config[a].source
      BY <1>3 DEF SandboxTracked
    <3>1. SandboxOf(a)' = {j}
      BY <1>2, BuildAdmitted DEF StartBuild, SandboxOf
    <3>2. j.source = config[a].source /\ config[a].tier # "app"
      BY DEF StartBuild, Compile
    <3> QED
      BY <2>1, <3>1, <3>2 DEF Building
  <2>3. BuildNotAhead(a)'
    BY <1>1, <1>3, <2>1 DEF BuildNotAhead, TypeOK
  <2>4. BuildCurrent(a)' /\ ReleasesAttestedOf(a)'
    BY <1>1, <1>3, <1>5, <2>1 DEF Held, BuildCurrent, ReleasesAttestedOf, Attested
  <2> QED
    BY <1>5, <2>2, <2>3, <2>4 DEF Held
<1> QED
  BY <1>4, <1>5

LEMMA HeldBuildSourceTree ==
  ASSUME PublishInv, NEW a \in Apps, NEW ok \in BOOLEAN, BuildSourceTree(a, ok), NEW b \in Apps
  PROVE  Held(b)'
<1> USE DEF draft, ledger, memory, aside
<1>1. Held(b) /\ TypeOK /\ SandboxOf(b)' = SandboxOf(b)
  BY DEF PublishInv, BuildSourceTree, SandboxOf
<1>2. UNCHANGED <<config, revision, overtaken, releases>>
  BY DEF BuildSourceTree
<1>3. CASE b # a
  BY <1>1, <1>2, <1>3, HeldFrame DEF BuildSourceTree, TypeOK
<1>4. CASE b = a
  <2>1. build'[a].revision = revision[a] /\ config[a].tier = "app"
    BY <1>1 DEF BuildSourceTree, TypeOK
  <2>2. SandboxTracked(a)'
    BY <1>1, <1>2, <1>4, BuildAdmitted DEF BuildSourceTree, SandboxTracked
  <2>3. BuildNotAhead(a)' /\ BuildCurrent(a)'
    BY <1>1, <1>2, <2>1 DEF BuildNotAhead, BuildCurrent, TypeOK
  <2>4. ReleasesAttestedOf(a)'
    BY <1>1, <1>2, <1>4 DEF Held, ReleasesAttestedOf, Attested
  <2> QED
    BY <1>4, <2>2, <2>3, <2>4 DEF Held
<1> QED
  BY <1>3, <1>4

\* A release of an attested pair leaves only attested releases.
LEMMA AttestedRelease ==
  ASSUME TypeOK, NEW a \in Apps, NEW d, NEW x, Release(a, d, x),
         ReleasesAttestedOf(a), ~overtaken[a], d.tier # "app" => x = d.source
  PROVE  \A n \in DOMAIN releases'[a] : Attested(releases'[a][n])
<1> DEFINE n == number[a] + 1
           c == [config |-> d, result |-> x]
<1>1. releases'[a] = [m \in Kept(a, n) |-> IF m = n THEN c ELSE releases[a][m]]
  BY DEF Release, NextNumber, TypeOK
<1>2. Attested(c)
  BY DEF Attested
<1>3. \A m \in Kept(a, n) : m # n => m \in DOMAIN releases[a]
  BY DEF Kept
<1> QED
  BY <1>1, <1>2, <1>3 DEF ReleasesAttestedOf

\* Release() touches one artifact's releases.
LEMMA ReleaseElsewhere ==
  ASSUME TypeOK, NEW a \in Apps, NEW d, NEW x, Release(a, d, x), NEW b \in Apps, b # a
  PROVE  releases'[b] = releases[b]
  BY DEF Release, TypeOK

LEMMA HeldPublish ==
  ASSUME PublishInv, NEW a \in Apps, Publish(a), NEW b \in Apps
  PROVE  Held(b)'
<1> USE DEF draft, ledger, memory, aside
<1>1. Held(b) /\ TypeOK /\ SandboxOf(b)' = SandboxOf(b)
  BY DEF PublishInv, Publish, SandboxOf
<1>2. UNCHANGED <<config, revision, build, overtaken>> /\ Release(a, config[a], build[a].result)
  BY DEF Publish
<1>3. CASE b # a
  BY <1>1, <1>2, <1>3, HeldFrame, ReleaseElsewhere
<1>4. CASE b = a
  <2>1. SandboxTracked(a)' /\ BuildNotAhead(a)' /\ BuildCurrent(a)'
    BY <1>1, <1>2, <1>4 DEF Held, SandboxTracked, BuildNotAhead, BuildCurrent, Building
  <2>2. ~overtaken[a] /\ config[a].tier # "app" => build[a].result = config[a].source
    BY <1>1, <1>4 DEF Publish, PublishAllowed, Held, BuildCurrent
  <2>3. ReleasesAttestedOf(a)'
    BY <1>1, <1>2, <1>4, <2>2, AttestedRelease DEF Held, ReleasesAttestedOf, Attested
  <2> QED
    BY <1>4, <2>1, <2>3 DEF Held
<1> QED
  BY <1>3, <1>4

LEMMA HeldRollback ==
  ASSUME PublishInv, NEW a \in Apps, NEW n \in DOMAIN releases[a], Rollback(a, n), NEW b \in Apps
  PROVE  Held(b)'
<1> USE DEF draft, ledger, memory, aside
<1> DEFINE target == releases[a][n]
<1>1. Held(b) /\ TypeOK /\ SandboxOf(b)' = SandboxOf(b)
  BY DEF PublishInv, Rollback, SandboxOf
<1>2. Release(a, target.config, target.result) /\ SetDraft(a, target.config)
  BY DEF Rollback
<1>3. CASE b # a
  <2>1. config'[b] = config[b] /\ revision'[b] = revision[b]
    BY <1>1, <1>2, <1>3 DEF SetDraft, TypeOK
  <2>2. build'[b] = build[b] /\ overtaken'[b] = overtaken[b]
    BY <1>1, <1>3 DEF Rollback, TypeOK
  <2> QED
    BY <1>1, <1>2, <1>3, <2>1, <2>2, HeldFrame, ReleaseElsewhere
<1>4. CASE b = a
  <2>1. config'[a] = target.config /\ revision'[a] = revision[a] + 1
    BY <1>1, <1>2 DEF SetDraft, TypeOK
  <2>2. build'[a] = [id |-> FreshJob(a), status |-> "ready",
                     revision |-> revision[a] + 1, result |-> target.result]
    BY <1>1 DEF Rollback, TypeOK
  <2>3. overtaken'[a] = (overtaken[a] \/ SandboxOf(a) # {})
    BY <1>1 DEF Rollback, TypeOK
  <2>4. SandboxTracked(a)'
    BY <1>1, <1>4, <2>3 DEF SandboxTracked
  <2>5. BuildNotAhead(a)'
    BY <1>1, <2>1, <2>2 DEF BuildNotAhead, TypeOK
  <2>6. ASSUME ~overtaken[a] PROVE Attested(target)
    BY <1>1, <1>4, <2>6 DEF Held, ReleasesAttestedOf
  <2>7. BuildCurrent(a)'
    <3>1. ~overtaken'[a] => ~overtaken[a]
      BY <2>3
    <3>2. ~overtaken'[a] /\ target.config.tier # "app" => target.result = target.config.source
      BY <2>6, <3>1 DEF Attested
    <3>3. build'[a].result = target.result
      BY <2>2
    <3> QED
      BY <2>1, <3>2, <3>3 DEF BuildCurrent
  <2>8. ReleasesAttestedOf(a)'
    <3> SUFFICES ASSUME ~overtaken'[a]
                 PROVE  \A m \in DOMAIN releases'[a] : Attested(releases'[a][m])
      BY DEF ReleasesAttestedOf, Attested
    <3>1. ~overtaken[a]
      BY <2>3
    <3>2. ReleasesAttestedOf(a)
      BY <1>1, <1>4 DEF Held
    <3>3. target.config.tier # "app" => target.result = target.config.source
      BY <2>6, <3>1 DEF Attested
    <3> QED
      BY <1>1, <1>2, <3>1, <3>2, <3>3, AttestedRelease
  <2> QED
    BY <1>4, <2>4, <2>5, <2>7, <2>8 DEF Held
<1> QED
  BY <1>3, <1>4

LEMMA HeldOperate ==
  ASSUME PublishInv, NEW a \in Apps, Operate(a)
  PROVE  \A b \in Apps : Held(b)'
<1> USE DEF draft, ledger, memory, aside
<1>1. ASSUME CancelGeneration(a) PROVE \A b \in Apps : Held(b)'
  BY <1>1, HeldUnseen DEF CancelGeneration
<1>2. ASSUME NEW planned \in BOOLEAN, NEW s \in Sources,
             StartGeneration(a, planned, s) \/ StartGenerationThrows(a, planned, s)
      PROVE  \A b \in Apps : Held(b)'
  BY <1>2, HeldUnseen DEF StartGeneration, StartGenerationThrows, TakeSlot
<1> QED
  BY <1>1, <1>2, HeldStartBuild, HeldBuildSourceTree, HeldPublish, HeldRollback DEF Operate

LEMMA HeldBuilderReturns ==
  ASSUME PublishInv, NEW j \in sandbox, NEW ok \in BOOLEAN, BuilderReturns(j, ok), NEW b \in Apps
  PROVE  Held(b)'
<1> USE DEF draft, ledger, memory, aside
<1>1. Held(b) /\ TypeOK /\ j.app \in Apps
  BY DEF PublishInv, TypeOK, SandboxJob
<1>2. UNCHANGED <<config, revision, overtaken, releases>> /\ sandbox' = sandbox \ {j}
  BY DEF BuilderReturns
<1>3. CASE b # j.app
  <2>1. SandboxOf(b)' = SandboxOf(b)
    BY <1>2, <1>3 DEF SandboxOf
  <2>2. build'[b] = build[b]
    BY <1>1, <1>3 DEF BuilderReturns, TypeOK
  <2> QED
    BY <1>1, <1>2, <2>1, <2>2, HeldFrame
<1>4. CASE b = j.app
  <2>1. build'[b] = Verdict(build[b], j, ok) /\ build[b] \in BuildRecord
    BY <1>1, <1>4 DEF BuilderReturns, TypeOK
  <2>2. build'[b].revision = build[b].revision
    BY <2>1 DEF Verdict, BuildRecord
  <2>3. build'[b].status = "ready" => build'[b].result = j.source
    BY <2>1 DEF Verdict, BuildRecord
  <2>4. j \in SandboxOf(b)
    BY <1>4 DEF SandboxOf
  <2>5. SandboxTracked(b)'
    BY <1>1, <1>2, <2>4 DEF Held, SandboxTracked, SandboxOf
  <2>6. BuildCurrent(b)'
    BY <1>1, <1>2, <2>2, <2>3, <2>4 DEF Held, SandboxTracked, BuildCurrent
  <2>7. BuildNotAhead(b)' /\ ReleasesAttestedOf(b)'
    BY <1>1, <1>2, <2>2 DEF Held, BuildNotAhead, ReleasesAttestedOf, Attested
  <2> QED
    BY <2>5, <2>6, <2>7 DEF Held
<1> QED
  BY <1>3, <1>4

LEMMA HeldPromise ==
  ASSUME PublishInv, SandboxStep \/ RunStep
  PROVE  \A b \in Apps : Held(b)'
<1> USE DEF draft, ledger, memory, aside
<1>1. CASE SandboxStep
  BY <1>1, HeldBuilderReturns DEF SandboxStep
<1>2. ASSUME NEW r \in runs, NEW d \in Definitions, AcceptReply(r, d)
      PROVE  \A b \in Apps : Held(b)'
  <2>1. r.app \in Apps
    BY DEF PublishInv, TypeOK, Run
  <2> QED
    BY <1>2, <2>1, HeldSetDraft DEF AcceptReply
<1>3. ASSUME NEW r \in runs,
             RejectReply(r) \/ FailRun(r) \/ UnwindRun(r) \/ \E s \in Sources : Scaffold(r, s)
      PROVE  \A b \in Apps : Held(b)'
  BY <1>3, HeldUnseen DEF RejectReply, FailRun, UnwindRun, Scaffold
<1> QED
  BY <1>1, <1>2, <1>3 DEF RunStep, ReplyStep

LEMMA HeldCrash ==
  ASSUME PublishInv, Crash, NEW b \in Apps
  PROVE  Held(b)'
<1> USE DEF draft, ledger, memory, aside
<1>1. Held(b) /\ TypeOK
  BY DEF PublishInv
<1>2. UNCHANGED <<config, revision, overtaken, releases>> /\ SandboxOf(b)' = {}
  BY CrashReboots DEF Reboot, SandboxOf
<1>3. /\ build'[b].revision = build[b].revision
      /\ build'[b].status = "ready" => build'[b] = build[b]
  <2>1. build[b] \in BuildRecord
    BY <1>1 DEF TypeOK
  <2>2. build'[b] = Interrupted(build[b])
    BY CrashReboots DEF Reboot
  <2> QED
    BY <2>1, <2>2 DEF Interrupted, BuildRecord
<1> QED
  BY <1>1, <1>2, <1>3 DEF Held, SandboxTracked, BuildNotAhead, BuildCurrent,
                          ReleasesAttestedOf, Attested

LEMMA PublishInvNext ==
  ASSUME PublishInv, [Next]_vars
  PROVE  PublishInv'
<1>1. TypeOK'
  BY TypeNext DEF PublishInv
<1>2. CASE Next
  BY <1>1, <1>2, HeldEdit, HeldOperate, HeldPromise, HeldCrash, HeldUnseen, OrphanWritesTree
     DEF Next, PublishInv
<1>3. CASE UNCHANGED vars
  BY <1>1, <1>3, HeldUnseen DEF vars, PublishInv
<1> QED
  BY <1>2, <1>3

\* What the two theorems below rest on: the inductive invariant of publishing.
THEOREM PublishInvariant == Spec => []PublishInv
<1>1. Init => PublishInv
  BY HeldInit
<1>2. PublishInv /\ [Next]_vars => PublishInv'
  BY PublishInvNext
<1> QED
  BY <1>1, <1>2, PTL DEF Spec

\* The publish guard admits only bytes that compile() derives from the draft it
\* publishes, unless a rollback has overtaken a build in its sandbox.
THEOREM PublishGuardSound == Spec => []PublishableIsCurrent
<1>1. PublishInv => PublishableIsCurrent
  BY DEF PublishInv, Held, BuildCurrent, PublishableIsCurrent
<1> QED
  BY <1>1, PublishInvariant, PTL

\* Every release that publish() and rollback() keep was verified against its own
\* definition, with the same exception.
THEOREM ReleasesSound == Spec => []ReleasesAttested
<1>1. PublishInv => ReleasesAttested
  BY DEF PublishInv, Held, ReleasesAttestedOf, ReleasesAttested
<1> QED
  BY <1>1, PublishInvariant, PTL

-----------------------------------------------------------------------------
(* The release ledger *)

\* Only publish() and rollback() write the ledger; every other step edits drafts.
LEMMA LedgerWriters ==
  ASSUME Next
  PROVE  \/ UNCHANGED ledger
         \/ \E a \in Apps : Publish(a)
         \/ \E a \in Apps : \E n \in DOMAIN releases[a] : Rollback(a, n)
<1>1. ASSUME NEW a \in Apps, Edit(a) PROVE UNCHANGED ledger
  BY <1>1 DEF Edit, Update, SetStyle, SetStyleThrows, SetCapabilities, EditFile, SetPlan, RecordPlanReply
<1>2. CASE SandboxStep \/ RunStep \/ Crash \/ OrphanStep
  BY <1>2 DEF SandboxStep, BuilderReturns, RunStep, ReplyStep, AcceptReply, RejectReply,
              FailRun, UnwindRun, Scaffold, Crash, Restart, CrashInEdit, Reboot,
              OrphanStep, OrphanScaffolds
<1>3. ASSUME NEW a \in Apps,
             \/ StartBuild(a)
             \/ \E ok \in BOOLEAN : BuildSourceTree(a, ok)
             \/ \E planned \in BOOLEAN, s \in Sources :
                  StartGeneration(a, planned, s) \/ StartGenerationThrows(a, planned, s)
             \/ CancelGeneration(a)
      PROVE  UNCHANGED ledger
  BY <1>3 DEF StartBuild, BuildSourceTree, StartGeneration, StartGenerationThrows, TakeSlot,
              CancelGeneration
<1> QED
  BY <1>1, <1>2, <1>3 DEF Next, Operate

\* The numbers still offered after number + 1 is released.
LEMMA KeptWindow ==
  ASSUME NEW a \in Apps, TypeOK, NEW n, n = number[a] + 1,
         DOMAIN releases[a] = {m \in 1 .. number[a] : m + Retained > number[a]}
  PROVE  Kept(a, n) = {m \in 1 .. n : m + Retained > n}
<1>1. number[a] \in Nat /\ Retained \in Nat \ {0}
  BY LimitsAssumption DEF TypeOK
<1> QED
  BY <1>1 DEF Kept

LEMMA WindowReleased ==
  ASSUME TypeOK, RollbackWindow, NEW a \in Apps, NEW d, NEW x, Release(a, d, x)
  PROVE  RollbackWindow'
<1> SUFFICES ASSUME NEW b \in Apps
             PROVE  DOMAIN releases'[b] = {n \in 1 .. number'[b] : n + Retained > number'[b]}
  BY DEF RollbackWindow, Ledger!KeepsLatest
<1>1. DOMAIN releases[b] = {n \in 1 .. number[b] : n + Retained > number[b]}
  BY DEF RollbackWindow, Ledger!KeepsLatest
<1>2. CASE b # a
  <2>1. releases'[b] = releases[b] /\ number'[b] = number[b]
    BY <1>2 DEF Release, TypeOK
  <2> QED
    BY <1>1, <2>1
<1>3. CASE b = a
  <2>1. number'[a] = number[a] + 1
    BY DEF Release, NextNumber, TypeOK
  <2>2. DOMAIN releases'[a] = Kept(a, number[a] + 1)
    BY DEF Release, NextNumber, TypeOK
  <2> QED
    BY <1>1, <1>3, <2>1, <2>2, KeptWindow
<1> QED
  BY <1>2, <1>3

\* A rollback is offered exactly the latest Retained releases, whatever the
\* limits and however publishes and rollbacks alternate.
THEOREM WindowExact == Spec => []RollbackWindow
<1>1. Init => RollbackWindow
  BY DEF Init, RollbackWindow, Ledger!KeepsLatest
<1>2. ASSUME TypeOK, RollbackWindow, [Next]_vars PROVE RollbackWindow'
  <2>1. CASE UNCHANGED ledger \/ UNCHANGED vars
    BY <1>2, <2>1 DEF ledger, vars, RollbackWindow, Ledger!KeepsLatest
  <2>2. ASSUME NEW a \in Apps, Publish(a) PROVE RollbackWindow'
    BY <1>2, <2>2, WindowReleased DEF Publish
  <2>3. ASSUME NEW a \in Apps, NEW n \in DOMAIN releases[a], Rollback(a, n)
        PROVE  RollbackWindow'
    BY <1>2, <2>3, WindowReleased DEF Rollback
  <2> QED
    BY <1>2, <2>1, <2>2, <2>3, LedgerWriters
<1> QED
  BY <1>1, <1>2, TypeCorrect, PTL DEF Spec

\* Release() is the ledger's append.
LEMMA ReleaseAppends ==
  ASSUME TypeOK, NEW a \in Apps, NEW d, NEW x, Release(a, d, x)
  PROVE  Ledger!Append(a, [config |-> d, result |-> x])
  BY DEF Release, NextNumber, Kept, Ledger!Append, Ledger!Keep, TypeOK

\* publish() and rollback() implement the ledger they promise: every step of the
\* store is a publish, a roll-forward, an edit of drafts or a stutter.
THEOREM LedgerImplemented == Spec => LedgerKept
<1>1. Init => Ledger!Init
  BY DefinitionsTyped DEF Init, Ledger!Init
<1>2. ASSUME TypeOK, TypeOK', [Next]_vars
      PROVE  [Ledger!Next]_(Ledger!ledgerVars)
  <2>1. CASE UNCHANGED vars
    BY <2>1 DEF vars, Ledger!ledgerVars
  <2>2. CASE Next /\ UNCHANGED ledger
    BY <1>2, <2>2 DEF ledger, TypeOK, Ledger!Next, Ledger!Edit
  <2>3. ASSUME NEW a \in Apps, Publish(a) PROVE Ledger!Next
    <3>1. build[a].result \in Results
      BY <1>2 DEF TypeOK, BuildRecord
    <3>2. Ledger!Append(a, [config |-> config[a], result |-> build[a].result])
      BY <1>2, <2>3, ReleaseAppends DEF Publish
    <3>3. UNCHANGED config
      BY <2>3 DEF Publish, draft
    <3> QED
      BY <3>1, <3>2, <3>3 DEF Ledger!Next, Ledger!Publish
  <2>4. ASSUME NEW a \in Apps, NEW n \in DOMAIN releases[a], Rollback(a, n)
        PROVE  Ledger!Next
    <3>1. releases[a][n] \in ReleaseRecord
      BY <1>2 DEF TypeOK
    <3>2. releases[a][n] = [config |-> releases[a][n].config, result |-> releases[a][n].result]
      BY <3>1 DEF ReleaseRecord
    <3>3. Ledger!Append(a, releases[a][n])
      BY <1>2, <2>4, <3>2, ReleaseAppends DEF Rollback
    <3>4. config' = [config EXCEPT ![a] = releases[a][n].config]
      BY <2>4 DEF Rollback, SetDraft
    <3> QED
      BY <3>3, <3>4 DEF Ledger!Next, Ledger!RollForward
  <2> QED
    BY <1>2, <2>1, <2>2, <2>3, <2>4, LedgerWriters
<1> QED
  BY <1>1, <1>2, TypeCorrect, PTL DEF Spec, LedgerKept, Ledger!Spec

-----------------------------------------------------------------------------
(* Promises in flight.

   A promise closes over the application, so what a late one may still do depends on
   which build or run the application now names.  The invariant adds to the counted
   slots and to OneLiveRun that an id is handed out once: a run is known by its
   application and its id, and neither is ever reused, by a start that threw either. *)

RunsNamed ==
  /\ \A r \in runs : r.id \in 1..jobs[r.app]
  /\ \A r, q \in runs : r.app = q.app /\ r.id = q.id => r = q
  /\ \A r \in runs : Job(r.app, r.id) \notin stranded
JobsNamed ==
  /\ \A j \in sandbox \cup stranded : j.id <= jobs[j.app]
  /\ \A a \in Apps : generation[a].id <= jobs[a]

PromisesFinite == IsFiniteSet(sandbox) /\ IsFiniteSet(runs) /\ IsFiniteSet(stranded)

PromiseInv ==
  /\ TypeOK /\ RunsNamed /\ JobsNamed /\ PromisesFinite
  /\ SlotsAccounted /\ BuildExcludesGeneration /\ OneLiveRun /\ BuildingHasSandbox

LEMMA PromiseInit == Init => PromiseInv
<1> SUFFICES ASSUME Init PROVE PromiseInv
  OBVIOUS
<1>1. TypeOK
  BY TypeInit
<1>2. /\ sandbox = {} /\ runs = {} /\ running = 0 /\ generating = 0 /\ stranded = {}
      /\ \A a \in Apps : build[a] = NoBuild /\ generation[a] = NoGeneration /\ jobs[a] = 0
  BY DEF Init
<1>3. IsFiniteSet({}) /\ Cardinality({}) = 0
  BY FS_EmptySet
<1>4. PromisesFinite /\ SlotsAccounted
  BY <1>2, <1>3, LimitsAssumption DEF PromisesFinite, SlotsAccounted
<1>5. RunsNamed /\ JobsNamed
  BY <1>2 DEF RunsNamed, JobsNamed, NoGeneration
<1>6. BuildExcludesGeneration /\ OneLiveRun /\ BuildingHasSandbox
  BY <1>2 DEF BuildExcludesGeneration, OneLiveRun, BuildingHasSandbox, Building, Generating, NoBuild, NoGeneration
<1> QED
  BY <1>1, <1>4, <1>5, <1>6 DEF PromiseInv

\* A step that touches no promise and no generation, and starts no build in the sandbox.
LEMMA PromiseQuiet ==
  ASSUME PromiseInv, TypeOK', UNCHANGED <<generation, sandbox, runs, abortOf, running, generating, stranded>>,
         \A a \in Apps : build'[a] = build[a] \/ build'[a].status # "building",
         \A a \in Apps : jobs'[a] >= jobs[a]
  PROVE  PromiseInv'
<1>1. /\ jobs \in [Apps -> Nat] /\ jobs' \in [Apps -> Nat] /\ runs \subseteq Run /\ sandbox \subseteq SandboxJob
      /\ generation \in [Apps -> GenerationRecord] /\ stranded \subseteq [app : Apps, id : Nat]
  BY DEF PromiseInv, TypeOK
<1>2. RunsNamed'
  BY <1>1 DEF PromiseInv, RunsNamed, Run
<1>3. JobsNamed'
  BY <1>1 DEF PromiseInv, JobsNamed, SandboxJob, GenerationRecord
<1>4. PromisesFinite' /\ SlotsAccounted'
  BY DEF PromiseInv, PromisesFinite, SlotsAccounted
<1>5. BuildExcludesGeneration' /\ OneLiveRun' /\ BuildingHasSandbox'
  BY DEF PromiseInv, BuildExcludesGeneration, OneLiveRun, BuildingHasSandbox, Building, Generating, Stranded
<1> QED
  BY <1>2, <1>3, <1>4, <1>5 DEF PromiseInv

LEMMA PromiseEdit ==
  ASSUME PromiseInv, TypeOK', NEW a \in Apps, Edit(a)
  PROVE  PromiseInv'
<1>1. UNCHANGED <<build, generation, jobs, memory, stranded>>
  BY DEF aside, Edit, Update, SetStyle, SetStyleThrows, SetCapabilities, EditFile, SetPlan, RecordPlanReply
<1>2. \A b \in Apps : jobs'[b] >= jobs[b]
  BY <1>1 DEF PromiseInv, TypeOK
<1> QED
  BY <1>1, <1>2, PromiseQuiet DEF memory

LEMMA PromiseStartBuild ==
  ASSUME PromiseInv, TypeOK', NEW a \in Apps, StartBuild(a)
  PROVE  PromiseInv'
<1> DEFINE j == [app |-> a, id |-> FreshJob(a), source |-> Compile(config[a], tree[a])]
<1>1. /\ UNCHANGED <<generation, runs, abortOf, generating, stranded>>
      /\ sandbox' = sandbox \cup {j} /\ running' = running + 1 /\ running < BuildSlots
      /\ jobs' = [jobs EXCEPT ![a] = @ + 1] /\ ~Building(a) /\ ~Generating(a)
      /\ build' = [build EXCEPT ![a] = [id |-> FreshJob(a), status |-> "building",
                                        revision |-> revision[a], result |-> None]]
  BY DEF StartBuild, BuildAllowed, aside
<1>2. /\ jobs \in [Apps -> Nat] /\ build \in [Apps -> BuildRecord] /\ runs \subseteq Run
      /\ sandbox \subseteq SandboxJob /\ generation \in [Apps -> GenerationRecord]
      /\ stranded \subseteq [app : Apps, id : Nat]
  BY DEF PromiseInv, TypeOK
<1>3. j.id = jobs[a] + 1 /\ j.app = a
  BY DEF FreshJob
<1> HIDE DEF j
<1>4. j \notin sandbox
  BY <1>2, <1>3 DEF PromiseInv, JobsNamed
<1>5. /\ jobs'[a] = jobs[a] + 1 /\ \A b \in Apps : jobs'[b] >= jobs[b] /\ jobs'[b] \in Nat
  BY <1>1, <1>2
<1>6. PromisesFinite' /\ SlotsAccounted'
  <2>1. IsFiniteSet(sandbox') /\ Cardinality(sandbox') = Cardinality(sandbox) + 1
    BY <1>1, <1>4, FS_AddElement DEF PromiseInv, PromisesFinite
  <2>2. Cardinality(sandbox) \in Nat
    BY FS_CardinalityType DEF PromiseInv, PromisesFinite
  <2> QED
    BY <1>1, <2>1, <2>2, LimitsAssumption DEF PromiseInv, PromisesFinite, SlotsAccounted
<1>7. RunsNamed'
  BY <1>1, <1>2, <1>5 DEF PromiseInv, RunsNamed, Run
<1>8. JobsNamed'
  BY <1>1, <1>2, <1>3, <1>5 DEF PromiseInv, JobsNamed, SandboxJob, GenerationRecord
<1>9. BuildExcludesGeneration'
  BY <1>1, <1>2 DEF PromiseInv, BuildExcludesGeneration, Building, Generating
<1>10. OneLiveRun'
  BY <1>1 DEF PromiseInv, OneLiveRun, Generating, Stranded
<1>11. BuildingHasSandbox'
  BY <1>1, <1>2, <1>3 DEF PromiseInv, BuildingHasSandbox, Building, FreshJob
<1> QED
  BY <1>6, <1>7, <1>8, <1>9, <1>10, <1>11 DEF PromiseInv

\* The builder's promise is forgotten with the slot it held; the application is not building then.
LEMMA PromiseBuilderReturns ==
  ASSUME PromiseInv, TypeOK', NEW j \in sandbox, NEW ok \in BOOLEAN, BuilderReturns(j, ok)
  PROVE  PromiseInv'
<1>1. /\ UNCHANGED <<generation, jobs, runs, abortOf, generating, stranded>>
      /\ sandbox' = sandbox \ {j} /\ running' = running - 1
      /\ build' = [build EXCEPT ![j.app] = Verdict(build[j.app], j, ok)]
  BY DEF BuilderReturns, aside
<1>2. j.app \in Apps /\ build \in [Apps -> BuildRecord]
  BY DEF PromiseInv, TypeOK, SandboxJob
<1>3. Verdict(build[j.app], j, ok).status # "building"
  BY <1>2 DEF Verdict, BuildRecord
<1>4. /\ ~Building(j.app)'
      /\ \A b \in Apps : b # j.app => build'[b] = build[b]
  BY <1>1, <1>2, <1>3 DEF Building
<1>5. PromisesFinite' /\ SlotsAccounted'
  <2>1. IsFiniteSet(sandbox') /\ Cardinality(sandbox') = Cardinality(sandbox) - 1
    BY <1>1, FS_RemoveElement DEF PromiseInv, PromisesFinite
  <2>2. Cardinality(sandbox) \in Nat
    BY FS_CardinalityType DEF PromiseInv, PromisesFinite
  <2> QED
    BY <1>1, <2>1, <2>2, LimitsAssumption DEF PromiseInv, PromisesFinite, SlotsAccounted
<1>6. RunsNamed' /\ JobsNamed'
  BY <1>1 DEF PromiseInv, RunsNamed, JobsNamed
<1>7. BuildExcludesGeneration' /\ OneLiveRun' /\ BuildingHasSandbox'
  <2>1. \A b \in Apps : Generating(b)' <=> Generating(b)
    BY <1>1 DEF Generating
  <2>2. \A b \in Apps : Building(b)' => Building(b) /\ b # j.app /\ build'[b] = build[b]
    BY <1>4 DEF Building
  <2>3. OneLiveRun'
    BY <1>1 DEF PromiseInv, OneLiveRun, Generating, Stranded
  <2>4. BuildExcludesGeneration'
    BY <2>1, <2>2 DEF PromiseInv, BuildExcludesGeneration
  <2>5. BuildingHasSandbox'
    BY <1>1, <2>2 DEF PromiseInv, BuildingHasSandbox
  <2> QED
    BY <2>3, <2>4, <2>5
<1> QED
  BY <1>5, <1>6, <1>7 DEF PromiseInv

\* A run that changes keeps its application, its id and its slot.
LEMMA RunReplaced ==
  ASSUME PromiseInv, NEW r \in runs, NEW q \in Run, q.app = r.app, q.id = r.id,
         runs' = (runs \ {r}) \cup {q}, UNCHANGED <<jobs, generating, stranded>>
  PROVE  /\ RunsNamed' /\ IsFiniteSet(runs')
         /\ generating' = Cardinality(runs') + Cardinality(stranded') /\ generating' <= GenSlots
<1> DEFINE rest == runs \ {r}
<1>1. q \notin rest
  BY DEF PromiseInv, RunsNamed
<1>2. IsFiniteSet(rest) /\ Cardinality(rest) = Cardinality(runs) - 1
  BY FS_RemoveElement DEF PromiseInv, PromisesFinite
<1>3. Cardinality(runs) \in Nat
  BY FS_CardinalityType DEF PromiseInv, PromisesFinite
<1>4. RunsNamed'
  BY DEF PromiseInv, RunsNamed
<1> HIDE DEF rest
<1>5. IsFiniteSet(rest \cup {q}) /\ Cardinality(rest \cup {q}) = Cardinality(rest) + 1
  BY <1>1, <1>2, FS_AddElement
<1>6. runs' = rest \cup {q}
  BY DEF rest
<1>7. IsFiniteSet(runs') /\ Cardinality(runs') = Cardinality(runs)
  <2>1. Cardinality(rest \cup {q}) = Cardinality(runs)
    BY <1>2, <1>3, <1>5
  <2> QED
    BY <1>5, <1>6, <2>1, Zenon
<1>8. generating = Cardinality(runs) + Cardinality(stranded) /\ generating <= GenSlots
  BY DEF PromiseInv, SlotsAccounted
<1> QED
  BY <1>4, <1>7, <1>8

\* The run that is live is the only one, and it is the one that a cancel would abort.
LEMMA OnlyLiveRun ==
  ASSUME PromiseInv, NEW r \in runs, ~r.aborted
  PROVE  /\ r.app \in Apps /\ Generating(r.app) /\ generation[r.app].id = r.id /\ abortOf[r.app] = r.id
         /\ \A q \in runs : q.app = r.app /\ ~q.aborted => q = r
         /\ ~Building(r.app)
<1>1. r.app \in Apps
  BY DEF PromiseInv, TypeOK, Run
<1>2. \A q \in runs : ~q.aborted => Generating(q.app) /\ generation[q.app].id = q.id
  BY DEF PromiseInv, OneLiveRun
<1>3. abortOf[r.app] = generation[r.app].id
  BY <1>1, <1>2 DEF PromiseInv, OneLiveRun
<1>4. ~Building(r.app)
  BY <1>1, <1>2 DEF PromiseInv, BuildExcludesGeneration
<1>5. \A q \in runs : q.app = r.app /\ ~q.aborted => q.id = r.id
  BY <1>2
<1>6. \A q \in runs : q.app = r.app /\ ~q.aborted => q = r
  BY <1>5 DEF PromiseInv, RunsNamed
<1> QED
  BY <1>1, <1>2, <1>3, <1>4, <1>6

LEMMA PromiseStartGeneration ==
  ASSUME PromiseInv, TypeOK', NEW a \in Apps, NEW planned \in BOOLEAN, NEW s \in Sources,
         StartGeneration(a, planned, s)
  PROVE  PromiseInv'
<1> DEFINE r == [app |-> a, id |-> FreshJob(a), aborted |-> FALSE,
                 workdir |-> config[a].kind = "server", wrote |-> FALSE]
<1>1. /\ UNCHANGED <<build, sandbox, running, stranded>>
      /\ runs' = runs \cup {r} /\ generating' = generating + 1 /\ generating < GenSlots
      /\ jobs' = [jobs EXCEPT ![a] = @ + 1] /\ ~Building(a) /\ ~Generating(a)
      /\ abortOf' = [abortOf EXCEPT ![a] = FreshJob(a)]
      /\ generation' = [generation EXCEPT ![a] = [id |-> FreshJob(a), status |-> "generating",
                                                  attempt |-> 1, base |-> revision[a]]]
  BY DEF StartGeneration, TakeSlot, GenerationAllowed
<1>2. /\ jobs \in [Apps -> Nat] /\ runs \subseteq Run /\ sandbox \subseteq SandboxJob
      /\ generation \in [Apps -> GenerationRecord] /\ abortOf \in [Apps -> Nat]
      /\ stranded \subseteq [app : Apps, id : Nat]
  BY DEF PromiseInv, TypeOK
<1>3. r.id = jobs[a] + 1 /\ r.app = a /\ ~r.aborted
  BY DEF FreshJob
<1>4. FreshJob(a) = jobs[a] + 1
  BY DEF FreshJob
<1> HIDE DEF r
<1>5. \A q \in runs : q.app = a => q.id # r.id
  BY <1>2, <1>3 DEF PromiseInv, RunsNamed
<1>6. r \notin runs
  BY <1>3, <1>5
<1>7. jobs'[a] = jobs[a] + 1 /\ \A b \in Apps : jobs'[b] >= jobs[b] /\ jobs'[b] \in Nat
  BY <1>1, <1>2
<1>8. PromisesFinite' /\ SlotsAccounted'
  <2>1. IsFiniteSet(runs') /\ Cardinality(runs') = Cardinality(runs) + 1
    BY <1>1, <1>6, FS_AddElement DEF PromiseInv, PromisesFinite
  <2>2. Cardinality(runs) \in Nat /\ Cardinality(stranded) \in Nat
    BY FS_CardinalityType DEF PromiseInv, PromisesFinite
  <2> QED
    BY <1>1, <2>1, <2>2, LimitsAssumption DEF PromiseInv, PromisesFinite, SlotsAccounted
<1>9. RunsNamed'
  <2>1. \A q \in runs' : q.id \in 1..jobs'[q.app]
    BY <1>1, <1>2, <1>3, <1>7 DEF PromiseInv, RunsNamed, Run
  <2>2. \A q, p \in runs' : q.app = p.app /\ q.id = p.id => q = p
    BY <1>1, <1>3, <1>5 DEF PromiseInv, RunsNamed
  <2>3. \A q \in runs' : Job(q.app, q.id) \notin stranded'
    <3>1. Job(a, r.id) \notin stranded
      BY <1>2, <1>3 DEF PromiseInv, JobsNamed, Job
    <3> QED
      BY <1>1, <1>3, <3>1 DEF PromiseInv, RunsNamed
  <2> QED
    BY <2>1, <2>2, <2>3 DEF RunsNamed
<1>10. generation'[a].id = jobs[a] + 1 /\ generation'[a].status = "generating" /\ abortOf'[a] = jobs[a] + 1
       /\ \A b \in Apps : b # a => generation'[b] = generation[b] /\ abortOf'[b] = abortOf[b]
  BY <1>1, <1>2, <1>4
<1>11. JobsNamed'
  BY <1>1, <1>2, <1>7, <1>10 DEF PromiseInv, JobsNamed, SandboxJob, GenerationRecord
<1>12. BuildExcludesGeneration' /\ BuildingHasSandbox'
  BY <1>1, <1>10 DEF PromiseInv, BuildExcludesGeneration, BuildingHasSandbox, Building, Generating
<1>13. OneLiveRun'
  <2>1. \A q \in runs : ~q.aborted => q.app \in Apps /\ q.app # a
    BY <1>1, OnlyLiveRun
  <2>2. ASSUME NEW b \in Apps, Generating(b)'
        PROVE  /\ abortOf'[b] = generation'[b].id
               /\ \/ Stranded(b)'
                  \/ \E q \in runs' : q.app = b /\ q.id = generation'[b].id /\ ~q.aborted
    <3>1. CASE b = a
      BY <1>1, <1>3, <1>10, <3>1
    <3>2. CASE b # a
      BY <1>1, <1>10, <2>2, <3>2 DEF PromiseInv, OneLiveRun, Generating, Stranded
    <3> QED
      BY <3>1, <3>2
  <2>3. ASSUME NEW q \in runs', ~q.aborted
        PROVE  Generating(q.app)' /\ generation'[q.app].id = q.id
    <3>1. CASE q = r
      BY <1>3, <1>10, <3>1 DEF Generating
    <3>2. CASE q \in runs
      BY <1>10, <2>1, <2>3, <3>2 DEF PromiseInv, OneLiveRun, Generating
    <3> QED
      BY <1>1, <3>1, <3>2
  <2> QED
    BY <2>2, <2>3 DEF OneLiveRun
<1> QED
  BY <1>8, <1>9, <1>11, <1>12, <1>13 DEF PromiseInv

\* A start that throws keeps its slot as the run would have.
LEMMA PromiseStartThrows ==
  ASSUME PromiseInv, TypeOK', NEW a \in Apps, NEW planned \in BOOLEAN, NEW s \in Sources,
         StartGenerationThrows(a, planned, s)
  PROVE  PromiseInv'
<1> DEFINE o == Job(a, FreshJob(a))
<1>1. /\ UNCHANGED <<build, sandbox, running, runs>>
      /\ stranded' = stranded \cup {o} /\ generating' = generating + 1 /\ generating < GenSlots
      /\ jobs' = [jobs EXCEPT ![a] = @ + 1] /\ ~Building(a) /\ ~Generating(a)
      /\ abortOf' = [abortOf EXCEPT ![a] = FreshJob(a)]
      /\ generation' = [generation EXCEPT ![a] = [id |-> FreshJob(a), status |-> "generating",
                                                  attempt |-> 1, base |-> revision[a]]]
  BY DEF StartGenerationThrows, TakeSlot, GenerationAllowed
<1>2. /\ jobs \in [Apps -> Nat] /\ runs \subseteq Run /\ sandbox \subseteq SandboxJob
      /\ generation \in [Apps -> GenerationRecord] /\ abortOf \in [Apps -> Nat]
      /\ stranded \subseteq [app : Apps, id : Nat]
  BY DEF PromiseInv, TypeOK
<1>3. o.id = jobs[a] + 1 /\ o.app = a /\ FreshJob(a) = jobs[a] + 1 /\ o = Job(a, jobs[a] + 1)
  BY DEF FreshJob, Job
<1> HIDE DEF o
<1>4. jobs'[a] = jobs[a] + 1 /\ \A b \in Apps : jobs'[b] >= jobs[b] /\ jobs'[b] \in Nat
  BY <1>1, <1>2
<1>5. generation'[a].id = jobs[a] + 1 /\ generation'[a].status = "generating" /\ abortOf'[a] = jobs[a] + 1
      /\ \A b \in Apps : b # a => generation'[b] = generation[b] /\ abortOf'[b] = abortOf[b]
  BY <1>1, <1>2, <1>3
<1>6. PromisesFinite' /\ SlotsAccounted'
  <2>1. o \notin stranded
    BY <1>2, <1>3 DEF PromiseInv, JobsNamed
  <2>2. IsFiniteSet(stranded') /\ Cardinality(stranded') = Cardinality(stranded) + 1
    BY <1>1, <2>1, FS_AddElement DEF PromiseInv, PromisesFinite
  <2>3. Cardinality(runs) \in Nat /\ Cardinality(stranded) \in Nat
    BY FS_CardinalityType DEF PromiseInv, PromisesFinite
  <2> QED
    BY <1>1, <2>2, <2>3, LimitsAssumption DEF PromiseInv, PromisesFinite, SlotsAccounted
<1>7. RunsNamed'
  <2>1. ASSUME NEW r \in runs PROVE r.id \in 1..jobs'[r.app] /\ Job(r.app, r.id) # o
    <3>1. r.app \in Apps /\ r.id \in 1..jobs[r.app]
      BY <1>2 DEF PromiseInv, RunsNamed, Run
    <3>2. Job(r.app, r.id).app = r.app /\ Job(r.app, r.id).id = r.id
      BY DEF Job
    <3> QED
      BY <1>2, <1>3, <1>4, <3>1, <3>2
  <2> QED
    BY <1>1, <2>1 DEF PromiseInv, RunsNamed
<1>8. JobsNamed'
  BY <1>1, <1>2, <1>3, <1>4, <1>5 DEF PromiseInv, JobsNamed, SandboxJob, GenerationRecord
<1>9. BuildExcludesGeneration' /\ BuildingHasSandbox'
  BY <1>1, <1>5 DEF PromiseInv, BuildExcludesGeneration, BuildingHasSandbox, Building, Generating
<1>10. OneLiveRun'
  <2>1. \A q \in runs : ~q.aborted => q.app \in Apps /\ q.app # a
    BY <1>1, OnlyLiveRun
  <2>2. ASSUME NEW b \in Apps, Generating(b)'
        PROVE  /\ abortOf'[b] = generation'[b].id
               /\ \/ Stranded(b)'
                  \/ \E q \in runs' : q.app = b /\ q.id = generation'[b].id /\ ~q.aborted
    <3>1. CASE b = a
      BY <1>1, <1>3, <1>5, <2>2, <3>1 DEF Stranded
    <3>2. CASE b # a
      BY <1>1, <1>5, <2>2, <3>2 DEF PromiseInv, OneLiveRun, Generating, Stranded
    <3> QED
      BY <3>1, <3>2
  <2>3. ASSUME NEW q \in runs', ~q.aborted
        PROVE  Generating(q.app)' /\ generation'[q.app].id = q.id
    BY <1>1, <1>5, <2>1, <2>3 DEF PromiseInv, OneLiveRun, Generating
  <2> QED
    BY <2>2, <2>3 DEF OneLiveRun
<1> QED
  BY <1>6, <1>7, <1>8, <1>9, <1>10 DEF PromiseInv

\* A cancel aborts exactly one run, the live one, or none if the start threw.
LEMMA CancelAborts ==
  ASSUME PromiseInv, NEW a \in Apps, CancelGeneration(a)
  PROVE  \/ UNCHANGED runs /\ \A r \in runs : r.app = a => r.aborted
         \/ \E r \in runs : /\ r.app = a /\ ~r.aborted
                           /\ runs' = (runs \ {r}) \cup {[r EXCEPT !.aborted = TRUE]}
<1>1. abortOf[a] # 0 /\ Generating(a) /\ abortOf[a] = generation[a].id
      /\ runs' = {IF r.app = a /\ r.id = abortOf[a] THEN [r EXCEPT !.aborted = TRUE] ELSE r : r \in runs}
  BY DEF CancelGeneration, PromiseInv, OneLiveRun
<1>2. CASE Stranded(a)
  <2>1. \A r \in runs : r.app = a => r.id # abortOf[a]
    BY <1>1, <1>2 DEF Stranded, PromiseInv, RunsNamed
  <2>2. \A r \in runs : r.app = a => r.aborted
    BY <1>1, <2>1, OnlyLiveRun
  <2> QED
    BY <1>1, <2>1, <2>2
<1>3. CASE ~Stranded(a)
  <2>1. PICK r \in runs : r.app = a /\ r.id = abortOf[a] /\ ~r.aborted
    BY <1>1, <1>3 DEF PromiseInv, OneLiveRun
  <2>2. \A q \in runs : q.app = a /\ q.id = abortOf[a] <=> q = r
    BY <2>1 DEF PromiseInv, RunsNamed
  <2>3. runs' = {IF q = r THEN [r EXCEPT !.aborted = TRUE] ELSE q : q \in runs}
    BY <1>1, <2>2
  <2>4. runs' = (runs \ {r}) \cup {[r EXCEPT !.aborted = TRUE]}
    BY <2>3
  <2> QED
    BY <2>1, <2>4
<1> QED
  BY <1>2, <1>3

LEMMA PromiseCancel ==
  ASSUME PromiseInv, TypeOK', NEW a \in Apps, CancelGeneration(a)
  PROVE  PromiseInv'
<1>1. /\ UNCHANGED <<build, jobs, sandbox, abortOf, running, generating, stranded>>
      /\ generation' = [generation EXCEPT ![a].status = "cancelled"]
  BY DEF CancelGeneration, aside
<1>2. runs \subseteq Run /\ generation \in [Apps -> GenerationRecord]
  BY DEF PromiseInv, TypeOK
<1>3. /\ RunsNamed' /\ PromisesFinite' /\ SlotsAccounted'
      /\ \A p \in runs : p.app # a => p \in runs'
      /\ \A p \in runs' : ~p.aborted => p \in runs /\ p.app # a /\ p.app \in Apps
  <2>1. CASE UNCHANGED runs /\ \A r \in runs : r.app = a => r.aborted
    BY <1>1, <1>2, <2>1 DEF PromiseInv, RunsNamed, PromisesFinite, SlotsAccounted, Run
  <2>2. ASSUME NEW r \in runs, r.app = a, ~r.aborted,
               runs' = (runs \ {r}) \cup {[r EXCEPT !.aborted = TRUE]}
        PROVE  /\ RunsNamed' /\ PromisesFinite' /\ SlotsAccounted'
               /\ \A p \in runs : p.app # a => p \in runs'
               /\ \A p \in runs' : ~p.aborted => p \in runs /\ p.app # a /\ p.app \in Apps
    <3> DEFINE q == [r EXCEPT !.aborted = TRUE]
    <3>1. r \in Run
      BY <1>2
    <3>2. q \in Run /\ q.app = r.app /\ q.id = r.id /\ q.aborted
      BY <3>1 DEF Run
    <3>3. runs' = (runs \ {r}) \cup {q}
      BY <2>2
    <3> HIDE DEF q
    <3>4. RunsNamed' /\ PromisesFinite' /\ SlotsAccounted'
      BY <1>1, <3>2, <3>3, RunReplaced DEF PromiseInv, PromisesFinite, SlotsAccounted
    <3>5. \A p \in runs' : ~p.aborted => p \in runs /\ p.app # a /\ p.app \in Apps
      BY <2>2, <3>2, <3>3, OnlyLiveRun
    <3> QED
      BY <2>2, <3>3, <3>4, <3>5
  <2> QED
    BY <2>1, <2>2, CancelAborts
<1>4. /\ ~Generating(a)' /\ generation'[a].id = generation[a].id
      /\ \A b \in Apps : b # a => generation'[b] = generation[b]
  BY <1>1, <1>2 DEF Generating, GenerationRecord
<1>5. JobsNamed'
  BY <1>1, <1>4 DEF PromiseInv, JobsNamed
<1>6. BuildExcludesGeneration' /\ BuildingHasSandbox'
  BY <1>1, <1>4 DEF PromiseInv, BuildExcludesGeneration, BuildingHasSandbox, Building, Generating
<1>7. OneLiveRun'
  <2>1. \A p \in runs' : ~p.aborted => Generating(p.app)' /\ generation'[p.app].id = p.id
    BY <1>3, <1>4 DEF PromiseInv, OneLiveRun, Generating
  <2>2. ASSUME NEW b \in Apps, Generating(b)'
        PROVE  /\ abortOf'[b] = generation'[b].id
               /\ \/ Stranded(b)'
                  \/ \E p \in runs' : p.app = b /\ p.id = generation'[b].id /\ ~p.aborted
    <3>1. b # a /\ Generating(b)
      BY <1>4, <2>2 DEF Generating
    <3>2. /\ abortOf[b] = generation[b].id
          /\ Stranded(b) \/ \E p \in runs : p.app = b /\ p.id = generation[b].id /\ ~p.aborted
      BY <3>1 DEF PromiseInv, OneLiveRun
    <3>3. Stranded(b) => Stranded(b)'
      BY <1>1, <1>4, <2>2, <3>1 DEF Stranded
    <3> QED
      BY <1>1, <1>3, <1>4, <3>1, <3>2, <3>3
  <2> QED
    BY <2>1, <2>2 DEF OneLiveRun
<1> QED
  BY <1>3, <1>5, <1>6, <1>7 DEF PromiseInv

LEMMA PromiseOperate ==
  ASSUME PromiseInv, TypeOK', NEW a \in Apps, Operate(a)
  PROVE  PromiseInv'
<1>1. jobs \in [Apps -> Nat] /\ build \in [Apps -> BuildRecord]
  BY DEF PromiseInv, TypeOK
<1>2. ASSUME NEW ok \in BOOLEAN, BuildSourceTree(a, ok) PROVE PromiseInv'
  BY <1>1, <1>2, PromiseQuiet DEF BuildSourceTree, memory, aside
<1>3. CASE Publish(a)
  BY <1>1, <1>3, PromiseQuiet DEF Publish, memory, aside
<1>4. ASSUME NEW n \in DOMAIN releases[a], Rollback(a, n) PROVE PromiseInv'
  <2>1. /\ UNCHANGED <<generation, memory, stranded>> /\ jobs' = [jobs EXCEPT ![a] = @ + 1]
        /\ build' = [build EXCEPT ![a] = [id |-> FreshJob(a), status |-> "ready", revision |-> revision[a] + 1,
                                          result |-> releases[a][n].result]]
    BY <1>4 DEF Rollback
  <2> QED
    BY <1>1, <2>1, PromiseQuiet DEF memory
<1> QED
  BY <1>2, <1>3, <1>4, PromiseStartBuild, PromiseStartGeneration, PromiseStartThrows,
     PromiseCancel DEF Operate

\* What only marks a run, leaving it as live as it was.
LEMMA PromiseMark ==
  ASSUME PromiseInv, TypeOK', NEW r \in runs, NEW q \in Run, ~r.aborted,
         q.app = r.app, q.id = r.id, q.aborted = r.aborted,
         runs' = (runs \ {r}) \cup {q}, UNCHANGED <<build, jobs, sandbox, abortOf, running, generating, stranded>>,
         \A a \in Apps : generation'[a].id = generation[a].id /\ generation'[a].status = generation[a].status
  PROVE  PromiseInv'
<1>1. RunsNamed' /\ PromisesFinite' /\ SlotsAccounted'
  BY RunReplaced DEF PromiseInv, PromisesFinite, SlotsAccounted
<1>2. JobsNamed' /\ BuildExcludesGeneration' /\ BuildingHasSandbox'
  BY DEF PromiseInv, JobsNamed, BuildExcludesGeneration, BuildingHasSandbox, Building, Generating
<1>3. OneLiveRun'
  <2>1. \A p \in runs' : \E o \in runs : o.app = p.app /\ o.id = p.id /\ o.aborted = p.aborted
    OBVIOUS
  <2>2. \A o \in runs : \E p \in runs' : o.app = p.app /\ o.id = p.id /\ o.aborted = p.aborted
    OBVIOUS
  <2>3. \A p \in runs' : p.app \in Apps
    BY DEF PromiseInv, TypeOK, Run
  <2>4. ASSUME NEW p \in runs', ~p.aborted PROVE Generating(p.app)' /\ generation'[p.app].id = p.id
    <3>1. PICK o \in runs : o.app = p.app /\ o.id = p.id /\ o.aborted = p.aborted
      BY <2>1
    <3>2. Generating(o.app) /\ generation[o.app].id = o.id
      BY <2>4, <3>1 DEF PromiseInv, OneLiveRun
    <3> QED
      BY <2>3, <3>1, <3>2 DEF Generating
  <2>5. ASSUME NEW b \in Apps, Generating(b)'
        PROVE  /\ abortOf'[b] = generation'[b].id
               /\ \/ Stranded(b)'
                  \/ \E p \in runs' : p.app = b /\ p.id = generation'[b].id /\ ~p.aborted
    <3>1. Generating(b) /\ abortOf'[b] = generation'[b].id
      BY <2>5 DEF Generating, PromiseInv, OneLiveRun
    <3>2. CASE Stranded(b)
      BY <2>5, <3>1, <3>2 DEF Stranded
    <3>3. CASE ~Stranded(b)
      <4>1. PICK o \in runs : o.app = b /\ o.id = generation[b].id /\ ~o.aborted
        BY <3>1, <3>3 DEF PromiseInv, OneLiveRun
      <4>2. PICK p \in runs' : o.app = p.app /\ o.id = p.id /\ o.aborted = p.aborted
        BY <2>2
      <4> QED
        BY <3>1, <4>1, <4>2
    <3> QED
      BY <3>2, <3>3
  <2> QED
    BY <2>4, <2>5 DEF OneLiveRun
<1> QED
  BY <1>1, <1>2, <1>3 DEF PromiseInv

\* A run that ends takes no other run's abort handle, and no generation that is under way with it.
LEMMA PromiseEnd ==
  ASSUME PromiseInv, TypeOK', NEW r \in runs, NEW status, EndRun(r, status),
         UNCHANGED <<build, jobs, sandbox, running, stranded>>,
         \A a \in Apps \ {r.app} : generation'[a] = generation[a],
         generation'[r.app].id = generation[r.app].id,
         \/ r.aborted /\ generation'[r.app] = generation[r.app]
         \/ ~r.aborted /\ generation'[r.app].status # "generating"
  PROVE  PromiseInv'
<1>1. /\ runs' = runs \ {r} /\ generating' = generating - 1
      /\ abortOf' = [abortOf EXCEPT ![r.app] = AbortAfter(r)]
  BY DEF EndRun
<1>2. r.app \in Apps /\ abortOf \in [Apps -> Nat] /\ runs \subseteq Run
  BY DEF PromiseInv, TypeOK, Run
<1>3. RunsNamed' /\ JobsNamed'
  BY <1>1, <1>2 DEF PromiseInv, RunsNamed, JobsNamed
<1>4. PromisesFinite' /\ SlotsAccounted'
  <2>1. IsFiniteSet(runs') /\ Cardinality(runs') = Cardinality(runs) - 1
    BY <1>1, FS_RemoveElement DEF PromiseInv, PromisesFinite
  <2>2. Cardinality(runs) \in Nat /\ Cardinality(stranded) \in Nat
    BY FS_CardinalityType DEF PromiseInv, PromisesFinite
  <2> QED
    BY <1>1, <2>1, <2>2, LimitsAssumption DEF PromiseInv, PromisesFinite, SlotsAccounted
<1>5. \A b \in Apps : Generating(b)' => Generating(b) /\ generation'[b] = generation[b] /\ (b = r.app => r.aborted)
  BY <1>2 DEF Generating
<1>6. BuildExcludesGeneration' /\ BuildingHasSandbox'
  BY <1>5 DEF PromiseInv, BuildExcludesGeneration, BuildingHasSandbox, Building
<1>7. OneLiveRun'
  <2>1. ASSUME NEW b \in Apps, Generating(b)'
        PROVE  /\ abortOf'[b] = generation'[b].id
               /\ \/ Stranded(b)'
                  \/ \E p \in runs' : p.app = b /\ p.id = generation'[b].id /\ ~p.aborted
    <3>1. Generating(b) /\ generation'[b] = generation[b] /\ (b = r.app => r.aborted)
      BY <1>5, <2>1
    <3>2. /\ abortOf[b] = generation[b].id
          /\ Stranded(b) \/ \E p \in runs : p.app = b /\ p.id = generation[b].id /\ ~p.aborted
      BY <3>1 DEF PromiseInv, OneLiveRun
    <3>3. b = r.app => r.id # abortOf[b]
      BY <3>1, <3>2 DEF PromiseInv, RunsNamed, Stranded
    <3>4. abortOf'[b] = abortOf[b]
      BY <1>1, <1>2, <3>3 DEF AbortAfter
    <3>5. Stranded(b) => Stranded(b)'
      BY <2>1, <3>1 DEF Stranded
    <3> QED
      BY <1>1, <3>1, <3>2, <3>3, <3>4, <3>5
  <2>2. ASSUME NEW p \in runs', ~p.aborted PROVE Generating(p.app)' /\ generation'[p.app].id = p.id
    <3>1. p \in runs /\ p # r /\ p.app \in Apps /\ Generating(p.app) /\ generation[p.app].id = p.id
      BY <1>1, <1>2, <2>2 DEF PromiseInv, OneLiveRun, Run
    <3>2. p.app = r.app => r.aborted
      BY <2>2, <3>1, OnlyLiveRun
    <3> QED
      BY <3>1, <3>2 DEF Generating
  <2> QED
    BY <2>1, <2>2 DEF OneLiveRun
<1> QED
  BY <1>3, <1>4, <1>6, <1>7 DEF PromiseInv

LEMMA PromiseRun ==
  ASSUME PromiseInv, TypeOK', RunStep
  PROVE  PromiseInv'
<1>1. PICK r \in runs : ReplyStep(r) \/ \E s \in Sources : Scaffold(r, s)
  BY DEF RunStep
<1>2. r \in Run /\ r.app \in Apps /\ generation \in [Apps -> GenerationRecord]
  BY DEF PromiseInv, TypeOK, Run
<1>3. ASSUME NEW d \in Definitions, AcceptReply(r, d) PROVE PromiseInv'
  <2>1. /\ ~r.aborted /\ EndRun(r, "ready") /\ UNCHANGED <<build, jobs, sandbox, running, stranded>>
        /\ generation' = [generation EXCEPT ![r.app].status = "ready"]
    BY <1>3 DEF AcceptReply, Live, aside
  <2>2. generation'[r.app].id = generation[r.app].id /\ generation'[r.app].status = "ready"
        /\ \A a \in Apps \ {r.app} : generation'[a] = generation[a]
    BY <1>2, <2>1 DEF GenerationRecord
  <2> QED
    BY <2>1, <2>2, PromiseEnd
<1>4. CASE FailRun(r)
  <2>1. /\ ~r.aborted /\ EndRun(r, "failed") /\ UNCHANGED <<build, jobs, sandbox, running, stranded>>
        /\ generation' = [generation EXCEPT ![r.app].status = "failed"]
    BY <1>4 DEF FailRun, Live, aside
  <2>2. generation'[r.app].id = generation[r.app].id /\ generation'[r.app].status = "failed"
        /\ \A a \in Apps \ {r.app} : generation'[a] = generation[a]
    BY <1>2, <2>1 DEF GenerationRecord
  <2> QED
    BY <2>1, <2>2, PromiseEnd
<1>5. CASE UnwindRun(r)
  BY <1>5, PromiseEnd DEF UnwindRun, aside
<1>6. CASE RejectReply(r)
  <2> DEFINE q == [r EXCEPT !.wrote = FALSE]
  <2>1. /\ ~r.aborted /\ runs' = (runs \ {r}) \cup {q}
        /\ UNCHANGED <<build, jobs, sandbox, abortOf, running, generating, stranded>>
        /\ generation' = [generation EXCEPT ![r.app].attempt = NextAttempt(@)]
    BY <1>6 DEF RejectReply, Live, aside
  <2>2. q \in Run /\ q.app = r.app /\ q.id = r.id /\ q.aborted = r.aborted
    BY <1>2 DEF Run
  <2>3. \A a \in Apps : generation'[a].id = generation[a].id /\ generation'[a].status = generation[a].status
    BY <1>2, <2>1 DEF GenerationRecord
  <2> HIDE DEF q
  <2> QED
    BY <2>1, <2>2, <2>3, PromiseMark
<1>7. ASSUME NEW s \in Sources, Scaffold(r, s) PROVE PromiseInv'
  <2> DEFINE q == [r EXCEPT !.wrote = TRUE]
  <2>1. /\ ~r.aborted /\ runs' = (runs \ {r}) \cup {q}
        /\ UNCHANGED <<build, jobs, sandbox, abortOf, running, generating, generation, stranded>>
    BY <1>7 DEF Scaffold, aside
  <2>2. q \in Run /\ q.app = r.app /\ q.id = r.id /\ q.aborted = r.aborted
    BY <1>2 DEF Run
  <2> HIDE DEF q
  <2> QED
    BY <2>1, <2>2, PromiseMark
<1> QED
  BY <1>1, <1>3, <1>4, <1>5, <1>6, <1>7 DEF ReplyStep

\* A restart forgets every promise, and ends whatever was waiting for one.
LEMMA PromiseCrash ==
  ASSUME PromiseInv, TypeOK', Crash
  PROVE  PromiseInv'
<1>1. /\ sandbox' = {} /\ runs' = {} /\ running' = 0 /\ generating' = 0 /\ stranded' = {} /\ UNCHANGED jobs
      /\ build' = [a \in Apps |-> Interrupted(build[a])]
      /\ generation' = [a \in Apps |-> IF Generating(a) THEN [generation[a] EXCEPT !.status = "failed"]
                                       ELSE generation[a]]
  BY CrashReboots DEF Reboot
<1>2. build \in [Apps -> BuildRecord] /\ generation \in [Apps -> GenerationRecord]
  BY DEF PromiseInv, TypeOK
<1>3. \A a \in Apps : ~Building(a)' /\ ~Generating(a)' /\ generation'[a].id = generation[a].id
  BY <1>1, <1>2 DEF Building, Generating, Interrupted, BuildRecord, GenerationRecord
<1>4. IsFiniteSet({}) /\ Cardinality({}) = 0
  BY FS_EmptySet
<1>5. PromisesFinite' /\ SlotsAccounted'
  BY <1>1, <1>4, LimitsAssumption DEF PromisesFinite, SlotsAccounted
<1>6. RunsNamed' /\ JobsNamed'
  BY <1>1, <1>3 DEF PromiseInv, RunsNamed, JobsNamed
<1>7. BuildExcludesGeneration' /\ OneLiveRun' /\ BuildingHasSandbox'
  BY <1>1, <1>3 DEF BuildExcludesGeneration, OneLiveRun, BuildingHasSandbox
<1> QED
  BY <1>5, <1>6, <1>7 DEF PromiseInv

LEMMA PromiseInvNext ==
  ASSUME PromiseInv, [Next]_vars
  PROVE  PromiseInv'
<1>1. TypeOK'
  BY TypeNext DEF PromiseInv
<1>2. CASE Next
  <2>1. CASE OrphanStep
    <3>1. \A a \in Apps : jobs'[a] >= jobs[a]
      BY <2>1, OrphanWritesTree DEF PromiseInv, TypeOK
    <3> QED
      BY <1>1, <2>1, <3>1, PromiseQuiet, OrphanWritesTree
  <2> QED
    BY <1>1, <1>2, <2>1, PromiseEdit, PromiseOperate, PromiseBuilderReturns, PromiseRun, PromiseCrash
       DEF Next, SandboxStep
<1>3. CASE UNCHANGED vars
  <2>1. \A a \in Apps : jobs'[a] >= jobs[a]
    BY <1>3 DEF vars, PromiseInv, TypeOK
  <2> QED
    BY <1>1, <1>3, <2>1, PromiseQuiet DEF vars
<1> QED
  BY <1>2, <1>3

\* What the next four theorems rest on: the inductive invariant of the promises.
THEOREM PromiseInvariant == Spec => []PromiseInv
<1>1. PromiseInv /\ [Next]_vars => PromiseInv'
  BY PromiseInvNext
<1> QED
  BY <1>1, PromiseInit, PTL DEF Spec

\* Slots are taken and given back once per promise, and both limits hold, through cancels,
\* failures, rollbacks and restarts.  The slot of a start that threw is not given back until the
\* next restart.
THEOREM SlotsAccountedFor == Spec => []SlotsAccounted
<1>1. PromiseInv => SlotsAccounted
  BY DEF PromiseInv
<1> QED
  BY <1>1, PromiseInvariant, PTL

\* An artifact is never being built and generated at once.
THEOREM BuildOrGeneration == Spec => []BuildExcludesGeneration
<1>1. PromiseInv => BuildExcludesGeneration
  BY DEF PromiseInv
<1> QED
  BY <1>1, PromiseInvariant, PTL

\* "generating" means one live run, unless its start threw, and a cancel would abort that very
\* run.
THEOREM CancelFindsItsRun == Spec => []OneLiveRun
<1>1. PromiseInv => OneLiveRun
  BY DEF PromiseInv
<1> QED
  BY <1>1, PromiseInvariant, PTL

\* Nothing is "building" without a promise that will end it.
THEOREM BuildHasPromise == Spec => []BuildingHasSandbox
<1>1. PromiseInv => BuildingHasSandbox
  BY DEF PromiseInv
<1> QED
  BY <1>1, PromiseInvariant, PTL

\* Who writes a generation's record.
LEMMA GenerationWriters ==
  ASSUME [Next]_vars
  PROVE  \/ UNCHANGED generation
         \/ \E a \in Apps, planned \in BOOLEAN : TakeSlot(a, planned)
         \/ \E a \in Apps : CancelGeneration(a)
         \/ \E r \in runs : ReplyStep(r)
         \/ Reboot
<1>1. ASSUME NEW a \in Apps, Edit(a) PROVE UNCHANGED generation
  BY <1>1 DEF Edit, Update, SetStyle, SetStyleThrows, SetCapabilities, EditFile, SetPlan, RecordPlanReply
<1>2. ASSUME NEW a \in Apps,
             StartBuild(a) \/ Publish(a) \/ (\E ok \in BOOLEAN : BuildSourceTree(a, ok))
               \/ (\E n \in DOMAIN releases[a] : Rollback(a, n))
      PROVE  UNCHANGED generation
  BY <1>2 DEF StartBuild, Publish, BuildSourceTree, Rollback
<1>3. CASE SandboxStep
  BY <1>3 DEF SandboxStep, BuilderReturns
<1>4. ASSUME NEW r \in runs, NEW s \in Sources, Scaffold(r, s) PROVE UNCHANGED generation
  BY <1>4 DEF Scaffold
<1>5. CASE UNCHANGED vars
  BY <1>5 DEF vars
<1> QED
  BY <1>1, <1>2, <1>3, <1>4, <1>5, CrashReboots, OrphanWritesTree
     DEF Next, Operate, RunStep, StartGeneration, StartGenerationThrows

\* The outcome of a generation is final: only a run that is live writes one, and a cancel and a
\* restart look at the status first.
THEOREM OutcomesAreFinal == Spec => OutcomesFinal
<1> DEFINE Final == \A a \in Apps :
       generation[a].status \in {"ready", "failed", "cancelled"} =>
         \/ generation'[a] = generation[a]
         \/ generation'[a].id > generation[a].id
<1>1. ASSUME PromiseInv, [Next]_vars, NEW a \in Apps,
             generation[a].status \in {"ready", "failed", "cancelled"}
      PROVE  generation'[a] = generation[a] \/ generation'[a].id > generation[a].id
  <2>1. generation \in [Apps -> GenerationRecord] /\ jobs \in [Apps -> Nat] /\ ~Generating(a)
    BY <1>1 DEF PromiseInv, TypeOK, Generating
  <2>2. CASE UNCHANGED generation
    BY <2>2
  <2>3. ASSUME NEW b \in Apps, NEW planned \in BOOLEAN, TakeSlot(b, planned)
        PROVE  generation'[a] = generation[a] \/ generation'[a].id > generation[a].id
    <3>1. generation' = [generation EXCEPT ![b] = [id |-> FreshJob(b), status |-> "generating",
                                                   attempt |-> 1, base |-> revision[b]]]
      BY <2>3 DEF TakeSlot
    <3>2. generation[a].id <= jobs[a] /\ generation[a].id \in Nat
      BY <1>1, <2>1 DEF PromiseInv, JobsNamed, GenerationRecord
    <3> QED
      BY <2>1, <3>1, <3>2 DEF FreshJob
  <2>4. ASSUME NEW b \in Apps, CancelGeneration(b) PROVE generation'[a] = generation[a]
    BY <2>1, <2>4 DEF CancelGeneration
  <2>5. ASSUME NEW r \in runs, ReplyStep(r) PROVE generation'[a] = generation[a]
    <3>1. ~r.aborted => a # r.app
      BY <1>1, <2>1, OnlyLiveRun
    <3> QED
      BY <2>1, <2>5, <3>1 DEF ReplyStep, AcceptReply, RejectReply, FailRun, UnwindRun, Live
  <2>6. CASE Reboot
    BY <2>1, <2>6 DEF Reboot
  <2> QED
    BY <1>1, <2>2, <2>3, <2>4, <2>5, <2>6, GenerationWriters
<1>2. PromiseInv /\ [Next]_vars => Final
  BY <1>1
<1> QED
  BY <1>2, PromiseInvariant, PTL DEF Spec, OutcomesFinal

-----------------------------------------------------------------------------
(* The plan of a run *)

\* The run that holds a's plan, or the start that threw with it.
HeldPlan(a) ==
  Job(a, plan[a].owner) \in stranded \/ \E r \in runs : r.app = a /\ r.id = plan[a].owner

\* A step that leaves plans as they are, or replaces them by plans no run holds, and keeps the
\* runs by their application and id.
LEMMA PlanKeepsRun ==
  ASSUME RunSettlesPlan, restarts' = restarts, stranded \subseteq stranded',
         \A a \in Apps : plan'[a] = plan[a] \/ plan'[a].owner = 0,
         \A r \in runs : \E q \in runs' : q.app = r.app /\ q.id = r.id
  PROVE  RunSettlesPlan'
<1> SUFFICES ASSUME restarts' = 0, NEW a \in Apps, plan'[a].status = "executing", plan'[a].owner # 0
             PROVE  HeldPlan(a)'
  BY DEF RunSettlesPlan, HeldPlan
<1>1. plan'[a] = plan[a]
  OBVIOUS
<1>2. HeldPlan(a)
  BY <1>1 DEF RunSettlesPlan, HeldPlan
<1> QED
  BY <1>1, <1>2 DEF HeldPlan

\* The end of a run settles the plan it holds, whatever its end is.
LEMMA EndSettlesPlan ==
  ASSUME TypeOK, RunSettlesPlan, restarts' = restarts, stranded' = stranded,
         NEW r \in runs, NEW status, EndRun(r, status)
  PROVE  RunSettlesPlan'
<1> SUFFICES ASSUME restarts' = 0, NEW a \in Apps, plan'[a].status = "executing", plan'[a].owner # 0
             PROVE  HeldPlan(a)'
  BY DEF RunSettlesPlan, HeldPlan
<1>1. /\ runs' = runs \ {r} /\ plan' = [plan EXCEPT ![r.app] = Settled(plan[r.app], r, status)]
      /\ plan \in [Apps -> [status : PlanStatuses, owner : Nat]] /\ r.app \in Apps
  BY DEF EndRun, TypeOK, Run
<1>2. plan'[a] = plan[a] /\ ~(a = r.app /\ plan[a].owner = r.id)
  <2>1. CASE a # r.app
    BY <1>1, <2>1
  <2>2. CASE a = r.app
    <3>1. plan'[a] = Settled(plan[a], r, status)
      BY <1>1, <2>2
    <3>2. plan[a] \in [status : PlanStatuses, owner : Nat]
      BY <1>1
    <3> QED
      BY <2>2, <3>1, <3>2 DEF Settled
  <2> QED
    BY <2>1, <2>2
<1>3. HeldPlan(a)
  BY <1>2 DEF RunSettlesPlan, HeldPlan
<1> QED
  BY <1>1, <1>2, <1>3 DEF HeldPlan

\* Only a restart, or a start that threw, can leave a plan executing without its run: a run that
\* links the plan settles it however it ends, cancellation included.
THEOREM PlansAreSettled == Spec => []RunSettlesPlan
<1>1. Init => RunSettlesPlan
  BY DEF Init, RunSettlesPlan
<1>2. ASSUME TypeOK, RunSettlesPlan, [Next]_vars PROVE RunSettlesPlan'
  <2>1. plan \in [Apps -> [status : PlanStatuses, owner : Nat]] /\ restarts \in Nat
    BY <1>2 DEF TypeOK
  <2>2. ASSUME UNCHANGED <<runs, restarts, stranded>>, \A a \in Apps : plan'[a] = plan[a] \/ plan'[a].owner = 0
        PROVE  RunSettlesPlan'
    BY <1>2, <2>2, PlanKeepsRun
  <2>3. ASSUME NEW a \in Apps, Edit(a) PROVE RunSettlesPlan'
    <3>1. CASE UNCHANGED plan
      BY <2>2, <2>3, <3>1 DEF Edit, Update, SetStyle, SetStyleThrows, SetCapabilities, EditFile,
                              SetPlan, RecordPlanReply, memory, aside
    <3>2. ASSUME NEW s \in PlanInputs, SetPlan(a, s) PROVE RunSettlesPlan'
      BY <2>1, <2>2, <3>2 DEF SetPlan, memory, aside
    <3>3. CASE RecordPlanReply(a)
      BY <2>1, <2>2, <3>3 DEF RecordPlanReply, memory, aside
    <3> QED
      BY <2>3, <3>1, <3>2, <3>3 DEF Edit, Update, SetStyle, SetStyleThrows, SetCapabilities, EditFile
  <2>4. ASSUME NEW a \in Apps,
               StartBuild(a) \/ Publish(a) \/ (\E ok \in BOOLEAN : BuildSourceTree(a, ok))
                 \/ (\E n \in DOMAIN releases[a] : Rollback(a, n))
        PROVE  RunSettlesPlan'
    BY <2>2, <2>4 DEF StartBuild, Publish, BuildSourceTree, Rollback, memory, aside
  <2>5. ASSUME NEW a \in Apps, NEW planned \in BOOLEAN, NEW s \in Sources,
               StartGeneration(a, planned, s) \/ StartGenerationThrows(a, planned, s)
        PROVE  RunSettlesPlan'
    <3>1. restarts' = restarts
          /\ plan' = IF planned THEN [plan EXCEPT ![a] = [status |-> "executing", owner |-> FreshJob(a)]] ELSE plan
      BY <2>5 DEF StartGeneration, StartGenerationThrows, TakeSlot
    <3>2. /\ runs \subseteq runs' /\ stranded \subseteq stranded'
          /\ \/ Job(a, FreshJob(a)) \in stranded'
             \/ \E r \in runs' : r.app = a /\ r.id = FreshJob(a)
      <4>1. CASE StartGeneration(a, planned, s)
        <5> DEFINE q == [app |-> a, id |-> FreshJob(a), aborted |-> FALSE,
                         workdir |-> config[a].kind = "server", wrote |-> FALSE]
        <5>1. runs' = runs \cup {q} /\ q.app = a /\ q.id = FreshJob(a) /\ UNCHANGED stranded
          BY <4>1 DEF StartGeneration
        <5> HIDE DEF q
        <5> QED
          BY <5>1
      <4>2. CASE StartGenerationThrows(a, planned, s)
        BY <4>2 DEF StartGenerationThrows
      <4> QED
        BY <2>5, <4>1, <4>2
    <3> SUFFICES ASSUME restarts' = 0, NEW b \in Apps, plan'[b].status = "executing", plan'[b].owner # 0
                 PROVE  HeldPlan(b)'
      BY DEF RunSettlesPlan, HeldPlan
    <3>3. CASE planned /\ b = a
      BY <2>1, <3>1, <3>2, <3>3 DEF HeldPlan
    <3>4. CASE ~planned \/ b # a
      <4>1. plan'[b] = plan[b]
        BY <2>1, <3>1, <3>4
      <4>2. HeldPlan(b)
        BY <1>2, <3>1, <4>1 DEF RunSettlesPlan, HeldPlan
      <4> QED
        BY <3>2, <4>1, <4>2 DEF HeldPlan
    <3> QED
      BY <3>3, <3>4
  <2>6. ASSUME NEW a \in Apps, CancelGeneration(a) PROVE RunSettlesPlan'
    <3>1. UNCHANGED <<plan, restarts, stranded>>
          /\ runs' = {IF r.app = a /\ r.id = abortOf[a] THEN [r EXCEPT !.aborted = TRUE] ELSE r : r \in runs}
      BY <2>6 DEF CancelGeneration, aside
    <3>2. \A r \in runs : [r EXCEPT !.aborted = TRUE].app = r.app /\ [r EXCEPT !.aborted = TRUE].id = r.id
      BY <1>2 DEF TypeOK, Run
    <3>3. \A r \in runs : \E q \in runs' : q.app = r.app /\ q.id = r.id
      BY <3>1, <3>2
    <3> QED
      BY <1>2, <3>1, <3>3, PlanKeepsRun
  <2>7. CASE SandboxStep
    BY <2>2, <2>7 DEF SandboxStep, BuilderReturns, aside
  <2>8. ASSUME NEW r \in runs, ReplyStep(r) \/ \E s \in Sources : Scaffold(r, s)
        PROVE  RunSettlesPlan'
    <3>1. ASSUME NEW d \in Definitions, AcceptReply(r, d) PROVE RunSettlesPlan'
      BY <1>2, <3>1, EndSettlesPlan DEF AcceptReply, aside
    <3>2. CASE FailRun(r)
      BY <1>2, <3>2, EndSettlesPlan DEF FailRun, aside
    <3>3. CASE UnwindRun(r)
      BY <1>2, <3>3, EndSettlesPlan DEF UnwindRun, aside
    <3>4. CASE RejectReply(r) \/ \E s \in Sources : Scaffold(r, s)
      <4>1. PICK w \in BOOLEAN : runs' = (runs \ {r}) \cup {[r EXCEPT !.wrote = w]} /\ UNCHANGED <<plan, restarts, stranded>>
        BY <3>4 DEF RejectReply, Scaffold, aside
      <4>2. [r EXCEPT !.wrote = w].app = r.app /\ [r EXCEPT !.wrote = w].id = r.id
        BY <1>2 DEF TypeOK, Run
      <4>3. \A p \in runs : \E q \in runs' : q.app = p.app /\ q.id = p.id
        BY <4>1, <4>2
      <4> QED
        BY <1>2, <4>1, <4>3, PlanKeepsRun
    <3> QED
      BY <2>8, <3>1, <3>2, <3>3, <3>4 DEF ReplyStep
  <2>9. CASE Crash
    BY <2>1, <2>9, CrashReboots DEF Reboot, RunSettlesPlan
  <2>11. CASE OrphanStep
    BY <2>2, <2>11, OrphanWritesTree
  <2>10. CASE UNCHANGED vars
    BY <2>2, <2>10 DEF vars
  <2> QED
    BY <1>2, <2>3, <2>4, <2>5, <2>6, <2>7, <2>8, <2>9, <2>10, <2>11 DEF Next, Operate, RunStep
<1> QED
  BY <1>1, <1>2, TypeCorrect, PTL DEF Spec

-----------------------------------------------------------------------------
(* The tree of an app-tier artifact *)

\* Who writes a tree: edits, which count unless a crash cuts them off, and a generation, which
\* hands the tree to its run and to what is left of it.
LEMMA TreeWriters ==
  ASSUME [Next]_vars
  PROVE  \/ UNCHANGED tree
         \/ \E a \in Apps, s \in Sources : SetStyle(a, s) \/ SetStyleThrows(a, s) \/ EditFile(a, s)
         \/ \E a \in Apps, planned \in BOOLEAN, s \in Sources :
              StartGeneration(a, planned, s) \/ StartGenerationThrows(a, planned, s)
         \/ \E r \in runs, s \in Sources : Scaffold(r, s)
         \/ OrphanStep
         \/ \E a \in Apps, s \in Sources : CrashInEdit(a, s)
<1> USE DEF draft, vars
<1>1. ASSUME NEW a \in Apps, Edit(a),
             ~\E s \in Sources : SetStyle(a, s) \/ SetStyleThrows(a, s) \/ EditFile(a, s)
      PROVE  UNCHANGED tree
  BY <1>1 DEF Edit, Update, SetCapabilities, SetPlan, RecordPlanReply
<1>2. ASSUME NEW a \in Apps,
             StartBuild(a) \/ Publish(a) \/ (\E ok \in BOOLEAN : BuildSourceTree(a, ok))
               \/ CancelGeneration(a) \/ (\E n \in DOMAIN releases[a] : Rollback(a, n))
      PROVE  UNCHANGED tree
  BY <1>2 DEF StartBuild, Publish, BuildSourceTree, CancelGeneration, Rollback
<1>3. ASSUME SandboxStep \/ Restart \/ \E r \in runs : ReplyStep(r)
      PROVE  UNCHANGED tree
  BY <1>3 DEF SandboxStep, BuilderReturns, Restart, ReplyStep, AcceptReply, RejectReply, FailRun, UnwindRun
<1> QED
  BY <1>1, <1>2, <1>3 DEF Next, Operate, RunStep, Crash

\* A change of the source tree is counted as an edit, which is what the publish guard sees of it,
\* unless a generation or what is left of one makes it, or a crash cuts it off from its record.
THEOREM TreeEditsCounted == Spec => TreeEditsBumpRevision
<1> DEFINE Excused(a) ==
             \/ \E r \in runs' : r.app = a /\ r.workdir /\ ~r.aborted
             \/ \E o \in (stranded' \ stranded) \cup (orphans \ orphans') : o.app = a
             \/ restarts' > restarts /\ config[a].tier = "app" /\ ~Generating(a)
           Counted == \A a \in Apps : tree'[a] # tree[a] =>
             \/ revision'[a] > revision[a]
             \/ \E r \in runs' : r.app = a /\ r.workdir /\ ~r.aborted
             \/ \E o \in (stranded' \ stranded) \cup (orphans \ orphans') : o.app = a
             \/ restarts' > restarts /\ config[a].tier = "app" /\ ~Generating(a)
<1>1. ASSUME PromiseInv, [Next]_vars, NEW a \in Apps, tree'[a] # tree[a]
      PROVE  revision'[a] > revision[a] \/ Excused(a)
  <2>1. /\ tree \in [Apps -> Results] /\ revision \in [Apps -> Nat] /\ jobs \in [Apps -> Nat]
        /\ stranded \subseteq [app : Apps, id : Nat]
    BY <1>1 DEF PromiseInv, TypeOK
  <2>2. ASSUME NEW b \in Apps, NEW s \in Sources, SetStyle(b, s) \/ SetStyleThrows(b, s) \/ EditFile(b, s)
        PROVE  revision'[a] > revision[a]
    <3>1. b = a
      BY <1>1, <2>1, <2>2 DEF SetStyle, SetStyleThrows, EditFile
    <3>2. revision' = [revision EXCEPT ![b] = @ + 1]
      BY <2>2 DEF SetStyle, SetStyleThrows, EditFile, SetDraft
    <3> QED
      BY <2>1, <3>1, <3>2
  <2>3. ASSUME NEW b \in Apps, NEW planned \in BOOLEAN, NEW s \in Sources, StartGeneration(b, planned, s)
        PROVE  \E r \in runs' : r.app = a /\ r.workdir /\ ~r.aborted
    <3>1. b = a /\ config[a].kind = "server"
      BY <1>1, <2>1, <2>3 DEF StartGeneration
    <3>2. [app |-> a, id |-> FreshJob(a), aborted |-> FALSE,
           workdir |-> config[a].kind = "server", wrote |-> FALSE] \in runs'
      BY <2>3, <3>1 DEF StartGeneration
    <3> QED
      BY <3>1, <3>2
  <2>5. ASSUME NEW b \in Apps, NEW planned \in BOOLEAN, NEW s \in Sources,
               StartGenerationThrows(b, planned, s)
        PROVE  \E o \in stranded' \ stranded : o.app = a
    <3>1. b = a /\ stranded' = stranded \cup {Job(a, FreshJob(a))}
      BY <1>1, <2>1, <2>5 DEF StartGenerationThrows
    <3>2. Job(a, FreshJob(a)).app = a /\ Job(a, FreshJob(a)).id = jobs[a] + 1
      BY DEF Job, FreshJob
    <3>3. Job(a, FreshJob(a)) \notin stranded
      BY <1>1, <2>1, <3>2 DEF PromiseInv, JobsNamed
    <3> QED
      BY <3>1, <3>2, <3>3
  <2>6. ASSUME NEW o \in orphans, NEW s \in Sources, OrphanScaffolds(o, s)
        PROVE  \E q \in orphans \ orphans' : q.app = a
    BY <1>1, <2>1, <2>6 DEF OrphanScaffolds
  <2>7. ASSUME NEW b \in Apps, NEW s \in Sources, CrashInEdit(b, s)
        PROVE  restarts' > restarts /\ config[a].tier = "app" /\ ~Generating(a)
    BY <1>1, <2>1, <2>7 DEF CrashInEdit, Reboot, PromiseInv, TypeOK
  <2>4. ASSUME NEW r \in runs, NEW s \in Sources, Scaffold(r, s)
        PROVE  \E q \in runs' : q.app = a /\ q.workdir /\ ~q.aborted
    <3>1. r.app = a /\ r.workdir /\ ~r.aborted /\ [r EXCEPT !.wrote = TRUE] \in runs'
      BY <1>1, <2>1, <2>4 DEF Scaffold
    <3>2. r \in Run
      BY <1>1 DEF PromiseInv, TypeOK
    <3> QED
      BY <3>1, <3>2 DEF Run
  <2> QED
    BY <1>1, <2>2, <2>3, <2>4, <2>5, <2>6, <2>7, TreeWriters DEF OrphanStep
<1>2. PromiseInv /\ [Next]_vars => Counted
  BY <1>1
<1> QED
  BY <1>2, PromiseInvariant, PTL DEF Spec, TreeEditsBumpRevision

-----------------------------------------------------------------------------
(* What can be served is all that is released.

   publish() looks neither at the tier nor at the result.  The invariant says why it
   need not: a build that is ready has a result, and one that is for the current
   revision is of a definition that could be built, because every change of the
   definition counts.                                                               *)

\* A definition outside the intent and app tiers carries its source.
Carries(d) == d.tier \notin {"intent", "app"} => d.source # None

BuildServable(a) ==
  /\ build[a].status = "ready" => build[a].result # None
  /\ build[a].revision = revision[a] => config[a].tier # "intent"

ReleasesServable(a) ==
  \A n \in DOMAIN releases[a] :
    /\ releases[a][n].config.tier # "intent" /\ releases[a][n].result # None
    /\ Carries(releases[a][n].config)

Servable(a) == Carries(config[a]) /\ BuildNotAhead(a) /\ BuildServable(a) /\ ReleasesServable(a)

ServableInv ==
  TypeOK /\ (\A j \in sandbox : j.source # None) /\ \A a \in Apps : Servable(a)

LEMMA ServableInit == Init => ServableInv
<1> SUFFICES ASSUME Init PROVE ServableInv
  OBVIOUS
<1>1. TypeOK
  BY TypeInit
<1>2. \A a \in Apps : /\ Carries(config[a]) /\ revision[a] = 1 /\ build[a] = NoBuild /\ releases[a] = << >>
  BY DefinitionsAssumption DEF Init, Carries, WellFormed
<1>3. \A a \in Apps : Servable(a)
  BY <1>2 DEF Servable, BuildNotAhead, BuildServable, ReleasesServable, NoBuild
<1> QED
  BY <1>1, <1>3 DEF Init, ServableInv

\* A step that leaves an artifact's draft, build and releases as they are.
LEMMA ServableFrame ==
  ASSUME NEW a \in Apps, Servable(a),
         config'[a] = config[a], revision'[a] = revision[a], build'[a] = build[a], releases'[a] = releases[a]
  PROVE  Servable(a)'
  BY DEF Servable, Carries, BuildNotAhead, BuildServable, ReleasesServable

\* A counted edit to a definition that carries its source if it must.
LEMMA ServableEdited ==
  ASSUME TypeOK, NEW a \in Apps, NEW d, Carries(d), SetDraft(a, d), UNCHANGED <<build, releases>>,
         \A b \in Apps : Servable(b), NEW b \in Apps
  PROVE  Servable(b)'
<1>1. CASE b # a
  BY <1>1, ServableFrame DEF SetDraft, TypeOK
<1>2. CASE b = a
  <2>1. config'[a] = d /\ revision'[a] = revision[a] + 1 /\ revision[a] \in Nat /\ build[a].revision \in Nat
    BY DEF SetDraft, TypeOK, BuildRecord
  <2>2. Servable(a)
    OBVIOUS
  <2>3. build'[a].revision < revision'[a]
    BY <2>1, <2>2 DEF Servable, BuildNotAhead
  <2> QED
    BY <1>2, <2>1, <2>2, <2>3 DEF Servable, Carries, BuildNotAhead, BuildServable, ReleasesServable
<1> QED
  BY <1>1, <1>2

LEMMA CarriesKept ==
  ASSUME NEW d \in Definition, Carries(d), NEW s \in Sources
  PROVE  /\ Carries(WithSource(d, s))
         /\ \A kind \in Kinds : Carries([WithSource(d, s) EXCEPT !.kind = kind])
<1>1. s # None
  BY DefinitionsAssumption
<1>2. [d EXCEPT !.source = s].source = s
  BY DEF Definition
<1>3. Carries(WithSource(d, s)) /\ WithSource(d, s) \in Definition
  BY <1>1, <1>2, WithSourceType DEF Carries, WithSource
<1> QED
  BY <1>3 DEF Carries, Definition

LEMMA ServableEdit ==
  ASSUME ServableInv, TypeOK', NEW a \in Apps, Edit(a)
  PROVE  ServableInv'
<1> USE DEF draft, ledger, memory, aside
<1>1. TypeOK /\ config[a] \in Definition /\ Carries(config[a]) /\ \A b \in Apps : Servable(b)
  BY DEF ServableInv, Servable, TypeOK
<1>2. UNCHANGED <<build, releases, sandbox>>
  BY DEF Edit, Update, SetStyle, SetStyleThrows, SetCapabilities, EditFile, SetPlan, RecordPlanReply
<1>3. CASE UNCHANGED <<config, revision>>
  BY <1>1, <1>2, <1>3, ServableFrame DEF ServableInv
<1>4. ASSUME NEW d, Carries(d), SetDraft(a, d) PROVE ServableInv'
  BY <1>1, <1>2, <1>4, ServableEdited DEF ServableInv
<1>5. ASSUME NEW d \in Definitions, Update(a, d) PROVE ServableInv'
  BY <1>4, <1>5, DefinitionsAssumption DEF Update, Carries, WellFormed
<1>6. ASSUME NEW s \in Sources, SetStyle(a, s) \/ SetStyleThrows(a, s) PROVE ServableInv'
  BY <1>1, <1>4, <1>6, CarriesKept DEF SetStyle, SetStyleThrows
<1>7. ASSUME NEW s \in Sources, EditFile(a, s) PROVE ServableInv'
  <2>1. [config[a] EXCEPT !.source = s].source = s /\ s # None
    BY <1>1, DefinitionsAssumption DEF Definition
  <2>2. Carries([config[a] EXCEPT !.source = s])
    BY <2>1 DEF Carries
  <2> QED
    BY <1>1, <1>4, <1>7, <2>2 DEF EditFile
<1>8. ASSUME NEW s \in Sources, NEW kind \in Kinds, SetCapabilities(a, kind, s) PROVE ServableInv'
  BY <1>1, <1>4, <1>8, CarriesKept DEF SetCapabilities
<1>9. ASSUME (\E s \in PlanInputs : SetPlan(a, s)) \/ RecordPlanReply(a) PROVE ServableInv'
  BY <1>3, <1>9 DEF SetPlan, RecordPlanReply
<1> QED
  BY <1>5, <1>6, <1>7, <1>8, <1>9 DEF Edit

\* A release of what can be served leaves only such releases.
LEMMA ServableRelease ==
  ASSUME TypeOK, NEW a \in Apps, ReleasesServable(a), NEW d, NEW x, Release(a, d, x),
         d.tier # "intent", x # None, Carries(d)
  PROVE  ReleasesServable(a)'
<1> DEFINE n == number[a] + 1
           c == [config |-> d, result |-> x]
<1>1. releases'[a] = [m \in Kept(a, n) |-> IF m = n THEN c ELSE releases[a][m]]
  BY DEF Release, NextNumber, TypeOK
<1>2. \A m \in Kept(a, n) : m # n => m \in DOMAIN releases[a]
  BY DEF Kept
<1>3. c.config = d /\ c.result = x
  OBVIOUS
<1> HIDE DEF c
<1> QED
  BY <1>1, <1>2, <1>3 DEF ReleasesServable, Carries

LEMMA ServableOperate ==
  ASSUME ServableInv, TypeOK', NEW a \in Apps, Operate(a)
  PROVE  ServableInv'
<1> USE DEF draft, ledger, memory, aside
<1>1. /\ TypeOK /\ config[a] \in Definition /\ build \in [Apps -> BuildRecord] /\ revision \in [Apps -> Nat]
      /\ \A b \in Apps : Servable(b)
  BY DEF ServableInv, TypeOK
<1>2. CASE StartBuild(a)
  <2> DEFINE j == [app |-> a, id |-> FreshJob(a), source |-> Compile(config[a], tree[a])]
  <2>1. /\ UNCHANGED <<config, revision, releases>> /\ sandbox' = sandbox \cup {j}
        /\ config[a].tier # "intent" /\ config[a].tier # "app"
        /\ build' = [build EXCEPT ![a] = [id |-> FreshJob(a), status |-> "building",
                                          revision |-> revision[a], result |-> None]]
    BY <1>2 DEF StartBuild, BuildAllowed
  <2>2. j.source # None
    BY <1>1, <2>1 DEF Compile, Servable, Carries
  <2> HIDE DEF j
  <2>3. \A k \in sandbox' : k.source # None
    BY <2>1, <2>2 DEF ServableInv
  <2>4. Servable(a)'
    <3>1. build'[a].status = "building" /\ build'[a].revision = revision[a]
      BY <1>1, <2>1
    <3> QED
      BY <1>1, <2>1, <3>1 DEF Servable, Carries, BuildNotAhead, BuildServable, ReleasesServable
  <2>5. \A b \in Apps \ {a} : Servable(b)'
    BY <1>1, <2>1, ServableFrame
  <2> QED
    BY <2>3, <2>4, <2>5 DEF ServableInv
<1>3. ASSUME NEW ok \in BOOLEAN, BuildSourceTree(a, ok) PROVE ServableInv'
  <2>1. /\ UNCHANGED <<config, revision, releases, sandbox>> /\ config[a].tier = "app" /\ (ok => tree[a] # None)
        /\ build' = [build EXCEPT ![a] = [id |-> FreshJob(a), status |-> IF ok THEN "ready" ELSE "failed",
                                          revision |-> revision[a],
                                          result |-> IF ok THEN Compile(config[a], tree[a]) ELSE None]]
    BY <1>3 DEF BuildSourceTree
  <2>2. Servable(a)'
    <3>1. build'[a].revision = revision[a] /\ (build'[a].status = "ready" => ok /\ build'[a].result = tree[a])
      BY <1>1, <2>1 DEF Compile
    <3> QED
      BY <1>1, <2>1, <3>1 DEF Servable, Carries, BuildNotAhead, BuildServable, ReleasesServable
  <2>3. \A b \in Apps \ {a} : Servable(b)'
    BY <1>1, <2>1, ServableFrame
  <2> QED
    BY <2>1, <2>2, <2>3 DEF ServableInv
<1>4. ASSUME CancelGeneration(a) PROVE ServableInv'
  BY <1>1, <1>4, ServableFrame DEF CancelGeneration, ServableInv
<1>7. ASSUME NEW planned \in BOOLEAN, NEW s \in Sources,
             StartGeneration(a, planned, s) \/ StartGenerationThrows(a, planned, s)
      PROVE  ServableInv'
  BY <1>1, <1>7, ServableFrame DEF StartGeneration, StartGenerationThrows, TakeSlot, ServableInv
<1>5. CASE Publish(a)
  <2>1. UNCHANGED <<config, revision, build, sandbox>> /\ Release(a, config[a], build[a].result)
        /\ build[a].status = "ready" /\ build[a].revision = revision[a]
    BY <1>5 DEF Publish, PublishAllowed
  <2>2. config[a].tier # "intent" /\ build[a].result # None /\ Carries(config[a]) /\ ReleasesServable(a)
    BY <1>1, <2>1 DEF Servable, BuildServable
  <2>3. ReleasesServable(a)'
    BY <1>1, <2>1, <2>2, ServableRelease
  <2>4. Servable(a)'
    BY <1>1, <2>1, <2>3 DEF Servable, Carries, BuildNotAhead, BuildServable
  <2>5. \A b \in Apps \ {a} : Servable(b)'
    BY <1>1, <2>1, ReleaseElsewhere, ServableFrame
  <2> QED
    BY <2>1, <2>4, <2>5 DEF ServableInv
<1>6. ASSUME NEW n \in DOMAIN releases[a], Rollback(a, n) PROVE ServableInv'
  <2> DEFINE target == releases[a][n]
  <2>1. /\ SetDraft(a, target.config) /\ Release(a, target.config, target.result) /\ UNCHANGED sandbox
        /\ build' = [build EXCEPT ![a] = [id |-> FreshJob(a), status |-> "ready",
                                          revision |-> revision[a] + 1, result |-> target.result]]
    BY <1>6 DEF Rollback
  <2>2. target.config.tier # "intent" /\ target.result # None /\ Carries(target.config) /\ ReleasesServable(a)
    BY <1>1, <1>6 DEF Servable, ReleasesServable
  <2> HIDE DEF target
  <2>3. ReleasesServable(a)'
    BY <1>1, <2>1, <2>2, ServableRelease
  <2>4. Servable(a)'
    <3>1. config'[a] = target.config /\ revision'[a] = revision[a] + 1 /\ build'[a].revision = revision[a] + 1
          /\ build'[a].result = target.result
      BY <1>1, <2>1 DEF SetDraft, TypeOK
    <3> QED
      BY <1>1, <2>2, <2>3, <3>1 DEF Servable, Carries, BuildNotAhead, BuildServable
  <2>5. \A b \in Apps \ {a} : Servable(b)'
    <3> SUFFICES ASSUME NEW b \in Apps, b # a PROVE Servable(b)'
      OBVIOUS
    <3>1. config'[b] = config[b] /\ revision'[b] = revision[b] /\ build'[b] = build[b]
      BY <1>1, <2>1 DEF SetDraft, TypeOK
    <3> QED
      BY <1>1, <2>1, <3>1, ReleaseElsewhere, ServableFrame
  <2> QED
    BY <2>1, <2>4, <2>5 DEF ServableInv
<1> QED
  BY <1>2, <1>3, <1>4, <1>7, <1>5, <1>6 DEF Operate

LEMMA ServablePromise ==
  ASSUME ServableInv, TypeOK', SandboxStep \/ RunStep
  PROVE  ServableInv'
<1> USE DEF draft, ledger, memory, aside
<1>1. TypeOK /\ \A b \in Apps : Servable(b)
  BY DEF ServableInv
<1>2. ASSUME NEW j \in sandbox, NEW ok \in BOOLEAN, BuilderReturns(j, ok) PROVE ServableInv'
  <2>1. /\ UNCHANGED <<config, revision, releases>> /\ sandbox' \subseteq sandbox
        /\ build' = [build EXCEPT ![j.app] = Verdict(build[j.app], j, ok)]
    BY <1>2 DEF BuilderReturns
  <2>2. j.app \in Apps /\ build \in [Apps -> BuildRecord] /\ j.source # None
    BY DEF ServableInv, TypeOK, SandboxJob
  <2>3. /\ Verdict(build[j.app], j, ok).revision = build[j.app].revision
        /\ Verdict(build[j.app], j, ok).status = "ready" => Verdict(build[j.app], j, ok).result = j.source
    BY <2>2 DEF Verdict, BuildRecord
  <2>4. Servable(j.app)'
    <3>1. build'[j.app].revision = build[j.app].revision /\ (build'[j.app].status = "ready" => build'[j.app].result = j.source)
      BY <2>1, <2>2, <2>3
    <3> QED
      BY <1>1, <2>1, <2>2, <3>1 DEF Servable, Carries, BuildNotAhead, BuildServable, ReleasesServable
  <2>5. \A b \in Apps \ {j.app} : Servable(b)'
    BY <1>1, <2>1, <2>2, ServableFrame
  <2> QED
    BY <2>1, <2>4, <2>5 DEF ServableInv
<1>3. ASSUME NEW r \in runs, NEW d \in Definitions, AcceptReply(r, d) PROVE ServableInv'
  <2>1. r.app \in Apps /\ Carries(d)
    BY <1>1, DefinitionsAssumption DEF TypeOK, Run, Carries, WellFormed
  <2> QED
    BY <1>1, <1>3, <2>1, ServableEdited DEF AcceptReply, ServableInv
<1>4. ASSUME NEW r \in runs,
             RejectReply(r) \/ FailRun(r) \/ UnwindRun(r) \/ \E s \in Sources : Scaffold(r, s)
      PROVE  ServableInv'
  BY <1>1, <1>4, ServableFrame DEF RejectReply, FailRun, UnwindRun, Scaffold, ServableInv
<1> QED
  BY <1>2, <1>3, <1>4 DEF SandboxStep, RunStep, ReplyStep

LEMMA ServableCrash ==
  ASSUME ServableInv, TypeOK', Crash
  PROVE  ServableInv'
<1>1. /\ UNCHANGED <<config, revision, releases>> /\ sandbox' = {}
      /\ \A b \in Apps : build'[b] = Interrupted(build[b]) /\ build[b] \in BuildRecord
  BY CrashReboots DEF Reboot, ledger, ServableInv, TypeOK
<1>2. \A b \in Apps : /\ build'[b].revision = build[b].revision /\ build'[b].result = build[b].result
                      /\ build'[b].status = "ready" => build[b].status = "ready"
  BY <1>1 DEF Interrupted, BuildRecord
<1>3. ASSUME NEW b \in Apps PROVE Servable(b)'
  BY <1>1, <1>2 DEF ServableInv, Servable, Carries, BuildNotAhead, BuildServable, ReleasesServable
<1> QED
  BY <1>1, <1>3 DEF ServableInv

\* Only what can be served is ever released: never an intent, and a tree only with a digest.
THEOREM OnlyServableReleased == Spec => []ReleasesBuildable
<1>1. ASSUME ServableInv, [Next]_vars PROVE ServableInv'
  <2>1. TypeOK'
    BY <1>1, TypeNext DEF ServableInv
  <2>2. CASE UNCHANGED vars
    BY <1>1, <2>1, <2>2, ServableFrame DEF vars, ServableInv
  <2>3. CASE OrphanStep
    BY <1>1, <2>1, <2>3, OrphanWritesTree, ServableFrame DEF ServableInv
  <2> QED
    BY <1>1, <2>1, <2>2, <2>3, ServableEdit, ServableOperate, ServablePromise, ServableCrash DEF Next
<1>2. ServableInv => ReleasesBuildable
  BY DEF ServableInv, Servable, ReleasesServable, ReleasesBuildable
<1> QED
  BY <1>1, <1>2, ServableInit, PTL DEF Spec

=============================================================================
