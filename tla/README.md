# Formal model of pacmanager

TLA+ models of the parts of pacmanager whose correctness depends on the order of
events: the artifact lifecycle of the control plane (`demo/`), what surrounds it
there (deployments, access, the code editor, evidence and publication, chat, the
calls to models), the contract every artifact is held to (`src/`), and the Docker
engine applications are deployed to (`adapters/runtime/docker-engine`). TLC checks
the models on small instances; TLAPS proves the results listed below for every
value of the constants. `PROJECT.json` maps each definition to the lines it
translates; paths below are relative to the repository.

## The system

pacmanager lets a team describe, generate, build, publish and deploy small
applications. Everything runs around one Node process, the control plane, which
keeps its state in `state.json`, and starts one child process per adapter call.

| Component | State it keeps | Operations | Talks to |
|---|---|---|---|
| Artifact store, `demo/store.js` | per application: definition and revision, build, generation, plan, releases, deployments, preview, sharing; sessions and invites; in memory: running jobs and slot counters | create, update, build, generate, cancel, plan, publish, roll back, deploy, preview, undeploy, archive, purge, share, invite | builders, authoring, runtime and graduation adapters |
| Definitions, `demo/definition.js` | none | validate (`definition`), compile to HTML or digest a source tree | store, build worker |
| File editor, `demo/files.js` | the files of a definition or of a tree | read, save, delete, rename under a compare-and-set | store |
| Builders, `demo/builders.js` | none | run `compile` in a process, a container or a cluster job, at most 30 s | store |
| Authoring adapter, `adapters/authoring` | the workdir of an application | ask a model for files, parse them, write an application's files | store |
| Server, `demo/server.js`, `demo/proxy-auth.js` | none | HTTP routes and MCP tools, one store operation each, for a principal it has identified | all of the above |
| Assurance, `demo/assurance.js` | one record per application, against a release | read, save | store, publisher |
| GitHub publisher, `demo/github-publisher.js` | publication plans, in memory | prepare, confirm | store, GitHub |
| Chat, `demo/chat.js`, `demo/litellm.js` | the latest 100 exchanges per application | stream a reply, record it | store, LiteLLM |
| Web interface, `demo/web` | per browser: unfinished exchanges, the open file | poll, draw, send | server |
| Graduation, archives, administration | none | convert a release; report | store |
| Runtime adapter, `adapters/runtime/docker` | keys at the model gateway | deploy, sync, undeploy, set access, status | store, engine, LiteLLM |
| Docker engine, `adapters/runtime/docker-engine` | deployment records, ports, routes, containers, databases | deploy, sync, start, stop, undeploy, set access, restore routes | runtime adapter |
| Plan contract, `src/` | none | validate, plan and check policies | command line |

What is hard about it:

* **Promises that outlive their request.** A build, a generation, a preview and
  every adapter call end long after the handler that started them returned.
  They close over the application object and write to its fields at the end,
  whatever those fields hold by then.
* **Cancellation.** Stopping a generation records the outcome immediately; the
  run itself ends when its child does.
* **Two copies of the truth.** A small artifact carries its source in its
  definition; a server application only points to a tree on disk which the file
  editor, the style settings and the authoring child change in place.
* **Crashes.** `state.json` is durable, promises and counters are not; a tree, a port
  file and a child process change outside it.
* **Timeouts.** The control plane kills an adapter child at a deadline, while
  the engine it called goes on.
* **Decisions that wait for people.** Evidence is written over hours, a
  publication is confirmed minutes after its preview, a file is edited while
  others write it, an invite is accepted whenever its recipient reads the mail.
* **Two views of one conversation.** A message is in the browser, in a stream
  and in the store, and polls overtake each other.

What has to be right, per component: a release contains exactly what its
definition compiles to (store, definitions, builders); numbers only grow and the
rollback window is exact (store); each artifact has at most one live job and each
job ends and frees its slot (store, builders, authoring); a plan is settled by the
run that executes it (store); records agree with what runs, and an allowlist set
in the control plane is enforced at the edge (store, runtime adapter, engine);
an invite is used once and nothing of an application outlives it (store);
evidence and publications refer to the revision that was confirmed (assurance,
publisher); nobody's file is overwritten unseen (editor, files); a message is shown
once (chat, web interface); a prompt leaves the premises only when it may (authoring
adapter); both versions of the contract ask for the same posture (contract).

## Modules

| Module | What it is |
|---|---|
| `ArtifactStore` | The artifact lifecycle: `store.js` from `create` to `rollback`, the write guards of `files.js`, the workdir writes of the authoring child, the constructor as restart. Properties and mutants are in the module. |
| `ReleaseLedger` | What `publish` and `rollback` promise, as an abstract specification. |
| `DockerEngine` | The engine's requests (`backends/docker.py`, `service.py`) over containers, the port file (`ports.py`), routes (`proxy/nginx.py`), datastores and records (`store.py`), and the restart of the engine. |
| `Deployments` | Deployments and previews: `store.js` from `deployApplication` to `purge`, `adapter-host.js`, the Docker runtime adapter with its keys, and an engine reduced to what a client can tell. |
| `Access` | Principals, ownership, sharing, invites, sessions, purges, and chats that outlive the access they were asked with. |
| `CodeEditor` | The code tab (`web/code-ui.js`) against the file routes (`files.js`) and other people's writes. |
| `Publication` | The assurance record and the reviewed publication to GitHub. |
| `ChatThread` | One conversation: the stream, the log of the store, the thread of a browser. |
| `ModelGateway` | The authoring adapter's process: the proxy, its objections, the vendors behind it, and what the host makes of the reply. |
| `Contract` | The two validators of `src/contract.js` and the policy of `src/policy.js`. |
| `Studio` | The seven modules above side by side. |
| `MCArtifactStore`, `MCDockerEngine`, `MCStudio` | Instances: the definitions each run uses. |
| `ArtifactStore_proofs`, `DockerEngine_proofs`, `Deployments_proofs`, `Access_proofs`, `Publication_proofs`, `ModelGateway_proofs`, `Contract_proofs` | The theorems about each module and their proofs. |
| `Studio_proofs` | The theorems about `CodeEditor` and `ChatThread`, and those about `Studio` that follow from its parts. |

### ArtifactStore: state and code

| Variable | Code |
|---|---|
| `config`, `revision` | `app.config`, `app.revision`. A definition is a tier, a kind and a `source` that stands for all that `compile` reads. Kinds are `classic` (no kind), `page` (interactive, knowledge) and `server` (application, auto: a workdir is handed to the model). |
| `tree` | the directory `config.sourcePath` points to; a `sourcePath` is the application's workdir |
| `restyled` | whether the definition's style may differ from the kit files in that directory, which `startGeneration` rewrites |
| `build`, `generation`, `plan` | `app.build`, `app.generation`, `app.plan`; ids are counted per application (`jobs`); `plan.owner` is the run whose `linkedPlan` is this very object |
| `number`, `releases` | `app.release.number` and `app.releases` by number |
| `sandbox` | builder promises, with what they will return |
| `runs` | generation promises: aborted, handed a workdir, wrote into it |
| `abortOf` | `this.jobs` |
| `running`, `generating` | the slot counters |
| `stranded` | history variable: generations recorded and saved whose promise never began, because writing the workdir threw |
| `orphans` | children of model calls that outlive a crash of the server |
| `overtaken` | history variable: a rollback replaced a build that was still in its sandbox |

A handler runs without interruption up to its next `await`, and `save()` rewrites
`state.json` before that, so an action is one such segment and a restart reads
back the current state. Files are the exception, because they change before the
record does. Writing them may throw: `StartGenerationThrows` leaves what
`TakeSlot` has saved without a promise, `SetStyleThrows` leaves the new revision
and perhaps half a kit. The server may crash after they were written and before the
record was: `CrashInEdit`. `Reboot` is the constructor; it leaves the children of
model calls behind, each of which may still write the tree once
(`OrphanScaffolds`). `Update`, `SetCapabilities`, `SetStyle`, `EditFile`,
`SetPlan` and `RecordPlanReply` edit; `StartBuild`, `BuildSourceTree` and
`BuilderReturns` build; `StartGeneration`, `Scaffold`, `AcceptReply`,
`RejectReply`, `FailRun`, `CancelGeneration` and `UnwindRun` generate; `Publish`
and `Rollback` release; `Restart` is a crash between two actions. A build of an application
tree is one action, because it is digested in microtasks before any other request
runs. An aborted run may take any time to unwind: the adapter host rejects at
once, but the store does not rely on it, and its `finally` is written for the
case that another run has started.

Abstracted: titles, texts and files are contents that can be told apart or not;
access control (every caller is an owner); the audit trail and logs; documents,
comments and briefings; the number of files a scaffold has written before it is
interrupted (any content of the tree is possible). `save()` is taken to succeed, and the
edit of a handler that threw to be saved with the next one. The builder's output is
compared with `compile` in the control plane, so a builder either returns what
`compile` gives or fails.

### DockerEngine: state and code

| Variable | Code |
|---|---|
| `ports` | `ports.json` of `PortAllocator` |
| `container` | the Docker container named after the application: which request started it, its host port, whether it is up, its `sync_capable` label |
| `route` | the application's location file: its upstream port and allowlist |
| `database` | whether Postgres or DynamoDB is provisioned for it |
| `record` | its row in `deployments`: status, port, and of `extra` the allowlist and whether a datastore is known |
| `writes` | the tasks of `_bg_upsert` that have not finished |
| `tasks` | the requests accepted so far and the step each has reached |
| `restarts` | how often the engine was restarted |
| `excused`, `garbled` | history: applications whose requests overlapped, whose port was released although Docker had not removed the container, or whose container was there when a crash tore the port file; applications whose record writes were lost, reordered or failed |

A request is a task of one asyncio process, and an action is what it does up to a
command it awaits whose outcome or interleaving matters:

| Request | Actions |
|---|---|
| deploy | `DeployAllocate`, `DeployRemove`, `DeployBuild`, `DeployStart`, `DeployHealth`, `DeployRoute` |
| sync | `SyncLookup`, `SyncRestart`, `SyncHealth` |
| undeploy | `UndeployRemove`, `UndeployRelease`, `UndeployRecord` |
| stop, start, access, status | `StopContainer`, `StartContainer`, `AccessRoute`, `StatusRead`, then `RecordOutcome` |

`Accept` takes a request at any time, for any application. `LandWrite` and
`DropWrite` end a background write, in any order. Every docker command may fail or
time out before or after its effect; where the code ignores the result (`check=False`)
the request goes on, elsewhere it ends. `Restart` loses requests and writes and
replays `lifespan`, with the location files kept or wiped by the bootstrap.
`CrashInPortFile` is a restart in the middle of a rewrite of `ports.json`, which the
next reader takes for an empty one: every step that allocates or releases a port may
end that way (`DiesRewritingPorts`).

Abstracted: host network mode only (with `DEPLOYKIT_DOCKER_NETWORK` a route names
the container and its port does not matter); containers neither exit nor start of
themselves; looking a container up and acting on it is one step, because the
commands name it or fail; provisioning is one step with `docker run`; the read,
merge and write of `extra` is one step; reads of the record succeed; a list that
nginx cannot express is refused like a file it rejects.

### The modules of the studio

`Studio` puts seven modules together that share no variable. A behaviour of all of
them is any interleaving of one behaviour of each, so a property that speaks of the
variables of one holds of the whole exactly if it holds of that module alone.
`Studio` uses this: `desk` chooses the module a behaviour is about, and the others
rest in one initial state. Where the code does share a field between two of them, each
has the part of it that its operations read and write: `Access` knows of a deployment
only that there has been one, and `Deployments` of sharing only the list it sends.

| Module | Variable | Code |
|---|---|---|
| `Deployments` | `app` | `deployId`, `preview`, `deployments`, `sharedWith`, `archived`, the number of `release` and whether `lastExport` names it, and whether `deployId` has been saved (`saved`) |
| | `draft`, `litellm` | whether the definition wants AI models or is sync-capable; the four `LITELLM` variables of the adapter's environment, each unset, empty or set |
| | `calls` | adapter processes: whether the store still awaits them, how far they are, what the engine was sent |
| | `site`, `edge`, `keys` | external: the container under `deployId` or `previewId`, the list at its route, the virtual key alive under its alias |
| `Access` | `entries`, `invites`, `sessions` | the fields `owner`, `sharedWith`, `archived` and `deployId` of the records; `state.invites`, `state.sessions` |
| | `purges`, `chats` | requests that have been let in and await something |
| `CodeEditor` | `cur`, `opening`, `requests`, `busy` | `st` of `code-ui.js`, its token, the requests it has sent |
| | `files` | the files at the server; a content is its own digest |
| `Publication` | `released`, `record`, `views` | the release number, the record of `assurance.js`, what each author has on the screen |
| | `plans`, `flights`, `branches` | the publisher's map, the confirmed publications under way and the request each has come to; external: branches |
| `ChatThread` | `log`, `asked` | the exchanges recorded; requests that await the model |
| | `view`, `locals`, `inflight`, `wire`, `replies` | the browser's copy of the log, its `local` entries, the message awaited, what it has not read of the stream, poll replies under way |
| `ModelGateway` | `env`, `run` | keys in the environment and what the model accepts; the process |
| `Contract` | `artifact`, `grants` | an artifact with its fields side by side; the grants handed to `authorize` |

`scope` (in `Deployments`) only bounds a behaviour. `news`, `admitted`, `said`,
`seen`, `heard`, `newest` (in `ChatThread`), `asked` (in a run of `ModelGateway`),
`saw`, `confirmed` and `times` (in `Publication`) and `licences` are history
variables; nothing the code does depends on them.

A call of `Deployments` has three lives, which end independently: `TimeOut`, `Restart`
and the answers end the store's wait; `DeleteKey`, `GenerateKey`, `KeyRefused`, `Post`,
`PostFails`, `StreamCut`, `RevokeKey` and `AnswerJob` are the adapter process;
`JobDone` and `JobFails` are the engine. `StoreStep` has the operations of the store.
A key is issued or not as `cli.js` reads the environment (`Coalesced`, `Issuing`), and
the master key is injected or not as `appspec.js` reads it (`OrElse`, `Addressed`,
`SpecKey`). Which source a container was made from is not modelled: it is the draft's, at
whatever moment the payload was made and the adapter read the folder (see below).
`deployApplication` sets `deployId` in memory, and `Restart` goes back to the saved one;
a deployment after that is assumed to get the same id, which it does unless the title
was changed.
Requests of `Access` are one step unless they await (`BeginPurge` and `Purged`, `Chat`
and `RecordChat`), and `CrashInAccept` ends the process between the two writes of an
acceptance. In `CodeEditor` a request is sent, handled (or refused) and replied to in
three steps. In `Publication` each request to GitHub is a step, a token is dropped at
the end, and `PublisherEnds` forgets what is in memory. In `ChatThread` a stream may
be cut between any two events, which the server hears later or never. `ModelGateway`
follows `complete` from one objection to the next.

Abstracted: which of several files or exchanges the interface offers; the facts of an
assurance record that no author writes; the details of an adapter's request; texts
that are compared for equality only.

## Checks

### Artifact lifecycle

Every run is over one application, because applications share only the two slot
counters; overlapping runs of one application (cancelled and restarted) fill the
slots as well. Bounds: revisions, job ids, releases and restarts are capped by
constants in the guards of the actions that count them.

| Run | Instance | Shows |
|---|---|---|
| `pages` | 2 contents, 3 revisions, 3 jobs, 4 releases with 2 retained, 2 attempts, 1 restart | `BuildExcludesGeneration`, `BuildingHasSandbox`, `PublishableIsCurrent`, `ReleasesAttested`, `RollbackWindow`, and that `ArtifactStore` implements `ReleaseLedger` |
| `tiers` | one definition of each tier, 2 tree contents, 3 revisions, 3 jobs, 2 attempts, 2 releases, 1 restart | `OneLiveRun`, `SlotsAccounted`, `RunSettlesPlan`, `OutcomesFinal`, `ReleasesBuildable`, `TreeEditsBumpRevision`, `TypeOK` |
| `live` | a server application or a page, 1 content, 1 release, else the limits of `tiers`, fairness | `BuildsSettle`, `GenerationsSettle`, `SlotsDrain` |

Three revisions and three jobs are what the known races take: a build, what
overtakes it, and one more release or run to see the effect; one restart is a crash and
what it leaves behind, against everything that happens afterwards; only a server
application has a workdir to fail on and a tree for an orphan to write; four releases with
two retained let two be dropped, so that a wrong number shows; two attempts give a retry and an exhaustion.

* `PublishableIsCurrent`: the publish guard (ready, same revision) admits only a
  result that is the compilation of the draft. `ReleasesAttested`: so every
  retained release carries the result of its own definition. Both have an
  exception, `overtaken`, for the race shown by `rollback_race`.
* `BuildExcludesGeneration`, `OneLiveRun`, `BuildingHasSandbox`: build and
  generation never coexist, "generating" means one live run which a
  cancel would reach, unless its start threw, "building" always has a promise that
  will end it.
* `SlotsAccounted`: both counters stay in their limits; `running` equals the builds in
  flight, `generating` the runs in flight and the starts that threw, no more and no less.
* `RunSettlesPlan`: an executing plan linked to a run has that run, until a restart, or
  unless its start threw.
* `RollbackWindow`, `LedgerKept`: the retained releases are the latest, in number
  order, never rewritten; a publish releases the draft and a rollback restores
  and re-releases one retained release exactly.
* `OutcomesFinal`: late replies change no recorded outcome.
* `ReleasesBuildable`, `TreeEditsBumpRevision`: no intent is ever released, and a
  tree never changes under an unchanged revision except on behalf of a generation
  (its run, its start that threw, its child left behind by a crash) or in an edit that
  a crash cuts off from its record.
* `BuildsSettle`, `GenerationsSettle`, `SlotsDrain`: builds end, generations whose promise
  began end, and so does every aborted run. A start that threw stays "generating".

Fairness is assumed for two things only: a sandboxed build settles (it is killed
after 30 s, `builders.js:27`) and a generation call settles (the adapter host
kills the child at its deadline, `adapter-host.js:20`, and an abort rejects it).
Nothing that a person does is fair, and a restart is never forced.

### Engine

| Run | Instance | Shows |
|---|---|---|
| `engine` | 1 application, 2 ports, 1 allowlist, 3 requests of every kind that do not overlap (`MaxExcused = 0`), 1 restart, 2 background writes at a time | `RunningHasContainer`, `RemovedLeavesNothing`, `AllowlistKept`, `RouteLeadsHome` |
| `overlap` | 2 applications, 1 port, 2 requests that overlap in any way, 1 restart | `TypeOK`, `PortsDisjoint`, `ContainerHoldsPort` |

Three requests are a deployment, what fails or changes it, and one that depends on
what was left; the second port lets a redeployment come back on another one; a
single port makes two applications compete for it. A deployment issues at most
five writes; two at a time are enough to reorder them. The system stops when the
requests are used up, so these runs do not check for deadlock.

* `PortsDisjoint`: no port is assigned twice, however requests interleave.
* `ContainerHoldsPort`: a container's port stays assigned to its application, also
  after failed deployments, timed-out removals, the requests of another application and
  restarts that spare the port file.
* `RunningHasContainer`, `RemovedLeavesNothing`: at rest, a record that says
  running has a container that is up, and one that says removed has neither
  container nor port, nor a route unless a later change of access wrote one. `start` records running without looking, and a stop or an
  undeployment can fail after Docker has stopped the container: these are
  exceptions in the property.
* `AllowlistKept`: the list that was set last, by a deployment or through the access
  endpoint, stays on record through everything else.
* `RouteLeadsHome`: the route of a running application goes to its own container's
  port, also when the port changed or a restart restored the route. A failed
  request is an exception: an unhealthy redeployment releases the port and leaves
  the route.

Nothing is promised for an application whose requests overlap, whose port was
released although `docker rm` had failed without notice, or whose port a crash has
torn from the file, except `PortsDisjoint`: nothing in the engine serialises requests,
and two deployments of one application do remove each other's container. The properties about records
need the record's writes to land in the order they were issued, which
`_bg_upsert` does not guarantee.

### Studio

| Run | Instance | Shows |
|---|---|---|
| `studio` | all desks, at the bounds below | the properties below |

* Deployments: 2 calls at a time, 2 releases, 2 records kept, 2 lists. `Cases` pairs a
  kind of draft and an environment with a deployment, or a preview, and one operation that
  may cross it any number of times. The environments are those in
  which issuing and injecting a key differ: configured, an empty PAC_ address or key, an
  address without a key, nothing at all; the theorem covers all 81. The races listed as hazards are between two operations; pairs
  keep what is checked to them, and a pair's operations may still be repeated, time
  out, be restarted over and cross themselves.
* Access: 1 application, 1 user besides the owner, 2 invites ever, 1 open invite and 1 session at
  a time. One session is what a second acceptance is refused by.
* Editor: 2 paths, 2 contents, 1 request at a time besides any opening. The
  editor refuses to save while another request is out, so what overlaps are openings,
  polls and other people's writes; a second rename or deletion under way is left out.
* Publication: 1 author, 2 releases, 2 revisions of the record, 2 plans of which 1 is listed.
  One author is enough for a stale view, because saving does not refresh it: a second save
  from the same view is what a second author's would be.
* Chat: 2 messages, 3 exchanges of which 2 are kept, 2 poll replies under way.
* Gateway: no bound; all 512 environments, up to six tries as in the code.
* Contract: a sound container, service, lambda and static artifact, and each of them with one
  field set to each value that a rule tells apart, and 2 grants. A rule is about one
  field, or about two of which one is the target; so a rule that is missing or off by
  one shows in an artifact with one field changed.

What the properties say:

* `SuccessIsTrue`: when a deployment or undeployment was the last thing heard of and
  its calls did not overlap, the container is there, or is not. `NoPreviewNoContainer`:
  a container of a preview is never left without a record of it. `PreviewSettles`: a
  preview does not stay "starting", even if the adapter hangs.
* `KeyOfItsOwn`: no application is given the master key however issuing its own key
  fails and whatever is configured, unless a `PAC_LITELLM_` variable is set to nothing,
  and after a deployment it holds the key that is alive.
* `EdgeFollowsSharing`: once the newest push has landed, the edge admits whom the store
  says.
* `InviteAdmitsOne`: an invite hands out one session at most and is not spent for none, also
  if the session limit refuses it or the process ends in the middle.
  `PurgedIsForgotten`: no invite or session outlives its application, also not one made
  while the purge waited. `ChatHasAccess`: what was said is recorded only while the
  application is open to the speaker.
* `NoBlindLoss`: this editor never destroys a content it has not shown.
* `PublishedAsReviewed`, `PlanSettlesOnce`: a branch holds what was reviewed and was
  still current at the confirmation, its evidence was written by someone who had that release
  before them or is called stale, and a plan is carried out once.
* `OneBubbleEach`: a message has one bubble, whether the stream, its record or a poll
  arrives first.
* `VendorOnlyAsFallback`: a prompt goes to a vendor only if the proxy cannot serve, and
  never if the alias is a local one.
* `VersionsAgree`: the container rules, written twice, accept the same artifacts.
  `AllowedAsLicensed`: a request is allowed exactly while it was granted for this very
  content; an edit ends it, and a dead grant does not hide a live one.

Fairness is assumed of the store's timer (`TimeOut`) only, and `PreviewSettles` needs
no more; an engine, a proxy or a model may hang for ever. Most parts may stop, so
deadlock is not checked.

Exceptions in these properties, each for a behaviour the code has: `news` becomes
"muddled" when two calls for one deploy id overlap or a stream is lost before its
verdict, after which nothing is promised of the container; `edge.newest` is about the
newest push only; `view = newest` in `OneBubbleEach` leaves out the time a browser
shows an older copy than it had.

### Disagreements

Six runs expect a violation: the repository's text says one thing and the code
does another.

* `leaked_slot`: `startGeneration` takes the slot, the abort handle and the plan and saves
  "generating" before it writes the workdir; the `finally` that undoes this belongs to a
  promise that begins afterwards. A throw leaves them all; a cancel ends the status, the
  slot is lost until a restart, and two of them refuse every generation.
* `rollback_race`: `startBuild`'s completion does not check which build is
  current. A build that is still running when a rollback happens writes its
  result into the rollback's build, which can be published; the retained release
  then has a result which is not that of its definition.
* `cancelled_scaffold`: the files of a reply are in the tree before it is
  accepted, so cancelling leaves them there.
* `unseen_edit`: a draft updated during a generation is replaced without a
  conflict when the reply is accepted.
* `leaked_database`: `undeploy` drops the datastores that the record names, but a
  deployment that fails after provisioning one has not recorded it.
* `sync_fallback`: a deployment of a sync-capable application is to fall back to a
  full deployment when there is no container; the engine reports that as an event
  of an accepted stream, and the fallback waits for a refused request.

Behaviours that were met while modelling, and are exceptions or outside what the
properties promise:

* The child of a model call that a crash leaves behind writes the tree although its
  generation is recorded as failed (an exception of `TreeEditsBumpRevision`).
* Kit files and edited files are written before the revision that counts them is saved
  (`store.js:359` and 332, `files.js:125`). A crash in between leaves other files under the
  revision a build was made for, and the publish guard admits that build (`CrashInEdit`, an
  exception of `TreeEditsBumpRevision`).
* Rolling back a server application restores its definition and digest, not its files
  (`store.js:418`); `server.js:45` promises "the old release's exact content". `LedgerKept`
  is about definition and result only.
* The port file is truncated and rewritten in place, and read as empty when it is torn
  (`ports.py:31-41`): a crash loses every application's port while the containers stay
  (`CrashInPortFile`, an exception of `ContainerHoldsPort`).
* `cli.js` takes an empty `PAC_LITELLM_` variable for a value and issues no key (22, 51-54),
  `appspec.js` takes it for none and injects the master key (36, 77): an exception of
  `KeyOfItsOwn`, and of the comment at `cli.js:62`, that a deployment fails closed.
* The deploy id of a first deployment is saved when the adapter has answered (`store.js:433`
  and 442). A restart before that forgets what the deployment at the engine is called
  (`Restart` of `Deployments`); no property promises otherwise.
* `deployApplication` sends the draft's source and paths with the number and digest of the
  release (`store.js:434-440`), where `server.js:55` says that the published release is
  deployed. This is not modelled: no guard relates the two.
* The constructor does not touch a plan that was executing, so after a crash it stays
  so until someone sets it (a condition of `RunSettlesPlan`).
* `deployApplication` labels the record with the release of the time of the answer
  (`store.js:441`). It does not send the allowlist; the route is open until the next push.
* A deployment killed by the timer may be live with no record of it. A preview stopped while it
  was starting comes back without a `deployId` and cannot be stopped (462).
* `purge` does not look again at `archived` after its await (561).
* A sync leaves the container with the key that the sync's own call has deleted.
  A sync never succeeds in the model, because a container it could succeed on needs a
  full deployment, which a sync-capable application does not get.
* `code-ui.js`: the reply to an opening replaces text typed since a poll started it
  (115, 127); a reply to a rename or a deletion closes whatever file is open by then
  (172); a save's reply after the path was opened again sets the digest of a content
  that is not shown (140). Text in the browser is lost, files at the server are not.
* `github-publisher.js`: a reference whose request timed out is "failed" though the
  branch may exist; an expired plan keeps its token until the next one is prepared.
* The graduation gate looks at the draft's tier (`store.js:506`).
* A browser whose refreshes overlap may draw an older copy for a moment (`ui.js:219`);
  retrying a message whose last event was lost records it twice (515).
* `authoringStatus` calls a missing LiteLLM key unreachable, because the message has
  none of the words it looks for; two probes at once may be recorded in either order
  (`store.js:183`). One vendor call may take 150 s, the host allows 180 s for all.
* `plan`, `authorize` and the graduation descriptor read fields where v1alpha1 has
  them, and throw for a valid v1alpha2 artifact.
* In the engine: one reader ends an event stream for all (`service.py:315`), `start`
  records running without looking (`docker.py:681`), a change of access writes back
  the record it read (`service.py:439`), a redeployment without a list opens the
  route (`docker.py:502`), a removed application's record keeps its port (`service.py:426`).

## Proofs

Every safety and action property of the passing runs is proved, for every value of the
constants that satisfies the modules' assumptions: any sets of applications, users, ports,
files, messages, environments or documents, and any limits. What TLC shows on an instance
is the same formula. One module of proofs belongs to each part; `Studio_proofs` holds those
of `CodeEditor` and `ChatThread` and combines the seven parts.

The assumptions say what configuration gives: limits are positive, the model values that
stand for "nothing" are not among the values, definitions of a tier other than an intent
carry what `definition.js` demands. They are in the modules, and TLC evaluates them on
every run.

### ArtifactStore

* `TypeCorrect`: `Spec => []TypeOK`.
* `PublishInvariant`, and from it `PublishGuardSound` and `ReleasesSound`.
  `PublishableIsCurrent` is not inductive: when a sandboxed build returns, what it
  returns must be known to belong to the current revision. The invariant adds, per
  application: a promise in the sandbox belongs to the current build if that is
  still building and was compiled from the definition of the build's revision
  (`SandboxTracked`), a build is never ahead of the draft (`BuildNotAhead`), and a
  ready build at the current revision has the compilation as its result
  (`BuildCurrent`). Editing is sound because every edit bumps the revision, so
  `BuildCurrent` and `SandboxTracked` become vacuous; a rollback is sound because
  `ReleasesAttested` is part of the invariant.
* `WindowExact`: the retained releases are exactly `number - Retained + 1 ..
  number`, by induction over publish and rollback.
* `LedgerImplemented`: initial states map to initial states, and each step to a
  step of `ReleaseLedger` or a stutter.
* `PromiseInvariant`, and from it `SlotsAccountedFor`, `BuildOrGeneration`,
  `CancelFindsItsRun` and `BuildHasPromise`. What a start that threw leaves behind is
  part of it: such a start has an id no run has, and keeps one slot. The four hold each other up: a counter is
  decremented for one promise only because ids are never reused (`RunsNamed`,
  `JobsNamed`), a late reply is ignored only because no live run is behind a recorded
  outcome, a generation is not started twice only because the status says so.
  `OutcomesAreFinal` follows: a reply that writes belongs to the live run.
* `PlansAreSettled`, with `RunsNamed` and `OneLiveRun`: the run that owns an executing plan
  is in flight, and its `finally` is the only way out of flight, unless its start threw.
* `TreeEditsCounted`: by cases over who writes a tree.
* `OnlyServableReleased`: `publish` looks neither at the tier nor at the result. It need
  not, because a ready build has a result and one for the current revision is of a
  definition that could be built (`ServableInv`).

### DockerEngine

* `PortsNeverShared`: `Spec => []PortsDisjoint`. Only `DeployAllocate` assigns, and
  it reads and writes the port file in one step, under its lock.
* `ContainersHoldPorts`: `Spec => []ContainerHoldsPort`. The property is not
  inductive: a deployment allocates its port four steps before the container
  exists, and an undeployment releases it one step after removing the container.
  `HoldsInv` adds, for every application that is not excused, that at most one of
  its requests is live (`Alone`), that a deployment past its allocation carries the
  assigned port (`Placed`), and that an undeployment about to release has removed
  the container (`Cleared`). A step of a task touches its own application only, so
  `SoundKeeps` reduces the invariant to a condition on that task and application,
  and `DeploySound` and `OtherSound` prove it action by action.
* `EngineTypeCorrect`: `Spec => []TypeOK`; that a container has a port needs the
  same invariant.
* `RecordInvariant`, and from it `EngineRunningHasContainer`,
  `EngineRemovedLeavesNothing`, `EngineAllowlistKept` and `EngineRouteLeadsHome`. These
  four speak of an application at rest, when its background writes have landed. The
  invariant (`Told`) holds at any moment, because it speaks of the record as it will be:
  `Final` is the stored record with the last pending write on top, which is all that
  matters since every write but a deployment's last one is a bare status (`Ordered`).
  Landing a write in order leaves `Final` alone (`LandKeepsFinal`); landing one out of
  order or losing one makes the application garbled. `StageOK` says what a request may rely
  on between its steps, for instance that a deployment at its route still has the container
  it started, and that a change of access still has the status it read. `Homed` relates
  record, container and route by port also while the application is stopped, which
  `RouteLeadsHome` does not, but a later start of it needs. `Newest` (a live request is the
  latest) is what makes the list set by it the last one. `AfterStep` reduces a step to
  conditions on the request that takes it, `ApartTold` covers every other application.

### The studio

* `Deployments` (`DeploymentsInv`): `DeploymentsOwnKey` from: in an environment without an
  empty `PAC_LITELLM_` variable, the two modules agree on whether there is a master key, a
  call past its key holds one (`KeyKnown`), and no container was ever given the master key
  (`NoMaster`). `DeploymentsSuccess` and
  `DeploymentsPreviewGone` from `Quiet`: as long as the news of a target is not muddled, at
  most one call for it is active, and the container is what that call, or else the last
  news, says. `DeploymentsEdge` from: the newest push carries the list the store has.
* `Access` (`AccessInv`): `AccessInviteAdmitsOne` needs that an invite which is not used has
  handed out nothing, and has had at most one session made, by an acceptance that a crash
  cut short. `AccessPurgedIsForgotten` is inductive by itself, because a purge forgets in the
  step in which it removes, and every other handler looks the entry up again.
  `AccessChatHasAccess` needs no invariant: the condition is read in the step that records.
* `Publication` (`PublicationInv`): a flight belongs to a plan that is publishing, and no
  plan has two (`FlightsFounded`); what was confirmed is what was prepared
  (`PlansFounded`); a record that was saved was saved by someone who had seen its release.
* `ModelGateway` (`GatewayInv`): every attempt has given something up, so the attempts are
  as many as what has been given up and cannot run out before the proxy had its last chance
  (`TriesCounted`); a form of thinking was given up only if the model refuses it
  (`FormsRefused`).
* `Contract`: `ContractVersionsAgree` is about every document, without an invariant.
  `ContractAllowsAsLicensed` needs that a licence names a live grant by its place and every
  live grant has its licence (`LicencesNameGrants`).
* `CodeEditor` (`CodeEditorInv`): whatever a request in flight is based on was shown, and so
  was the base of the open file; the server's compare-and-set does the rest.
* `ChatThread` (`ChatThreadInv`): a message is recorded at most once (`LogOnce`), its last
  event is sent after it was recorded (`WireTrue`), one reply is awaited at a time
  (`LocalsTrue`), and what was read to the end is kept until a poll has shown it
  (`HeardLogged`).
* `Studio`: a behaviour of the studio is one of each part, by its definition, so `StudioTypes`
  and `StudioKeepsPromises` only carry the parts' theorems over.

### What stays with TLC

Liveness (`BuildsSettle`, `GenerationsSettle`, `SlotsDrain`, `PreviewSettles`) needs fairness
and `ENABLED`, which the prover cannot handle. The six expected violations are
counterexamples, for which a run is the proof.

## Plan

The order so far was: the artifact lifecycle, the engine, what surrounds the lifecycle, and
then the proofs of the safety properties. Next, in this order:

1. An abstract specification of the engine as `Deployments` assumes it (a job succeeds, or
   fails with or without losing the container), and that `DockerEngine` implements it, by TLC
   and by proof. `Told` has the facts the refinement mapping needs.
2. The event stream between the two: what a client that reads to the end, or is cut off,
   may conclude.
3. Abstract specifications of the other promises that are now invariants over history
   variables: an invite that is spent once, a plan of publication that is settled once.

## Not modelled

Rendering and wording (pages, prompts, reports, the plan and graduation
descriptors), tar archives, the parsing of requests and of model output beyond what
may be wrong with it, proxy headers, the orchestration adapter (a stateless
translation), administration and everything else that only reads. The event stream of
the engine is seen from its client only; Docker network mode is not modelled.
`PROJECT.json` gives the reason for each component.
