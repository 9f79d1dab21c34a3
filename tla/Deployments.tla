----------------------------- MODULE Deployments -----------------------------
(***************************************************************************)
(* Deployments and live previews of one application (demo/store.js), the   *)
(* runtime adapter process each operation runs in (demo/adapter-host.js,   *)
(* adapters/runtime/docker) and what it changes at the engine and at the   *)
(* LiteLLM proxy.                                                          *)
(*                                                                         *)
(* A call has three lives: the store awaits it, the adapter process works  *)
(* for it, the engine carries out the job it was sent.  The store gives up *)
(* after the timeout and kills the process, but the job goes on; a restart *)
(* of the server forgets the await, and a deploy id not saved yet.  Only   *)
(* `starting' keeps two calls apart.  The engine is reduced to what a      *)
(* client can tell: a job succeeds, or fails with or without losing the    *)
(* container it replaces.                                                  *)
(***************************************************************************)
EXTENDS Integers, SequencesExt

CONSTANTS
  Slots,            \* bounds the calls under way at once
  Lists,            \* values of sharedWith
  Cases,            \* kinds of drafts, wanting AI models or sync-capable, each with an
                    \* environment of the adapter process and the <<operation, target>>
                    \* pairs that bound what a behaviour does
  None,
  MaxReleases,      \* bounds release numbers
  KeptDeployments   \* 20 in the code

Targets == {"app", "preview"}     \* deployId and previewId
Operations == {"deploy", "undeploy", "purge", "access", "publish"}

\* PAC_LITELLM_URL, PAC_LITELLM_KEY, DEPLOYKIT_LITELLM_URL and DEPLOYKIT_LITELLM_KEY.
Settings == [{"pacUrl", "pacKey", "url", "key"} -> {"unset", "empty", "set"}]

VARIABLES
  app,      \* the fields of the application record these operations use
  draft,    \* of the draft: wants AI models, is sync-capable
  litellm,  \* what the adapter's environment says of the proxy
  scope,    \* the operations this behaviour uses
  calls,    \* calls under way
  site,     \* the container under a deploy id
  edge,     \* the allowlist at the deployed application's route
  keys,     \* whether a virtual key is alive under a deploy id's alias
  news      \* history: the operation whose success was the last news of a deploy id;
            \* "muddled" once calls overlapped or a stream was lost

dvars == <<app, draft, litellm, scope, calls, site, edge, keys, news>>
world == <<site, edge, keys>>

\* A preview knows its deployId unless it was spread from null.
Preview == [status : {"starting", "running", "error"}, named : BOOLEAN]
\* saved: the deploy id is on disk.
App == [present : BOOLEAN, archived : BOOLEAN, release : 1..MaxReleases, exported : BOOLEAN,
        deployId : BOOLEAN, saved : BOOLEAN, shared : Lists, preview : Preview \cup {None},
        deployments : Seq(1..MaxReleases)]
\* What is known of a virtual key: no other one under its alias is alive.
KeyStates == {"live", "dead"}
\* waits: the store awaits; process: where the adapter is; job: what the engine was sent;
\* newest: no other push was begun since.
Call == [op : Operations, target : Targets, list : Lists, newest : BOOLEAN,
         key : KeyStates \cup {None}, waits : BOOLEAN,
         process : {"begun", "keyless", "keyed", "following", "revoked", "gone"},
         job : {"none", "queued", "ok", "error"}]
Container == [key : KeyStates \cup {None, "master"}]
Edge == [list : Lists, newest : BOOLEAN]

ASSUME DeploymentsAssumption ==
  /\ None \notin Preview \cup Call \cup Container \cup Edge
  /\ None \notin KeyStates \cup {"master", "deploy", "undeploy", "muddled"}
  /\ Cases \subseteq [ai : BOOLEAN, syncable : BOOLEAN] \X Settings \X SUBSET (Operations \X Targets)
  /\ Lists # {} /\ MaxReleases \in Nat \ {0} /\ KeptDeployments \in Nat \ {0}

\* Types; a call that nobody waits for, works for or carries out is forgotten.
DeploymentsTypeOK ==
  /\ app \in App /\ Len(app.deployments) <= KeptDeployments
  /\ <<draft, litellm, scope>> \in Cases
  /\ calls \in [Slots -> Call \cup {None}]
  /\ site \in [Targets -> Container \cup {None}]
  /\ edge \in Edge \cup {None}
  /\ keys \in [Targets -> BOOLEAN]
  /\ news \in [Targets -> {"deploy", "undeploy", "muddled", None}]

DeploymentsInit ==
  /\ app = [present |-> TRUE, archived |-> FALSE, release |-> 1, exported |-> FALSE,
            deployId |-> FALSE, saved |-> FALSE, shared |-> CHOOSE l \in Lists : TRUE,
            preview |-> None, deployments |-> <<>>]
  /\ \E c \in Cases : draft = c[1] /\ litellm = c[2] /\ scope = c[3]
  /\ calls = [s \in Slots |-> None]
  /\ site = [t \in Targets |-> None]
  /\ edge = None
  /\ keys = [t \in Targets |-> FALSE]
  /\ news = [t \in Targets |-> None]

-----------------------------------------------------------------------------
(* The store *)

Active(t) == {s \in Slots : calls[s] # None /\ calls[s].target = t /\ calls[s].op # "access"}

\* Store.save: with anything that is saved, a deploy id gets to the disk.
Persisted(a) == [a EXCEPT !.saved = a.deployId]

NewCall(op, t, l) ==
  [op |-> op, target |-> t, list |-> l, newest |-> TRUE, key |-> None, waits |-> TRUE,
   process |-> "begun", job |-> "none"]

Free(s) == calls[s] = None /\ s = CHOOSE r \in Slots : calls[r] = None

\* createRuntimeAdapter.invoke: one adapter process per operation.
Invoke(s, op, t) ==
  /\ Free(s) /\ <<op, t>> \in scope
  /\ calls' = [calls EXCEPT ![s] = NewCall(op, t, app.shared)]
  /\ news' = [news EXCEPT ![t] = IF Active(t) = {} THEN None ELSE "muddled"]
  /\ UNCHANGED <<draft, litellm, scope, world>>

Publish ==
  /\ app.present /\ app.release < MaxReleases /\ <<"publish", "app">> \in scope
  /\ app' = Persisted([app EXCEPT !.release = @ + 1, !.exported = FALSE])
  /\ UNCHANGED <<draft, litellm, scope, calls, world, news>>

\* Whatever else is done to this application or another saves both.
OtherOperation ==
  /\ app.present /\ app.deployId /\ ~app.saved
  /\ app' = Persisted(app)
  /\ UNCHANGED <<draft, litellm, scope, calls, world, news>>

\* lastExport names the current release: exported until the next one.
RecordExport ==
  /\ app.present /\ <<"undeploy", "app">> \in scope
  /\ app' = Persisted([app EXCEPT !.exported = TRUE])
  /\ UNCHANGED <<draft, litellm, scope, calls, world, news>>

\* The deploy id is saved when the call is answered, or with something else.
DeployApplication(s) ==
  /\ app.present
  /\ app' = [app EXCEPT !.deployId = TRUE]
  /\ Invoke(s, "deploy", "app")

Starting == app.preview # None /\ app.preview.status = "starting"

\* The draft has been built; the preview is recorded before the call.
StartPreview(s) ==
  /\ app.present /\ ~Starting
  /\ app' = Persisted([app EXCEPT !.preview = [status |-> "starting", named |-> TRUE]])
  /\ Invoke(s, "deploy", "preview")

\* Without a deployId the adapter refuses at once and nothing changes.
StopPreview(s) ==
  /\ app.present /\ app.preview # None /\ app.preview.named
  /\ Invoke(s, "undeploy", "preview")
  /\ UNCHANGED app

UndeployApplication(s) ==
  /\ app.present /\ app.deployId
  /\ app.exported
  /\ Invoke(s, "undeploy", "app")
  /\ UNCHANGED app

\* pushAccess: the list goes to the edge of a deployed application; earlier pushes may
\* still be under way.
PushAccess(s, l) ==
  IF ~app.deployId THEN UNCHANGED <<draft, litellm, scope, calls, world, news>> ELSE
  /\ Free(s)
  /\ calls' = [[r \in Slots |-> IF calls[r] = None THEN None ELSE [calls[r] EXCEPT !.newest = FALSE]]
       EXCEPT ![s] = NewCall("access", "app", l)]
  /\ edge' = IF edge = None THEN None ELSE [edge EXCEPT !.newest = FALSE]
  /\ UNCHANGED <<draft, litellm, scope, site, keys, news>>

\* Mutant: the list is pushed as it was before.
ShareAfterPush(s, l) ==
  /\ app.present /\ <<"access", "app">> \in scope /\ l # app.shared
  /\ app' = Persisted([app EXCEPT !.shared = l])
  /\ PushAccess(s, app.shared)

\* shareWithEmail, unshareEmail: saved before it is pushed.
Share(s, l) ==
  /\ app.present /\ <<"access", "app">> \in scope /\ l # app.shared
  /\ app' = Persisted([app EXCEPT !.shared = l])
  /\ PushAccess(s, l)

\* archive, unarchive: everything else stays.
Archive ==
  /\ app.present /\ <<"purge", "app">> \in scope
  /\ app' = Persisted([app EXCEPT !.archived = ~@])
  /\ UNCHANGED <<draft, litellm, scope, calls, world, news>>

\* A deployed application is purged by force, after an attempt to undeploy it.
Purge(s) ==
  /\ app.present /\ app.archived
  /\ IF app.deployId THEN Invoke(s, "purge", "app") /\ UNCHANGED app
     ELSE /\ app' = [app EXCEPT !.present = FALSE]
          /\ UNCHANGED <<draft, litellm, scope, calls, world, news>>

-----------------------------------------------------------------------------
(* The adapter process *)

\* What becomes of a call: forgotten once all three lives are over.
Kept(c) == IF c.waits \/ c.process # "gone" \/ c.job = "queued" THEN c ELSE None
Step(s, c) == calls' = [calls EXCEPT ![s] = Kept(c)]

\* Mutant of Recorded: no record is ever dropped.
RecordedAll == Persisted([app EXCEPT !.deployments = Append(@, app.release)])

\* A deployment that was answered is recorded under the release of now.
Recorded ==
  LET all == Append(app.deployments, app.release)
      first == IF Len(all) > KeptDeployments THEN 2 ELSE 1
  IN  Persisted([app EXCEPT !.deployments = SubSeq(all, first, Len(all))])

\* Mutant of PreviewSettled: a start that is lost settles nothing.
PreviewAnswered(verdict) ==
  IF verdict = "lost" THEN app ELSE
  Persisted([app EXCEPT !.preview = [status |-> IF verdict = "ok" THEN "running" ELSE "error",
                                     named |-> @ # None /\ @.named]])

\* The job of startPreview ends; what it spreads may have become null.
PreviewSettled(verdict) ==
  Persisted([app EXCEPT !.preview = [status |-> IF verdict = "ok" THEN "running" ELSE "error",
                                     named |-> @ # None /\ @.named]])

\* Mutant of StopSettled: the adapter's verdict is not unwrapped.
StopForgets(verdict) == Persisted([app EXCEPT !.preview = None])

StopSettled(verdict) ==
  IF verdict = "ok" THEN Persisted([app EXCEPT !.preview = None]) ELSE app

\* How the store goes on with a reply, or with the rejection of a call that was lost.
Settled(c, verdict) ==
  IF ~c.waits \/ ~app.present THEN app ELSE
  CASE c.op = "deploy" /\ c.target = "app" /\ verdict # "lost" -> Recorded
    [] c.op = "deploy" /\ c.target = "preview" -> PreviewSettled(verdict)
    [] c.op = "undeploy" /\ c.target = "preview" -> StopSettled(verdict)
    [] c.op = "undeploy" /\ c.target = "app" /\ verdict = "ok" -> Persisted(app)
    [] c.op = "purge" -> [app EXCEPT !.present = FALSE]
    [] OTHER -> app

\* The process prints its reply and ends.
Answer(s, verdict) ==
  /\ app' = Settled(calls[s], verdict)
  /\ Step(s, [calls[s] EXCEPT !.waits = FALSE, !.process = "gone"])
  /\ news' = LET c == calls[s] IN
       IF verdict # "ok" \/ c.op = "access" \/ news[c.target] = "muddled" THEN news
       ELSE [news EXCEPT ![c.target] = IF c.op = "deploy" THEN "deploy" ELSE "undeploy"]

At(s, op, process) ==
  calls[s] # None /\ calls[s].op = op /\ calls[s].process = process

Dead(k) == IF k # None /\ k.key = "live" THEN [k EXCEPT !.key = "dead"] ELSE k

\* deleteByAlias: the key under the alias dies wherever it is; the process goes on.
DeleteByAlias(s, process) ==
  LET t == calls[s].target
      Without(c) == IF c # None /\ c.target = t THEN Dead(c) ELSE c
  IN  /\ keys' = [keys EXCEPT ![t] = FALSE]
      /\ site' = [site EXCEPT ![t] = Dead(@)]
      /\ calls' = [r \in Slots |-> IF r = s THEN [Without(calls[r]) EXCEPT !.process = process]
                                   ELSE Without(calls[r])]

\* materializeLocal and materializeRemote come first: there may be no source to deploy.
SourceMissing(s) ==
  /\ At(s, "deploy", "begun")
  /\ Answer(s, "error")
  /\ UNCHANGED <<draft, litellm, scope, world>>

\* cli.js takes an empty PAC_ variable for a value (??), appspec.js for none (||).
Coalesced(pac, kit) == IF pac = "unset" THEN kit ELSE pac
OrElse(pac, kit) == IF pac = "set" THEN pac ELSE kit

\* A key of its own is issued only if cli.js finds both the proxy's address and its master
\* key; otherwise the deployment goes on without a word.
Issuing ==
  Coalesced(litellm.pacUrl, litellm.url) = "set" /\ Coalesced(litellm.pacKey, litellm.key) = "set"
Addressed == OrElse(litellm.pacUrl, litellm.url) = "set"

\* ensureAppKey begins by deleting the key of the deployment before.
DeleteKey(s) ==
  /\ At(s, "deploy", "begun") /\ draft.ai /\ Issuing
  /\ DeleteByAlias(s, "keyless")
  /\ UNCHANGED <<app, draft, litellm, scope, edge, news>>

\* Mutant of GenerateKey: the new key is deleted instead of the old one.
GenerateThenDelete(s) ==
  /\ At(s, "deploy", "keyless") /\ ~keys[calls[s].target]
  /\ Step(s, [calls[s] EXCEPT !.process = "keyed", !.key = "dead"])
  /\ UNCHANGED <<app, draft, litellm, scope, world, news>>

\* A fresh key, which the proxy refuses while another one is alive under the alias.
GenerateKey(s) ==
  /\ At(s, "deploy", "keyless") /\ ~keys[calls[s].target]
  /\ keys' = [keys EXCEPT ![calls[s].target] = TRUE]
  /\ Step(s, [calls[s] EXCEPT !.process = "keyed", !.key = "live"])
  /\ UNCHANGED <<app, draft, litellm, scope, site, edge, news>>

\* The proxy refuses or fails: the deployment fails closed.
KeyRefused(s) ==
  /\ At(s, "deploy", "keyless") \/ (At(s, "deploy", "begun") /\ draft.ai /\ Issuing)
  /\ Answer(s, "error")
  /\ UNCHANGED <<draft, litellm, scope, world>>

Ready(s) ==
  /\ calls[s] # None
  /\ calls[s].process = IF calls[s].op = "deploy" /\ draft.ai /\ Issuing THEN "keyed" ELSE "begun"

\* toAppSpec, provisionDb and the request that starts the job; a draft that wants models
\* needs the proxy's address.
Post(s) ==
  /\ Ready(s)
  /\ calls[s].op = "deploy" /\ draft.ai => Addressed
  /\ Step(s, [calls[s] EXCEPT !.process = "following", !.job = "queued"])
  /\ UNCHANGED <<app, draft, litellm, scope, world, news>>

\* Something before the request, or the request itself, throws.
PostFails(s) ==
  /\ Ready(s)
  /\ Answer(s, "error")
  /\ UNCHANGED <<draft, litellm, scope, world>>

\* followStream loses the stream before the job's verdict was heard: without an error heard
\* so far the reply is a success, unless asking for the status fails as well.
StreamCut(s) ==
  /\ At(s, "deploy", "following") /\ calls[s].job # "ok"
  /\ \E verdict \in {"ok", "error"} : app' = Settled(calls[s], verdict)
  /\ Step(s, [calls[s] EXCEPT !.waits = FALSE, !.process = "gone"])
  /\ news' = [news EXCEPT ![calls[s].target] = "muddled"]
  /\ UNCHANGED <<draft, litellm, scope, world>>

\* Mutant of Heard: errors in the stream are not noticed.
HeardLogs(c) == IF c.op = "deploy" THEN "ok" ELSE c.job

\* The verdict of a job that was followed to its end.
Heard(c) == c.job

\* The job's verdict is the reply; a successful undeployment goes on to the revocation.
AnswerJob(s) ==
  /\ calls[s] # None
  /\ \/ calls[s].process = "revoked"
     \/ /\ calls[s].process = "following" /\ calls[s].job \in {"ok", "error"}
        /\ ~(calls[s].op \in {"undeploy", "purge"} /\ calls[s].job = "ok")
  /\ Answer(s, Heard(calls[s]))
  /\ UNCHANGED <<draft, litellm, scope, world>>

\* revokeAppKey; it may fail without a word.
RevokeKey(s) ==
  /\ \E op \in {"undeploy", "purge"} : At(s, op, "following")
  /\ calls[s].job = "ok"
  /\ \/ Issuing /\ DeleteByAlias(s, "revoked")
     \/ Step(s, [calls[s] EXCEPT !.process = "revoked"]) /\ UNCHANGED <<site, keys>>
  /\ UNCHANGED <<app, draft, litellm, scope, edge, news>>

\* runAdapter's timer: the process is killed, the call rejected; the job goes on.
TimeOut(s) ==
  /\ calls[s] # None /\ calls[s].waits
  /\ Answer(s, "lost")
  /\ UNCHANGED <<draft, litellm, scope, world>>

\* The server restarts from what it saved; the processes and jobs it started go on unheard.
Restart ==
  /\ app.present
  /\ app' = [app EXCEPT !.deployId = app.saved,
                        !.preview = IF Starting THEN [@ EXCEPT !.status = "error"] ELSE @]
  /\ calls' = [s \in Slots |-> IF calls[s] = None THEN None ELSE Kept([calls[s] EXCEPT !.waits = FALSE])]
  /\ UNCHANGED <<draft, litellm, scope, world, news>>

-----------------------------------------------------------------------------
(* The engine *)

\* toAppSpec gives the key it finds itself to an application that wants models and has none.
SpecKey(c) ==
  IF draft.ai /\ c.key = None /\ OrElse(litellm.pacKey, litellm.key) = "set" THEN "master" ELSE c.key

\* A sync-capable application is only ever synced: the engine accepts the request and
\* reports the missing container in the stream, where no fallback looks for it.
Synced(c) == c.op = "deploy" /\ draft.syncable

\* A job that succeeds.  Without a container made by a full deployment no sync does.
JobDone(s) ==
  /\ calls[s] # None /\ calls[s].job = "queued" /\ ~Synced(calls[s])
  /\ LET c == calls[s] IN
     /\ site' = CASE c.op = "deploy" ->
                         [site EXCEPT ![c.target] = [key |-> SpecKey(c)]]
                  [] c.op = "access" -> site
                  [] OTHER -> [site EXCEPT ![c.target] = None]
     /\ edge' = IF c.op = "access" THEN [list |-> c.list, newest |-> c.newest]
                ELSE IF c.target = "app" THEN None ELSE edge
     /\ Step(s, [c EXCEPT !.job = "ok", !.key = None])
  /\ UNCHANGED <<app, draft, litellm, scope, keys, news>>

\* A job that fails; a deployment may have removed the container it was to replace.
JobFails(s) ==
  /\ calls[s] # None /\ calls[s].job = "queued"
  /\ LET c == calls[s] IN
     /\ site' \in {site} \cup (IF c.op = "deploy" /\ ~Synced(c)
                               THEN {[site EXCEPT ![c.target] = None]} ELSE {})
     /\ Step(s, [c EXCEPT !.job = "error", !.key = None])
  /\ UNCHANGED <<app, draft, litellm, scope, edge, keys, news>>

-----------------------------------------------------------------------------
StoreStep ==
  \/ Publish \/ OtherOperation \/ RecordExport \/ Archive \/ Restart
  \/ \E s \in Slots :
       \/ DeployApplication(s) \/ StartPreview(s) \/ StopPreview(s) \/ UndeployApplication(s)
       \/ Purge(s) \/ (\E l \in Lists : Share(s, l))
AdapterStep(s) ==
  \/ SourceMissing(s) \/ DeleteKey(s) \/ GenerateKey(s) \/ KeyRefused(s) \/ Post(s) \/ PostFails(s)
  \/ StreamCut(s) \/ RevokeKey(s) \/ AnswerJob(s)
EngineStep(s) == JobDone(s) \/ JobFails(s)

DeploymentsNext ==
  \/ StoreStep
  \/ \E s \in Slots : AdapterStep(s) \/ TimeOut(s) \/ EngineStep(s)

\* Only the timer is owed a turn: an engine or a proxy may hang for ever.
DeploymentsSpec ==
  DeploymentsInit /\ [][DeploymentsNext]_dvars /\ \A s \in Slots : WF_dvars(TimeOut(s))

-----------------------------------------------------------------------------
(* Properties *)

\* A deploy id whose last news was a success, with no overlap and no lost stream since, is
\* as the news says: there is a container, or none.
SuccessIsTrue ==
  \A t \in Targets : Active(t) = {} =>
    /\ news[t] = "deploy" => site[t] # None
    /\ news[t] = "undeploy" => site[t] = None

\* No application is given the proxy's master key, however issuing its own fails and
\* whatever is configured, unless a PAC_LITELLM_ variable is set to nothing.  After a
\* deployment the container holds the key that is alive, although every redeployment
\* deletes the key of the one before.
KeyOfItsOwn ==
  \A t \in Targets : site[t] # None =>
    /\ "empty" \notin {litellm.pacUrl, litellm.pacKey} => site[t].key # "master"
    /\ Active(t) = {} /\ news[t] = "deploy" => site[t].key # "dead"

\* When the store has no preview and none of its calls overlapped, there is no container
\* of one: previews that failed, timed out or were restarted over are still on record.
NoPreviewNoContainer ==
  app.present /\ app.preview = None /\ Active("preview") = {} /\ news["preview"] # "muddled"
    => site["preview"] = None

\* Once the newest push has landed, the edge of the deployed application admits whom the
\* store shares it with.
EdgeFollowsSharing == app.present /\ edge # None /\ edge.newest => edge.list = app.shared

\* A preview that is starting ends in some other state, even if the adapter hangs.
PreviewSettles == Starting ~> ~Starting

\* A deployment is not answered with the failure of a sync that found no container.
SyncFallsBack ==
  [][\A s \in Slots :
       calls[s] # None /\ Synced(calls[s]) /\ calls[s].job = "error" /\ site[calls[s].target] = None
         => ~AnswerJob(s)]_dvars
=============================================================================
