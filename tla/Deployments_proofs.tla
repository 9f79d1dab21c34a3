-------------------------- MODULE Deployments_proofs --------------------------
(***************************************************************************)
(* Theorems about deployments and previews, for any number of calls under  *)
(* way, any drafts and any lists.                                          *)
(***************************************************************************)
EXTENDS Deployments, SequenceTheorems, TLAPS

(* Records and calls *)

LEMMA AppFields ==
  ASSUME NEW a \in App
  PROVE  /\ a.present \in BOOLEAN /\ a.archived \in BOOLEAN
         /\ a.release \in 1..MaxReleases /\ a.exported \in BOOLEAN
         /\ a.deployId \in BOOLEAN /\ a.saved \in BOOLEAN /\ a.shared \in Lists
         /\ a.preview \in Preview \cup {None} /\ a.deployments \in Seq(1..MaxReleases)
  BY DEF App

\* What a save changes.
LEMMA PersistedFields ==
  ASSUME NEW a \in App
  PROVE  /\ Persisted(a) \in App /\ Persisted(a).saved = a.deployId
         /\ Persisted(a).deployId = a.deployId /\ Persisted(a).shared = a.shared
         /\ Persisted(a).preview = a.preview /\ Persisted(a).present = a.present
         /\ Persisted(a).deployments = a.deployments /\ Persisted(a).release = a.release
BY DEF Persisted, App

LEMMA CallFields ==
  ASSUME NEW c \in Call
  PROVE  /\ c.op \in Operations /\ c.target \in Targets
         /\ c.list \in Lists /\ c.newest \in BOOLEAN /\ c.key \in KeyStates \cup {None}
         /\ c.waits \in BOOLEAN
         /\ c.process \in {"begun", "keyless", "keyed", "following", "revoked", "gone"}
         /\ c.job \in {"none", "queued", "ok", "error"}
  BY DEF Call

\* What the adapter and the engine do to a call leaves one.
LEMMA CallKept ==
  ASSUME NEW c \in Call
  PROVE  /\ [c EXCEPT !.newest = FALSE] \in Call
         /\ [c EXCEPT !.waits = FALSE] \in Call
         /\ [c EXCEPT !.waits = FALSE, !.process = "gone"] \in Call
         /\ [c EXCEPT !.key = "dead"] \in Call
         /\ [c EXCEPT !.process = "keyless"] \in Call
         /\ [c EXCEPT !.process = "revoked"] \in Call
         /\ [c EXCEPT !.process = "keyed", !.key = "live"] \in Call
         /\ [c EXCEPT !.process = "following", !.job = "queued"] \in Call
         /\ [c EXCEPT !.job = "ok", !.key = None] \in Call
         /\ [c EXCEPT !.job = "error", !.key = None] \in Call
<1>1. [c EXCEPT !.newest = FALSE] \in Call /\ [c EXCEPT !.waits = FALSE] \in Call
  BY DEF Call
<1>2. [c EXCEPT !.waits = FALSE, !.process = "gone"] \in Call
  BY DEF Call
<1>3. [c EXCEPT !.key = "dead"] \in Call
  BY DEF Call, KeyStates
<1>4. [c EXCEPT !.process = "keyless"] \in Call /\ [c EXCEPT !.process = "revoked"] \in Call
  BY DEF Call
<1>5. [c EXCEPT !.process = "keyed", !.key = "live"] \in Call
  BY DEF Call, KeyStates
<1>6. [c EXCEPT !.process = "following", !.job = "queued"] \in Call
  BY DEF Call
<1>7. [c EXCEPT !.job = "ok", !.key = None] \in Call
  BY DEF Call
<1>8. [c EXCEPT !.job = "error", !.key = None] \in Call
  BY DEF Call
<1> QED
  BY <1>1, <1>2, <1>3, <1>4, <1>5, <1>6, <1>7, <1>8

-----------------------------------------------------------------------------
(* The reply *)

\* The records after a deployment are no more than may be kept.
LEMMA RecordedFields ==
  ASSUME app \in App, Len(app.deployments) <= KeptDeployments
  PROVE  \E d \in Seq(1..MaxReleases) : /\ Len(d) <= KeptDeployments
                                         /\ Recorded = Persisted([app EXCEPT !.deployments = d])
<1> DEFINE all == Append(app.deployments, app.release)
           n == Len(app.deployments)
           k == IF n + 1 > KeptDeployments THEN 2 ELSE 1
           d == SubSeq(all, k, n + 1)
<1>1. /\ app.deployments \in Seq(1..MaxReleases) /\ app.release \in 1..MaxReleases
      /\ n \in Nat /\ n <= KeptDeployments /\ KeptDeployments \in Nat \ {0}
  BY AppFields, DeploymentsAssumption
<1>2. all \in Seq(1..MaxReleases) /\ Len(all) = n + 1
  BY <1>1, AppendProperties
<1>3. k \in {1, 2} /\ (k = 2 <=> n + 1 > KeptDeployments) /\ k <= n + 1
  BY <1>1
<1>4. Recorded = Persisted([app EXCEPT !.deployments = d])
  BY <1>2 DEF Recorded
<1> HIDE DEF all, n, k
<1>5. \A i \in k..(n + 1) : all[i] \in 1..MaxReleases
  <2>1. \A i \in 1..(n + 1) : all[i] \in 1..MaxReleases
    BY <1>2, ElementOfSeq
  <2> QED
    BY <1>1, <1>3, <2>1
<1>6. d \in Seq(1..MaxReleases) /\ Len(d) = n + 1 - k + 1
  BY <1>1, <1>3, <1>5, SubSeqProperties
<1> HIDE DEF d
<1>7. Len(d) <= KeptDeployments
  BY <1>1, <1>3, <1>6
<1> QED
  BY <1>4, <1>6, <1>7

\* A reply settles the records, or the preview, or ends the application, or is saved, or not
\* heeded.
LEMMA SettledCases ==
  ASSUME app \in App, NEW c \in Call, NEW verdict
  PROVE  \/ Settled(c, verdict) = Recorded
         \/ \E p \in Preview : Settled(c, verdict) = Persisted([app EXCEPT !.preview = p])
         \/ /\ Settled(c, verdict) = Persisted([app EXCEPT !.preview = None]) /\ verdict = "ok"
            /\ c.op = "undeploy" /\ c.target = "preview"
         \/ Settled(c, verdict) = [app EXCEPT !.present = FALSE]
         \/ Settled(c, verdict) \in {app, Persisted(app)}
<1>1. \E p \in Preview : PreviewSettled(verdict) = Persisted([app EXCEPT !.preview = p])
  <2> DEFINE p == [status |-> IF verdict = "ok" THEN "running" ELSE "error",
                   named |-> app.preview # None /\ app.preview.named]
  <2>1. app.preview # None => app.preview.named \in BOOLEAN
    BY AppFields DEF Preview
  <2>2. p \in Preview
    BY <2>1 DEF Preview
  <2>3. PreviewSettled(verdict) = Persisted([app EXCEPT !.preview = p])
    BY DEF PreviewSettled
  <2> QED
    BY <2>2, <2>3
<1> QED
  BY <1>1 DEF Settled, StopSettled

\* What a reply leaves of the record.
SettledOK(a) ==
  /\ a \in App /\ Len(a.deployments) <= KeptDeployments
  /\ a.shared = app.shared /\ a.deployId = app.deployId /\ a.saved \in {app.saved, app.deployId}
  /\ a.present => app.present

LEMMA PersistedOK ==
  ASSUME app \in App, NEW a, SettledOK(a)
  PROVE  SettledOK(Persisted(a))
BY PersistedFields DEF SettledOK

LEMMA SettledTyped ==
  ASSUME app \in App, Len(app.deployments) <= KeptDeployments, NEW c \in Call, NEW verdict
  PROVE  SettledOK(Settled(c, verdict))
<1>1. CASE Settled(c, verdict) = Recorded
  <2>1. PICK d \in Seq(1..MaxReleases) :
          Len(d) <= KeptDeployments /\ Recorded = Persisted([app EXCEPT !.deployments = d])
    BY RecordedFields
  <2>2. SettledOK([app EXCEPT !.deployments = d])
    BY <2>1 DEF SettledOK, App
  <2> QED
    BY <1>1, <2>1, <2>2, PersistedOK
<1>2. ASSUME NEW p \in Preview \cup {None}, Settled(c, verdict) = Persisted([app EXCEPT !.preview = p])
      PROVE  SettledOK(Settled(c, verdict))
  <2>1. SettledOK([app EXCEPT !.preview = p])
    BY DEF SettledOK, App
  <2> QED
    BY <1>2, <2>1, PersistedOK
<1>3. CASE Settled(c, verdict) = [app EXCEPT !.present = FALSE]
  BY <1>3 DEF SettledOK, App
<1>4. CASE Settled(c, verdict) \in {app, Persisted(app)}
  <2>1. SettledOK(app)
    BY DEF SettledOK
  <2> QED
    BY <1>4, <2>1, PersistedOK
<1> QED
  BY <1>1, <1>2, <1>3, <1>4, SettledCases

-----------------------------------------------------------------------------
(* What makes the properties true

   A deploy id is quiet when no call of it was begun while another was active and no
   stream of it was lost: then there is one active call at most, and the container is
   what that call, or else the last news, says.  Everything said of success rests on it.
   The rest is simpler: keys and jobs come in their order, and no push is newer than the
   newest.                                                                              *)

\* Nothing is pushed to an application before its deploy id is saved.
PushesTrue ==
  /\ app.saved => app.deployId
  /\ ~app.saved => edge = None /\ \A s \in Slots : calls[s] # None => calls[s].op # "access"
  /\ \A s \in Slots : calls[s] # None /\ calls[s].op = "access" /\ calls[s].newest
                        => calls[s].list = app.shared
  /\ edge # None /\ edge.newest => edge.list = app.shared

KeyKnown(c) ==
  /\ c.op = "deploy" /\ draft.ai /\ Issuing /\ (c.process = "keyed" \/ c.job = "queued")
       => c.key # None
  /\ c.op = "deploy" /\ draft.ai /\ c.job = "queued" => Addressed
  /\ c.process \in {"begun", "keyless"} => c.key = None
  /\ c.process \in {"begun", "keyless", "keyed"} => c.job = "none"
  /\ c.process = "revoked" => c.op \in {"undeploy", "purge"} /\ c.job = "ok"

KeysKnown == \A s \in Slots : calls[s] # None => KeyKnown(calls[s])

\* What the job of the only active call has made of the container.
Claims(c, k) ==
  IF c.op = "deploy" THEN c.key # "dead" /\ (c.job = "ok" => k # None /\ k.key # "dead")
  ELSE c.job = "ok" => k = None

NewsTrue(n, k) ==
  /\ n = "deploy" => k # None /\ k.key # "dead"
  /\ n = "undeploy" => k = None

Quiet(t) ==
  /\ \A r, s \in Active(t) : r = s
  /\ news[t] # None => Active(t) = {}
  /\ \A s \in Active(t) : Claims(calls[s], site[t])
  /\ NewsTrue(news[t], site[t])

QuietCalls == \A t \in Targets : news[t] # "muddled" => Quiet(t)

\* No PAC_LITELLM_ variable is set to nothing.
Plain == "empty" \notin {litellm.pacUrl, litellm.pacKey}

NoMaster == Plain => \A t \in Targets : site[t] # None => site[t].key # "master"

NoPreviewNoCall ==
  app.present /\ app.preview = None /\ news["preview"] # "muddled"
    => Active("preview") = {} /\ site["preview"] = None

DeploymentsInv ==
  /\ DeploymentsTypeOK /\ PushesTrue /\ KeysKnown /\ QuietCalls /\ NoMaster
  /\ NoPreviewNoCall

LEMMA DeploymentsInvTypes ==
  ASSUME DeploymentsInv
  PROVE  /\ app \in App /\ Len(app.deployments) <= KeptDeployments /\ litellm \in Settings
         /\ calls \in [Slots -> Call \cup {None}] /\ site \in [Targets -> Container \cup {None}]
         /\ edge \in Edge \cup {None} /\ keys \in [Targets -> BOOLEAN]
         /\ news \in [Targets -> {"deploy", "undeploy", "muddled", None}]
         /\ None \notin Preview /\ None \notin Call /\ None \notin Container /\ None \notin Edge
         /\ None # "dead" /\ None # "live" /\ None # "muddled" /\ None # "deploy" /\ None # "undeploy"
         /\ None # "master" /\ "app" \in Targets /\ "preview" \in Targets
  BY DeploymentsAssumption DEF DeploymentsInv, DeploymentsTypeOK, KeyStates, Targets

LEMMA DeploymentsInvInit == DeploymentsInit => DeploymentsInv
<1> SUFFICES ASSUME DeploymentsInit PROVE DeploymentsInv
  OBVIOUS
<1>1. /\ app.deployments = <<>> /\ ~app.deployId /\ ~app.saved /\ app.preview = None
      /\ calls = [s \in Slots |-> None] /\ site = [t \in Targets |-> None] /\ edge = None
      /\ keys = [t \in Targets |-> FALSE] /\ news = [t \in Targets |-> None]
  BY DEF DeploymentsInit
<1>2. DeploymentsTypeOK
  <2>1. /\ app.shared \in Lists /\ app.present = TRUE /\ app.archived = FALSE /\ app.release = 1
        /\ app.exported = FALSE /\ app.deployId = FALSE /\ app.saved = FALSE
    BY DeploymentsAssumption DEF DeploymentsInit
  <2>2. 1 \in 1..MaxReleases /\ <<>> \in Seq(1..MaxReleases) /\ Len(<<>>) <= KeptDeployments
    BY DeploymentsAssumption, EmptySeq
  <2>3. app \in App
    BY <1>1, <2>1, <2>2 DEF DeploymentsInit, App
  <2>4. <<draft, litellm, scope>> \in Cases
    BY DeploymentsAssumption DEF DeploymentsInit
  <2> QED
    BY <1>1, <2>2, <2>3, <2>4 DEF DeploymentsTypeOK
<1>3. \A t \in Targets : Active(t) = {}
  BY <1>1 DEF Active
<1>4. QuietCalls
  BY <1>1, <1>3, DeploymentsAssumption DEF QuietCalls, Quiet, NewsTrue
<1>5. PushesTrue /\ KeysKnown /\ NoMaster /\ NoPreviewNoCall
  BY <1>1, <1>3
     DEF PushesTrue, KeysKnown, NoMaster, NoPreviewNoCall, Targets
<1> QED
  BY <1>2, <1>4, <1>5 DEF DeploymentsInv

-----------------------------------------------------------------------------
(* A call goes on *)

\* What is known of a call does not depend on the step.
LEMMA KeyKnownStays ==
  ASSUME UNCHANGED <<draft, litellm, scope>>
  PROVE  (\A c : KeyKnown(c)' <=> KeyKnown(c)) /\ Plain' = Plain /\ Issuing' = Issuing
BY DEF KeyKnown, Issuing, Addressed, Plain

\* Nor on what else becomes of a call.
LEMMA KeyKnownAlike ==
  ASSUME NEW c, NEW d, KeyKnown(c), d.op = c.op, d.process = c.process, d.job = c.job,
         d.key = None <=> c.key = None
  PROVE  KeyKnown(d)
BY DEF KeyKnown

\* The key that appspec.js finds where cli.js found none.
LEMMA MasterNeedsEmpty ==
  ASSUME litellm \in Settings, Addressed, ~Issuing, OrElse(litellm.pacKey, litellm.key) = "set"
  PROVE  ~Plain
BY DEF Settings, Addressed, Issuing, OrElse, Coalesced, Plain

\* The step of one call: it goes on as n, its container becomes k, the news of it is m.
LEMMA DeploymentsInvCall ==
  ASSUME DeploymentsInv, NEW s \in Slots, calls[s] # None, NEW t, t = calls[s].target,
         NEW n \in Call \cup {None}, NEW k \in Container \cup {None},
         NEW m \in {"deploy", "undeploy", "muddled", None},
         n # None => /\ n.op = calls[s].op /\ n.target = t /\ n.list = calls[s].list
                     /\ n.newest = calls[s].newest /\ KeyKnown(n),
         calls' = [calls EXCEPT ![s] = n], site' = [site EXCEPT ![t] = k],
         news' = [news EXCEPT ![t] = m], keys' \in [Targets -> BOOLEAN], UNCHANGED <<draft, litellm, scope>>,
         Plain /\ k # None => k.key # "master",
         \/ edge' \in {edge, None}
         \/ calls[s].op = "access" /\ edge' = [list |-> calls[s].list, newest |-> calls[s].newest],
         \/ app' = app
         \/ \E v : /\ app' = Settled(calls[s], v) /\ k = site[t]
                   /\ v = "ok" /\ calls[s].op = "undeploy" => n = None /\ calls[s].job = "ok",
         calls[s].op = "access" => k = site[t] /\ m = news[t],
         calls[s].op # "access" /\ m # "muddled" =>
           /\ news[t] # "muddled"
           /\ Claims(calls[s], site[t]) =>
                NewsTrue(m, k) /\ (n # None => m = None /\ Claims(n, k))
  PROVE  DeploymentsInv'
<1> USE DeploymentsInvTypes
<1>1. /\ calls[s] \in Call /\ t \in Targets /\ calls[s].list \in Lists /\ calls[s].newest \in BOOLEAN
  BY CallFields
<1>2. /\ \A r \in Slots : calls'[r] = IF r = s THEN n ELSE calls[r]
      /\ \A u \in Targets : site'[u] = IF u = t THEN k ELSE site[u]
      /\ \A u \in Targets : news'[u] = IF u = t THEN m ELSE news[u]
  BY <1>1
<1>3. SettledOK(app')
  <2>1. SettledOK(app)
    BY DEF SettledOK
  <2> QED
    BY <1>1, <2>1, SettledTyped
<1>4. DeploymentsTypeOK'
  <2>1. edge' \in Edge \cup {None}
    BY <1>1 DEF Edge
  <2>2. /\ calls' \in [Slots -> Call \cup {None}] /\ site' \in [Targets -> Container \cup {None}]
        /\ news' \in [Targets -> {"deploy", "undeploy", "muddled", None}]
    OBVIOUS
  <2>3. <<draft', litellm', scope'>> \in Cases
    BY DEF DeploymentsInv, DeploymentsTypeOK
  <2> QED
    BY <1>3, <2>1, <2>2, <2>3 DEF DeploymentsTypeOK, SettledOK
<1>6. PushesTrue'
  <2>1. PushesTrue
    BY DEF DeploymentsInv
  <2>2. edge' # None /\ edge'.newest =>
          edge = edge' \/ (calls[s].op = "access" /\ calls[s].newest /\ edge'.list = calls[s].list)
    OBVIOUS
  <2>3. ~app.saved => edge' = None
    BY <2>1 DEF PushesTrue
  <2>4. /\ app'.shared = app.shared /\ (app'.saved => app'.deployId)
        /\ ~app'.saved => ~app.saved
    BY <1>3, <2>1, AppFields DEF SettledOK, PushesTrue
  <2> QED
    BY <1>2, <2>1, <2>2, <2>3, <2>4 DEF PushesTrue
<1>7. KeysKnown'
  <2>1. \A r \in Slots : calls'[r] # None => KeyKnown(calls'[r])
    BY <1>2 DEF DeploymentsInv, KeysKnown
  <2> QED
    BY <2>1, KeyKnownStays DEF KeysKnown, KeyKnown
<1>8. NoMaster'
  BY <1>2, KeyKnownStays DEF NoMaster, DeploymentsInv
<1>9. \A u \in Targets, r \in Slots :
        r \in Active(u)' <=>
          IF r = s THEN n # None /\ u = t /\ calls[s].op # "access" ELSE r \in Active(u)
  BY <1>2 DEF Active
<1>10. \A u \in Targets : s \in Active(u) <=> u = t /\ calls[s].op # "access"
  BY DEF Active
<1>11. \A u \in Targets : Active(u) \subseteq Slots /\ Active(u)' \subseteq Slots
  BY DEF Active
<1>12. QuietCalls'
  <2> SUFFICES ASSUME NEW u \in Targets, news'[u] # "muddled" PROVE Quiet(u)'
    BY DEF QuietCalls
  <2>1. CASE u # t \/ calls[s].op = "access"
    <3>1. news'[u] = news[u] /\ site'[u] = site[u]
      BY <1>2, <2>1
    <3>2. Quiet(u)
      BY <3>1 DEF DeploymentsInv, QuietCalls
    <3>3. Active(u)' = Active(u) /\ s \notin Active(u)
      BY <1>9, <1>10, <1>11, <2>1
    <3>4. \A r \in Active(u) : calls'[r] = calls[r]
      BY <1>2, <1>11, <3>3
    <3> QED
      BY <3>1, <3>2, <3>3, <3>4 DEF Quiet, Claims, NewsTrue
  <2>2. CASE u = t /\ calls[s].op # "access"
    <3>1. /\ news'[u] = m /\ site'[u] = k /\ news[t] # "muddled" /\ m # "muddled"
      BY <1>2, <2>2
    <3>2. Quiet(t) /\ s \in Active(t)
      BY <1>1, <1>10, <2>2, <3>1 DEF DeploymentsInv, QuietCalls
    <3>3. /\ \A r \in Active(t) : r = s
          /\ Claims(calls[s], site[t])
      BY <3>2 DEF Quiet
    <3>4. NewsTrue(m, k) /\ (n # None => m = None /\ Claims(n, k))
      BY <2>2, <3>1, <3>3
    <3>5. /\ n = None => Active(u)' = {}
          /\ \A r \in Active(u)' : r = s /\ n # None
      BY <1>9, <1>11, <2>2, <3>3
    <3>6. \A r \in Active(u)' : calls'[r] = n
      BY <1>2, <1>11, <3>5
    <3>7. \A r \in Active(u)' : Claims(calls'[r], site'[u])
      BY <3>1, <3>4, <3>5, <3>6
    <3> QED
      BY <3>1, <3>4, <3>5, <3>7 DEF Quiet, NewsTrue, Claims
  <2> QED
    BY <2>1, <2>2
<1>13. NoPreviewNoCall'
  <2> SUFFICES ASSUME app'.present, app'.preview = None, news'["preview"] # "muddled"
               PROVE  Active("preview")' = {} /\ site'["preview"] = None
    BY DEF NoPreviewNoCall, Active
  <2>1. news["preview"] # "muddled"
    BY <1>2
  <2>2. CASE app.preview = None
    <3>1. Active("preview") = {} /\ site["preview"] = None
      BY <1>3, <2>1, <2>2 DEF DeploymentsInv, NoPreviewNoCall, SettledOK
    <3>2. t # "preview" \/ calls[s].op = "access"
      BY <1>10, <3>1
    <3> QED
      BY <1>2, <1>9, <1>11, <3>1, <3>2
  <2>3. CASE app.preview # None
    <3>1. PICK v : /\ app' = Settled(calls[s], v) /\ k = site[t]
                   /\ v = "ok" /\ calls[s].op = "undeploy" => n = None /\ calls[s].job = "ok"
      BY <2>3
    <3>2. calls[s].op = "undeploy" /\ t = "preview" /\ v = "ok"
      <4>1. Settled(calls[s], v) # Recorded
        <5>1. PICK d \in Seq(1..MaxReleases) : Recorded = Persisted([app EXCEPT !.deployments = d])
          BY RecordedFields
        <5>2. Recorded.preview = app.preview
          BY <5>1 DEF Persisted, App
        <5> QED
          BY <2>3, <3>1, <5>2
      <4>2. \A p \in Preview : Settled(calls[s], v) # Persisted([app EXCEPT !.preview = p])
        <5>1. \A p \in Preview : Persisted([app EXCEPT !.preview = p]).preview = p
          BY DEF Persisted, App
        <5> QED
          BY <3>1, <5>1
      <4>3. Settled(calls[s], v) \notin {[app EXCEPT !.present = FALSE], app, Persisted(app)}
        <5>1. [app EXCEPT !.present = FALSE].present = FALSE /\ Persisted(app).preview = app.preview
          BY PersistedFields DEF App
        <5> QED
          BY <2>3, <3>1, <5>1
      <4> DEFINE b == Settled(calls[s], v)
      <4>4. calls[s] \in Call
        BY <1>1
      <4>5. \/ b = Recorded
            \/ \E p \in Preview : b = Persisted([app EXCEPT !.preview = p])
            \/ v = "ok" /\ calls[s].op = "undeploy" /\ calls[s].target = "preview"
            \/ b = [app EXCEPT !.present = FALSE]
            \/ b \in {app, Persisted(app)}
        BY <4>4, SettledCases
      <4>6. b # Recorded /\ b \notin {[app EXCEPT !.present = FALSE], app, Persisted(app)}
        BY <4>1, <4>3
      <4>7. \A p \in Preview : b # Persisted([app EXCEPT !.preview = p])
        BY <4>2
      <4>8. calls[s].target = t
        BY <2>1
      <4> HIDE DEF b
      <4> QED
        BY <4>5, <4>6, <4>7, <4>8
    <3>3. Quiet("preview") /\ s \in Active("preview")
      BY <1>10, <2>1, <3>2 DEF DeploymentsInv, QuietCalls
    <3>4. site["preview"] = None
      BY <3>1, <3>2, <3>3 DEF Quiet, Claims
    <3>5. \A r \in Active("preview") : r = s
      BY <3>3 DEF Quiet
    <3> QED
      BY <1>2, <1>9, <1>11, <3>1, <3>2, <3>4, <3>5
  <2> QED
    BY <2>2, <2>3
<1> QED
  BY <1>4, <1>6, <1>7, <1>8, <1>12, <1>13 DEF DeploymentsInv

\* While a call is active there is no news yet.
LEMMA NoNewsYet ==
  ASSUME DeploymentsInv, NEW s \in Slots, calls[s] # None, calls[s].op # "access",
         news[calls[s].target] # "muddled"
  PROVE  news[calls[s].target] = None
<1>1. calls[s].target \in Targets /\ s \in Active(calls[s].target)
  BY DeploymentsInvTypes, CallFields DEF Active
<1> QED
  BY <1>1 DEF DeploymentsInv, QuietCalls, Quiet

LEMMA DeploymentsInvAnswer ==
  ASSUME DeploymentsInv, NEW s \in Slots, calls[s] # None, NEW verdict, Answer(s, verdict),
         UNCHANGED <<draft, litellm, scope, world>>, verdict = "ok" => calls[s].job = "ok"
  PROVE  DeploymentsInv'
<1> USE DeploymentsInvTypes
<1> DEFINE c == calls[s]
           t == c.target
           gone == [c EXCEPT !.waits = FALSE, !.process = "gone"]
           n == Kept(gone)
           m == IF verdict # "ok" \/ c.op = "access" \/ news[t] = "muddled" THEN news[t]
                ELSE IF c.op = "deploy" THEN "deploy" ELSE "undeploy"
<1>1. c \in Call /\ t \in Targets /\ gone \in Call
  <2>1. calls[s] \in Call
    OBVIOUS
  <2> QED
    BY <2>1, CallFields, CallKept
<1>2. /\ gone.op = c.op /\ gone.target = t /\ gone.list = c.list /\ gone.newest = c.newest
      /\ gone.key = c.key /\ gone.job = c.job /\ gone.waits = FALSE /\ gone.process = "gone"
  BY <1>1 DEF Call
<1>3. KeyKnown(c)
  BY DEF DeploymentsInv, KeysKnown
<1>4. calls' = [calls EXCEPT ![s] = n] /\ app' = Settled(c, verdict) /\ site' = [site EXCEPT ![t] = site[t]]
      /\ edge' = edge /\ keys' = keys
  BY <1>1 DEF Answer, Step, world
<1>5. news' = [news EXCEPT ![t] = m]
  BY <1>1 DEF Answer
<1>6. site[t] \in Container \cup {None} /\ (Plain /\ site[t] # None => site[t].key # "master")
      /\ m \in {"deploy", "undeploy", "muddled", None}
  BY <1>1 DEF DeploymentsInv, NoMaster
<1>7. c.op # "access" /\ news[t] # "muddled" => news[t] = None
  BY NoNewsYet
<1>8. /\ n = None \/ (n = gone /\ c.job = "queued")
      /\ m = news[t] \/ (verdict = "ok" /\ c.op # "access" /\ news[t] # "muddled"
                          /\ m = IF c.op = "deploy" THEN "deploy" ELSE "undeploy")
  BY <1>2 DEF Kept
<1> HIDE DEF c, gone, n, m
<1>9. n # None => KeyKnown(n)
  BY <1>2, <1>3, <1>8 DEF KeyKnown
<1>10. c.op # "access" /\ m # "muddled" =>
         /\ news[t] # "muddled"
         /\ Claims(c, site[t]) => NewsTrue(m, site[t]) /\ (n # None => m = None /\ Claims(n, site[t]))
  BY <1>2, <1>7, <1>8, <1>1 DEF Claims, NewsTrue, c
<1>11. n \in Call \cup {None}
  BY <1>1, <1>8
<1>12. n # None => n.op = c.op /\ n.target = t /\ n.list = c.list /\ n.newest = c.newest /\ KeyKnown(n)
  BY <1>2, <1>8, <1>9
<1>13. verdict = "ok" /\ c.op = "undeploy" => n = None /\ c.job = "ok"
  BY <1>8 DEF c
<1>14. c.op = "access" => m = news[t]
  BY <1>8
<1> QED
  BY <1>1, <1>4, <1>5, <1>6, <1>10, <1>11, <1>12, <1>13, <1>14, DeploymentsInvCall DEF c

\* A call goes on without news.
LEMMA DeploymentsInvStep ==
  ASSUME DeploymentsInv, NEW s \in Slots, calls[s] # None, NEW c \in Call, Step(s, c),
         c.op = calls[s].op, c.target = calls[s].target, c.list = calls[s].list,
         c.newest = calls[s].newest, KeyKnown(c),
         NEW k \in Container \cup {None}, site' = [site EXCEPT ![calls[s].target] = k],
         keys' \in [Targets -> BOOLEAN], UNCHANGED <<app, draft, litellm, scope, news>>,
         Plain /\ k # None => k.key # "master",
         \/ edge' \in {edge, None}
         \/ calls[s].op = "access" /\ edge' = [list |-> calls[s].list, newest |-> calls[s].newest],
         calls[s].op = "access" => k = site[calls[s].target],
         calls[s].op # "access" /\ Claims(calls[s], site[calls[s].target]) => Claims(c, k)
  PROVE  DeploymentsInv'
<1> USE DeploymentsInvTypes
<1> DEFINE t == calls[s].target
           n == Kept(c)
<1>1. t \in Targets /\ n \in {None, c} /\ n \in Call \cup {None}
  BY CallFields DEF Kept
<1>2. calls' = [calls EXCEPT ![s] = n] /\ news' = [news EXCEPT ![t] = news[t]]
      /\ news[t] \in {"deploy", "undeploy", "muddled", None}
  BY <1>1 DEF Step
<1>3. calls[s].op # "access" /\ news[t] # "muddled" => news[t] = None
  BY NoNewsYet
<1> HIDE DEF n
<1>4. n # None => n.op = calls[s].op /\ n.target = t /\ n.list = calls[s].list
                    /\ n.newest = calls[s].newest /\ KeyKnown(n)
  BY <1>1
<1>5. calls[s].op # "access" /\ news[t] # "muddled" =>
        /\ news[t] # "muddled"
        /\ Claims(calls[s], site[t]) => NewsTrue(news[t], k) /\ (n # None => news[t] = None /\ Claims(n, k))
  BY <1>1, <1>3 DEF NewsTrue
<1> QED
  BY <1>1, <1>2, <1>4, <1>5, DeploymentsInvCall

\* A failure, a verdict or the timer ends the wait.
LEMMA DeploymentsInvReplies ==
  ASSUME DeploymentsInv, NEW s \in Slots,
         SourceMissing(s) \/ KeyRefused(s) \/ PostFails(s) \/ AnswerJob(s) \/ TimeOut(s)
  PROVE  DeploymentsInv'
<1>1. UNCHANGED <<draft, litellm, scope, world>> /\ calls[s] # None
  BY DEF SourceMissing, KeyRefused, PostFails, AnswerJob, TimeOut, At, Ready
<1>2. CASE SourceMissing(s) \/ KeyRefused(s) \/ PostFails(s)
  <2>1. Answer(s, "error")
    BY <1>2 DEF SourceMissing, KeyRefused, PostFails
  <2> QED
    BY <1>1, <2>1, DeploymentsInvAnswer
<1>3. CASE AnswerJob(s)
  <2>1. Answer(s, calls[s].job) /\ (calls[s].process = "revoked" \/ calls[s].job \in {"ok", "error"})
    BY <1>3 DEF AnswerJob, Heard
  <2> QED
    BY <1>1, <2>1, DeploymentsInvAnswer
<1>4. CASE TimeOut(s)
  BY <1>1, <1>4, DeploymentsInvAnswer DEF TimeOut
<1> QED
  BY <1>2, <1>3, <1>4

LEMMA DeploymentsInvStreamCut ==
  ASSUME DeploymentsInv, NEW s \in Slots, StreamCut(s)
  PROVE  DeploymentsInv'
<1> USE DeploymentsInvTypes
<1> DEFINE c == calls[s]
           t == c.target
           gone == [c EXCEPT !.waits = FALSE, !.process = "gone"]
           n == Kept(gone)
<1>1. c \in Call /\ t \in Targets /\ gone \in Call /\ c # None /\ c.op = "deploy"
  <2>1. calls[s] \in Call /\ calls[s].op = "deploy" /\ calls[s] # None
    BY DEF StreamCut, At
  <2> QED
    BY <2>1, CallFields, CallKept
<1>2. /\ gone.op = c.op /\ gone.target = t /\ gone.list = c.list /\ gone.newest = c.newest
      /\ gone.key = c.key /\ gone.job = c.job /\ gone.process = "gone"
  BY <1>1 DEF Call
<1>3. KeyKnown(c)
  BY <1>1 DEF DeploymentsInv, KeysKnown
<1>4. KeyKnown(gone)
  BY <1>2, <1>3 DEF KeyKnown
<1>5. /\ calls' = [calls EXCEPT ![s] = n] /\ news' = [news EXCEPT ![t] = "muddled"]
      /\ (\E v : app' = Settled(c, v)) /\ UNCHANGED <<draft, litellm, scope, world>>
  BY DEF StreamCut, Step
<1>6. site' = [site EXCEPT ![t] = site[t]] /\ site[t] \in Container \cup {None} /\ edge' = edge
      /\ keys' \in [Targets -> BOOLEAN] /\ (Plain /\ site[t] # None => site[t].key # "master")
  BY <1>1, <1>5 DEF world, DeploymentsInv, NoMaster
<1>7. n \in {None, gone}
  BY DEF Kept
<1> HIDE DEF gone, n
<1>8. n \in Call \cup {None} /\ (n # None =>
        n.op = c.op /\ n.target = t /\ n.list = c.list /\ n.newest = c.newest /\ KeyKnown(n))
  BY <1>1, <1>2, <1>4, <1>7
<1> QED
  BY <1>1, <1>5, <1>6, <1>8, DeploymentsInvCall

\* The calls that change nothing but themselves, and a key.
LEMMA DeploymentsInvWorks ==
  ASSUME DeploymentsInv, NEW s \in Slots, GenerateKey(s) \/ Post(s)
  PROVE  DeploymentsInv'
<1> USE DeploymentsInvTypes
<1> DEFINE c == calls[s]
           t == c.target
<1>1. c \in Call /\ c # None /\ t \in Targets
  <2>1. calls[s] \in Call /\ calls[s] # None
    BY DEF GenerateKey, Post, At, Ready
  <2> QED
    BY <2>1, CallFields
<1>2. KeyKnown(c)
  BY <1>1 DEF DeploymentsInv, KeysKnown
<1>3. site' = [site EXCEPT ![t] = site[t]] /\ site[t] \in Container \cup {None} /\ edge' = edge
      /\ UNCHANGED <<app, draft, litellm, scope, news>> /\ (Plain /\ site[t] # None => site[t].key # "master")
  BY <1>1 DEF GenerateKey, Post, world, DeploymentsInv, NoMaster
<1>4. ASSUME GenerateKey(s) PROVE DeploymentsInv'
  <2> DEFINE n == [c EXCEPT !.process = "keyed", !.key = "live"]
  <2>1. n \in Call
    BY <1>1, CallKept
  <2>2. /\ n.op = c.op /\ n.target = t /\ n.list = c.list /\ n.newest = c.newest
        /\ n.key = "live" /\ n.process = "keyed" /\ n.job = c.job
    BY <1>1 DEF Call
  <2>3. c.op = "deploy" /\ c.process = "keyless" /\ Step(s, n) /\ keys' = [keys EXCEPT ![t] = TRUE]
    BY <1>4 DEF GenerateKey, At
  <2> HIDE DEF n
  <2>4. c.job = "none"
    BY <1>2, <2>3 DEF KeyKnown
  <2>5. KeyKnown(n) /\ Claims(n, site[t])
    BY <2>2, <2>3, <2>4 DEF KeyKnown, Claims
  <2> QED
    BY <1>1, <1>3, <2>1, <2>2, <2>3, <2>5, DeploymentsInvStep
<1>5. ASSUME Post(s) PROVE DeploymentsInv'
  <2> DEFINE n == [c EXCEPT !.process = "following", !.job = "queued"]
  <2>1. n \in Call
    BY <1>1, CallKept
  <2>2. /\ n.op = c.op /\ n.target = t /\ n.list = c.list /\ n.newest = c.newest
        /\ n.key = c.key /\ n.process = "following" /\ n.job = "queued"
    BY <1>1 DEF Call
  <2>3. /\ Step(s, n) /\ keys' = keys
        /\ c.process = IF c.op = "deploy" /\ draft.ai /\ Issuing THEN "keyed" ELSE "begun"
        /\ c.op = "deploy" /\ draft.ai => Addressed
    BY <1>5 DEF Post, Ready, world
  <2> HIDE DEF n
  <2>4. KeyKnown(n)
    BY <1>2, <2>2, <2>3 DEF KeyKnown
  <2>5. Claims(c, site[t]) => Claims(n, site[t])
    BY <2>2 DEF Claims
  <2> QED
    BY <1>1, <1>3, <2>1, <2>2, <2>3, <2>4, <2>5, DeploymentsInvStep
<1> QED
  BY <1>4, <1>5

LEMMA DeploymentsInvEngine ==
  ASSUME DeploymentsInv, NEW s \in Slots, JobDone(s) \/ JobFails(s)
  PROVE  DeploymentsInv'
<1> USE DeploymentsInvTypes
<1> DEFINE c == calls[s]
           t == c.target
<1>1. c \in Call /\ c # None /\ c.job = "queued"
  BY DEF JobDone, JobFails
<1>2. t \in Targets /\ c.key \in KeyStates \cup {None} /\ c.list \in Lists /\ c.newest \in BOOLEAN
  BY <1>1, CallFields
<1>3. KeyKnown(c)
  BY <1>1 DEF DeploymentsInv, KeysKnown
<1>4. UNCHANGED <<app, draft, litellm, scope, keys, news>>
  BY DEF JobDone, JobFails
<1>5. site[t] \in Container \cup {None} /\ (Plain /\ site[t] # None => site[t].key # "master")
  BY <1>2 DEF DeploymentsInv, NoMaster
<1>6. c.process \notin {"begun", "keyless", "keyed", "revoked"}
  BY <1>1, <1>3 DEF KeyKnown
<1>7. ASSUME NEW job \in {"ok", "error"},
             NEW k \in Container \cup {None},
             Step(s, [c EXCEPT !.job = job, !.key = None]),
             site' = [site EXCEPT ![t] = k],
             \/ edge' \in {edge, None}
             \/ c.op = "access" /\ edge' = [list |-> c.list, newest |-> c.newest],
             c.op = "access" => k = site[t],
             Plain /\ k # None => k.key # "master",
             c.op # "access" /\ c.op # "deploy" /\ job = "ok" => k = None,
             c.op = "deploy" /\ c.key # "dead" /\ job = "ok" => k # None /\ k.key # "dead"
      PROVE  DeploymentsInv'
  <2> DEFINE n == [c EXCEPT !.job = job, !.key = None]
  <2>1. n \in Call
    BY <1>1, CallKept
  <2>2. /\ n.op = c.op /\ n.target = t /\ n.list = c.list /\ n.newest = c.newest
        /\ n.key = None /\ n.process = c.process /\ n.job = job
    BY <1>1 DEF Call
  <2> HIDE DEF n
  <2>3. KeyKnown(n)
    BY <1>6, <2>2 DEF KeyKnown
  <2>4. c.op # "access" /\ Claims(c, site[t]) => Claims(n, k)
    BY <1>7, <2>2 DEF Claims
  <2> QED
    BY <1>1, <1>4, <1>7, <2>1, <2>2, <2>3, <2>4, DeploymentsInvStep DEF n
<1>8. CASE JobDone(s)
  <2>1. Step(s, [c EXCEPT !.job = "ok", !.key = None])
    BY <1>8 DEF JobDone
  <2>2. edge' \in {edge, None} \/ (c.op = "access" /\ edge' = [list |-> c.list, newest |-> c.newest])
    BY <1>8 DEF JobDone
  <2>3. CASE c.op = "deploy"
    <3>1. SpecKey(c) = c.key \/ (SpecKey(c) = "master" /\ ~Plain)
      BY <1>1, <1>3, <2>3, MasterNeedsEmpty DEF SpecKey, KeyKnown
    <3>2. site' = [site EXCEPT ![t] = [key |-> SpecKey(c)]]
      BY <1>8, <2>3 DEF JobDone
    <3>3. PICK k \in Container : k = [key |-> SpecKey(c)]
      BY <1>1, <1>2, <3>1, CallFields DEF Container
    <3>4. k # None /\ k.key = SpecKey(c) /\ c.key # "master"
      BY <1>2, <3>3 DEF KeyStates
    <3> QED
      BY <1>7, <2>1, <2>2, <2>3, <3>1, <3>2, <3>3, <3>4
  <2>4. CASE c.op = "access"
    <3>1. site' = [site EXCEPT ![t] = site[t]]
      BY <1>2, <1>8, <2>4 DEF JobDone
    <3> QED
      BY <1>5, <1>7, <2>1, <2>2, <2>4, <3>1
  <2>5. CASE c.op # "deploy" /\ c.op # "access"
    <3>1. site' = [site EXCEPT ![t] = None]
      BY <1>8, <2>5 DEF JobDone
    <3> QED
      BY <1>7, <2>1, <2>2, <2>5, <3>1
  <2> QED
    BY <2>3, <2>4, <2>5
<1>9. CASE JobFails(s)
  <2>1. PICK k \in {site[t], None} : site' = [site EXCEPT ![t] = k] /\ (c.op # "deploy" => k = site[t])
    BY <1>2, <1>9 DEF JobFails
  <2>2. Step(s, [c EXCEPT !.job = "error", !.key = None]) /\ edge' = edge
    BY <1>9 DEF JobFails
  <2> QED
    BY <1>5, <1>7, <2>1, <2>2
<1> QED
  BY <1>8, <1>9

-----------------------------------------------------------------------------
(* A key dies *)

LEMMA DeadCall ==
  ASSUME NEW c \in Call \cup {None}
  PROVE  /\ Dead(c) \in Call \cup {None} /\ (Dead(c) = None <=> c = None)
         /\ c # None => /\ Dead(c).op = c.op /\ Dead(c).target = c.target /\ Dead(c).list = c.list
                        /\ Dead(c).newest = c.newest /\ Dead(c).process = c.process
                        /\ Dead(c).job = c.job
                        /\ Dead(c).key = IF c.key = "live" THEN "dead" ELSE c.key
<1>1. CASE c = None
  BY <1>1 DEF Dead
<1>2. CASE c # None
  <2>1. c \in Call /\ [c EXCEPT !.key = "dead"] \in Call
    BY <1>2, CallKept
  <2> QED
    BY <1>2, <2>1, DeploymentsAssumption DEF Dead, Call
<1> QED
  BY <1>1, <1>2

LEMMA DeadContainer ==
  ASSUME NEW k \in Container \cup {None}
  PROVE  /\ Dead(k) \in Container \cup {None} /\ (Dead(k) = None <=> k = None)
         /\ k # None /\ k.key # "master" => Dead(k).key # "master"
<1>1. CASE k = None
  BY <1>1 DEF Dead
<1>2. CASE k # None
  <2>1. k \in Container /\ [k EXCEPT !.key = "dead"] \in Container
    BY <1>2 DEF Container, KeyStates
  <2> QED
    BY <1>2, <2>1, DeploymentsAssumption DEF Dead, Container
<1> QED
  BY <1>1, <1>2

LEMMA DeploymentsInvDelete ==
  ASSUME DeploymentsInv, NEW s \in Slots, calls[s] # None, NEW process,
         \/ process = "keyless" /\ calls[s].op = "deploy" /\ calls[s].process = "begun"
         \/ process = "revoked" /\ calls[s].op \in {"undeploy", "purge"} /\ calls[s].job = "ok",
         DeleteByAlias(s, process), UNCHANGED <<app, draft, litellm, scope, edge, news>>
  PROVE  DeploymentsInv'
<1> USE DeploymentsInvTypes
<1> DEFINE t == calls[s].target
           d(r) == IF calls[r] # None /\ calls[r].target = t THEN Dead(calls[r]) ELSE calls[r]
           n == [d(s) EXCEPT !.process = process]
<1>1. t \in Targets /\ calls[s] \in Call
  BY CallFields
<1>2. ASSUME NEW r \in Slots
      PROVE  /\ d(r) \in Call \cup {None} /\ (d(r) = None <=> calls[r] = None)
             /\ calls[r] # None =>
                  /\ d(r).op = calls[r].op /\ d(r).target = calls[r].target /\ d(r).list = calls[r].list
                  /\ d(r).newest = calls[r].newest /\ d(r).process = calls[r].process
                  /\ d(r).job = calls[r].job
                  /\ d(r).key = IF calls[r].target = t /\ calls[r].key = "live" THEN "dead" ELSE calls[r].key
  <2>1. calls[r] \in Call \cup {None}
    OBVIOUS
  <2> QED
    BY <2>1, DeadCall
<1>3. d(s) \in Call /\ d(s) # None
  BY <1>2
<1> HIDE DEF d
<1>4. /\ n \in Call /\ n # None /\ n.op = d(s).op /\ n.target = d(s).target /\ n.list = d(s).list
      /\ n.newest = d(s).newest /\ n.job = d(s).job /\ n.key = d(s).key /\ n.process = process
  <2>1. n \in Call
    BY <1>3, CallKept
  <2> QED
    BY <1>3, <2>1 DEF Call
<1>5. calls' = [r \in Slots |-> IF r = s THEN n ELSE d(r)]
  BY DEF DeleteByAlias, d
<1>6. keys' = [keys EXCEPT ![t] = FALSE] /\ site' = [site EXCEPT ![t] = Dead(site[t])]
  BY <1>1 DEF DeleteByAlias
<1> HIDE DEF n
<1>7. ASSUME NEW r \in Slots
      PROVE  /\ calls'[r] \in Call \cup {None} /\ (calls'[r] = None <=> calls[r] = None)
             /\ calls[r] # None =>
                  /\ calls'[r].op = calls[r].op /\ calls'[r].target = calls[r].target
                  /\ calls'[r].list = calls[r].list /\ calls'[r].newest = calls[r].newest
                  /\ calls'[r].process = (IF r = s THEN process ELSE calls[r].process)
                  /\ calls'[r].job = calls[r].job
                  /\ calls'[r].key = IF calls[r].target = t /\ calls[r].key = "live" THEN "dead" ELSE calls[r].key
  BY <1>2, <1>4, <1>5
<1>8. /\ \A u \in Targets : site'[u] = IF u = t THEN Dead(site[t]) ELSE site[u]
      /\ Dead(site[t]) \in Container \cup {None} /\ (Dead(site[t]) = None <=> site[t] = None)
      /\ site[t] # None /\ site[t].key # "master" => Dead(site[t]).key # "master"
  BY <1>1, <1>6, DeadContainer
<1>9. DeploymentsTypeOK'
  <2>1. calls' \in [Slots -> Call \cup {None}]
    BY <1>5, <1>7
  <2>2. site' \in [Targets -> Container \cup {None}] /\ keys' \in [Targets -> BOOLEAN]
    BY <1>1, <1>6, <1>8
  <2> QED
    BY <2>1, <2>2 DEF DeploymentsInv, DeploymentsTypeOK
<1>11. PushesTrue'
  BY <1>7 DEF DeploymentsInv, PushesTrue
<1>12. KeysKnown'
  <2>1. ASSUME NEW r \in Slots, calls[r] # None PROVE KeyKnown(calls'[r])
    <3>1. KeyKnown(calls[r])
      BY <2>1 DEF DeploymentsInv, KeysKnown
    <3>2. CASE r # s
      BY <1>7, <2>1, <3>1, <3>2, KeyKnownAlike
    <3>3. CASE r = s
      BY <1>7, <2>1, <3>1, <3>3 DEF KeyKnown
    <3> QED
      BY <3>2, <3>3
  <2> QED
    BY <1>7, <2>1, KeyKnownStays DEF KeysKnown, KeyKnown
<1>13. NoMaster'
  BY <1>8, KeyKnownStays DEF DeploymentsInv, NoMaster
<1>14. \A u \in Targets : Active(u)' = Active(u) /\ Active(u) \subseteq Slots
  BY <1>7 DEF Active
<1>15. QuietCalls'
  <2> SUFFICES ASSUME NEW u \in Targets, news[u] # "muddled" PROVE Quiet(u)'
    BY DEF QuietCalls
  <2>1. Quiet(u)
    BY DEF DeploymentsInv, QuietCalls
  <2>2. CASE u # t
    <3>1. \A r \in Active(u) : /\ calls'[r].op = calls[r].op /\ calls'[r].key = calls[r].key
                               /\ calls'[r].job = calls[r].job
      BY <1>7, <2>2 DEF Active
    <3>2. \A r \in Active(u) : Claims(calls'[r], site'[u])
      BY <1>8, <2>1, <2>2, <3>1 DEF Quiet, Claims
    <3> QED
      BY <1>8, <1>14, <2>1, <2>2, <3>2 DEF Quiet, Claims, NewsTrue
  <2>3. CASE u = t
    <3>1. s \in Active(t)
      BY DEF Active
    <3>2. news[t] = None /\ (\A r \in Active(t) : r = s) /\ Claims(calls[s], site[t])
      BY <2>1, <2>3, <3>1 DEF Quiet
    <3>3. KeyKnown(calls[s])
      BY DEF DeploymentsInv, KeysKnown
    <3>4. Claims(calls'[s], site'[t])
      BY <1>1, <1>7, <1>8, <3>2, <3>3 DEF Claims, KeyKnown
    <3>5. \A r \in Active(u)' : Claims(calls'[r], site'[u])
      BY <1>14, <2>3, <3>2, <3>4
    <3>6. /\ \A q, r \in Active(u)' : q = r
          /\ news'[u] = None
      BY <1>14, <2>3, <3>2
    <3>7. NewsTrue(news'[u], site'[u])
      BY <3>6 DEF NewsTrue
    <3> QED
      BY <3>5, <3>6, <3>7 DEF Quiet, NewsTrue, Claims
  <2> QED
    BY <2>2, <2>3
<1>16. NoPreviewNoCall'
  <2>1. Active("preview")' = Active("preview") /\ (site["preview"] = None => site'["preview"] = None)
    BY <1>8, <1>14
  <2> QED
    BY <2>1 DEF DeploymentsInv, NoPreviewNoCall
<1> QED
  BY <1>9, <1>11, <1>12, <1>13, <1>15, <1>16 DEF DeploymentsInv

LEMMA DeploymentsInvKeys ==
  ASSUME DeploymentsInv, NEW s \in Slots, DeleteKey(s) \/ RevokeKey(s)
  PROVE  DeploymentsInv'
<1> USE DeploymentsInvTypes
<1>1. CASE DeleteKey(s)
  BY <1>1, DeploymentsInvDelete DEF DeleteKey, At
<1>2. CASE RevokeKey(s) /\ DeleteByAlias(s, "revoked")
  BY <1>2, DeploymentsInvDelete DEF RevokeKey, At
<1>3. CASE RevokeKey(s) /\ Step(s, [calls[s] EXCEPT !.process = "revoked"]) /\ UNCHANGED <<site, keys>>
  <2> DEFINE c == calls[s]
             t == c.target
             n == [c EXCEPT !.process = "revoked"]
  <2>1. c \in Call /\ c # None /\ c.op \in {"undeploy", "purge"} /\ c.job = "ok"
        /\ UNCHANGED <<app, draft, litellm, scope, edge, news>>
    BY <1>3 DEF RevokeKey, At
  <2>2. t \in Targets /\ n \in Call
    BY <2>1, CallFields, CallKept
  <2>3. /\ n.op = c.op /\ n.target = t /\ n.list = c.list /\ n.newest = c.newest
        /\ n.key = c.key /\ n.process = "revoked" /\ n.job = c.job
    BY <2>1 DEF Call
  <2>4. Step(s, n) /\ site' = [site EXCEPT ![t] = site[t]] /\ keys' \in [Targets -> BOOLEAN]
        /\ site[t] \in Container \cup {None} /\ (Plain /\ site[t] # None => site[t].key # "master")
    BY <1>3, <2>2 DEF DeploymentsInv, NoMaster
  <2> HIDE DEF n
  <2>5. KeyKnown(n) /\ (Claims(c, site[t]) => Claims(n, site[t]))
    BY <2>1, <2>3 DEF KeyKnown, Claims
  <2> QED
    BY <2>1, <2>2, <2>3, <2>4, <2>5, DeploymentsInvStep
<1> QED
  BY <1>1, <1>2, <1>3 DEF RevokeKey

-----------------------------------------------------------------------------
(* The store *)

\* What concerns the application record only.
LEMMA DeploymentsInvIdle ==
  ASSUME DeploymentsInv, UNCHANGED <<draft, litellm, scope, calls, world, news>>, app' \in App,
         app'.deployments = app.deployments,
         app'.shared = app.shared, app'.preview = app.preview,
         app'.saved => app'.deployId, app.saved => app'.saved, app'.present => app.present
  PROVE  DeploymentsInv'
<1> USE DeploymentsInvTypes
<1>1. DeploymentsTypeOK'
  BY DEF DeploymentsInv, DeploymentsTypeOK, world
<1>2. NoMaster'
  BY KeyKnownStays DEF DeploymentsInv, NoMaster, world
<1>3. PushesTrue' /\ KeysKnown'
  BY KeyKnownStays DEF DeploymentsInv, PushesTrue, KeysKnown, KeyKnown, world
<1>4. QuietCalls' /\ NoPreviewNoCall'
  BY DEF DeploymentsInv, QuietCalls, Quiet, Claims, NewsTrue, Active, NoPreviewNoCall, world
<1> QED
  BY <1>1, <1>2, <1>3, <1>4 DEF DeploymentsInv

LEMMA DeploymentsInvInvoke ==
  ASSUME DeploymentsInv, NEW s \in Slots, NEW op \in {"deploy", "undeploy", "purge"}, NEW t \in Targets,
         Invoke(s, op, t), app' \in App,
         app'.deployments = app.deployments,
         app'.shared = app.shared, app'.saved => app'.deployId, app.saved => app'.saved,
         app'.present => app.present,
         IF t = "preview" THEN app'.preview # None ELSE app'.preview = app.preview
  PROVE  DeploymentsInv'
<1> USE DeploymentsInvTypes
<1> DEFINE n == NewCall(op, t, app.shared)
           m == IF Active(t) = {} THEN None ELSE "muddled"
<1>1. /\ n \in Call /\ n # None /\ n.op = op /\ n.target = t /\ n.key = None
      /\ n.process = "begun" /\ n.job = "none"
  <2>1. app.shared \in Lists /\ op \in Operations
    BY AppFields DEF Operations
  <2>2. n \in Call
    BY <2>1 DEF NewCall, Call
  <2> QED
    BY <2>2 DEF NewCall
<1> HIDE DEF n
<1>2. /\ calls' = [calls EXCEPT ![s] = n] /\ news' = [news EXCEPT ![t] = m] /\ calls[s] = None
      /\ UNCHANGED <<draft, litellm, scope, site, edge, keys>>
  BY DEF Invoke, Free, world, n
<1>3. /\ \A r \in Slots : calls'[r] = IF r = s THEN n ELSE calls[r]
      /\ \A u \in Targets : news'[u] = IF u = t THEN m ELSE news[u]
  BY <1>2
<1>4. DeploymentsTypeOK'
  BY <1>1, <1>2 DEF DeploymentsInv, DeploymentsTypeOK
<1>6. PushesTrue' /\ NoMaster'
  BY <1>1, <1>2, <1>3, KeyKnownStays DEF DeploymentsInv, PushesTrue, NoMaster
<1>7. KeysKnown'
  <2>1. \A r \in Slots : calls'[r] # None => KeyKnown(calls'[r])
    BY <1>1, <1>3 DEF DeploymentsInv, KeysKnown, KeyKnown
  <2> QED
    BY <1>2, <2>1, KeyKnownStays DEF KeysKnown, KeyKnown
<1>8. \A u \in Targets, r \in Slots : r \in Active(u)' <=> IF r = s THEN u = t ELSE r \in Active(u)
  BY <1>1, <1>3 DEF Active
<1>9. \A u \in Targets : Active(u) \subseteq Slots /\ Active(u)' \subseteq Slots /\ s \notin Active(u)
  BY <1>2 DEF Active
<1>10. QuietCalls'
  <2> SUFFICES ASSUME NEW u \in Targets, news'[u] # "muddled" PROVE Quiet(u)'
    BY DEF QuietCalls
  <2>1. CASE u # t
    <3>1. Quiet(u) /\ news'[u] = news[u] /\ Active(u)' = Active(u)
      BY <1>3, <1>8, <1>9, <2>1 DEF DeploymentsInv, QuietCalls
    <3>2. \A r \in Active(u) : calls'[r] = calls[r]
      BY <1>3, <1>9
    <3> QED
      BY <1>2, <3>1, <3>2 DEF Quiet, Claims, NewsTrue
  <2>2. CASE u = t
    <3>1. Active(t) = {} /\ news'[u] = None
      BY <1>3, <2>2
    <3>2. \A r \in Active(u)' : r = s /\ calls'[r] = n
      BY <1>3, <1>8, <1>9, <2>2, <3>1
    <3>3. Claims(n, site'[u])
      BY <1>1 DEF Claims
    <3> QED
      BY <3>1, <3>2, <3>3 DEF Quiet, Claims, NewsTrue
  <2> QED
    BY <2>1, <2>2
<1>11. NoPreviewNoCall'
  <2>1. CASE t = "preview"
    BY <2>1 DEF NoPreviewNoCall
  <2>2. CASE t # "preview"
    <3>1. Active("preview")' = Active("preview") /\ news'["preview"] = news["preview"]
      BY <1>3, <1>8, <1>9, <2>2
    <3> QED
      BY <1>2, <2>2, <3>1 DEF DeploymentsInv, NoPreviewNoCall
  <2> QED
    BY <2>1, <2>2
<1> QED
  BY <1>4, <1>6, <1>7, <1>10, <1>11 DEF DeploymentsInv

\* A push comes with a new list, and no push before it is the newest any more.
LEMMA DeploymentsInvShare ==
  ASSUME DeploymentsInv, NEW s \in Slots, NEW l \in Lists, Share(s, l)
  PROVE  DeploymentsInv'
<1> USE DeploymentsInvTypes
<1> DEFINE b == [app EXCEPT !.shared = l]
<1>1. /\ app' = Persisted(b) /\ b \in App
      /\ UNCHANGED <<draft, litellm, scope, site, keys, news>>
  <2>1. b \in App
    BY DEF App
  <2> QED
    BY <2>1 DEF Share, PushAccess, world
<1>2. /\ app' \in App /\ app'.deployments = app.deployments /\ app'.shared = l
      /\ app'.deployId = app.deployId /\ app'.saved = app.deployId
      /\ app'.preview = app.preview /\ app'.present = app.present
  <2>1. /\ b.deployments = app.deployments /\ b.shared = l /\ b.deployId = app.deployId
        /\ b.preview = app.preview /\ b.present = app.present
    BY DEF App
  <2> HIDE DEF b
  <2> QED
    BY <1>1, <2>1, PersistedFields
<1>3. NoMaster'
  BY <1>1, KeyKnownStays DEF DeploymentsInv, NoMaster
<1> DEFINE n == NewCall("access", "app", l)
           older(r) == IF calls[r] = None THEN None ELSE [calls[r] EXCEPT !.newest = FALSE]
<1>4. /\ n \in Call /\ n # None /\ n.op = "access" /\ n.target = "app" /\ n.list = l /\ n.key = None
      /\ n.process = "begun" /\ n.job = "none"
  <2>1. "access" \in Operations /\ "app" \in Targets
    BY DEF Operations, Targets
  <2>2. n \in Call
    BY <2>1 DEF NewCall, Call
  <2> QED
    BY <2>2 DEF NewCall
<1>5. CASE ~app.deployId
  <2>1. UNCHANGED <<calls, edge>>
    BY <1>5 DEF Share, PushAccess, world
  <2>2. PushesTrue'
    BY <1>2, <1>5, <2>1 DEF DeploymentsInv, PushesTrue
  <2>3. DeploymentsTypeOK' /\ KeysKnown'
    BY <1>1, <1>2, <2>1, KeyKnownStays DEF DeploymentsInv, DeploymentsTypeOK, KeysKnown, KeyKnown
  <2>4. QuietCalls' /\ NoPreviewNoCall'
    BY <1>1, <1>2, <2>1 DEF DeploymentsInv, QuietCalls, Quiet, Claims, NewsTrue, Active, NoPreviewNoCall
  <2> QED
    BY <1>3, <2>2, <2>3, <2>4 DEF DeploymentsInv
<1>6. CASE app.deployId
  <2>1. /\ calls[s] = None
        /\ calls' = [[r \in Slots |-> older(r)] EXCEPT ![s] = n]
        /\ edge' = IF edge = None THEN None ELSE [edge EXCEPT !.newest = FALSE]
    BY <1>6 DEF Share, PushAccess, Free
  <2>2. ASSUME NEW r \in Slots, calls[r] # None
        PROVE  /\ older(r) \in Call /\ older(r) # None
               /\ older(r).op = calls[r].op /\ older(r).target = calls[r].target
               /\ older(r).key = calls[r].key /\ older(r).process = calls[r].process
               /\ older(r).job = calls[r].job /\ older(r).newest = FALSE
    <3>1. calls[r] \in Call
      BY <2>2
    <3>2. older(r) = [calls[r] EXCEPT !.newest = FALSE] /\ older(r) \in Call
      BY <2>2, <3>1, CallKept
    <3> QED
      BY <3>1, <3>2 DEF Call
  <2>3. \A r \in Slots : calls[r] = None => older(r) = None
    OBVIOUS
  <2> HIDE DEF n, older
  <2>4. \A r \in Slots : calls'[r] = IF r = s THEN n ELSE older(r)
    BY <2>1
  <2>5. edge' \in Edge \cup {None} /\ (edge' # None => edge'.newest = FALSE)
    BY <2>1 DEF Edge
  <2>6. DeploymentsTypeOK'
    <3>1. calls' \in [Slots -> Call \cup {None}]
      BY <1>4, <2>1, <2>2, <2>3
    <3> QED
      BY <1>1, <1>2, <2>5, <3>1 DEF DeploymentsInv, DeploymentsTypeOK
  <2>7. PushesTrue'
    <3>1. /\ app'.deployId /\ app'.saved /\ app'.shared = l
          /\ edge' = None \/ ~edge'.newest
      BY <1>2, <1>6, <2>5
    <3>2. \A r \in Slots : calls'[r] # None /\ calls'[r].newest => calls'[r] = n
      BY <2>2, <2>3, <2>4
    <3> QED
      BY <1>4, <3>1, <3>2 DEF PushesTrue
  <2>8. KeysKnown'
    <3>1. ASSUME NEW r \in Slots, calls'[r] # None PROVE KeyKnown(calls'[r])
      <4>1. CASE r = s
        BY <1>4, <2>4, <4>1 DEF KeyKnown
      <4>2. CASE r # s
        <5>1. calls[r] # None /\ calls'[r] = older(r)
          BY <2>3, <2>4, <3>1, <4>2
        <5>2. KeyKnown(calls[r])
          BY <5>1 DEF DeploymentsInv, KeysKnown
        <5> QED
          BY <2>2, <5>1, <5>2, KeyKnownAlike
      <4> QED
        BY <4>1, <4>2
    <3> QED
      BY <1>1, <3>1, KeyKnownStays DEF KeysKnown, KeyKnown
  <2>9. ASSUME NEW u \in Targets
        PROVE  /\ Active(u)' = Active(u)
               /\ \A r \in Active(u) : /\ calls'[r].op = calls[r].op /\ calls'[r].key = calls[r].key
                                       /\ calls'[r].job = calls[r].job
    BY <1>4, <2>1, <2>2, <2>3, <2>4 DEF Active
  <2>10. QuietCalls'
    <3> SUFFICES ASSUME NEW u \in Targets, news[u] # "muddled" PROVE Quiet(u)'
      BY <1>1 DEF QuietCalls
    <3>1. Quiet(u)
      BY DEF DeploymentsInv, QuietCalls
    <3> QED
      BY <1>1, <2>9, <3>1 DEF Quiet, Claims, NewsTrue
  <2>11. NoPreviewNoCall'
    BY <1>1, <1>2, <2>9 DEF DeploymentsInv, NoPreviewNoCall
  <2> QED
    BY <1>3, <2>6, <2>7, <2>8, <2>10, <2>11 DEF DeploymentsInv
<1> QED
  BY <1>5, <1>6 DEF Share, PushAccess, DeploymentsInv, DeploymentsTypeOK

LEMMA DeploymentsInvRestart ==
  ASSUME DeploymentsInv, Restart
  PROVE  DeploymentsInv'
<1> USE DeploymentsInvTypes
<1> DEFINE q(r) == [calls[r] EXCEPT !.waits = FALSE]
           k(r) == IF calls[r] = None THEN None ELSE Kept(q(r))
<1>1. ASSUME NEW r \in Slots, calls[r] # None
      PROVE  /\ q(r) \in Call /\ k(r) \in {None, q(r)}
             /\ q(r).op = calls[r].op /\ q(r).target = calls[r].target /\ q(r).list = calls[r].list
             /\ q(r).newest = calls[r].newest /\ q(r).key = calls[r].key
             /\ q(r).process = calls[r].process /\ q(r).job = calls[r].job
  <2>1. calls[r] \in Call
    BY <1>1
  <2>2. q(r) \in Call
    BY <2>1, CallKept
  <2> QED
    BY <1>1, <2>1, <2>2 DEF Call, Kept
<1>2. \A r \in Slots : calls[r] = None => k(r) = None
  OBVIOUS
<1>3. calls' = [r \in Slots |-> k(r)] /\ UNCHANGED <<draft, litellm, scope, world, news>>
  BY DEF Restart
<1> HIDE DEF q, k
<1>4. ASSUME NEW r \in Slots, calls'[r] # None
      PROVE  /\ calls[r] # None /\ calls'[r] \in Call
             /\ calls'[r].op = calls[r].op /\ calls'[r].target = calls[r].target
             /\ calls'[r].list = calls[r].list /\ calls'[r].newest = calls[r].newest
             /\ calls'[r].key = calls[r].key /\ calls'[r].process = calls[r].process
             /\ calls'[r].job = calls[r].job
  BY <1>1, <1>2, <1>3, <1>4
<1>5. /\ app' \in App /\ app'.deployments = app.deployments /\ app'.shared = app.shared
      /\ app'.saved = app.saved /\ app'.deployId = app.saved /\ app'.present = app.present
      /\ app'.preview = None => app.preview = None
  <2>1. PICK p \in Preview \cup {None} :
          p = (IF Starting THEN [app.preview EXCEPT !.status = "error"] ELSE app.preview)
    BY AppFields DEF Starting, Preview
  <2>2. p = None => app.preview = None
    <3>1. CASE Starting
      <4>1. app.preview \in Preview
        BY <3>1, AppFields DEF Starting
      <4>2. [app.preview EXCEPT !.status = "error"] \in Preview
        BY <4>1 DEF Preview
      <4>3. None \notin Preview
        BY DeploymentsAssumption
      <4> QED
        BY <2>1, <3>1, <4>2, <4>3
    <3>2. CASE ~Starting
      BY <2>1, <3>2
    <3> QED
      BY <3>1, <3>2
  <2>3. app' = [app EXCEPT !.deployId = app.saved, !.preview = p]
    BY <2>1 DEF Restart
  <2>4. app.saved \in BOOLEAN
    BY AppFields
  <2> QED
    BY <2>2, <2>3, <2>4 DEF App
<1>6. DeploymentsTypeOK'
  <2>1. calls' \in [Slots -> Call \cup {None}]
    BY <1>3, <1>4
  <2> QED
    BY <1>3, <1>5, <2>1 DEF DeploymentsInv, DeploymentsTypeOK, world
<1>7. NoMaster'
  BY <1>3, KeyKnownStays DEF DeploymentsInv, NoMaster, world
<1>8. PushesTrue'
  BY <1>3, <1>4, <1>5 DEF DeploymentsInv, PushesTrue, world
<1>9. KeysKnown'
  <2>1. ASSUME NEW r \in Slots, calls'[r] # None PROVE KeyKnown(calls'[r])
    <3>1. KeyKnown(calls[r])
      BY <1>4, <2>1 DEF DeploymentsInv, KeysKnown
    <3> QED
      BY <1>4, <2>1, <3>1, KeyKnownAlike
  <2> QED
    BY <1>3, <2>1, KeyKnownStays DEF KeysKnown, KeyKnown
<1>10. \A u \in Targets : Active(u)' \subseteq Active(u) /\ Active(u)' \subseteq Slots
  BY <1>4 DEF Active
<1>11. QuietCalls'
  <2> SUFFICES ASSUME NEW u \in Targets, news[u] # "muddled" PROVE Quiet(u)'
    BY <1>3 DEF QuietCalls
  <2>1. Quiet(u)
    BY DEF DeploymentsInv, QuietCalls
  <2>2. \A r \in Active(u)' : r \in Active(u) /\ Claims(calls'[r], site[u])
    <3> SUFFICES ASSUME NEW r \in Active(u)' PROVE r \in Active(u) /\ Claims(calls'[r], site[u])
      OBVIOUS
    <3>1. r \in Slots /\ calls'[r] # None /\ r \in Active(u)
      BY <1>10 DEF Active
    <3> QED
      BY <1>4, <2>1, <3>1 DEF Quiet, Claims
  <2> QED
    BY <1>3, <1>10, <2>1, <2>2 DEF Quiet, Claims, NewsTrue, world
<1>12. NoPreviewNoCall'
  BY <1>3, <1>5, <1>10 DEF DeploymentsInv, NoPreviewNoCall, world
<1> QED
  BY <1>6, <1>7, <1>8, <1>9, <1>11, <1>12 DEF DeploymentsInv

LEMMA DeploymentsInvStore ==
  ASSUME DeploymentsInv, StoreStep
  PROVE  DeploymentsInv'
<1> USE DeploymentsInvTypes
<1>0. (app.saved => app.deployId) /\ app.saved \in BOOLEAN /\ app.deployId \in BOOLEAN
  BY AppFields DEF DeploymentsInv, PushesTrue
<1>1. ASSUME NEW a \in App, app' = Persisted(a), a.deployments = app.deployments, a.shared = app.shared,
             a.deployId = app.deployId, a.preview = app.preview, a.present = app.present,
             UNCHANGED <<draft, litellm, scope, calls, world, news>>
      PROVE  DeploymentsInv'
  <2>1. /\ app' \in App /\ app'.deployments = app.deployments /\ app'.shared = app.shared
        /\ app'.preview = app.preview /\ app'.present = app.present
        /\ app'.saved = app.deployId /\ app'.deployId = app.deployId
    BY <1>1, PersistedFields
  <2> QED
    BY <1>0, <1>1, <2>1, DeploymentsInvIdle
<1>2. ASSUME Publish PROVE DeploymentsInv'
  <2>1. PICK r \in 1..MaxReleases : r = app.release + 1
    BY <1>2, AppFields, DeploymentsAssumption DEF Publish
  <2>2. [app EXCEPT !.release = r, !.exported = FALSE] \in App
    BY DEF App
  <2>3. app' = Persisted([app EXCEPT !.release = r, !.exported = FALSE])
    BY <1>2, <2>1 DEF Publish
  <2> QED
    BY <1>1, <1>2, <2>2, <2>3 DEF Publish, App
<1>3. ASSUME OtherOperation \/ RecordExport \/ Archive PROVE DeploymentsInv'
  <2>1. ASSUME NEW e \in BOOLEAN, app' = Persisted([app EXCEPT !.exported = e]),
               UNCHANGED <<draft, litellm, scope, calls, world, news>>
        PROVE  DeploymentsInv'
    <3>1. [app EXCEPT !.exported = e] \in App
      BY DEF App
    <3> QED
      BY <1>1, <2>1, <3>1 DEF App
  <2>2. ASSUME NEW e \in BOOLEAN, app' = Persisted([app EXCEPT !.archived = e]),
               UNCHANGED <<draft, litellm, scope, calls, world, news>>
        PROVE  DeploymentsInv'
    <3>1. [app EXCEPT !.archived = e] \in App
      BY DEF App
    <3> QED
      BY <1>1, <2>2, <3>1 DEF App
  <2>3. CASE OtherOperation
    BY <1>1, <2>3 DEF OtherOperation
  <2>4. CASE RecordExport
    BY <2>1, <2>4 DEF RecordExport
  <2>5. CASE Archive
    <3>1. (~app.archived) \in BOOLEAN
      OBVIOUS
    <3> QED
      BY <2>2, <2>5, <3>1 DEF Archive
  <2> QED
    BY <1>3, <2>3, <2>4, <2>5
<1>4. ASSUME NEW s \in Slots, DeployApplication(s) PROVE DeploymentsInv'
  <2>1. app' = [app EXCEPT !.deployId = TRUE]
    BY <1>4 DEF DeployApplication
  <2>2. app' \in App
    BY <2>1 DEF App
  <2>3. /\ app'.deployments = app.deployments /\ app'.saved = app.saved
        /\ app'.shared = app.shared /\ app'.deployId /\ app'.present = app.present
        /\ app'.preview = app.preview
    BY <2>1, <2>2 DEF App
  <2> QED
    BY <1>4, <2>2, <2>3, DeploymentsInvInvoke DEF DeployApplication
<1>5. ASSUME NEW s \in Slots, StartPreview(s) PROVE DeploymentsInv'
  <2>1. PICK p \in Preview : p = [status |-> "starting", named |-> TRUE]
    BY DEF Preview
  <2> DEFINE b == [app EXCEPT !.preview = p]
  <2>2. app' = Persisted(b)
    BY <1>5, <2>1 DEF StartPreview
  <2>3. /\ b \in App /\ b.preview = p /\ b.deployments = app.deployments /\ b.shared = app.shared
        /\ b.deployId = app.deployId /\ b.present = app.present
    BY DEF App
  <2> HIDE DEF b
  <2>4. /\ app' \in App /\ app'.preview # None
        /\ app'.deployments = app.deployments /\ app'.saved = app.deployId
        /\ app'.shared = app.shared /\ app'.deployId = app.deployId /\ app'.present = app.present
    BY <2>2, <2>3, PersistedFields
  <2> QED
    BY <1>0, <1>5, <2>4, DeploymentsInvInvoke DEF StartPreview
<1>6. ASSUME NEW s \in Slots, NEW op \in {"undeploy", "purge"}, NEW t \in Targets,
             Invoke(s, op, t), UNCHANGED app, t = "preview" => app.preview # None
      PROVE  DeploymentsInv'
  BY <1>0, <1>6, DeploymentsInvInvoke
<1>7. ASSUME NEW s \in Slots, StopPreview(s) \/ UndeployApplication(s) PROVE DeploymentsInv'
  BY <1>6, <1>7 DEF StopPreview, UndeployApplication
<1>8. ASSUME NEW s \in Slots, Purge(s) PROVE DeploymentsInv'
  <2>1. CASE app.deployId
    BY <1>6, <1>8, <2>1 DEF Purge
  <2>2. CASE ~app.deployId
    <3>1. /\ app' = [app EXCEPT !.present = FALSE]
          /\ UNCHANGED <<draft, litellm, scope, calls, world, news>>
      BY <1>8, <2>2 DEF Purge
    <3>2. app' \in App
      BY <3>1 DEF App
    <3> QED
      BY <1>0, <3>1, <3>2, DeploymentsInvIdle DEF App
  <2> QED
    BY <2>1, <2>2
<1> QED
  BY <1>2, <1>3, <1>4, <1>5, <1>7, <1>8, DeploymentsInvShare, DeploymentsInvRestart DEF StoreStep

LEMMA DeploymentsInvNext == DeploymentsInv /\ [DeploymentsNext]_dvars => DeploymentsInv'
<1> SUFFICES ASSUME DeploymentsInv, [DeploymentsNext]_dvars PROVE DeploymentsInv'
  OBVIOUS
<1>1. CASE UNCHANGED dvars
  <2>1. app \in App /\ (app.saved => app.deployId)
    BY DeploymentsInvTypes DEF DeploymentsInv, PushesTrue
  <2> QED
    BY <1>1, <2>1, DeploymentsInvIdle DEF dvars, world
<1> QED
  BY <1>1, DeploymentsInvStore, DeploymentsInvReplies, DeploymentsInvStreamCut, DeploymentsInvWorks,
     DeploymentsInvEngine, DeploymentsInvKeys
     DEF DeploymentsNext, AdapterStep, EngineStep

-----------------------------------------------------------------------------
(* Theorems *)

LEMMA DeploymentsInvariant == DeploymentsSpec => []DeploymentsInv
  BY DeploymentsInvInit, DeploymentsInvNext, PTL DEF DeploymentsSpec

\* The records of deployments, calls, containers and keys stay what they are, and no more than the
\* last deployments are kept.
THEOREM DeploymentsTypes == DeploymentsSpec => []DeploymentsTypeOK
<1>1. DeploymentsInv => DeploymentsTypeOK
  BY DEF DeploymentsInv
<1> QED
  BY <1>1, DeploymentsInvariant, PTL

\* Success, with no overlap and no lost stream since, is true of the container.
THEOREM DeploymentsSuccess == DeploymentsSpec => []SuccessIsTrue
<1>1. DeploymentsInv => SuccessIsTrue
  BY DEF DeploymentsInv, QuietCalls, Quiet, NewsTrue, SuccessIsTrue
<1> QED
  BY <1>1, DeploymentsInvariant, PTL

\* In every environment without an empty PAC_LITELLM_ variable no application is given the
\* master key; in all of them one that was deployed without overlap has a live key if it has any.
THEOREM DeploymentsOwnKey == DeploymentsSpec => []KeyOfItsOwn
<1>1. DeploymentsInv => KeyOfItsOwn
  BY DEF DeploymentsInv, QuietCalls, Quiet, NewsTrue, NoMaster, Plain, KeyOfItsOwn
<1> QED
  BY <1>1, DeploymentsInvariant, PTL

\* Without a preview on record, and without overlapping calls, there is no container of one.
THEOREM DeploymentsPreviewGone == DeploymentsSpec => []NoPreviewNoContainer
<1>1. DeploymentsInv => NoPreviewNoContainer
  BY DEF DeploymentsInv, NoPreviewNoCall, NoPreviewNoContainer
<1> QED
  BY <1>1, DeploymentsInvariant, PTL

\* Once the newest push has landed, the edge admits whom the store shares the application with.
THEOREM DeploymentsEdge == DeploymentsSpec => []EdgeFollowsSharing
<1>1. DeploymentsInv => EdgeFollowsSharing
  BY DEF DeploymentsInv, PushesTrue, EdgeFollowsSharing
<1> QED
  BY <1>1, DeploymentsInvariant, PTL

=============================================================================
