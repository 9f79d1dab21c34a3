------------------------- MODULE ModelGateway_proofs -------------------------
(***************************************************************************)
(* Theorems about the calls to models, for any set of environments.        *)
(***************************************************************************)
EXTENDS ModelGateway, TLAPS

(* A prompt stays on the premises.

   VendorOnlyAsFallback holds because a proxy that serves is never left.  The invariant
   says why, through what has been tried: with a sound proxy a form of thinking is given
   up only if the model does not take it, and an attempt is counted for each thing given
   up, so that the attempts cannot run out first.                                          *)

\* Every attempt gave up the temperature or a form of thinking.
TriesCounted(r) == r.tries = (r.form - 1) + (IF r.warm THEN 0 ELSE 1)

\* A sound proxy has objected to every form of thinking that was given up.
FormsRefused(r) == env.sound => \A f \in Forms : f < r.form => f \notin env.takes

AskingInv ==
  run # NoRun =>
    /\ run.at = "proxy" => TriesCounted(run) /\ FormsRefused(run)
    /\ run.at = "fallback" => ~Serves
    /\ run.asked \cap Vendors # {} => ~env.pinned /\ ~Serves

GatewayInv == ModelGatewayTypeOK /\ AskingInv

LEMMA EnvironmentFields ==
  ASSUME NEW e \in Environment
  PROVE  /\ e.keyed \in BOOLEAN /\ e.pinned \in BOOLEAN /\ e.direct \subseteq Vendors
         /\ e.takes \subseteq Forms /\ e.warm \in BOOLEAN /\ e.sound \in BOOLEAN
  BY DEF Environment

LEMMA RunFields ==
  ASSUME NEW r \in Run
  PROVE  /\ r.op \in Operation /\ r.at \in {"proxy", "fallback", "answered", "over"}
         /\ r.form \in 1 .. 3 /\ r.warm \in BOOLEAN /\ r.tries \in 0 .. 6
         /\ r.asked \subseteq Vendors \cup {"proxy"} /\ r.primary \in Failures \cup {"none"}
         /\ r.text \in Texts \cup {"none"} /\ r.result \in Outcomes \cup {"none"}
  BY DEF Run, Forms

\* What leaving the proxy does to a run.
LEMMA LeaveProxyFields ==
  ASSUME NEW r \in Run, NEW failure \in Failures
  PROVE  /\ LeaveProxy(r, failure) \in Run
         /\ LeaveProxy(r, failure).at = "fallback"
         /\ LeaveProxy(r, failure).tries = r.tries
         /\ LeaveProxy(r, failure).asked = r.asked
  BY DEF LeaveProxy, Run

\* One thing given up.
LEMMA RunGivesUp ==
  ASSUME NEW r \in Run, NEW k \in 0 .. 6, NEW f \in Forms
  PROVE  /\ [r EXCEPT !.warm = FALSE, !.tries = k] \in Run
         /\ [r EXCEPT !.form = f, !.tries = k] \in Run
  BY DEF Run

\* The request after an objection: one thing given up and one attempt more, or the proxy is left.
LEMMA AdaptedFields ==
  ASSUME NEW r \in Run, r.at = "proxy", TriesCounted(r), NEW words
  PROVE  LET n == Adapted(r, words) IN
         /\ n \in Run /\ n.asked = r.asked /\ n.tries \in 0 .. 3
         /\ \/ /\ n.at = "proxy" /\ TriesCounted(n)
               /\ \/ "temperature" \in words /\ r.warm /\ n.form = r.form
                  \/ /\ "thinking" \in words /\ ~("temperature" \in words /\ r.warm)
                     /\ n.form = r.form + 1
            \/ /\ n.at = "fallback"
               /\ ~("temperature" \in words /\ r.warm) /\ ("thinking" \in words => r.form = 3)
<1>1. r.form \in 1 .. 3 /\ r.warm \in BOOLEAN /\ r.tries \in 0 .. 3
  BY RunFields DEF TriesCounted
<1>2. CASE "temperature" \in words /\ r.warm
  <2> DEFINE n == [r EXCEPT !.warm = FALSE, !.tries = r.tries + 1]
  <2>1. /\ n \in Run /\ n.asked = r.asked /\ n.tries = r.tries + 1 /\ n.at = "proxy"
        /\ n.form = r.form /\ n.warm = FALSE
    <3>1. r.tries + 1 \in 0 .. 6 /\ r.form \in Forms
      BY <1>1 DEF Forms
    <3>2. n \in Run
      BY <3>1, RunGivesUp
    <3> QED
      BY <1>2, <3>2 DEF Run
  <2>2. Adapted(r, words) = n
    BY <1>2 DEF Adapted
  <2> QED
    BY <1>1, <1>2, <2>1, <2>2 DEF TriesCounted
<1>3. CASE ~("temperature" \in words /\ r.warm) /\ "thinking" \in words /\ r.form < 3
  <2> DEFINE n == [r EXCEPT !.form = r.form + 1, !.tries = r.tries + 1]
  <2>1. /\ n \in Run /\ n.asked = r.asked /\ n.tries = r.tries + 1 /\ n.at = "proxy"
        /\ n.form = r.form + 1 /\ n.warm = r.warm
    <3>1. r.tries + 1 \in 0 .. 6 /\ r.form + 1 \in Forms
      BY <1>1, <1>3 DEF Forms
    <3>2. n \in Run
      BY <3>1, RunGivesUp
    <3> QED
      BY <3>2 DEF Run
  <2>2. Adapted(r, words) = n
    BY <1>3 DEF Adapted
  <2> QED
    BY <1>1, <1>3, <2>1, <2>2 DEF TriesCounted
<1>4. CASE ~("temperature" \in words /\ r.warm) /\ ~("thinking" \in words /\ r.form < 3)
  <2>1. Adapted(r, words) = LeaveProxy(r, "other")
    BY <1>4 DEF Adapted
  <2> QED
    BY <1>1, <1>4, <2>1, LeaveProxyFields DEF Failures
<1> QED
  BY <1>2, <1>3, <1>4

\* With a sound proxy, what an objection gives up was wrong.
LEMMA AdaptedRefused ==
  ASSUME NEW r \in Run, r.at = "proxy", TriesCounted(r), FormsRefused(r),
         env \in Environment, NEW words, MayObject(r, words)
  PROVE  LET n == Adapted(r, words) IN
         /\ n.at = "proxy" => FormsRefused(n)
         /\ n.at = "fallback" => ~Serves
<1> DEFINE n == Adapted(r, words)
<1> SUFFICES ASSUME env.sound
             PROVE  (n.at = "proxy" => FormsRefused(n)) /\ (n.at = "fallback" => ~Serves)
  BY DEF FormsRefused, Serves
<1>1. PICK w \in Wrong(r) : w \in words
  BY DEF MayObject
<1>2. \/ w = "temperature" /\ r.warm
      \/ w = "thinking" /\ r.form \notin env.takes
  BY DEF Wrong
<1>3. r.form \in 1 .. 3 /\ (\A f \in 1 .. 3 : f < r.form => f \notin env.takes)
  BY RunFields DEF FormsRefused, Forms
<1>4. CASE n.at = "proxy"
  <2>1. \/ n.form = r.form
        \/ n.form = r.form + 1 /\ r.form \notin env.takes
    BY <1>1, <1>2, <1>4, AdaptedFields
  <2>2. FormsRefused(n)
    BY <1>3, <2>1 DEF FormsRefused, Forms
  <2> QED
    BY <1>4, <2>2
<1>5. CASE n.at = "fallback"
  <2>1. r.form = 3 /\ r.form \notin env.takes
    BY <1>1, <1>2, <1>5, AdaptedFields
  <2> QED
    BY <1>3, <1>5, <2>1 DEF Serves
<1>6. n.at \in {"proxy", "fallback"}
  BY AdaptedFields
<1> QED
  BY <1>4, <1>5, <1>6

LEMMA GatewayInvObjects ==
  ASSUME GatewayInv, NEW words \in SUBSET Objections, ProxyObjects(words)
  PROVE  GatewayInv'
<1> DEFINE n == Adapted(run, words)
<1>1. /\ run \in Run /\ run.at = "proxy" /\ run # NoRun /\ MayObject(run, words)
      /\ env' = env /\ env \in Environment /\ env \in Environments
      /\ TriesCounted(run) /\ FormsRefused(run)
      /\ run.asked \cap Vendors # {} => ~env.pinned /\ ~Serves
  BY ModelGatewayAssumption DEF GatewayInv, AskingInv, ModelGatewayTypeOK, ProxyObjects
<1>2. n \in Run /\ n.asked = run.asked /\ n.tries \in 0 .. 3
  BY <1>1, AdaptedFields
<1>3. run' = n
  BY <1>2 DEF ProxyObjects, MaxTries
<1>4. n.at = "proxy" => TriesCounted(n) /\ FormsRefused(n)
  BY <1>1, AdaptedFields, AdaptedRefused
<1>5. n.at = "fallback" => ~Serves
  BY <1>1, AdaptedRefused
<1> HIDE DEF n
<1> QED
  BY <1>1, <1>2, <1>3, <1>4, <1>5
     DEF GatewayInv, AskingInv, ModelGatewayTypeOK, TriesCounted, FormsRefused, Serves

\* A sound proxy that fails has been asked in the last form only, all others refused.
LEMMA FailingServesNot ==
  ASSUME NEW r \in Run, FormsRefused(r), env \in Environment, MayFail(r)
  PROVE  ~Serves
<1> SUFFICES ASSUME env.sound PROVE env.takes \cap {1, 2} = {}
  BY DEF Serves
<1> QED
  BY DEF MayFail, FormsRefused, Forms

LEMMA NextVendorAsked ==
  ASSUME NextVendor(run) # {}
  PROVE  ~env.pinned /\ NextVendor(run) \subseteq Vendors
  BY DEF NextVendor, DirectKeys, Vendors

LEMMA GatewayInvInit == ModelGatewayInit => GatewayInv
  BY DEF ModelGatewayInit, GatewayInv, AskingInv, ModelGatewayTypeOK

LEMMA GatewayInvSpawn ==
  ASSUME GatewayInv, NEW op \in Operation, Spawn(op)
  PROVE  GatewayInv'
<1> DEFINE r == [op |-> op, at |-> IF env.keyed THEN "proxy" ELSE "fallback", form |-> 1, warm |-> TRUE,
                 tries |-> 0, asked |-> IF env.keyed THEN {"proxy"} ELSE {},
                 primary |-> IF env.keyed THEN "none" ELSE "unconfigured", text |-> "none",
                 result |-> "none"]
<1>1. run' = r /\ env' = env /\ env \in Environments /\ env \in Environment
  BY ModelGatewayAssumption DEF Spawn, GatewayInv, ModelGatewayTypeOK
<1>2. r \in Run
  BY <1>1 DEF Run, Environment, Forms, Failures
<1>3. /\ r.at = "proxy" => env.keyed /\ r.form = 1 /\ r.tries = 0 /\ r.warm = TRUE
      /\ r.at = "fallback" => ~env.keyed
      /\ r.asked \cap Vendors = {}
  BY DEF Vendors
<1> HIDE DEF r
<1>4. r.at = "proxy" => TriesCounted(r) /\ FormsRefused(r)
  BY <1>3 DEF TriesCounted, FormsRefused, Forms
<1> QED
  BY <1>1, <1>2, <1>3, <1>4
     DEF GatewayInv, AskingInv, ModelGatewayTypeOK, TriesCounted, FormsRefused, Serves

\* A step of a run that has left the proxy, or that ends there.
LEMMA GatewayInvStep ==
  ASSUME GatewayInv, run # NoRun, NEW r \in Run, run' = r, env' = env,
         r.at # "proxy",
         r.at = "fallback" => ~Serves,
         r.asked = run.asked \/ (~Serves /\ ~env.pinned)
  PROVE  GatewayInv'
  BY DEF GatewayInv, AskingInv, ModelGatewayTypeOK, Serves

LEMMA GatewayInvFails ==
  ASSUME GatewayInv, NEW failure \in Failures \ {"unconfigured"}, ProxyFails(failure)
  PROVE  GatewayInv'
<1>1. /\ run \in Run /\ run # NoRun /\ env' = env /\ env \in Environment /\ MayFail(run)
      /\ FormsRefused(run) /\ run' = LeaveProxy(run, failure)
  BY ModelGatewayAssumption DEF GatewayInv, AskingInv, ModelGatewayTypeOK, ProxyFails
<1>2. ~Serves
  BY <1>1, FailingServesNot
<1>3. /\ LeaveProxy(run, failure) \in Run
      /\ LeaveProxy(run, failure).at = "fallback"
      /\ LeaveProxy(run, failure).asked = run.asked
  BY <1>1, LeaveProxyFields
<1> QED
  BY <1>1, <1>2, <1>3, GatewayInvStep

LEMMA GatewayInvVendor ==
  ASSUME GatewayInv, VendorFails \/ \E text \in Texts : VendorAnswers(text)
  PROVE  GatewayInv'
<1>1. run \in Run /\ run # NoRun /\ env' = env /\ run.at = "fallback" /\ NextVendor(run) # {}
  BY DEF GatewayInv, ModelGatewayTypeOK, VendorFails, VendorAnswers
<1>2. ~Serves /\ ~env.pinned /\ NextVendor(run) \subseteq Vendors
  BY <1>1, NextVendorAsked DEF GatewayInv, AskingInv
<1>3. run.asked \cup NextVendor(run) \subseteq Vendors \cup {"proxy"}
  BY <1>1, <1>2, RunFields
<1>4. PICK a \in SUBSET (Vendors \cup {"proxy"}) : a = run.asked \cup NextVendor(run)
  BY <1>3
<1>5. run' \in Run /\ run'.at \in {"answered", "fallback"}
  <2>1. CASE VendorFails
    BY <1>1, <1>4, <2>1 DEF VendorFails, Run
  <2>2. ASSUME NEW text \in Texts, VendorAnswers(text) PROVE run' \in Run /\ run'.at = "answered"
    BY <1>1, <1>4, <2>2 DEF VendorAnswers, Run
  <2> QED
    BY <2>1, <2>2
<1> QED
  BY <1>1, <1>2, <1>5, GatewayInvStep

\* An answer, its conclusion, and the end of a run, however it came.
LEMMA GatewayInvEnds ==
  ASSUME GatewayInv, GiveUp \/ Conclude \/ KillRun \/ \E text \in Texts : ProxyAnswers(text)
  PROVE  GatewayInv'
<1>1. run \in Run /\ run # NoRun /\ env' = env
  BY DEF GatewayInv, ModelGatewayTypeOK, GiveUp, Conclude, KillRun, ProxyAnswers
<1>2. run' \in Run /\ run'.at \in {"over", "answered"} /\ run'.asked = run.asked
  <2>1. ASSUME NEW r \in Outcomes PROVE [run EXCEPT !.at = "over", !.result = r] \in Run
    BY <1>1 DEF Run
  <2>2. ASSUME NEW x PROVE /\ [run EXCEPT !.at = "over", !.result = x].at = "over"
                           /\ [run EXCEPT !.at = "over", !.result = x].asked = run.asked
    BY <1>1 DEF Run
  <2>3. CASE GiveUp
    <3>1. (IF run.op = "probe" THEN Classified(run.primary) ELSE "failed") \in Outcomes
      BY DEF Classified, Outcomes
    <3> QED
      BY <2>1, <2>2, <2>3, <3>1 DEF GiveUp
  <2>4. CASE Conclude
    <3>1. PICK x \in Outcomes : run' = [run EXCEPT !.at = "over", !.result = x]
      BY <2>4 DEF Conclude, Outcomes
    <3> QED
      BY <2>1, <2>2, <3>1
  <2>5. CASE KillRun
    <3>1. (IF run.op = "probe" THEN "gateway_unreachable" ELSE "failed") \in Outcomes
      BY DEF Outcomes
    <3> QED
      BY <2>1, <2>2, <2>5, <3>1 DEF KillRun
  <2>6. ASSUME NEW text \in Texts, ProxyAnswers(text)
        PROVE  run' \in Run /\ run'.at = "answered" /\ run'.asked = run.asked
    BY <1>1, <2>6 DEF ProxyAnswers, Run
  <2> QED
    BY <2>3, <2>4, <2>5, <2>6
<1> QED
  BY <1>1, <1>2, GatewayInvStep

LEMMA GatewayInvNext == GatewayInv /\ [ModelGatewayNext]_gvars => GatewayInv'
<1> SUFFICES ASSUME GatewayInv, [ModelGatewayNext]_gvars PROVE GatewayInv'
  OBVIOUS
<1>1. CASE Reap
  BY <1>1 DEF Reap, GatewayInv, AskingInv, ModelGatewayTypeOK
<1>2. CASE UNCHANGED gvars
  BY <1>2 DEF gvars, GatewayInv, AskingInv, ModelGatewayTypeOK, TriesCounted, FormsRefused, Serves
<1> QED
  BY <1>1, <1>2, GatewayInvSpawn, GatewayInvObjects, GatewayInvFails, GatewayInvVendor,
     GatewayInvEnds DEF ModelGatewayNext

\* A prompt goes to a vendor only when the proxy has nothing to offer and the alias is not a local
\* one, whatever the keys, the model and its objections: six attempts are always enough.
THEOREM GatewayVendorOnlyAsFallback == ModelGatewaySpec => []VendorOnlyAsFallback
<1>1. GatewayInv => VendorOnlyAsFallback
  BY DEF GatewayInv, AskingInv, VendorOnlyAsFallback
<1> QED
  BY <1>1, GatewayInvInit, GatewayInvNext, PTL DEF ModelGatewaySpec

=============================================================================
