---------------------------- MODULE ModelGateway ----------------------------
(***************************************************************************)
(* One run of the authoring adapter (adapters/authoring): the request to   *)
(* the LiteLLM proxy, adapted to what the model behind the alias objects   *)
(* to, the direct vendors as a fallback, and what the control plane makes  *)
(* of the reply (demo/authoring-adapter.js, src/adapters.js).              *)
(*                                                                         *)
(* Texts are classes of texts.  The proxy answers what the model behind it *)
(* takes, or complains of what it does not take; a proxy that is not sound *)
(* does whatever it likes.                                                 *)
(***************************************************************************)
EXTENDS Integers, FiniteSets

CONSTANTS
  NoRun,
  Environments   \* bounds the environments and models a behaviour may have

Forms == 1..3        \* THINKING_FORMS: disabled, between_tools, no word about it
Vendors == {"anthropic", "openai"}
Objections == {"temperature", "thinking"}

\* keyed, direct: the keys in the environment; pinned: the alias is a local-* one;
\* takes, warm, sound: the forms the model takes, whether it takes a temperature, and whether
\* the proxy does what it should.
Environment == [keyed : BOOLEAN, pinned : BOOLEAN, direct : SUBSET Vendors,
                takes : SUBSET Forms, warm : BOOLEAN, sound : BOOLEAN]

ASSUME ModelGatewayAssumption == Environments \subseteq Environment /\ Environments # {}

VARIABLES
  env,     \* the environment and the model of this behaviour
  run      \* the adapter process

gvars == <<env, run>>

Operation == {"probe", "generate"}
\* What may be wrong with a completion: the markers, the paths, or what only the host checks.
Texts == {"good", "unparsed", "unwritable", "unfit"}
\* Errors of the proxy that authoringStatus tells apart.
Failures == {"unconfigured", "credential", "other"}
Outcomes == {"accepted", "ready", "rejected", "failed", "credential_missing", "gateway_unreachable"}

\* asked: history, who was sent the prompt; at "over", result is what the host was told.
Run == [op : Operation, at : {"proxy", "fallback", "answered", "over"}, form : Forms, warm : BOOLEAN,
        tries : 0..6, asked : SUBSET (Vendors \cup {"proxy"}), primary : Failures \cup {"none"},
        text : Texts \cup {"none"}, result : Outcomes \cup {"none"}]

ModelGatewayTypeOK == env \in Environments /\ run \in Run \cup {NoRun}

ModelGatewayInit == env \in Environments /\ run = NoRun

-----------------------------------------------------------------------------
(* The proxy *)

MaxTries == 6

\* Without a key the proxy is not asked at all.
Spawn(op) ==
  /\ run = NoRun
  /\ run' = [op |-> op, at |-> IF env.keyed THEN "proxy" ELSE "fallback", form |-> 1, warm |-> TRUE,
             tries |-> 0, asked |-> IF env.keyed THEN {"proxy"} ELSE {},
             primary |-> IF env.keyed THEN "none" ELSE "unconfigured", text |-> "none", result |-> "none"]
  /\ UNCHANGED env

\* What the model does not take of the request.
Wrong(r) ==
  (IF r.warm /\ ~env.warm THEN {"temperature"} ELSE {})
    \cup (IF r.form \notin env.takes THEN {"thinking"} ELSE {})

\* A 400 mentions something that is wrong, and perhaps something that is not.
MayObject(r, words) == IF env.sound THEN words \cap Wrong(r) # {} ELSE words \subseteq Objections

\* Left without a word about thinking, a model may think until its budget is spent.
MayFail(r) == ~env.sound \/ (Wrong(r) = {} /\ r.form = 3)

LeaveProxy(r, failure) == [r EXCEPT !.at = "fallback", !.primary = failure]

\* Mutant of Adapted: whichever objection, the next form of thinking is tried.
AdaptedThinking(r, words) ==
  IF words # {} /\ r.form < 3 THEN [r EXCEPT !.form = @ + 1, !.tries = @ + 1] ELSE LeaveProxy(r, "other")

\* The next request: without a temperature, or with the next form of thinking.
Adapted(r, words) ==
  IF "temperature" \in words /\ r.warm THEN [r EXCEPT !.warm = FALSE, !.tries = @ + 1]
  ELSE IF "thinking" \in words /\ r.form < 3 THEN [r EXCEPT !.form = @ + 1, !.tries = @ + 1]
  ELSE LeaveProxy(r, "other")

ProxyObjects(words) ==
  /\ run # NoRun /\ run.at = "proxy" /\ MayObject(run, words)
  /\ run' = LET next == Adapted(run, words)
            IN  IF next.tries = MaxTries THEN LeaveProxy(next, "other") ELSE next
  /\ UNCHANGED env

ProxyAnswers(text) ==
  /\ run # NoRun /\ run.at = "proxy" /\ (env.sound => Wrong(run) = {})
  /\ run' = [run EXCEPT !.at = "answered", !.text = text]
  /\ UNCHANGED env

\* Not reached, a refusal, an error, an answer without content.
ProxyFails(failure) ==
  /\ run # NoRun /\ run.at = "proxy" /\ MayFail(run)
  /\ run' = LeaveProxy(run, failure)
  /\ UNCHANGED env

-----------------------------------------------------------------------------
(* The vendors *)

\* A local-* alias asks for no egress.
DirectKeys == IF env.pinned THEN {} ELSE env.direct

\* Anthropic, then OpenAI.
NextVendor(r) ==
  IF "anthropic" \in DirectKeys /\ "anthropic" \notin r.asked THEN {"anthropic"}
  ELSE IF "openai" \in DirectKeys /\ "openai" \notin r.asked THEN {"openai"} ELSE {}

VendorAnswers(text) ==
  /\ run # NoRun /\ run.at = "fallback" /\ NextVendor(run) # {}
  /\ run' = [run EXCEPT !.at = "answered", !.text = text, !.asked = @ \cup NextVendor(run)]
  /\ UNCHANGED env

VendorFails ==
  /\ run # NoRun /\ run.at = "fallback" /\ NextVendor(run) # {}
  /\ run' = [run EXCEPT !.asked = @ \cup NextVendor(run)]
  /\ UNCHANGED env

-----------------------------------------------------------------------------
(* The reply, and what the host makes of it *)

\* authoringStatus: the word credential, 401 or 403 in the message.
Classified(failure) == IF failure = "credential" THEN "credential_missing" ELSE "gateway_unreachable"

\* Everybody has failed: the proxy's failure is what is reported.
GiveUp ==
  /\ run # NoRun /\ run.at = "fallback" /\ NextVendor(run) = {}
  /\ run' = [run EXCEPT !.at = "over",
               !.result = IF run.op = "probe" THEN Classified(run.primary) ELSE "failed"]
  /\ UNCHANGED env

\* Markers of a concrete kind and of at least one file, outside any file.
Parsed(text) == text # "unparsed"
\* Every path can be written where it belongs.
Scaffolded(text) == text # "unwritable"
\* validateAuthoringOutput: a kind of the platform, a rationale that is not too long.
Fits(text) == text # "unfit"

\* What is wrong with a text, in the adapter or at the host, is told apart from a failure:
\* another attempt is worth it.
Conclude ==
  /\ run # NoRun /\ run.at = "answered"
  /\ LET fine == Parsed(run.text) /\ Scaffolded(run.text) /\ Fits(run.text)
     IN  run' = [run EXCEPT !.at = "over",
                   !.result = IF run.op = "probe" THEN "ready" ELSE IF fine THEN "accepted" ELSE "rejected"]
  /\ UNCHANGED env

\* The deadline, a stop, a crash, too long an output, or one that validateResult refuses.
KillRun ==
  /\ run # NoRun /\ run.at # "over"
  /\ run' = [run EXCEPT !.at = "over", !.result = IF run.op = "probe" THEN "gateway_unreachable" ELSE "failed"]
  /\ UNCHANGED env

\* Another attempt, with nothing remembered of this one.
Reap ==
  /\ run # NoRun /\ run.at = "over"
  /\ run' = NoRun
  /\ UNCHANGED env

-----------------------------------------------------------------------------
ModelGatewayNext ==
  \/ \E op \in Operation : Spawn(op)
  \/ \E words \in SUBSET Objections : ProxyObjects(words)
  \/ \E text \in Texts : ProxyAnswers(text) \/ VendorAnswers(text)
  \/ \E failure \in Failures \ {"unconfigured"} : ProxyFails(failure)
  \/ VendorFails \/ GiveUp \/ Conclude \/ KillRun \/ Reap

ModelGatewaySpec == ModelGatewayInit /\ [][ModelGatewayNext]_gvars

-----------------------------------------------------------------------------
(* Properties *)

\* The proxy answers in some form that switches thinking off.
Serves == env.keyed /\ env.sound /\ env.takes \cap {1, 2} # {}

\* A prompt goes to a vendor only when the proxy has nothing to offer, whatever the model
\* behind it objects to and in whatever words, and never when the alias is a local one.
VendorOnlyAsFallback ==
  run # NoRun /\ run.asked \cap Vendors # {} => ~env.pinned /\ ~Serves
=============================================================================
