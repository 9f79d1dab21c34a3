----------------------------- MODULE Publication -----------------------------
(***************************************************************************)
(* What leaves the platform about a release: the assurance record authors  *)
(* keep for it (demo/assurance.js) and the reviewed publication of its     *)
(* files to GitHub (demo/github-publisher.js, demo/archive.js).            *)
(*                                                                         *)
(* Authors read the record and save it later; the owner reviews a preview, *)
(* a plan, and confirms it later.  A confirmed publication is a series of  *)
(* requests, and everything else may happen between two of them, a second  *)
(* confirmation of the same plan included.  A digest stands for what it is *)
(* taken of.  The facts of a record that are not its author's (documents,  *)
(* notes, the binding) only make a fingerprint change more often and are   *)
(* left out.                                                               *)
(***************************************************************************)
EXTENDS Integers, FiniteSets

CONSTANTS
  Authors,        \* authors of evidence: people or agents
  Plans,          \* ids of publication plans, which are never used again
  Unset,
  LastRelease,    \* bounds release numbers
  LastRevision,   \* bounds the revisions of the record
  MaxPlans        \* 50 in the code

VARIABLES
  released,   \* the number of the release, 0 before the first
  record,     \* the authored part of the assurance record
  views,      \* what each author read last
  plans,      \* the publisher's plans
  flights,    \* confirmed publications under way and the request each has come to
  branches    \* external: the plans whose branch exists

pvars == <<released, record, views, plans, flights, branches>>
evidence == <<record, views>>
publisher == <<plans, flights, branches>>

Numbers == 0..LastRelease
\* saw: history, the release the author had before them.
Record == [revision : 0..LastRevision, release : Numbers, saw : Numbers]
\* What fingerprint digests, and the files are made from: the release and its record.
Content == [release : Numbers, record : Record]
\* listed: still in the publisher's map; confirmed: history, what there was to publish.
Plan == [state : {"prepared", "publishing", "published", "failed"}, content : Content,
         listed : BOOLEAN, expired : BOOLEAN, token : BOOLEAN, times : 0..2,
         confirmed : Content \cup {Unset}]
\* The repository is asked for, then a tree, a commit and a ref are made; 5: all is done.
Flight == [plan : Plans, nth : 1..2, at : 1..5]

ASSUME PublicationAssumption ==
  /\ Unset \notin Plan /\ LastRelease \in Nat \ {0} /\ LastRevision \in Nat \ {0}
  /\ MaxPlans \in Nat \ {0}

PublicationTypeOK ==
  /\ released \in Numbers /\ record \in Record
  /\ views \in [Authors -> [revision : 0..LastRevision, release : Numbers]]
  /\ plans \in [Plans -> Plan \cup {Unset}]
  /\ flights \subseteq Flight /\ branches \subseteq Plans

PublicationInit ==
  /\ released = 0
  /\ record = [revision |-> 0, release |-> 0, saw |-> 0]
  /\ views = [a \in Authors |-> [revision |-> 0, release |-> 0]]
  /\ plans = [p \in Plans |-> Unset]
  /\ flights = {} /\ branches = {}

-----------------------------------------------------------------------------
(* The record *)

PublishRelease ==
  /\ released < LastRelease
  /\ released' = released + 1
  /\ UNCHANGED <<evidence, publisher>>

ReadRecord(a) ==
  /\ views' = [views EXCEPT ![a] = [revision |-> record.revision, release |-> released]]
  /\ UNCHANGED <<released, record, publisher>>

\* Mutant: the record is filed under the release of now, whichever the author saw.
SaveUnderNow(a) ==
  /\ record.revision < LastRevision
  /\ views[a].revision = record.revision
  /\ record' = [revision |-> record.revision + 1, release |-> released, saw |-> views[a].release]
  /\ UNCHANGED <<released, views, publisher>>

\* Only against the revision and the release the author names; anything else is a 409.
SaveAssurance(a) ==
  /\ record.revision < LastRevision
  /\ views[a].revision = record.revision /\ views[a].release = released
  /\ record' = [revision |-> record.revision + 1, release |-> views[a].release, saw |-> views[a].release]
  /\ UNCHANGED <<released, views, publisher>>

Current == [release |-> released, record |-> record]
Stale(content) == content.record.revision > 0 /\ content.record.release # content.release

-----------------------------------------------------------------------------
(* The publisher *)

Listed == {p \in Plans : plans[p] # Unset /\ plans[p].listed /\ ~plans[p].expired}

\* Expired plans leave the map; one that is being published goes on without it.
Dropped(plan) == IF plan # Unset /\ plan.expired THEN [plan EXCEPT !.listed = FALSE] ELSE plan

Prepare(p) ==
  /\ plans[p] = Unset
  /\ released > 0 /\ Cardinality(Listed) < MaxPlans
  /\ plans' = [q \in Plans |->
       IF q # p THEN Dropped(plans[q])
       ELSE [state |-> "prepared", content |-> Current, listed |-> TRUE, expired |-> FALSE,
             token |-> TRUE, times |-> 0, confirmed |-> Unset]]
  /\ UNCHANGED <<released, evidence, flights, branches>>

\* Five minutes pass.
PlanExpires(p) ==
  /\ p \in Listed
  /\ plans' = [plans EXCEPT ![p].expired = TRUE]
  /\ UNCHANGED <<released, evidence, flights, branches>>

Confirmable(p) == p \in Listed /\ plans[p].state = "prepared"

TakeOff(p, state) ==
  /\ plans' = [plans EXCEPT ![p].state = state, ![p].times = @ + 1, ![p].confirmed = Current]
  /\ flights' = flights \cup {[plan |-> p, nth |-> plans[p].times + 1, at |-> 1]}
  /\ UNCHANGED <<released, evidence, branches>>

\* Mutant: the plan is marked only when its requests have been answered.
ConfirmUnmarked(p) ==
  /\ Confirmable(p) /\ plans[p].times < 2
  /\ plans[p].content = Current
  /\ TakeOff(p, "prepared")

\* Up to the first request: what was reviewed must be what there is.
Confirm(p) ==
  /\ Confirmable(p)
  /\ plans[p].content = Current
  /\ TakeOff(p, "publishing")

Advance(f) == flights' = (flights \ {f}) \cup {[f EXCEPT !.at = @ + 1]}

\* A request that is answered; without a token none is.
Request(f) ==
  /\ f.at < 4 /\ plans[f.plan].token
  /\ Advance(f)
  /\ UNCHANGED <<released, evidence, plans, branches>>

\* The ref is made; a branch is not made twice.
MakeRef(f) ==
  /\ f.at = 4 /\ plans[f.plan].token /\ f.plan \notin branches
  /\ branches' = branches \cup {f.plan}
  /\ Advance(f)
  /\ UNCHANGED <<released, evidence, plans>>

\* The token is dropped, win or lose.
Landed(f, state) ==
  /\ plans' = [plans EXCEPT ![f.plan].state = state, ![f.plan].token = FALSE]
  /\ flights' = flights \ {f}
  /\ UNCHANGED <<released, evidence, branches>>

Published(f) == f.at = 5 /\ Landed(f, "published")

\* A request fails, times out, or its answer is lost; what GitHub has made stays.
FlightFails(f) == Landed(f, "failed")

\* The server ends: plans live in its memory only.
PublisherEnds ==
  /\ \E p \in Plans : plans[p] # Unset /\ plans[p].listed
  /\ plans' = [p \in Plans |-> IF plans[p] = Unset THEN Unset
                               ELSE [plans[p] EXCEPT !.listed = FALSE, !.token = FALSE]]
  /\ flights' = {}
  /\ UNCHANGED <<released, evidence, branches>>

-----------------------------------------------------------------------------
PublicationNext ==
  \/ PublishRelease \/ PublisherEnds
  \/ \E a \in Authors : ReadRecord(a) \/ SaveAssurance(a)
  \/ \E p \in Plans : Prepare(p) \/ PlanExpires(p) \/ Confirm(p)
  \/ \E f \in flights : Request(f) \/ MakeRef(f) \/ Published(f) \/ FlightFails(f)

PublicationSpec == PublicationInit /\ [][PublicationNext]_pvars

-----------------------------------------------------------------------------
(* Properties *)

\* However often and however late it is confirmed, a plan is carried out once: nothing
\* changes the outcome it had, and a published one has its branch.
PlanSettlesOnce ==
  [][\A p \in Plans :
       plans[p] # Unset /\ plans[p].state \in {"published", "failed"}
         => /\ plans'[p].state = plans[p].state
            /\ plans[p].state = "published" => p \in branches]_pvars

\* A branch holds what was reviewed and was still so when it was confirmed, and the evidence
\* in it that is not called stale was written by someone who had its release before them.
PublishedAsReviewed ==
  \A p \in branches :
    LET reviewed == plans[p].content IN
    /\ plans[p].confirmed = reviewed
    /\ ~Stale(reviewed) => reviewed.record.saw = reviewed.release \/ reviewed.record.revision = 0
=============================================================================
