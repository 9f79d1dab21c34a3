------------------------- MODULE Publication_proofs -------------------------
(***************************************************************************)
(* Theorems about the assurance record and its publication, for any        *)
(* authors, plans and bounds.                                              *)
(***************************************************************************)
EXTENDS Publication, TLAPS

(* A plan is confirmed while it is prepared and settles once.

   Both properties are about plans; what makes them true is about the flights: one
   exists only for a plan that is being published, no plan has two, and the last stretch
   of a flight is reached by making the branch.                                        *)

\* What was authored was authored by someone who had seen that release.
SeenBefore(r) == r.revision > 0 => r.saw = r.release

PlansFounded ==
  \A p \in Plans : plans[p] # Unset =>
    /\ SeenBefore(plans[p].content.record)
    /\ plans[p].state = "prepared" => plans[p].times = 0
    /\ plans[p].state # "prepared" => plans[p].confirmed = plans[p].content
    /\ plans[p].state = "published" => p \in branches

BranchesFounded == \A p \in branches : plans[p] # Unset /\ plans[p].state # "prepared"

FlightsFounded ==
  \A f \in flights :
    /\ plans[f.plan] # Unset /\ plans[f.plan].state = "publishing"
    /\ f.at = 5 => f.plan \in branches
    /\ \A g \in flights : g.plan = f.plan => g = f

PublicationInv ==
  PublicationTypeOK /\ SeenBefore(record) /\ PlansFounded /\ BranchesFounded /\ FlightsFounded

\* What happens to a plan leaves a plan.
LEMMA PlanKept ==
  ASSUME NEW plan \in Plan, NEW c \in Content
  PROVE  /\ plan # Unset
         /\ [plan EXCEPT !.listed = FALSE] \in Plan
         /\ [plan EXCEPT !.expired = TRUE] \in Plan
         /\ [plan EXCEPT !.listed = FALSE, !.token = FALSE] \in Plan
         /\ [plan EXCEPT !.state = "published", !.token = FALSE] \in Plan
         /\ [plan EXCEPT !.state = "failed", !.token = FALSE] \in Plan
         /\ [plan EXCEPT !.state = "publishing", !.times = 1, !.confirmed = c] \in Plan
<1>1. plan # Unset
  BY PublicationAssumption
<1>2. [plan EXCEPT !.listed = FALSE] \in Plan /\ [plan EXCEPT !.expired = TRUE] \in Plan
  BY DEF Plan
<1>3. [plan EXCEPT !.listed = FALSE, !.token = FALSE] \in Plan
  BY DEF Plan
<1>4. [plan EXCEPT !.state = "published", !.token = FALSE] \in Plan
  BY DEF Plan
<1>5. [plan EXCEPT !.state = "failed", !.token = FALSE] \in Plan
  BY DEF Plan
<1>6. [plan EXCEPT !.state = "publishing", !.times = 1, !.confirmed = c] \in Plan
  <2>1. \A k \in 0..2 : [plan EXCEPT !.state = "publishing", !.times = k] \in Plan
    BY DEF Plan
  <2>2. \A m \in Plan : [m EXCEPT !.confirmed = c] \in Plan
    BY DEF Plan
  <2>3. [plan EXCEPT !.state = "publishing", !.times = 1, !.confirmed = c]
          = [[plan EXCEPT !.state = "publishing", !.times = 1] EXCEPT !.confirmed = c]
    BY DEF Plan
  <2> QED
    BY <2>1, <2>2, <2>3, 1 \in 0..2
<1> QED
  BY <1>1, <1>2, <1>3, <1>4, <1>5, <1>6

LEMMA PublicationInvInit == PublicationInit => PublicationInv
  BY PublicationAssumption
     DEF PublicationInit, PublicationInv, PublicationTypeOK, Numbers, Record, SeenBefore,
         PlansFounded, BranchesFounded, FlightsFounded

LEMMA PublicationInvRecord ==
  ASSUME PublicationInv,
         PublishRelease \/ \E a \in Authors : ReadRecord(a) \/ SaveAssurance(a)
  PROVE  PublicationInv'
<1>1. UNCHANGED publisher
  BY DEF PublishRelease, ReadRecord, SaveAssurance
<1>2. PlansFounded' /\ BranchesFounded' /\ FlightsFounded'
  BY <1>1 DEF publisher, PublicationInv, PlansFounded, BranchesFounded, FlightsFounded, SeenBefore
<1>3. PublicationTypeOK' /\ SeenBefore(record)'
  <2>1. CASE PublishRelease
    BY <1>1, <2>1, PublicationAssumption
       DEF PublishRelease, publisher, evidence, PublicationInv, PublicationTypeOK, Numbers, SeenBefore
  <2>2. ASSUME NEW a \in Authors, ReadRecord(a) PROVE PublicationTypeOK' /\ SeenBefore(record)'
    <3>1. views' \in [Authors -> [revision : 0..LastRevision, release : Numbers]]
      BY <2>2 DEF ReadRecord, PublicationInv, PublicationTypeOK, Record
    <3> QED
      BY <1>1, <2>2, <3>1 DEF ReadRecord, publisher, PublicationInv, PublicationTypeOK, SeenBefore
  <2>3. ASSUME NEW a \in Authors, SaveAssurance(a) PROVE PublicationTypeOK' /\ SeenBefore(record)'
    <3>1. views[a].release \in Numbers
      BY DEF PublicationInv, PublicationTypeOK
    <3>2. record.revision + 1 \in 0..LastRevision
      BY <2>3, PublicationAssumption DEF SaveAssurance, PublicationInv, PublicationTypeOK, Record
    <3>3. record' \in Record /\ record'.saw = record'.release
      BY <2>3, <3>1, <3>2 DEF SaveAssurance, Record
    <3> QED
      BY <1>1, <2>3, <3>3 DEF SaveAssurance, publisher, PublicationInv, PublicationTypeOK, SeenBefore
  <2> QED
    BY <2>1, <2>2, <2>3
<1> QED
  BY <1>2, <1>3 DEF PublicationInv

\* A plan that only leaves the map, or grows old, is as it was.
LEMMA PublicationInvFades ==
  ASSUME PublicationInv, UNCHANGED <<released, evidence, branches>>, flights' \subseteq flights,
         plans' \in [Plans -> Plan \cup {Unset}],
         \A q \in Plans : /\ plans[q] = Unset <=> plans'[q] = Unset
                          /\ plans[q] # Unset => /\ plans'[q].state = plans[q].state
                                                 /\ plans'[q].content = plans[q].content
                                                 /\ plans'[q].times = plans[q].times
                                                 /\ plans'[q].confirmed = plans[q].confirmed
  PROVE  PublicationInv'
<1>1. PublicationTypeOK' /\ SeenBefore(record)'
  BY DEF evidence, PublicationInv, PublicationTypeOK, SeenBefore
<1>2. PlansFounded'
  BY DEF PublicationInv, PlansFounded, SeenBefore
<1>3. BranchesFounded'
  BY DEF PublicationInv, PublicationTypeOK, BranchesFounded
<1>4. FlightsFounded'
  BY DEF PublicationInv, PublicationTypeOK, FlightsFounded, Flight
<1> QED
  BY <1>1, <1>2, <1>3, <1>4 DEF PublicationInv

LEMMA PublicationInvPrepare ==
  ASSUME PublicationInv, NEW p \in Plans, Prepare(p)
  PROVE  PublicationInv'
<1> DEFINE n == [state |-> "prepared", content |-> Current, listed |-> TRUE, expired |-> FALSE,
                 token |-> TRUE, times |-> 0, confirmed |-> Unset]
<1>1. /\ plans \in [Plans -> Plan \cup {Unset}] /\ plans[p] = Unset
      /\ UNCHANGED <<released, evidence, flights, branches>>
      /\ plans' = [q \in Plans |-> IF q # p THEN Dropped(plans[q]) ELSE n]
  BY DEF Prepare, PublicationInv, PublicationTypeOK
<1>2. n \in Plan /\ n # Unset
  <2>1. Current \in Content
    BY DEF Current, Content, PublicationInv, PublicationTypeOK
  <2> QED
    <3>1. n \in Plan
      BY <2>1 DEF Plan
    <3> QED
      BY <3>1, PublicationAssumption
<1>3. \A q \in Plans : q # p =>
        /\ plans[q] = Unset <=> Dropped(plans[q]) = Unset
        /\ Dropped(plans[q]) \in Plan \cup {Unset}
        /\ plans[q] # Unset => /\ Dropped(plans[q]).state = plans[q].state
                               /\ Dropped(plans[q]).content = plans[q].content
                               /\ Dropped(plans[q]).times = plans[q].times
                               /\ Dropped(plans[q]).confirmed = plans[q].confirmed
  <2> SUFFICES ASSUME NEW q \in Plans, plans[q] # Unset, plans[q].expired
               PROVE  LET d == [plans[q] EXCEPT !.listed = FALSE] IN
                      /\ d \in Plan /\ d # Unset
                      /\ d.state = plans[q].state /\ d.content = plans[q].content
                      /\ d.times = plans[q].times /\ d.confirmed = plans[q].confirmed
    BY <1>1 DEF Dropped
  <2>1. plans[q] \in Plan /\ Current \in Content
    BY <1>1 DEF Current, Content, PublicationInv, PublicationTypeOK
  <2>2. [plans[q] EXCEPT !.listed = FALSE] \in Plan
    BY <2>1, PlanKept
  <2> QED
    BY <2>1, <2>2, PublicationAssumption DEF Plan
<1>4. n.state = "prepared" /\ n.times = 0 /\ SeenBefore(n.content.record)
  BY DEF Current, PublicationInv
<1> HIDE DEF n
<1>5. \A q \in Plans : plans'[q] = IF q # p THEN Dropped(plans[q]) ELSE n
  BY <1>1
<1>6. PublicationTypeOK' /\ SeenBefore(record)'
  BY <1>1, <1>2, <1>3 DEF evidence, PublicationInv, PublicationTypeOK, SeenBefore
<1>7. PlansFounded'
  <2> SUFFICES ASSUME NEW q \in Plans, plans'[q] # Unset
               PROVE  /\ SeenBefore(plans'[q].content.record)
                      /\ plans'[q].state = "prepared" => plans'[q].times = 0
                      /\ plans'[q].state # "prepared" => plans'[q].confirmed = plans'[q].content
                      /\ plans'[q].state = "published" => q \in branches'
    BY DEF PlansFounded, SeenBefore
  <2>1. CASE q = p
    BY <1>4, <1>5, <2>1
  <2>2. CASE q # p
    BY <1>1, <1>3, <1>5, <2>2 DEF PublicationInv, PlansFounded
  <2> QED
    BY <2>1, <2>2
<1>8. BranchesFounded'
  BY <1>1, <1>3, <1>5 DEF PublicationInv, PublicationTypeOK, BranchesFounded
<1>9. FlightsFounded'
  <2>1. \A f \in flights : f.plan \in Plans /\ f.plan # p
    BY <1>1 DEF PublicationInv, PublicationTypeOK, FlightsFounded, Flight
  <2> QED
    BY <1>1, <1>3, <1>5, <2>1 DEF PublicationInv, FlightsFounded
<1> QED
  BY <1>6, <1>7, <1>8, <1>9 DEF PublicationInv

LEMMA PublicationInvConfirm ==
  ASSUME PublicationInv, NEW p \in Plans, Confirm(p)
  PROVE  PublicationInv'
<1> DEFINE g == [plan |-> p, nth |-> plans[p].times + 1, at |-> 1]
           n == [plans[p] EXCEPT !.state = "publishing", !.times = 1, !.confirmed = Current]
<1>1. /\ plans \in [Plans -> Plan \cup {Unset}] /\ plans[p] # Unset /\ plans[p] \in Plan
      /\ plans[p].state = "prepared" /\ plans[p].content = Current /\ plans[p].times = 0
      /\ UNCHANGED <<released, evidence, branches>>
      /\ plans' = [plans EXCEPT ![p] = n] /\ flights' = flights \cup {g}
  <2>1. /\ plans \in [Plans -> Plan \cup {Unset}] /\ plans[p] # Unset /\ plans[p] \in Plan
        /\ plans[p].state = "prepared" /\ plans[p].content = Current
    BY DEF Confirm, Confirmable, Listed, PublicationInv, PublicationTypeOK
  <2>2. plans[p].times = 0
    BY <2>1 DEF PublicationInv, PlansFounded
  <2>3. n = [plans[p] EXCEPT !.state = "publishing", !.times = @ + 1, !.confirmed = Current]
    BY <2>2
  <2> HIDE DEF n
  <2> QED
    BY <2>1, <2>2, <2>3 DEF Confirm, TakeOff
<1>2. n \in Plan
  <2>1. Current \in Content
    BY DEF Current, Content, PublicationInv, PublicationTypeOK
  <2> QED
    BY <1>1, <2>1, PlanKept
<1>3. n # Unset /\ n.state = "publishing" /\ n.content = plans[p].content /\ n.confirmed = n.content
  BY <1>1, <1>2, PublicationAssumption DEF Plan
<1>4. g \in Flight /\ g.plan = p /\ g.at = 1
  BY <1>1 DEF Flight
<1> HIDE DEF g, n
<1>5. \A q \in Plans : plans'[q] = IF q = p THEN n ELSE plans[q]
  BY <1>1
<1>6. PublicationTypeOK' /\ SeenBefore(record)'
  BY <1>1, <1>2, <1>4 DEF evidence, PublicationInv, PublicationTypeOK, SeenBefore
<1>7. PlansFounded'
  BY <1>1, <1>3, <1>5 DEF PublicationInv, PlansFounded, SeenBefore
<1>8. BranchesFounded'
  BY <1>1, <1>3, <1>5 DEF PublicationInv, PublicationTypeOK, BranchesFounded
<1>9. FlightsFounded'
  <2>1. \A f \in flights : f.plan \in Plans /\ f.plan # p
    BY <1>1 DEF PublicationInv, PublicationTypeOK, FlightsFounded, Flight
  <2> QED
    BY <1>1, <1>3, <1>4, <1>5, <2>1 DEF PublicationInv, FlightsFounded
<1> QED
  BY <1>6, <1>7, <1>8, <1>9 DEF PublicationInv

LEMMA PublicationInvAdvance ==
  ASSUME PublicationInv, NEW f \in flights, Request(f) \/ MakeRef(f)
  PROVE  PublicationInv'
<1> DEFINE g == [f EXCEPT !.at = @ + 1]
<1>1. /\ UNCHANGED <<released, evidence, plans>> /\ f \in Flight /\ f.at < 5
      /\ flights' = (flights \ {f}) \cup {g}
      /\ branches \subseteq branches' /\ branches' \subseteq branches \cup {f.plan}
      /\ f.at = 4 => f.plan \in branches'
  BY DEF Request, MakeRef, Advance, PublicationInv, PublicationTypeOK, Flight
<1>2. g \in Flight /\ g.plan = f.plan /\ g.at = f.at + 1
  BY <1>1 DEF Flight
<1> HIDE DEF g
<1>3. f.plan \in Plans /\ f.at \in 1..5
  BY <1>1 DEF Flight
<1>4. PublicationTypeOK' /\ SeenBefore(record)'
  BY <1>1, <1>2, <1>3 DEF evidence, PublicationInv, PublicationTypeOK, SeenBefore
<1>5. PlansFounded' /\ BranchesFounded'
  BY <1>1 DEF PublicationInv, PlansFounded, BranchesFounded, FlightsFounded, SeenBefore
<1>6. FlightsFounded'
  BY <1>1, <1>2, <1>3 DEF PublicationInv, FlightsFounded
<1> QED
  BY <1>4, <1>5, <1>6 DEF PublicationInv

LEMMA PublicationInvLands ==
  ASSUME PublicationInv, NEW f \in flights, Published(f) \/ FlightFails(f)
  PROVE  PublicationInv'
<1>1. PICK state \in {"published", "failed"} :
        /\ Landed(f, state)
        /\ state = "published" => f.plan \in branches
  BY DEF Published, FlightFails, PublicationInv, FlightsFounded
<1> DEFINE p == f.plan
           n == [plans[p] EXCEPT !.state = state, !.token = FALSE]
<1>2. /\ plans \in [Plans -> Plan \cup {Unset}] /\ p \in Plans /\ plans[p] \in Plan
      /\ plans[p].state = "publishing"
      /\ UNCHANGED <<released, evidence, branches>>
      /\ plans' = [plans EXCEPT ![p] = n] /\ flights' = flights \ {f}
  BY <1>1 DEF Landed, PublicationInv, PublicationTypeOK, FlightsFounded, Flight
<1>3. /\ n \in Plan /\ n # Unset /\ n.state = state /\ n.content = plans[p].content
      /\ n.confirmed = plans[p].confirmed
  <2>1. Current \in Content
    BY DEF Current, Content, PublicationInv, PublicationTypeOK
  <2>2. n \in Plan
    BY <1>2, <2>1, PlanKept
  <2>3. n # Unset
    BY <2>2, PublicationAssumption
  <2> QED
    BY <1>2, <2>2, <2>3 DEF Plan
<1> HIDE DEF n
<1>4. \A q \in Plans : plans'[q] = IF q = p THEN n ELSE plans[q]
  BY <1>2
<1>5. PublicationTypeOK' /\ SeenBefore(record)'
  BY <1>2, <1>3 DEF evidence, PublicationInv, PublicationTypeOK, SeenBefore
<1>6. PlansFounded'
  BY <1>1, <1>2, <1>3, <1>4, PublicationAssumption DEF PublicationInv, PlansFounded, SeenBefore
<1>7. BranchesFounded'
  BY <1>1, <1>2, <1>3, <1>4 DEF PublicationInv, PublicationTypeOK, BranchesFounded
<1>8. FlightsFounded'
  BY <1>2, <1>4 DEF PublicationInv, PublicationTypeOK, FlightsFounded, Flight
<1> QED
  BY <1>5, <1>6, <1>7, <1>8 DEF PublicationInv

LEMMA PublicationInvNext == PublicationInv /\ [PublicationNext]_pvars => PublicationInv'
<1> SUFFICES ASSUME PublicationInv, [PublicationNext]_pvars PROVE PublicationInv'
  OBVIOUS
<1>1. plans \in [Plans -> Plan \cup {Unset}]
  BY DEF PublicationInv, PublicationTypeOK
<1>2. ASSUME NEW p \in Plans, PlanExpires(p) PROVE PublicationInv'
  <2>1. plans[p] # Unset /\ plans[p] \in Plan
    BY <1>1, <1>2 DEF PlanExpires, Listed
  <2>2. [plans[p] EXCEPT !.expired = TRUE] \in Plan
    BY <2>1 DEF Plan
  <2>3. plans' = [plans EXCEPT ![p] = [plans[p] EXCEPT !.expired = TRUE]]
    BY <1>2 DEF PlanExpires
  <2>4. plans' \in [Plans -> Plan \cup {Unset}]
    BY <1>1, <2>2, <2>3
  <2>5. [plans[p] EXCEPT !.expired = TRUE] # Unset
    BY <2>2, PublicationAssumption
  <2> QED
    BY <1>1, <1>2, <2>1, <2>3, <2>4, <2>5, PublicationInvFades DEF PlanExpires, Plan
<1>3. CASE PublisherEnds
  <2>1. \A p \in Plans : plans[p] # Unset =>
          /\ [plans[p] EXCEPT !.listed = FALSE, !.token = FALSE] \in Plan
          /\ [plans[p] EXCEPT !.listed = FALSE, !.token = FALSE] # Unset
    BY <1>1, PublicationAssumption DEF Plan
  <2> QED
    BY <1>1, <1>3, <2>1, PublicationInvFades DEF PublisherEnds, Plan
<1>4. CASE UNCHANGED pvars
  BY <1>1, <1>4, PublicationInvFades DEF pvars, evidence
<1> QED
  BY <1>2, <1>3, <1>4, PublicationInvRecord, PublicationInvPrepare, PublicationInvConfirm,
     PublicationInvAdvance, PublicationInvLands DEF PublicationNext

\* A branch holds what was reviewed and was still so when it was confirmed, and evidence that is
\* not called stale was written by someone who had its release before them.
THEOREM PublicationAsReviewed == PublicationSpec => []PublishedAsReviewed
<1>1. PublicationInv => PublishedAsReviewed
  <2> SUFFICES ASSUME PublicationInv, NEW p \in branches
               PROVE  LET reviewed == plans[p].content IN
                      /\ plans[p].confirmed = reviewed
                      /\ ~Stale(reviewed) => reviewed.record.saw = reviewed.release \/ reviewed.record.revision = 0
    BY DEF PublishedAsReviewed
  <2>1. p \in Plans /\ plans[p] # Unset /\ plans[p] \in Plan /\ plans[p].state # "prepared"
    BY DEF PublicationInv, PublicationTypeOK, BranchesFounded
  <2>2. plans[p].confirmed = plans[p].content /\ SeenBefore(plans[p].content.record)
    BY <2>1 DEF PublicationInv, PlansFounded
  <2>3. plans[p].content.record.revision \in Nat
    BY <2>1 DEF Plan, Content, Record
  <2> QED
    BY <2>2, <2>3 DEF SeenBefore, Stale
<1> QED
  BY <1>1, PublicationInvInit, PublicationInvNext, PTL DEF PublicationSpec

\* However often and however late it is confirmed, a plan is carried out once: the outcome it had
\* stays, and a published one has its branch.
THEOREM PublicationSettlesOnce == PublicationSpec => PlanSettlesOnce
<1> DEFINE Settles == \A p \in Plans :
       plans[p] # Unset /\ plans[p].state \in {"published", "failed"}
         => /\ plans'[p].state = plans[p].state
            /\ plans[p].state = "published" => p \in branches
<1>1. PublicationInv /\ [PublicationNext]_pvars => [Settles]_pvars
  <2> SUFFICES ASSUME PublicationInv, PublicationNext,
                      NEW p \in Plans, plans[p] # Unset, plans[p].state \in {"published", "failed"}
               PROVE  /\ plans'[p].state = plans[p].state
                      /\ plans[p].state = "published" => p \in branches
    OBVIOUS
  <2>1. plans \in [Plans -> Plan \cup {Unset}] /\ plans[p] \in Plan
    BY DEF PublicationInv, PublicationTypeOK
  <2>2. plans[p].state = "published" => p \in branches
    BY DEF PublicationInv, PlansFounded
  <2>4. ASSUME NEW q \in Plans, Prepare(q) PROVE plans'[p].state = plans[p].state
    BY <2>1, <2>4 DEF Prepare, Dropped, Plan
  <2>5. ASSUME NEW q \in Plans, PlanExpires(q) PROVE plans'[p].state = plans[p].state
    BY <2>1, <2>5 DEF PlanExpires, Plan
  <2>6. ASSUME NEW q \in Plans, Confirm(q) PROVE plans'[p].state = plans[p].state
    BY <2>1, <2>6 DEF Confirm, Confirmable, TakeOff
  <2>7. ASSUME NEW f \in flights, NEW state, Landed(f, state) PROVE plans'[p].state = plans[p].state
    <3>1. f.plan # p
      BY DEF PublicationInv, FlightsFounded
    <3> QED
      BY <2>1, <2>7, <3>1 DEF Landed
  <2>8. ASSUME PublisherEnds PROVE plans'[p].state = plans[p].state
    <3>1. plans'[p] = [plans[p] EXCEPT !.listed = FALSE, !.token = FALSE]
      BY <2>8 DEF PublisherEnds
    <3> QED
      BY <2>1, <3>1 DEF Plan
  <2>9. ASSUME NEW f \in flights, Published(f) \/ FlightFails(f) PROVE plans'[p].state = plans[p].state
    BY <2>7, <2>9 DEF Published, FlightFails
  <2>10. ASSUME \/ PublishRelease
                \/ \E a \in Authors : ReadRecord(a) \/ SaveAssurance(a)
                \/ \E f \in flights : Request(f) \/ MakeRef(f)
         PROVE  plans'[p].state = plans[p].state
    BY <2>10 DEF PublishRelease, ReadRecord, SaveAssurance, publisher, Request, MakeRef
  <2>11. plans'[p].state = plans[p].state
    BY <2>4, <2>5, <2>6, <2>8, <2>9, <2>10, Zenon DEF PublicationNext
  <2> QED
    BY <2>2, <2>11
<1> QED
  BY <1>1, PublicationInvInit, PublicationInvNext, PTL DEF PublicationSpec, PlanSettlesOnce

=============================================================================
