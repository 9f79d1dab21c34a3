--------------------------- MODULE Contract_proofs ---------------------------
(***************************************************************************)
(* Theorems about the artifact contract and its policy, for any artifacts, *)
(* users and grants.                                                       *)
(***************************************************************************)
EXTENDS Contract, SequenceTheorems, TLAPS

LEMMA ContractInitialised == ContractInit => artifact \in Artifacts
  BY DEF ContractInit

\* The rules of v1alpha1, and of v1alpha2 for a service, are the same.
LEMMA SameRules ==
  ASSUME NEW a \in Artifact
  PROVE  Valid(AsV1(a)) <=> Valid(AsService(a))
<1> DEFINE v == [a EXCEPT !.api = "v1alpha1", !.target = Absent]
           w == [a EXCEPT !.api = "v1alpha2", !.target = "service"]
<1>1. /\ v.api = "v1alpha1" /\ v.target = Absent /\ v.stray = a.stray /\ v.kind = a.kind
      /\ v.name = a.name /\ v.version = a.version /\ v.owner = a.owner
      /\ v.description = a.description /\ v.image = a.image /\ v.handler = a.handler
      /\ v.port = a.port /\ v.cpu = a.cpu /\ v.memory = a.memory
      /\ v.inbound = a.inbound /\ v.outbound = a.outbound
      /\ v.resources = a.resources /\ v.capabilities = a.capabilities
  BY DEF Artifact
<1>2. /\ w.api = "v1alpha2" /\ w.target = "service" /\ w.stray = a.stray /\ w.kind = a.kind
      /\ w.name = a.name /\ w.version = a.version /\ w.owner = a.owner
      /\ w.description = a.description /\ w.image = a.image /\ w.handler = a.handler
      /\ w.port = a.port /\ w.cpu = a.cpu /\ w.memory = a.memory
      /\ w.inbound = a.inbound /\ w.outbound = a.outbound
      /\ w.resources = a.resources /\ w.capabilities = a.capabilities
  BY DEF Artifact
<1> HIDE DEF v, w
<1>3. Valid(v) <=> ValidV1(v)
  BY <1>1 DEF Valid
<1>4. Valid(w) <=> ValidV2(w)
  BY <1>2 DEF Valid
<1>5. ValidV1(v) <=> ValidV2(w)
  BY <1>1, <1>2 DEF ValidV1, ValidV2, ServiceFits
<1> QED
  BY <1>3, <1>4, <1>5 DEF v, w, AsV1, AsService

LEMMA ArtifactKept == artifact \in Artifacts /\ [ContractNext]_cvars => (artifact \in Artifacts)'
  BY ContractAssumption DEF ContractNext, Write, Issue, Withdraw, cvars

\* Whatever artifact an author writes, the container rules of the two versions of the contract
\* accept it or refuse it alike.
THEOREM ContractVersionsAgree == ContractSpec => []VersionsAgree
<1>1. artifact \in Artifacts => VersionsAgree
  BY SameRules, ContractAssumption DEF VersionsAgree
<1> QED
  BY <1>1, ContractInitialised, ArtifactKept, PTL DEF ContractSpec

-----------------------------------------------------------------------------
(* Authorization.

   AllowedAsLicensed does not say that what was granted was valid when it was, nor
   which grant a licence stands for.  The invariant adds both: an artifact is named
   by its content, so that it is still valid whenever it is the content again.      *)

\* A licence names a live grant by its place in the list, and every live one has its licence.
LicencesNameGrants ==
  /\ \A l \in licences :
       /\ l[4] \in DOMAIN grants /\ Live(grants[l[4]])
       /\ Matches(grants[l[4]], l[1], l[2], l[3])
  /\ \A i \in DOMAIN grants : Live(grants[i]) =>
       <<grants[i].content, grants[i].capability, grants[i].user, i>> \in licences

\* What was granted is declared by a valid artifact.
GrantsFounded ==
  \A i \in DOMAIN grants :
    Valid(grants[i].content) /\ Declares(grants[i].content, grants[i].capability)

ContractInv == ContractTypeOK /\ LicencesNameGrants /\ GrantsFounded

LEMMA ContractInvInit == ContractInit => ContractInv
<1> SUFFICES ASSUME ContractInit PROVE ContractInv
  OBVIOUS
<1>1. grants = <<>> /\ licences = {} /\ artifact \in Artifacts
  BY DEF ContractInit
<1>2. ContractTypeOK
  BY <1>1, ContractAssumption DEF ContractTypeOK
<1>3. LicencesNameGrants /\ GrantsFounded
  BY <1>1 DEF LicencesNameGrants, GrantsFounded
<1> QED
  BY <1>2, <1>3 DEF ContractInv

LEMMA ContractInvIssue ==
  ASSUME ContractInv, NEW c \in Capabilities, NEW u \in Users, Issue(c, u)
  PROVE  ContractInv'
<1> DEFINE n == Len(grants) + 1
           g == [content |-> artifact, capability |-> c, user |-> u, revoked |-> FALSE, expired |-> FALSE]
<1>1. /\ artifact \in Grantable /\ Valid(artifact) /\ Declares(artifact, c)
      /\ Len(grants) < MaxGrants /\ artifact' = artifact
      /\ grants' = Append(grants, g) /\ licences' = licences \cup {<<artifact, c, u, n>>}
  BY DEF Issue
<1>2. grants \in Seq(Grant) /\ Len(grants) \in Nat /\ MaxGrants \in Nat
  BY ContractAssumption DEF ContractInv, ContractTypeOK
<1>3. g \in Grant
  BY <1>1 DEF Grant
<1>4. /\ grants' \in Seq(Grant) /\ Len(grants') = n /\ DOMAIN grants' = 1 .. n /\ grants'[n] = g
      /\ DOMAIN grants = 1 .. Len(grants) /\ \A i \in DOMAIN grants : grants'[i] = grants[i]
  BY <1>1, <1>2, <1>3
<1>5. g.content = artifact /\ g.capability = c /\ g.user = u /\ Live(g)
  BY DEF Live
<1> HIDE DEF g
<1>6. ContractTypeOK'
  <2>1. n \in 1 .. MaxGrants
    BY <1>1, <1>2
  <2> QED
    BY <1>1, <1>2, <1>4, <2>1 DEF ContractInv, ContractTypeOK
<1>7. LicencesNameGrants'
  <2>1. ASSUME NEW l \in licences'
        PROVE  l[4] \in DOMAIN grants' /\ Live(grants'[l[4]]) /\ Matches(grants'[l[4]], l[1], l[2], l[3])
    <3>1. CASE l \in licences
      BY <1>2, <1>4, <3>1 DEF ContractInv, LicencesNameGrants
    <3>2. CASE l = <<artifact, c, u, n>>
      BY <1>2, <1>4, <1>5, <3>2 DEF Matches
    <3> QED
      BY <1>1, <2>1, <3>1, <3>2
  <2>2. ASSUME NEW i \in DOMAIN grants', Live(grants'[i])
        PROVE  <<grants'[i].content, grants'[i].capability, grants'[i].user, i>> \in licences'
    <3>1. CASE i \in DOMAIN grants
      BY <1>1, <1>4, <2>2, <3>1 DEF ContractInv, LicencesNameGrants
    <3>2. CASE i = n
      BY <1>1, <1>4, <1>5, <3>2
    <3> QED
      BY <1>2, <1>4, <2>2, <3>1, <3>2
  <2> QED
    BY <2>1, <2>2 DEF LicencesNameGrants, Live, Matches
<1>8. GrantsFounded'
  <2> SUFFICES ASSUME NEW i \in DOMAIN grants'
               PROVE  Valid(grants'[i].content) /\ Declares(grants'[i].content, grants'[i].capability)
    BY DEF GrantsFounded
  <2>1. CASE i \in DOMAIN grants
    BY <1>4, <2>1 DEF ContractInv, GrantsFounded
  <2>2. CASE i = n
    BY <1>1, <1>4, <1>5, <2>2
  <2> QED
    BY <1>2, <1>4, <2>1, <2>2
<1> QED
  BY <1>6, <1>7, <1>8 DEF ContractInv

LEMMA ContractInvWithdraw ==
  ASSUME ContractInv, NEW k \in DOMAIN grants, Withdraw(k)
  PROVE  ContractInv'
<1>1. grants \in Seq(Grant) /\ Live(grants[k]) /\ artifact' = artifact
  BY DEF ContractInv, ContractTypeOK, Withdraw
<1>2. grants' \in {[grants EXCEPT ![k].revoked = TRUE], [grants EXCEPT ![k].expired = TRUE]}
  BY DEF Withdraw
<1>3. licences' = {l \in licences : l[4] # k}
  BY DEF Withdraw
<1>4. grants[k] \in Grant
  BY <1>1
<1>5. \A g \in {[grants[k] EXCEPT !.revoked = TRUE], [grants[k] EXCEPT !.expired = TRUE]} :
        /\ g \in Grant /\ ~Live(g)
        /\ g.content = grants[k].content /\ g.capability = grants[k].capability /\ g.user = grants[k].user
  BY <1>4 DEF Grant, Live
<1>6. /\ grants' \in Seq(Grant) /\ DOMAIN grants' = DOMAIN grants /\ Len(grants') = Len(grants)
      /\ grants'[k] \in {[grants[k] EXCEPT !.revoked = TRUE], [grants[k] EXCEPT !.expired = TRUE]}
      /\ \A i \in DOMAIN grants : i # k => grants'[i] = grants[i]
  <2>1. PICK g \in {[grants[k] EXCEPT !.revoked = TRUE], [grants[k] EXCEPT !.expired = TRUE]} :
          grants' = [grants EXCEPT ![k] = g]
    BY <1>2
  <2>2. g \in Grant
    BY <1>5
  <2> QED
    BY <1>1, <2>1, <2>2, ExceptSeq
<1>7. /\ ~Live(grants'[k]) /\ grants'[k].content = grants[k].content
      /\ grants'[k].capability = grants[k].capability /\ grants'[k].user = grants[k].user
  BY <1>5, <1>6
<1>8. ContractTypeOK'
  BY <1>1, <1>3, <1>6 DEF ContractInv, ContractTypeOK
<1>9. LicencesNameGrants'
  <2>1. ASSUME NEW l \in licences'
        PROVE  l[4] \in DOMAIN grants' /\ Live(grants'[l[4]]) /\ Matches(grants'[l[4]], l[1], l[2], l[3])
    BY <1>3, <1>6, <2>1 DEF ContractInv, LicencesNameGrants
  <2>2. ASSUME NEW i \in DOMAIN grants', Live(grants'[i])
        PROVE  <<grants'[i].content, grants'[i].capability, grants'[i].user, i>> \in licences'
    <3>1. i # k /\ i \in DOMAIN grants /\ grants'[i] = grants[i]
      BY <1>6, <1>7, <2>2
    <3>2. <<grants[i].content, grants[i].capability, grants[i].user, i>> \in licences
      BY <2>2, <3>1 DEF ContractInv, LicencesNameGrants
    <3> QED
      BY <1>3, <3>1, <3>2
  <2> QED
    BY <2>1, <2>2 DEF LicencesNameGrants
<1>10. GrantsFounded'
  <2> SUFFICES ASSUME NEW i \in DOMAIN grants'
               PROVE  Valid(grants'[i].content) /\ Declares(grants'[i].content, grants'[i].capability)
    BY DEF GrantsFounded
  <2>1. i \in DOMAIN grants /\ grants'[i].content = grants[i].content
        /\ grants'[i].capability = grants[i].capability
    BY <1>6, <1>7
  <2> QED
    BY <2>1 DEF ContractInv, GrantsFounded
<1> QED
  BY <1>8, <1>9, <1>10 DEF ContractInv

LEMMA ContractInvNext == ContractInv /\ [ContractNext]_cvars => ContractInv'
<1> SUFFICES ASSUME ContractInv, [ContractNext]_cvars PROVE ContractInv'
  OBVIOUS
<1>1. ASSUME UNCHANGED <<grants, licences>>, artifact' \in Artifacts PROVE ContractInv'
  BY <1>1 DEF ContractInv, ContractTypeOK, LicencesNameGrants, GrantsFounded
<1>2. ASSUME NEW a \in Artifacts, Write(a) PROVE ContractInv'
  BY <1>1, <1>2 DEF Write
<1>3. CASE UNCHANGED cvars
  BY <1>1, <1>3 DEF cvars, ContractInv, ContractTypeOK
<1> QED
  BY <1>2, <1>3, ContractInvIssue, ContractInvWithdraw, ContractAssumption DEF ContractNext

\* A request is allowed exactly while somebody holds a grant for this very content: the place of a
\* grant in the list, dead ones before it and edits in between make no difference.
THEOREM ContractAllowsAsLicensed == ContractSpec => []AllowedAsLicensed
<1>1. ASSUME ContractInv, NEW c \in Capabilities, NEW u \in Users
      PROVE  Authorize(artifact, c, u) = "explicit-grant"
               <=> artifact.api = "v1alpha1" /\ \E l \in licences : <<l[1], l[2], l[3]>> = <<artifact, c, u>>
  <2>1. ASSUME Authorize(artifact, c, u) = "explicit-grant"
        PROVE  artifact.api = "v1alpha1" /\ \E l \in licences : <<l[1], l[2], l[3]>> = <<artifact, c, u>>
    <3>1. artifact.api = "v1alpha1" /\ Granted(artifact, c, u)
      BY <2>1 DEF Authorize
    <3>2. PICK i \in DOMAIN grants : Matches(grants[i], artifact, c, u) /\ Live(grants[i])
      BY <3>1 DEF Granted
    <3>3. <<artifact, c, u, i>> \in licences
      BY <1>1, <3>2 DEF ContractInv, LicencesNameGrants, Matches
    <3> QED
      BY <3>1, <3>3
  <2>2. ASSUME artifact.api = "v1alpha1",
               NEW l \in licences, <<l[1], l[2], l[3]>> = <<artifact, c, u>>
        PROVE  Authorize(artifact, c, u) = "explicit-grant"
    <3>1. /\ l[4] \in DOMAIN grants /\ Live(grants[l[4]]) /\ Matches(grants[l[4]], artifact, c, u)
          /\ Valid(artifact) /\ Declares(artifact, c)
      BY <1>1, <2>2 DEF ContractInv, LicencesNameGrants, GrantsFounded, Matches
    <3>2. Granted(artifact, c, u)
      BY <3>1 DEF Granted
    <3>3. ValidV1(artifact)
      BY <2>2, <3>1 DEF Valid
    <3>4. CapabilitiesValid(artifact.capabilities)
      BY <3>3 DEF ValidV1
    <3>5. c.binding \in Bindings
      BY <3>1, <3>4 DEF CapabilitiesValid, Declares
    <3> QED
      BY <2>2, <3>1, <3>2, <3>5 DEF Authorize
  <2> QED
    BY <2>1, <2>2
<1>2. ContractInv => AllowedAsLicensed
  BY <1>1 DEF AllowedAsLicensed
<1> QED
  BY <1>2, ContractInvInit, ContractInvNext, PTL DEF ContractSpec

=============================================================================
