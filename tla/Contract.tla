------------------------------ MODULE Contract ------------------------------
(***************************************************************************)
(* The artifact contract in its two versions (src/contract.js) and the     *)
(* policy that authorizes requests against it (src/policy.js).             *)
(*                                                                         *)
(* An artifact is flat: "fine" and "bad" stand for texts that match or do  *)
(* not match their pattern, Absent for a field that is not there.  A       *)
(* version says where the fields are nested.  Every error is an error: the *)
(* early returns of the validators only shorten the list of messages.  An  *)
(* artifact is its own digest.                                             *)
(***************************************************************************)
EXTENDS Integers, SequencesExt

CONSTANTS
  Absent,
  Artifacts,   \* bounds the artifacts that are written
  Grantable,   \* bounds those that are granted anything
  Users,
  MaxGrants    \* bounds the grants

Optional(S) == {Absent} \cup S

\* What a parsed document may hold, whether or not it is valid.
Artifact ==
  [api : STRING, stray : BOOLEAN, kind : STRING,
   name : Optional(STRING), version : Optional(STRING), owner : Optional(STRING),
   description : Optional(STRING), target : Optional(STRING), image : Optional(STRING),
   handler : Optional(STRING), port : Optional(Int), cpu : Optional(Int), memory : Optional(Int),
   inbound : Optional(STRING), outbound : Optional(STRING),
   resources : Seq([name : STRING, type : STRING]),
   capabilities : Seq([name : STRING, operation : STRING, binding : STRING])]

ASSUME ContractAssumption ==
  /\ Artifacts \subseteq Artifact /\ Grantable \subseteq Artifacts
  /\ MaxGrants \in Nat \ {0}

VARIABLES
  artifact,   \* as its author has it now
  grants,     \* what the trusted server hands to the policy, oldest first
  licences    \* history: the grants issued that were neither revoked nor have expired

cvars == <<artifact, grants, licences>>

Kinds == {"application", "agent", "knowledge", "document", "workflow"}
Bindings == {"mock", "live"}
Capabilities == UNION {Range(a.capabilities) : a \in Artifacts}
Grant == [content : Grantable, capability : Capabilities, user : Users, revoked : BOOLEAN, expired : BOOLEAN]

\* Types.
ContractTypeOK ==
  /\ artifact \in Artifacts
  /\ grants \in Seq(Grant) /\ Len(grants) <= MaxGrants
  /\ licences \subseteq Grantable \X Capabilities \X Users \X (1..MaxGrants)

-----------------------------------------------------------------------------
(* Validation *)

In(x, low, high) == x # Absent /\ x \in low..high

\* validateResourceList and validateCapabilityList, for both versions.
ResourcesValid(list) ==
  /\ \A i \in DOMAIN list : list[i].name # "bad" /\ list[i].type \in {"postgres", "pgvector", "objects"}
  /\ IsInjective([i \in DOMAIN list |-> list[i].name])

CapabilitiesValid(list) ==
  /\ \A i \in DOMAIN list : list[i].name # "bad" /\ list[i].operation # "bad" /\ list[i].binding \in Bindings
  /\ IsInjective([i \in DOMAIN list |-> <<list[i].name, list[i].operation>>])

\* The container of v1alpha1.
ValidV1(a) ==
  /\ a.api = "v1alpha1" /\ ~a.stray /\ a.target = Absent
  /\ a.kind \in Kinds
  /\ a.name = "fine" /\ a.version = "fine" /\ a.owner = "fine" /\ a.description \in {"fine", Absent}
  /\ a.handler = Absent /\ a.image = "fine"
  /\ In(a.port, 1, 65535) /\ In(a.cpu, 1, 2000) /\ In(a.memory, 1, 2048)
  /\ a.inbound = "deny" /\ a.outbound = "deny"
  /\ ResourcesValid(a.resources) /\ CapabilitiesValid(a.capabilities)

StaticFits(a) == \A f \in {"image", "handler", "port", "cpu", "memory", "inbound", "outbound"} : a[f] = Absent

\* Mutant of ServiceFits: the network of a service is asked one way only.
ServiceFitsInbound(a) ==
  /\ a.handler = Absent /\ a.image = "fine"
  /\ In(a.port, 1, 65535) /\ In(a.cpu, 1, 2000) /\ In(a.memory, 1, 2048)
  /\ a.inbound = "deny"

ServiceFits(a) ==
  /\ a.handler = Absent /\ a.image = "fine"
  /\ In(a.port, 1, 65535) /\ In(a.cpu, 1, 2000) /\ In(a.memory, 1, 2048)
  /\ a.inbound = "deny" /\ a.outbound = "deny"

\* The platform owns the network of a lambda and has defaults for its sizes.
LambdaFits(a) ==
  /\ a.image = Absent /\ a.port = Absent /\ a.inbound = Absent /\ a.outbound = Absent
  /\ a.handler = "fine"
  /\ a.memory = Absent \/ In(a.memory, 128, 10240)
  /\ a.cpu = Absent \/ In(a.cpu, 1, 2000)

ValidV2(a) ==
  /\ a.api = "v1alpha2" /\ ~a.stray
  /\ a.kind \in Kinds
  /\ a.name = "fine" /\ a.version = "fine" /\ a.owner = "fine" /\ a.description \in {"fine", Absent}
  /\ ResourcesValid(a.resources) /\ CapabilitiesValid(a.capabilities)
  /\ CASE a.target = "static" -> StaticFits(a)
       [] a.target = "service" -> ServiceFits(a)
       [] a.target = "lambda" -> LambdaFits(a)
       [] OTHER -> FALSE

Valid(a) == IF a.api = "v1alpha2" THEN ValidV2(a) ELSE ValidV1(a)

-----------------------------------------------------------------------------
(* Authorization *)

Declares(a, c) == \E i \in DOMAIN a.capabilities : a.capabilities[i] = c

Matches(g, a, c, u) == g.content = a /\ g.capability = c /\ g.user = u
Live(g) == ~g.revoked /\ ~g.expired

\* Mutant of Granted: the first grant that matches decides.
GrantedByFirst(a, c, u) ==
  \E i \in DOMAIN grants :
    /\ Matches(grants[i], a, c, u) /\ Live(grants[i])
    /\ \A j \in 1..(i - 1) : ~Matches(grants[j], a, c, u)

Granted(a, c, u) == \E i \in DOMAIN grants : Matches(grants[i], a, c, u) /\ Live(grants[i])

\* The policy looks for capabilities where v1alpha1 has them, and throws for v1alpha2.
Authorize(a, c, u) ==
  IF ~Valid(a) THEN "throws"
  ELSE CASE c.binding \notin Bindings -> "invalid-binding"
         [] c.binding \in Bindings /\ a.api # "v1alpha1" -> "throws"
         [] c.binding \in Bindings /\ a.api = "v1alpha1" ->
              IF ~Declares(a, c) THEN "undeclared-capability"
              ELSE IF Granted(a, c, u) THEN "explicit-grant" ELSE "missing-valid-grant"

-----------------------------------------------------------------------------
(* The author writes the artifact; the trusted server grants, revokes, and time passes *)

ContractInit == artifact \in Artifacts /\ grants = <<>> /\ licences = {}

\* Any content after what may be granted, which bounds the model (ContractNext).
Write(a) ==
  /\ a # artifact
  /\ artifact' = a
  /\ UNCHANGED <<grants, licences>>

\* A digest is taken of valid artifacts only.
Issue(c, u) ==
  /\ artifact \in Grantable /\ Valid(artifact) /\ Declares(artifact, c) /\ Len(grants) < MaxGrants
  /\ grants' = Append(grants, [content |-> artifact, capability |-> c, user |-> u,
                               revoked |-> FALSE, expired |-> FALSE])
  /\ licences' = licences \cup {<<artifact, c, u, Len(grants) + 1>>}
  /\ UNCHANGED artifact

Withdraw(i) ==
  /\ Live(grants[i])
  /\ grants' \in {[grants EXCEPT ![i].revoked = TRUE], [grants EXCEPT ![i].expired = TRUE]}
  /\ licences' = {l \in licences : l[4] # i}
  /\ UNCHANGED artifact

ContractNext ==
  \/ \E a \in IF artifact \in Grantable THEN Artifacts ELSE Grantable : Write(a)
  \/ \E c \in Capabilities, u \in Users : Issue(c, u)
  \/ \E i \in DOMAIN grants : Withdraw(i)

ContractSpec == ContractInit /\ [][ContractNext]_cvars

-----------------------------------------------------------------------------
(* Properties *)

AsV1(a) == [a EXCEPT !.api = "v1alpha1", !.target = Absent]
AsService(a) == [a EXCEPT !.api = "v1alpha2", !.target = "service"]

\* The two validators were written twice: a container is accepted by v1alpha1 exactly if it
\* is accepted by v1alpha2 as a service, so that the posture of the one is kept by the other.
VersionsAgree == Valid(AsV1(artifact)) <=> Valid(AsService(artifact))

\* A request is allowed exactly while somebody is licensed for it against this very content:
\* an edit ends every grant until it is undone, and no dead grant hides a live one.
AllowedAsLicensed ==
  \A c \in Capabilities, u \in Users :
    Authorize(artifact, c, u) = "explicit-grant"
      <=> artifact.api = "v1alpha1" /\ \E l \in licences : <<l[1], l[2], l[3]>> = <<artifact, c, u>>
=============================================================================
