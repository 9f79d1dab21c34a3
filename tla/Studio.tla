------------------------------- MODULE Studio -------------------------------
(***************************************************************************)
(* The studio around the artifact lifecycle: deployments, access, the code *)
(* editor, evidence and publication, conversations, the model gateway and  *)
(* the artifact contract.                                                  *)
(*                                                                         *)
(* These parts share no variable, so every behaviour of the studio is an   *)
(* interleaving of behaviours of its parts, and a property of one part     *)
(* holds of all of them together exactly if it holds of that part alone.   *)
(* A behaviour here therefore belongs to one part, its desk; the others    *)
(* stay as they are, each in one of its initial states.                    *)
(***************************************************************************)
EXTENDS Deployments, Access, CodeEditor, Publication, ChatThread, ModelGateway, Contract

CONSTANT Desks   \* the parts whose behaviours are looked at

AllDesks == {"deployments", "access", "editor", "publication", "chat", "gateway", "contract"}

ASSUME StudioAssumption == Desks \subseteq AllDesks

VARIABLE desk    \* the part this behaviour belongs to

svars == <<desk, dvars, avars, evars, pvars, tvars, gvars, cvars>>

-----------------------------------------------------------------------------
(* One of the initial states, for a part that is not looked at *)

DeploymentsRest == LET r == CHOOSE c \in Cases : TRUE IN draft = r[1] /\ litellm = r[2] /\ scope = r[3]
EditorRest == files = CHOOSE f \in [Paths -> Contents \cup {Blank}] : f[Entrance] # Blank
GatewayRest == env = CHOOSE e \in Environments : TRUE
ContractRest == artifact = CHOOSE a \in Artifacts : a.stray

StudioInit ==
  /\ desk \in Desks
  /\ desk = "deployments" \/ DeploymentsRest
  /\ desk = "editor" \/ EditorRest
  /\ desk = "gateway" \/ GatewayRest
  /\ desk = "contract" \/ ContractRest
  /\ DeploymentsInit /\ AccessInit /\ CodeEditorInit /\ PublicationInit
  /\ ChatThreadInit /\ ModelGatewayInit /\ ContractInit

StudioNext ==
  \/ desk = "deployments" /\ DeploymentsNext /\ UNCHANGED <<desk, avars, evars, pvars, tvars, gvars, cvars>>
  \/ desk = "access" /\ AccessNext /\ UNCHANGED <<desk, dvars, evars, pvars, tvars, gvars, cvars>>
  \/ desk = "editor" /\ CodeEditorNext /\ UNCHANGED <<desk, dvars, avars, pvars, tvars, gvars, cvars>>
  \/ desk = "publication" /\ PublicationNext /\ UNCHANGED <<desk, dvars, avars, evars, tvars, gvars, cvars>>
  \/ desk = "chat" /\ ChatThreadNext /\ UNCHANGED <<desk, dvars, avars, evars, pvars, gvars, cvars>>
  \/ desk = "gateway" /\ ModelGatewayNext /\ UNCHANGED <<desk, dvars, avars, evars, pvars, tvars, cvars>>
  \/ desk = "contract" /\ ContractNext /\ UNCHANGED <<desk, dvars, avars, evars, pvars, tvars, gvars>>

\* Deployments is the only part with a timer; see DeploymentsSpec.
StudioSpec == StudioInit /\ [][StudioNext]_svars /\ \A s \in Slots : WF_dvars(TimeOut(s))

\* Every part keeps its types; the ones that rest do not move.
StudioTypeOK ==
  CASE desk = "deployments" -> DeploymentsTypeOK
    [] desk = "access" -> AccessTypeOK
    [] desk = "editor" -> CodeEditorTypeOK
    [] desk = "publication" -> PublicationTypeOK
    [] desk = "chat" -> ChatThreadTypeOK
    [] desk = "gateway" -> ModelGatewayTypeOK
    [] desk = "contract" -> ContractTypeOK
=============================================================================
