--------------------------- MODULE MCDockerEngine ---------------------------
(* Instances of DockerEngine.  A request names an operation; deployments   *)
(* also say which allowlist, datastore and sync support they ask for.      *)
EXTENDS DockerEngine

CONSTANTS a1, a2, p1, p2, l1

Plain(op) == [op |-> op, allow |-> Open, data |-> FALSE, syncable |-> FALSE]
Simple == {Plain(op) : op \in {"sync", "undeploy", "stop", "start", "status"}}

\* An open sync-capable deployment, a restricted one, and both changes of access.
Mixed == Simple \cup
  {[Plain("deploy") EXCEPT !.syncable = TRUE], [Plain("deploy") EXCEPT !.allow = l1],
   Plain("access"), [Plain("access") EXCEPT !.allow = l1]}

\* Deployments with a datastore, and their removal.
Stateful == {[Plain("deploy") EXCEPT !.data = TRUE], Plain("undeploy")}

\* The engine tells neither applications nor ports apart.
Alike == Permutations({a1, a2} \cap Apps) \cup Permutations({p1, p2} \cap Ports)
=============================================================================
