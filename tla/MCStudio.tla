------------------------------ MODULE MCStudio ------------------------------
(* Instances of Studio: all parts, or one. *)
EXTENDS Studio

\* Deployments: of a draft that wants models, one that is synced and one that is neither; a
\* deployment, or a preview, against each of the operations that may cross it.
Draft(ai, syncable) == [ai |-> ai, syncable |-> syncable]
Against(op) == {<<"deploy", "app">>, <<op, "app">>}
Previews == {<<"deploy", "preview">>, <<"undeploy", "preview">>}

\* The adapter's environment: the proxy as DEPLOYKIT_LITELLM_ names it, also with a PAC_
\* variable set to nothing; an address without a key; nothing at all.
Proxy(pacUrl, pacKey, url, key) == [pacUrl |-> pacUrl, pacKey |-> pacKey, url |-> url, key |-> key]
Configured == Proxy("unset", "unset", "set", "set")
PacUrlEmpty == Proxy("empty", "unset", "set", "set")
PacKeyEmpty == Proxy("unset", "empty", "set", "set")
AddressOnly == Proxy("set", "unset", "unset", "unset")
Unconfigured == Proxy("unset", "unset", "unset", "unset")

MCCases ==
  ({Draft(TRUE, FALSE), Draft(FALSE, TRUE)} \X {Configured}
     \X {Against("publish"), Against("undeploy"), Against("purge"), Previews})
  \cup ({Draft(TRUE, FALSE)} \X {PacUrlEmpty, PacKeyEmpty, AddressOnly, Unconfigured} \X {Previews})
  \cup ({Draft(FALSE, FALSE)} \X {Configured} \X {Against("access"), Against("publish")})

\* The gateway: every environment and every model.
MCEnvironments == Environment

\* The contract: four sound artifacts, and each of them with one field changed.
Capability(o, b) == [name |-> "records", operation |-> o, binding |-> b]
Database(t) == [name |-> "db", type |-> t]
Container1 ==
  [api |-> "v1alpha1", stray |-> FALSE, kind |-> "application", name |-> "fine", version |-> "fine",
   owner |-> "fine", description |-> "fine", target |-> Absent, image |-> "fine", handler |-> Absent,
   port |-> 1, cpu |-> 1, memory |-> 128, inbound |-> "deny", outbound |-> "deny",
   resources |-> <<Database("postgres")>>,
   capabilities |-> <<Capability("read", "mock"), Capability("write", "live")>>]
Service == [Container1 EXCEPT !.api = "v1alpha2", !.target = "service"]
Lambda == [Service EXCEPT !.target = "lambda", !.handler = "fine", !.image = Absent, !.port = Absent,
                          !.inbound = Absent, !.outbound = Absent]
Static == [Lambda EXCEPT !.target = "static", !.handler = Absent, !.cpu = Absent, !.memory = Absent]
Sound == {Container1, Service, Lambda, Static}

Text == {"fine", "bad", Absent}
FieldValues ==
  [api |-> {"v1alpha1", "v1alpha2", "other"}, stray |-> BOOLEAN, kind |-> {"application", "bad"},
   name |-> Text, version |-> Text, owner |-> Text, description |-> Text, image |-> Text, handler |-> Text,
   target |-> {Absent, "static", "service", "lambda", "bad"},
   port |-> {Absent, 0, 65535, 65536}, cpu |-> {Absent, 0, 2000, 2001},
   memory |-> {Absent, 0, 1, 127, 2048, 2049, 10240, 10241},
   inbound |-> {"deny", "allow", Absent}, outbound |-> {"deny", "allow", Absent},
   resources |-> {<<>>, <<Database("bad")>>, <<Database("objects"), Database("postgres")>>},
   capabilities |-> {<<>>, <<Capability("read", "bad")>>, <<Capability("read", "live")>>,
                     <<Capability("read", "mock"), Capability("read", "live")>>}]
Changes == UNION {{<<f, v>> : v \in FieldValues[f]} : f \in DOMAIN FieldValues}
MCArtifacts == {[a EXCEPT ![c[1]] = c[2]] : a \in Sound, c \in Changes}
MCGrantable == {Container1, [Container1 EXCEPT !.description = Absent]}
=============================================================================
