--------------------------- MODULE MCArtifactStore ---------------------------
(* Instances of ArtifactStore for TLC. *)
EXTENDS ArtifactStore

CONSTANTS s1, s2, a1, a2, a3

Intent(k)    == [tier |-> "intent",   kind |-> k,         source |-> None]
Template(s)  == [tier |-> "template", kind |-> "classic", source |-> s]
Page(s)      == [tier |-> "static",   kind |-> "page",    source |-> s]
Server       == [tier |-> "app",      kind |-> "server",  source |-> None]

\* Pages only: builds run in the sandbox and can be overtaken.
PageDefinitions == {Page(s) : s \in Sources}

\* A server application before and after its generation, whose start may throw,
\* and the page that a model may answer with.
ServerOrPage == {Intent("server"), Page(s1), Server}

\* One definition of every tier.
EveryTier == {Intent("server"), Template(s1), Page(s1), Server}

\* A server application, before and after its first generation.
ServerDefinitions == {Intent("server"), Server}

=============================================================================
