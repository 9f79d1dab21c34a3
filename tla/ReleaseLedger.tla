---------------------------- MODULE ReleaseLedger ----------------------------
(***************************************************************************)
(* What publish() and rollback() promise their callers, without builds,    *)
(* generations or restarts: per application the release numbers count up,  *)
(* the latest releases are kept for rollback with their content untouched, *)
(* a publish releases the draft as it stands, and a rollback moves the     *)
(* draft to a kept release and releases exactly that content again.        *)
(***************************************************************************)
EXTENDS Naturals

CONSTANTS
  Apps,
  Configs,   \* definitions
  Results,   \* what a build attests
  Retained   \* releases kept for rollback

VARIABLES
  config,    \* the draft of each application
  number,    \* number of its latest release, 0 before the first
  releases   \* its kept releases, by number

ledgerVars == <<config, number, releases>>

Init ==
  /\ config \in [Apps -> Configs]
  /\ number = [a \in Apps |-> 0]
  /\ releases = [a \in Apps |-> << >>]

\* Edits of any kind, of any number of drafts.
Edit ==
  /\ config' \in [Apps -> Configs]
  /\ UNCHANGED <<number, releases>>

\* The kept releases after c is released as number n.
Keep(kept, n, c) ==
  [m \in {m \in DOMAIN kept \cup {n} : m + Retained > n} |->
     IF m = n THEN c ELSE kept[m]]

Append(a, c) ==
  /\ number' = [number EXCEPT ![a] = @ + 1]
  /\ releases' = [releases EXCEPT ![a] = Keep(@, number[a] + 1, c)]

Publish(a) ==
  /\ \E r \in Results : Append(a, [config |-> config[a], result |-> r])
  /\ UNCHANGED config

RollForward(a, n) ==
  /\ Append(a, releases[a][n])
  /\ config' = [config EXCEPT ![a] = releases[a][n].config]

Next ==
  \/ Edit
  \/ \E a \in Apps : Publish(a) \/ \E n \in DOMAIN releases[a] : RollForward(a, n)

Spec == Init /\ [][Next]_ledgerVars

----------------------------------------------------------------------------

\* Exactly the latest releases are kept: none is missing from the window that
\* rollback offers and none stays beyond it.
KeepsLatest ==
  \A a \in Apps :
    DOMAIN releases[a] = {n \in 1 .. number[a] : n + Retained > number[a]}

=============================================================================
