------------------------------- MODULE Access -------------------------------
(***************************************************************************)
(* Who may work on an application: principals, single-use invites,         *)
(* sessions, sharing by email, and the two-step removal of an application  *)
(* (demo/store.js, demo/server.js, demo/proxy-auth.js).                    *)
(*                                                                         *)
(* A request is one step unless it awaits something in the middle: a chat  *)
(* awaits the model, a purge awaits the undeployment, and everything else  *)
(* may happen meanwhile.  The state is a file written by every step; a     *)
(* crash forgets the requests under way, and accepting an invite writes    *)
(* twice.                                                                  *)
(***************************************************************************)
EXTENDS Integers, FiniteSets

CONSTANTS
  Apps,         \* application ids, which are never used again
  Emails,       \* authenticated by the reverse proxy
  Admins,       \* ADMIN_EMAILS
  Tokens,       \* bounds the invites ever made; tokens are never used again
  Nobody,
  MaxSessions,  \* 200 in the code
  MaxInvites    \* 100 in the code

VARIABLES
  entries,    \* the application records, as far as access goes
  invites,    \* invite records by token
  sessions,   \* session records
  purges,     \* purges that await the undeployment
  chats,      \* chats that await the model
  said,       \* whether the number of chats ever recorded is odd
  admitted    \* history: per token, the sessions made from it and those handed out

avars == <<entries, invites, sessions, purges, chats, said, admitted>>

Entry == [owner : Emails \cup {Nobody}, shared : SUBSET Emails, archived : BOOLEAN, deployed : BOOLEAN]
Invite == [app : Apps, used : BOOLEAN, expired : BOOLEAN]
\* via: the token a collaborator came with, Nobody for the owner token.
Session == [via : Tokens \cup {Nobody}, app : Apps \cup {Nobody}, expired : BOOLEAN, copy : 0..1]
Principal == [kind : {"owner", "user", "collaborator"}, email : Emails \cup {Nobody}, app : Apps \cup {Nobody}]

ASSUME AccessAssumption ==
  /\ Admins \subseteq Emails /\ Nobody \notin Emails \cup Apps \cup Tokens \cup Entry \cup Invite
  /\ MaxSessions \in Nat \ {0} /\ MaxInvites \in Nat \ {0}

AccessTypeOK ==
  /\ entries \in [Apps -> Entry \cup {Nobody}]
  /\ invites \in [Tokens -> Invite \cup {Nobody}]
  /\ sessions \subseteq Session /\ Cardinality(sessions) <= MaxSessions
  /\ purges \subseteq Apps
  /\ chats \subseteq Principal \X Apps
  /\ said \in BOOLEAN
  /\ admitted \in [Tokens -> [made : 0..2, given : 0..2]]

AccessInit ==
  /\ entries = [a \in Apps |-> Nobody]
  /\ invites = [t \in Tokens |-> Nobody]
  /\ sessions = {} /\ purges = {} /\ chats = {} /\ said = FALSE
  /\ admitted = [t \in Tokens |-> [made |-> 0, given |-> 0]]

-----------------------------------------------------------------------------
(* Principals *)

\* resolveKind, principalFromProxyHeaders: whom the proxy vouches for.
ByProxy(e) == [kind |-> IF e \in Admins THEN "owner" ELSE "user", email |-> e, app |-> Nobody]

OfSession(s) == [kind |-> IF s.app = Nobody THEN "owner" ELSE "collaborator", email |-> Nobody, app |-> s.app]

\* The owner token as a bearer, else a live session, else the proxy's headers.
Principals ==
  {[kind |-> "owner", email |-> Nobody, app |-> Nobody]}
    \cup {OfSession(s) : s \in {s \in sessions : ~s.expired}} \cup {ByProxy(e) : e \in Emails}

IsAppOwner(p, a) == p.kind = "user" /\ entries[a].owner = p.email
IsSharedWith(p, a) == p.kind = "user" /\ p.email \in entries[a].shared

\* Store.access for reading, and with owner set.
Admits(p, a) ==
  /\ entries[a] # Nobody
  /\ \/ p.kind = "owner" \/ (p.kind = "collaborator" /\ p.app = a)
     \/ IsAppOwner(p, a) \/ IsSharedWith(p, a)
AdmitsOwner(p, a) == Admits(p, a) /\ (p.kind = "owner" \/ IsAppOwner(p, a))

-----------------------------------------------------------------------------
(* Applications and sharing *)

\* Ids are random: a new one is not to be found anywhere.
Unheard(a) ==
  /\ entries[a] = Nobody /\ a \notin purges /\ (\A c \in chats : c[2] # a)
  /\ (\A s \in sessions : s.app # a) /\ \A t \in Tokens : invites[t] # Nobody => invites[t].app # a

Create(p, a) ==
  /\ Unheard(a)
  /\ p.kind \in {"owner", "user"}
  /\ entries' = [entries EXCEPT ![a] = [owner |-> p.email, shared |-> {}, archived |-> FALSE, deployed |-> FALSE]]
  /\ UNCHANGED <<invites, sessions, purges, chats, said, admitted>>

\* What changes an entry and nothing else: share, unshare, archive, unarchive, deploy.
Amend(p, a, entry) ==
  /\ AdmitsOwner(p, a) /\ entry # entries[a]
  /\ entries' = [entries EXCEPT ![a] = entry]
  /\ UNCHANGED <<invites, sessions, purges, chats, said, admitted>>

ShareWithEmail(p, a, e) == Amend(p, a, [entries[a] EXCEPT !.shared = @ \cup {e}])
UnshareEmail(p, a, e) == Amend(p, a, [entries[a] EXCEPT !.shared = @ \ {e}])
Retire(p, a) == Amend(p, a, [entries[a] EXCEPT !.archived = ~@])
Deploy(p, a) == Amend(p, a, [entries[a] EXCEPT !.deployed = TRUE])

\* Removing an application takes its invites and sessions along.
Forget(a) ==
  /\ entries' = [entries EXCEPT ![a] = Nobody]
  /\ invites' = [t \in Tokens |-> IF invites[t] # Nobody /\ invites[t].app = a THEN Nobody ELSE invites[t]]
  /\ sessions' = {s \in sessions : s.app # a}

\* Up to the await: a deployed application is purged by force, undeployed first.
BeginPurge(p, a) ==
  /\ AdmitsOwner(p, a) /\ entries[a].archived
  /\ IF entries[a].deployed
     THEN purges' = purges \cup {a} /\ UNCHANGED <<entries, invites, sessions>>
     ELSE Forget(a) /\ UNCHANGED purges
  /\ UNCHANGED <<chats, said, admitted>>

\* Mutant of Purged: the invites and sessions are those read before the await.
PurgedEntry(a) ==
  /\ a \in purges
  /\ entries' = [entries EXCEPT ![a] = Nobody] /\ UNCHANGED <<invites, sessions>>
  /\ purges' = purges \ {a}
  /\ UNCHANGED <<chats, said, admitted>>

\* After it, whatever became of the undeployment and of the application.
Purged(a) ==
  /\ a \in purges
  /\ Forget(a)
  /\ purges' = purges \ {a}
  /\ UNCHANGED <<chats, said, admitted>>

-----------------------------------------------------------------------------
(* Invites and sessions *)

Open(t) == invites[t] # Nobody /\ ~invites[t].used /\ ~invites[t].expired

\* Spent and expired invites are dropped; the limit is on what remains.
InviteColleague(p, a, t) ==
  /\ AdmitsOwner(p, a)
  /\ invites[t] = Nobody /\ admitted[t].made = 0
  /\ Cardinality({u \in Tokens : Open(u)}) < MaxInvites
  /\ invites' = [u \in Tokens |-> IF u = t THEN [app |-> a, used |-> FALSE, expired |-> FALSE]
                                  ELSE IF Open(u) THEN invites[u] ELSE Nobody]
  /\ UNCHANGED <<entries, sessions, purges, chats, said, admitted>>

Unexpired == {s \in sessions : ~s.expired}

\* tokenSession: expired sessions are dropped even when there is no room for another one.
TokenSession(via, a) ==
  LET fresh == [via |-> via, app |-> a, expired |-> FALSE, copy |-> 0]
      again == [fresh EXCEPT !.copy = 1]
  IN  sessions' = Unexpired \cup
        (IF Cardinality(Unexpired) >= MaxSessions THEN {}
         ELSE {IF fresh \in Unexpired THEN again ELSE fresh})

HasRoom == Cardinality(Unexpired) < MaxSessions

\* POST /api/session with the owner token.
SignIn ==
  /\ [via |-> Nobody, app |-> Nobody, expired |-> FALSE, copy |-> 1] \notin sessions
  /\ TokenSession(Nobody, Nobody)
  /\ UNCHANGED <<entries, invites, purges, chats, said, admitted>>

\* Mutant of Accept: the invite is spent before a session is sure.
AcceptSpending(t) ==
  /\ Open(t)
  /\ TokenSession(t, invites[t].app)
  /\ invites' = [invites EXCEPT ![t].used = TRUE]
  /\ admitted' = IF HasRoom THEN [admitted EXCEPT ![t] = [made |-> @.made + 1, given |-> @.given + 1]] ELSE admitted
  /\ UNCHANGED <<entries, purges, chats, said>>

\* POST /api/session with an invite: spent only once there is a session.
Accept(t) ==
  /\ Open(t)
  /\ TokenSession(t, invites[t].app)
  /\ IF HasRoom
     THEN /\ invites' = [invites EXCEPT ![t].used = TRUE]
          /\ admitted' = [admitted EXCEPT ![t] = [made |-> @.made + 1, given |-> @.given + 1]]
     ELSE UNCHANGED <<invites, admitted>>
  /\ UNCHANGED <<entries, purges, chats, said>>

Stop == purges' = {} /\ chats' = {}

\* The process ends between the two writes of an acceptance.
CrashInAccept(t) ==
  /\ Open(t) /\ HasRoom /\ admitted[t].made = 0
  /\ TokenSession(t, invites[t].app)
  /\ admitted' = [admitted EXCEPT ![t].made = @ + 1]
  /\ Stop /\ UNCHANGED <<entries, invites, said>>

Crash ==
  /\ purges # {} \/ chats # {}
  /\ Stop /\ UNCHANGED <<entries, invites, sessions, said, admitted>>

Logout(s) ==
  /\ ~s.expired
  /\ sessions' = sessions \ {s}
  /\ UNCHANGED <<entries, invites, purges, chats, said, admitted>>

\* Time passes: 24 hours for a session, one for an invite.
SessionExpires(s) ==
  /\ ~s.expired
  /\ sessions' = (sessions \ {s}) \cup {[s EXCEPT !.expired = TRUE]}
  /\ UNCHANGED <<entries, invites, purges, chats, said, admitted>>

InviteExpires(t) ==
  /\ Open(t)
  /\ invites' = [invites EXCEPT ![t].expired = TRUE]
  /\ UNCHANGED <<entries, sessions, purges, chats, said, admitted>>

-----------------------------------------------------------------------------
(* Requests that await the model *)

\* Up to the await: the route asks for access.  One chat at a time bounds the model.
Chat(p, a) ==
  /\ Admits(p, a) /\ chats = {}
  /\ chats' = {<<p, a>>}
  /\ UNCHANGED <<entries, invites, sessions, purges, said, admitted>>

\* Mutant of RecordChat: the access that was granted before the await is enough.
RecordAnyChat(c) ==
  /\ chats' = chats \ {c}
  /\ said' = ~said
  /\ UNCHANGED <<entries, invites, sessions, purges, admitted>>

\* recordChat asks again; a reply that is not recorded is not sent either.
RecordChat(c) ==
  /\ chats' = chats \ {c}
  /\ said' = IF Admits(c[1], c[2]) THEN ~said ELSE said
  /\ UNCHANGED <<entries, invites, sessions, purges, admitted>>

-----------------------------------------------------------------------------
AccessNext ==
  \/ \E p \in Principals, a \in Apps :
       \/ Create(p, a) \/ BeginPurge(p, a) \/ Chat(p, a)
       \/ entries[a] # Nobody /\ (Retire(p, a) \/ Deploy(p, a))
       \/ \E e \in Emails : entries[a] # Nobody /\ (ShareWithEmail(p, a, e) \/ UnshareEmail(p, a, e))
       \/ \E t \in Tokens : InviteColleague(p, a, t)
  \/ \E a \in Apps : Purged(a)
  \/ \E t \in Tokens : Accept(t) \/ CrashInAccept(t) \/ InviteExpires(t)
  \/ \E s \in sessions : Logout(s) \/ SessionExpires(s)
  \/ \E c \in chats : RecordChat(c)
  \/ SignIn \/ Crash

AccessSpec == AccessInit /\ [][AccessNext]_avars

-----------------------------------------------------------------------------
(* Properties *)

\* However acceptances are refused, cut short or repeated, an invite hands out at most one
\* session, and it is never spent without one having been made.
InviteAdmitsOne ==
  \A t \in Tokens :
    /\ admitted[t].given <= 1
    /\ invites[t] # Nobody /\ invites[t].used => admitted[t].made >= 1

\* No invite and no session of an application outlives it, also not one made while its
\* purge was waiting.
PurgedIsForgotten ==
  /\ \A t \in Tokens : invites[t] # Nobody => entries[invites[t].app] # Nobody
  /\ \A s \in sessions : s.app # Nobody => entries[s.app] # Nobody

\* What someone said is recorded only while the application is open to them, whatever
\* happened to it or to its sharing while the model was thinking.
ChatHasAccess == [][said' # said => \E c \in chats \ chats' : Admits(c[1], c[2])]_avars
=============================================================================
