---------------------------- MODULE Access_proofs ----------------------------
(***************************************************************************)
(* Theorems about who may work on an application, for any applications,    *)
(* people and invites.                                                     *)
(***************************************************************************)
EXTENDS Access, FiniteSetTheorems, TLAPS

(* Invites admit once, and what belongs to an application ends with it.

   An invite that can still be accepted has handed out nothing: what was made from it, if
   anything, was made by an acceptance that a crash cut short, at most one.  Sessions are
   finitely many, or their number would mean nothing.                                    *)

InvitesCounted ==
  \A t \in Tokens :
    /\ admitted[t].given <= 1 /\ admitted[t].given <= admitted[t].made
    /\ invites[t] # Nobody =>
         IF invites[t].used THEN admitted[t].made >= 1
         ELSE admitted[t].given = 0 /\ admitted[t].made <= 1

AccessInv == AccessTypeOK /\ IsFiniteSet(sessions) /\ InvitesCounted /\ PurgedIsForgotten

LEMMA AccessInvInit == AccessInit => AccessInv
<1> SUFFICES ASSUME AccessInit PROVE AccessInv
  OBVIOUS
<1>1. IsFiniteSet(sessions) /\ Cardinality(sessions) = 0
  BY FS_EmptySet DEF AccessInit
<1>2. AccessTypeOK
  <2>1. admitted \in [Tokens -> [made : 0..2, given : 0..2]]
    BY 0 \in 0..2 DEF AccessInit
  <2>2. entries \in [Apps -> Entry \cup {Nobody}] /\ invites \in [Tokens -> Invite \cup {Nobody}]
    BY DEF AccessInit
  <2>3. Cardinality(sessions) <= MaxSessions
    BY <1>1, AccessAssumption
  <2> QED
    BY <1>1, <2>1, <2>2, <2>3 DEF AccessInit, AccessTypeOK
<1>3. InvitesCounted /\ PurgedIsForgotten
  BY DEF AccessInit, InvitesCounted, PurgedIsForgotten
<1> QED
  BY <1>1, <1>2, <1>3 DEF AccessInv

\* One element more.
LEMMA OneMore ==
  ASSUME NEW S, IsFiniteSet(S), NEW x
  PROVE  /\ IsFiniteSet(S \cup {x}) /\ Cardinality(S) \in Nat /\ Cardinality(S \cup {x}) \in Nat
         /\ Cardinality(S \cup {x}) <= Cardinality(S) + 1
<1>1. Cardinality(S) \in Nat
  BY FS_CardinalityType
<1>2. /\ IsFiniteSet(S \cup {x})
      /\ Cardinality(S \cup {x}) = IF x \in S THEN Cardinality(S) ELSE Cardinality(S) + 1
  BY FS_AddElement
<1> QED
  BY <1>1, <1>2

\* Whoever asks is somebody the platform knows of.
LEMMA PrincipalsKnown == AccessTypeOK => Principals \subseteq Principal
<1> SUFFICES ASSUME AccessTypeOK, NEW p \in Principals PROVE p \in Principal
  OBVIOUS
<1>1. ASSUME NEW s \in sessions, p = OfSession(s) PROVE p \in Principal
  BY <1>1 DEF OfSession, Principal, AccessTypeOK, Session
<1>2. ASSUME NEW e \in Emails, p = ByProxy(e) PROVE p \in Principal
  BY <1>2 DEF ByProxy, Principal
<1>3. CASE p = [kind |-> "owner", email |-> Nobody, app |-> Nobody]
  BY <1>3 DEF Principal
<1> QED
  BY <1>1, <1>2, <1>3 DEF Principals

-----------------------------------------------------------------------------
(* The steps *)

\* An application appears or changes.
LEMMA AccessInvEntry ==
  ASSUME AccessInv, NEW a \in Apps, NEW entry \in Entry,
         entries' = [entries EXCEPT ![a] = entry],
         UNCHANGED <<invites, sessions, purges, chats, said, admitted>>
  PROVE  AccessInv'
<1>1. AccessTypeOK' /\ IsFiniteSet(sessions)'
  BY DEF AccessInv, AccessTypeOK
<1>2. InvitesCounted'
  BY DEF AccessInv, InvitesCounted
<1>3. \A b \in Apps : entries[b] # Nobody => entries'[b] # Nobody
  BY AccessAssumption DEF AccessInv, AccessTypeOK
<1>4. /\ \A t \in Tokens : invites[t] # Nobody => invites[t].app \in Apps
      /\ \A s \in sessions : s.app # Nobody => s.app \in Apps
  BY DEF AccessInv, AccessTypeOK, Invite, Session
<1>5. PurgedIsForgotten'
  BY <1>3, <1>4 DEF AccessInv, PurgedIsForgotten
<1> QED
  BY <1>1, <1>2, <1>5 DEF AccessInv

LEMMA AccessInvCreate ==
  ASSUME AccessInv, NEW p \in Principals, NEW a \in Apps, Create(p, a)
  PROVE  AccessInv'
<1>1. p.email \in Emails \cup {Nobody}
  BY PrincipalsKnown DEF AccessInv, Principal
<1>2. [owner |-> p.email, shared |-> {}, archived |-> FALSE, deployed |-> FALSE] \in Entry
  BY <1>1 DEF Entry
<1> QED
  BY <1>2, AccessInvEntry DEF Create

LEMMA AccessInvAmend ==
  ASSUME AccessInv, NEW p, NEW a \in Apps, entries[a] # Nobody,
         \/ Retire(p, a) \/ Deploy(p, a)
         \/ \E e \in Emails : ShareWithEmail(p, a, e) \/ UnshareEmail(p, a, e)
  PROVE  AccessInv'
<1>1. entries[a] \in Entry
  BY DEF AccessInv, AccessTypeOK
<1>2. ASSUME NEW entry \in Entry, Amend(p, a, entry) PROVE AccessInv'
  BY <1>2, AccessInvEntry DEF Amend
<1>3. /\ [entries[a] EXCEPT !.archived = ~@] \in Entry
      /\ [entries[a] EXCEPT !.deployed = TRUE] \in Entry
  BY <1>1 DEF Entry
<1>4. \A e \in Emails : /\ [entries[a] EXCEPT !.shared = @ \cup {e}] \in Entry
                        /\ [entries[a] EXCEPT !.shared = @ \ {e}] \in Entry
  BY <1>1 DEF Entry
<1> QED
  BY <1>2, <1>3, <1>4 DEF Retire, Deploy, ShareWithEmail, UnshareEmail

\* Removing an application leaves nothing of it.
LEMMA AccessInvForget ==
  ASSUME AccessInv, NEW a \in Apps, Forget(a), purges' \subseteq Apps, UNCHANGED <<chats, said, admitted>>
  PROVE  AccessInv'
<1>1. sessions' \in SUBSET sessions /\ sessions' = {s \in sessions : s.app # a}
  BY DEF Forget
<1>2. IsFiniteSet(sessions') /\ Cardinality(sessions') <= Cardinality(sessions)
      /\ Cardinality(sessions) \in Nat /\ Cardinality(sessions') \in Nat
  BY <1>1, FS_Subset, FS_CardinalityType DEF AccessInv
<1>3. Cardinality(sessions') <= MaxSessions
  BY <1>2, AccessAssumption DEF AccessInv, AccessTypeOK
<1>4. \A t \in Tokens : invites'[t] = IF invites[t] # Nobody /\ invites[t].app = a THEN Nobody ELSE invites[t]
  BY DEF Forget
<1>5. AccessTypeOK'
  <2>1. invites' \in [Tokens -> Invite \cup {Nobody}]
    BY DEF Forget, AccessInv, AccessTypeOK
  <2>2. entries' \in [Apps -> Entry \cup {Nobody}]
    BY DEF Forget, AccessInv, AccessTypeOK
  <2> QED
    BY <1>1, <1>3, <2>1, <2>2 DEF AccessInv, AccessTypeOK
<1>6. InvitesCounted'
  BY <1>4 DEF AccessInv, InvitesCounted
<1>7. PurgedIsForgotten'
  <2>1. \A b \in Apps : b # a => entries'[b] = entries[b]
    BY DEF Forget, AccessInv, AccessTypeOK
  <2>2. \A t \in Tokens : invites'[t] # Nobody =>
          invites'[t] = invites[t] /\ invites[t].app \in Apps \ {a}
    BY <1>4 DEF AccessInv, AccessTypeOK, Invite
  <2>3. \A s \in sessions' : s \in sessions /\ (s.app # Nobody => s.app \in Apps \ {a})
    BY <1>1 DEF AccessInv, AccessTypeOK, Session
  <2> QED
    BY <2>1, <2>2, <2>3 DEF AccessInv, PurgedIsForgotten
<1> QED
  BY <1>2, <1>5, <1>6, <1>7 DEF AccessInv

LEMMA AccessInvPurge ==
  ASSUME AccessInv, NEW a \in Apps, Purged(a) \/ \E p \in Principals : BeginPurge(p, a)
  PROVE  AccessInv'
<1>1. ASSUME Forget(a), purges' \subseteq purges, UNCHANGED <<chats, said, admitted>> PROVE AccessInv'
  BY <1>1, AccessInvForget DEF AccessInv, AccessTypeOK
<1>2. ASSUME purges' = purges \cup {a}, UNCHANGED <<entries, invites, sessions, chats, said, admitted>>
      PROVE  AccessInv'
  BY <1>2 DEF AccessInv, AccessTypeOK, InvitesCounted, PurgedIsForgotten
<1>3. CASE Purged(a)
  BY <1>1, <1>3 DEF Purged
<1>4. ASSUME NEW p \in Principals, BeginPurge(p, a) PROVE AccessInv'
  BY <1>1, <1>2, <1>4 DEF BeginPurge
<1> QED
  BY <1>3, <1>4

LEMMA AccessInvInvite ==
  ASSUME AccessInv, NEW p \in Principals, NEW a \in Apps, NEW t \in Tokens, InviteColleague(p, a, t)
  PROVE  AccessInv'
<1> DEFINE n == [app |-> a, used |-> FALSE, expired |-> FALSE]
<1>1. /\ entries[a] # Nobody /\ admitted[t].made = 0 /\ invites[t] = Nobody
      /\ UNCHANGED <<entries, sessions, purges, chats, said, admitted>>
  BY DEF InviteColleague, AdmitsOwner, Admits
<1>2. n \in Invite /\ n.app = a /\ n.used = FALSE
  BY DEF Invite
<1> HIDE DEF n
<1>3. invites' = [u \in Tokens |-> IF u = t THEN n ELSE IF Open(u) THEN invites[u] ELSE Nobody]
  BY DEF InviteColleague, n
<1>4. AccessTypeOK'
  <2>1. invites' \in [Tokens -> Invite \cup {Nobody}]
    BY <1>2, <1>3 DEF AccessInv, AccessTypeOK
  <2> QED
    BY <1>1, <2>1 DEF AccessInv, AccessTypeOK
<1>5. admitted[t].given = 0
  BY <1>1 DEF AccessInv, AccessTypeOK, InvitesCounted
<1>6. InvitesCounted'
  BY <1>1, <1>2, <1>3, <1>5 DEF AccessInv, InvitesCounted
<1>7. PurgedIsForgotten'
  BY <1>1, <1>2, <1>3 DEF AccessInv, PurgedIsForgotten
<1> QED
  BY <1>1, <1>4, <1>6, <1>7 DEF AccessInv

\* A session more, if there is room for one, of an application there is; the expired ones go.
LEMMA TokenSessionKeeps ==
  ASSUME AccessInv, NEW via \in Tokens \cup {Nobody}, NEW a \in Apps \cup {Nobody},
         a # Nobody => entries[a] # Nobody, TokenSession(via, a)
  PROVE  /\ sessions' \subseteq Session /\ IsFiniteSet(sessions') /\ Cardinality(sessions') <= MaxSessions
         /\ \A s \in sessions' : s \in sessions \/ s.app = a
<1> DEFINE fresh == [via |-> via, app |-> a, expired |-> FALSE, copy |-> 0]
           again == [fresh EXCEPT !.copy = 1]
<1>1. /\ fresh \in Session /\ again \in Session /\ fresh.app = a /\ again.app = a
  BY 0 \in 0..1, 1 \in 0..1 DEF Session
<1>2. PICK x \in {fresh, again} :
        sessions' = Unexpired \cup (IF Cardinality(Unexpired) >= MaxSessions THEN {} ELSE {x})
  BY DEF TokenSession
<1>3. Unexpired \in SUBSET sessions
  BY DEF Unexpired
<1>4. /\ IsFiniteSet(Unexpired) /\ Cardinality(Unexpired) \in Nat /\ Cardinality(Unexpired) <= MaxSessions
  BY <1>3, FS_Subset, FS_CardinalityType, AccessAssumption DEF AccessInv, AccessTypeOK
<1>5. x \in Session /\ x.app = a
  BY <1>1, <1>2
<1> HIDE DEF fresh, again
<1>6. CASE Cardinality(Unexpired) >= MaxSessions
  <2>1. sessions' = Unexpired
    BY <1>2, <1>6
  <2> QED
    BY <1>3, <1>4, <2>1 DEF AccessInv, AccessTypeOK
<1>7. CASE ~(Cardinality(Unexpired) >= MaxSessions)
  <2>1. sessions' = Unexpired \cup {x}
    BY <1>2, <1>7
  <2>2. IsFiniteSet(sessions') /\ Cardinality(sessions') <= Cardinality(Unexpired) + 1
        /\ Cardinality(sessions') \in Nat
    BY <1>4, <2>1, OneMore
  <2>3. Cardinality(sessions') <= MaxSessions
    BY <1>4, <1>7, <2>2, AccessAssumption
  <2> QED
    BY <1>3, <1>5, <2>1, <2>2, <2>3 DEF AccessInv, AccessTypeOK
<1> QED
  BY <1>6, <1>7

\* An invite that can be accepted is one of an application there is.
LEMMA OpenInvite ==
  ASSUME AccessInv, NEW t \in Tokens, Open(t)
  PROVE  /\ invites[t] \in Invite /\ invites[t] # Nobody /\ ~invites[t].used
         /\ invites[t].app \in Apps /\ entries[invites[t].app] # Nobody
         /\ admitted[t].given = 0 /\ admitted[t].made \in {0, 1} /\ admitted[t] \in [made : 0..2, given : 0..2]
  BY DEF Open, AccessInv, AccessTypeOK, Invite, InvitesCounted, PurgedIsForgotten

\* What only adds and drops sessions.
LEMMA AccessInvSessions ==
  ASSUME AccessInv, sessions' \subseteq Session, IsFiniteSet(sessions'), Cardinality(sessions') <= MaxSessions,
         \A s \in sessions' : s.app # Nobody => entries[s.app] # Nobody,
         UNCHANGED <<entries, said>>, purges' \subseteq purges, chats' \subseteq chats,
         AccessTypeOK => /\ invites' \in [Tokens -> Invite \cup {Nobody}]
                         /\ admitted' \in [Tokens -> [made : 0..2, given : 0..2]],
         \A t \in Tokens : invites'[t] # Nobody => invites[t] # Nobody /\ invites'[t].app = invites[t].app,
         InvitesCounted'
  PROVE  AccessInv'
<1>1. AccessTypeOK'
  BY DEF AccessInv, AccessTypeOK
<1>2. PurgedIsForgotten'
  BY DEF AccessInv, PurgedIsForgotten
<1> QED
  BY <1>1, <1>2 DEF AccessInv

LEMMA AccessInvAccept ==
  ASSUME AccessInv, NEW t \in Tokens, Accept(t) \/ CrashInAccept(t)
  PROVE  AccessInv'
<1>1. Open(t) /\ TokenSession(t, invites[t].app) /\ UNCHANGED <<entries, said>>
      /\ purges' \subseteq purges /\ chats' \subseteq chats
  BY DEF Accept, CrashInAccept, Stop
<1>2. /\ invites[t] \in Invite /\ invites[t] # Nobody /\ ~invites[t].used
      /\ invites[t].app \in Apps /\ entries[invites[t].app] # Nobody
      /\ admitted[t].given = 0 /\ admitted[t].made \in {0, 1} /\ admitted[t] \in [made : 0..2, given : 0..2]
  BY <1>1, OpenInvite
<1>3. /\ sessions' \subseteq Session /\ IsFiniteSet(sessions') /\ Cardinality(sessions') <= MaxSessions
      /\ \A s \in sessions' : s \in sessions \/ s.app = invites[t].app
  BY <1>1, <1>2, TokenSessionKeeps
<1>4. \A s \in sessions' : s.app # Nobody => entries[s.app] # Nobody
  BY <1>2, <1>3 DEF AccessInv, PurgedIsForgotten
<1>5. /\ invites \in [Tokens -> Invite \cup {Nobody}]
      /\ admitted \in [Tokens -> [made : 0..2, given : 0..2]]
      /\ InvitesCounted
  BY DEF AccessInv, AccessTypeOK
<1> DEFINE spent == [invites[t] EXCEPT !.used = TRUE]
           both == [made |-> admitted[t].made + 1, given |-> admitted[t].given + 1]
           made == [made |-> admitted[t].made + 1, given |-> admitted[t].given]
<1>6. spent \in Invite /\ spent.used = TRUE /\ spent.app = invites[t].app
  BY <1>2 DEF Invite
<1>7. both \in [made : 0..2, given : 0..2] /\ made \in [made : 0..2, given : 0..2]
  <2>1. admitted[t].made + 1 \in 0..2 /\ admitted[t].given + 1 \in 0..2 /\ admitted[t].given \in 0..2
    BY <1>2
  <2> QED
    BY <2>1
<1>8. \/ /\ invites' = [invites EXCEPT ![t] = spent]
         /\ admitted' = [admitted EXCEPT ![t] = both]
      \/ /\ invites' = invites /\ admitted[t].made = 0
         /\ admitted' = [admitted EXCEPT ![t] = made]
      \/ invites' = invites /\ admitted' = admitted
  <2>1. both = [made |-> admitted[t].made + 1, given |-> admitted[t].given + 1]
        /\ [admitted[t] EXCEPT !.made = @ + 1] = made
    BY <1>2
  <2> QED
    BY <2>1 DEF Accept, CrashInAccept
<1>9. /\ both.made = admitted[t].made + 1 /\ both.given = 1
      /\ made.made = admitted[t].made + 1 /\ made.given = 0
  BY <1>2
<1> HIDE DEF spent, both, made
<1>10. CASE /\ invites' = [invites EXCEPT ![t] = spent]
            /\ admitted' = [admitted EXCEPT ![t] = both]
  <2>1. InvitesCounted'
    BY <1>2, <1>5, <1>6, <1>9, <1>10 DEF InvitesCounted
  <2>2. /\ invites' \in [Tokens -> Invite \cup {Nobody}]
        /\ admitted' \in [Tokens -> [made : 0..2, given : 0..2]]
        /\ \A u \in Tokens : invites'[u] # Nobody => invites[u] # Nobody /\ invites'[u].app = invites[u].app
    BY <1>2, <1>5, <1>6, <1>7, <1>10
  <2> QED
    BY <1>1, <1>3, <1>4, <2>1, <2>2, AccessInvSessions
<1>11. CASE /\ invites' = invites /\ admitted[t].made = 0
            /\ admitted' = [admitted EXCEPT ![t] = made]
  <2>1. InvitesCounted'
    BY <1>2, <1>5, <1>9, <1>11 DEF InvitesCounted
  <2>2. admitted' \in [Tokens -> [made : 0..2, given : 0..2]]
    BY <1>5, <1>7, <1>11
  <2> QED
    BY <1>1, <1>3, <1>4, <1>5, <1>11, <2>1, <2>2, AccessInvSessions
<1>12. CASE invites' = invites /\ admitted' = admitted
  <2>1. InvitesCounted'
    BY <1>5, <1>12 DEF InvitesCounted
  <2> QED
    BY <1>1, <1>3, <1>4, <1>5, <1>12, <2>1, AccessInvSessions
<1> QED
  BY <1>8, <1>10, <1>11, <1>12

LEMMA AccessInvSignIn ==
  ASSUME AccessInv, SignIn
  PROVE  AccessInv'
<1>1. /\ TokenSession(Nobody, Nobody)
      /\ UNCHANGED <<entries, invites, purges, chats, said, admitted>>
  BY DEF SignIn
<1>2. /\ sessions' \subseteq Session /\ IsFiniteSet(sessions') /\ Cardinality(sessions') <= MaxSessions
      /\ \A s \in sessions' : s \in sessions \/ s.app = Nobody
  BY <1>1, TokenSessionKeeps
<1>3. InvitesCounted'
  BY <1>1 DEF AccessInv, InvitesCounted
<1> QED
  BY <1>1, <1>2, <1>3, AccessInvSessions DEF AccessInv, AccessTypeOK, PurgedIsForgotten

\* A session ends or expires.
LEMMA AccessInvSessionEnds ==
  ASSUME AccessInv, NEW s \in sessions, Logout(s) \/ SessionExpires(s)
  PROVE  AccessInv'
<1> DEFINE x == [s EXCEPT !.expired = TRUE]
           rest == sessions \ {s}
<1>1. s \in Session /\ x \in Session /\ x.app = s.app
  BY DEF AccessInv, AccessTypeOK, Session
<1> HIDE DEF x
<1>2. /\ UNCHANGED <<entries, invites, purges, chats, said, admitted>>
      /\ sessions' = rest \/ sessions' = rest \cup {x}
  BY DEF Logout, SessionExpires, x
<1>3. /\ IsFiniteSet(rest) /\ Cardinality(sessions) \in Nat /\ Cardinality(sessions) <= MaxSessions
      /\ Cardinality(rest) = Cardinality(sessions) - 1 /\ rest \subseteq sessions
  BY FS_RemoveElement, FS_CardinalityType DEF AccessInv, AccessTypeOK
<1> HIDE DEF rest
<1>4. /\ IsFiniteSet(rest \cup {x}) /\ Cardinality(rest \cup {x}) \in Nat
      /\ Cardinality(rest \cup {x}) <= Cardinality(sessions)
  <2>1. Cardinality(rest \cup {x}) <= Cardinality(rest) + 1 /\ IsFiniteSet(rest \cup {x})
        /\ Cardinality(rest \cup {x}) \in Nat /\ Cardinality(rest) \in Nat
    BY <1>3, OneMore
  <2> QED
    BY <1>3, <2>1
<1>5. IsFiniteSet(sessions') /\ Cardinality(sessions') <= MaxSessions
  BY <1>2, <1>3, <1>4, AccessAssumption
<1>6. sessions' \subseteq Session /\ \A z \in sessions' : z.app # Nobody => entries[z.app] # Nobody
  BY <1>1, <1>2, <1>3 DEF AccessInv, AccessTypeOK, PurgedIsForgotten
<1>7. InvitesCounted'
  BY <1>2 DEF AccessInv, InvitesCounted
<1> QED
  BY <1>2, <1>5, <1>6, <1>7, AccessInvSessions DEF AccessInv, AccessTypeOK

LEMMA AccessInvInviteExpires ==
  ASSUME AccessInv, NEW t \in Tokens, InviteExpires(t)
  PROVE  AccessInv'
<1> DEFINE i == [invites[t] EXCEPT !.expired = TRUE]
<1>1. /\ invites[t] \in Invite /\ invites[t] # Nobody
  BY OpenInvite DEF InviteExpires
<1>2. i \in Invite /\ i.used = invites[t].used /\ i.app = invites[t].app
  BY <1>1 DEF Invite
<1> HIDE DEF i
<1>3. /\ UNCHANGED <<entries, sessions, purges, chats, said, admitted>>
      /\ invites' = [invites EXCEPT ![t] = i]
  BY DEF InviteExpires, i
<1>4. InvitesCounted'
  BY <1>1, <1>2, <1>3 DEF AccessInv, AccessTypeOK, InvitesCounted
<1>5. /\ invites' \in [Tokens -> Invite \cup {Nobody}]
      /\ \A u \in Tokens : invites'[u] # Nobody => invites[u] # Nobody /\ invites'[u].app = invites[u].app
  BY <1>1, <1>2, <1>3 DEF AccessInv, AccessTypeOK
<1> QED
  BY <1>3, <1>4, <1>5, AccessInvSessions DEF AccessInv, AccessTypeOK, PurgedIsForgotten

\* What concerns chats only.
LEMMA AccessInvChats ==
  ASSUME AccessInv, UNCHANGED <<entries, invites, sessions, admitted>>,
         purges' \subseteq purges, chats' \subseteq Principal \X Apps, said' \in BOOLEAN
  PROVE  AccessInv'
  BY DEF AccessInv, AccessTypeOK, InvitesCounted, PurgedIsForgotten

LEMMA AccessInvNext == AccessInv /\ [AccessNext]_avars => AccessInv'
<1> SUFFICES ASSUME AccessInv, [AccessNext]_avars PROVE AccessInv'
  OBVIOUS
<1>1. ASSUME NEW p \in Principals, NEW a \in Apps, Chat(p, a) PROVE AccessInv'
  <2>1. p \in Principal
    BY PrincipalsKnown DEF AccessInv
  <2> QED
    BY <1>1, <2>1, AccessInvChats DEF Chat, AccessInv, AccessTypeOK
<1>2. ASSUME NEW c \in chats, RecordChat(c) PROVE AccessInv'
  BY <1>2, AccessInvChats DEF RecordChat, AccessInv, AccessTypeOK
<1>3. CASE Crash
  BY <1>3, AccessInvChats DEF Crash, Stop, AccessInv, AccessTypeOK
<1>4. CASE UNCHANGED avars
  BY <1>4, AccessInvChats DEF avars, AccessInv, AccessTypeOK
<1> QED
  BY <1>1, <1>2, <1>3, <1>4, AccessInvCreate, AccessInvAmend, AccessInvPurge, AccessInvInvite,
     AccessInvAccept, AccessInvSignIn, AccessInvSessionEnds, AccessInvInviteExpires
     DEF AccessNext

-----------------------------------------------------------------------------
(* Theorems *)

\* The records stay what they are, and there are never more sessions than the limit.
THEOREM AccessTypes == AccessSpec => []AccessTypeOK
<1>1. AccessInv => AccessTypeOK
  BY DEF AccessInv
<1> QED
  BY <1>1, AccessInvInit, AccessInvNext, PTL DEF AccessSpec

\* However acceptances are refused, cut short or repeated, an invite hands out at most one session
\* and is not spent without one.
THEOREM AccessInviteAdmitsOne == AccessSpec => []InviteAdmitsOne
<1>1. AccessInv => InviteAdmitsOne
  BY DEF AccessInv, InvitesCounted, InviteAdmitsOne
<1> QED
  BY <1>1, AccessInvInit, AccessInvNext, PTL DEF AccessSpec

\* No invite and no session outlives its application, whatever happened while its purge waited.
THEOREM AccessPurgedIsForgotten == AccessSpec => []PurgedIsForgotten
<1>1. AccessInv => PurgedIsForgotten
  BY DEF AccessInv
<1> QED
  BY <1>1, AccessInvInit, AccessInvNext, PTL DEF AccessSpec

\* A chat is recorded only while the application is open to the one who said it.
THEOREM AccessChatHasAccess == AccessSpec => ChatHasAccess
<1>1. [AccessNext]_avars => [said' # said => \E c \in chats \ chats' : Admits(c[1], c[2])]_avars
  <2> SUFFICES ASSUME AccessNext, said' # said
               PROVE  \E c \in chats \ chats' : Admits(c[1], c[2])
    OBVIOUS
  <2>1. PICK c \in chats : RecordChat(c)
    BY DEF AccessNext, Create, Amend, Retire, Deploy, ShareWithEmail, UnshareEmail, BeginPurge, Purged,
           InviteColleague, Accept, CrashInAccept, InviteExpires, Logout, SessionExpires, SignIn,
           Crash, Chat
  <2> QED
    BY <2>1 DEF RecordChat
<1> QED
  BY <1>1, PTL DEF AccessSpec, ChatHasAccess

=============================================================================
