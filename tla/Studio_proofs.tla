--------------------------- MODULE Studio_proofs ---------------------------
(***************************************************************************)
(* What is proved of the code editor and of the conversations, and why     *)
(* everything that is proved of one part of the studio holds of the studio *)
(* as a whole.                                                             *)
(***************************************************************************)
EXTENDS Studio, Contract_proofs, ModelGateway_proofs, Publication_proofs, Access_proofs, Deployments_proofs

-----------------------------------------------------------------------------
(* The code editor *)

EditRequest ==
  [kind : {"save", "rename", "delete"}, path : Paths, to : Paths \cup {Blank},
   content : Contents \cup {Blank}, base : Contents \cup {Blank}, state : {"sent", "done", "refused"}]

\* What a request is based on, and what it writes, the editor has shown or sent; and so has
\* it the base of the open file.
RequestsKnown ==
  \A r \in requests :
    /\ r.base \in seen \cup {Blank} /\ r.content \in seen \cup {Blank}
    /\ r.kind = "rename" => r.to \in Paths
BaseKnown == cur.base \in seen \cup {Blank}
OpeningOfPath == opening.state # "none" => opening.path \in Paths

CodeEditorInv ==
  CodeEditorTypeOK /\ IsFiniteSet(requests) /\ RequestsKnown /\ BaseKnown /\ OpeningOfPath

LEMMA CodeEditorInvInit == CodeEditorInit => CodeEditorInv
<1> SUFFICES ASSUME CodeEditorInit PROVE CodeEditorInv
  OBVIOUS
<1>1. IsFiniteSet({}) /\ Cardinality({}) = 0
  BY FS_EmptySet
<1>2. requests = {} /\ Cardinality(requests) <= MaxRequests
  BY <1>1, CodeEditorAssumption DEF CodeEditorInit
<1>3. CodeEditorTypeOK
  BY <1>2 DEF CodeEditorInit, CodeEditorTypeOK, NoFile, NotOpening
<1> QED
  BY <1>1, <1>2, <1>3 DEF CodeEditorInit, CodeEditorInv, RequestsKnown, BaseKnown, OpeningOfPath, NoFile, NotOpening

\* What leaves the requests as they are.
LEMMA CodeEditorInvQuiet ==
  ASSUME CodeEditorInv, requests' = requests, seen \subseteq seen', seen' \subseteq Contents,
         files' \in [Paths -> Contents \cup {Blank}], busy' \in BOOLEAN,
         cur' \in [path : Paths \cup {Blank}, base : Contents \cup {Blank},
                   doc : Contents \cup {Blank}, dirty : BOOLEAN],
         opening' \in [path : Paths \cup {Blank}, state : {"none", "asked", "answered"},
                       got : Contents \cup {Blank}],
         BaseKnown', OpeningOfPath'
  PROVE  CodeEditorInv'
<1>1. CodeEditorTypeOK'
  BY DEF CodeEditorInv, CodeEditorTypeOK
<1>2. RequestsKnown'
  BY DEF CodeEditorInv, RequestsKnown
<1> QED
  BY <1>1, <1>2 DEF CodeEditorInv

\* The user's and the browser's steps that send nothing, and the reading of a file.
LEMMA CodeEditorInvBrowser ==
  ASSUME CodeEditorInv,
         \/ \E p \in Paths : OpenFile(p) \/ Poll(p) \/ New(p)
         \/ Reload \/ Opened \/ ReadFile
         \/ \E c \in Contents : Type(c)
         \/ \E p \in Paths, c \in Contents \cup {Blank} : Elsewhere(p, c)
  PROVE  CodeEditorInv'
<1> USE DEF CodeEditorInv, CodeEditorTypeOK, BaseKnown, OpeningOfPath
<1>1. ASSUME NEW p \in Paths, OpenFile(p) \/ Poll(p) PROVE CodeEditorInv'
  BY <1>1, CodeEditorInvQuiet DEF OpenFile, Poll, Open_
<1>2. ASSUME NEW p \in Paths, New(p) PROVE CodeEditorInv'
  BY <1>2, CodeEditorInvQuiet DEF New, NoFile, NotOpening
<1>3. CASE Reload
  BY <1>3, CodeEditorInvQuiet DEF Reload, Open_
<1>4. CASE Opened
  <2>1. UNCHANGED <<files, requests, busy>> /\ opening' = NotOpening
    BY <1>4 DEF Opened
  <2>2. CASE opening.got = Blank
    BY <1>4, <2>1, <2>2, CodeEditorInvQuiet DEF Opened, NotOpening
  <2>3. CASE opening.got # Blank
    <3>1. opening.got \in Contents /\ opening.path \in Paths
      BY <1>4, <2>3 DEF Opened
    <3>2. /\ cur' = [path |-> opening.path, base |-> opening.got, doc |-> opening.got, dirty |-> FALSE]
          /\ seen' = seen \cup {opening.got}
      BY <1>4, <2>3 DEF Opened
    <3> QED
      BY <2>1, <3>1, <3>2, CodeEditorInvQuiet DEF NotOpening
  <2> QED
    BY <2>2, <2>3
<1>5. CASE ReadFile
  BY <1>5, CodeEditorInvQuiet DEF ReadFile
<1>6. ASSUME NEW c \in Contents, Type(c) PROVE CodeEditorInv'
  BY <1>6, CodeEditorInvQuiet DEF Type
<1>7. ASSUME NEW p \in Paths, NEW c \in Contents \cup {Blank}, Elsewhere(p, c) PROVE CodeEditorInv'
  BY <1>7, CodeEditorInvQuiet DEF Elsewhere
<1> QED
  BY <1>1, <1>2, <1>3, <1>4, <1>5, <1>6, <1>7

\* Sending a request that the editor knows the base and the content of.
LEMMA CodeEditorInvSend ==
  ASSUME CodeEditorInv, NEW r \in EditRequest, Send(r),
         seen \subseteq seen', seen' \subseteq Contents,
         r.base \in seen' \cup {Blank}, r.content \in seen' \cup {Blank}, r.kind = "rename" => r.to \in Paths
  PROVE  CodeEditorInv'
<1>1. requests' = requests \cup {r} /\ Cardinality(requests) < MaxRequests
      /\ busy' = TRUE /\ UNCHANGED <<files, cur, opening>>
  BY DEF Send
<1>2. IsFiniteSet(requests') /\ Cardinality(requests') <= MaxRequests
  BY <1>1, OneMore, CodeEditorAssumption DEF CodeEditorInv
<1>3. CodeEditorTypeOK'
  BY <1>1, <1>2 DEF CodeEditorInv, CodeEditorTypeOK, EditRequest
<1>4. RequestsKnown' /\ BaseKnown' /\ OpeningOfPath'
  BY <1>1 DEF CodeEditorInv, RequestsKnown, BaseKnown, OpeningOfPath
<1> QED
  BY <1>2, <1>3, <1>4 DEF CodeEditorInv

LEMMA CodeEditorInvAsk ==
  ASSUME CodeEditorInv, Save \/ Delete \/ \E p \in Paths : Rename(p)
  PROVE  CodeEditorInv'
<1>1. CASE Save
  <2> DEFINE r == [kind |-> "save", path |-> cur.path, to |-> Blank, content |-> cur.doc,
                   base |-> cur.base, state |-> "sent"]
  <2>1. r \in EditRequest
    BY <1>1 DEF Save, EditRequest, CodeEditorInv, CodeEditorTypeOK
  <2>2. Send(r) /\ r.base \in seen' \cup {Blank} /\ r.content \in seen' \cup {Blank} /\ r.kind # "rename"
        /\ seen \subseteq seen' /\ seen' \subseteq Contents
    BY <1>1 DEF Save, CodeEditorInv, CodeEditorTypeOK, BaseKnown
  <2> QED
    BY <2>1, <2>2, CodeEditorInvSend
<1>2. CASE Delete
  <2> DEFINE r == [kind |-> "delete", path |-> cur.path, to |-> Blank, content |-> Blank,
                   base |-> cur.base, state |-> "sent"]
  <2>1. r \in EditRequest
    BY <1>2 DEF Delete, EditRequest, CodeEditorInv, CodeEditorTypeOK
  <2>2. Send(r) /\ r.base \in seen' \cup {Blank} /\ r.content \in seen' \cup {Blank} /\ r.kind # "rename"
        /\ seen \subseteq seen' /\ seen' \subseteq Contents
    BY <1>2 DEF Delete, CodeEditorInv, CodeEditorTypeOK, BaseKnown
  <2> QED
    BY <2>1, <2>2, CodeEditorInvSend
<1>3. ASSUME NEW p \in Paths, Rename(p) PROVE CodeEditorInv'
  <2> DEFINE r == [kind |-> "rename", path |-> cur.path, to |-> p, content |-> Blank,
                   base |-> cur.base, state |-> "sent"]
  <2>1. r \in EditRequest
    BY <1>3 DEF Rename, EditRequest, CodeEditorInv, CodeEditorTypeOK
  <2>2. Send(r) /\ r.base \in seen' \cup {Blank} /\ r.content \in seen' \cup {Blank} /\ r.to \in Paths
        /\ seen \subseteq seen' /\ seen' \subseteq Contents
    BY <1>3 DEF Rename, CodeEditorInv, CodeEditorTypeOK, BaseKnown
  <2> QED
    BY <2>1, <2>2, CodeEditorInvSend
<1> QED
  BY <1>1, <1>2, <1>3

\* The answer to a request is the request in another state.
LEMMA CodeEditorInvAnswer ==
  ASSUME CodeEditorInv, NEW r \in requests, NEW s \in {"done", "refused"}, Answered(r, s),
         files' \in [Paths -> Contents \cup {Blank}], UNCHANGED <<cur, opening, busy, seen>>
  PROVE  CodeEditorInv'
<1> DEFINE a == [r EXCEPT !.state = s]
           rest == requests \ {r}
<1>1. requests' = rest \cup {a}
  BY DEF Answered
<1>2. r \in EditRequest /\ requests \subseteq EditRequest
  BY DEF CodeEditorInv, CodeEditorTypeOK, EditRequest
<1>3. a \in EditRequest
  BY <1>2 DEF EditRequest
<1>4. a.base = r.base /\ a.content = r.content /\ a.kind = r.kind /\ a.to = r.to
  BY <1>2 DEF EditRequest
<1>5. IsFiniteSet(rest) /\ Cardinality(rest) = Cardinality(requests) - 1
  BY FS_RemoveElement DEF CodeEditorInv
<1>6. Cardinality(requests) \in Nat /\ Cardinality(requests) <= MaxRequests
  BY FS_CardinalityType DEF CodeEditorInv, CodeEditorTypeOK
<1> HIDE DEF a, rest
<1>7. IsFiniteSet(rest \cup {a}) /\ Cardinality(rest \cup {a}) \in Nat
      /\ Cardinality(rest \cup {a}) <= Cardinality(rest) + 1
  BY <1>5, OneMore
<1>8. IsFiniteSet(requests') /\ Cardinality(requests') <= MaxRequests
  BY <1>1, <1>5, <1>6, <1>7, CodeEditorAssumption
<1>9. requests' \subseteq EditRequest
  BY <1>1, <1>2, <1>3 DEF rest
<1>10. CodeEditorTypeOK'
  BY <1>8, <1>9 DEF CodeEditorInv, CodeEditorTypeOK, EditRequest
<1>11. RequestsKnown'
  BY <1>1, <1>4 DEF CodeEditorInv, RequestsKnown, rest
<1> QED
  BY <1>8, <1>10, <1>11 DEF CodeEditorInv, BaseKnown, OpeningOfPath

\* A rename moves a content that is there to a path that had none.
LEMMA RenameMoves ==
  ASSUME CodeEditorInv, NEW r \in requests, Accepts(r), r.kind = "rename"
  PROVE  r.to \in Paths /\ r.to # r.path /\ files[r.to] = Blank
  BY DEF CodeEditorInv, CodeEditorTypeOK, RequestsKnown, Accepts

LEMMA CodeEditorInvServed ==
  ASSUME CodeEditorInv, NEW r \in requests, Replied(r) \/ Handle(r) \/ Refuse(r)
  PROVE  CodeEditorInv'
<1>1. r \in EditRequest
  BY DEF CodeEditorInv, CodeEditorTypeOK, EditRequest
<1>2. CASE Refuse(r)
  BY <1>2, CodeEditorInvAnswer DEF Refuse, CodeEditorInv, CodeEditorTypeOK
<1>3. CASE Handle(r)
  <2>1. Answered(r, "done") /\ UNCHANGED <<cur, opening, busy, seen>> /\ Accepts(r)
    BY <1>3 DEF Handle
  <2>2. files \in [Paths -> Contents \cup {Blank}]
    BY DEF CodeEditorInv, CodeEditorTypeOK
  <2>3. files' \in [Paths -> Contents \cup {Blank}]
    <3>1. CASE r.kind = "save"
      BY <1>1, <1>3, <2>2, <3>1 DEF Handle, EditRequest
    <3>2. CASE r.kind = "delete"
      BY <1>1, <1>3, <2>2, <3>2 DEF Handle, EditRequest
    <3>3. CASE r.kind = "rename"
      BY <1>1, <1>3, <2>1, <2>2, <3>3, RenameMoves DEF Handle, EditRequest
    <3> QED
      BY <1>1, <3>1, <3>2, <3>3 DEF EditRequest
  <2> QED
    BY <2>1, <2>3, CodeEditorInvAnswer
<1>4. CASE Replied(r)
  <2>1. requests' = requests \ {r} /\ busy' = FALSE /\ UNCHANGED <<files, seen>>
    BY <1>4 DEF Replied
  <2>2. IsFiniteSet(requests') /\ Cardinality(requests') <= MaxRequests
    <3>1. IsFiniteSet(requests \ {r}) /\ Cardinality(requests \ {r}) = Cardinality(requests) - 1
      BY FS_RemoveElement DEF CodeEditorInv
    <3>2. Cardinality(requests) \in Nat /\ Cardinality(requests) <= MaxRequests
      BY FS_CardinalityType DEF CodeEditorInv, CodeEditorTypeOK
    <3> QED
      BY <2>1, <3>1, <3>2, CodeEditorAssumption
  <2>3. r.base \in seen \cup {Blank} /\ r.content \in seen \cup {Blank} /\ (r.kind = "rename" => r.to \in Paths)
    BY DEF CodeEditorInv, RequestsKnown
  <2>4. cur' \in {cur, NoFile, [cur EXCEPT !.base = r.content, !.dirty = (cur.doc # r.content)]}
    BY <1>4 DEF Replied, Saved
  <2>5. cur' \in [path : Paths \cup {Blank}, base : Contents \cup {Blank}, doc : Contents \cup {Blank}, dirty : BOOLEAN]
        /\ BaseKnown'
    <3>1. cur \in [path : Paths \cup {Blank}, base : Contents \cup {Blank}, doc : Contents \cup {Blank}, dirty : BOOLEAN]
          /\ cur.base \in seen \cup {Blank} /\ seen \subseteq Contents
      BY DEF CodeEditorInv, CodeEditorTypeOK, BaseKnown
    <3>2. CASE cur' = cur
      BY <2>1, <3>1, <3>2 DEF BaseKnown
    <3>4. CASE cur' = NoFile
      BY <2>1, <3>4 DEF NoFile, BaseKnown
    <3>3. CASE cur' = [cur EXCEPT !.base = r.content, !.dirty = (cur.doc # r.content)]
      <4> DEFINE d == cur.doc # r.content
      <4>1. d \in BOOLEAN /\ r.content \in Contents \cup {Blank}
        BY <2>3, <3>1
      <4>2. cur' = [cur EXCEPT !.base = r.content, !.dirty = d]
        BY <3>3
      <4> HIDE DEF d
      <4>3. cur'.base = r.content
        BY <3>1, <4>2
      <4>4. BaseKnown'
        BY <2>1, <2>3, <4>3 DEF BaseKnown
      <4>5. cur' = [path |-> cur.path, base |-> r.content, doc |-> cur.doc, dirty |-> d]
        BY <3>1, <4>2
      <4>6. cur.path \in Paths \cup {Blank} /\ cur.doc \in Contents \cup {Blank}
        BY <3>1
      <4> QED
        BY <4>1, <4>4, <4>5, <4>6
    <3> QED
      BY <2>4, <3>2, <3>3, <3>4
  <2>6. opening' \in [path : Paths \cup {Blank}, state : {"none", "asked", "answered"}, got : Contents \cup {Blank}]
        /\ OpeningOfPath'
    BY <1>4, <2>3 DEF Replied, Open_, CodeEditorInv, CodeEditorTypeOK, OpeningOfPath
  <2>7. CodeEditorTypeOK'
    BY <2>1, <2>2, <2>5, <2>6 DEF CodeEditorInv, CodeEditorTypeOK
  <2>8. RequestsKnown'
    BY <2>1 DEF CodeEditorInv, RequestsKnown
  <2> QED
    BY <2>2, <2>5, <2>6, <2>7, <2>8 DEF CodeEditorInv
<1> QED
  BY <1>2, <1>3, <1>4

LEMMA CodeEditorInvNext == CodeEditorInv /\ [CodeEditorNext]_evars => CodeEditorInv'
<1> SUFFICES ASSUME CodeEditorInv, [CodeEditorNext]_evars PROVE CodeEditorInv'
  OBVIOUS
<1>1. CASE UNCHANGED evars
  BY <1>1 DEF evars, CodeEditorInv, CodeEditorTypeOK, RequestsKnown, BaseKnown, OpeningOfPath
<1> QED
  BY <1>1, CodeEditorInvBrowser, CodeEditorInvAsk, CodeEditorInvServed DEF CodeEditorNext

\* Types of the editor's state (code-ui.js st and the files the server keeps).
THEOREM CodeEditorTypes == CodeEditorSpec => []CodeEditorTypeOK
<1>1. CodeEditorInv => CodeEditorTypeOK
  BY DEF CodeEditorInv
<1> QED
  BY <1>1, CodeEditorInvInit, CodeEditorInvNext, PTL DEF CodeEditorSpec

\* Only the handling of a request changes the files and the requests in one step.
LEMMA OnlyHandledTouches ==
  ASSUME CodeEditorNext, requests' # requests, files' # files
  PROVE  \E r \in requests : Handle(r)
  BY DEF CodeEditorNext, OpenFile, Poll, New, Rename, Reload, Opened, Save, Delete, Send, ReadFile, Type,
         Replied, Refuse, Elsewhere

\* A save, a rename or a deletion of this editor never destroys a content it has neither shown
\* nor sent: the server compares the request's base with the file, and the base is known.
THEOREM CodeEditorLosesNothingUnseen == CodeEditorSpec => NoBlindLoss
<1> DEFINE Unlost == \A p \in Paths :
       requests' # requests /\ files[p] # Blank /\ (\A q \in Paths : files'[q] # files[p])
         => files[p] \in seen
<1>1. ASSUME CodeEditorInv, [CodeEditorNext]_evars, NEW p \in Paths,
             requests' # requests, files[p] # Blank, \A q \in Paths : files'[q] # files[p]
      PROVE  files[p] \in seen
  <2>1. files' # files /\ CodeEditorNext
    BY <1>1 DEF evars
  <2>2. PICK r \in requests : Handle(r)
    BY <1>1, <2>1, OnlyHandledTouches
  <2>3. r \in EditRequest /\ files \in [Paths -> Contents \cup {Blank}] /\ Accepts(r)
        /\ r.base \in seen \cup {Blank}
    BY <1>1, <2>2 DEF CodeEditorInv, CodeEditorTypeOK, EditRequest, Handle, RequestsKnown
  <2>4. CASE r.kind = "save"
    <3>1. p = r.path
      BY <1>1, <2>2, <2>3, <2>4 DEF Handle, EditRequest
    <3> QED
      BY <1>1, <2>3, <2>4, <3>1 DEF Accepts
  <2>5. CASE r.kind = "delete"
    <3>1. p = r.path
      BY <1>1, <2>2, <2>3, <2>5 DEF Handle, EditRequest
    <3> QED
      BY <1>1, <2>3, <2>5, <3>1 DEF Accepts
  <2>6. CASE r.kind = "rename"
    <3>1. r.to \in Paths /\ r.to # r.path /\ files[r.to] = Blank
      BY <1>1, <2>3, <2>6, RenameMoves
    <3>2. files' = [files EXCEPT ![r.path] = Blank, ![r.to] = files[r.path]]
      BY <2>2, <2>6 DEF Handle
    <3>3. files'[r.to] = files[r.path]
      BY <2>3, <3>1, <3>2
    <3>4. p # r.path /\ p # r.to
      BY <1>1, <3>1, <3>3
    <3>5. files'[p] = files[p]
      BY <2>3, <3>2, <3>4
    <3> QED
      BY <1>1, <3>5
  <2> QED
    BY <2>3, <2>4, <2>5, <2>6 DEF EditRequest
<1>2. CodeEditorInv /\ [CodeEditorNext]_evars => [Unlost]_evars
  BY <1>1
<1> QED
  BY <1>2, CodeEditorInvInit, CodeEditorInvNext, PTL DEF CodeEditorSpec, NoBlindLoss

-----------------------------------------------------------------------------
(* The conversation *)

Logged(n) == \E i \in 1..Len(log) : log[i] = n

\* A message is recorded at most once: while its reply is awaited it is not recorded yet.
LogOnce ==
  /\ \A i, j \in 1..Len(log) : log[i] = log[j] /\ log[i] # Foreign => i = j
  /\ \A i \in 1..Len(log) : log[i] \in used \cup {Foreign}
  /\ \A n \in asked : ~Logged(n)

WireShapes ==
  {<<>>, <<"delta">>, <<"done">>, <<"error">>, <<"closed">>, <<"delta", "done">>, <<"delta", "error">>}

\* What the browser is going to read is so: that a reply is done is sent after it was recorded.
WireTrue ==
  /\ wire \in WireShapes
  /\ inflight \in used \cup {NoNonce}
  /\ inflight = NoNonce => wire = <<>>
  /\ inflight \in asked => wire \in {<<>>, <<"delta">>, <<"closed">>}
  /\ wire \in {<<"done">>, <<"delta", "done">>} => Logged(inflight)

\* One reply is awaited at a time, and what is shown as done was read to the end.
LocalsTrue ==
  \A n \in Nonces :
    /\ locals[n] \in {"pending", "streaming"} <=> inflight = n
    /\ n \notin used => locals[n] = "none"
    /\ locals[n] = "done" => n \in heard

\* What was read to the end is recorded, and dropped only once a poll has shown it.
HeardLogged ==
  \A n \in heard :
    /\ Logged(n) /\ locals[n] \in {"done", "none"}
    /\ locals[n] = "none" => \E i \in 1..newest : log[i] = n

ChatThreadInv == ChatThreadTypeOK /\ LogOnce /\ WireTrue /\ LocalsTrue /\ HeardLogged

LEMMA ChatThreadInvInit == ChatThreadInit => ChatThreadInv
<1> SUFFICES ASSUME ChatThreadInit PROVE ChatThreadInv
  OBVIOUS
<1>1. log \in Seq(Nonces \cup {Foreign}) /\ Len(log) = 0 /\ wire \in Seq(Events) /\ Len(wire) = 0
  BY EmptySeq DEF ChatThreadInit
<1>2. ChatThreadTypeOK
  BY <1>1, ChatThreadAssumption DEF ChatThreadInit, ChatThreadTypeOK, Statuses
<1> QED
  BY <1>1, <1>2, ChatThreadAssumption
     DEF ChatThreadInit, ChatThreadInv, LogOnce, WireTrue, WireShapes, LocalsTrue, HeardLogged, Logged

\* Every shape of the wire is a sequence of at most two events.
LEMMA ShapesTyped == \A w \in WireShapes : w \in Seq(Events) /\ Len(w) <= 2
<1> DEFINE E == Events
<1>1. "delta" \in E /\ "done" \in E /\ "error" \in E /\ "closed" \in E
  BY DEF Events
<1> HIDE DEF E
<1>2. <<>> \in Seq(E) /\ Len(<<>>) = 0
  BY EmptySeq
<1>3. ASSUME NEW e \in E PROVE <<e>> \in Seq(E) /\ Len(<<e>>) = 1
  OBVIOUS
<1>4. ASSUME NEW d \in E, NEW e \in E PROVE <<d, e>> \in Seq(E) /\ Len(<<d, e>>) = 2
  OBVIOUS
<1>5. SUFFICES ASSUME NEW w \in WireShapes PROVE w \in Seq(E) /\ Len(w) <= 2
  BY DEF E
<1>6. CASE w = <<>>
  BY <1>2, <1>6
<1>7. ASSUME NEW e \in E, w = <<e>> PROVE w \in Seq(E) /\ Len(w) <= 2
  BY <1>3, <1>7
<1>8. ASSUME NEW d \in E, NEW e \in E, w = <<d, e>> PROVE w \in Seq(E) /\ Len(w) <= 2
  BY <1>4, <1>8
<1> QED
  BY <1>1, <1>6, <1>7, <1>8 DEF WireShapes

\* Appending to one event, and what is left of one and of two.
LEMMA AppendedOne ==
  ASSUME NEW d, NEW e
  PROVE  Append(<<d>>, e) = <<d, e>> /\ Tail(<<d, e>>) = <<e>> /\ Tail(<<d>>) = <<>>
<1> DEFINE S == {d, e}
<1>1. <<d>> \in Seq(S) /\ <<e>> \in Seq(S) /\ <<d, e>> \in Seq(S)
  OBVIOUS
<1>2. Append(<<d>>, e) = <<d, e>>
  <2>1. /\ Append(<<d>>, e) \in Seq(S) /\ Len(Append(<<d>>, e)) = 2
        /\ Append(<<d>>, e)[1] = d /\ Append(<<d>>, e)[2] = e
    BY <1>1, AppendProperties
  <2>2. <<d, e>> \in Seq(S) /\ Len(<<d, e>>) = 2 /\ <<d, e>>[1] = d /\ <<d, e>>[2] = e
    BY <1>1
  <2> DEFINE s == Append(<<d>>, e)
             t == <<d, e>>
  <2> HIDE DEF S, s, t
  <2>3. s \in Seq(S) /\ t \in Seq(S) /\ Len(s) = 2 /\ Len(t) = 2 /\ s[1] = t[1] /\ s[2] = t[2]
    BY <2>1, <2>2 DEF s, t
  <2>4. s = t
    BY <2>3, SeqEqual
  <2> QED
    BY <2>4 DEF s, t
<1>3. Tail(<<d, e>>) = <<e>>
  <2>1. /\ Tail(<<d, e>>) \in Seq(S) /\ Len(Tail(<<d, e>>)) = 1 /\ Tail(<<d, e>>)[1] = e
    BY <1>1, HeadTailProperties
  <2> HIDE DEF S
  <2> QED
    BY <1>1, <2>1, SeqEqual
<1>4. Tail(<<d>>) = <<>>
  <2>1. Tail(<<d>>) \in Seq(S) /\ Len(Tail(<<d>>)) = 0
    BY <1>1, HeadTailProperties
  <2> HIDE DEF S
  <2> QED
    BY <2>1, EmptySeq
<1> QED
  BY <1>2, <1>3, <1>4

\* An event goes to the browser that waits for it; nothing follows a closed connection.
LEMMA Told ==
  ASSUME ChatThreadInv, NEW n \in asked, NEW event \in {"done", "error"}, Tell(n, event)
  PROVE  /\ wire' \in WireShapes
         /\ inflight # n => wire' = wire
         /\ inflight = n => wire' \in {<<event>>, <<"delta", event>>, <<"closed">>}
<1>1. wire \in WireShapes /\ (inflight = n => wire \in {<<>>, <<"delta">>, <<"closed">>})
  BY DEF ChatThreadInv, WireTrue
<1>2. CASE inflight # n
  BY <1>1, <1>2 DEF Tell, Linked
<1>3. CASE inflight = n /\ wire = <<"closed">>
  <2>1. Contains(wire, "closed")
    BY <1>3 DEF Contains
  <2> QED
    BY <1>1, <1>3, <2>1 DEF Tell, Linked
<1>4. CASE inflight = n /\ wire \in {<<>>, <<"delta">>}
  <2>1. ~Contains(wire, "closed")
    BY <1>4 DEF Contains
  <2>2. wire' = Append(wire, event)
    BY <1>4, <2>1 DEF Tell, Linked
  <2>3. wire' \in {<<event>>, <<"delta", event>>}
    <3>1. CASE wire = <<>>
      BY <2>2, <3>1
    <3>2. CASE wire = <<"delta">>
      BY <2>2, <3>2, AppendedOne
    <3> QED
      BY <1>4, <3>1, <3>2
  <2> QED
    BY <1>4, <2>3 DEF WireShapes
<1> QED
  BY <1>1, <1>2, <1>3, <1>4

\* One exchange more leaves the earlier ones where they are.
LEMMA LogGrows ==
  ASSUME ChatThreadTypeOK, NEW x \in Nonces \cup {Foreign}, log' = Append(log, x)
  PROVE  /\ log' \in Seq(Nonces \cup {Foreign}) /\ Len(log') = Len(log) + 1 /\ Len(log) \in Nat
         /\ \A i \in 1..Len(log) : log'[i] = log[i]
         /\ log'[Len(log) + 1] = x
         /\ \A n : Logged(n)' <=> Logged(n) \/ n = x
<1>1. log \in Seq(Nonces \cup {Foreign})
  BY DEF ChatThreadTypeOK
<1>2. /\ log' \in Seq(Nonces \cup {Foreign}) /\ Len(log') = Len(log) + 1 /\ Len(log) \in Nat
      /\ \A i \in 1..Len(log) : log'[i] = log[i]
      /\ log'[Len(log) + 1] = x
  BY <1>1, AppendProperties, LenProperties
<1> QED
  BY <1>2 DEF Logged

\* The steps of the server that record nothing.
LEMMA ChatThreadInvServer ==
  ASSUME ChatThreadInv, NEW n \in Nonces, Delta(n) \/ ModelFails(n) \/ HearGone(n)
  PROVE  ChatThreadInv'
<1>1. UNCHANGED <<log, view, newest, replies, locals, inflight, used, heard>> /\ asked' \subseteq asked
  BY DEF Delta, ModelFails, HearGone, polled
<1>2. /\ wire' \in WireShapes
      /\ inflight = NoNonce => wire' = <<>>
      /\ inflight \in asked' => wire' \in {<<>>, <<"delta">>, <<"closed">>}
      /\ wire' \in {<<"done">>, <<"delta", "done">>} => Logged(inflight)
  <2>1. CASE Delta(n)
    <3>1. wire = <<>> /\ Linked(n) /\ wire' = Append(wire, "delta") /\ inflight = n
      BY <2>1 DEF Delta, Tell, Linked
    <3>2. wire' = <<"delta">>
      BY <3>1
    <3> QED
      BY <3>1, <3>2, ChatThreadAssumption DEF WireShapes
  <2>2. CASE ModelFails(n)
    <3>1. n \in asked /\ Tell(n, "error") /\ asked' = asked \ {n} /\ n # NoNonce
      BY <2>2, ChatThreadAssumption DEF ModelFails
    <3>2. /\ wire' \in WireShapes
          /\ inflight # n => wire' = wire
          /\ inflight = n => wire' \in {<<"error">>, <<"delta", "error">>, <<"closed">>}
      BY <3>1, Told
    <3> QED
      BY <3>1, <3>2 DEF ChatThreadInv, WireTrue
  <2>3. CASE HearGone(n)
    BY <1>1, <2>3 DEF HearGone, ChatThreadInv, WireTrue
  <2> QED
    BY <2>1, <2>2, <2>3
<1>3. ChatThreadTypeOK'
  BY <1>1, <1>2, ShapesTyped DEF ChatThreadInv, ChatThreadTypeOK
<1>4. LogOnce' /\ LocalsTrue' /\ HeardLogged'
  BY <1>1 DEF ChatThreadInv, LogOnce, LocalsTrue, HeardLogged, Logged
<1>5. WireTrue'
  BY <1>1, <1>2 DEF ChatThreadInv, WireTrue, Logged
<1> QED
  BY <1>3, <1>4, <1>5 DEF ChatThreadInv

\* What is recorded: the exchange of a message that was awaited, or somebody else's.
LEMMA ChatThreadInvRecord ==
  ASSUME ChatThreadInv, SomebodyChats \/ \E n \in Nonces : Finish(n)
  PROVE  ChatThreadInv'
<1>1. PICK x \in Nonces \cup {Foreign} :
        /\ log' = Append(log, x) /\ Len(log) < MaxExchanges /\ asked' = asked \ {x}
        /\ x = Foreign => wire' = wire
        /\ x # Foreign => x \in asked /\ Tell(x, "done")
        /\ UNCHANGED <<view, newest, replies, locals, inflight, used, heard>>
  <2>1. CASE SomebodyChats
    <3>1. asked = asked \ {Foreign}
      BY ChatThreadAssumption DEF ChatThreadInv, ChatThreadTypeOK
    <3> QED
      BY <2>1, <3>1 DEF SomebodyChats, polled
  <2>2. ASSUME NEW n \in Nonces, Finish(n)
        PROVE  /\ log' = Append(log, n) /\ Len(log) < MaxExchanges /\ asked' = asked \ {n}
               /\ n # Foreign /\ n \in asked /\ Tell(n, "done")
               /\ UNCHANGED <<view, newest, replies, locals, inflight, used, heard>>
    BY <2>2, ChatThreadAssumption DEF Finish, polled
  <2> QED
    BY <2>1, <2>2
<1>2. /\ log' \in Seq(Nonces \cup {Foreign}) /\ Len(log') = Len(log) + 1 /\ Len(log) \in Nat
      /\ \A i \in 1..Len(log) : log'[i] = log[i]
      /\ log'[Len(log) + 1] = x
      /\ \A n : Logged(n)' <=> Logged(n) \/ n = x
  BY <1>1, LogGrows DEF ChatThreadInv
<1>3. /\ wire' \in WireShapes
      /\ inflight # x => wire' = wire
      /\ inflight = x => wire' \in {<<"done">>, <<"delta", "done">>, <<"closed">>}
  <2>1. CASE x = Foreign
    BY <1>1, <2>1, ChatThreadAssumption DEF ChatThreadInv, WireTrue, ChatThreadTypeOK
  <2>2. CASE x # Foreign
    BY <1>1, <2>2, Told
  <2> QED
    BY <2>1, <2>2
<1>4. ChatThreadTypeOK'
  <2>1. wire' \in Seq(Events) /\ Len(wire') <= 2
    BY <1>3, ShapesTyped
  <2>2. view' \in 0..Len(log') /\ newest' \in view'..Len(log') /\ replies' \subseteq 0..Len(log')
        /\ Len(log') <= MaxExchanges
    BY <1>1, <1>2, ChatThreadAssumption DEF ChatThreadInv, ChatThreadTypeOK
  <2> QED
    BY <1>1, <1>2, <2>1, <2>2 DEF ChatThreadInv, ChatThreadTypeOK
<1>5. LogOnce'
  <2>1. x = Foreign \/ (~Logged(x) /\ x \in used)
    BY <1>1 DEF ChatThreadInv, LogOnce, ChatThreadTypeOK
  <2>2. ASSUME NEW i \in 1..Len(log'), NEW j \in 1..Len(log'), log'[i] = log'[j], log'[i] # Foreign
        PROVE  i = j
    <3>1. CASE i = Len(log) + 1
      BY <1>2, <2>1, <2>2, <3>1 DEF Logged
    <3>2. CASE j = Len(log) + 1
      BY <1>2, <2>1, <2>2, <3>2 DEF Logged
    <3>3. CASE i \in 1..Len(log) /\ j \in 1..Len(log)
      BY <1>2, <2>2, <3>3 DEF ChatThreadInv, LogOnce
    <3> QED
      BY <1>2, <3>1, <3>2, <3>3
  <2>3. \A i \in 1..Len(log') : log'[i] \in used' \cup {Foreign}
    BY <1>1, <1>2, <2>1 DEF ChatThreadInv, LogOnce
  <2>4. \A n \in asked' : ~Logged(n)'
    BY <1>1, <1>2 DEF ChatThreadInv, LogOnce
  <2> QED
    BY <2>2, <2>3, <2>4 DEF LogOnce
<1>6. WireTrue'
  <2>1. inflight = NoNonce => inflight # x
    BY <1>1, ChatThreadAssumption
  <2>2. Logged(inflight') <=> Logged(inflight)
    BY <1>1
  <2>3. wire' \in {<<"done">>, <<"delta", "done">>} => Logged(inflight)'
    BY <1>1, <1>2, <1>3 DEF ChatThreadInv, WireTrue
  <2> QED
    BY <1>1, <1>3, <2>1, <2>3 DEF ChatThreadInv, WireTrue
<1>7. LocalsTrue'
  BY <1>1 DEF ChatThreadInv, LocalsTrue
<1>8. HeardLogged'
  <2>1. newest \in 0..Len(log)
    BY DEF ChatThreadInv, ChatThreadTypeOK
  <2> SUFFICES ASSUME NEW n \in heard
               PROVE  /\ Logged(n)' /\ locals[n] \in {"done", "none"}
                      /\ locals[n] = "none" => \E i \in 1..newest : log'[i] = n
    BY <1>1 DEF HeardLogged
  <2> QED
    BY <1>2, <2>1 DEF ChatThreadInv, HeardLogged
<1> QED
  BY <1>4, <1>5, <1>6, <1>7, <1>8 DEF ChatThreadInv

\* A new message, under a nonce of its own; a retried one is taken back.
LEMMA ChatThreadInvAwaits ==
  ASSUME ChatThreadInv, NEW n \in Nonces, SendChat(n) \/ \E old \in Nonces : Retry(old, n)
  PROVE  ChatThreadInv'
<1>1. PICK kept :
        /\ Awaits(n, kept) /\ inflight = NoNonce /\ kept \in [Nonces -> Statuses]
        /\ \A m \in Nonces : kept[m] = locals[m] \/ (locals[m] = "failed" /\ kept[m] = "none")
  <2>0. locals \in [Nonces -> Statuses]
    BY DEF ChatThreadInv, ChatThreadTypeOK
  <2>1. CASE SendChat(n)
    BY <2>0, <2>1 DEF SendChat
  <2>2. ASSUME NEW old \in Nonces, Retry(old, n)
        PROVE  LET e == [locals EXCEPT ![old] = "none"]
               IN  /\ Awaits(n, e) /\ inflight = NoNonce /\ e \in [Nonces -> Statuses]
                   /\ \A m \in Nonces : e[m] = locals[m] \/ (locals[m] = "failed" /\ e[m] = "none")
    BY <2>0, <2>2 DEF Retry, FailedBubble, Statuses
  <2> QED
    BY <2>1, <2>2
<1>2. /\ n \notin used /\ used' = used \cup {n} /\ inflight' = n /\ wire' = <<>> /\ asked' = asked \cup {n}
      /\ UNCHANGED <<log, heard, view, newest, replies>>
      /\ locals' = [kept EXCEPT ![n] = "pending"]
  BY <1>1 DEF Awaits, polled
<1>3. /\ locals' \in [Nonces -> Statuses] /\ locals'[n] = "pending"
      /\ \A m \in Nonces \ {n} : locals'[m] = locals[m] \/ (locals[m] = "failed" /\ locals'[m] = "none")
  BY <1>1, <1>2 DEF Statuses
<1>4. ChatThreadTypeOK'
  <2>1. wire' \in Seq(Events) /\ Len(wire') <= 2
    BY <1>2, ShapesTyped DEF WireShapes
  <2> QED
    BY <1>2, <1>3, <2>1 DEF ChatThreadInv, ChatThreadTypeOK
<1>5. LogOnce'
  <2>1. ~Logged(n)
    BY <1>2, ChatThreadAssumption DEF ChatThreadInv, LogOnce, Logged
  <2> QED
    BY <1>2, <2>1 DEF ChatThreadInv, LogOnce, Logged
<1>6. WireTrue'
  BY <1>2, ChatThreadAssumption DEF WireTrue, WireShapes
<1>7. LocalsTrue'
  BY <1>1, <1>2, <1>3, ChatThreadAssumption DEF ChatThreadInv, LocalsTrue
<1>8. HeardLogged'
  <2>1. heard \subseteq Nonces \ {n}
    BY <1>2 DEF ChatThreadInv, ChatThreadTypeOK
  <2> QED
    BY <1>2, <1>3, <2>1 DEF ChatThreadInv, HeardLogged, Logged
<1> QED
  BY <1>4, <1>5, <1>6, <1>7, <1>8 DEF ChatThreadInv

\* What only ends the wait for the reply: a status for it, and nothing left to read.
LEMMA WaitEnds ==
  ASSUME ChatThreadInv, inflight # NoNonce, NEW s \in {"done", "failed", "stopped", "none"},
         locals' = [locals EXCEPT ![inflight] = s], inflight' = NoNonce, wire' = <<>>,
         heard' = IF s = "done" THEN heard \cup {inflight} ELSE heard,
         s = "done" => Logged(inflight),
         UNCHANGED <<log, view, newest, replies, asked, used>>
  PROVE  ChatThreadInv'
<1>1. inflight \in Nonces /\ inflight \in used /\ locals \in [Nonces -> Statuses] /\ NoNonce \notin Nonces
  BY ChatThreadAssumption DEF ChatThreadInv, ChatThreadTypeOK, WireTrue
<1>2. /\ locals' \in [Nonces -> Statuses] /\ locals'[inflight] = s
      /\ \A m \in Nonces \ {inflight} : locals'[m] = locals[m]
  BY <1>1 DEF Statuses
<1>3. ChatThreadTypeOK'
  <2>1. wire' \in Seq(Events) /\ Len(wire') <= 2
    BY ShapesTyped DEF WireShapes
  <2> QED
    BY <1>1, <1>2, <2>1 DEF ChatThreadInv, ChatThreadTypeOK
<1>4. LogOnce' /\ WireTrue'
  BY <1>1, ChatThreadAssumption DEF ChatThreadInv, LogOnce, WireTrue, WireShapes, Logged, ChatThreadTypeOK
<1>5. LocalsTrue'
  BY <1>1, <1>2 DEF ChatThreadInv, LocalsTrue
<1>6. HeardLogged'
  <2>1. inflight \notin heard
    BY <1>1 DEF ChatThreadInv, HeardLogged, LocalsTrue
  <2> QED
    BY <1>1, <1>2, <2>1 DEF ChatThreadInv, HeardLogged, Logged, ChatThreadTypeOK
<1> QED
  BY <1>3, <1>4, <1>5, <1>6 DEF ChatThreadInv

LEMMA ChatThreadInvStop == ChatThreadInv /\ StopReply => ChatThreadInv'
<1> SUFFICES ASSUME ChatThreadInv, StopReply PROVE ChatThreadInv'
  OBVIOUS
<1> DEFINE s == IF locals[inflight] = "streaming" THEN "stopped" ELSE "none"
<1>1. /\ inflight # NoNonce /\ locals' = [locals EXCEPT ![inflight] = s] /\ s \in {"stopped", "none"}
      /\ inflight' = NoNonce /\ wire' = <<>> /\ UNCHANGED <<log, view, newest, replies, asked, used, heard>>
  BY DEF StopReply, polled
<1> HIDE DEF s
<1> QED
  BY <1>1, WaitEnds

LEMMA ChatThreadInvRead == ChatThreadInv /\ ReadEvent => ChatThreadInv'
<1> SUFFICES ASSUME ChatThreadInv, ReadEvent PROVE ChatThreadInv'
  OBVIOUS
<1>1. /\ wire \in WireShapes /\ wire # <<>> /\ inflight # NoNonce
      /\ UNCHANGED <<log, view, newest, replies, asked, used>>
  BY DEF ReadEvent, polled, ChatThreadInv, WireTrue
<1>2. CASE Head(wire) = "delta"
  <2>1. /\ locals' = [locals EXCEPT ![inflight] = "streaming"] /\ heard' = heard
        /\ wire' = Tail(wire) /\ inflight' = inflight
    BY <1>2 DEF ReadEvent
  <2>2. wire \in {<<"delta">>, <<"delta", "done">>, <<"delta", "error">>}
    BY <1>1, <1>2 DEF WireShapes
  <2>3. wire' = IF wire = <<"delta">> THEN <<>> ELSE IF wire = <<"delta", "done">> THEN <<"done">> ELSE <<"error">>
    BY <2>1, <2>2, AppendedOne
  <2>4. inflight \in Nonces /\ inflight \in used /\ locals \in [Nonces -> Statuses]
    BY <1>1 DEF ChatThreadInv, ChatThreadTypeOK, WireTrue
  <2>5. /\ locals' \in [Nonces -> Statuses] /\ locals'[inflight] = "streaming"
        /\ \A m \in Nonces \ {inflight} : locals'[m] = locals[m]
    BY <2>1, <2>4 DEF Statuses
  <2>6. wire' \in WireShapes /\ wire' # <<"delta">>
    BY <2>3 DEF WireShapes
  <2>7. ChatThreadTypeOK'
    BY <1>1, <2>1, <2>5, <2>6, ShapesTyped DEF ChatThreadInv, ChatThreadTypeOK
  <2>8. LogOnce'
    BY <1>1 DEF ChatThreadInv, LogOnce, Logged
  <2>9. WireTrue'
    <3>1. inflight \in asked => wire' = <<>>
      BY <2>2, <2>3 DEF ChatThreadInv, WireTrue
    <3>2. wire' \in {<<"done">>, <<"delta", "done">>} => Logged(inflight)
      BY <2>2, <2>3 DEF ChatThreadInv, WireTrue
    <3> QED
      BY <1>1, <2>1, <2>4, <2>6, <3>1, <3>2 DEF WireTrue, Logged
  <2>10. LocalsTrue'
    BY <1>1, <2>1, <2>4, <2>5 DEF ChatThreadInv, LocalsTrue
  <2>11. HeardLogged'
    <3>1. inflight \notin heard /\ heard \subseteq Nonces
      BY <2>4 DEF ChatThreadInv, HeardLogged, LocalsTrue, ChatThreadTypeOK
    <3> QED
      BY <1>1, <2>1, <2>5, <3>1 DEF ChatThreadInv, HeardLogged, Logged
  <2> QED
    BY <2>7, <2>8, <2>9, <2>10, <2>11 DEF ChatThreadInv
<1>3. CASE Head(wire) = "done"
  <2>1. wire = <<"done">>
    BY <1>1, <1>3 DEF WireShapes
  <2>2. Logged(inflight)
    BY <2>1 DEF ChatThreadInv, WireTrue
  <2>3. /\ locals' = [locals EXCEPT ![inflight] = "done"] /\ heard' = heard \cup {inflight}
        /\ wire' = <<>> /\ inflight' = NoNonce
    BY <1>3 DEF ReadEvent
  <2> QED
    BY <1>1, <2>2, <2>3, WaitEnds
<1>4. CASE Head(wire) \notin {"delta", "done"}
  <2>1. /\ locals' = [locals EXCEPT ![inflight] = "failed"] /\ heard' = heard
        /\ wire' = <<>> /\ inflight' = NoNonce
    BY <1>4 DEF ReadEvent
  <2> QED
    BY <1>1, <2>1, WaitEnds
<1> QED
  BY <1>2, <1>3, <1>4

\* The other steps of the browser; a poll drops only what the copy it brings has.
LEMMA ChatThreadInvLeave ==
  ASSUME ChatThreadInv, Cut \/ PollAnswered \/ \E n \in Nonces : Dismiss(n)
  PROVE  ChatThreadInv'
<1>1. CASE Cut
  <2>1. wire' = <<"closed">> /\ inflight # NoNonce /\ UNCHANGED <<log, locals, inflight, asked, used, heard, view, newest, replies>>
    BY <1>1 DEF Cut, polled
  <2>2. wire' \in WireShapes /\ wire' \notin {<<"done">>, <<"delta", "done">>}
    BY <2>1 DEF WireShapes
  <2>3. ChatThreadTypeOK'
    BY <2>1, <2>2, ShapesTyped DEF ChatThreadInv, ChatThreadTypeOK
  <2> QED
    BY <2>1, <2>2, <2>3 DEF ChatThreadInv, LogOnce, WireTrue, LocalsTrue, HeardLogged, Logged
<1>2. CASE PollAnswered
  <2>1. replies' = replies \cup {Len(log)} /\ UNCHANGED <<log, view, newest, locals, inflight, wire, asked, used, heard>>
    BY <1>2 DEF PollAnswered
  <2>2. Len(log) \in 0..Len(log)
    BY LenProperties DEF ChatThreadInv, ChatThreadTypeOK
  <2>3. replies' \subseteq 0..Len(log')
    BY <2>1, <2>2 DEF ChatThreadInv, ChatThreadTypeOK
  <2>4. ChatThreadTypeOK'
    BY <2>1, <2>3 DEF ChatThreadInv, ChatThreadTypeOK
  <2> QED
    BY <2>1, <2>4 DEF ChatThreadInv, LogOnce, WireTrue, LocalsTrue, HeardLogged, Logged
<1>3. ASSUME NEW n \in Nonces, Dismiss(n) PROVE ChatThreadInv'
  <2>1. locals[n] = "failed" /\ locals' = [locals EXCEPT ![n] = "none"]
        /\ UNCHANGED <<log, inflight, wire, asked, used, heard, view, newest, replies>>
    BY <1>3 DEF Dismiss, FailedBubble, polled
  <2>2. /\ locals' \in [Nonces -> Statuses] /\ locals'[n] = "none"
        /\ \A m \in Nonces \ {n} : locals'[m] = locals[m]
    BY <2>1 DEF ChatThreadInv, ChatThreadTypeOK, Statuses
  <2>3. ChatThreadTypeOK'
    BY <2>1, <2>2 DEF ChatThreadInv, ChatThreadTypeOK
  <2>4. LogOnce' /\ WireTrue'
    BY <2>1 DEF ChatThreadInv, LogOnce, WireTrue, Logged
  <2>5. n \notin heard /\ heard \subseteq Nonces
    BY <2>1 DEF ChatThreadInv, HeardLogged, ChatThreadTypeOK
  <2>6. LocalsTrue' /\ HeardLogged'
    BY <2>1, <2>2, <2>5 DEF ChatThreadInv, LocalsTrue, HeardLogged, Logged
  <2> QED
    BY <2>3, <2>4, <2>6 DEF ChatThreadInv
<1> QED
  BY <1>1, <1>2, <1>3

LEMMA ChatThreadInvPollLands ==
  ASSUME ChatThreadInv, NEW length \in replies, PollLands(length)
  PROVE  ChatThreadInv'
<1>1. /\ replies' = replies \ {length} /\ view' = length
      /\ newest' = (IF length > newest THEN length ELSE newest)
      /\ locals' = Settle(length) /\ UNCHANGED <<log, inflight, wire, asked, used, heard>>
  BY DEF PollLands
<1>2. Len(log) \in Nat /\ length \in 0..Len(log) /\ newest \in 0..Len(log) /\ locals \in [Nonces -> Statuses]
  BY LenProperties DEF ChatThreadInv, ChatThreadTypeOK
<1>3. /\ newest' \in length..Len(log) /\ newest' >= newest
  BY <1>1, <1>2
<1>4. /\ locals' \in [Nonces -> Statuses]
      /\ \A n \in Nonces : \/ locals'[n] = locals[n]
                           \/ locals[n] = "done" /\ locals'[n] = "none" /\ Knows(length, n)
  BY <1>1, <1>2 DEF Settle, Statuses
<1>5. ChatThreadTypeOK'
  BY <1>1, <1>2, <1>3, <1>4 DEF ChatThreadInv, ChatThreadTypeOK
<1>6. LogOnce' /\ WireTrue'
  BY <1>1 DEF ChatThreadInv, LogOnce, WireTrue, Logged
<1>7. LocalsTrue'
  BY <1>1, <1>4 DEF ChatThreadInv, LocalsTrue
<1>8. HeardLogged'
  <2> SUFFICES ASSUME NEW n \in heard
               PROVE  /\ Logged(n)' /\ locals'[n] \in {"done", "none"}
                      /\ locals'[n] = "none" => \E i \in 1..newest' : log'[i] = n
    BY <1>1 DEF HeardLogged
  <2>1. n \in Nonces /\ Logged(n) /\ locals[n] \in {"done", "none"}
        /\ (locals[n] = "none" => \E i \in 1..newest : log[i] = n)
    BY DEF ChatThreadInv, ChatThreadTypeOK, HeardLogged
  <2>2. Logged(n)'
    BY <1>1, <2>1 DEF Logged
  <2>3. CASE locals'[n] = locals[n]
    BY <1>1, <1>2, <1>3, <2>1, <2>2, <2>3
  <2>4. CASE locals'[n] = "none" /\ Knows(length, n)
    <3>1. PICK i \in 1..length : log[i] = n
      BY <2>4 DEF Knows, KeptOf
    <3> QED
      BY <1>1, <1>2, <1>3, <2>2, <2>4, <3>1
  <2> QED
    BY <1>4, <2>1, <2>3, <2>4
<1> QED
  BY <1>5, <1>6, <1>7, <1>8 DEF ChatThreadInv

LEMMA ChatThreadInvNext == ChatThreadInv /\ [ChatThreadNext]_tvars => ChatThreadInv'
<1> SUFFICES ASSUME ChatThreadInv, [ChatThreadNext]_tvars PROVE ChatThreadInv'
  OBVIOUS
<1>1. CASE UNCHANGED tvars
  BY <1>1 DEF tvars, ChatThreadInv, ChatThreadTypeOK, LogOnce, WireTrue, LocalsTrue, HeardLogged, Logged
<1> QED
  BY <1>1, ChatThreadInvServer, ChatThreadInvRecord, ChatThreadInvAwaits, ChatThreadInvStop, ChatThreadInvRead,
     ChatThreadInvLeave, ChatThreadInvPollLands DEF ChatThreadNext

\* Types of the thread's state (the store's exchanges, ui.js local and inflight).
THEOREM ChatThreadTypes == ChatThreadSpec => []ChatThreadTypeOK
<1>1. ChatThreadInv => ChatThreadTypeOK
  BY DEF ChatThreadInv
<1> QED
  BY <1>1, ChatThreadInvInit, ChatThreadInvNext, PTL DEF ChatThreadSpec

\* The places of a message in a copy: one if the copy has it, none otherwise.
LEMMA PlacesOf ==
  ASSUME ChatThreadInv, NEW n \in Nonces
  PROVE  Cardinality({i \in KeptOf(view) : log[i] = n}) = IF Knows(view, n) THEN 1 ELSE 0
<1> DEFINE places == {i \in KeptOf(view) : log[i] = n}
<1>1. Len(log) \in Nat /\ view \in 0..Len(log)
  BY LenProperties DEF ChatThreadInv, ChatThreadTypeOK
<1>2. CASE Knows(view, n)
  <2>1. PICK i \in KeptOf(view) : log[i] = n
    BY <1>2 DEF Knows
  <2>2. \A j \in places : j = i
    BY <1>1, <2>1, ChatThreadAssumption DEF KeptOf, ChatThreadInv, LogOnce
  <2>3. places = {i}
    BY <2>1, <2>2
  <2> QED
    BY <1>2, <2>3, FS_Singleton
<1>3. CASE ~Knows(view, n)
  <2>1. places = {}
    BY <1>3 DEF Knows
  <2> QED
    BY <1>3, <2>1, FS_EmptySet
<1> QED
  BY <1>2, <1>3

\* A message has one bubble: what the browser keeps is shown beside the copy only while the copy
\* does not have it, and is dropped only when a copy has had it.
THEOREM ChatThreadOneBubbleEach == ChatThreadSpec => []OneBubbleEach
<1>1. ASSUME ChatThreadInv, view = newest, NEW n \in used,
             locals[n] # "none" \/ (n \in heard /\ Knows(Len(log), n))
      PROVE  Bubbles(n) = 1
  <2>1. n \in Nonces /\ Len(log) \in Nat /\ view \in 0..Len(log)
    BY <1>1, LenProperties DEF ChatThreadInv, ChatThreadTypeOK
  <2>2. Cardinality({i \in KeptOf(view) : log[i] = n}) = IF Knows(view, n) THEN 1 ELSE 0
    BY <1>1, <2>1, PlacesOf
  <2>3. CASE locals[n] # "none"
    BY <2>2, <2>3 DEF Bubbles
  <2>4. CASE locals[n] = "none"
    <3>1. PICK i \in KeptOf(Len(log)) : log[i] = n
      BY <1>1, <2>4 DEF Knows
    <3>2. PICK j \in 1..view : log[j] = n
      BY <1>1, <2>4 DEF ChatThreadInv, HeardLogged
    <3>3. i = j
      BY <1>1, <2>1, <3>1, <3>2, ChatThreadAssumption DEF ChatThreadInv, LogOnce, KeptOf
    <3>4. i \in KeptOf(view)
      BY <2>1, <3>1, <3>2, <3>3, ChatThreadAssumption DEF KeptOf
    <3>5. Knows(view, n)
      BY <3>1, <3>4 DEF Knows
    <3> QED
      BY <2>2, <2>4, <3>5 DEF Bubbles
  <2> QED
    BY <2>3, <2>4
<1>2. ChatThreadInv => OneBubbleEach
  BY <1>1 DEF OneBubbleEach
<1> QED
  BY <1>2, ChatThreadInvInit, ChatThreadInvNext, PTL DEF ChatThreadSpec

-----------------------------------------------------------------------------
(* The studio.

   A step of the studio is a step of one of its parts and stutters in the others,
   so a behaviour of the studio is one of each part, and what is proved of a part
   holds of the studio.                                                           *)

LEMMA StudioInitParts ==
  StudioInit => /\ DeploymentsInit /\ AccessInit /\ CodeEditorInit /\ PublicationInit
                /\ ChatThreadInit /\ ModelGatewayInit /\ ContractInit
BY DEF StudioInit

LEMMA StudioNextParts ==
  [StudioNext]_svars => /\ [DeploymentsNext]_dvars /\ [AccessNext]_avars /\ [CodeEditorNext]_evars
                        /\ [PublicationNext]_pvars /\ [ChatThreadNext]_tvars
                        /\ [ModelGatewayNext]_gvars /\ [ContractNext]_cvars
BY DEF StudioNext, svars

\* A behaviour of the studio is one of each of its parts: it is a choice among them, so this is
\* only how the theorems about the parts are carried over.
LEMMA StudioImplementsParts ==
  StudioSpec => /\ DeploymentsSpec /\ AccessSpec /\ CodeEditorSpec /\ PublicationSpec
                /\ ChatThreadSpec /\ ModelGatewaySpec /\ ContractSpec
BY StudioInitParts, StudioNextParts, PTL
   DEF StudioSpec, DeploymentsSpec, AccessSpec, CodeEditorSpec, PublicationSpec, ChatThreadSpec,
       ModelGatewaySpec, ContractSpec

\* Whichever part a behaviour of the studio belongs to, that part keeps its types.
THEOREM StudioTypes == StudioSpec => []StudioTypeOK
<1> DEFINE Desk == desk \in AllDesks
<1>1. StudioInit => Desk
  BY StudioAssumption DEF StudioInit
<1>2. Desk /\ [StudioNext]_svars => Desk'
  BY DEF StudioNext, svars
<1>3. /\ PublicationInv => PublicationTypeOK
      /\ GatewayInv => ModelGatewayTypeOK
      /\ ContractInv => ContractTypeOK
  BY DEF PublicationInv, GatewayInv, ContractInv
<1>4. PublicationSpec => []PublicationTypeOK
  BY <1>3, PublicationInvInit, PublicationInvNext, PTL DEF PublicationSpec
<1>5. ModelGatewaySpec => []ModelGatewayTypeOK
  BY <1>3, GatewayInvInit, GatewayInvNext, PTL DEF ModelGatewaySpec
<1>6. ContractSpec => []ContractTypeOK
  BY <1>3, ContractInvInit, ContractInvNext, PTL DEF ContractSpec
<1>7. /\ Desk /\ DeploymentsTypeOK /\ AccessTypeOK /\ CodeEditorTypeOK /\ PublicationTypeOK
      /\ ChatThreadTypeOK /\ ModelGatewayTypeOK /\ ContractTypeOK
      => StudioTypeOK
  BY DEF AllDesks, StudioTypeOK
<1> HIDE DEF Desk
<1>8. StudioSpec => []Desk
  BY <1>1, <1>2, PTL DEF StudioSpec
<1> QED
  BY <1>4, <1>5, <1>6, <1>7, <1>8, StudioImplementsParts, DeploymentsTypes, AccessTypes, CodeEditorTypes,
     ChatThreadTypes, PTL

\* What is promised of each part is kept by the studio: the outcomes of deployments, the keys of
\* the model proxy and the edge; invites, purges and the right to chat; the
\* editor's contents; published evidence; one bubble per message; the vendors; the contract.
THEOREM StudioKeepsPromises ==
  StudioSpec =>
    /\ []SuccessIsTrue /\ []KeyOfItsOwn /\ []NoPreviewNoContainer /\ []EdgeFollowsSharing
    /\ []InviteAdmitsOne /\ []PurgedIsForgotten /\ ChatHasAccess
    /\ NoBlindLoss
    /\ []PublishedAsReviewed /\ PlanSettlesOnce
    /\ []OneBubbleEach
    /\ []VendorOnlyAsFallback
    /\ []VersionsAgree /\ []AllowedAsLicensed
BY StudioImplementsParts, DeploymentsSuccess, DeploymentsOwnKey, DeploymentsPreviewGone, DeploymentsEdge,
   AccessInviteAdmitsOne, AccessPurgedIsForgotten, AccessChatHasAccess,
   CodeEditorLosesNothingUnseen, PublicationAsReviewed, PublicationSettlesOnce, ChatThreadOneBubbleEach,
   GatewayVendorOnlyAsFallback, ContractVersionsAgree, ContractAllowsAsLicensed

=============================================================================
