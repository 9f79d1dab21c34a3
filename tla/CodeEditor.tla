----------------------------- MODULE CodeEditor -----------------------------
(***************************************************************************)
(* The code tab of the browser (demo/web/code-ui.js) against the file      *)
(* routes of the server (demo/files.js), while others change the same      *)
(* files: another editor, a generation, a rollback.                        *)
(*                                                                         *)
(* A request is handled by the server at some moment between its sending   *)
(* and its reply, and requests may overtake each other.  A content stands  *)
(* for its digest.  The list of files only decides which file is opened    *)
(* next, so a poll is modelled by the opening it may end in.               *)
(***************************************************************************)
EXTENDS Integers, FiniteSets

CONSTANTS
  Paths, Contents,
  Blank,        \* no content: a path without a file, the base of a new file
  Entrance,     \* index.html, which a static application always has
  MaxRequests   \* bounds the requests under way

ASSUME CodeEditorAssumption ==
  /\ Blank \notin Contents \cup Paths /\ Entrance \in Paths /\ MaxRequests \in Nat \ {0}

VARIABLES
  files,      \* at the server
  cur,        \* st: the open file, the content that was opened or saved last, the text, dirty
  opening,    \* the newest openFile: the replies of earlier ones are ignored by token
  requests,   \* saves, renames and deletions under way
  busy,       \* st.busy
  seen        \* history: every content this editor has shown or sent

evars == <<files, cur, opening, requests, busy, seen>>

NoFile == [path |-> Blank, base |-> Blank, doc |-> Blank, dirty |-> FALSE]
Open_(p) == [path |-> p, state |-> "asked", got |-> Blank]
NotOpening == [path |-> Blank, state |-> "none", got |-> Blank]

CodeEditorTypeOK ==
  /\ files \in [Paths -> Contents \cup {Blank}]
  /\ busy \in BOOLEAN
  /\ cur \in [path : Paths \cup {Blank}, base : Contents \cup {Blank}, doc : Contents \cup {Blank}, dirty : BOOLEAN]
  /\ opening \in [path : Paths \cup {Blank}, state : {"none", "asked", "answered"}, got : Contents \cup {Blank}]
  /\ requests \subseteq [kind : {"save", "rename", "delete"}, path : Paths, to : Paths \cup {Blank},
                         content : Contents \cup {Blank}, base : Contents \cup {Blank},
                         state : {"sent", "done", "refused"}]
  /\ Cardinality(requests) <= MaxRequests
  /\ seen \subseteq Contents

CodeEditorInit ==
  /\ files \in [Paths -> Contents \cup {Blank}] /\ files[Entrance] # Blank
  /\ cur = NoFile /\ opening = NotOpening /\ requests = {} /\ busy = FALSE
  /\ seen = {}

-----------------------------------------------------------------------------
(* The browser *)

IsNew == cur.path # Blank /\ cur.base = Blank

\* openFile: a click in the tree drops unsaved edits after a question; a poll only opens
\* when there are none.
OpenFile(p) ==
  /\ p # cur.path
  /\ opening' = Open_(p)
  /\ UNCHANGED <<files, cur, requests, busy, seen>>

\* draw lists the files again only when nothing is being sent or edited.
Idle == ~busy /\ ~cur.dirty

\* loadList ends in opening the open file again, or any when there is none.
Poll(p) ==
  /\ Idle /\ ~IsNew /\ (cur.path = Blank \/ p = cur.path)
  /\ opening' = Open_(p)
  /\ UNCHANGED <<files, cur, requests, busy, seen>>

\* `Reload from server', after a conflict or when the source changed elsewhere.
Reload ==
  /\ cur.path # Blank
  /\ cur' = [cur EXCEPT !.dirty = FALSE]
  /\ opening' = Open_(cur.path)
  /\ UNCHANGED <<files, requests, busy, seen>>

\* The reply of the newest opening replaces whatever is in the editor.
Opened ==
  /\ opening.state = "answered"
  /\ opening' = NotOpening
  /\ IF opening.got = Blank THEN UNCHANGED <<cur, seen>> ELSE
     /\ cur' = [path |-> opening.path, base |-> opening.got, doc |-> opening.got, dirty |-> FALSE]
     /\ seen' = seen \cup {opening.got}
  /\ UNCHANGED <<files, requests, busy>>

Type(c) ==
  /\ cur.path # Blank /\ c # cur.doc
  /\ cur' = [cur EXCEPT !.doc = c, !.dirty = (c # cur.base)]
  /\ UNCHANGED <<files, opening, requests, busy, seen>>

\* The prompt for a new file; an opening under way is overtaken.
New(p) ==
  /\ p # cur.path
  /\ cur' = [NoFile EXCEPT !.path = p]
  /\ opening' = NotOpening
  /\ UNCHANGED <<files, requests, busy, seen>>

Send(request) ==
  /\ Cardinality(requests) < MaxRequests
  /\ requests' = requests \cup {request}
  /\ busy' = TRUE
  /\ UNCHANGED <<files, cur, opening>>

\* The content that is sent counts as seen: it will be this editor's own.
Save ==
  /\ cur.path # Blank /\ ~busy /\ (cur.dirty \/ IsNew) /\ cur.doc # Blank
  /\ Send([kind |-> "save", path |-> cur.path, to |-> Blank, content |-> cur.doc, base |-> cur.base, state |-> "sent"])
  /\ seen' = seen \cup {cur.doc}

\* Neither prompt looks at busy.
Rename(p) ==
  /\ cur.path \notin {Blank, p} /\ ~cur.dirty /\ ~IsNew
  /\ Send([kind |-> "rename", path |-> cur.path, to |-> p, content |-> Blank, base |-> cur.base, state |-> "sent"])
  /\ UNCHANGED seen

Delete ==
  /\ cur.path # Blank /\ ~IsNew
  /\ Send([kind |-> "delete", path |-> cur.path, to |-> Blank, content |-> Blank, base |-> cur.base, state |-> "sent"])
  /\ UNCHANGED seen

\* The reply of a save counts if the file it was for is the open one (again).
Saved(r) ==
  IF r.state = "refused" \/ cur.path # r.path THEN cur
  ELSE [cur EXCEPT !.base = r.content, !.dirty = (cur.doc # r.content)]

Replied(r) ==
  /\ r.state # "sent"
  /\ requests' = requests \ {r}
  /\ busy' = FALSE
  /\ cur' = CASE r.kind = "save" -> Saved(r)
              [] r.state = "refused" -> cur
              [] OTHER -> NoFile
  /\ opening' = IF r.kind = "rename" /\ r.state = "done" THEN Open_(r.to) ELSE opening
  /\ UNCHANGED <<files, seen>>

-----------------------------------------------------------------------------
(* The server *)

ReadFile ==
  /\ opening.state = "asked"
  /\ opening' = [opening EXCEPT !.state = "answered", !.got = files[opening.path]]
  /\ UNCHANGED <<files, cur, requests, busy, seen>>

\* Mutant of Accepts: a new file is written without looking for an old one.
AcceptsNew(r) ==
  CASE r.kind = "save" -> r.base = Blank \/ r.base = files[r.path]
    [] r.kind = "delete" -> files[r.path] # Blank /\ r.path # Entrance /\ r.base = files[r.path]
    [] OTHER -> files[r.path] # Blank /\ r.path # Entrance /\ files[r.to] = Blank

\* The comparisons of saveFile, deleteFile and renameFile.
Accepts(r) ==
  CASE r.kind = "save" -> r.base = files[r.path]
    [] r.kind = "delete" -> files[r.path] # Blank /\ r.path # Entrance /\ r.base = files[r.path]
    [] OTHER -> files[r.path] # Blank /\ r.path # Entrance /\ files[r.to] = Blank

Answered(r, state) == requests' = (requests \ {r}) \cup {[r EXCEPT !.state = state]}

\* Also what could be accepted is refused: while a generation or a build runs (guardWrite),
\* at an unsafe path (appTarget), with a source that is not allowed (applyStatic).
Refuse(r) ==
  /\ r.state = "sent"
  /\ Answered(r, "refused")
  /\ UNCHANGED <<files, cur, opening, busy, seen>>

Handle(r) ==
  /\ r.state = "sent" /\ Accepts(r)
  /\ Answered(r, "done")
  /\ files' =
       CASE r.kind = "save" -> [files EXCEPT ![r.path] = r.content]
         [] r.kind = "delete" -> [files EXCEPT ![r.path] = Blank]
         [] OTHER -> [files EXCEPT ![r.path] = Blank, ![r.to] = files[r.path]]
  /\ UNCHANGED <<cur, opening, busy, seen>>

\* Somebody else writes, or a generation that runs replaces what it likes.
Elsewhere(p, c) ==
  /\ c # files[p] /\ (p # Entrance \/ c # Blank)
  /\ files' = [files EXCEPT ![p] = c]
  /\ UNCHANGED <<cur, opening, requests, busy, seen>>

-----------------------------------------------------------------------------
CodeEditorNext ==
  \/ \E p \in Paths : OpenFile(p) \/ Poll(p) \/ New(p) \/ Rename(p)
  \/ Reload \/ Opened \/ Save \/ Delete \/ ReadFile
  \/ \E c \in Contents : Type(c)
  \/ \E r \in requests : Replied(r) \/ Handle(r) \/ Refuse(r)
  \/ \E p \in Paths, c \in Contents \cup {Blank} : Elsewhere(p, c)

CodeEditorSpec == CodeEditorInit /\ [][CodeEditorNext]_evars

-----------------------------------------------------------------------------
(* Properties *)

\* A request of this editor never destroys a content the editor has neither shown nor sent,
\* however its openings, saves, renames and deletions cross each other and other people's.
NoBlindLoss ==
  [][\A p \in Paths :
       requests' # requests /\ files[p] # Blank /\ (\A q \in Paths : files'[q] # files[p])
         => files[p] \in seen]_evars
=============================================================================
