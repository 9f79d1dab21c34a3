----------------------------- MODULE ChatThread -----------------------------
(***************************************************************************)
(* A conversation with the model about an application: the streamed reply  *)
(* (demo/server.js, demo/chat.js, demo/litellm.js), the exchange the store *)
(* keeps of it, and the thread one browser shows (demo/web/ui.js), which   *)
(* merges what the store has, polled, with its own unfinished exchanges.   *)
(*                                                                         *)
(* Polls may overtake each other.  A poll's reply is a prefix of the log,  *)
(* known by its length; a text is told apart from no text only.            *)
(***************************************************************************)
EXTENDS Integers, SequencesExt

CONSTANTS
  Nonces,        \* drawn for each message of this browser
  Foreign,       \* an exchange of somebody else
  NoNonce,
  MaxExchanges,  \* bounds the exchanges ever recorded
  MaxChatLog,    \* 100 in the code
  MaxReplies     \* bounds the poll replies under way

ASSUME ChatThreadAssumption ==
  /\ Foreign \notin Nonces /\ NoNonce \notin Nonces \cup {Foreign}
  /\ MaxExchanges \in Nat \ {0} /\ MaxChatLog \in Nat \ {0} /\ MaxReplies \in Nat \ {0}

VARIABLES
  log,       \* every exchange ever recorded, of which the store keeps the latest
  view,      \* how much of it the browser's copy of the application knows
  newest,    \* history: the most it has known
  locals,    \* local: the exchanges the browser keeps itself, and their status
  inflight,  \* the message whose reply is awaited
  wire,      \* the events of that reply the browser has not read
  asked,     \* messages for which the server awaits the model
  replies,   \* poll replies under way
  used,      \* nonces drawn so far
  heard      \* history: the messages whose reply was read to the end

tvars == <<log, view, newest, locals, inflight, wire, asked, replies, used, heard>>
polled == <<view, newest, replies>>

Statuses == {"none", "pending", "streaming", "done", "stopped", "failed"}
Events == {"delta", "done", "error", "closed"}

ChatThreadTypeOK ==
  /\ log \in Seq(Nonces \cup {Foreign}) /\ Len(log) <= MaxExchanges
  /\ view \in 0..Len(log) /\ newest \in view..Len(log)
  /\ locals \in [Nonces -> Statuses]
  /\ inflight \in Nonces \cup {NoNonce}
  /\ wire \in Seq(Events) /\ Len(wire) <= 2
  /\ asked \subseteq used /\ heard \subseteq used /\ used \subseteq Nonces
  /\ replies \subseteq 0..Len(log)

ChatThreadInit ==
  /\ log = <<>> /\ view = 0 /\ newest = 0
  /\ locals = [n \in Nonces |-> "none"]
  /\ inflight = NoNonce /\ wire = <<>>
  /\ asked = {} /\ replies = {} /\ used = {} /\ heard = {}

-----------------------------------------------------------------------------
(* The server *)

Linked(n) == inflight = n /\ ~Contains(wire, "closed")
Tell(n, event) == wire' = IF Linked(n) THEN Append(wire, event) ELSE wire

\* streamChat hands on visible text; one delta stands for many.
Delta(n) ==
  /\ n \in asked /\ Linked(n) /\ wire = <<>>
  /\ Tell(n, "delta")
  /\ UNCHANGED <<log, locals, inflight, asked, used, heard, polled>>

\* recordChat, once the model has finished; what is sent then is the stored exchange.
Finish(n) ==
  /\ n \in asked /\ Len(log) < MaxExchanges
  /\ log' = Append(log, n)
  /\ asked' = asked \ {n}
  /\ Tell(n, "done")
  /\ UNCHANGED <<locals, inflight, used, heard, polled>>

\* The request is refused, the model fails, is silent for too long, or spent its budget
\* without an answer, or recordChat refuses: nothing is recorded.
ModelFails(n) ==
  /\ n \in asked
  /\ asked' = asked \ {n}
  /\ Tell(n, "error")
  /\ UNCHANGED <<log, locals, inflight, used, heard, polled>>

\* The server hears that the browser has gone and aborts the call.
HearGone(n) ==
  /\ n \in asked /\ ~Linked(n)
  /\ asked' = asked \ {n}
  /\ UNCHANGED <<log, locals, inflight, wire, used, heard, polled>>

SomebodyChats ==
  /\ Len(log) < MaxExchanges
  /\ log' = Append(log, Foreign)
  /\ UNCHANGED <<locals, inflight, wire, asked, used, heard, polled>>

-----------------------------------------------------------------------------
(* The browser *)

\* The exchanges of a copy, the latest 100 of a log of that length.
KeptOf(length) == {i \in 1..length : i > length - MaxChatLog}
Knows(length, n) == \E i \in KeptOf(length) : log[i] = n

Awaits(n, entries) ==
  /\ n \notin used
  /\ used' = used \cup {n}
  /\ locals' = [entries EXCEPT ![n] = "pending"]
  /\ inflight' = n /\ wire' = <<>>
  /\ asked' = asked \cup {n}
  /\ UNCHANGED <<log, heard, polled>>

\* sendChat: one reply at a time.
SendChat(n) == inflight = NoNonce /\ Awaits(n, locals)

\* Buttons of a failed bubble, which gives way to the exchange if that was recorded after all.
FailedBubble(n) == locals[n] = "failed" /\ ~Knows(view, n)

\* A failed message is sent again under a new nonce, whether or not it was recorded.
Retry(old, n) ==
  /\ inflight = NoNonce /\ FailedBubble(old)
  /\ Awaits(n, [locals EXCEPT ![old] = "none"])

Dismiss(n) ==
  /\ FailedBubble(n)
  /\ locals' = [locals EXCEPT ![n] = "none"]
  /\ UNCHANGED <<log, inflight, wire, asked, used, heard, polled>>

\* readSse and finishChat.  What is read last ends the wait.
ReadEvent ==
  /\ wire # <<>>
  /\ LET status == CASE Head(wire) = "delta" -> "streaming" [] Head(wire) = "done" -> "done" [] OTHER -> "failed"
     IN  /\ locals' = [locals EXCEPT ![inflight] = status]
         /\ heard' = IF status = "done" THEN heard \cup {inflight} ELSE heard
         /\ IF status = "streaming" THEN wire' = Tail(wire) /\ UNCHANGED inflight
            ELSE wire' = <<>> /\ inflight' = NoNonce
  /\ UNCHANGED <<log, asked, used, polled>>

\* The connection is lost with what has not arrived.
Cut ==
  /\ inflight # NoNonce /\ Linked(inflight)
  /\ wire' = <<"closed">>
  /\ UNCHANGED <<log, locals, inflight, asked, used, heard, polled>>

\* The stop button: what has been read of the reply stays, a message without any is taken back.
StopReply ==
  /\ inflight # NoNonce
  /\ locals' = [locals EXCEPT ![inflight] = IF @ = "streaming" THEN "stopped" ELSE "none"]
  /\ inflight' = NoNonce /\ wire' = <<>>
  /\ UNCHANGED <<log, asked, used, heard, polled>>

\* The server answers a refresh.
PollAnswered ==
  /\ Cardinality(replies) < MaxReplies
  /\ replies' = replies \cup {Len(log)}
  /\ UNCHANGED <<log, view, newest, locals, inflight, wire, asked, used, heard>>

\* Mutant of Settle: a finished entry is dropped at the next draw.
SettleAll(length) == [n \in Nonces |-> IF locals[n] = "done" THEN "none" ELSE locals[n]]

\* draw: a finished entry goes when the server's log has it.
Settle(length) == [n \in Nonces |-> IF locals[n] = "done" /\ Knows(length, n) THEN "none" ELSE locals[n]]

\* A reply replaces the copy, whichever refresh it was for.
PollLands(length) ==
  /\ length \in replies
  /\ replies' = replies \ {length}
  /\ view' = length
  /\ newest' = IF length > newest THEN length ELSE newest
  /\ locals' = Settle(length)
  /\ UNCHANGED <<log, inflight, wire, asked, used, heard>>

\* chatItems: what the store has, and the entries whose nonce is not among it.
Bubbles(n) ==
  Cardinality({i \in KeptOf(view) : log[i] = n})
    + (IF locals[n] # "none" /\ ~Knows(view, n) THEN 1 ELSE 0)

-----------------------------------------------------------------------------
ChatThreadNext ==
  \/ SomebodyChats \/ ReadEvent \/ Cut \/ StopReply \/ PollAnswered
  \/ \E n \in Nonces :
       \/ Delta(n) \/ Finish(n) \/ ModelFails(n) \/ HearGone(n) \/ SendChat(n) \/ Dismiss(n)
       \/ \E old \in Nonces : Retry(old, n)
  \/ \E length \in replies : PollLands(length)

ChatThreadSpec == ChatThreadInit /\ [][ChatThreadNext]_tvars

-----------------------------------------------------------------------------
(* Properties *)

\* No poll drops or duplicates a message: one the browser still keeps, or whose reply was
\* read to the end and is still in the log, has one bubble, except while the copy is older
\* than one that was drawn before.
OneBubbleEach ==
  view = newest =>
    \A n \in used :
      locals[n] # "none" \/ (n \in heard /\ Knows(Len(log), n)) => Bubbles(n) = 1
=============================================================================
