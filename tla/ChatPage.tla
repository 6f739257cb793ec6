------------------------------ MODULE ChatPage ------------------------------
(***************************************************************************)
(* The chat page of the browser (frontend/src/pages/Chat.jsx): one list of *)
(* messages on the screen, written by whatever answer of the server comes  *)
(* next: the load of a chat, the polls of a chat that works, the stream of *)
(* a question, the answer to an approval.  Handlers are atomic between     *)
(* awaits; requests and answers pass each other on the way.                *)
(*                                                                         *)
(* Of the server (ChatRuns) only what the page can see is kept: for each   *)
(* chat, the number of its last answer and whether that answer is being    *)
(* made, is complete while its run is still active (saving, as memory is   *)
(* ingested), waits for an approval or is settled, as a failed one is too. *)
(*                                                                         *)
(* Abstractions.  A load whose number is no longer current is forgotten at *)
(* once, as its answer is ignored (Chat.jsx:729).  The end of a stream     *)
(* says what the rows say when it comes.  Two polls on their way that say  *)
(* the same are one.  Titles, models, hosts, attachments and the deletion  *)
(* of chats are left out.                                                  *)
(***************************************************************************)
EXTENDS Naturals, FiniteSets

CONSTANTS
  Chats, NoChat,
  MaxTurns,   \* bound on the answers of a chat
  MaxMoves,   \* bound on what the user does besides asking and on failed requests
  MaxPolls    \* bound on the polls on their way

ASSUME PageAssumption ==
  NoChat \notin Chats /\ Chats # {} /\ MaxTurns \in Nat /\ MaxMoves \in Nat /\ MaxPolls \in Nat

VARIABLES
  server,     \* chat -> its last answer, as the rows say
  active,     \* activeChatIdRef
  view,       \* messages: whose, the last answer; temp: it has a temporary id
  load,       \* getChat of the effect that follows activeChatId
  poller,     \* pollingRef: the chat of the interval
  polls,      \* getChat of intervals; late: its interval has been cleared
  stream,     \* the request of handleSend
  resolving,  \* the request of handleResolveApproval
  orphans,    \* questions posted whose page no longer listens
  moves,      \* actions counted against MaxMoves
  mishaps     \* history: what the page does not recover from

vars == <<server, active, view, load, poller, polls, stream, resolving, orphans, moves, mishaps>>

Settled == {"none", "done"}
Busy == {"working", "saving"}                   \* a run is active
Answer == [turn: 0..MaxTurns, st: Settled \cup Busy \cup {"approval"}]
Unread == [turn |-> 0, st |-> "unread"]
Snap == Answer \cup {Unread}                    \* what a request has read
Poll == [chat: Chats, snap: Snap, late: BOOLEAN]
NoLoad == [chat |-> NoChat, snap |-> Unread]
NoStream == [chat |-> NoChat, at |-> "none"]
NoResolve == [chat |-> NoChat, decision |-> "none", at |-> "none", snap |-> Unread, to |-> "page"]

View == [chat: Chats, turn: 0..MaxTurns, temp: BOOLEAN,
         st: Settled \cup {"working", "approval", "failed"}]
Load == [chat: Chats, snap: Snap]
Stream == [chat: Chats, at: {"posted", "open", "mute"}]
Decision == {"approve", "deny", "other"}
Resolution == [chat: Chats, decision: Decision, at: {"asked", "taken", "answered"},
               snap: Snap, to: {"page", "moved", "gone"}]

TypeOK ==
  /\ server \in [Chats -> Answer]
  /\ active \in Chats
  /\ view \in View
  /\ load \in Load \cup {NoLoad}
  /\ poller \in Chats \cup {NoChat}
  /\ polls \subseteq Poll
  /\ stream \in Stream \cup {NoStream}
  /\ resolving \in Resolution \cup {NoResolve}
  /\ resolving.at = "answered" => resolving.snap # Unread
  /\ orphans \subseteq Chats
  /\ moves \in 0..MaxMoves
  /\ mishaps \subseteq {"latePoll", "lateApproval", "crossed", "overtaken", "endLost", "interrupted"}

\* The page is opened on some chat.
Init ==
  /\ server = [c \in Chats |-> [turn |-> 0, st |-> "none"]]
  /\ active \in Chats
  /\ view = [chat |-> active, turn |-> 0, st |-> "none", temp |-> FALSE]
  /\ load = [chat |-> active, snap |-> Unread]
  /\ poller = NoChat /\ polls = {}
  /\ stream = NoStream /\ resolving = NoResolve
  /\ orphans = {} /\ moves = 0 /\ mishaps = {}

Mishap(happens, name) == mishaps' = IF happens THEN mishaps \cup {name} ELSE mishaps
Move == moves < MaxMoves /\ moves' = moves + 1

-----------------------------------------------------------------------------
(* Shared pieces of the handlers.                                          *)

\* setMessages with what the server said.  Messages do not tell that a run is
\* still active.
Seen(st) == IF st = "saving" THEN "done" ELSE st
Show(c, snap) == view' = [chat |-> c, turn |-> snap.turn, st |-> Seen(snap.st), temp |-> FALSE]

\* clearInterval: no further poll is sent, those on their way still arrive.
Late(ps) == {[p EXCEPT !.late = TRUE] : p \in ps}
StopPolling(ps) == poller' = NoChat /\ polls' = Late(ps)

\* startPollingForChat
Watch(c) == poller' = c /\ polls' = Late(polls)

\* A chat with an active run is polled until it has none.
ShowAndWatch(c, snap) ==
  /\ Show(c, snap)
  /\ IF snap.st \in Busy THEN Watch(c) ELSE UNCHANGED <<poller, polls>>

\* stopStreaming: the question may or may not have reached the server.
StopStreaming ==
  /\ stream' = NoStream
  /\ orphans' = IF stream.at = "posted" THEN orphans \cup {stream.chat} ELSE orphans

\* The effect that follows activeChatId: load the chat, poll no other.
StartLoad(c) == load' = [chat |-> c, snap |-> Unread]

-----------------------------------------------------------------------------
(* The user moves.                                                         *)

\* Another chat becomes active.  Its messages come with the load.
OpenChat(c) ==
  /\ Move
  /\ active' = c
  /\ StartLoad(c)
  /\ StopPolling(polls)
  /\ StopStreaming
  /\ resolving' = IF resolving = NoResolve THEN resolving ELSE [resolving EXCEPT !.to = "moved"]
  /\ Mishap(stream.at = "posted", "interrupted")
  /\ UNCHANGED server

\* handleSelectChat
Select(c) == c # active /\ OpenChat(c) /\ UNCHANGED view

\* handleNewChat.  What comes while it waits for createChat is as if it had
\* come before.
NewChat(c) ==
  /\ c # active /\ server[c].turn = 0
  /\ OpenChat(c)
  /\ Show(c, server[c])

\* The server does not create the chat: stream and polling have been stopped.
NewChatFails ==
  /\ Move
  /\ StopPolling(polls)
  /\ StopStreaming
  /\ Mishap(TRUE, "interrupted")
  /\ UNCHANGED <<server, active, view, load, resolving>>

\* The page is left, or refreshed, and opened again on the same chat.  The
\* answers on their way to the old page are for nobody.
Reopen ==
  /\ Move
  /\ view' = [chat |-> active, turn |-> 0, st |-> "none", temp |-> FALSE]
  /\ StartLoad(active)
  /\ poller' = NoChat /\ polls' = {}
  /\ StopStreaming
  /\ resolving' = IF resolving = NoResolve THEN resolving ELSE [resolving EXCEPT !.to = "gone"]
  /\ Mishap(stream.at = "posted" \/ resolving # NoResolve, "interrupted")
  /\ UNCHANGED <<server, active>>

\* The effect runs again when the list of models or of hosts has changed.
Reload ==
  /\ Move
  /\ StartLoad(active)
  /\ StopPolling(polls)
  /\ Mishap(stream # NoStream \/ resolving # NoResolve, "crossed")
  /\ UNCHANGED <<server, active, view, stream, resolving, orphans>>

-----------------------------------------------------------------------------
(* Loads and polls.                                                        *)

ReadLoad ==
  /\ load # NoLoad /\ load.snap = Unread
  /\ load' = [load EXCEPT !.snap = server[load.chat]]
  /\ UNCHANGED <<server, active, view, poller, polls, stream, resolving, orphans, moves, mishaps>>

\* Mutant: the messages are shown before the answer has come.
DeliverLoadEarly ==
  /\ load # NoLoad
  /\ load' = NoLoad
  /\ ShowAndWatch(load.chat, load.snap)
  /\ UNCHANGED <<server, active, stream, resolving, orphans, moves, mishaps>>

\* Mutant: a chat that is still working is not polled.
DeliverLoadUnwatched ==
  /\ load # NoLoad /\ load.snap # Unread
  /\ load' = NoLoad
  /\ Show(load.chat, load.snap)
  /\ UNCHANGED <<server, active, poller, polls, stream, resolving, orphans, moves, mishaps>>

DeliverLoad ==
  /\ load # NoLoad /\ load.snap # Unread
  /\ load' = NoLoad
  /\ ShowAndWatch(load.chat, load.snap)
  /\ UNCHANGED <<server, active, stream, resolving, orphans, moves, mishaps>>

\* The error is swallowed: the page keeps what it shows.
LoadFails ==
  /\ Move
  /\ load # NoLoad
  /\ load' = NoLoad
  /\ Mishap(TRUE, "interrupted")
  /\ UNCHANGED <<server, active, view, poller, polls, stream, resolving, orphans>>

\* The interval fires, whether or not earlier polls have been answered.
Tick ==
  /\ poller # NoChat
  /\ Cardinality(polls) < MaxPolls
  /\ polls' = polls \cup {[chat |-> poller, snap |-> Unread, late |-> FALSE]}
  /\ UNCHANGED <<server, active, view, load, poller, stream, resolving, orphans, moves, mishaps>>

ReadPoll(p) ==
  /\ p.snap = Unread
  /\ polls' = (polls \ {p}) \cup {[p EXCEPT !.snap = server[p.chat]]}
  /\ UNCHANGED <<server, active, view, load, poller, stream, resolving, orphans, moves, mishaps>>

\* An answer without an active run changes only by a question or a decision.
\* This one was read before the server took it: it puts the old messages back
\* and ends the polling.
Overtaken(p) ==
  /\ p.chat = active /\ p.snap.st \notin Busy
  /\ stream.at = "posted" \/ p.snap # server[active]

PollMishaps(p) ==
  mishaps' = mishaps \cup (IF p.late THEN {"latePoll"} ELSE {})
                     \cup (IF Overtaken(p) THEN {"overtaken"} ELSE {})

\* Mutant: the answer is shown whichever chat is active.
DeliverPollAnyChat(p) ==
  /\ p.snap # Unread
  /\ Show(p.chat, p.snap)
  /\ IF p.snap.st \notin Busy
       THEN StopPolling(polls \ {p})
       ELSE polls' = polls \ {p} /\ UNCHANGED poller
  /\ PollMishaps(p)
  /\ UNCHANGED <<server, active, load, stream, resolving, orphans, moves>>

\* The answer to a poll.  One for a chat that is no longer active stops the
\* polling, whosever it is.
DeliverPoll(p) ==
  /\ p.snap # Unread
  /\ IF p.chat = active THEN Show(p.chat, p.snap) ELSE UNCHANGED view
  /\ IF p.chat # active \/ p.snap.st \notin Busy
       THEN StopPolling(polls \ {p})
       ELSE polls' = polls \ {p} /\ UNCHANGED poller
  /\ PollMishaps(p)
  /\ UNCHANGED <<server, active, load, stream, resolving, orphans, moves>>

\* A poll that fails is logged; the next one is sent.
PollFails(p) ==
  /\ Move
  /\ polls' = polls \ {p}
  /\ UNCHANGED <<server, active, view, load, poller, stream, resolving, orphans, mishaps>>

-----------------------------------------------------------------------------
(* handleSend and its stream.                                              *)

\* The question and an empty answer are shown before the server has them.  The
\* page looks at its messages, not at the active run: it asks, and goes on
\* polling, while the run of a complete answer is still active.
Send ==
  /\ view.st \notin {"working", "approval"} /\ stream = NoStream
  /\ server[active].turn < MaxTurns
  /\ stream' = [chat |-> active, at |-> "posted"]
  /\ view' = [chat |-> active, turn |-> server[active].turn + 1, st |-> "working", temp |-> TRUE]
  /\ Mishap(load # NoLoad \/ resolving # NoResolve, "crossed")
  /\ UNCHANGED <<server, active, load, poller, polls, resolving, orphans, moves>>

Free(c) == server[c].st \in Settled /\ server[c].turn < MaxTurns
NextTurn(c) == server' = [server EXCEPT ![c] = [turn |-> @.turn + 1, st |-> "working"]]

Accept ==
  /\ stream.at = "posted" /\ Free(stream.chat)
  /\ NextTurn(stream.chat)
  /\ stream' = [stream EXCEPT !.at = "open"]
  /\ UNCHANGED <<active, view, load, poller, polls, resolving, orphans, moves, mishaps>>

Failed == view' = IF view.temp THEN [view EXCEPT !.st = "failed", !.temp = FALSE] ELSE view

\* 409: the chat has an active run or a pending approval.
Refuse ==
  /\ stream.at = "posted" /\ server[stream.chat].st \notin Settled
  /\ Failed
  /\ stream' = NoStream
  /\ UNCHANGED <<server, active, load, poller, polls, resolving, orphans, moves, mishaps>>

\* A question whose page is gone is accepted, or does not arrive.
Orphaned(c) ==
  /\ c \in orphans
  /\ orphans' = orphans \ {c}
  /\ \/ Free(c) /\ NextTurn(c)
     \/ UNCHANGED server
  /\ UNCHANGED <<active, view, load, poller, polls, stream, resolving, moves, mishaps>>

\* The end of the stream.  `done' and `error' are for the answer with the
\* temporary id, an approval also for the one with the id of the message.
StreamEnd ==
  LET c == stream.chat IN
  /\ stream.at = "open" /\ server[c].st \in {"done", "approval"}
  /\ stream' = NoStream
  /\ IF view.temp \/ (server[c].st = "approval" /\ view.chat = c /\ view.turn = server[c].turn)
       THEN Show(c, server[c]) ELSE UNCHANGED view
  /\ UNCHANGED <<server, active, load, poller, polls, resolving, orphans, moves, mishaps>>

\* The queue was full, or the error has no text, and a stream ends on neither
\* (AnswerStream): the page hears nothing but pings.
EndLost ==
  /\ Move
  /\ stream.at = "open" /\ server[stream.chat].st \in {"done", "approval"}
  /\ stream' = [stream EXCEPT !.at = "mute"]
  /\ Mishap(TRUE, "endLost")
  /\ UNCHANGED <<server, active, view, load, poller, polls, resolving, orphans>>

\* The connection is lost: an error marks the answer failed; an end without a
\* last event leaves it as it is.
StreamBreak ==
  /\ Move
  /\ stream # NoStream
  /\ Failed \/ (stream.at # "posted" /\ UNCHANGED view)
  /\ StopStreaming
  /\ Mishap(TRUE, "interrupted")
  /\ UNCHANGED <<server, active, load, poller, polls, resolving>>

-----------------------------------------------------------------------------
(* handleResolveApproval.                                                  *)

Resolve(decision) ==
  /\ Move
  /\ view.st = "approval" /\ view.chat = active /\ resolving = NoResolve
  /\ decision = "other" => view.turn < MaxTurns
  /\ resolving' = [chat |-> active, decision |-> decision, at |-> "asked", snap |-> Unread, to |-> "page"]
  /\ Mishap(load # NoLoad \/ stream # NoStream, "crossed")
  /\ UNCHANGED <<server, active, view, load, poller, polls, stream, orphans>>

\* The server has the decision; 409 if the approval is no longer pending.
TakeResolve ==
  LET c == resolving.chat  d == resolving.decision IN
  /\ resolving.at = "asked"
  /\ IF server[c].st = "approval" /\ (d = "other" => server[c].turn < MaxTurns)
       THEN /\ resolving' = [resolving EXCEPT !.at = "taken"]
            /\ CASE d = "approve" -> server' = [server EXCEPT ![c].st = "working"]
                 [] d = "deny"    -> server' = [server EXCEPT ![c].st = "done"]
                 [] d = "other"   -> NextTurn(c)
       ELSE resolving' = NoResolve /\ UNCHANGED server
  /\ UNCHANGED <<active, view, load, poller, polls, stream, orphans, moves, mishaps>>

\* The answer is written: after the command, when it was approved.
AnswerResolve ==
  /\ resolving.at = "taken"
  /\ resolving' = [resolving EXCEPT !.at = "answered", !.snap = server[resolving.chat]]
  /\ UNCHANGED <<server, active, view, load, poller, polls, stream, orphans, moves, mishaps>>

\* Mutant: the page does not poll the chat that goes on.
DeliverResolveUnwatched ==
  /\ resolving.at = "answered"
  /\ resolving' = NoResolve
  /\ IF resolving.to = "gone"
       THEN UNCHANGED view
       ELSE Show(resolving.chat, resolving.snap)
  /\ Mishap(resolving.to = "moved", "lateApproval")
  /\ UNCHANGED <<server, active, load, poller, polls, stream, orphans, moves>>

\* The answer is shown and watched whichever chat is active.
DeliverResolve ==
  /\ resolving.at = "answered"
  /\ resolving' = NoResolve
  /\ IF resolving.to = "gone"
       THEN UNCHANGED <<view, poller, polls>>
       ELSE ShowAndWatch(resolving.chat, resolving.snap)
  /\ Mishap(resolving.to = "moved", "lateApproval")
  /\ UNCHANGED <<server, active, load, stream, orphans, moves>>

\* A toast; the page keeps what it shows.
ResolveFails ==
  /\ Move
  /\ resolving # NoResolve
  /\ resolving' = NoResolve
  /\ Mishap(TRUE, "interrupted")
  /\ UNCHANGED <<server, active, view, load, poller, polls, stream, orphans>>

-----------------------------------------------------------------------------
(* The task of a chat (ChatRuns): its answer is complete, and its run after *)
(* memory is ingested; or it fails, or asks for approval.                  *)

Work(c) ==
  /\ \/ /\ server[c].st = "working"
        /\ \E st \in {"saving", "done", "approval"} : server' = [server EXCEPT ![c].st = st]
     \/ /\ server[c].st = "saving"
        /\ server' = [server EXCEPT ![c].st = "done"]
  /\ UNCHANGED <<active, view, load, poller, polls, stream, resolving, orphans, moves, mishaps>>

Next ==
  \/ \E c \in Chats : Select(c) \/ NewChat(c) \/ Orphaned(c) \/ Work(c)
  \/ NewChatFails \/ Reopen \/ Reload
  \/ ReadLoad \/ DeliverLoad \/ LoadFails
  \/ Tick
  \/ \E p \in polls : ReadPoll(p) \/ DeliverPoll(p) \/ PollFails(p)
  \/ Send \/ Accept \/ Refuse \/ StreamEnd \/ EndLost \/ StreamBreak
  \/ \E d \in Decision : Resolve(d)
  \/ TakeResolve \/ AnswerResolve \/ DeliverResolve \/ ResolveFails

\* Requests are answered, intervals fire, tasks end (ChatRuns: RunSettles; where
\* an approved command raises, the decision fails, a mishap), a stream ends
\* unless its end is lost (AnswerStream: StreamEndsUnlessLost).  Nothing is
\* assumed of the user.
Fairness ==
  /\ WF_vars(ReadLoad) /\ WF_vars(DeliverLoad)
  /\ WF_vars(Tick)
  /\ WF_vars(\E p \in polls : ReadPoll(p))
  /\ WF_vars(\E p \in polls : DeliverPoll(p))
  /\ WF_vars(Accept) /\ WF_vars(Refuse) /\ WF_vars(StreamEnd)
  /\ WF_vars(TakeResolve) /\ WF_vars(AnswerResolve) /\ WF_vars(DeliverResolve)
  /\ \A c \in Chats : WF_vars(Work(c)) /\ WF_vars(Orphaned(c))

Spec == Init /\ [][Next]_vars /\ Fairness

-----------------------------------------------------------------------------

\* The page shows what the rows say of the active chat.
Current ==
  view.chat = active /\ view.turn = server[active].turn /\ view.st = Seen(server[active].st)

\* Chat.jsx:728 `user may have switched again before this resolved': messages
\* of another chat are on the screen only until the load of the active one
\* comes, unless an approval was answered for a chat left meanwhile, or the
\* load has failed.
ShownIsActive ==
  view.chat = active \/ load # NoLoad \/ mishaps \cap {"lateApproval", "interrupted"} # {}

\* A page that waits for nothing shows what the rows say: whatever passed
\* whatever on the way, no bubble types for ever and no decision already made
\* is asked for again, unless one of the mishaps has happened.
RestIsCurrent ==
  /\ load = NoLoad /\ poller = NoChat /\ stream = NoStream /\ resolving = NoResolve
  /\ mishaps = {}
  => Current

\* In the end the page shows what the server has, unless one of the mishaps
\* has happened.
PageCatchesUp == <>[](Current \/ mishaps # {})

=============================================================================
