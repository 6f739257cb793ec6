--------------------------- MODULE ChatPageProofs ---------------------------
(***************************************************************************)
(* Theorems about ChatPage, for any number of chats, answers and polls:    *)
(* whose messages are on the screen, and that a page at rest is current.   *)
(***************************************************************************)
EXTENDS ChatPage, TLAPS

-----------------------------------------------------------------------------
(* Strengthenings.                                                         *)

\* Requests of the page are for the active chat.
LoadIsActive == load # NoLoad => load.chat = active
StreamIsActive == stream # NoStream => stream.chat = active
ResolveIsActive == resolving # NoResolve /\ resolving.to = "page" => resolving.chat = active

\* No run of the active chat is active.
Quiet == server[active].st \notin Busy

\* What was read of a chat is still so, or will be asked again.
Fresh(c, snap) ==
  \/ snap \in {Unread, server[c]}
  \/ snap.st \in Busy
  \/ resolving.chat = c /\ resolving.at \in {"taken", "answered"}

\* No question is on its way but that of the page, and no page is gone.
NoGhosts == orphans = {} /\ resolving.to # "gone"

\* A load has the page for itself.
LoadAlone ==
  load # NoLoad =>
    /\ stream = NoStream /\ poller = NoChat
    /\ resolving = NoResolve \/ resolving.to = "moved"
    /\ Fresh(load.chat, load.snap)

\* A question will be accepted, or is asked while the chat is polled; its end
\* will find the placeholder, or what is shown is polled or already so.
StreamWatched ==
  stream # NoStream =>
    /\ resolving = NoResolve /\ stream.at # "mute"
    /\ stream.at = "posted" => server[active].st \in Settled \/ poller = active
    /\ \/ view.temp \/ poller = active
       \/ stream.at = "open" /\ Current /\ Quiet

\* The chat that is polled is the active one.
PollsActive ==
  /\ poller # NoChat => poller = active
  /\ \A p \in polls : ~p.late => p.chat = poller

\* A decision is made on what the rows say, and its answer is fresh.
ResolveFresh ==
  /\ resolving.at = "asked" =>
       /\ server[resolving.chat].st = "approval"
       /\ resolving.decision = "other" => server[resolving.chat].turn < MaxTurns
  /\ resolving.at = "answered" =>
       resolving.snap.st \in Busy \/ resolving.snap = server[resolving.chat]

\* What no load or decision will replace.
Undecided == load = NoLoad /\ (resolving = NoResolve \/ resolving.at = "asked")

\* A pending approval that is shown is pending.
ApprovalShown == Undecided /\ view.st = "approval" => Current

\* At rest but for a decision that has not been taken, the page is current
\* and no run is active.
Rested == Undecided /\ poller = NoChat /\ stream = NoStream => Current /\ Quiet

Calm ==
  /\ NoGhosts /\ LoadAlone /\ StreamWatched /\ PollsActive
  /\ ResolveFresh /\ ApprovalShown /\ Rested

Requests == LoadIsActive /\ StreamIsActive /\ ResolveIsActive

-----------------------------------------------------------------------------
(* The records.                                                            *)

\* The fields of a load that is under way.
LEMMA LoadFields ==
  ASSUME TypeOK, load # NoLoad PROVE load.chat \in Chats /\ load.snap \in Snap
BY DEF TypeOK, Load

\* The fields of a poll.
LEMMA PollFields ==
  ASSUME TypeOK, NEW p \in polls PROVE p \in Poll /\ p.chat \in Chats /\ p.snap \in Snap
BY DEF TypeOK, Poll

\* The fields of a question that is under way.
LEMMA StreamFields ==
  ASSUME TypeOK
  PROVE  /\ stream # NoStream => stream \in Stream /\ stream.chat \in Chats /\ stream.at \in {"posted", "open", "mute"}
         /\ stream = NoStream => stream.at = "none"
BY DEF TypeOK, Stream, NoStream

\* The fields of a decision that is under way.
LEMMA ResolveFields ==
  ASSUME TypeOK
  PROVE  /\ resolving # NoResolve =>
              /\ resolving \in Resolution
              /\ resolving.chat \in Chats /\ resolving.snap \in Snap
              /\ resolving.decision \in Decision
              /\ resolving.at \in {"asked", "taken", "answered"}
         /\ resolving = NoResolve => resolving.at = "none" /\ resolving.chat = NoChat
BY DEF TypeOK, Resolution, NoResolve

\* What may be shown.
LEMMA ShowType ==
  ASSUME NEW c \in Chats, NEW snap \in Snap, snap # Unread, Show(c, snap)
  PROVE  view' \in View
<1>1. snap \in Answer
  BY DEF Snap
<1>2. Seen(snap.st) \in Settled \cup {"working", "approval", "failed"}
  BY <1>1 DEF Seen, Answer, Busy, Settled
<1> QED
  BY <1>1, <1>2 DEF Show, Answer, View

\* What the server may answer.
LEMMA ServerType ==
  ASSUME TypeOK, NEW c \in Chats
  PROVE  /\ server[c] \in Answer
         /\ server[c] \in Snap /\ server[c] # Unread
         /\ \A a \in Answer : [server EXCEPT ![c] = a] \in [Chats -> Answer]
         /\ \A st \in {"working", "saving", "done", "approval"} : [server EXCEPT ![c].st = st] \in [Chats -> Answer]
<1>1. server[c] \in Answer
  BY DEF TypeOK
<1>2. server[c] # Unread
  BY <1>1 DEF Answer, Unread, Settled, Busy
<1>3. \A st \in {"working", "saving", "done", "approval"} : [server[c] EXCEPT !.st = st] \in Answer
  BY <1>1 DEF Answer, Settled, Busy
<1>4. ASSUME NEW a \in Answer PROVE [server EXCEPT ![c] = a] \in [Chats -> Answer]
  BY <1>4 DEF TypeOK
<1>5. \A st \in {"working", "saving", "done", "approval"} : [server EXCEPT ![c].st = st] \in [Chats -> Answer]
  BY <1>3 DEF TypeOK
<1> QED
  BY <1>1, <1>2, <1>4, <1>5 DEF Snap

\* The next answer of a chat.
LEMMA NextTurnType ==
  ASSUME TypeOK, NEW c \in Chats, server[c].turn < MaxTurns, NextTurn(c)
  PROVE  server' \in [Chats -> Answer]
<1>1. server[c].turn \in 0..MaxTurns
  BY DEF TypeOK, Answer
<1>2. [turn |-> server[c].turn + 1, st |-> "working"] \in Answer
  BY <1>1, PageAssumption DEF Answer, Busy
<1>3. server' = [server EXCEPT ![c] = [turn |-> server[c].turn + 1, st |-> "working"]]
  BY DEF NextTurn
<1> QED
  BY <1>2, <1>3, ServerType

\* What the server does with a decision.
LEMMA TakeEffect ==
  ASSUME TypeOK, TakeResolve
  PROVE  \/ server' = server
         \/ server' = [server EXCEPT ![resolving.chat].st = "working"]
         \/ server' = [server EXCEPT ![resolving.chat].st = "done"]
         \/ server[resolving.chat].turn < MaxTurns /\ NextTurn(resolving.chat)
<1>1. resolving.decision \in Decision
  BY ResolveFields DEF TakeResolve
<1> QED
  BY <1>1 DEF TakeResolve, Decision

\* Polls whose interval is cleared.
LEMMA LateType ==
  ASSUME NEW ps \in SUBSET Poll PROVE Late(ps) \subseteq Poll
BY DEF Late, Poll

\* A load that has just been sent.
LEMMA StartLoadType ==
  ASSUME NEW c \in Chats, StartLoad(c) PROVE load' \in Load
BY DEF StartLoad, Load, Snap

\* A question given up.
LEMMA StopStreamingType ==
  ASSUME TypeOK, StopStreaming
  PROVE  stream' = NoStream /\ orphans' \subseteq Chats
<1>1. stream.at = "posted" => stream.chat \in Chats
  BY StreamFields
<1> QED
  BY <1>1 DEF StopStreaming, TypeOK

\* A decision whose page is left.
LEMMA LeftType ==
  ASSUME TypeOK, NEW to \in {"moved", "gone"},
         resolving' = IF resolving = NoResolve THEN resolving ELSE [resolving EXCEPT !.to = to]
  PROVE  /\ resolving' \in Resolution \cup {NoResolve}
         /\ resolving'.at = resolving.at /\ resolving'.snap = resolving.snap
<1>1. CASE resolving = NoResolve
  BY <1>1
<1>2. CASE resolving # NoResolve
  BY <1>2, ResolveFields DEF Resolution
<1> QED
  BY <1>1, <1>2

\* What an answer shown and watched leaves.
LEMMA WatchType ==
  ASSUME TypeOK, NEW c \in Chats, NEW snap \in Snap, snap # Unread, ShowAndWatch(c, snap)
  PROVE  view' \in View /\ poller' \in Chats \cup {NoChat} /\ polls' \subseteq Poll
<1>1. view' \in View
  BY ShowType DEF ShowAndWatch
<1>2. polls \subseteq Poll /\ poller \in Chats \cup {NoChat}
  BY DEF TypeOK
<1>3. Late(polls) \subseteq Poll
  BY <1>2, LateType
<1> QED
  BY <1>1, <1>2, <1>3 DEF ShowAndWatch, Watch

\* One more move.
LEMMA MoveType == ASSUME TypeOK, Move PROVE moves' \in 0..MaxMoves
BY PageAssumption DEF TypeOK, Move

\* One more mishap.
Names == {"latePoll", "lateApproval", "crossed", "overtaken", "endLost", "interrupted"}
LEMMA MishapType ==
  ASSUME TypeOK, NEW happens, NEW name \in Names, Mishap(happens, name) PROVE mishaps' \subseteq Names
BY DEF TypeOK, Mishap, Names

-----------------------------------------------------------------------------

\* The initial states have the types.
LEMMA InitType == Init => TypeOK
<1> SUFFICES ASSUME Init PROVE TypeOK
  OBVIOUS
<1>1. server \in [Chats -> Answer]
  BY PageAssumption DEF Init, Answer, Settled
<1>2. view \in View
  BY PageAssumption DEF Init, View, Settled
<1>3. load \in Load
  BY DEF Init, Load, Snap
<1> QED
  BY <1>1, <1>2, <1>3, PageAssumption DEF Init, TypeOK, NoResolve

\* Leaving for another chat.
LEMMA OpenType ==
  ASSUME TypeOK, NEW c \in Chats, OpenChat(c), view' \in View PROVE TypeOK'
<1>1. polls \subseteq Poll
  BY DEF TypeOK
<1>2. load' \in Load /\ stream' = NoStream /\ orphans' \subseteq Chats
  BY StartLoadType, StopStreamingType DEF OpenChat
<1>3. /\ resolving' \in Resolution \cup {NoResolve}
      /\ resolving'.at = resolving.at /\ resolving'.snap = resolving.snap
  BY LeftType DEF OpenChat
<1>4. moves' \in 0..MaxMoves /\ mishaps' \subseteq Names
  BY MoveType, MishapType DEF OpenChat, Names
<1>5. poller' = NoChat /\ polls' \subseteq Poll
  BY <1>1, LateType DEF OpenChat, StopPolling
<1> QED
  BY <1>2, <1>3, <1>4, <1>5 DEF OpenChat, TypeOK, Names

\* Every step keeps the types.
LEMMA TypeStep ==
  ASSUME TypeOK, [Next]_vars PROVE TypeOK'
<1>1. ASSUME NEW c \in Chats, Select(c) PROVE TypeOK'
  BY <1>1, OpenType DEF Select, TypeOK
<1>2. ASSUME NEW c \in Chats, NewChat(c) PROVE TypeOK'
  BY <1>2, OpenType, ServerType, ShowType DEF NewChat
<1>3. ASSUME NEW c \in Chats, Orphaned(c) PROVE TypeOK'
  <2>1. server' \in [Chats -> Answer]
    BY <1>3, NextTurnType DEF Orphaned, Free, TypeOK
  <2> QED
    BY <1>3, <2>1 DEF Orphaned, TypeOK
<1>4. ASSUME NEW c \in Chats, Work(c) PROVE TypeOK'
  <2>1. PICK st \in {"saving", "done", "approval"} : server' = [server EXCEPT ![c].st = st]
    BY <1>4 DEF Work
  <2>2. server' \in [Chats -> Answer]
    BY <2>1, ServerType
  <2> QED
    BY <1>4, <2>2 DEF Work, TypeOK
<1>5. CASE Reopen
  <2>1. view' \in View
    BY <1>5, PageAssumption DEF Reopen, View, Settled, TypeOK
  <2>2. load' \in Load /\ stream' = NoStream /\ orphans' \subseteq Chats
    BY <1>5, StartLoadType, StopStreamingType DEF Reopen, TypeOK
  <2>3. /\ resolving' \in Resolution \cup {NoResolve}
        /\ resolving'.at = resolving.at /\ resolving'.snap = resolving.snap
    BY <1>5, LeftType DEF Reopen
  <2>4. moves' \in 0..MaxMoves /\ mishaps' \subseteq Names
    BY <1>5, MoveType, MishapType DEF Reopen, Names
  <2> QED
    BY <1>5, <2>1, <2>2, <2>3, <2>4 DEF Reopen, TypeOK, Names
<1>6. CASE Reload
  <2>1. load' \in Load
    BY <1>6, StartLoadType DEF Reload, TypeOK
  <2>2. poller' = NoChat /\ polls' \subseteq Poll
    BY <1>6, LateType DEF Reload, StopPolling, TypeOK
  <2>3. moves' \in 0..MaxMoves /\ mishaps' \subseteq Names
    BY <1>6, MoveType, MishapType DEF Reload, Names
  <2> QED
    BY <1>6, <2>1, <2>2, <2>3 DEF Reload, TypeOK, Names
<1>7. CASE ReadLoad
  <2>1. load' \in Load
    BY <1>7, LoadFields, ServerType DEF ReadLoad, TypeOK, Load
  <2> QED
    BY <1>7, <2>1 DEF ReadLoad, TypeOK
<1>8. CASE DeliverLoad
  <2>1. view' \in View /\ poller' \in Chats \cup {NoChat} /\ polls' \subseteq Poll
    BY <1>8, LoadFields, WatchType DEF DeliverLoad
  <2> QED
    BY <1>8, <2>1 DEF DeliverLoad, TypeOK
<1>9. CASE LoadFails
  <2>1. moves' \in 0..MaxMoves /\ mishaps' \subseteq Names
    BY <1>9, MoveType, MishapType DEF LoadFails, Names
  <2> QED
    BY <1>9, <2>1 DEF LoadFails, TypeOK, Names
<1>10. CASE Tick
  <2>1. [chat |-> poller, snap |-> Unread, late |-> FALSE] \in Poll
    BY <1>10 DEF Tick, Poll, Snap, TypeOK
  <2> QED
    BY <1>10, <2>1 DEF Tick, TypeOK
<1>11. ASSUME NEW p \in polls, ReadPoll(p) PROVE TypeOK'
  <2>1. [p EXCEPT !.snap = server[p.chat]] \in Poll
    BY PollFields, ServerType DEF Poll
  <2> QED
    BY <1>11, <2>1 DEF ReadPoll, TypeOK
<1>12. ASSUME NEW p \in polls, DeliverPoll(p) PROVE TypeOK'
  <2>1. view' \in View
    BY <1>12, PollFields, ShowType DEF DeliverPoll, TypeOK
  <2>2. polls \ {p} \subseteq Poll
    BY DEF TypeOK
  <2>3. poller' \in Chats \cup {NoChat} /\ polls' \subseteq Poll
    BY <1>12, <2>2, LateType DEF DeliverPoll, StopPolling, TypeOK
  <2>4. mishaps' \subseteq Names
    BY <1>12 DEF DeliverPoll, PollMishaps, Names, TypeOK
  <2> QED
    BY <1>12, <2>1, <2>3, <2>4 DEF DeliverPoll, TypeOK, Names
<1>13. ASSUME NEW p \in polls, PollFails(p) PROVE TypeOK'
  BY <1>13, MoveType DEF PollFails, TypeOK
<1>14. CASE Send
  <2>1. server[active].turn \in 0..MaxTurns
    BY DEF TypeOK, Answer
  <2>2. view' \in View
    BY <1>14, <2>1, PageAssumption DEF Send, View, TypeOK
  <2>3. stream' \in Stream
    BY <1>14 DEF Send, Stream, TypeOK
  <2>4. mishaps' \subseteq Names
    BY <1>14, MishapType DEF Send, Names
  <2> QED
    BY <1>14, <2>2, <2>3, <2>4 DEF Send, TypeOK, Names
<1>15. CASE Accept
  <2>1. stream.chat \in Chats /\ stream \in Stream
    BY <1>15, StreamFields DEF Accept
  <2>2. server' \in [Chats -> Answer]
    BY <1>15, <2>1, NextTurnType DEF Accept, Free
  <2>3. stream' \in Stream
    BY <1>15, <2>1 DEF Accept, Stream
  <2> QED
    BY <1>15, <2>2, <2>3 DEF Accept, TypeOK
<1>16. CASE Refuse
  <2>1. view' \in View
    BY <1>16 DEF Refuse, Failed, View, TypeOK
  <2> QED
    BY <1>16, <2>1 DEF Refuse, TypeOK
<1>17. CASE StreamEnd
  <2>1. stream.chat \in Chats
    BY <1>17, StreamFields DEF StreamEnd
  <2>2. view' \in View
    BY <1>17, <2>1, ServerType, ShowType DEF StreamEnd, TypeOK
  <2> QED
    BY <1>17, <2>2 DEF StreamEnd, TypeOK
<1>18. CASE StreamBreak
  <2>1. view' \in View
    BY <1>18 DEF StreamBreak, Failed, View, TypeOK
  <2>2. stream' = NoStream /\ orphans' \subseteq Chats
    BY <1>18, StopStreamingType DEF StreamBreak
  <2>3. moves' \in 0..MaxMoves /\ mishaps' \subseteq Names
    BY <1>18, MoveType, MishapType DEF StreamBreak, Names
  <2> QED
    BY <1>18, <2>1, <2>2, <2>3 DEF StreamBreak, TypeOK, Names
<1>19. ASSUME NEW d \in Decision, Resolve(d) PROVE TypeOK'
  <2>1. resolving' \in Resolution /\ resolving'.at = "asked"
    BY <1>19 DEF Resolve, Resolution, Snap, TypeOK
  <2>2. moves' \in 0..MaxMoves /\ mishaps' \subseteq Names
    BY <1>19, MoveType, MishapType DEF Resolve, Names
  <2> QED
    BY <1>19, <2>1, <2>2 DEF Resolve, TypeOK, Names
<1>20. CASE TakeResolve
  <2>1. resolving \in Resolution /\ resolving.chat \in Chats
    BY <1>20, ResolveFields DEF TakeResolve
  <2>2. resolving' = NoResolve \/ resolving' = [resolving EXCEPT !.at = "taken"]
    BY <1>20 DEF TakeResolve
  <2>3. [resolving EXCEPT !.at = "taken"] \in Resolution
    BY <2>1 DEF Resolution
  <2>4. resolving' \in Resolution \cup {NoResolve}
    BY <2>2, <2>3
  <2>5. resolving'.at # "answered"
    BY <2>1, <2>2 DEF NoResolve, Resolution
  <2>6. server' \in [Chats -> Answer]
    <3>1. server \in [Chats -> Answer]
      BY DEF TypeOK
    <3>2. \A st \in {"working", "saving", "done", "approval"} : [server EXCEPT ![resolving.chat].st = st] \in [Chats -> Answer]
      BY <2>1, ServerType
    <3>3. ASSUME server[resolving.chat].turn < MaxTurns, NextTurn(resolving.chat)
          PROVE  server' \in [Chats -> Answer]
      BY <2>1, <3>3, NextTurnType
    <3> QED
      BY <1>20, <3>1, <3>2, <3>3, TakeEffect
  <2> QED
    BY <1>20, <2>4, <2>5, <2>6 DEF TakeResolve, TypeOK
<1>21. CASE AnswerResolve
  <2>1. resolving \in Resolution /\ resolving.chat \in Chats
    BY <1>21, ResolveFields DEF AnswerResolve
  <2>2. resolving' \in Resolution /\ resolving'.snap # Unread
    BY <1>21, <2>1, ServerType DEF AnswerResolve, Resolution
  <2> QED
    BY <1>21, <2>2 DEF AnswerResolve, TypeOK
<1>22. CASE DeliverResolve
  <2>1. resolving.chat \in Chats /\ resolving.snap \in Snap /\ resolving.snap # Unread
    BY <1>22, ResolveFields DEF DeliverResolve, TypeOK
  <2>2. view' \in View /\ poller' \in Chats \cup {NoChat} /\ polls' \subseteq Poll
    BY <1>22, <2>1, WatchType DEF DeliverResolve, TypeOK
  <2>3. mishaps' \subseteq Names
    BY <1>22, MishapType DEF DeliverResolve, Names
  <2> QED
    BY <1>22, <2>2, <2>3 DEF DeliverResolve, TypeOK, Names, NoResolve
<1>23. CASE ResolveFails
  <2>1. moves' \in 0..MaxMoves /\ mishaps' \subseteq Names
    BY <1>23, MoveType, MishapType DEF ResolveFails, Names
  <2> QED
    BY <1>23, <2>1 DEF ResolveFails, TypeOK, Names, NoResolve
<1>24. CASE NewChatFails
  <2>1. polls \subseteq Poll
    BY DEF TypeOK
  <2>2. poller' = NoChat /\ polls' \subseteq Poll
    BY <1>24, <2>1, LateType DEF NewChatFails, StopPolling
  <2>3. stream' = NoStream /\ orphans' \subseteq Chats
    BY <1>24, StopStreamingType DEF NewChatFails
  <2>4. moves' \in 0..MaxMoves /\ mishaps' \subseteq Names
    BY <1>24, MoveType, MishapType DEF NewChatFails, Names
  <2> QED
    BY <1>24, <2>2, <2>3, <2>4 DEF NewChatFails, TypeOK, Names
<1>25. CASE EndLost
  <2>1. stream' \in Stream
    BY <1>25, StreamFields DEF EndLost, Stream
  <2>2. moves' \in 0..MaxMoves /\ mishaps' \subseteq Names
    BY <1>25, MoveType, MishapType DEF EndLost, Names
  <2> QED
    BY <1>25, <2>1, <2>2 DEF EndLost, TypeOK, Names
<1>26. CASE UNCHANGED vars
  BY <1>26 DEF TypeOK, vars
<1> QED
  BY <1>1, <1>2, <1>3, <1>4, <1>5, <1>6, <1>7, <1>8, <1>9, <1>10, <1>11, <1>12, <1>13,
     <1>14, <1>15, <1>16, <1>17, <1>18, <1>19, <1>20, <1>21, <1>22, <1>23, <1>24, <1>25, <1>26 DEF Next

-----------------------------------------------------------------------------
(* Requests and what is shown.                                             *)

\* Every step keeps the requests of the page for the active chat, and what is
\* shown of that chat but for the cases ShownIsActive names.
LEMMA ShownStep ==
  ASSUME TypeOK, Requests, ShownIsActive, [Next]_vars PROVE (Requests /\ ShownIsActive)'
<1> USE PageAssumption DEF Requests, LoadIsActive, StreamIsActive, ResolveIsActive, ShownIsActive,
                           NoLoad, NoStream, NoResolve
<1>1. ASSUME NEW c \in Chats, Select(c) PROVE (Requests /\ ShownIsActive)'
  BY <1>1 DEF Select, OpenChat, StartLoad, StopStreaming, Mishap
<1>2. ASSUME NEW c \in Chats, NewChat(c) PROVE (Requests /\ ShownIsActive)'
  BY <1>2 DEF NewChat, OpenChat, StartLoad, StopStreaming, Mishap, Show
<1>3. ASSUME NEW c \in Chats, Orphaned(c) PROVE (Requests /\ ShownIsActive)'
  BY <1>3 DEF Orphaned
<1>4. ASSUME NEW c \in Chats, Work(c) PROVE (Requests /\ ShownIsActive)'
  BY <1>4 DEF Work
<1>5. CASE Reopen
  BY <1>5 DEF Reopen, StartLoad, StopStreaming, Mishap
<1>6. CASE Reload
  <2>1. active \in Chats
    BY DEF TypeOK
  <2> QED
    BY <1>6, <2>1 DEF Reload, StartLoad, Mishap
<1>7. CASE ReadLoad
  <2>1. load'.chat = load.chat /\ load.chat \in Chats
    BY <1>7, LoadFields DEF ReadLoad, TypeOK, Load
  <2> QED
    BY <1>7, <2>1 DEF ReadLoad
<1>8. CASE DeliverLoad
  BY <1>8 DEF DeliverLoad, ShowAndWatch, Show
<1>9. CASE LoadFails
  BY <1>9 DEF LoadFails, Mishap
<1>10. CASE Tick
  BY <1>10 DEF Tick
<1>11. ASSUME NEW p \in polls, ReadPoll(p) PROVE (Requests /\ ShownIsActive)'
  BY <1>11 DEF ReadPoll
<1>12. ASSUME NEW p \in polls, DeliverPoll(p) PROVE (Requests /\ ShownIsActive)'
  BY <1>12 DEF DeliverPoll, Show, PollMishaps
<1>13. ASSUME NEW p \in polls, PollFails(p) PROVE (Requests /\ ShownIsActive)'
  BY <1>13 DEF PollFails
<1>14. CASE Send
  BY <1>14 DEF Send, Mishap
<1>15. CASE Accept
  BY <1>15 DEF Accept
<1>16. CASE Refuse
  BY <1>16 DEF Refuse, Failed
<1>17. CASE StreamEnd
  BY <1>17 DEF StreamEnd, Show
<1>18. CASE StreamBreak
  BY <1>18 DEF StreamBreak, Failed, StopStreaming, Mishap
<1>19. ASSUME NEW d \in Decision, Resolve(d) PROVE (Requests /\ ShownIsActive)'
  BY <1>19 DEF Resolve, Mishap
<1>20. CASE TakeResolve
  <2>1. resolving # NoResolve /\ resolving \in Resolution
    BY <1>20, ResolveFields DEF TakeResolve
  <2>2. resolving' = NoResolve \/ (resolving'.chat = resolving.chat /\ resolving'.to = resolving.to)
    BY <1>20, <2>1 DEF TakeResolve, Resolution
  <2> QED
    BY <1>20, <2>1, <2>2 DEF TakeResolve
<1>21. CASE AnswerResolve
  BY <1>21 DEF AnswerResolve
<1>22. CASE DeliverResolve
  <2>1. resolving # NoResolve /\ resolving.to \in {"page", "moved", "gone"}
    BY <1>22, ResolveFields DEF DeliverResolve, Resolution
  <2>2. CASE resolving.to = "gone"
    BY <1>22, <2>2 DEF DeliverResolve, Mishap
  <2>3. CASE resolving.to = "page"
    BY <1>22, <2>1, <2>3 DEF DeliverResolve, ShowAndWatch, Show, Mishap
  <2>4. CASE resolving.to = "moved"
    BY <1>22, <2>4 DEF DeliverResolve, Mishap
  <2> QED
    BY <2>1, <2>2, <2>3, <2>4
<1>23. CASE ResolveFails
  BY <1>23 DEF ResolveFails, Mishap
<1>24. CASE NewChatFails
  BY <1>24 DEF NewChatFails, StopStreaming, Mishap
<1>25. CASE EndLost
  <2>1. stream'.chat = stream.chat /\ stream # NoStream
    BY <1>25, StreamFields DEF EndLost, Stream
  <2> QED
    BY <1>25, <2>1 DEF EndLost, Mishap
<1>26. CASE UNCHANGED vars
  BY <1>26 DEF vars
<1> QED
  BY <1>1, <1>2, <1>3, <1>4, <1>5, <1>6, <1>7, <1>8, <1>9, <1>10, <1>11, <1>12, <1>13,
     <1>14, <1>15, <1>16, <1>17, <1>18, <1>19, <1>20, <1>21, <1>22, <1>23, <1>24, <1>25, <1>26 DEF Next

-----------------------------------------------------------------------------
(* The calm page.                                                          *)

\* Polls whose interval is cleared are late.
LEMMA LateAreLate ==
  ASSUME NEW ps \in SUBSET Poll PROVE \A p \in Late(ps) : p.late
BY DEF Late, Poll

\* A load that begins leaves the page calm, once it has the page for itself.
LEMMA LoadCalm ==
  ASSUME TypeOK, Calm, NEW c \in Chats, StartLoad(c), UNCHANGED server,
         stream' = NoStream, poller' = NoChat, orphans' = {}, \A p \in polls' : p.late,
         resolving' = IF resolving = NoResolve THEN resolving ELSE [resolving EXCEPT !.to = "moved"]
  PROVE  Calm'
<1>1. \/ resolving = NoResolve /\ resolving' = NoResolve
      \/ /\ resolving # NoResolve /\ resolving' # NoResolve /\ resolving'.to = "moved"
         /\ resolving'.chat = resolving.chat /\ resolving'.decision = resolving.decision
         /\ resolving'.at = resolving.at /\ resolving'.snap = resolving.snap
  BY ResolveFields, PageAssumption DEF Resolution, NoResolve
<1>2. load' # NoLoad /\ load'.chat = c /\ load'.snap = Unread
  BY PageAssumption DEF StartLoad, NoLoad
<1>3. NoGhosts'
  BY <1>1 DEF Calm, NoGhosts
<1>4. LoadAlone'
  BY <1>1, <1>2 DEF LoadAlone, Fresh
<1>5. StreamWatched'
  BY DEF StreamWatched, NoStream
<1>6. PollsActive'
  BY DEF PollsActive
<1>7. ResolveFresh'
  BY <1>1 DEF Calm, ResolveFresh, NoResolve
<1>8. ApprovalShown' /\ Rested'
  BY <1>2 DEF ApprovalShown, Rested, Undecided
<1> QED
  BY <1>3, <1>4, <1>5, <1>6, <1>7, <1>8 DEF Calm

\* What is shown is current and no run is active, or the chat is polled.
LEMMA ShownWatched ==
  ASSUME TypeOK, NEW snap \in Snap, snap # Unread, ShowAndWatch(active, snap), UNCHANGED <<active, server>>
  PROVE  /\ snap.st \in Busy => poller' = active /\ polls' = Late(polls) /\ view'.st # "approval"
         /\ snap.st \notin Busy => UNCHANGED <<poller, polls>>
         /\ snap = server[active] => Current'
         /\ snap = server[active] /\ snap.st \notin Busy => Quiet'
BY DEF ShowAndWatch, Show, Watch, Current, Quiet, Seen, Busy

\* Every step without a mishap keeps the page calm.
LEMMA CalmStep ==
  ASSUME TypeOK, Requests, Calm, [Next]_vars, mishaps' = {}
  PROVE  Calm'
<1> USE PageAssumption DEF Requests, LoadIsActive, StreamIsActive, ResolveIsActive, Fresh, Calm, NoGhosts,
                           LoadAlone, StreamWatched, PollsActive, ResolveFresh, Undecided, ApprovalShown, Rested,
                           Current, Quiet, NoLoad, NoStream, NoResolve
<1>1. ASSUME NEW c \in Chats, Select(c) PROVE Calm'
  <2>1. polls \subseteq Poll /\ c \in Chats
    BY <1>1 DEF TypeOK
  <2>2. stream.at # "posted"
    BY <1>1 DEF Select, OpenChat, Mishap
  <2> QED
    BY <1>1, <2>1, <2>2, LoadCalm, LateAreLate DEF Select, OpenChat, StopStreaming, StopPolling
<1>2. ASSUME NEW c \in Chats, NewChat(c) PROVE Calm'
  <2>1. polls \subseteq Poll /\ c \in Chats
    BY <1>2 DEF TypeOK
  <2>2. stream.at # "posted"
    BY <1>2 DEF NewChat, OpenChat, Mishap
  <2> QED
    BY <1>2, <2>1, <2>2, LoadCalm, LateAreLate DEF NewChat, OpenChat, StopStreaming, StopPolling
<1>3. ASSUME NEW c \in Chats, Orphaned(c) PROVE Calm'
  BY <1>3 DEF Orphaned
<1>4. ASSUME NEW c \in Chats, Work(c) PROVE Calm'
  <2>1. \A x \in Chats : server'[x] = server[x] \/ server[x].st \in Busy
    BY <1>4, ServerType DEF Work, TypeOK, Answer, Busy
  <2>2. active \in Chats /\ Settled \cap Busy = {} /\ "approval" \notin Busy
    BY DEF TypeOK, Settled, Busy
  <2>3. NoGhosts'
    BY <1>4 DEF Work
  <2>4. LoadAlone'
    BY <1>4, <2>1 DEF Work, TypeOK, Load
  <2>5. StreamWatched'
    BY <1>4, <2>1, <2>2 DEF Work
  <2>6. PollsActive'
    BY <1>4 DEF Work
  <2>7. ResolveFresh'
    BY <1>4, <2>1, <2>2, ResolveFields DEF Work
  <2>8. view.st = "approval" /\ Current => server[active].st = "approval"
    BY DEF Seen
  <2>9. ApprovalShown' /\ Rested'
    BY <1>4, <2>1, <2>2, <2>8 DEF Work
  <2> QED
    BY <2>3, <2>4, <2>5, <2>6, <2>7, <2>9
<1>5. CASE Reopen
  <2>1. stream.at # "posted" /\ resolving = NoResolve
    BY <1>5 DEF Reopen, Mishap
  <2> QED
    BY <1>5, <2>1, LoadCalm DEF Reopen, StopStreaming, TypeOK
<1>6. CASE Reload
  <2>1. stream = NoStream /\ resolving = NoResolve
    BY <1>6 DEF Reload, Mishap
  <2>2. polls \subseteq Poll /\ active \in Chats
    BY DEF TypeOK
  <2> QED
    BY <1>6, <2>1, <2>2, LoadCalm, LateAreLate DEF Reload, StopPolling
<1>7. CASE ReadLoad
  <2>1. load'.chat = load.chat /\ load'.snap = server[load.chat] /\ load.chat \in Chats
    BY <1>7, LoadFields DEF ReadLoad, TypeOK, Load
  <2>2. load' # NoLoad
    BY <2>1
  <2>3. NoGhosts' /\ PollsActive' /\ ResolveFresh' /\ StreamWatched'
    BY <1>7 DEF ReadLoad
  <2>4. LoadAlone'
    BY <1>7, <2>1 DEF ReadLoad
  <2>5. ApprovalShown' /\ Rested'
    BY <2>2
  <2> QED
    BY <2>3, <2>4, <2>5
<1>8. CASE DeliverLoad
  <2>1. /\ load.chat = active /\ load.snap # Unread /\ stream = NoStream /\ poller = NoChat
        /\ resolving = NoResolve \/ resolving.to = "moved"
        /\ load.snap \in Snap
    BY <1>8, LoadFields DEF DeliverLoad
  <2>2. \A p \in Late(polls) : p.late
    BY LateAreLate DEF TypeOK
  <2>3. /\ ShowAndWatch(active, load.snap)
        /\ load' = NoLoad
        /\ UNCHANGED <<server, active, stream, resolving, orphans, moves, mishaps>>
    BY <1>8, <2>1 DEF DeliverLoad
  <2>4. /\ load.snap.st \in Busy => poller' = active /\ polls' = Late(polls) /\ view'.st # "approval"
        /\ load.snap.st \notin Busy => UNCHANGED <<poller, polls>>
        /\ load.snap = server[active] => Current'
        /\ load.snap = server[active] /\ load.snap.st \notin Busy => Quiet'
    BY <2>1, <2>3, ShownWatched
  <2>5. NoGhosts' /\ LoadAlone' /\ StreamWatched' /\ ResolveFresh'
    BY <2>1, <2>3
  <2>6. PollsActive'
    BY <2>1, <2>2, <2>3, <2>4
  <2>7. Undecided' => load.snap.st \in Busy \/ load.snap = server[active]
    BY <2>1, <2>3
  <2>8. ApprovalShown' /\ Rested'
    BY <2>1, <2>4, <2>7 DEF TypeOK
  <2> QED
    BY <2>5, <2>6, <2>8
<1>9. CASE LoadFails
  BY <1>9 DEF LoadFails, Mishap
<1>10. CASE Tick
  BY <1>10 DEF Tick
<1>11. ASSUME NEW p \in polls, ReadPoll(p) PROVE Calm'
  <2>1. LET q == [p EXCEPT !.snap = server[p.chat]] IN q.late = p.late /\ q.chat = p.chat
    BY PollFields DEF Poll
  <2>2. NoGhosts' /\ LoadAlone' /\ StreamWatched' /\ ResolveFresh' /\ ApprovalShown' /\ Rested'
    BY <1>11 DEF ReadPoll
  <2>3. PollsActive'
    <3>1. ASSUME NEW q \in polls', ~q.late PROVE q.chat = poller
      <4>1. CASE q \in polls
        BY <3>1, <4>1
      <4>2. CASE q = [p EXCEPT !.snap = server[p.chat]]
        BY <2>1, <3>1, <4>2
      <4> QED
        BY <1>11, <3>1, <4>1, <4>2 DEF ReadPoll
    <3> QED
      BY <1>11, <3>1 DEF ReadPoll
  <2> QED
    BY <2>2, <2>3
<1>12. ASSUME NEW p \in polls, DeliverPoll(p) PROVE Calm'
  <2>1. ~p.late /\ ~Overtaken(p) /\ p.chat \in Chats
    BY <1>12, PollFields DEF DeliverPoll, PollMishaps
  <2>2. p.chat = poller /\ poller = active /\ load = NoLoad
    BY <2>1
  <2>3. /\ Show(active, p.snap)
        /\ UNCHANGED <<server, active, load, stream, resolving, orphans, moves>>
    BY <1>12, <2>2 DEF DeliverPoll
  <2>4. NoGhosts' /\ LoadAlone' /\ ResolveFresh'
    BY <2>2, <2>3
  <2>5. CASE p.snap.st \in Busy
    <3>1. poller' = active /\ polls' = polls \ {p}
      BY <1>12, <2>2, <2>5 DEF DeliverPoll
    <3>2. view'.st # "approval"
      BY <2>3, <2>5 DEF Show, Seen, Busy
    <3>3. StreamWatched' /\ PollsActive'
      BY <2>2, <2>3, <3>1
    <3>4. ApprovalShown' /\ Rested'
      BY <2>2, <2>3, <3>1, <3>2 DEF TypeOK
    <3> QED
      BY <2>4, <3>3, <3>4
  <2>6. CASE p.snap.st \notin Busy
    <3>1. p.snap = server[active] /\ stream.at # "posted"
      BY <2>1, <2>2, <2>6 DEF Overtaken
    <3>2. Current' /\ Quiet'
      BY <2>3, <2>6, <3>1 DEF Show
    <3>3. poller' = NoChat /\ \A q \in polls' : q.late
      BY <1>12, <2>2, <2>6, LateAreLate DEF DeliverPoll, StopPolling, TypeOK
    <3>4. stream # NoStream => stream.at = "open"
      BY <3>1, StreamFields
    <3>5. StreamWatched'
      BY <2>3, <3>2, <3>4
    <3>6. PollsActive'
      BY <3>3
    <3>7. ApprovalShown' /\ Rested'
      BY <3>2
    <3> QED
      BY <2>4, <3>5, <3>6, <3>7
  <2> QED
    BY <2>5, <2>6
<1>13. ASSUME NEW p \in polls, PollFails(p) PROVE Calm'
  BY <1>13 DEF PollFails
<1>14. CASE Send
  <2>1. load = NoLoad /\ resolving = NoResolve /\ stream = NoStream
    BY <1>14 DEF Send, Mishap
  <2>2. poller = active \/ (poller = NoChat /\ Current /\ Quiet)
    BY <2>1
  <2>3. Current /\ Quiet => server[active].st \in Settled
    BY <1>14, ServerType DEF Send, Answer, TypeOK, Seen, Busy
  <2>4. /\ stream' # NoStream /\ stream'.at = "posted" /\ view'.temp /\ view'.st = "working"
        /\ UNCHANGED <<server, active, load, poller, polls, resolving, orphans>>
    BY <1>14 DEF Send, TypeOK
  <2>5. NoGhosts' /\ LoadAlone' /\ PollsActive' /\ ResolveFresh'
    BY <2>1, <2>4
  <2>6. StreamWatched'
    BY <2>1, <2>2, <2>3, <2>4
  <2>7. ApprovalShown' /\ Rested'
    BY <2>4
  <2> QED
    BY <2>5, <2>6, <2>7
<1>15. CASE Accept
  <2>1. /\ stream # NoStream /\ stream' # NoStream /\ stream'.at = "open"
        /\ load = NoLoad /\ resolving = NoResolve /\ stream.chat = active
    BY <1>15, StreamFields DEF Accept, Stream
  <2>2. UNCHANGED <<active, view, load, poller, polls, resolving, orphans>>
    BY <1>15 DEF Accept
  <2>3. view.st # "approval"
    <3>1. server[active].st \in Settled
      BY <1>15, <2>1 DEF Accept, Free
    <3> QED
      BY <2>1, <3>1 DEF Seen, Settled
  <2>4. NoGhosts' /\ LoadAlone' /\ PollsActive' /\ ResolveFresh'
    BY <2>1, <2>2
  <2>5. StreamWatched'
    BY <1>15, <2>1, <2>2 DEF Accept
  <2>6. ApprovalShown' /\ Rested'
    BY <2>1, <2>2, <2>3
  <2> QED
    BY <2>4, <2>5, <2>6
<1>16. CASE Refuse
  <2>1. stream # NoStream /\ stream.chat = active /\ poller = active
    BY <1>16 DEF Refuse
  <2>2. /\ stream' = NoStream
        /\ UNCHANGED <<server, active, load, poller, polls, resolving, orphans>>
    BY <1>16 DEF Refuse
  <2>3. view'.st = "failed" \/ UNCHANGED view
    BY <1>16 DEF Refuse, Failed, TypeOK, View
  <2>4. NoGhosts' /\ LoadAlone' /\ StreamWatched' /\ PollsActive' /\ ResolveFresh'
    BY <2>2
  <2>5. ApprovalShown' /\ Rested'
    BY <2>1, <2>2, <2>3 DEF TypeOK
  <2> QED
    BY <2>4, <2>5
<1>17. CASE StreamEnd
  <2>1. /\ stream # NoStream /\ stream.chat = active /\ stream.at = "open"
        /\ load = NoLoad /\ resolving = NoResolve
        /\ server[active].st \in {"done", "approval"}
    BY <1>17 DEF StreamEnd
  <2>2. /\ stream' = NoStream
        /\ UNCHANGED <<server, active, load, poller, polls, resolving, orphans>>
    BY <1>17 DEF StreamEnd
  <2>3. \/ ~view.temp /\ UNCHANGED view
        \/ Current'
    BY <1>17, <2>1, <2>2 DEF StreamEnd, Show
  <2>4. Quiet'
    BY <2>1, <2>2 DEF Busy
  <2>5. NoGhosts' /\ LoadAlone' /\ StreamWatched' /\ PollsActive' /\ ResolveFresh'
    BY <2>2
  <2>6. ApprovalShown' /\ Rested'
    BY <2>1, <2>2, <2>3, <2>4 DEF TypeOK
  <2> QED
    BY <2>5, <2>6
<1>18. CASE StreamBreak
  BY <1>18 DEF StreamBreak, Failed, StopStreaming, Mishap
<1>19. ASSUME NEW d \in Decision, Resolve(d) PROVE Calm'
  <2>1. load = NoLoad /\ stream = NoStream /\ resolving = NoResolve /\ view.st = "approval"
    BY <1>19 DEF Resolve, Mishap
  <2>2. Current /\ server[active].st = "approval"
    BY <2>1 DEF Seen
  <2>3. /\ resolving' # NoResolve /\ resolving'.at = "asked" /\ resolving'.chat = active
        /\ resolving'.to = "page" /\ resolving'.decision = d
        /\ UNCHANGED <<server, active, view, load, poller, polls, stream, orphans>>
    BY <1>19 DEF Resolve
  <2>4. NoGhosts' /\ LoadAlone' /\ StreamWatched' /\ PollsActive'
    BY <2>1, <2>3
  <2>5. ResolveFresh'
    BY <1>19, <2>2, <2>3 DEF Resolve
  <2>6. ApprovalShown' /\ Rested'
    BY <2>1, <2>2, <2>3
  <2> QED
    BY <2>4, <2>5, <2>6
<1>20. CASE TakeResolve
  <2>1. resolving # NoResolve /\ resolving \in Resolution /\ resolving.chat \in Chats /\ stream = NoStream
    BY <1>20, ResolveFields DEF TakeResolve
  <2>2. /\ resolving' = [resolving EXCEPT !.at = "taken"]
        /\ \A x \in Chats : x # resolving.chat => server'[x] = server[x]
    <3>1. resolving' = [resolving EXCEPT !.at = "taken"]
      BY <1>20, <2>1 DEF TakeResolve
    <3>2. server \in [Chats -> Answer]
      BY DEF TypeOK
    <3> QED
      BY <1>20, <2>1, <3>1, <3>2, TakeEffect DEF NextTurn
  <2>3. /\ resolving' # NoResolve /\ resolving'.at = "taken"
        /\ resolving'.chat = resolving.chat /\ resolving'.to = resolving.to
    BY <2>1, <2>2 DEF Resolution
  <2>4. UNCHANGED <<active, view, load, poller, polls, stream, orphans>>
    BY <1>20 DEF TakeResolve
  <2>5. NoGhosts'
    BY <2>3, <2>4
  <2>6. LoadAlone'
    BY <2>1, <2>2, <2>3, <2>4, LoadFields
  <2>7. StreamWatched' /\ PollsActive'
    BY <2>1, <2>4
  <2>8. ResolveFresh' /\ ApprovalShown' /\ Rested'
    BY <2>3
  <2> QED
    BY <2>5, <2>6, <2>7, <2>8
<1>21. CASE AnswerResolve
  <2>1. /\ resolving' # NoResolve /\ resolving'.at = "answered" /\ resolving'.to = resolving.to
        /\ resolving'.chat = resolving.chat /\ resolving'.snap = server[resolving.chat]
    BY <1>21, ResolveFields DEF AnswerResolve, Resolution
  <2>2. /\ resolving # NoResolve /\ resolving.at = "taken" /\ stream = NoStream
        /\ UNCHANGED <<server, active, view, load, poller, polls, stream, orphans>>
    BY <1>21 DEF AnswerResolve
  <2>3. NoGhosts' /\ LoadAlone' /\ StreamWatched' /\ PollsActive'
    BY <2>1, <2>2
  <2>4. ResolveFresh' /\ ApprovalShown' /\ Rested'
    BY <2>1, <2>2
  <2> QED
    BY <2>3, <2>4
<1>22. CASE DeliverResolve
  <2>1. /\ resolving # NoResolve /\ resolving.to = "page" /\ resolving.chat = active
        /\ resolving.at = "answered" /\ resolving.snap \in Snap /\ resolving.snap # Unread
    BY <1>22, ResolveFields DEF DeliverResolve, Mishap, Resolution, TypeOK
  <2>2. stream = NoStream /\ load = NoLoad
    BY <2>1
  <2>3. /\ ShowAndWatch(active, resolving.snap)
        /\ resolving' = NoResolve
        /\ UNCHANGED <<server, active, load, stream, orphans>>
    BY <1>22, <2>1 DEF DeliverResolve
  <2>4. /\ resolving.snap.st \in Busy => poller' = active /\ polls' = Late(polls) /\ view'.st # "approval"
        /\ resolving.snap.st \notin Busy => UNCHANGED <<poller, polls>>
        /\ resolving.snap = server[active] => Current'
        /\ resolving.snap = server[active] /\ resolving.snap.st \notin Busy => Quiet'
    BY <2>1, <2>3, ShownWatched
  <2>5. \A p \in Late(polls) : p.late
    BY LateAreLate DEF TypeOK
  <2>6. NoGhosts' /\ LoadAlone' /\ StreamWatched' /\ ResolveFresh'
    BY <2>2, <2>3
  <2>7. PollsActive'
    BY <2>3, <2>4, <2>5
  <2>8. ApprovalShown' /\ Rested'
    BY <2>1, <2>4 DEF TypeOK
  <2> QED
    BY <2>6, <2>7, <2>8
<1>23. CASE ResolveFails
  BY <1>23 DEF ResolveFails, Mishap
<1>24. CASE NewChatFails
  BY <1>24 DEF NewChatFails, StopStreaming, Mishap
<1>25. CASE EndLost
  BY <1>25 DEF EndLost, Mishap
<1>26. CASE UNCHANGED vars
  BY <1>26 DEF vars
<1> QED
  BY <1>1, <1>2, <1>3, <1>4, <1>5, <1>6, <1>7, <1>8, <1>9, <1>10, <1>11, <1>12, <1>13,
     <1>14, <1>15, <1>16, <1>17, <1>18, <1>19, <1>20, <1>21, <1>22, <1>23, <1>24, <1>25, <1>26 DEF Next
-----------------------------------------------------------------------------
(* The theorems.                                                           *)

IInv == TypeOK /\ Requests /\ ShownIsActive /\ (mishaps = {} => Calm)

\* The page opens calm, with its load under way.
LEMMA InitInv == Init => IInv
<1> SUFFICES ASSUME Init PROVE IInv
  OBVIOUS
<1>1. load # NoLoad /\ load.chat = active /\ load.snap = Unread /\ view.chat = active
  BY PageAssumption DEF Init, NoLoad
<1>2. Requests /\ ShownIsActive
  BY <1>1 DEF Init, Requests, LoadIsActive, StreamIsActive, ResolveIsActive, ShownIsActive
<1>3. NoGhosts /\ LoadAlone /\ StreamWatched
  BY <1>1 DEF Init, NoGhosts, LoadAlone, StreamWatched, Fresh, NoResolve
<1>4. PollsActive /\ ResolveFresh /\ ApprovalShown /\ Rested
  BY <1>1 DEF Init, PollsActive, ResolveFresh, ApprovalShown, Rested, Undecided, NoResolve
<1> QED
  BY <1>2, <1>3, <1>4, InitType DEF IInv, Calm

\* A mishap is never forgotten.
LEMMA MishapStays == ASSUME [Next]_vars PROVE mishaps \subseteq mishaps'
<1>1. ASSUME NEW c \in Chats, Select(c) \/ NewChat(c) \/ Orphaned(c) \/ Work(c) PROVE mishaps \subseteq mishaps'
  BY <1>1 DEF Select, NewChat, OpenChat, Orphaned, Work, Mishap
<1>2. CASE NewChatFails \/ Reopen \/ Reload \/ ReadLoad \/ DeliverLoad \/ LoadFails \/ Tick
  BY <1>2 DEF NewChatFails, Reopen, Reload, ReadLoad, DeliverLoad, LoadFails, Tick, Mishap
<1>3. ASSUME NEW p \in polls, ReadPoll(p) \/ DeliverPoll(p) \/ PollFails(p) PROVE mishaps \subseteq mishaps'
  BY <1>3 DEF ReadPoll, DeliverPoll, PollFails, PollMishaps
<1>4. CASE Send \/ Accept \/ Refuse \/ StreamEnd \/ EndLost \/ StreamBreak
  BY <1>4 DEF Send, Accept, Refuse, StreamEnd, EndLost, StreamBreak, Mishap
<1>5. ASSUME NEW d \in Decision, Resolve(d) PROVE mishaps \subseteq mishaps'
  BY <1>5 DEF Resolve, Mishap
<1>6. CASE TakeResolve \/ AnswerResolve \/ DeliverResolve \/ ResolveFails
  BY <1>6 DEF TakeResolve, AnswerResolve, DeliverResolve, ResolveFails, Mishap
<1>7. CASE UNCHANGED vars
  BY <1>7 DEF vars
<1> QED
  BY <1>1, <1>2, <1>3, <1>4, <1>5, <1>6, <1>7 DEF Next

\* IInv is inductive.
LEMMA InvStep == IInv /\ [Next]_vars => IInv'
<1> SUFFICES ASSUME IInv, [Next]_vars PROVE IInv'
  OBVIOUS
<1>1. TypeOK' /\ (Requests /\ ShownIsActive)'
  BY TypeStep, ShownStep DEF IInv
<1>2. ASSUME mishaps' = {} PROVE Calm'
  BY <1>2, MishapStays, CalmStep DEF IInv
<1> QED
  BY <1>1, <1>2 DEF IInv

\* The variables keep the values the handlers give them.
THEOREM TypeCorrect == Spec => []TypeOK
<1>1. IInv => TypeOK
  BY DEF IInv
<1> QED
  BY InitInv, InvStep, <1>1, PTL DEF Spec

\* Chat.jsx:728 `user may have switched again before this resolved': for any
\* number of chats, what is shown is of the active chat unless its load is
\* under way, a decision was answered for a chat left meanwhile, or a request
\* was interrupted.
THEOREM ShownBelongsToActive == Spec => []ShownIsActive
<1>1. IInv => ShownIsActive
  BY DEF IInv
<1> QED
  BY InitInv, InvStep, <1>1, PTL DEF Spec

\* However many polls, loads, questions and decisions pass each other, a page
\* without a mishap comes to rest only on what the rows say.
THEOREM RestsOnlyCurrent == Spec => []RestIsCurrent
<1>1. IInv => RestIsCurrent
  BY DEF IInv, RestIsCurrent, Calm, Rested, Undecided
<1> QED
  BY InitInv, InvStep, <1>1, PTL DEF Spec


=============================================================================
