------------------------------ MODULE ChatRuns ------------------------------
(***************************************************************************)
(* The life of a chat turn in backend/routers/chat.py: the database rows   *)
(* (chats, assistant messages, agent runs, action approvals), the          *)
(* background AI tasks, the approved commands executing in worker threads, *)
(* chat deletion, shutdown, crash and start-up recovery.                   *)
(*                                                                         *)
(* Scheduling.  `async def' handlers and AI tasks share one event loop:    *)
(* between two awaits they exclude each other, so a step of theirs needs   *)
(* the loop to be idle.  A stretch without an await that commits more than *)
(* once is cut at the commits (variable loop), because a worker thread or  *)
(* a crash can come in between.  `def' handlers (create_chat, delete_chat) *)
(* and asyncio.to_thread bodies are worker threads and run at any time.    *)
(* The per-chat asyncio.Lock is never held across an await, so taking it   *)
(* never waits; it needs no variable.                                      *)
(*                                                                         *)
(* Abstractions.  User messages are always "complete" and are inserted     *)
(* together with an assistant message, so one id stands for the pair.      *)
(* Message content is only "empty or not", the test that start-up recovery *)
(* makes.  Titles, usage logs, attachments and SSE queues are left out.    *)
(***************************************************************************)
EXTENDS Integers, FiniteSets

CONSTANTS
  Runs,       \* run ids (uuid4, never used twice)
  Approvals,  \* approval ids (uuid4, never used twice)
  NoRun,      \* no run: the loop is idle, or the approval id is unused
  MaxChat,    \* bound: chat ids are 1..MaxChat
  MaxMsg,     \* bound: assistant message ids are 1..MaxMsg
  MaxStops,   \* bound: number of shutdowns and crashes
  ReuseIds    \* TRUE: rowids as SQLite hands them out (largest row + 1);
              \* FALSE: the behaviours in which no id comes back, because a
              \* newer row is always there

ASSUME NoRunAssumption == NoRun \notin Runs
ASSUME BoundsAssumption == MaxChat \in Nat /\ MaxMsg \in Nat /\ MaxStops \in Nat
ASSUME ReuseAssumption == ReuseIds \in BOOLEAN

VARIABLES
  chats,      \* ids of the rows of table chats
  msgs,       \* assistant rows of table messages, by id
  runs,       \* rows of table agent_runs; chat and msg outlive the row, they
              \* are also what the run's task and handlers hold in memory
  approvals,  \* rows of table action_approvals
  lastChat,   \* largest chat id ever handed out
  lastMsg,    \* largest message id ever handed out
  loop,       \* the handler or task in the middle of a stretch without await
  tasks,      \* where each run's AI task is suspended
  cancels,    \* runs whose task has been asked to cancel
  inflight,   \* the approved command of each approval: called, then returned
  doomed,     \* per chat: the rows an unfinished delete_chat has loaded
  phase,      \* up, stopping (lifespan shutdown), down
  stops,      \* shutdowns and crashes so far
  raised,     \* history: approvals whose command ended in an exception
  ran         \* history: how often the command of an approval was executed

ids == <<lastChat, lastMsg>>
life == <<phase, stops, raised>>
rows == <<chats, msgs, runs, approvals>>
memory == <<loop, tasks, cancels, inflight, doomed>>
vars == <<rows, ids, memory, life, ran>>

ChatIds == 1..MaxChat
MsgIds == 1..MaxMsg

Active == {"pending", "running"}
RunStatus == Active \cup {"absent", "waiting_approval", "complete", "failed",
                          "cancelled", "denied", "other"}
Unsettled == {"pending", "streaming"}
MsgStatus == Unsettled \cup {"absent", "complete", "failed", "approval_required"}
ApprovalStatus == {"absent", "pending", "executing", "approved", "denied", "other"}

Stages == {"none", "created", "waiting", "streaming", "ingest", "linger"}
\* What the stretch in progress does next: insert the turn, refresh and start
\* its task, start a task, set the run waiting, set the message to
\* approval_required, set the message to failed.
Places == {"idle", "send", "start", "resume", "wait", "ask", "fail"}

NoDelete == [on |-> FALSE, msgs |-> {}, runs |-> {}, approvals |-> {}]
Idle == [at |-> "idle", run |-> NoRun]
At(place, r) == [at |-> place, run |-> r]

MsgRow == [status: MsgStatus, text: BOOLEAN, chat: 0..MaxChat]
RunRow == [status: RunStatus, chat: 0..MaxChat, msg: 0..MaxMsg]
ApprovalRow == [status: ApprovalStatus, run: Runs \cup {NoRun}]
Deletion == [on: BOOLEAN, msgs: SUBSET MsgIds, runs: SUBSET Runs,
             approvals: SUBSET Approvals]

TypeOK ==
  /\ chats \subseteq ChatIds
  /\ msgs \in [MsgIds -> MsgRow]
  /\ runs \in [Runs -> RunRow]
  /\ approvals \in [Approvals -> ApprovalRow]
  /\ lastChat \in 0..MaxChat /\ lastMsg \in 0..MaxMsg
  /\ loop \in [at: Places, run: Runs \cup {NoRun}]
  /\ loop.at # "idle" => loop.run \in Runs
  /\ tasks \in [Runs -> Stages]
  /\ cancels \subseteq Runs
  /\ inflight \in [Approvals -> {"none", "called", "returned"}]
  /\ \A a \in Approvals : approvals[a].run = NoRun =>
       approvals[a].status = "absent" /\ inflight[a] = "none" /\ a \notin raised
  /\ doomed \in [ChatIds -> Deletion]
  /\ phase \in {"up", "stopping", "down"}
  /\ stops \in 0..MaxStops
  /\ raised \subseteq Approvals
  /\ ran \in [Approvals -> Nat]

Init ==
  /\ chats = {}
  /\ msgs = [m \in MsgIds |-> [status |-> "absent", text |-> FALSE, chat |-> 0]]
  /\ runs = [r \in Runs |-> [status |-> "absent", chat |-> 0, msg |-> 0]]
  /\ approvals = [a \in Approvals |-> [status |-> "absent", run |-> NoRun]]
  /\ lastChat = 0 /\ lastMsg = 0
  /\ loop = Idle
  /\ tasks = [r \in Runs |-> "none"]
  /\ cancels = {}
  /\ inflight = [a \in Approvals |-> "none"]
  /\ doomed = [c \in ChatIds |-> NoDelete]
  /\ phase = "up" /\ stops = 0 /\ raised = {}
  /\ ran = [a \in Approvals |-> 0]

-----------------------------------------------------------------------------
(* Rows.                                                                   *)

ExistingMsgs == {m \in MsgIds : msgs[m].status # "absent"}
ActiveRuns(c) == {r \in Runs : runs[r].status \in Active /\ runs[r].chat = c}
ChatOf(a) == runs[approvals[a].run].chat
ExistingApprovals == {a \in Approvals : approvals[a].status # "absent"}
PendingApprovals(c) ==
  {a \in ExistingApprovals : approvals[a].status = "pending" /\ ChatOf(a) = c}

FreshRun(r) == runs[r].chat = 0
FreshApproval(a) == approvals[a].run = NoRun

\* id is the next rowid of a table that holds the rows in used.
NextId(id, used, last) ==
  IF ReuseIds THEN used \subseteq 1..(id - 1) /\ (id = 1 \/ id - 1 \in used)
              ELSE id = last + 1

\* _update_run_in_db: nothing happens when the row is gone.
UpdateRun(r, status) ==
  runs' = [runs EXCEPT ![r].status = IF @ = "absent" THEN @ ELSE status]

\* msgs after _update_message_in_db: nothing happens when the row is gone.
MsgsWith(m, status, text) ==
  [k \in MsgIds |-> IF k = m /\ msgs[k].status # "absent"
                    THEN [msgs[k] EXCEPT !.status = status, !.text = text]
                    ELSE msgs[k]]

\* Bound: there is a message id left.
RoomForTurn == \E m \in MsgIds : NextId(m, ExistingMsgs, lastMsg)

\* The user message, the assistant placeholder and the run of one turn.
InsertTurn(r, c, m) ==
  /\ NextId(m, ExistingMsgs, lastMsg)
  /\ lastMsg' = IF m > lastMsg THEN m ELSE lastMsg
  /\ msgs' = [msgs EXCEPT ![m] = [status |-> "pending", text |-> FALSE, chat |-> c]]

-----------------------------------------------------------------------------
(* create_chat, send_message.                                              *)

CreateChat ==
  /\ phase = "up"
  /\ \E c \in ChatIds :
       /\ NextId(c, chats, lastChat)
       /\ chats' = chats \cup {c}
       /\ lastChat' = IF c > lastChat THEN c ELSE lastChat
  /\ UNCHANGED <<msgs, runs, approvals, lastMsg, memory, life, ran>>

\* A handler can run: the process serves requests and the loop is idle.
Serving == phase = "up" /\ loop = Idle

\* Mutant: the check for an active run is forgotten.
SendReadDuringRun(c, r) ==
  /\ Serving
  /\ c \in chats
  /\ PendingApprovals(c) = {}
  /\ FreshRun(r) /\ RoomForTurn
  /\ runs' = [runs EXCEPT ![r].chat = c]
  /\ loop' = At("send", r)
  /\ UNCHANGED <<chats, msgs, approvals, ids, tasks, cancels, inflight, doomed, life, ran>>

\* Mutant: the check for a pending approval is forgotten.
SendReadWhilePending(c, r) ==
  /\ Serving
  /\ c \in chats
  /\ ActiveRuns(c) = {}
  /\ FreshRun(r) /\ RoomForTurn
  /\ runs' = [runs EXCEPT ![r].chat = c]
  /\ loop' = At("send", r)
  /\ UNCHANGED <<chats, msgs, approvals, ids, tasks, cancels, inflight, doomed, life, ran>>

\* The reads and checks under the chat lock: 404 without the chat, 409 with a
\* pending approval or an active run.
SendRead(c, r) ==
  /\ Serving
  /\ c \in chats
  /\ PendingApprovals(c) = {}
  /\ ActiveRuns(c) = {}
  /\ FreshRun(r) /\ RoomForTurn
  /\ runs' = [runs EXCEPT ![r].chat = c]
  /\ loop' = At("send", r)
  /\ UNCHANGED <<chats, msgs, approvals, ids, tasks, cancels, inflight, doomed, life, ran>>

\* The commit.  No foreign key is enforced: delete_chat may have removed the
\* chat since the reads.
SendCommit ==
  /\ loop.at = "send"
  /\ LET r == loop.run IN
       \E m \in MsgIds :
         /\ InsertTurn(r, runs[r].chat, m)
         /\ runs' = [runs EXCEPT ![r] = [status |-> "pending", chat |-> @.chat, msg |-> m]]
         /\ loop' = At("start", r)
  /\ UNCHANGED <<chats, approvals, lastChat, tasks, cancels, inflight, doomed, life, ran>>

\* db.refresh raises when the placeholder or the chat is gone, and then no
\* task starts; otherwise the AI task is created and tracked.
SendStart ==
  /\ loop.at = "start"
  /\ LET r == loop.run IN
       tasks' = IF runs[r].chat \in chats /\ runs[r].msg \in ExistingMsgs
                THEN [tasks EXCEPT ![r] = "created"]
                ELSE tasks
  /\ loop' = Idle
  /\ UNCHANGED <<rows, ids, cancels, inflight, doomed, life, ran>>

-----------------------------------------------------------------------------
(* The AI task of a run, _ai_task.                                         *)

\* The task of r is resumed at an await in one of these stages and no
\* cancellation is delivered to it.
Wakes(r, stages) ==
  /\ phase # "down" /\ loop = Idle
  /\ tasks[r] \in stages
  /\ r \notin cancels

\* The task returns (or its cancellation ends it): the done callback drops it.
EndTask(r) ==
  /\ tasks' = [tasks EXCEPT ![r] = "none"]
  /\ cancels' = cancels \ {r}

TaskStart(r) ==
  /\ Wakes(r, {"created"})
  /\ UpdateRun(r, "running")
  /\ tasks' = [tasks EXCEPT ![r] = "waiting"]
  /\ UNCHANGED <<chats, msgs, approvals, ids, loop, cancels, inflight, doomed, life, ran>>

\* The first token.  Later tokens only refresh the heartbeat.
TaskToken(r) ==
  /\ Wakes(r, {"waiting"})
  /\ UpdateRun(r, "running")
  /\ msgs' = LET m == runs[r].msg IN
             [k \in MsgIds |-> IF k = m /\ msgs[k].status # "absent"
                               THEN [msgs[k] EXCEPT !.status = "streaming"]
                               ELSE msgs[k]]
  /\ tasks' = [tasks EXCEPT ![r] = "streaming"]
  /\ UNCHANGED <<chats, approvals, ids, loop, cancels, inflight, doomed, life, ran>>

\* A tool raised ApprovalRequired, or the final text proposes a risky command:
\* _persist_action_approval inserts the request ...
RaiseApproval(r, a) ==
  /\ Wakes(r, {"waiting", "streaming"})
  /\ FreshApproval(a)
  /\ PendingApprovals(runs[r].chat) = {}
  /\ approvals' = [approvals EXCEPT ![a] = [status |-> "pending", run |-> r]]
  /\ loop' = At("wait", r)
  /\ UNCHANGED <<chats, msgs, runs, ids, tasks, cancels, inflight, doomed, life, ran>>

\* ... or meets the unique index and adopts the request that is already there.
AdoptApproval(r) ==
  /\ Wakes(r, {"waiting", "streaming"})
  /\ PendingApprovals(runs[r].chat) # {}
  /\ loop' = At("wait", r)
  /\ UNCHANGED <<rows, ids, tasks, cancels, inflight, doomed, life, ran>>

PersistWaiting ==
  /\ loop.at = "wait"
  /\ UpdateRun(loop.run, "waiting_approval")
  /\ loop' = At("ask", loop.run)
  /\ UNCHANGED <<chats, msgs, approvals, ids, tasks, cancels, inflight, doomed, life, ran>>

\* Mutant: the return after the request is stored is forgotten.
PersistAskGoesOn ==
  /\ loop.at = "ask"
  /\ msgs' = MsgsWith(runs[loop.run].msg, "approval_required", TRUE)
  /\ loop' = Idle
  /\ UNCHANGED <<chats, runs, approvals, ids, tasks, cancels, inflight, doomed, life, ran>>

PersistAsk ==
  /\ loop.at = "ask"
  /\ msgs' = MsgsWith(runs[loop.run].msg, "approval_required", TRUE)
  /\ EndTask(loop.run)
  /\ loop' = Idle
  /\ UNCHANGED <<chats, runs, approvals, ids, inflight, doomed, life, ran>>

\* The agent raised, or the approval could not be stored.
TaskFail(r) ==
  /\ Wakes(r, {"waiting", "streaming"})
  /\ UpdateRun(r, "failed")
  /\ loop' = At("fail", r)
  /\ UNCHANGED <<chats, msgs, approvals, ids, tasks, cancels, inflight, doomed, life, ran>>

\* Mutant: the try block also covers memory ingestion.
TaskUnwindWide(r) ==
  /\ phase # "down" /\ loop = Idle
  /\ r \in cancels
  /\ \/ /\ tasks[r] \in {"waiting", "streaming", "ingest"}
        /\ UpdateRun(r, "cancelled")
        /\ loop' = At("fail", r)
        /\ UNCHANGED <<tasks, cancels>>
     \/ /\ tasks[r] \in {"created", "linger"}
        /\ EndTask(r)
        /\ UNCHANGED <<runs, loop>>
  /\ UNCHANGED <<chats, msgs, approvals, ids, inflight, doomed, life, ran>>

\* CancelledError is delivered.  Only the try block around the agent handles
\* it: before the body has started, and while memory is ingested or the task
\* lingers, the task just ends.
TaskUnwind(r) ==
  /\ phase # "down" /\ loop = Idle
  /\ r \in cancels
  /\ \/ /\ tasks[r] \in {"waiting", "streaming"}
        /\ UpdateRun(r, "cancelled")
        /\ loop' = At("fail", r)
        /\ UNCHANGED <<tasks, cancels>>
     \/ /\ tasks[r] \in {"created", "ingest", "linger"}
        /\ EndTask(r)
        /\ UNCHANGED <<runs, loop>>
  /\ UNCHANGED <<chats, msgs, approvals, ids, inflight, doomed, life, ran>>

\* Mutant: the message is left as it is.
PersistFailedNoMessage ==
  /\ loop.at = "fail"
  /\ EndTask(loop.run)
  /\ loop' = Idle
  /\ UNCHANGED <<rows, ids, inflight, doomed, life, ran>>

\* The message half of TaskFail and TaskUnwind.
PersistFailed ==
  /\ loop.at = "fail"
  /\ msgs' = MsgsWith(runs[loop.run].msg, "failed", TRUE)
  /\ EndTask(loop.run)
  /\ loop' = Idle
  /\ UNCHANGED <<chats, runs, approvals, ids, inflight, doomed, life, ran>>

\* The stream ended: the answer is stored, then memory ingestion is awaited.
TaskFinish(r) ==
  /\ Wakes(r, {"waiting", "streaming"})
  /\ msgs' = MsgsWith(runs[r].msg, "complete", TRUE)
  /\ tasks' = [tasks EXCEPT ![r] = "ingest"]
  /\ UNCHANGED <<chats, runs, approvals, ids, loop, cancels, inflight, doomed, life, ran>>

\* Mutant: the run is not closed after memory ingestion.
TaskIngestedNoRun(r) ==
  /\ Wakes(r, {"ingest"})
  /\ tasks' = [tasks EXCEPT ![r] = "linger"]
  /\ UNCHANGED <<rows, ids, loop, cancels, inflight, doomed, life, ran>>

TaskIngested(r) ==
  /\ Wakes(r, {"ingest"})
  /\ UpdateRun(r, "complete")
  /\ tasks' = [tasks EXCEPT ![r] = "linger"]
  /\ UNCHANGED <<chats, msgs, approvals, ids, loop, cancels, inflight, doomed, life, ran>>

\* The queue was kept for ten seconds after the answer.
TaskLingered(r) ==
  /\ Wakes(r, {"linger"})
  /\ EndTask(r)
  /\ UNCHANGED <<rows, ids, loop, inflight, doomed, life, ran>>

-----------------------------------------------------------------------------
(* resolve_approval.                                                       *)

\* Mutant: a resolved request can be resolved again.
ResolvableTwice(a) ==
  /\ Serving
  /\ approvals[a].status # "absent"
  /\ ChatOf(a) \in chats
  /\ ActiveRuns(ChatOf(a)) \subseteq {approvals[a].run}

\* 404 without the chat or the request, 409 unless the request is pending and
\* no other run of the chat is active.
Resolvable(a) ==
  /\ Serving
  /\ approvals[a].status = "pending"
  /\ ChatOf(a) \in chats
  /\ ActiveRuns(ChatOf(a)) \subseteq {approvals[a].run}

\* Mutant: the run gets the status of the approval.
ApproveRunStatus(a) ==
  /\ Resolvable(a)
  /\ approvals' = [approvals EXCEPT ![a].status = "executing"]
  /\ UpdateRun(approvals[a].run, "executing")
  /\ msgs' = MsgsWith(runs[approvals[a].run].msg, "streaming", TRUE)
  /\ inflight' = [inflight EXCEPT ![a] = "called"]
  /\ UNCHANGED <<chats, ids, loop, tasks, cancels, doomed, life, ran>>

Approve(a) ==
  /\ Resolvable(a)
  /\ approvals' = [approvals EXCEPT ![a].status = "executing"]
  /\ UpdateRun(approvals[a].run, "running")
  /\ msgs' = MsgsWith(runs[approvals[a].run].msg, "streaming", TRUE)
  /\ inflight' = [inflight EXCEPT ![a] = "called"]
  /\ UNCHANGED <<chats, ids, loop, tasks, cancels, doomed, life, ran>>

\* _execute_approved_command_sync in its worker thread.  The command does not
\* run when the host is unknown, unreachable or the toolkit blocks it.
ExecuteCommand(a) ==
  /\ inflight[a] = "called"
  /\ inflight' = [inflight EXCEPT ![a] = "returned"]
  /\ \/ ran' = [ran EXCEPT ![a] = @ + 1]
     \/ ran' = ran
  /\ UNCHANGED <<rows, ids, loop, tasks, cancels, doomed, life>>

\* The host cannot be read, or disconnect raises in the finally clause after
\* the command has run.  Nothing handles the exception: the await raises it in
\* resolve_approval, the handler dies, and the rows stay as Approve left them.
ExecuteRaises(a) ==
  /\ inflight[a] = "called"
  /\ inflight' = [inflight EXCEPT ![a] = "none"]
  /\ raised' = raised \cup {a}
  /\ \/ ran' = [ran EXCEPT ![a] = @ + 1]
     \/ ran' = ran
  /\ UNCHANGED <<rows, ids, loop, tasks, cancels, doomed, phase, stops>>

\* Mutant: the approval is not marked approved.
ContinueExecuting(a) ==
  LET r == approvals[a].run IN
  /\ Serving
  /\ inflight[a] = "returned"
  /\ runs[r].status = "absent" => ActiveRuns(runs[r].chat) = {}
  /\ msgs' = MsgsWith(runs[r].msg, "streaming", TRUE)
  /\ runs' = [runs EXCEPT ![r].status = "running"]
  /\ inflight' = [inflight EXCEPT ![a] = "none"]
  /\ loop' = At("resume", r)
  /\ UNCHANGED <<chats, approvals, ids, tasks, cancels, doomed, life, ran>>

\* Back in the handler, whatever has happened to the rows in the meantime: a
\* missing run row is inserted again.
Continue(a) ==
  LET r == approvals[a].run IN
  /\ Serving
  /\ inflight[a] = "returned"
  /\ runs[r].status = "absent" => ActiveRuns(runs[r].chat) = {}
  /\ approvals' = [approvals EXCEPT
                     ![a].status = IF @ = "absent" THEN @ ELSE "approved"]
  /\ msgs' = MsgsWith(runs[r].msg, "streaming", TRUE)
  /\ runs' = [runs EXCEPT ![r].status = "running"]
  /\ inflight' = [inflight EXCEPT ![a] = "none"]
  /\ loop' = At("resume", r)
  /\ UNCHANGED <<chats, ids, tasks, cancels, doomed, life, ran>>

\* The insert meets the one-active-run index: the handler dies.
ContinueConflict(a) ==
  LET r == approvals[a].run IN
  /\ Serving
  /\ inflight[a] = "returned"
  /\ runs[r].status = "absent" /\ ActiveRuns(runs[r].chat) # {}
  /\ inflight' = [inflight EXCEPT ![a] = "none"]
  /\ UNCHANGED <<rows, ids, loop, tasks, cancels, doomed, life, ran>>

\* create_task at the end of an approval or of Other.
Resume ==
  /\ loop.at = "resume"
  /\ tasks' = [tasks EXCEPT ![loop.run] = "created"]
  /\ loop' = Idle
  /\ UNCHANGED <<rows, ids, cancels, inflight, doomed, life, ran>>

\* Mutant: the waiting run is forgotten.
DenyNoRun(a) ==
  /\ Resolvable(a)
  /\ approvals' = [approvals EXCEPT ![a].status = "denied"]
  /\ msgs' = MsgsWith(runs[approvals[a].run].msg, "complete", TRUE)
  /\ UNCHANGED <<chats, runs, ids, memory, life, ran>>

Deny(a) ==
  /\ Resolvable(a)
  /\ approvals' = [approvals EXCEPT ![a].status = "denied"]
  /\ UpdateRun(approvals[a].run, "denied")
  /\ msgs' = MsgsWith(runs[approvals[a].run].msg, "complete", TRUE)
  /\ UNCHANGED <<chats, ids, memory, life, ran>>

\* Other, with instructions: the request is closed and a new turn begins.
Other(a, r) ==
  LET c == ChatOf(a)
      old == approvals[a].run IN
  /\ Resolvable(a)
  /\ FreshRun(r)
  /\ approvals' = [approvals EXCEPT ![a].status = "other"]
  /\ \E m \in MsgIds :
       /\ InsertTurn(r, c, m)
       /\ runs' = [q \in Runs |->
                     IF q = r THEN [status |-> "pending", chat |-> c, msg |-> m]
                     ELSE IF q = old /\ runs[q].status # "absent"
                     THEN [runs[q] EXCEPT !.status = "other"]
                     ELSE runs[q]]
  /\ loop' = At("resume", r)
  /\ UNCHANGED <<chats, lastChat, tasks, cancels, inflight, doomed, life, ran>>

-----------------------------------------------------------------------------
(* delete_chat: a worker thread that does not take the chat lock.          *)

\* It cancels the tracked tasks of active runs and loads the rows to delete.
DeleteRead(c) ==
  /\ phase = "up"
  /\ c \in chats /\ ~doomed[c].on
  /\ cancels' = cancels \cup {r \in ActiveRuns(c) : tasks[r] # "none"}
  /\ doomed' = [doomed EXCEPT ![c] =
       [on |-> TRUE,
        msgs |-> {m \in ExistingMsgs : msgs[m].chat = c},
        runs |-> {r \in Runs : runs[r].status # "absent" /\ runs[r].chat = c},
        approvals |-> {a \in ExistingApprovals : ChatOf(a) = c}]]
  /\ UNCHANGED <<rows, ids, loop, tasks, inflight, life, ran>>

\* Rows inserted since then stay behind.
DeleteCommit(c) ==
  /\ doomed[c].on
  /\ chats' = chats \ {c}
  /\ msgs' = [m \in MsgIds |-> IF m \in doomed[c].msgs
                THEN [status |-> "absent", text |-> FALSE, chat |-> 0] ELSE msgs[m]]
  /\ runs' = [r \in Runs |-> IF r \in doomed[c].runs
                THEN [runs[r] EXCEPT !.status = "absent"] ELSE runs[r]]
  /\ approvals' = [a \in Approvals |-> IF a \in doomed[c].approvals
                     THEN [approvals[a] EXCEPT !.status = "absent"] ELSE approvals[a]]
  /\ doomed' = [doomed EXCEPT ![c] = NoDelete]
  /\ UNCHANGED <<ids, loop, tasks, cancels, inflight, life, ran>>

-----------------------------------------------------------------------------
(* Shutdown, crash, start.                                                 *)

\* Memory is lost.
LoseMemory ==
  /\ loop' = Idle
  /\ tasks' = [r \in Runs |-> "none"]
  /\ cancels' = {}
  /\ inflight' = [a \in Approvals |-> "none"]
  /\ doomed' = [c \in ChatIds |-> NoDelete]

\* shutdown_active_ai_tasks.  The server has drained its requests, AI tasks
\* are still there: every tracked one has its run marked and is cancelled.
Shutdown ==
  /\ Serving /\ stops < MaxStops
  /\ \A a \in Approvals : inflight[a] = "none"
  /\ \A c \in ChatIds : ~doomed[c].on
  /\ phase' = "stopping" /\ stops' = stops + 1
  /\ runs' = [r \in Runs |->
                IF tasks[r] # "none" /\ r \notin cancels /\ runs[r].status # "absent"
                THEN [runs[r] EXCEPT !.status = "cancelled"] ELSE runs[r]]
  /\ cancels' = {r \in Runs : tasks[r] # "none"}
  /\ UNCHANGED <<chats, msgs, approvals, ids, loop, tasks, inflight, doomed, raised, ran>>

\* The tasks have ended, or ten seconds are over.
Exit ==
  /\ phase = "stopping" /\ loop = Idle
  /\ phase' = "down"
  /\ LoseMemory
  /\ UNCHANGED <<rows, ids, stops, raised, ran>>

Crash ==
  /\ phase # "down" /\ stops < MaxStops
  /\ phase' = "down" /\ stops' = stops + 1
  /\ LoseMemory
  /\ UNCHANGED <<rows, ids, raised, ran>>

\* Mutant: start-up forgets the runs.
RecoverNoRuns ==
  /\ phase = "down"
  /\ phase' = "up"
  /\ msgs' = [m \in MsgIds |-> IF msgs[m].status \in Unsettled /\ ~msgs[m].text
                THEN [msgs[m] EXCEPT !.status = "failed", !.text = TRUE] ELSE msgs[m]]
  /\ UNCHANGED <<chats, runs, approvals, ids, memory, stops, raised, ran>>

\* _recover_stuck_messages: only messages without content are reset.
Recover ==
  /\ phase = "down"
  /\ phase' = "up"
  /\ msgs' = [m \in MsgIds |-> IF msgs[m].status \in Unsettled /\ ~msgs[m].text
                THEN [msgs[m] EXCEPT !.status = "failed", !.text = TRUE] ELSE msgs[m]]
  /\ runs' = [r \in Runs |-> IF runs[r].status \in Active
                THEN [runs[r] EXCEPT !.status = "failed"] ELSE runs[r]]
  /\ UNCHANGED <<chats, approvals, ids, memory, stops, raised, ran>>

-----------------------------------------------------------------------------

TaskStep(r) ==
  \/ TaskStart(r) \/ TaskToken(r) \/ TaskFail(r) \/ TaskUnwind(r)
  \/ TaskFinish(r) \/ TaskIngested(r) \/ TaskLingered(r)
  \/ AdoptApproval(r) \/ \E a \in Approvals : RaiseApproval(r, a)

LoopStep ==
  SendCommit \/ SendStart \/ Resume \/ PersistWaiting \/ PersistAsk \/ PersistFailed

HandlerStep(a) ==
  ExecuteCommand(a) \/ ExecuteRaises(a) \/ Continue(a) \/ ContinueConflict(a)

Next ==
  \/ CreateChat
  \/ \E c \in ChatIds, r \in Runs : SendRead(c, r)
  \/ LoopStep
  \/ \E r \in Runs : TaskStep(r)
  \/ \E a \in Approvals : HandlerStep(a) \/ Approve(a) \/ Deny(a)
  \/ \E a \in Approvals, r \in Runs : Other(a, r)
  \/ \E c \in ChatIds : DeleteRead(c) \/ DeleteCommit(c)
  \/ Shutdown \/ Exit \/ Crash \/ Recover

Spec == Init /\ [][Next]_vars

\* asyncio's ready queue is first in, first out: a task or handler that can go
\* on does.  The model stream ends, fails or asks, an SSH command ends by its
\* timeout, a thread commits, systemd or Docker starts the process again.
\* Users and crashes are not fair.
Fairness ==
  /\ \A r \in Runs : WF_vars(TaskStep(r))
  /\ WF_vars(LoopStep)
  /\ \A a \in Approvals : WF_vars(HandlerStep(a))
  /\ \A c \in ChatIds : WF_vars(DeleteCommit(c))
  /\ WF_vars(Exit) /\ WF_vars(Recover)

FairSpec == Spec /\ Fairness

-----------------------------------------------------------------------------
(* Invariants.                                                             *)

\* At most one run of a chat is pending or running: the checks of
\* send_message and resolve_approval keep it, the unique index of agent_runs
\* never has to (except for Continue when row ids are reused).
OneActiveRun ==
  \A r, q \in Runs :
    /\ runs[r].status \in Active /\ runs[q].status \in Active
    /\ runs[r].chat = runs[q].chat
    => r = q

\* While an approval is pending no other run of its chat is active: a second
\* answer, and so a second request, cannot appear beside it, and the 409 for a
\* foreign active run in resolve_approval is never taken.
NoTurnWhilePending ==
  \A a \in ExistingApprovals :
    approvals[a].status = "pending" =>
      ActiveRuns(ChatOf(a)) \subseteq {approvals[a].run}

\* A run that waits for approval has a pending request a user can answer, and
\* a message that asks for approval has its request, pending or answered with
\* Other (which leaves the old message as it is): across a crash between the
\* three commits of _persist_action_approval too.
AskIsAnswerable ==
  /\ \A r \in Runs :
       runs[r].status = "waiting_approval" =>
         \E a \in ExistingApprovals :
           approvals[a].status = "pending" /\ approvals[a].run = r
  /\ \A m \in ExistingMsgs :
       msgs[m].status = "approval_required" =>
         \E a \in ExistingApprovals :
           /\ approvals[a].status \in {"pending", "other"}
           /\ runs[approvals[a].run].msg = m

\* Somebody is still going to finish r: its task, the stretch in progress, or
\* the handler of an approved command.
Driven(r) ==
  \/ tasks[r] \in {"created", "waiting", "streaming", "ingest"}
  \/ loop.run = r
  \/ \E a \in Approvals : approvals[a].run = r /\ inflight[a] # "none"

\* The approved command of r raised: known to leave r running, its message
\* streaming and its request executing, and nobody to go on.
Raised(r) == \E a \in raised : approvals[a].run = r

\* While the process is up, an active run of a chat that is not being deleted
\* is driven, unless its command raised: otherwise the chat would answer 409
\* until the next restart.
ActiveHasDriver ==
  \A r \in Runs :
    /\ phase = "up"
    /\ runs[r].status \in Active /\ ~Raised(r)
    /\ runs[r].chat \in chats /\ ~doomed[runs[r].chat].on
    => Driven(r)

\* What is going to write the message of r: its task, as long as the answer is
\* not stored, a stretch in progress, the handler of an approved command.
Writing(r) ==
  \/ tasks[r] \in {"created", "waiting", "streaming"}
  \/ loop.run = r
  \/ \E a \in Approvals : approvals[a].run = r /\ inflight[a] # "none"

\* While the process is up, somebody is going to settle a pending or streaming
\* message of a chat that is not being deleted, unless its command raised; after
\* a restart this is so of a message without content (what a restart forgets is
\* RestartSettlesMessages).
UnsettledHasWriter ==
  \A m \in ExistingMsgs :
    /\ phase = "up"
    /\ msgs[m].status \in Unsettled /\ (stops = 0 \/ ~msgs[m].text)
    /\ msgs[m].chat \in chats /\ ~doomed[msgs[m].chat].on
    => \E r \in Runs : runs[r].msg = m /\ (Writing(r) \/ Raised(r))

\* Only a command that raised leaves a run active, or a message unsettled, with
\* nobody to go on.
NothingIsStranded == ActiveHasDriver /\ UnsettledHasWriter

\* A command runs at most once, and never while its request is pending or
\* after it was denied or answered with Other.
RunsOnlyOnceApproved ==
  \A a \in Approvals :
    /\ ran[a] <= 1
    /\ approvals[a].status \in {"pending", "denied", "other"} => ran[a] = 0

\* The request of a is waiting for an answer, or its command is on its way.
Open(a) == approvals[a].status = "pending" \/ inflight[a] # "none"

\* A run has one owner at a time: its task, the stretch in progress, or one
\* open request.  Two owners would write the run, its message and its queue
\* over each other.
OneDriver ==
  /\ \A a, b \in Approvals :
       Open(a) /\ Open(b) /\ approvals[a].run = approvals[b].run => a = b
  /\ \A a \in Approvals :
       LET r == approvals[a].run IN
       Open(a) /\ (tasks[r] # "none" \/ loop.run = r) =>
         loop \in {At("wait", r), At("ask", r)} /\ inflight[a] = "none"
  /\ loop.at \in {"send", "start", "resume"} => tasks[loop.run] = "none"
  /\ loop.at \in {"wait", "ask", "fail"} =>
       tasks[loop.run] \in {"waiting", "streaming"}

-----------------------------------------------------------------------------
(* Action properties.                                                      *)

\* chat.py:17 `complete: full response saved, final': a complete message
\* keeps that status until it is deleted.
CompleteIsFinal ==
  [][\A m \in MsgIds : msgs[m].status = "complete" =>
                         msgs'[m].status \in {"complete", "absent"}]_vars

\* A run that was completed, cancelled, denied or replaced is never active
\* again: no late writer reopens it.
ClosedRunStaysClosed ==
  [][\A r \in Runs : runs[r].status \in {"complete", "cancelled", "denied", "other"} =>
                       runs'[r].status \notin Active]_vars

\* chat.py:13 `Server restart: pending/streaming messages auto-reset to
\* failed': after a start no message is pending or streaming.
RestartSettlesMessages ==
  [][phase = "down" /\ phase' = "up" =>
       \A m \in MsgIds : msgs'[m].status \notin Unsettled]_vars

-----------------------------------------------------------------------------
(* Liveness, under FairSpec.                                               *)

\* An active run of a chat does not stay active: its task ends, or a restart
\* resets it.  Excepted is a run whose approved command raised, and only that.
RunSettles ==
  \A r \in Runs :
    runs[r].status \in Active ~>
      (runs[r].status \notin Active \/ runs[r].chat \notin chats \/ Raised(r))

\* Until the first shutdown or crash a message does not stay pending or
\* streaming, unless the command approved for it raised.
MessageSettles ==
  \A m \in MsgIds :
    msgs[m].status \in Unsettled ~>
      (\/ msgs[m].status \notin Unsettled \/ msgs[m].chat \notin chats
       \/ stops > 0 \/ \E r \in Runs : runs[r].msg = m /\ Raised(r))

\* Until the first shutdown or crash an approved command gets its result
\* recorded, or its chat is deleted, unless the command raised.
CommandConcludes ==
  \A a \in Approvals :
    approvals[a].status = "executing" ~>
      (approvals[a].status # "executing" \/ stops > 0 \/ a \in raised)

-----------------------------------------------------------------------------
(* The approval gate.  While the command is on its way to the host the     *)
(* request is allowed, whatever delete_chat has done to its row.           *)

GateOf(a) ==
  IF inflight[a] = "called" THEN "allowed"
  ELSE IF FreshApproval(a) THEN "none"
  ELSE IF approvals[a].status = "pending" THEN "asked"
  ELSE IF approvals[a].status \in {"denied", "other"} THEN "refused"
  ELSE "closed"

Gate == INSTANCE ApprovalGate WITH gate <- [a \in Approvals |-> GateOf(a)]

\* The program implements the gate of ApprovalGate.
GateSpec == Gate!Spec

=============================================================================
