# infra-agent: verification project

TLA+ models of infra-agent (`src/backend` and the chat page of `src/frontend`),
the TLC runs that check them on small instances, and TLAPS proofs of what
matters most for every instance. `PROJECT.json` lists the runs, the theorems, the source lines behind
every definition, the hazards and the findings.

## 1. The system

infra-agent is one FastAPI process (uvicorn, one event loop, SQLAlchemy over
SQLite, a thread pool for `def` handlers and `asyncio.to_thread`) and a React
front end. A user registers hosts, opens chats and asks questions; for each
question an AI task runs an agent with SSH tools and streams its answer; a
risky command stops the answer until the user has approved it.

| component | state it keeps | operations | hard behaviour | what makes it correct |
|---|---|---|---|---|
| **chat runs and approvals** (`routers/chat.py`, `models_db.py`, `db.py`, `main.py`) | rows of `chats`, `messages`, `agent_runs`, `action_approvals`; in memory `_active_tasks`, `_active_queues`, `_chat_locks` | `create_chat`, `send_message`, `_ai_task`, `resolve_approval`, `delete_chat`, shutdown, start-up recovery | event-loop steps against worker threads, cancellation at any await, crash between commits, row ids handed out again | one active run per chat; no turn beside a pending request; a command runs at most once and only when approved; nothing stays active, waiting or streaming for ever |
| **answer stream** (`chat.py` `_sse_from_queue`, the queue of a run) | one bounded queue per run | token, progress and sentinel puts, reads, pings, disconnects | full queue, slow or absent client, cancellation before the sentinel | the client sees the answer in order, and its stream ends |
| **hosts** (`routers/systems.py`, `models_db.System`) | rows of `systems` with parent and order | list, save (create or update), delete, reorder | saves from stale pages, ORM cascades, cycle detection | the hierarchy is a forest; a deletion removes what it names |
| **chat page** (`frontend/src/pages/Chat.jsx`) | the messages shown, `activeChatIdRef`, one interval, one stream, one approval request | open, select, leave, load, poll, send, read the stream, decide on an approval | answers that come after the user has moved, that pass each other, or never come | the page shows the chat that is open, and comes to show what the rows say |
| **chat host** (`chat.py` `update_chat`, `_normalize_chat_host`) | `chats.target_host_id`, `target_host` | choose, lock, normalise, clear on host deletion | check in one thread, message in another; names and ids changing separately | a chat with messages stays on its host |
| **SSH keys** (`routers/ssh.py`, `ssh_key_manager.py`) | key files, the index file, the paths in host rows | generate, assign, delete with linked hosts | files, index and database written one after the other; a crash between any two | a listed key can be used and every host uses a listed one; no key file without an index entry; a deleted key is gone |
| **SSH connections** (`ssh_toolkit.py`) | the connections of one answer's toolkit | connect, evict, execute, disconnect | parallel tool calls over one cache, threads nobody waits for any more | a connection is closed by the call that opened it |
| **users and login** (`auth.py`, `routers/auth.py`) | `user_accounts`, `auth_settings` | login with lockout and rehash, change and reset password, create, update, delete, toggle auth | read-modify-write of a row in several sessions, in threads | failures in a row lock, and nothing else does; an account is as it was last set; `admin` stays while authentication is on |
| **backup** (`routers/backup.py`) | all tables, key files | export, restore | an export reads at different moments; a restore commits the tables before it writes the files | what is restored can be used |
| **memory** (`memory/*`) | `agent_memory`, short-term sessions | record, recall, merge, compact, trim | threads that count on what they read; maintenance that works on its own summaries, or twice | nothing is forgotten but what overflows or finds its summary full; what the user asked to remember is kept |
| **agent loop and guardrails** (`agent_loader.py`, `agent/*`, `tools/*`, `approvals.py`) | graph state, approved action in a context variable | classify, execute tools, ask for approval, judge an attempt, retry up to three times, fall back | a graph that runs ahead of the loop, streams that break, threads that outlive their graph | a risky command never runs without the matching approval; the end reported is what the calls call for; everything winds down |
| **cron jobs** (`routers/cron.py`) | `cron_jobs` | create, update, run now, delete | a run blocks the event loop | status and last run agree |
| **attachments** (`routers/attachments.py`) | `attachments`, upload files | upload, link, delete, read | file without row, row without file | a message's attachment can be read |
| **model configuration** (`routers/models_config.py`, `models_registry.py`, `crypto.py`) | `model_configs` | save, enable, decrypt | plain text and encrypted values mixed | a key is encrypted exactly once |
| **logs, usage, tracing** (`routers/logs.py`, `usage.py`, `app_logging.py`, `observability/*`) | `app_logs`, `usage_logs` | append, list, clear, expire | none that matters here | |
| **prompts, tests, alembic, rest of the front end, install scripts** | - | - | - | |

How they interact:

- The **page** calls the API. `POST /messages` answers with an event stream;
  everything else is a request and an answer. The page learns of an answer it
  did not stream by polling `GET /chats/{id}` once a second.
- `send_message` inserts a message and a run and starts an **AI task**; the task
  drives the **agent loop**, puts its tokens into the **queue** of the run and
  settles the rows. `_sse_from_queue` reads the queue for as long as the browser
  listens; the task goes on without it.
- A tool of the agent that meets a risky command raises `ApprovalRequired`; the
  task persists an **approval** and ends. `resolve_approval` executes the command
  in a worker thread and starts a second task for the same run.
- **Hosts**, **keys** and **chats** refer to each other by id and by path, and no
  foreign key is enforced in SQLite: each deletion clears the references itself.
- The **backup** rewrites the tables of all of them; **start-up recovery** settles
  what a crash left.

Scheduling: `async def` handlers and tasks share the event loop and exclude each
other between awaits; `def` handlers run in worker threads, beside them. Every
handler has a session of its own, so what another handler reads of it is what it
has committed.

## 2. Plan

Modules were written in this order, the central behaviour first. A component's
theorems are in `<Module>Proofs`, its instance for TLC is `MC<Module>`.

| module | of | abstract specification | state |
|---|---|---|---|
| `ChatRuns` | turns, runs, approvals, recovery | `ApprovalGate`: what may happen to one approved command | modelled, checked, proved |
| `AnswerStream` | tokens and end of one answer | - | modelled, checked, proved |
| `HostTree` | hosts and their hierarchy | - | modelled, checked, proved |
| `ChatPage` | the browser's view of the chats | - (`ChatRuns` seen through `get_chat`) | modelled, checked, proved |
| `KeyStore` | key files, index, linked hosts, export and restore; a crash between any two writes | - | modelled, checked, proved |
| `Accounts` | login and lock, changes of accounts, the switch of authentication | - | modelled, checked, proved |
| `AgentLoop` | attempts, failures, broken streams, tool calls and their connections, requests for approval | - (what `ChatRuns` and `AnswerStream` take for one task) | modelled, checked, proved but for liveness |
| `Memory` | what turns store, prompts recall and maintenance forgets | - | modelled, checked, proved |

Left of the plan: the host of a chat and its attachments (`update_chat`,
`routers/attachments.py`), as a module over `HostTree`; the history budget
of `context_manager.py`. `AgentLoop` refines one step of
`AnswerStream` (what the task is told by the agent) and is not composed with it:
the product of the two adds no behaviour, because they meet in one queue that
each of them has from its own side.

## 3. What is modelled

### ChatRuns (with ApprovalGate, MCChatRuns)

Variables: the rows (`chats`, `msgs`, `runs`, `approvals`), the tasks and what
they are at (`task`), the approved commands that execute, deletions that have
read and not yet committed, the handler stretch on the event loop (`loop`), the
phase of the process, and history for the properties.

- `SendRead`, `SendCommit`, `SendStart` are `send_message`: its checks, its one
  commit, the start of the task. The three are apart because a worker thread
  (`delete_chat`) or a crash can come in between; no other coroutine can, and
  `loop` says so.
- `TaskStart`, `TaskToken`, `RaiseApproval` .. `PersistAsk`, `TaskFail`,
  `TaskUnwind`, `TaskFinish`, `TaskIngested`, `TaskLingered` are `_ai_task` at its
  awaits and commits. `_persist_action_approval` commits three times, hence
  `RaiseApproval` (request), `PersistWaiting` (run), `PersistAsk` (message).
  `TaskUnwind` is the delivery of a cancellation at whatever await the task is in.
- `Approve`, `ExecuteCommand`, `Continue`, `ContinueConflict`, `Resume`, `Deny`,
  `Other` are `resolve_approval` before and after the command it awaits.
  `ExecuteRaises` is the command that ends in an exception: nothing catches it, the
  handler dies, and the rows stay as they were while it ran. `raised` remembers it.
- `DeleteRead`, `DeleteCommit` are `delete_chat`; `Shutdown`, `Exit`, `Crash`,
  `Recover` are the process.
- `ReuseIds` selects SQLite's row ids (largest plus one, so that the id of the
  last deleted row comes back) or the behaviours in which none comes back
  because a newer row is always there.

`ApprovalGate` is the promise about one approval: asked, then refused, replaced
or approved; executed only after, at most once. `GateSpec` in `ChatRuns` is
`ApprovalGate` under the refinement mapping `GateOf`.

### AnswerStream

One task, its queue and one client. `Put` drops what a full queue refuses, as
`put_nowait` under `except QueueFull` does; a cancelled task, a deleted row and a
failed write can happen at every step. The client reads in order, or leaves.

### HostTree

Rows with a parent. `Save` sends back the parent its form was opened with (none for
the form of an unlinked key, `OpenUnlinked`), and falls on the host of the form; a form
without a host, or whose host is gone, falls on any host with its name, key or address
(`Target`). `Reorder` is `reorder_systems` with its validation and its walk up the merged
hierarchy; `Remove` is a deletion with what the ORM cascade of
`System.children` takes along; `DeleteWithKey` the deletion of the hosts of a key.

### ChatPage

`view` is what is on the screen, by the number and state of the chat's last
answer. Every request of the page is two or three steps: sent, read by the
server, answered. `Late` polls are those whose interval was cleared: they still
arrive. `Select`, `NewChat`, `NewChatFails`, `Reopen`, `Reload` are the user's moves; the
handlers that run when an answer comes are `DeliverLoad`, `DeliverPoll`,
`StreamEnd`, `Refuse`, `DeliverResolve`. The server is `ChatRuns` as `get_chat`
shows it: `Work` stands for a task and `TakeResolve` for `resolve_approval`. An answer
that is `saving` is complete while its run is still active: `handleSend` looks at
the messages only, so `Send` asks then, beside the polling, and is accepted or
refused by the time of its post. `EndLost` is the end that no stream carries.

### KeyStore

`files`, `index` and `host` are the three places a key is in, each written by
itself; `work` is the handler on the event loop between two of its writes, `copy`
the export that reads in its thread meanwhile. `Create..`, `Delete..` and
`Restore..` are the writes of `create_ssh_key`, `remove_ssh_key` and the restore in
their order; `..Fails` is an error after some of them, `Crash` the end of the
process, with the index torn if it was being written. A file that
`delete_ssh_key` cannot remove is raised after the others are gone and before the index
is written (`UnlinkFails`); `DeleteFails` is the commit of the rows. `Save` sends back the key of a
form that may be stale. `mishaps` names what cannot be undone, so that each
property says which mishaps it survives.

### Accounts

Each request is a thread that reads a row in one session and commits in
another. `seen` is the row as the ORM remembers it: a commit writes the columns
that differ from it, so two requests can both be right and their sum
wrong. `Login`, `ResetLock`, `Reread`, `Accept`, `Refuse`, `Record` are `verify_user` with
`record_failed_attempt`; `Look` is `is_account_locked`, which removes a lock as a login
does and counts as one (`alone`); `BeginUpdate` ..
`Toggle` are the handlers of `routers/auth.py` after their checks; `Restart` is
`init_default_admin` at the start. Where authentication is on by default, the first
start commits that (`auth.py:124`) before it comes to the administrator
(`main.py:59`): `Init` has such a database, on which only `Restart` can act.
`streak` and `meant` are history: the failures in
a row of an account and what was last set for it, where requests did not overlap.

### AgentLoop

`loop` is `astream_troubleshoot`, `graph` a run of the LangGraph graph (external),
`events` what the graph has said and the loop has not read, `calls` the tool
calls, each in a thread. `Setup`, `Consume`, `StreamEnds`, `FallBack`, `InvokeReturns`,
`InvokeFails` and `Judge` are one attempt; `ModelCalls`, `ModelAnswers`, `ModelFails`
are what the graph may do. `Reject`, `UnknownHost`, `AskApproval`, `Connect`, `ConnectRefused`, `Finish`,
`FinishRaises` are one call from its checks to its disconnection; `Connect` closes the stale
connections of the toolkit, those of running calls included. `Drop` is a call
cancelled before a thread took it, `CloseGraph` an abandoned stream. `broken` is
history: the runs of the graph that have raised, whose threads nobody waits for.
The answers of one task are several `AgentLoop`s in succession in `ChatRuns`.

### Memory

`rows` is `agent_memory` by key, `marker` the row that dates the maintenance.
`RecordInteraction` extracts the records of a turn (`Explicit`, `Preference`, `Observation`);
`StoreLookup` and `StoreCommit` are the two halves of `LongTermMemory.store` for one
of them, with the insert another thread was faster with and the error
nobody looks at. `Recall` and `RecallCommit` are `retrieve_relevant`: rows that were
read count as used and as updated. `Maintain` is one commit of `RunMaintenance`: the set of tables
that merging (`Merged`), compacting (`Compacted`) and trimming (`Trimmed`) may leave,
over ties and over which facts a summary has room for; `Mark` is the second
commit, `Serve` a start that is not due or whose maintenance failed.

## 4. What is checked

| run | instance | shows |
|---|---|---|
| `chat_safety` | two runs, two approvals, one chat, two messages, two crashes or shutdowns, row ids come back | turns exclude each other; a run has one driver (task, handler stretch or open request); a command runs at most once and only approved; a closed run stays closed; the rows implement `ApprovalGate` |
| `chat_progress` | the same, no row id comes back, fair tasks | no turn beside a pending request; every waiting run has a request that can be answered and every active run and unsettled message somebody who goes on with it; a complete message stays so; no run stays active; as long as the process lives every message settles and every approved command is concluded: each but for a run whose approved command raised |
| `chat_restart_claim` | one approval, one crash | finding: recovery skips a message with content, so an approved command interrupted by a crash leaves its message streaming |
| `host_tree` | three hosts, every reorder request over them, one edit form | an accepted reorder leaves a forest; only the save of a stale form, or one that falls on another host, closes a cycle or leaves a host below one that is gone |
| `host_delete_claim` | three hosts, no form | finding: deleting a host deletes its parent too |
| `answer_stream` | four tokens, a queue of three | the tokens come in order and complete unless the queue refused some; the end shown is the end stored unless a write failed; the stream ends unless its end was refused or never put |
| `chat_page` | two chats of two answers, two moves or failures, one poll on its way | the messages shown are the active chat's; at rest they are what the rows say; in the end they are: each unless one of six mishaps (section 6) has happened |
| `key_store` | two keys, one host, one archive, one mishap | at rest every listed key can be used and every host uses a listed one; no file is stray; a deleted key stays gone: each but for the mishaps it names |
| `accounts` | two accounts, two passwords, two threads, a lock after two failures | logins one after the other lock exactly at the limit; an account is as it was last set; no step leaves authentication on without the account `admin`, wherever the process stops, once a start has come to it |
| `agent_loop` | two attempts of two rounds, two calls at a time, one approved and one other risky command, a plain one, a probe | no pass is judged, repeated, replaced or answered over calls that could still be heard, and an invoked graph leaves none behind; every end follows from what the calls reported; the loop, the threads and the connections wind down |
| `agent_approval_claim` | the same | finding: a request made while the graph is invoked without events is answered over |
| `memory` | two facts about a host, told as results or to be remembered, a preference, two threads, a table of two rows, three moments | what is forgotten overflowed, or was compacted into a summary that is full; what the user asked to remember keeps a row of its own until it overflows |

### Bounds and why they are enough

- *Runs, messages, approvals.* Two turns show every conflict between two turns, and
  one that starts after a deletion or a crash has hit the other. Two approvals of a
  chat show an old request beside a new one.
- *Stops.* Two crashes or shutdowns: one before and one after a recovery, or a second
  before the recovery commits. `chat_restart_claim` needs only one.
- *One chat.* Two at once share nothing but the event loop.
- *Queue and tokens.* The queue is smaller than the answer, so that each kind of
  item is refused in some behaviour; tokens differ only by their number.
- *Hosts.* Three hosts give every shape of a chain and of a cycle through an
  intermediate host; four were checked once, with the same result.
- *Chat page.* Two chats are the one left and the one open; at first they are alike,
  so `MCChatPage` opens the page on a chosen one. `MaxMoves` counts what
  the user does besides asking and every failed request; two are enough for each
  mishap and for leaving a chat and coming back. Instances with two polls on their
  way and with three moves were checked for the invariants before the theorems were there.
- *Key store.* One host is enough for each relation between a path and a key; the
  second key is the one that must not be touched. `FewMishaps` admits one mishap
  that a property excuses in each behaviour: two would excuse more.
- *Accounts.* Two threads show each race of two requests on a row. `OneAtATime` leaves
  out what two accounts do independently: logins to `admin` that fail, changes of
  two accounts at once, several columns in one update, and behaviours after two changes overlapped.
  The limit is two failures instead of five; one more is counted so that the row can pass it.
- *Agent loop.* Two attempts (three in the code) show a retry and the end of the
  budget; two rounds (60 steps of the graph) show calls beside and after each other.
- *Memory.* A group of two is worth a summary (four in the code) and a summary
  surely holds one fact (seven), so that both full and complete summaries occur; one use protects a row
  (five); the table holds two rows (5000) and overflows by at most one before maintenance.
  Three moments let a summary be written, the same facts be told again, and the
  same summary be found again. Two threads are busy at once only with the
  same preference: what they do to different rows commutes.
- `chat_safety` has row ids come back, which is where a task or a handler of a
  deleted chat meets the rows of the next one. The properties that need an id to
  stay its row's (section 6) are checked by `chat_progress`, where none comes back.
- The theorems of section 5 hold for all values of these constants, so for the
  properties they state the bounds do not matter.

### Fairness

`chat_progress` assumes that a task that can go on goes on, that an approved
command returns or raises (`asyncio.to_thread` of an SSH command with a timeout), that the
event loop is not blocked, and that a process that stops is started again (the
service unit and the container restart policy). It assumes nothing of the user:
a request may wait for ever. `AnswerStream` assumes the same of the task and
that a client that listens reads. `ChatPage` assumes that an interval fires, that
requests are answered (a failure is an action of its own, which `MaxMoves`
bounds), that tasks settle, which is what `chat_progress` shows, and that a stream
whose end was put delivers it. It does not assume that the end was put: `EndLost` may
happen instead, after which the stream is mute, and is the mishap `endLost`.

`AgentLoop` assumes that the model answers or fails, that paramiko's timeouts
end each call, and that threads and the loop go on; not that a connection is evicted,
a stream breaks or the user cancels.

Deadlock is off where the system may stop: the user asks nothing more, the
answer is complete, no key is left to generate, or requests are bounded. `host_tree`
and `memory` never stop.

## 5. What is proved

| theorem | module | says |
|---|---|---|
| `TypeCorrect` | each `*Proofs` | the type invariant |
| `OnceApproved` | `ChatRunsProofs` | a command runs at most once, and never before its approval |
| `ImplementsGate` | `ChatRunsProofs` | `ChatRuns` implements `ApprovalGate` |
| `OneOwner`, `OneActive` | `ChatRunsProofs` | one driver per run; one active run per chat, with and without reuse of ids |
| `ClosedStaysClosed` | `ChatRunsProofs` | no late writer reopens a closed run |
| `NoTurnBesideRequest`, `EveryAskAnswerable`, `NothingStranded`, `CompleteStays` | `ChatRunsProofs` | the four safety properties of `chat_progress`, where no row id comes back |
| `AnswerIsShown`, `EndIsStored` | `AnswerStreamProofs` | the client sees the answer in order, and the end that is stored |
| `DeletionFrees`, `ParentsAreKept`, `StaysForest`, `HierarchyStays` | `HostTreeProofs` | deletions leave no host below a removed one; only stale saves break the hierarchy |
| `ReorderLeavesForest` | `HostTreeProofs` | the walk of `reorder_systems` finds every cycle |
| `ExactAtTheTop` | `HostTreeProofs` | a deletion removes only the hosts it names exactly when none of them has another known parent |
| `ShownBelongsToActive`, `RestsOnlyCurrent` | `ChatPageProofs` | the page shows the open chat, and rests only on what the rows say |
| `KeysStayUsable`, `NoFileIsStray`, `DeletionIsFinal` | `KeyStoreProofs` | the three properties of `key_store`, for any number of keys and hosts |
| `LockIsExact`, `AccountsAsMeant`, `AdministratorStays` | `AccountsProofs` | the three properties of `accounts`, for any number of accounts and threads |
| `CallsAreAwaited`, `EndsAreExplained` | `AgentLoopProofs` | no pass moves on over calls it could still hear; every end and every retry has its reason |
| `NothingLost`, `AskedStays` | `MemoryProofs` | the two properties of `memory`, for any facts, limits and number of rows |

The assumptions are those on the constants (`BoundsAssumption`,
`StreamAssumption`, `NoneAssumption`, `PageAssumption`, ...), which TLC evaluates
in every run. Two say that a set is finite: the ids of hosts (`SystemsAssumption`) and the
facts of the memory (`MemoryAssumption`), both texts in columns of SQLite, which
stores none above a gigabyte. Four theorems about `ChatRuns` have the hypothesis
`~ReuseIds`, which selects the behaviours in which no row id comes back; with reuse TLC
finds each of the four properties violated (section 6), so they need it.

- *ChatRuns.* `RunsOnlyOnceApproved` follows from `ApprovalInv`, which ties the
  status of a request to the counter of its executions and to the handler that
  holds it. `OneActiveRun` is not inductive: that a handler starts a turn only
  beside no other needs to know that nothing else is about to become active.
  `Ownership` says that a run is driven by at most one of its task, a handler
  stretch and a request; `Activity` that a run that is driven is not closed
  (`DrivenQuiet`) and that between the checks and the commit of `send_message`
  the chat stays free (`SendClear`), which holds because no other coroutine runs.
  `Reopenable` says which late writers still hold a closed run, and that they
  write nothing active.
- *ChatRuns without reuse of ids.* `FreshInv` has six parts, which need each other and
  are proved together. `Rooted`: ids only grow, so that a message is one run's, a
  run and its message are there as long as their chat, and what `delete_chat` has loaded
  are rows of its chat. `SoleClaim`: all that works in a chat or is going to (an active
  run, a working task, a handler stretch, an open request) is one run's, which is
  why nothing starts beside a pending request. `Attended`: an active run has
  somebody to finish it, only the task of a deleted chat is cancelled while the process is up, and a
  task writes its run before its message. `Answerable`: between its commits
  `_persist_action_approval` has a request for what it is going to make wait.
  `Unfinished`: who is going to write a message finds it not complete. `Written`: a
  pending or streaming message has a run that is still going to write it, because it
  belongs to the chat of its run (`SameChat`), so that only the deletion of that chat
  takes its writer away, and only a stop of the process (`StopsCounted`) takes all of them.
- *AnswerStream.* `InOrder` relates queue, shown and made tokens, `NoHoles` says
  that only a full queue leaves some out, `EndLast` that nothing follows an end,
  and `Settled` what the row says once an end is in the queue.
- *HostTree.* `RemoveEffect` states once what any deletion does to the rows,
  whatever the cascade takes along. The walk of the code is a recursive function, and
  what holds of all its steps is proved by the least step at which it would not
  (`LeastNumber`, from the library's theorem about well-founded relations): a
  walk of any length exists (`WalkExists`), and it does not leave a set of hosts whose
  parents are all in the set (`WalkStays`). It has more steps than there are hosts, so
  on such a set it visits one twice (`CyclesAreFound`), and the request is refused.
- *ChatPage.* Beside the types and `Requests` (loads, streams and decisions are for
  the active chat), `Calm` says how a page without a mishap is organised: a load
  has the page for itself (`LoadAlone`); a question is asked of a chat that is
  free or polled, and while it is on its way the placeholder is shown, or the chat is
  polled, or what is shown is final (`StreamWatched`); the polled chat is the active
  one (`PollsActive`); what was read is still so, or says that a run is active and
  will be asked again (`Fresh`); a pending request that is shown is one
  (`ApprovalShown`); a page that waits for nothing (`Undecided`, no poll, no stream)
  is current and its chat has no active run (`Rested`, `Quiet`). `IInv` is inductive; each action has a step, and
  the harder ones a step per conjunct.

- *KeyStore.* `Shape` says what the handler in `work` holds at each step, `Known` that
  nothing has a key that was not generated, `Copied` what an export has read. Beside
  them each property has its own invariant: `UsableInv` (files before entry before row, and the same of the
  archive), the part for stray files (`FilesListed`, `ArchiveListed`), and `GoneInv`.
- *Accounts.* `CountInv` relates the counter of a row to the streak and to what a login
  that is alone has read (`Knows`), and says that it is the only one (`Only`);
  `MeantInv` says that the one request that may write a row compares it with what is in it
  (`Fresh`); `AdminSafe` what a switch under way has already made sure of, and `AdminHere`
  that the administrator is there while authentication is on, unless no start has
  come to the first account yet (`FirstStart`). `AcceptedRow` and `UpdatedRow` say once what a
  login and an update may do to a row.
- *AgentLoop.* `Kept` says of a call under way who waits for it: the graph that made it,
  or nobody because that has raised or the answer is over. `Tied` says that loop and
  graph go together: a graph that is on is the one the loop reads or invokes, and an
  invoked one returns only when its calls have. `Told` says that what the calls of the streamed graph reported is in the queue
  or has been seen, and that the queue is empty when an attempt is judged.
- *Memory.* The inductive invariant `Inv` says what the kind of a key tells about its row
  (`Keyed`: whatever is written under a key holds the key's facts, and an explicit or
  preferred fact stays one), that no row is from the future, and that nothing runs
  beside maintenance. Maintenance is followed through its three parts: merging
  keeps a row of each group of duplicates (`MergeKeeps`), compacting keeps what is in
  no group, with its place in the order, and leaves a summary of each group
  (`CompactKeeps`, `CompactSummarises`), trimming drops only what the order puts last
  (`TrimKeeps`); a summary that left a fact out is full (`FullText`).

Only model-checked: liveness (`RunSettles`, `MessageSettles`,
`CommandConcludes`, `StreamEndsUnlessLost`, `PageCatchesUp`, `WindsDown`), whose
fairness the provers cannot use because they do not know `ENABLED`. Every
invariant and action property of a passing run has a theorem.

## 6. Findings and known deviations

The findings are the runs that TLC refutes (section 4); `PROJECT.json` quotes the
line of the code or the documentation each one is against. Beside them the models
record what the code does where a reader might expect otherwise.

Chats:

- Shutdown cancels the tasks that are still registered, those included whose
  answer is complete and whose task only lingers for its queue: their runs are
  rewritten from complete to cancelled (`chat.py:109`, `Shutdown`).
- SQLite hands the id of the last deleted row out again; a task or handler of the
  deleted chat can then overwrite a complete message of the new one
  (`chat.py:511`, `chat.py:1308`). `CompleteIsFinal` is therefore checked without
  reuse of ids only, and so are `NoTurnWhilePending`, `AskIsAnswerable`,
  `NothingIsStranded` and the liveness properties, which a late commit of
  `send_message` or a late handler breaks in the same way.
- A turn that is committed while `delete_chat`, in its thread, has loaded the chat
  and not yet committed stays behind without a chat (`chat.py:1118`; `DeleteRead`,
  `DeleteCommit`).
- An approved command may end in an exception: `_execute_approved_command_sync` has a
  `finally` and no `except`, so that a failing disconnection (`ssh_toolkit.py:378`) or
  query (`chat.py:475`) leaves through `chat.py:1293`. The request stays executing, the
  message streaming and the run active with nobody to go on with it, and the chat
  answers 409 until the process is restarted (`ExecuteRaises`). `NothingIsStranded`,
  `RunSettles`, `MessageSettles` and `CommandConcludes` name it, and say that nothing
  else does this.
- A stream does not always end: a task cancelled before its first step, or while
  the memory thread is awaited (`chat.py:938`), puts no end into its queue, and a full
  queue drops the end of any task (`chat.py:959`). `StreamEndsUnlessLost` names both.
  Stream and page look whether the error is a non-empty text (`chat.py:987`): an
  exception without one ends neither. `AnswerStream` leaves this out; on
  the page it is one of the causes of `endLost`.
- A failed write of the finished answer is logged, and the client is told that it
  is done (`chat.py:933`); `EndMatchesRow` excludes such behaviours.
- A form saved after its host was moved, or the parent deleted, sends the old parent
  back (`systems.py:166`).
- A late answer to a poll of the chat that was left ends the polling of the open one
  (`Chat.jsx:668`, `latePoll` below).
- Six mishaps of the chat page (`mishaps` in `ChatPage`): `latePoll`, an answer to
  a poll that was cleared; `lateApproval`, the answer to a decision whose chat
  was left, which replaces the messages on the screen; `crossed`, a load that
  replaces the placeholder of a question on its way, or the reverse;
  `overtaken`, a poll that was read when no run was active and is answered after a
  question or a decision has changed that; `endLost`, a stream whose end was
  dropped; `interrupted`, a request that fails or whose page is left. After one of
  them the page may stay on what is not, or is no longer, so until the chat is
  opened again.
- `overtaken` needs no failure: between the commit of the answer and that of its run
  (`chat.py:905`, `chat.py:955`) the page shows the answer as complete and goes on polling, and
  `handleSend` looks only at messages, the pending request and the stream
  (`Chat.jsx:861`). A poll that is read when the run has just been closed and answered after the
  question was sent puts the old messages back and ends the polling (`Chat.jsx:675`): the
  placeholder for which the stream ends is gone, and nothing asks again.

Keys and backup:

- `remove_ssh_key` removes files and entry before it commits the rows: if the commit
  fails, hosts are left with a key that is gone, and no key to delete them by.
- An index torn by a crash reads as empty (`ssh_key_manager.py:109`), and the
  next save drops every other entry.
- A restore replaces the index: the files of newer keys become unlisted. An archive of
  hosts without keys, or one that was made while a key was deleted, restores hosts
  whose key is not there.

Accounts:

- Of two failures at once one is not counted; a login that saw the lock over, or
  succeeds, removes one that was set meanwhile; a rehash writes back the password that
  was verified over one that was set in between (`auth.py:298`, `auth.py:280` and `auth.py:335`, `auth.py:341`).
- A handler that sets a column to the value it has read does not write it, so
  another handler's change of it stays.
- On a first start with authentication on by default a crash between its two commits
  leaves it on without any account; the next start makes up for it before it serves.
- The administrator can be deactivated, which `AdminStays` does not exclude; tokens
  are not withdrawn when a password or a role changes; `require_admin` is checked
  before authentication is switched on.
- `verify_user` locks after its own default of five failures: `max_failed_attempts` and the
  other settings docs/index.html:1391 lists are stored and not read, and the action
  `Unlock account' (docs/index.html:1367) has no endpoint.

Agent loop:

- With the SQLite checkpointer every asynchronous stream fails at once, so what runs is the
  fallback: `graph.invoke` on the event loop's thread. It does not see failures of calls (no
  retry), and loses requests for approval (the finding).
- An approved action may be executed once more by a later attempt, by the
  fallback, or beside it by the thread the broken stream left: `NobodyLeftBehind`
  excepts the threads of graphs that have raised (`broken`), which nothing stops.
- Failures that were seen before the stream broke cause another attempt even if
  the fallback succeeded; an empty answer of the fallback is replaced by an
  older message of the history; of two requests in one message one is lost.
- A connection older than five minutes is closed under the command that runs on it; the
  probes then report inactive services and empty values as a success.

Memory:

- The keys of what the user asks to remember do not name the host: told again in a chat
  about another host, the record moves there (`manager.py:535`).
- The marker of the maintenance is recalled like a fact, and with an importance of
  1.0 it takes one of the twelve places of most prompts.
- Counts of uses are overwritten by threads that read them earlier, so they may go down; they
  only decide what is compacted and trimmed.
- Trimming takes what the user asked to remember like any other row
  (`maintenance.py:160`); a duplicate with a higher importance may be the one that goes.
- A summary shortens each fact to 220 characters and a group to 1600.

## 7. What is not modelled

- Failing database writes in `ChatRuns`: `_update_run_in_db` and
  `_update_message_in_db` swallow them, and the sessions of the handlers answer
  500; `AnswerStream` has them for the row of the answer. The exceptions of an approved
  command, its query included, are modelled (`ExecuteRaises`).
- `get_chat` is one read of the chat, its messages and its active run, though it makes
  several queries in one thread.
- The restore of chats, messages, accounts and memory by a backup.
- PostgreSQL, whose foreign keys would refuse some of the orphans.
- What a command does, what the model says, titles, logs, usage, display order.
- Of the chat page: deletion of a chat from its own page, and the waits of
  `handleSend` before its post (the save of the host, uploads).
- The session memory of `short_term.py` and the compression of the history
  (`context_manager.py`, whose note never reaches the model); Honcho.
- Tokens, secrets and rate limits; the setup script of a host.
- Every component with the status `not_modelled` in `PROJECT.json`, with its reason.
