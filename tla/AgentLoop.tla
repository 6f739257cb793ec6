----------------------------- MODULE AgentLoop -----------------------------
(***************************************************************************)
(* One autonomous answer of the agent (agent_loader.py,                    *)
(* astream_troubleshoot): up to MaxAttempts passes of a graph that lets    *)
(* the model call tools.  Three parties run side by side:                  *)
(*                                                                         *)
(*  - the loop, which consumes the events of the graph, ends with an       *)
(*    approval request, and judges the failures of a pass when it is over; *)
(*  - the graph (LangGraph, external), which runs ahead of the loop: the   *)
(*    model is asked again when the calls of its last message have         *)
(*    returned, and the events wait in a queue;                            *)
(*  - the calls, each in a thread of its own, that check a command,        *)
(*    connect, execute and disconnect (ssh_toolkit.py).  A thread cannot   *)
(*    be cancelled: when its graph fails or is abandoned it goes on, and   *)
(*    nobody hears its result.                                             *)
(*                                                                         *)
(* A graph whose stream breaks before any text is run once more, in the    *)
(* loop's own thread and without events (graph.invoke).                    *)
(***************************************************************************)
EXTENDS Naturals, Sequences

CONSTANTS
    Calls,        \* slots for the tool calls under way at one time
    Risky,        \* commands (with their host) that need approval
    Plain,        \* commands of ssh_run_command that need none
    Probes,       \* the read-only tools: resources, services, logs, network
    NoCommand,
    MaxAttempts,  \* _MAX_AUTONOMOUS_ATTEMPTS
    MaxRounds     \* bound on the messages with tool calls of one graph run

Commands == Risky \cup Plain \cup Probes

ASSUME CommandsAssumption ==
    /\ NoCommand \notin Commands
    /\ Risky \cap (Plain \cup Probes) = {}

ASSUME LimitsAssumption == MaxAttempts \in Nat \ {0} /\ MaxRounds \in Nat

VARIABLES
    approved,  \* the approved action of this answer (a ContextVar)
    loop,      \* the loop: where it is, its attempt, how it ended, what it saw
    graph,     \* the graph run of the present pass
    events,    \* events of the graph the loop has not consumed
    calls,     \* the threads
    heard,     \* history: what the calls of this attempt reported, to which graph run
    broken     \* history: the graph runs that have raised

vars == <<approved, loop, graph, events, calls, heard, broken>>

Outcomes == {"ok", "failed", "blocker", "approval"}
Ends == {"none", "answered", "blocked", "exhausted", "approval", "error", "cancelled"}

\* The graph run a call belongs to: its attempt and how the graph is driven.
\* The calls of one attempt share a toolkit, in the first run and the second.
Runs == (1 .. MaxAttempts) \X {"stream", "invoke"}

Loop == [at : {"setup", "stream", "invoke", "judge", "over"}, attempt : 1 .. MaxAttempts,
         end : Ends, text : BOOLEAN, seen : SUBSET {"failed", "blocker"}]

Graph == [at : {"off", "on", "ended", "raised"}, mode : {"stream", "invoke"},
          rounds : 0 .. MaxRounds, request : BOOLEAN]

Call == [pc : {"idle", "queued", "running"}, command : Commands \cup {NoCommand},
         conn : {"none", "open", "evicted"}, run : Runs]

Idle == [pc |-> "idle", command |-> NoCommand, conn |-> "none", run |-> <<1, "stream">>]

Silence == [mode \in {"stream", "invoke"} |-> {}]

TypeOK ==
    /\ approved \in Risky \cup {NoCommand}
    /\ loop \in Loop
    /\ graph \in Graph
    /\ events \in Seq(Outcomes \cup {"text"})
    /\ calls \in [Calls -> Call]
    /\ heard \in [{"stream", "invoke"} -> SUBSET Outcomes]
    /\ broken \subseteq Runs

Init ==
    /\ approved \in Risky \cup {NoCommand}
    /\ loop = [at |-> "setup", attempt |-> 1, end |-> "none", text |-> FALSE, seen |-> {}]
    /\ graph = [at |-> "off", mode |-> "stream", rounds |-> 0, request |-> FALSE]
    /\ events = <<>>
    /\ calls = [c \in Calls |-> Idle]
    /\ heard = Silence
    /\ broken = {}

----------------------------------------------------------------------------
(* The graph. *)

Current == <<loop.attempt, graph.mode>>
Live(c) == calls[c].pc # "idle"
Listens(c) == graph.at = "on" /\ calls[c].run = Current
ModelsTurn == graph.at = "on" /\ \A c \in Calls : Live(c) => calls[c].run # Current

\* Text streamed by the model is an event; text of an invoked graph is a
\* message, after which the scan for requests does not look further back.
Say(says) ==
    events' = IF says /\ loop.at = "stream" THEN Append(events, "text") ELSE events

StillAsked(says) == graph.request /\ ~says

\* The model calls tools, at most one per free slot.
ModelCalls ==
    /\ ModelsTurn
    /\ graph.rounds < MaxRounds
    /\ \E says \in BOOLEAN, S \in SUBSET {c \in Calls : ~Live(c)} : \E f \in [S -> Commands] :
          /\ S # {}
          /\ Say(says)
          /\ graph' = [graph EXCEPT !.rounds = @ + 1, !.request = StillAsked(says)]
          /\ calls' = [c \in Calls |->
                IF c \in S THEN [Idle EXCEPT !.pc = "queued", !.command = f[c], !.run = Current]
                           ELSE calls[c]]
    /\ UNCHANGED <<approved, broken, loop, heard>>

ModelAnswers ==
    /\ ModelsTurn
    /\ \E says \in BOOLEAN :
          /\ Say(says)
          /\ graph' = [graph EXCEPT !.at = "ended", !.request = StillAsked(says)]
    /\ UNCHANGED <<approved, broken, loop, calls, heard>>

\* The provider fails, possibly in the middle of its text; the checkpointer
\* has no async methods; or the recursion limit is reached.
ModelFails ==
    /\ ModelsTurn
    /\ \E says \in BOOLEAN : Say(says)
    /\ graph' = [graph EXCEPT !.at = "raised"]
    /\ broken' = broken \cup {Current}
    /\ UNCHANGED <<approved, loop, calls, heard>>

\* An abandoned generator is closed when it is collected.
CloseGraph ==
    /\ loop.at = "over"
    /\ graph.at # "off"
    /\ graph' = [graph EXCEPT !.at = "off"]
    /\ UNCHANGED <<approved, broken, loop, events, calls, heard>>

----------------------------------------------------------------------------
(* The calls. *)

\* A thread ends with a result, which its graph turns into a message and, when
\* it is streamed, into an event, unless graph or loop are gone.
Report(c, out) ==
    /\ IF Listens(c) /\ loop.at # "over"
       THEN /\ events' = IF loop.at = "stream" THEN Append(events, out) ELSE events
            /\ graph' = [graph EXCEPT !.request = @ \/ (out = "approval" /\ loop.at = "invoke")]
            /\ heard' = [heard EXCEPT ![graph.mode] = @ \cup {out}]
       ELSE UNCHANGED <<events, graph, heard>>
    /\ UNCHANGED <<approved, broken, loop>>

Return(c, out) == Report(c, out) /\ calls' = [calls EXCEPT ![c] = Idle]

\* Arguments that do not validate and commands that are blocked.
Reject(c) == calls[c].pc = "queued" /\ Return(c, "failed")

\* The host is not found by its name; that there are none at all is among the
\* reasons no retry helps against.
UnknownHost(c) ==
    /\ calls[c].pc = "queued"
    /\ \E out \in {"failed", "blocker"} : Return(c, out)

NeedsApproval(c) == calls[c].command \in Risky /\ calls[c].command # approved

AskApproval(c) ==
    /\ calls[c].pc = "queued"
    /\ NeedsApproval(c)
    /\ Return(c, "approval")

\* A future that no thread has taken up is cancelled with its graph.
Drop(c) ==
    /\ calls[c].pc = "queued"
    /\ ~Listens(c)
    /\ calls' = [calls EXCEPT ![c] = Idle]
    /\ UNCHANGED <<approved, broken, loop, graph, events, heard>>

\* connect() first closes the connections of its toolkit that are older than
\* five minutes, whether a command is running on them or not.
Stale(c) == {d \in Calls \ {c} : calls[d].conn = "open" /\ calls[d].run[1] = calls[c].run[1]}

Connected(c, stale, result) ==
    [d \in Calls |-> IF d = c THEN result
                     ELSE IF d \in stale THEN [calls[d] EXCEPT !.conn = "evicted"]
                     ELSE calls[d]]

\* From here on the command may take effect, whether it is heard of or not.
Connect(c) ==
    /\ calls[c].pc = "queued"
    /\ ~NeedsApproval(c)
    /\ \E stale \in SUBSET Stale(c) :
          calls' = Connected(c, stale, [calls[c] EXCEPT !.pc = "running", !.conn = "open"])
    /\ UNCHANGED <<approved, broken, loop, graph, events, heard>>

ConnectRefused(c) ==
    /\ calls[c].pc = "queued"
    /\ ~NeedsApproval(c)
    /\ \E out \in {"failed", "blocker"} : Report(c, out)
    /\ \E stale \in SUBSET Stale(c) : calls' = Connected(c, stale, Idle)

\* What a tool answers when its connection was closed under it: a command
\* fails, while a probe reports what it parsed from the empty output.
EvictedResults(c) == IF calls[c].command \in Probes THEN {"ok", "failed"} ELSE {"failed"}

Results(c) == IF calls[c].conn = "open" THEN {"ok", "failed", "blocker"} ELSE EvictedResults(c)

\* The finally clause of every tool disconnects; an entry that was evicted is
\* only logged.
Finish(c) ==
    /\ calls[c].pc = "running"
    /\ \E out \in Results(c) : Return(c, out)

\* disconnect raises, in close() or because the entry goes between the look
\* and the pop: the exception of one tool ends its graph, and the results of
\* the other threads are not heard.
FinishRaises(c) ==
    /\ calls[c].pc = "running"
    /\ calls' = [calls EXCEPT ![c] = Idle]
    /\ IF Listens(c)
       THEN graph' = [graph EXCEPT !.at = "raised"] /\ broken' = broken \cup {Current}
       ELSE UNCHANGED <<graph, broken>>
    /\ UNCHANGED <<approved, loop, events, heard>>

----------------------------------------------------------------------------
(* The loop. *)

\* The generator returns or raises; the events it has not asked for are lost.
Over(end) ==
    /\ loop' = [loop EXCEPT !.at = "over", !.end = end]
    /\ events' = <<>>

StartGraph(mode) ==
    graph' = [at |-> "on", mode |-> mode, rounds |-> 0, request |-> FALSE]

Setup ==
    /\ loop.at = "setup"
    /\ loop' = [loop EXCEPT !.at = "stream", !.text = FALSE, !.seen = {}]
    /\ StartGraph("stream")
    /\ heard' = Silence
    /\ UNCHANGED <<approved, broken, events, calls>>

\* No API key, a rejected query, a database that does not answer.
SetupFails ==
    /\ loop.at = "setup"
    /\ Over("error")
    /\ UNCHANGED <<approved, broken, graph, calls, heard>>

\* Mutant: only the last failure of a pass is remembered.
ConsumeLastFailure ==
    /\ loop.at = "stream"
    /\ events # <<>>
    /\ LET e == Head(events) IN
          IF e = "approval" THEN Over("approval")
          ELSE /\ events' = Tail(events)
               /\ loop' = CASE e = "text"                  -> [loop EXCEPT !.text = TRUE]
                            [] e \in {"failed", "blocker"} -> [loop EXCEPT !.seen = {e}]
                            [] OTHER                       -> loop
    /\ UNCHANGED <<approved, broken, graph, calls, heard>>

Consume ==
    /\ loop.at = "stream"
    /\ events # <<>>
    /\ LET e == Head(events) IN
          IF e = "approval" THEN Over("approval")
          ELSE /\ events' = Tail(events)
               /\ loop' = CASE e = "text"                  -> [loop EXCEPT !.text = TRUE]
                            [] e \in {"failed", "blocker"} -> [loop EXCEPT !.seen = @ \cup {e}]
                            [] OTHER                       -> loop
    /\ UNCHANGED <<approved, broken, graph, calls, heard>>

\* Mutant: when text has come and nothing waits, the pass is taken for over.
StreamEndsOnText ==
    /\ loop.at = "stream" /\ events = <<>>
    /\ graph.at = "ended" \/ loop.text
    /\ loop' = [loop EXCEPT !.at = "judge"]
    /\ UNCHANGED <<approved, broken, graph, events, calls, heard>>

StreamEnds ==
    /\ loop.at = "stream" /\ events = <<>>
    /\ \/ graph.at = "ended"
       \/ graph.at = "raised" /\ loop.text
    /\ loop' = [loop EXCEPT !.at = "judge"]
    /\ UNCHANGED <<approved, broken, graph, events, calls, heard>>

\* Mutant: a stream that breaks is streamed again.
FallBackToStream ==
    /\ loop.at = "stream" /\ events = <<>>
    /\ graph.at = "raised" /\ ~loop.text
    /\ StartGraph("stream")
    /\ UNCHANGED <<approved, broken, loop, events, calls, heard>>

\* Nothing was streamed: the same messages again, without events.
FallBack ==
    /\ loop.at = "stream" /\ events = <<>>
    /\ graph.at = "raised" /\ ~loop.text
    /\ loop' = [loop EXCEPT !.at = "invoke"]
    /\ StartGraph("invoke")
    /\ UNCHANGED <<approved, broken, events, calls, heard>>

InvokeReturns ==
    /\ loop.at = "invoke"
    /\ graph.at = "ended"
    /\ \/ graph.request /\ Over("approval")
       \/ ~graph.request /\ loop' = [loop EXCEPT !.at = "judge"] /\ UNCHANGED events
    /\ UNCHANGED <<approved, broken, graph, calls, heard>>

\* An invoked graph waits for its threads before it raises.
InvokeFails ==
    /\ loop.at = "invoke"
    /\ graph.at = "raised"
    /\ \A c \in Calls : Live(c) => calls[c].run # Current
    /\ Over("error")
    /\ UNCHANGED <<approved, broken, graph, calls, heard>>

\* Mutant: the last attempt is retried as well.
JudgeOnceMore ==
    /\ loop.at = "judge"
    /\ CASE "blocker" \in loop.seen        -> Over("blocked")
         [] loop.seen = {}                 -> Over("answered")
         [] loop.seen = {"failed"} /\ loop.attempt > MaxAttempts -> Over("exhausted")
         [] OTHER -> /\ loop' = [loop EXCEPT !.at = "setup", !.attempt = @ + 1]
                     /\ UNCHANGED events
    /\ UNCHANGED <<approved, broken, graph, calls, heard>>

Judge ==
    /\ loop.at = "judge"
    /\ CASE "blocker" \in loop.seen        -> Over("blocked")
         [] loop.seen = {}                 -> Over("answered")
         [] loop.seen = {"failed"} /\ loop.attempt >= MaxAttempts -> Over("exhausted")
         [] OTHER -> /\ loop' = [loop EXCEPT !.at = "setup", !.attempt = @ + 1]
                     /\ UNCHANGED events
    /\ UNCHANGED <<approved, broken, graph, calls, heard>>

\* The task is cancelled while it awaits an event; an invoked graph and the
\* judgement leave the event loop no chance to.
Cancel ==
    /\ loop.at = "stream"
    /\ Over("cancelled")
    /\ UNCHANGED <<approved, broken, graph, calls, heard>>

----------------------------------------------------------------------------
LoopStep ==
    \/ Setup \/ SetupFails \/ Consume \/ StreamEnds \/ FallBack
    \/ InvokeReturns \/ InvokeFails \/ Judge

GraphStep == ModelCalls \/ ModelAnswers \/ ModelFails \/ CloseGraph

CallStep(c) ==
    \/ Reject(c) \/ UnknownHost(c) \/ AskApproval(c) \/ Drop(c)
    \/ Connect(c) \/ ConnectRefused(c) \/ Finish(c) \/ FinishRaises(c)

Next == LoopStep \/ Cancel \/ GraphStep \/ \E c \in Calls : CallStep(c)

\* The loop and the threads run; the model answers or times out; paramiko
\* gives up on a host that does not answer.  Nobody has to cancel.
Fairness ==
    /\ WF_vars(LoopStep)
    /\ WF_vars(GraphStep)
    /\ \A c \in Calls : WF_vars(CallStep(c))

Spec == Init /\ [][Next]_vars /\ Fairness
----------------------------------------------------------------------------
(* Properties. *)

\* A call under way is one that its graph waits for, unless that graph has
\* raised, or the answer has ended with a request or a cancellation: no pass is
\* judged, repeated, replaced by an invoked graph or answered over calls whose
\* results could still have been heard, and an invoked graph leaves no call
\* behind, whatever its end (astream_troubleshoot, and its tools in threads).
NobodyLeftBehind ==
    \A c \in Calls : Live(c) =>
        /\ \/ calls[c].run \in broken
           \/ calls[c].run = Current /\ graph.at = "on" /\ loop.at \in {"stream", "invoke"}
           \/ calls[c].run = Current /\ loop.end \in {"approval", "cancelled"}
        /\ calls[c].run[2] = "invoke" => loop.at = "invoke"

\* The end the loop reports is the one its streamed calls call for: it is an
\* answer only if none of them failed or asked, a retry and an exhausted
\* budget follow failures a retry may help against, and nothing else, and a
\* blocker or a request is there when it is reported (astream_troubleshoot).
LoopIsExplained ==
    [][ /\ loop'.end # loop.end =>
              LET said == heard.stream IN
              CASE loop'.end = "answered"  -> said \subseteq {"ok"}
                [] loop'.end = "blocked"   -> "blocker" \in said /\ "approval" \notin said
                [] loop'.end = "exhausted" -> /\ "failed" \in said /\ said \subseteq {"ok", "failed"}
                                              /\ loop.attempt = MaxAttempts
                [] loop'.end = "approval"  -> "approval" \in said \cup heard.invoke
                [] OTHER -> TRUE
        /\ loop'.attempt # loop.attempt =>
              "failed" \in heard.stream /\ heard.stream \subseteq {"ok", "failed"} ]_vars

\* However streams break, connections are evicted and threads are left
\* behind, the loop ends, and every thread ends and leaves no connection.
WindsDown == <>[](loop.at = "over" /\ \A c \in Calls : ~Live(c) /\ calls[c].conn = "none")

\* Claim of the docstring of astream_troubleshoot, that the loop continues
\* `until completion, approval, or a real blocker': an answer is not the end
\* of an attempt in which a call asked for approval.
RequestsAreRaised ==
    loop.end = "answered" => "approval" \notin heard.stream \cup heard.invoke
=============================================================================
