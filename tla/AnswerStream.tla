---------------------------- MODULE AnswerStream ----------------------------
(***************************************************************************)
(* The stream of one answer (backend/routers/chat.py): the AI task of a    *)
(* run puts tokens, progress events and one end into the bounded queue of  *)
(* the run, _sse_from_queue sends them to the browser that asked, and the  *)
(* row of the assistant message records the answer.                        *)
(*                                                                         *)
(* ChatRuns has the rows of runs and approvals and every cancellation of a *)
(* task; here is what the browser sees of one of its tasks.                *)
(*                                                                         *)
(* Abstractions.  A token is its number.  A keepalive ping changes         *)
(* nothing.  An approval request found in the text of a finished answer is *)
(* raised like one of a tool call.                                         *)
(***************************************************************************)
EXTENDS Naturals, Sequences

CONSTANTS
  MaxTokens,  \* bound on the tokens of an answer
  Capacity    \* maxsize of the queue (500)

ASSUME StreamAssumption == MaxTokens \in Nat /\ Capacity \in Nat \ {0}

VARIABLES
  stage,    \* where the task is
  made,     \* tokens the agent has produced
  msg,      \* status of the row of the assistant message
  queue,    \* items put and not yet read
  stream,   \* "open", "gone" (client left) or the end that was read
  shown,    \* tokens the client has got
  dropped,  \* history: kinds of items the full queue refused
  mishaps   \* history: "write", a write failed; "silent", a cancelled task
            \* put no end

vars == <<stage, made, msg, queue, stream, shown, dropped, mishaps>>

Ends == {"done", "error", "approval"}
Item == [kind: Ends \cup {"token", "progress"}, n: 0..MaxTokens]

TypeOK ==
  /\ stage \in {"created", "agent", "ingest", "linger", "over"}
  /\ made \in 0..MaxTokens
  /\ msg \in {"pending", "streaming", "complete", "failed", "approval_required", "gone"}
  /\ queue \in Seq(Item) /\ Len(queue) <= Capacity
  /\ stream \in {"open", "gone"} \cup Ends
  /\ shown \in Seq(1..MaxTokens)
  /\ dropped \subseteq Ends \cup {"token", "progress"}
  /\ mishaps \subseteq {"write", "silent"}

\* send_message has committed the placeholder and returned the stream.
Init ==
  /\ stage = "created" /\ made = 0 /\ msg = "pending"
  /\ queue = <<>> /\ stream = "open" /\ shown = <<>>
  /\ dropped = {} /\ mishaps = {}

-----------------------------------------------------------------------------

\* Mutant: the newest item is read first.
PutFront(kind, n) ==
  IF Len(queue) < Capacity
    THEN queue' = <<[kind |-> kind, n |-> n]>> \o queue /\ UNCHANGED dropped
    ELSE dropped' = dropped \cup {kind} /\ UNCHANGED queue

\* Mutant: one item more than fits.
PutOver(kind, n) ==
  IF Len(queue) <= Capacity
    THEN queue' = Append(queue, [kind |-> kind, n |-> n]) /\ UNCHANGED dropped
    ELSE dropped' = dropped \cup {kind} /\ UNCHANGED queue

\* put_nowait; QueueFull is ignored.
Put(kind, n) ==
  IF Len(queue) < Capacity
    THEN queue' = Append(queue, [kind |-> kind, n |-> n]) /\ UNCHANGED dropped
    ELSE dropped' = dropped \cup {kind} /\ UNCHANGED queue

\* _update_message_in_db and the like: a deleted row is not written, and an
\* exception is logged and otherwise ignored.
Write(status) ==
  \/ /\ msg' = IF msg = "gone" THEN "gone" ELSE status
     /\ UNCHANGED mishaps
  \/ /\ UNCHANGED msg
     /\ mishaps' = mishaps \cup {"write"}

Begin ==
  /\ stage = "created"
  /\ stage' = "agent"
  /\ UNCHANGED <<made, msg, queue, stream, shown, dropped, mishaps>>

\* The first token turns the message to streaming.
Token ==
  /\ stage = "agent" /\ made < MaxTokens
  /\ made' = made + 1
  /\ IF made = 0 THEN Write("streaming") ELSE UNCHANGED <<msg, mishaps>>
  /\ Put("token", made + 1)
  /\ UNCHANGED <<stage, stream, shown>>

\* _emit_progress
Progress ==
  /\ stage = "agent"
  /\ Put("progress", 0)
  /\ UNCHANGED <<stage, made, msg, stream, shown, mishaps>>

\* Mutant: the client is told, the message keeps its status.
FailUnsaved ==
  /\ stage = "agent"
  /\ stage' = "over"
  /\ Put("error", 0)
  /\ UNCHANGED <<made, msg, stream, shown, mishaps>>

\* An exception of the agent, or of storing an approval request.
Fail ==
  /\ stage = "agent"
  /\ stage' = "over"
  /\ Write("failed")
  /\ Put("error", 0)
  /\ UNCHANGED <<made, stream, shown>>

\* ApprovalRequired.
Ask ==
  /\ stage = "agent"
  /\ stage' = "over"
  /\ Write("approval_required")
  /\ Put("approval", 0)
  /\ UNCHANGED <<made, stream, shown>>

\* The complete answer is stored, then memory is recorded in a thread.
Finish ==
  /\ stage = "agent"
  /\ stage' = "ingest"
  /\ Write("complete")
  /\ UNCHANGED <<made, queue, stream, shown, dropped>>

\* Mutant: the end is forgotten.
IngestedSilent ==
  /\ stage = "ingest"
  /\ stage' = "linger"
  /\ UNCHANGED <<made, msg, queue, stream, shown, dropped, mishaps>>

Ingested ==
  /\ stage = "ingest"
  /\ stage' = "linger"
  /\ Put("done", 0)
  /\ UNCHANGED <<made, msg, stream, shown, mishaps>>

Linger ==
  /\ stage = "linger"
  /\ stage' = "over"
  /\ UNCHANGED <<made, msg, queue, stream, shown, dropped, mishaps>>

\* CancelledError: only the agent's stretch of the task handles it.
Cancel ==
  /\ stage # "over"
  /\ stage' = "over"
  /\ \/ stage = "agent" /\ Write("failed") /\ Put("error", 0)
     \/ /\ stage \in {"created", "ingest"}
        /\ mishaps' = mishaps \cup {"silent"}
        /\ UNCHANGED <<msg, queue, dropped>>
     \/ stage = "linger" /\ UNCHANGED <<msg, queue, dropped, mishaps>>
  /\ UNCHANGED <<made, stream, shown>>

\* The commit of delete_chat.
DeleteRow ==
  /\ msg # "gone"
  /\ msg' = "gone"
  /\ UNCHANGED <<stage, made, queue, stream, shown, dropped, mishaps>>

-----------------------------------------------------------------------------

\* _sse_from_queue sends the next item and stops after an end.
Read ==
  /\ stream = "open" /\ queue # <<>>
  /\ LET item == Head(queue) IN
     /\ queue' = Tail(queue)
     /\ shown' = IF item.kind = "token" THEN Append(shown, item.n) ELSE shown
     /\ stream' = IF item.kind \in Ends THEN item.kind ELSE stream
  /\ UNCHANGED <<stage, made, msg, dropped, mishaps>>

\* The client disconnects; nobody else reads this queue.
Leave ==
  /\ stream = "open"
  /\ stream' = "gone"
  /\ UNCHANGED <<stage, made, msg, queue, shown, dropped, mishaps>>

Work == Begin \/ Fail \/ Ask \/ Finish \/ Ingested \/ Linger

Next == Work \/ Token \/ Progress \/ Cancel \/ DeleteRow \/ Read \/ Leave

\* The agent ends its loop, and a client that stays reads.
Fairness == WF_vars(Work) /\ WF_vars(Read)

Spec == Init /\ [][Next]_vars /\ Fairness

-----------------------------------------------------------------------------
(* Properties.                                                             *)

\* The client gets tokens in the order the agent made them, and by the end
\* `done' all of them, unless the full queue refused some.
AnswerShown ==
  /\ \A i, j \in 1..Len(shown) : i < j => shown[i] < shown[j]
  /\ stream = "done" /\ "token" \notin dropped => Len(shown) = made

\* chat.py:1394 `Full response persisted in DB regardless of client state': if
\* no write failed, the end the client is shown agrees with the row.  A client
\* that reloads the chat when the stream ends sees what the stream said.
EndMatchesRow ==
  "write" \notin mishaps =>
    /\ stream = "done" => msg \in {"complete", "gone"}
    /\ stream = "error" => msg \in {"failed", "gone"}
    /\ stream = "approval" => msg \in {"approval_required", "gone"}

\* chat.py:715 `5. Sends done/error sentinel to queue': every stream that is
\* read ends, unless its end did not fit into the queue or its task was
\* cancelled where CancelledError is not handled.
StreamEndsUnlessLost ==
  <>(stream # "open" \/ dropped \cap Ends # {} \/ "silent" \in mishaps)

=============================================================================
