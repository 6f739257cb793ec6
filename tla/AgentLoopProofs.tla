-------------------------- MODULE AgentLoopProofs --------------------------
(***************************************************************************)
(* Proofs about AgentLoop, for any commands, threads and limits.  That the *)
(* loop explains its end rests on the queue between graph and loop:        *)
(* whatever a call reported to the streamed graph waits in the queue or    *)
(* was seen, and the queue is empty when a pass is judged (Told).          *)
(***************************************************************************)
EXTENDS AgentLoop, TLAPS

Queue(s) == {s[i] : i \in 1 .. Len(s)}

\* A result put into the queue is the only one added.
LEMMA QueueAppend ==
    ASSUME NEW S, NEW s \in Seq(S), NEW e \in S
    PROVE  Append(s, e) \in Seq(S) /\ Queue(Append(s, e)) = Queue(s) \cup {e}
<1>1. Append(s, e) \in Seq(S) /\ Len(Append(s, e)) = Len(s) + 1 /\ Len(s) \in Nat
  OBVIOUS
<1>2. \A i \in 1 .. Len(s) : Append(s, e)[i] = s[i]
  OBVIOUS
<1>3. Append(s, e)[Len(s) + 1] = e
  OBVIOUS
<1> QED  BY <1>1, <1>2, <1>3 DEF Queue

\* Taking the head leaves the others.
LEMMA QueueTail ==
    ASSUME NEW S, NEW s \in Seq(S), s # <<>>
    PROVE  /\ Head(s) \in S /\ Tail(s) \in Seq(S)
           /\ Queue(s) = {Head(s)} \cup Queue(Tail(s))
<1>1. Head(s) = s[1] /\ Head(s) \in S /\ Tail(s) \in Seq(S) /\ Len(Tail(s)) = Len(s) - 1
      /\ Len(s) \in Nat \ {0}
  OBVIOUS
<1>2. \A i \in 1 .. Len(s) - 1 : Tail(s)[i] = s[i + 1]
  OBVIOUS
<1>3. \A i \in 1 .. Len(s) : i = 1 \/ i - 1 \in 1 .. Len(s) - 1
  BY <1>1
<1>4. ASSUME NEW x \in Queue(s) PROVE x \in {Head(s)} \cup Queue(Tail(s))
  <2>1. PICK i \in 1 .. Len(s) : x = s[i]
    BY <1>4 DEF Queue
  <2>2. CASE i = 1
    BY <2>1, <2>2, <1>1
  <2>3. CASE i # 1
    <3>1. i - 1 \in 1 .. Len(Tail(s)) /\ Tail(s)[i - 1] = s[i]
      BY <1>1, <1>2, <1>3, <2>3
    <3> QED  BY <3>1, <2>1 DEF Queue
  <2> QED  BY <2>2, <2>3
<1>5. ASSUME NEW x \in Queue(Tail(s)) PROVE x \in Queue(s)
  <2>1. PICK i \in 1 .. Len(s) - 1 : x = s[i + 1]
    BY <1>1, <1>2, <1>5 DEF Queue
  <2>2. i + 1 \in 1 .. Len(s)
    BY <1>1
  <2> QED  BY <2>1, <2>2 DEF Queue
<1>6. Head(s) \in Queue(s)
  BY <1>1 DEF Queue
<1> QED  BY <1>1, <1>4, <1>5, <1>6

LEMMA NothingQueued == Queue(<<>>) = {}
  BY DEF Queue

----------------------------------------------------------------------------
(* Type correctness. *)

Items == Outcomes \cup {"text"}

LEMMA IdleType == Idle \in Call
<1>1. <<1, "stream">> \in Runs
  BY LimitsAssumption DEF Runs
<1> QED  BY <1>1 DEF Idle, Call

LEMMA CurrentType ==
    ASSUME TypeOK
    PROVE  Current \in Runs
  BY DEF TypeOK, Loop, Graph, Current, Runs

\* What a thread reports keeps the types of queue, graph and history.
LEMMA ReportType ==
    ASSUME TypeOK, NEW c \in Calls, NEW out \in Outcomes, Report(c, out)
    PROVE  /\ events' \in Seq(Items) /\ graph' \in Graph
           /\ heard' \in [{"stream", "invoke"} -> SUBSET Outcomes]
           /\ approved' = approved /\ loop' = loop /\ broken' = broken
<1>1. Append(events, out) \in Seq(Items)
  BY QueueAppend DEF TypeOK, Items
<1>2. [graph EXCEPT !.request = @ \/ (out = "approval" /\ loop.at = "invoke")] \in Graph
  <2> DEFINE r == graph.request \/ (out = "approval" /\ loop.at = "invoke")
  <2>1. r \in BOOLEAN
    BY DEF TypeOK, Graph
  <2> HIDE DEF r
  <2>2. [graph EXCEPT !.request = r] \in Graph
    BY <2>1 DEF TypeOK, Graph
  <2> QED  BY <2>2 DEF r
<1>3. [heard EXCEPT ![graph.mode] = @ \cup {out}] \in [{"stream", "invoke"} -> SUBSET Outcomes]
  BY DEF TypeOK, Graph
<1> QED  BY <1>1, <1>2, <1>3 DEF Report, TypeOK, Items

\* Ending the loop keeps the types, as long as the rest does.
LEMMA OverType ==
    ASSUME TypeOK, NEW end \in Ends, Over(end)
    PROVE  loop' \in Loop /\ events' \in Seq(Items)
           /\ loop'.at = "over" /\ loop'.end = end /\ loop'.attempt = loop.attempt
<1>1. loop' = [loop EXCEPT !.at = "over", !.end = end]
  BY DEF Over
<1>2. loop' \in Loop
  BY <1>1 DEF TypeOK, Loop
<1>3. loop'.at = "over" /\ loop'.end = end /\ loop'.attempt = loop.attempt
  BY <1>1 DEF TypeOK, Loop
<1>4. events' \in Seq(Items)
  BY DEF Over
<1> QED  BY <1>2, <1>3, <1>4

LEMMA SayType ==
    ASSUME TypeOK, NEW says \in BOOLEAN, Say(says)
    PROVE  events' \in Seq(Items)
  BY QueueAppend DEF Say, TypeOK, Items

LEMMA StartType ==
    ASSUME NEW mode \in {"stream", "invoke"}, StartGraph(mode)
    PROVE  graph' \in Graph
<1>1. 0 \in 0 .. MaxRounds
  BY LimitsAssumption
<1> QED  BY <1>1 DEF StartGraph, Graph

LEMMA StillType ==
    ASSUME TypeOK, NEW says \in BOOLEAN
    PROVE  StillAsked(says) \in BOOLEAN
  BY DEF StillAsked, TypeOK, Graph

\* A function on the threads whose values are calls.
LEMMA ConnectedType ==
    ASSUME TypeOK, NEW c \in Calls, NEW stale \in SUBSET Stale(c), NEW result \in Call
    PROVE  Connected(c, stale, result) \in [Calls -> Call]
<1>1. ASSUME NEW d \in Calls PROVE [calls[d] EXCEPT !.conn = "evicted"] \in Call
  BY DEF TypeOK, Call
<1> QED  BY <1>1 DEF Connected, TypeOK

LEMMA TypeStep ==
    ASSUME TypeOK, [Next]_vars
    PROVE  TypeOK'
<1> USE DEF Items
<1>1. CASE UNCHANGED vars
  BY <1>1 DEF vars, TypeOK
<1>2. CASE LoopStep \/ Cancel
  <2>1. CASE Setup
    <3>1. loop' \in Loop
      BY <2>1 DEF Setup, TypeOK, Loop
    <3>2. graph' \in Graph
      BY <2>1, StartType DEF Setup
    <3>3. heard' \in [{"stream", "invoke"} -> SUBSET Outcomes]
      BY <2>1 DEF Setup, Silence
    <3> QED  BY <2>1, <3>1, <3>2, <3>3 DEF Setup, TypeOK
  <2>2. CASE SetupFails \/ Cancel
    BY <2>2, OverType DEF SetupFails, Cancel, Ends, TypeOK
  <2>3. CASE Consume
    <3>1. CASE Over("approval")
      BY <2>3, <3>1, OverType DEF Consume, Ends, TypeOK
    <3>2. CASE ~Over("approval")
      <4>1. events' = Tail(events) /\ events # <<>>
        BY <2>3, <3>2 DEF Consume
      <4>2. events' \in Seq(Items)
        BY <4>1, QueueTail DEF TypeOK
      <4>3. \/ loop' = [loop EXCEPT !.text = TRUE]
            \/ \E e \in {"failed", "blocker"} : loop' = [loop EXCEPT !.seen = @ \cup {e}]
            \/ loop' = loop
        BY <2>3, <3>2 DEF Consume
      <4>4. loop' \in Loop
        <5>1. CASE loop' = [loop EXCEPT !.text = TRUE]
          BY <5>1 DEF TypeOK, Loop
        <5>2. ASSUME NEW e \in {"failed", "blocker"}, loop' = [loop EXCEPT !.seen = @ \cup {e}]
              PROVE  loop' \in Loop
          BY <5>2 DEF TypeOK, Loop
        <5> QED  BY <4>3, <5>1, <5>2 DEF TypeOK
      <4> QED  BY <2>3, <4>2, <4>4 DEF Consume, TypeOK
    <3> QED  BY <3>1, <3>2
  <2>4. CASE StreamEnds
    BY <2>4 DEF StreamEnds, TypeOK, Loop
  <2>5. CASE FallBack
    <3>1. loop' \in Loop
      BY <2>5 DEF FallBack, TypeOK, Loop
    <3>2. graph' \in Graph
      BY <2>5, StartType DEF FallBack
    <3> QED  BY <2>5, <3>1, <3>2 DEF FallBack, TypeOK
  <2>6. CASE InvokeReturns \/ InvokeFails
    <3>1. CASE \E end \in Ends : Over(end)
      BY <2>6, <3>1, OverType DEF InvokeReturns, InvokeFails, TypeOK
    <3>2. CASE loop' = [loop EXCEPT !.at = "judge"] /\ UNCHANGED events
      <4>1. loop' \in Loop
        BY <3>2 DEF TypeOK, Loop
      <4> QED  BY <2>6, <3>2, <4>1 DEF InvokeReturns, InvokeFails, TypeOK
    <3> QED  BY <2>6, <3>1, <3>2 DEF InvokeReturns, InvokeFails, Ends
  <2>7. CASE Judge
    <3>1. CASE /\ loop' = [loop EXCEPT !.at = "setup", !.attempt = @ + 1] /\ UNCHANGED events
               /\ ~(loop.seen = {"failed"} /\ loop.attempt >= MaxAttempts)
               /\ "blocker" \notin loop.seen /\ loop.seen # {}
      <4>1. loop.seen = {"failed"}
        BY <3>1 DEF TypeOK, Loop
      <4>2. loop.attempt + 1 \in 1 .. MaxAttempts
        BY <3>1, <4>1, LimitsAssumption DEF TypeOK, Loop
      <4>3. loop' \in Loop
        BY <3>1, <4>2 DEF TypeOK, Loop
      <4> QED  BY <2>7, <3>1, <4>3 DEF Judge, TypeOK
    <3>2. CASE \E end \in Ends : Over(end)
      BY <2>7, <3>2, OverType DEF Judge, TypeOK
    <3> QED  BY <2>7, <3>1, <3>2 DEF Judge, Ends
  <2> QED  BY <1>2, <2>1, <2>2, <2>3, <2>4, <2>5, <2>6, <2>7 DEF LoopStep
<1>3. CASE GraphStep
  <2>1. CASE ModelCalls
    <3>1. PICK says \in BOOLEAN, S \in SUBSET {c \in Calls : ~Live(c)} : \E f \in [S -> Commands] :
            /\ S # {}
            /\ Say(says)
            /\ graph' = [graph EXCEPT !.rounds = @ + 1, !.request = StillAsked(says)]
            /\ calls' = [c \in Calls |->
                 IF c \in S THEN [Idle EXCEPT !.pc = "queued", !.command = f[c], !.run = Current]
                            ELSE calls[c]]
      BY <2>1 DEF ModelCalls
    <3>2. PICK f \in [S -> Commands] :
            /\ S # {}
            /\ Say(says)
            /\ graph' = [graph EXCEPT !.rounds = @ + 1, !.request = StillAsked(says)]
            /\ calls' = [c \in Calls |->
                 IF c \in S THEN [Idle EXCEPT !.pc = "queued", !.command = f[c], !.run = Current]
                            ELSE calls[c]]
      BY <3>1
    <3>3. ASSUME NEW c \in S
          PROVE  [Idle EXCEPT !.pc = "queued", !.command = f[c], !.run = Current] \in Call
      BY IdleType, CurrentType DEF Call
    <3>4. calls' \in [Calls -> Call]
      BY <3>2, <3>3 DEF TypeOK
    <3>5. graph' \in Graph
      <4> DEFINE r == StillAsked(says)
      <4>1. r \in BOOLEAN
        BY StillType
      <4>2. graph.rounds + 1 \in 0 .. MaxRounds
        <5>1. graph.rounds \in 0 .. MaxRounds /\ graph.rounds < MaxRounds
          BY <2>1 DEF ModelCalls, TypeOK, Graph
        <5> QED  BY <5>1, LimitsAssumption
      <4> HIDE DEF r
      <4>3. [graph EXCEPT !.rounds = @ + 1, !.request = r] \in Graph
        BY <4>1, <4>2 DEF TypeOK, Graph
      <4> QED  BY <3>2, <4>3 DEF r
    <3> QED  BY <2>1, <3>2, <3>4, <3>5, SayType DEF ModelCalls, TypeOK
  <2>2. CASE ModelAnswers
    <3>1. PICK says \in BOOLEAN : Say(says) /\ graph' = [graph EXCEPT !.at = "ended", !.request = StillAsked(says)]
      BY <2>2 DEF ModelAnswers
    <3>2. graph' \in Graph
      <4> DEFINE r == StillAsked(says)
      <4>1. r \in BOOLEAN
        BY StillType
      <4> HIDE DEF r
      <4>2. [graph EXCEPT !.at = "ended", !.request = r] \in Graph
        BY <4>1 DEF TypeOK, Graph
      <4> QED  BY <3>1, <4>2 DEF r
    <3> QED  BY <2>2, <3>1, <3>2, SayType DEF ModelAnswers, TypeOK
  <2>3. CASE ModelFails
    <3>1. graph' \in Graph
      BY <2>3 DEF ModelFails, TypeOK, Graph
    <3>2. events' \in Seq(Items)
      BY <2>3, SayType DEF ModelFails
    <3>3. broken' \subseteq Runs
      BY <2>3, CurrentType DEF ModelFails, TypeOK
    <3> QED  BY <2>3, <3>1, <3>2, <3>3 DEF ModelFails, TypeOK
  <2>4. CASE CloseGraph
    BY <2>4 DEF CloseGraph, TypeOK, Graph
  <2> QED  BY <1>3, <2>1, <2>2, <2>3, <2>4 DEF GraphStep
<1>4. ASSUME NEW c \in Calls, CallStep(c) PROVE TypeOK'
  <2>0. [calls EXCEPT ![c] = Idle] \in [Calls -> Call]
    BY IdleType DEF TypeOK
  <2>1. ASSUME NEW out \in Outcomes, Return(c, out) PROVE TypeOK'
    BY <2>0, <2>1, ReportType DEF Return, TypeOK
  <2>2. CASE Reject(c) \/ UnknownHost(c) \/ AskApproval(c) \/ Finish(c)
    BY <2>1, <2>2 DEF Reject, UnknownHost, AskApproval, Finish, Results, EvictedResults, Outcomes
  <2>3. CASE Drop(c)
    BY <2>0, <2>3 DEF Drop, TypeOK
  <2>4. CASE Connect(c)
    <3>1. [calls[c] EXCEPT !.pc = "running", !.conn = "open"] \in Call
      BY DEF TypeOK, Call
    <3>2. calls' \in [Calls -> Call]
      BY <2>4, <3>1, ConnectedType DEF Connect
    <3> QED  BY <2>4, <3>2 DEF Connect, TypeOK
  <2>5. CASE ConnectRefused(c)
    <3>1. calls' \in [Calls -> Call]
      BY <2>5, IdleType, ConnectedType DEF ConnectRefused
    <3>2. PICK out \in {"failed", "blocker"} : Report(c, out)
      BY <2>5 DEF ConnectRefused
    <3> QED  BY <3>1, <3>2, ReportType DEF TypeOK, Outcomes
  <2>6. CASE FinishRaises(c)
    <3>1. broken' \subseteq Runs
      BY <2>6, CurrentType DEF FinishRaises, TypeOK
    <3> QED  BY <2>0, <2>6, <3>1 DEF FinishRaises, TypeOK, Graph
  <2> QED  BY <1>4, <2>2, <2>3, <2>4, <2>5, <2>6 DEF CallStep
<1> QED  BY <1>1, <1>2, <1>3, <1>4 DEF Next

\* The types of AgentLoop: in particular there are never more attempts than
\* the limit (astream_troubleshoot).
THEOREM TypeCorrect == Spec => []TypeOK
<1>1. Init => TypeOK
  BY IdleType, LimitsAssumption
     DEF Init, TypeOK, Loop, Graph, Ends, Silence, Items
<1> QED  BY <1>1, TypeStep, PTL DEF Spec

----------------------------------------------------------------------------
(* Which calls are under way. *)

\* A call is heard, or it is excused.
Kept(c) == Live(c) =>
    /\ \/ calls[c].run \in broken
       \/ calls[c].run = Current /\ graph.at = "on" /\ loop.at \in {"stream", "invoke"}
       \/ calls[c].run = Current /\ loop.end \in {"approval", "cancelled"}
    /\ calls[c].run[2] = "invoke" => loop.at = "invoke" /\ calls[c].run = Current

\* Loop and graph go together; an invoked graph returns when its calls have.
Tied ==
    /\ loop.at # "over" => loop.end = "none"
    /\ loop.at \in {"stream", "invoke"} => graph.mode = loop.at
    /\ graph.at = "on" => \/ loop.at \in {"stream", "invoke"}
                          \/ graph.mode = "stream" /\ loop.end \in {"approval", "cancelled"}
    /\ loop.at = "invoke" /\ graph.at = "ended" => \A c \in Calls : Live(c) => calls[c].run # Current

KeptInv == Tied /\ \A c \in Calls : Kept(c)

\* A step of a call starts no other.
LEMMA CallFrame ==
    ASSUME TypeOK, NEW c \in Calls, CallStep(c)
    PROVE  \A d \in Calls : Live(d)' => Live(d) /\ calls'[d].run = calls[d].run
<1> SUFFICES ASSUME NEW d \in Calls, Live(d)'
             PROVE  Live(d) /\ calls'[d].run = calls[d].run
  OBVIOUS
<1>1. CASE calls' = [calls EXCEPT ![c] = Idle]
  <2>1. d # c
    BY <1>1 DEF TypeOK, Live, Idle
  <2> QED  BY <1>1, <2>1 DEF TypeOK, Live
<1>2. ASSUME NEW stale \in SUBSET Stale(c), NEW result, calls' = Connected(c, stale, result), d # c
      PROVE  Live(d) /\ calls'[d].run = calls[d].run
  <2>1. calls'[d] = calls[d] \/ calls'[d] = [calls[d] EXCEPT !.conn = "evicted"]
    BY <1>2 DEF Connected
  <2>2. calls[d] \in Call
    BY DEF TypeOK
  <2> QED  BY <2>1, <2>2 DEF Live, Call
<1>3. CASE Connect(c)
  <2>1. PICK stale \in SUBSET Stale(c) :
          calls' = Connected(c, stale, [calls[c] EXCEPT !.pc = "running", !.conn = "open"])
    BY <1>3 DEF Connect
  <2>2. CASE d = c
    <3>1. calls'[d] = [calls[d] EXCEPT !.pc = "running", !.conn = "open"] /\ calls[d].pc = "queued"
      BY <1>3, <2>1, <2>2 DEF Connect, Connected
    <3>2. calls[d] \in Call
      BY DEF TypeOK
    <3> QED  BY <3>1, <3>2 DEF Live, Call
  <2> QED  BY <1>2, <2>1, <2>2
<1>4. CASE ConnectRefused(c)
  <2>1. PICK stale \in SUBSET Stale(c) : calls' = Connected(c, stale, Idle)
    BY <1>4 DEF ConnectRefused
  <2>2. d # c
    BY <2>1 DEF Connected, Live, Idle
  <2> QED  BY <1>2, <2>1, <2>2
<1> QED
  BY <1>1, <1>3, <1>4 DEF CallStep, Reject, UnknownHost, AskApproval, Drop, Finish, FinishRaises, Return

\* What a call reports moves neither loop nor graph.
LEMMA ReportFrame ==
    ASSUME TypeOK, NEW c \in Calls, CallStep(c), ~FinishRaises(c)
    PROVE  loop' = loop /\ broken' = broken /\ graph'.at = graph.at /\ graph'.mode = graph.mode
<1>1. ASSUME NEW out, Report(c, out)
      PROVE  loop' = loop /\ broken' = broken /\ graph'.at = graph.at /\ graph'.mode = graph.mode
  <2>1. graph' = graph \/ \E b : graph' = [graph EXCEPT !.request = b]
    BY <1>1 DEF Report
  <2>2. graph'.at = graph.at /\ graph'.mode = graph.mode
    BY <2>1 DEF TypeOK, Graph
  <2> QED  BY <1>1, <2>2 DEF Report
<1> QED
  BY <1>1 DEF CallStep, Reject, UnknownHost, AskApproval, Drop, Connect, ConnectRefused, Finish, Return

LEMMA TiedStep ==
    ASSUME TypeOK, KeptInv, [Next]_vars
    PROVE  Tied'
<1> USE DEF KeptInv
<1>1. CASE UNCHANGED vars
  BY <1>1 DEF vars, Tied, Live, Current
<1>2. CASE LoopStep \/ Cancel
  <2>1. CASE Setup
    BY <2>1 DEF Setup, StartGraph, Tied, TypeOK, Loop
  <2>2. CASE SetupFails
    BY <2>2 DEF SetupFails, Over, Tied, TypeOK, Loop
  <2>3. CASE Cancel
    BY <2>3 DEF Cancel, Over, Tied, TypeOK, Loop
  <2>4. CASE Consume
    <3>1. CASE Over("approval")
      BY <2>4, <3>1 DEF Consume, Over, Tied, TypeOK, Loop
    <3>2. CASE ~Over("approval")
      <4>1. loop'.at = loop.at /\ loop'.end = loop.end /\ loop'.attempt = loop.attempt
        BY <2>4, <3>2 DEF Consume, TypeOK, Loop
      <4> QED  BY <2>4, <4>1 DEF Consume, Tied
    <3> QED  BY <3>1, <3>2
  <2>5. CASE StreamEnds
    BY <2>5 DEF StreamEnds, Tied, TypeOK, Loop
  <2>6. CASE FallBack
    BY <2>6 DEF FallBack, StartGraph, Tied, TypeOK, Loop
  <2>7. CASE InvokeReturns
    BY <2>7 DEF InvokeReturns, Over, Tied, TypeOK, Loop
  <2>8. CASE InvokeFails
    BY <2>8 DEF InvokeFails, Over, Tied, TypeOK, Loop
  <2>9. CASE Judge
    <3>1. graph' = graph /\ calls' = calls /\ loop'.at \in {"setup", "over"} /\ graph.at # "on"
          /\ (loop'.at = "setup" => loop'.end = "none")
      BY <2>9 DEF Judge, Over, Tied, TypeOK, Loop
    <3> QED  BY <3>1 DEF Tied
  <2> QED  BY <1>2, <2>1, <2>2, <2>3, <2>4, <2>5, <2>6, <2>7, <2>8, <2>9 DEF LoopStep
<1>3. CASE GraphStep
  <2>1. CASE ModelCalls
    <3>1. loop' = loop /\ graph'.at = "on" /\ graph.at = "on" /\ graph'.mode = graph.mode
      BY <2>1 DEF ModelCalls, ModelsTurn, TypeOK, Graph
    <3> QED  BY <3>1 DEF Tied
  <2>2. CASE ModelAnswers
    <3>1. /\ loop' = loop /\ graph'.at = "ended" /\ graph'.mode = graph.mode /\ calls' = calls
          /\ \A c \in Calls : Live(c) => calls[c].run # Current
      BY <2>2 DEF ModelAnswers, ModelsTurn, TypeOK, Graph
    <3> QED  BY <3>1 DEF Tied, Live, Current
  <2>3. CASE ModelFails
    <3>1. loop' = loop /\ graph'.at = "raised" /\ graph'.mode = graph.mode
      BY <2>3 DEF ModelFails, TypeOK, Graph
    <3> QED  BY <3>1 DEF Tied
  <2>4. CASE CloseGraph
    <3>1. loop' = loop /\ graph'.at = "off" /\ loop.at = "over"
      BY <2>4 DEF CloseGraph, TypeOK, Graph
    <3> QED  BY <3>1 DEF Tied
  <2> QED  BY <1>3, <2>1, <2>2, <2>3, <2>4 DEF GraphStep
<1>4. ASSUME NEW c \in Calls, CallStep(c) PROVE Tied'
  <2>1. CASE FinishRaises(c)
    <3>1. /\ loop' = loop /\ graph'.mode = graph.mode
          /\ graph'.at = "raised" \/ graph'.at = graph.at
      BY <2>1 DEF FinishRaises, TypeOK, Graph
    <3> QED  BY <1>4, <3>1, CallFrame DEF Tied, Current
  <2>2. CASE ~FinishRaises(c)
    BY <1>4, <2>2, CallFrame, ReportFrame DEF Tied, Current
  <2> QED  BY <2>1, <2>2
<1> QED  BY <1>1, <1>2, <1>3, <1>4 DEF Next

LEMMA KeptStep ==
    ASSUME TypeOK, KeptInv, [Next]_vars, NEW d \in Calls
    PROVE  Kept(d)'
<1> USE DEF KeptInv
<1>0. Kept(d)
  OBVIOUS
<1>1. CASE UNCHANGED vars
  BY <1>1 DEF vars, Kept, Live, Current
<1>2. CASE LoopStep \/ Cancel
  <2>0. calls' = calls /\ broken' = broken
    BY <1>2 DEF LoopStep, Setup, SetupFails, Consume, StreamEnds, FallBack, InvokeReturns, InvokeFails,
                Judge, Cancel
  <2>1. CASE Live(d) => calls[d].run \in broken /\ calls[d].run[2] # "invoke"
    BY <2>0, <2>1 DEF Kept, Live
  <2>2. CASE Setup \/ SetupFails \/ StreamEnds \/ FallBack \/ InvokeReturns \/ InvokeFails \/ Judge
    BY <1>0, <2>1, <2>2
       DEF Setup, SetupFails, StreamEnds, FallBack, InvokeReturns, InvokeFails, Judge, Kept, Tied, TypeOK, Loop, Graph
  <2>3. CASE Cancel \/ (Consume /\ Over("approval"))
    <3>1. /\ loop.at = "stream" /\ loop.end = "none" /\ graph' = graph
          /\ loop'.end \in {"approval", "cancelled"} /\ loop'.attempt = loop.attempt
      BY <2>3 DEF Cancel, Consume, Over, Tied, TypeOK, Loop
    <3> QED  BY <1>0, <2>0, <3>1 DEF Kept, Live, Current
  <2>4. CASE Consume /\ ~Over("approval")
    <3>1. /\ graph' = graph
          /\ loop'.at = loop.at /\ loop'.end = loop.end /\ loop'.attempt = loop.attempt
      BY <2>4 DEF Consume, TypeOK, Loop
    <3> QED  BY <1>0, <2>0, <3>1 DEF Kept, Live, Current
  <2>5. CASE Consume
    BY <2>3, <2>4, <2>5
  <2> QED  BY <1>2, <2>2, <2>3, <2>5 DEF LoopStep
<1>3. CASE GraphStep
  <2>1. CASE ModelCalls
    <3>1. loop' = loop /\ broken' = broken /\ graph'.at = "on" /\ graph.at = "on" /\ graph'.mode = graph.mode
      BY <2>1 DEF ModelCalls, ModelsTurn, TypeOK, Graph
    <3>2. calls'[d] = calls[d] \/ calls'[d].run = Current
      BY <2>1 DEF ModelCalls, Idle
    <3>3. CASE calls'[d] = calls[d]
      BY <1>0, <3>1, <3>3 DEF Kept, Live, Current
    <3>4. CASE calls'[d].run = Current
      BY <3>1, <3>4 DEF Kept, Tied, Current
    <3> QED  BY <3>2, <3>3, <3>4
  <2>2. CASE ModelAnswers \/ ModelFails
    <3>1. /\ loop' = loop /\ broken \subseteq broken' /\ graph'.mode = graph.mode /\ calls' = calls
          /\ Live(d) => calls[d].run # Current
      BY <2>2 DEF ModelAnswers, ModelFails, ModelsTurn, TypeOK, Graph
    <3> QED  BY <1>0, <3>1 DEF Kept, Live, Current
  <2>3. CASE CloseGraph
    <3>1. loop' = loop /\ broken' = broken /\ graph'.mode = graph.mode /\ calls' = calls /\ loop.at = "over"
      BY <2>3 DEF CloseGraph, TypeOK, Graph
    <3> QED  BY <1>0, <3>1 DEF Kept, Live, Current
  <2> QED  BY <1>3, <2>1, <2>2, <2>3 DEF GraphStep
<1>4. ASSUME NEW c \in Calls, CallStep(c) PROVE Kept(d)'
  <2>1. CASE FinishRaises(c)
    <3>1. /\ loop' = loop /\ graph'.mode = graph.mode
          /\ \/ Current \in broken' /\ broken \subseteq broken'
             \/ broken' = broken /\ graph'.at = graph.at
      BY <2>1 DEF FinishRaises, TypeOK, Graph
    <3> QED  BY <1>0, <1>4, <3>1, CallFrame DEF Kept, Current
  <2>2. CASE ~FinishRaises(c)
    BY <1>0, <1>4, <2>2, CallFrame, ReportFrame DEF Kept, Current
  <2> QED  BY <2>1, <2>2
<1> QED  BY <1>1, <1>2, <1>3, <1>4 DEF Next

\* No pass is judged, repeated, replaced or answered over calls that could still
\* be heard, and an invoked graph leaves none behind, whatever breaks, in any
\* attempt.
THEOREM CallsAreAwaited == Spec => []NobodyLeftBehind
<1>1. Init => KeptInv
  BY DEF Init, KeptInv, Tied, Kept, Live, Idle
<1>2. TypeOK /\ KeptInv /\ [Next]_vars => KeptInv'
  <2> SUFFICES ASSUME TypeOK, KeptInv, [Next]_vars PROVE KeptInv'
    OBVIOUS
  <2> QED  BY TiedStep, KeptStep DEF KeptInv
<1>3. KeptInv => NobodyLeftBehind
  BY DEF KeptInv, Kept, NobodyLeftBehind
<1> QED  BY <1>1, <1>2, <1>3, TypeCorrect, PTL DEF Spec

----------------------------------------------------------------------------
(* What the loop knows of the streamed calls. *)

Notable == {"failed", "blocker", "approval"}

Told ==
    /\ loop.at \in {"setup", "invoke", "judge"} => events = <<>>
    /\ loop.at \in {"setup", "judge"} => graph.at # "on"
    /\ loop.at = "stream" => graph.mode = "stream"
    /\ loop.at = "invoke" => graph.mode = "invoke"
    /\ graph.request => "approval" \in heard.invoke
    /\ loop.at \in {"stream", "invoke", "judge"} =>
          /\ heard.stream \cap Notable \subseteq loop.seen \cup Queue(events)
          /\ loop.seen \subseteq heard.stream
          /\ Queue(events) \subseteq heard.stream \cup {"text"}

\* A step of the loop or the graph that leaves the history alone and of the
\* queue takes or adds nothing but text.
LEMMA ToldFrame ==
    ASSUME Told, UNCHANGED <<loop, events, heard>>, graph'.mode = graph.mode,
           graph'.at # graph.at => graph'.at # "on", graph'.request => graph.request
    PROVE  Told'
  BY DEF Told

LEMMA ToldSay ==
    ASSUME TypeOK, Told, NEW says \in BOOLEAN, Say(says), graph.at = "on",
           UNCHANGED <<loop, heard>>, graph'.mode = graph.mode, graph'.request => graph.request
    PROVE  Told'
<1>1. CASE events' = events
  BY <1>1 DEF Told
<1>2. CASE says /\ loop.at = "stream" /\ events' = Append(events, "text")
  <2>1. Queue(events') = Queue(events) \cup {"text"}
    BY <1>2, QueueAppend DEF TypeOK, Items
  <2>2. loop.at \notin {"setup", "invoke", "judge"}
    BY <1>2 DEF Told
  <2> QED  BY <1>2, <2>1, <2>2 DEF Told, Notable
<1> QED  BY <1>1, <1>2 DEF Say

LEMMA ToldReport ==
    ASSUME TypeOK, Told, NEW c \in Calls, NEW out \in Outcomes, Report(c, out)
    PROVE  Told'
<1>0. UNCHANGED loop
  BY DEF Report
<1> DEFINE Hears == Listens(c) /\ loop.at # "over"
<1>1. CASE ~Hears
  BY <1>1 DEF Report, Told
<1>2. CASE Hears /\ loop.at = "stream"
  <2>0. graph.mode = "stream" /\ graph.at = "on"
    BY <1>2 DEF Told, Listens
  <2>1. events' = Append(events, out) /\ heard'.stream = heard.stream \cup {out} /\ heard'.invoke = heard.invoke
    BY <1>2, <2>0 DEF Report, TypeOK
  <2>2. Queue(events') = Queue(events) \cup {out}
    BY <2>1, QueueAppend DEF TypeOK, Items
  <2>3. graph'.mode = graph.mode /\ graph'.at = graph.at /\ (graph'.request => graph.request)
    BY <1>2 DEF Report, TypeOK, Graph
  <2> QED  BY <1>0, <1>2, <2>0, <2>1, <2>2, <2>3 DEF Told
<1>3. CASE Hears /\ loop.at = "invoke"
  <2>0. graph.mode = "invoke" /\ graph.at = "on"
    BY <1>3 DEF Told, Listens
  <2>1. events' = events /\ heard'.stream = heard.stream /\ heard'.invoke = heard.invoke \cup {out}
    BY <1>3, <2>0 DEF Report, TypeOK
  <2>2. graph'.mode = graph.mode /\ graph'.at = graph.at
        /\ (graph'.request => graph.request \/ out = "approval")
    BY <1>3 DEF Report, TypeOK, Graph
  <2> QED  BY <1>0, <1>3, <2>0, <2>1, <2>2 DEF Told
<1>4. CASE Hears /\ loop.at \in {"setup", "judge"}
  BY <1>4 DEF Listens, Told
<1> QED  BY <1>1, <1>2, <1>3, <1>4 DEF TypeOK, Loop

LEMMA ToldStep ==
    ASSUME TypeOK, Told, [Next]_vars
    PROVE  Told'
<1>1. CASE UNCHANGED vars
  BY <1>1 DEF vars, Told
<1>2. CASE LoopStep \/ Cancel
  <2>1. CASE Setup
    <3>1. /\ loop'.at = "stream" /\ loop'.seen = {}
      BY <2>1 DEF Setup, TypeOK, Loop
    <3>2. heard'.stream = {} /\ graph'.mode = "stream" /\ ~graph'.request /\ events' = <<>>
      BY <2>1 DEF Setup, StartGraph, Silence, Told
    <3> QED  BY <3>1, <3>2, NothingQueued DEF Told
  <2>2. CASE SetupFails \/ Cancel
    BY <2>2, OverType DEF SetupFails, Cancel, Told, Ends
  <2>3. CASE Consume
    <3>1. events # <<>> /\ UNCHANGED <<graph, heard>> /\ loop.at = "stream"
      BY <2>3 DEF Consume
    <3>2. CASE Head(events) = "approval"
      <4>1. loop'.at = "over"
        BY <2>3, <3>2, OverType DEF Consume, Ends
      <4> QED  BY <3>1, <4>1 DEF Told
    <3>3. CASE Head(events) # "approval"
      <4>0. events' = Tail(events)
        BY <2>3, <3>3 DEF Consume
      <4>1. Queue(events) = {Head(events)} \cup Queue(events')
        BY <3>1, <4>0, QueueTail DEF TypeOK, Items
      <4>2. CASE Head(events) \in {"failed", "blocker"}
        <5>1. loop'.at = loop.at /\ loop'.seen = loop.seen \cup {Head(events)}
          BY <2>3, <3>3, <4>2 DEF Consume, TypeOK, Loop
        <5> QED  BY <3>1, <4>1, <4>2, <5>1 DEF Told
      <4>3. CASE Head(events) \notin Notable
        <5>1. loop'.at = loop.at /\ loop'.seen = loop.seen
          BY <2>3, <3>3, <4>3 DEF Consume, TypeOK, Loop, Notable
        <5> QED  BY <3>1, <4>1, <4>3, <5>1 DEF Told
      <4> QED  BY <3>3, <4>2, <4>3 DEF Notable
    <3> QED  BY <3>2, <3>3
  <2>4. CASE StreamEnds
    <3>1. loop'.at = "judge" /\ loop'.seen = loop.seen /\ events = <<>> /\ graph.at # "on"
      BY <2>4 DEF StreamEnds, TypeOK, Loop
    <3> QED  BY <2>4, <3>1 DEF StreamEnds, Told
  <2>5. CASE FallBack
    <3>1. loop'.at = "invoke" /\ loop'.seen = loop.seen /\ events = <<>>
      BY <2>5 DEF FallBack, TypeOK, Loop
    <3>2. graph'.mode = "invoke" /\ ~graph'.request
      BY <2>5 DEF FallBack, StartGraph
    <3> QED  BY <2>5, <3>1, <3>2 DEF FallBack, Told
  <2>6. CASE InvokeReturns
    <3>1. CASE Over("approval")
      BY <2>6, <3>1, OverType DEF InvokeReturns, Told, Ends
    <3>2. CASE loop' = [loop EXCEPT !.at = "judge"] /\ UNCHANGED events
      <4>1. loop'.at = "judge" /\ loop'.seen = loop.seen
        BY <3>2 DEF TypeOK, Loop
      <4> QED  BY <2>6, <3>2, <4>1 DEF InvokeReturns, Told
    <3> QED  BY <2>6, <3>1, <3>2 DEF InvokeReturns
  <2>7. CASE InvokeFails
    BY <2>7, OverType DEF InvokeFails, Told, Ends
  <2>8. CASE Judge
    <3>1. CASE \E end \in Ends : Over(end)
      BY <2>8, <3>1, OverType DEF Judge, Told
    <3>2. CASE loop' = [loop EXCEPT !.at = "setup", !.attempt = @ + 1] /\ UNCHANGED events
      <4>1. loop'.at = "setup"
        BY <3>2 DEF TypeOK, Loop
      <4> QED  BY <2>8, <3>2, <4>1 DEF Judge, Told
    <3> QED  BY <2>8, <3>1, <3>2 DEF Judge, Ends
  <2> QED  BY <1>2, <2>1, <2>2, <2>3, <2>4, <2>5, <2>6, <2>7, <2>8 DEF LoopStep
<1>3. CASE GraphStep
  <2>1. CASE ModelCalls
    <3>1. PICK says \in BOOLEAN : Say(says) /\ graph' = [graph EXCEPT !.rounds = @ + 1, !.request = StillAsked(says)]
      BY <2>1 DEF ModelCalls
    <3>2. graph'.mode = graph.mode /\ (graph'.request => graph.request)
      BY <3>1 DEF StillAsked, TypeOK, Graph
    <3> QED  BY <2>1, <3>1, <3>2, ToldSay DEF ModelCalls, ModelsTurn
  <2>2. CASE ModelAnswers
    <3>1. PICK says \in BOOLEAN : Say(says) /\ graph' = [graph EXCEPT !.at = "ended", !.request = StillAsked(says)]
      BY <2>2 DEF ModelAnswers
    <3>2. graph'.mode = graph.mode /\ (graph'.request => graph.request)
      BY <3>1 DEF StillAsked, TypeOK, Graph
    <3> QED  BY <2>2, <3>1, <3>2, ToldSay DEF ModelAnswers, ModelsTurn
  <2>3. CASE ModelFails
    <3>1. graph'.mode = graph.mode /\ graph'.request = graph.request
      BY <2>3 DEF ModelFails, TypeOK, Graph
    <3> QED  BY <2>3, <3>1, ToldSay DEF ModelFails, ModelsTurn
  <2>4. CASE CloseGraph
    <3>1. graph'.mode = graph.mode /\ graph'.request = graph.request /\ graph'.at = "off"
      BY <2>4 DEF CloseGraph, TypeOK, Graph
    <3> QED  BY <2>4, <3>1, ToldFrame DEF CloseGraph
  <2> QED  BY <1>3, <2>1, <2>2, <2>3, <2>4 DEF GraphStep
<1>4. ASSUME NEW c \in Calls, CallStep(c) PROVE Told'
  <2>1. CASE Reject(c) \/ UnknownHost(c) \/ AskApproval(c) \/ Finish(c) \/ ConnectRefused(c)
    <3>1. PICK out \in Outcomes : Report(c, out)
      BY <2>1 DEF Reject, UnknownHost, AskApproval, Finish, ConnectRefused, Return, Results,
                  EvictedResults, Outcomes
    <3> QED  BY <3>1, ToldReport
  <2>2. CASE Drop(c) \/ Connect(c)
    BY <2>2 DEF Drop, Connect, Told
  <2>3. CASE FinishRaises(c)
    <3>1. graph'.mode = graph.mode /\ graph'.request = graph.request
          /\ (graph'.at # graph.at => graph'.at # "on")
      BY <2>3 DEF FinishRaises, TypeOK, Graph
    <3> QED  BY <2>3, <3>1, ToldFrame DEF FinishRaises
  <2> QED  BY <1>4, <2>1, <2>2, <2>3 DEF CallStep
<1> QED  BY <1>1, <1>2, <1>3, <1>4 DEF Next

Explained ==
    /\ loop'.end # loop.end =>
          LET said == heard.stream IN
          CASE loop'.end = "answered"  -> said \subseteq {"ok"}
            [] loop'.end = "blocked"   -> "blocker" \in said /\ "approval" \notin said
            [] loop'.end = "exhausted" -> /\ "failed" \in said /\ said \subseteq {"ok", "failed"}
                                          /\ loop.attempt = MaxAttempts
            [] loop'.end = "approval"  -> "approval" \in said \cup heard.invoke
            [] OTHER -> TRUE
    /\ loop'.attempt # loop.attempt =>
          "failed" \in heard.stream /\ heard.stream \subseteq {"ok", "failed"}

\* When a pass is judged, what the loop has seen is what failed.
LEMMA JudgedOnAll ==
    ASSUME TypeOK, Told, loop.at = "judge"
    PROVE  heard.stream \subseteq {"ok"} \cup loop.seen /\ loop.seen \subseteq heard.stream
  BY NothingQueued DEF Told, TypeOK, Notable, Outcomes

LEMMA ExplainedStep ==
    ASSUME TypeOK, Told, [Next]_vars
    PROVE  Explained
<1>1. CASE UNCHANGED loop
  BY <1>1 DEF Explained
<1>2. CASE loop'.end = loop.end /\ loop'.attempt = loop.attempt
  BY <1>2 DEF Explained
<1>3. CASE (SetupFails \/ Cancel \/ InvokeFails)
  BY <1>3, OverType DEF SetupFails, Cancel, InvokeFails, Explained, Ends
<1>4. CASE Consume
  <2>1. CASE Head(events) = "approval"
    <3>1. "approval" \in Queue(events)
      BY <1>4, <2>1, QueueTail DEF Consume, TypeOK, Items
    <3>2. "approval" \in heard.stream
      BY <1>4, <3>1 DEF Consume, Told
    <3>3. loop'.end = "approval" /\ loop'.attempt = loop.attempt
      BY <1>4, <2>1, OverType DEF Consume, Ends
    <3> QED  BY <3>2, <3>3 DEF Explained
  <2>2. CASE Head(events) # "approval"
    <3>1. loop'.end = loop.end /\ loop'.attempt = loop.attempt
      BY <1>4, <2>2 DEF Consume, TypeOK, Loop
    <3> QED  BY <3>1, <1>2
  <2> QED  BY <2>1, <2>2
<1>5. CASE InvokeReturns
  <2>1. CASE graph.request
    <3>1. loop'.end = "approval" /\ loop'.attempt = loop.attempt
      BY <1>5, <2>1, OverType DEF InvokeReturns, Ends
    <3> QED  BY <2>1, <3>1 DEF Told, Explained
  <2>2. CASE ~graph.request
    BY <1>5, <2>2, <1>2 DEF InvokeReturns, TypeOK, Loop
  <2> QED  BY <2>1, <2>2
<1>6. CASE Judge
  <2>0. loop.seen \in SUBSET {"failed", "blocker"}
    BY DEF TypeOK, Loop
  <2>1. heard.stream \subseteq {"ok"} \cup loop.seen /\ loop.seen \subseteq heard.stream
    BY <1>6, JudgedOnAll DEF Judge
  <2>2. CASE "blocker" \in loop.seen
    <3>0. loop.seen # {} /\ loop.seen # {"failed"}
      BY <2>2
    <3>a. Over("blocked")
      BY <1>6, <2>2, <3>0 DEF Judge
    <3>1. loop'.end = "blocked" /\ loop'.attempt = loop.attempt
      BY <3>a, OverType DEF Ends
    <3> QED  BY <2>0, <2>1, <2>2, <3>1 DEF Explained
  <2>3. CASE loop.seen = {}
    <3>1. loop'.end = "answered" /\ loop'.attempt = loop.attempt
      BY <1>6, <2>3, OverType DEF Judge, Ends
    <3> QED  BY <2>1, <2>3, <3>1 DEF Explained
  <2>4. CASE loop.seen = {"failed"} /\ loop.attempt >= MaxAttempts
    <3>1. loop'.end = "exhausted" /\ loop'.attempt = loop.attempt
      BY <1>6, <2>4, OverType DEF Judge, Ends
    <3>2. loop.attempt = MaxAttempts
      BY <2>4, LimitsAssumption DEF TypeOK, Loop
    <3> QED  BY <2>1, <2>4, <3>1, <3>2 DEF Explained
  <2>5. CASE loop.seen = {"failed"} /\ ~(loop.attempt >= MaxAttempts)
    <3>1. loop'.end = loop.end
      BY <1>6, <2>5 DEF Judge, TypeOK, Loop
    <3> QED  BY <2>1, <2>5, <3>1 DEF Explained
  <2> QED  BY <2>0, <2>2, <2>3, <2>4, <2>5
<1>7. CASE Setup \/ StreamEnds \/ FallBack
  BY <1>7, <1>2 DEF Setup, StreamEnds, FallBack, TypeOK, Loop
<1>8. CASE GraphStep \/ \E c \in Calls : CallStep(c)
  <2>1. UNCHANGED loop
    BY <1>8 DEF GraphStep, CallStep, ModelCalls, ModelAnswers, ModelFails, CloseGraph, Reject, UnknownHost, AskApproval,
           Drop, Connect, ConnectRefused, Finish, FinishRaises, Return, Report
  <2> QED  BY <2>1, <1>1
<1> QED  BY <1>1, <1>3, <1>4, <1>5, <1>6, <1>7, <1>8 DEF Next, LoopStep, vars

\* The end the loop reports is the one its streamed calls call for, whatever
\* the threads, the graph and the queue do meanwhile (astream_troubleshoot).
THEOREM EndsAreExplained == Spec => LoopIsExplained
<1>1. Init => Told
  BY DEF Init, Told
<1>2. TypeOK /\ Told /\ [Next]_vars => [Explained]_vars
  BY ExplainedStep
<1>3. Told /\ TypeOK /\ [Next]_vars => Told'
  BY ToldStep
<1>4. Spec => [][Explained]_vars
  BY <1>1, <1>2, <1>3, TypeCorrect, PTL DEF Spec
<1> QED  BY <1>4 DEF LoopIsExplained, Explained
=============================================================================
