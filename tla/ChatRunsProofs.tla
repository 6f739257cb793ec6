--------------------------- MODULE ChatRunsProofs ---------------------------
(***************************************************************************)
(* Theorems about ChatRuns for every set of runs and approvals and every   *)
(* bound, in four parts: type correctness; the approval gate and the       *)
(* refinement of ApprovalGate; one owner and one active run; and, for the  *)
(* behaviours in which no row id comes back, the promises that tie a chat  *)
(* to the run, the message and the request it was given.                   *)
(***************************************************************************)
EXTENDS ChatRuns, TLAPS

\* The values a variable of one turn may take, for the leaves of the proofs.
LEMMA UpdateRunType ==
  ASSUME TypeOK, NEW r \in Runs, NEW s \in RunStatus, UpdateRun(r, s)
  PROVE  runs' \in [Runs -> RunRow]
BY DEF TypeOK, UpdateRun, RunRow

LEMMA MsgsWithType ==
  ASSUME TypeOK, NEW m, NEW s \in MsgStatus, NEW t \in BOOLEAN
  PROVE  MsgsWith(m, s, t) \in [MsgIds -> MsgRow]
<1> DEFINE row(k) == IF k = m /\ msgs[k].status # "absent"
                     THEN [msgs[k] EXCEPT !.status = s, !.text = t]
                     ELSE msgs[k]
<1>1. ASSUME NEW k \in MsgIds PROVE row(k) \in MsgRow
  <2>1. msgs[k] \in MsgRow BY DEF TypeOK
  <2>2. [msgs[k] EXCEPT !.status = s, !.text = t] \in MsgRow
    BY <2>1 DEF MsgRow
  <2>3. QED BY <2>1, <2>2
<1>2. QED BY <1>1 DEF MsgsWith

LEMMA InitType == Init => TypeOK
<1> SUFFICES ASSUME Init PROVE TypeOK
  OBVIOUS
<1> USE BoundsAssumption
<1>1. msgs \in [MsgIds -> MsgRow]
  BY DEF Init, MsgRow, MsgStatus
<1>2. runs \in [Runs -> RunRow]
  BY DEF Init, RunRow, RunStatus
<1>3. approvals \in [Approvals -> ApprovalRow]
  BY DEF Init, ApprovalRow, ApprovalStatus
<1>4. doomed \in [ChatIds -> Deletion]
  BY DEF Init, Deletion, NoDelete
<1>5. loop \in [at: Places, run: Runs \cup {NoRun}] /\ loop.at = "idle"
  BY DEF Init, Idle, Places
<1>6. QED
  BY <1>1, <1>2, <1>3, <1>4, <1>5 DEF Init, TypeOK, Stages

\* Every step keeps the types: one case per action, and under it one step per
\* variable the action computes.
LEMMA TypeStep == TypeOK /\ [Next]_vars => TypeOK'
<1> SUFFICES ASSUME TypeOK, [Next]_vars PROVE TypeOK'
  OBVIOUS
<1> DEFINE LoopOK == /\ loop' \in [at: Places, run: Runs \cup {NoRun}]
                     /\ loop'.at # "idle" => loop'.run \in Runs
<1> USE DEF TypeOK, rows, ids, memory, life
<1>a. loop' = Idle => LoopOK
  BY DEF Idle, Places
<1>b. ASSUME NEW r \in Runs, NEW p \in Places, loop' = At(p, r) PROVE LoopOK
  BY <1>b DEF At, Places
<1>c. ASSUME NEW r \in Runs, EndTask(r)
      PROVE  tasks' \in [Runs -> Stages] /\ cancels' \subseteq Runs
  BY <1>c DEF EndTask, Stages
<1> HIDE DEF LoopOK
<1>1. CASE UNCHANGED vars
  BY <1>1 DEF vars
<1>2. CASE CreateChat
  BY <1>2, BoundsAssumption DEF CreateChat, ChatIds
<1>3. ASSUME NEW c \in ChatIds, NEW r \in Runs, SendRead(c, r) PROVE TypeOK'
  <2>1. runs' \in [Runs -> RunRow]
    <3>1. c \in 0..MaxChat
      BY BoundsAssumption DEF ChatIds
    <3>2. [runs[r] EXCEPT !.chat = c] \in RunRow
      BY <3>1 DEF RunRow
    <3>3. QED BY <1>3, <3>2 DEF SendRead
  <2>2. LoopOK
    BY <1>3, <1>b DEF SendRead, Places
  <2>3. QED BY <1>3, <2>1, <2>2 DEF SendRead, LoopOK
<1>4. CASE SendCommit
  <2> DEFINE r == loop.run
  <2>1. PICK m \in MsgIds :
          /\ InsertTurn(r, runs[r].chat, m)
          /\ runs' = [runs EXCEPT ![r] =
                        [status |-> "pending", chat |-> runs[r].chat, msg |-> m]]
          /\ loop' = At("start", r)
    BY <1>4 DEF SendCommit
  <2>2. r \in Runs
    BY <1>4 DEF SendCommit
  <2>3. runs[r].chat \in 0..MaxChat
    BY <2>2 DEF RunRow
  <2> HIDE DEF r
  <2>4. runs' \in [Runs -> RunRow]
    <3>1. [status |-> "pending", chat |-> runs[r].chat, msg |-> m] \in RunRow
      BY <2>3, BoundsAssumption DEF RunRow, RunStatus, Active, MsgIds
    <3>2. QED BY <2>1, <3>1
  <2>5. msgs' \in [MsgIds -> MsgRow] /\ lastMsg' \in 0..MaxMsg
    BY <2>1, <2>3, BoundsAssumption DEF InsertTurn, MsgRow, MsgStatus, Unsettled, MsgIds
  <2>6. LoopOK
    BY <2>1, <2>2, <1>b DEF Places
  <2>7. QED BY <1>4, <2>4, <2>5, <2>6 DEF SendCommit, LoopOK
<1>5. CASE SendStart
  <2>1. tasks' \in [Runs -> Stages]
    BY <1>5 DEF SendStart, Stages
  <2>2. QED BY <1>5, <1>a, <2>1 DEF SendStart, LoopOK
<1>6. CASE Resume
  <2>1. tasks' \in [Runs -> Stages]
    BY <1>6 DEF Resume, Stages
  <2>2. QED BY <1>6, <1>a, <2>1 DEF Resume, LoopOK
<1>7. CASE PersistWaiting
  <2>1. loop.run \in Runs
    BY <1>7 DEF PersistWaiting
  <2>2. runs' \in [Runs -> RunRow]
    BY <1>7, <2>1, UpdateRunType DEF PersistWaiting, RunStatus
  <2>3. LoopOK
    BY <1>7, <1>b, <2>1 DEF PersistWaiting, Places
  <2>4. QED BY <1>7, <2>2, <2>3 DEF PersistWaiting, LoopOK
<1>8. CASE PersistAsk
  <2>1. loop.run \in Runs
    BY <1>8 DEF PersistAsk
  <2>2. msgs' \in [MsgIds -> MsgRow]
    BY <1>8, MsgsWithType DEF PersistAsk, MsgStatus
  <2>3. QED BY <1>8, <1>a, <1>c, <2>1, <2>2 DEF PersistAsk, LoopOK
<1>9. CASE PersistFailed
  <2>1. loop.run \in Runs
    BY <1>9 DEF PersistFailed
  <2>2. msgs' \in [MsgIds -> MsgRow]
    BY <1>9, MsgsWithType DEF PersistFailed, MsgStatus
  <2>3. QED BY <1>9, <1>a, <1>c, <2>1, <2>2 DEF PersistFailed, LoopOK
<1>10. ASSUME NEW r \in Runs, TaskStart(r) PROVE TypeOK'
  <2>1. runs' \in [Runs -> RunRow]
    BY <1>10, UpdateRunType DEF TaskStart, RunStatus, Active
  <2>2. QED BY <1>10, <2>1 DEF TaskStart, Stages
<1>11. ASSUME NEW r \in Runs, TaskToken(r) PROVE TypeOK'
  <2>1. runs' \in [Runs -> RunRow]
    BY <1>11, UpdateRunType DEF TaskToken, RunStatus, Active
  <2>2. msgs' \in [MsgIds -> MsgRow]
    <3>1. ASSUME NEW k \in MsgIds PROVE [msgs[k] EXCEPT !.status = "streaming"] \in MsgRow
      BY DEF MsgRow, MsgStatus, Unsettled
    <3>2. QED BY <1>11, <3>1 DEF TaskToken
  <2>3. tasks' \in [Runs -> Stages]
    BY <1>11 DEF TaskToken, Stages
  <2>4. QED BY <1>11, <2>1, <2>2, <2>3 DEF TaskToken
<1>12. ASSUME NEW r \in Runs, TaskFail(r) PROVE TypeOK'
  <2>1. runs' \in [Runs -> RunRow]
    BY <1>12, UpdateRunType DEF TaskFail, RunStatus
  <2>2. LoopOK
    BY <1>12, <1>b DEF TaskFail, Places
  <2>3. QED BY <1>12, <2>1, <2>2 DEF TaskFail, LoopOK
<1>13. ASSUME NEW r \in Runs, TaskUnwind(r) PROVE TypeOK'
  <2>1. CASE /\ UpdateRun(r, "cancelled")
             /\ loop' = At("fail", r)
             /\ UNCHANGED <<tasks, cancels>>
    <3>1. runs' \in [Runs -> RunRow]
      BY <2>1, UpdateRunType DEF RunStatus
    <3>2. LoopOK
      BY <2>1, <1>b DEF Places
    <3>3. QED BY <1>13, <2>1, <3>1, <3>2 DEF TaskUnwind, LoopOK
  <2>2. CASE EndTask(r) /\ UNCHANGED <<runs, loop>>
    BY <1>13, <1>c, <2>2 DEF TaskUnwind
  <2>3. QED BY <1>13, <2>1, <2>2 DEF TaskUnwind
<1>14. ASSUME NEW r \in Runs, TaskFinish(r) PROVE TypeOK'
  <2>1. msgs' \in [MsgIds -> MsgRow]
    BY <1>14, MsgsWithType DEF TaskFinish, MsgStatus
  <2>2. QED BY <1>14, <2>1 DEF TaskFinish, Stages
<1>15. ASSUME NEW r \in Runs, TaskIngested(r) PROVE TypeOK'
  <2>1. runs' \in [Runs -> RunRow]
    BY <1>15, UpdateRunType DEF TaskIngested, RunStatus
  <2>2. QED BY <1>15, <2>1 DEF TaskIngested, Stages
<1>16. ASSUME NEW r \in Runs, TaskLingered(r) PROVE TypeOK'
  BY <1>16, <1>c DEF TaskLingered
<1>17. ASSUME NEW r \in Runs, AdoptApproval(r) PROVE TypeOK'
  BY <1>17, <1>b DEF AdoptApproval, LoopOK, Places
<1>18. ASSUME NEW r \in Runs, NEW a \in Approvals, RaiseApproval(r, a) PROVE TypeOK'
  <2>1. approvals' \in [Approvals -> ApprovalRow]
    BY <1>18 DEF RaiseApproval, ApprovalRow, ApprovalStatus
  <2>2. LoopOK
    BY <1>18, <1>b DEF RaiseApproval, Places
  <2>3. \A b \in Approvals : approvals'[b].run = NoRun =>
                              approvals'[b].status = "absent" /\ inflight'[b] = "none"
                              /\ b \notin raised'
    BY <1>18, NoRunAssumption DEF RaiseApproval
  <2>4. QED BY <1>18, <2>1, <2>2, <2>3 DEF RaiseApproval, LoopOK
<1>19. ASSUME NEW a \in Approvals, ExecuteCommand(a) PROVE TypeOK'
  BY <1>19 DEF ExecuteCommand
<1>31. ASSUME NEW a \in Approvals, ExecuteRaises(a) PROVE TypeOK'
  <2>1. /\ \A b \in Approvals : b # a => inflight'[b] = inflight[b]
        /\ raised' = raised \cup {a} /\ approvals' = approvals
        /\ inflight[a] = "called" /\ inflight'[a] = "none"
    BY <1>31 DEF ExecuteRaises
  <2>2. \A b \in Approvals : approvals'[b].run = NoRun =>
          approvals'[b].status = "absent" /\ inflight'[b] = "none" /\ b \notin raised'
    BY <2>1
  <2>3. QED BY <1>31, <2>2 DEF ExecuteRaises
<1>20. ASSUME NEW a \in Approvals, Continue(a) PROVE TypeOK'
  <2> DEFINE r == approvals[a].run
  <2>1. r \in Runs
    BY <1>20 DEF Continue, ApprovalRow
  <2>2. approvals' \in [Approvals -> ApprovalRow]
    BY <1>20 DEF Continue, ApprovalRow, ApprovalStatus
  <2>3. msgs' \in [MsgIds -> MsgRow]
    BY <1>20, MsgsWithType DEF Continue, MsgStatus, Unsettled
  <2>4. runs' \in [Runs -> RunRow]
    <3>1. [runs[r] EXCEPT !.status = "running"] \in RunRow
      BY <2>1 DEF RunRow, RunStatus, Active
    <3>2. QED BY <1>20, <3>1 DEF Continue
  <2>5. inflight' \in [Approvals -> {"none", "called", "returned"}]
    BY <1>20 DEF Continue
  <2>6. LoopOK
    BY <1>20, <1>b, <2>1 DEF Continue, Places
  <2>7. \A b \in Approvals : approvals'[b].run = NoRun =>
                              approvals'[b].status = "absent" /\ inflight'[b] = "none"
                              /\ b \notin raised'
    <3>1. \A b \in Approvals : approvals'[b].run = approvals[b].run
      BY <1>20 DEF Continue, ApprovalRow
    <3>2. \A b \in Approvals : approvals[b].status = "absent" =>
                                approvals'[b].status = "absent"
      BY <1>20 DEF Continue, ApprovalRow
    <3>3. \A b \in Approvals : inflight[b] = "none" => inflight'[b] = "none"
      BY <1>20 DEF Continue
    <3>4. raised' = raised
      BY <1>20 DEF Continue
    <3>5. QED BY <3>1, <3>2, <3>3, <3>4
  <2>8. QED BY <1>20, <2>2, <2>3, <2>4, <2>5, <2>6, <2>7 DEF Continue, LoopOK
<1>21. ASSUME NEW a \in Approvals, ContinueConflict(a) PROVE TypeOK'
  BY <1>21 DEF ContinueConflict
<1>22. ASSUME NEW a \in Approvals, Approve(a) PROVE TypeOK'
  <2>1. approvals[a].run \in Runs
    BY <1>22 DEF Approve, Resolvable, ApprovalRow
  <2>2. approvals' \in [Approvals -> ApprovalRow]
    BY <1>22 DEF Approve, ApprovalRow, ApprovalStatus
  <2>3. runs' \in [Runs -> RunRow]
    BY <1>22, <2>1, UpdateRunType DEF Approve, RunStatus, Active
  <2>4. msgs' \in [MsgIds -> MsgRow]
    BY <1>22, MsgsWithType DEF Approve, MsgStatus, Unsettled
  <2>5. \A b \in Approvals : approvals'[b].run = NoRun =>
                              approvals'[b].status = "absent" /\ inflight'[b] = "none"
    BY <1>22, <2>1, NoRunAssumption DEF Approve, ApprovalRow
  <2>6. inflight' \in [Approvals -> {"none", "called", "returned"}]
    BY <1>22 DEF Approve
  <2>7. QED BY <1>22, <2>2, <2>3, <2>4, <2>5, <2>6 DEF Approve
<1>23. ASSUME NEW a \in Approvals, Deny(a) PROVE TypeOK'
  <2>1. approvals[a].run \in Runs
    BY <1>23 DEF Deny, Resolvable, ApprovalRow
  <2>2. approvals' \in [Approvals -> ApprovalRow]
    BY <1>23 DEF Deny, ApprovalRow, ApprovalStatus
  <2>3. runs' \in [Runs -> RunRow]
    BY <1>23, <2>1, UpdateRunType DEF Deny, RunStatus
  <2>4. msgs' \in [MsgIds -> MsgRow]
    BY <1>23, MsgsWithType DEF Deny, MsgStatus
  <2>5. \A b \in Approvals : approvals'[b].run = NoRun =>
                              approvals'[b].status = "absent" /\ inflight'[b] = "none"
                              /\ b \notin raised'
    BY <1>23, <2>1, NoRunAssumption DEF Deny, ApprovalRow
  <2>6. QED BY <1>23, <2>2, <2>3, <2>4, <2>5 DEF Deny
<1>24. ASSUME NEW a \in Approvals, NEW r \in Runs, Other(a, r) PROVE TypeOK'
  <2> DEFINE c == ChatOf(a)
             old == approvals[a].run
  <2>1. PICK m \in MsgIds :
          /\ InsertTurn(r, c, m)
          /\ runs' = [q \in Runs |->
                        IF q = r THEN [status |-> "pending", chat |-> c, msg |-> m]
                        ELSE IF q = old /\ runs[q].status # "absent"
                        THEN [runs[q] EXCEPT !.status = "other"]
                        ELSE runs[q]]
    BY <1>24 DEF Other
  <2>2. old \in Runs
    BY <1>24 DEF Other, Resolvable, ApprovalRow
  <2>3. c \in 0..MaxChat
    BY <2>2 DEF ChatOf, RunRow
  <2> HIDE DEF c, old
  <2>4. approvals' \in [Approvals -> ApprovalRow]
    BY <1>24 DEF Other, ApprovalRow, ApprovalStatus
  <2>5. runs' \in [Runs -> RunRow]
    <3>1. [status |-> "pending", chat |-> c, msg |-> m] \in RunRow
      BY <2>3, BoundsAssumption DEF RunRow, RunStatus, Active, MsgIds
    <3>2. ASSUME NEW q \in Runs PROVE [runs[q] EXCEPT !.status = "other"] \in RunRow
      BY DEF RunRow, RunStatus
    <3>3. QED BY <2>1, <3>1, <3>2
  <2>6. msgs' \in [MsgIds -> MsgRow] /\ lastMsg' \in 0..MaxMsg
    BY <2>1, <2>3, BoundsAssumption DEF InsertTurn, MsgRow, MsgStatus, Unsettled, MsgIds
  <2>7. LoopOK
    BY <1>24, <1>b DEF Other, Places
  <2>8. \A b \in Approvals : approvals'[b].run = NoRun =>
                              approvals'[b].status = "absent" /\ inflight'[b] = "none"
    BY <1>24, <2>2, NoRunAssumption DEF Other, ApprovalRow, old
  <2>9. QED BY <1>24, <2>4, <2>5, <2>6, <2>7, <2>8 DEF Other, LoopOK
<1>25. ASSUME NEW c \in ChatIds, DeleteRead(c) PROVE TypeOK'
  <2>1. doomed' \in [ChatIds -> Deletion]
    <3>1. [on |-> TRUE,
           msgs |-> {m \in ExistingMsgs : msgs[m].chat = c},
           runs |-> {r \in Runs : runs[r].status # "absent" /\ runs[r].chat = c},
           approvals |-> {a \in ExistingApprovals : ChatOf(a) = c}] \in Deletion
      BY DEF Deletion, ExistingMsgs, ExistingApprovals
    <3>2. QED BY <1>25, <3>1 DEF DeleteRead
  <2>2. cancels' \subseteq Runs
    BY <1>25 DEF DeleteRead, ActiveRuns
  <2>3. QED BY <1>25, <2>1, <2>2 DEF DeleteRead
<1>26. ASSUME NEW c \in ChatIds, DeleteCommit(c) PROVE TypeOK'
  <2>1. chats' \subseteq ChatIds
    BY <1>26 DEF DeleteCommit
  <2>2. msgs' \in [MsgIds -> MsgRow]
    <3>1. [status |-> "absent", text |-> FALSE, chat |-> 0] \in MsgRow
      BY BoundsAssumption DEF MsgRow, MsgStatus
    <3>2. QED BY <1>26, <3>1 DEF DeleteCommit
  <2>3. runs' \in [Runs -> RunRow]
    <3>1. ASSUME NEW r \in Runs PROVE [runs[r] EXCEPT !.status = "absent"] \in RunRow
      BY DEF RunRow, RunStatus
    <3>2. QED BY <1>26, <3>1 DEF DeleteCommit
  <2>4. approvals' \in [Approvals -> ApprovalRow]
    <3>1. ASSUME NEW a \in Approvals
          PROVE  [approvals[a] EXCEPT !.status = "absent"] \in ApprovalRow
      BY DEF ApprovalRow, ApprovalStatus
    <3>2. QED BY <1>26, <3>1 DEF DeleteCommit
  <2>5. doomed' \in [ChatIds -> Deletion]
    BY <1>26 DEF DeleteCommit, Deletion, NoDelete
  <2>6. \A b \in Approvals : approvals'[b].run = NoRun =>
                              approvals'[b].status = "absent" /\ inflight'[b] = "none"
    BY <1>26 DEF DeleteCommit, ApprovalRow
  <2>7. QED BY <1>26, <2>1, <2>2, <2>3, <2>4, <2>5, <2>6 DEF DeleteCommit
<1>27. CASE Shutdown
  <2>1. runs' \in [Runs -> RunRow]
    <3>1. ASSUME NEW r \in Runs PROVE [runs[r] EXCEPT !.status = "cancelled"] \in RunRow
      BY DEF RunRow, RunStatus
    <3>2. QED BY <1>27, <3>1 DEF Shutdown
  <2>2. stops' \in 0..MaxStops
    BY <1>27, BoundsAssumption DEF Shutdown
  <2>3. QED BY <1>27, <2>1, <2>2 DEF Shutdown
<1>c2. LoseMemory => /\ LoopOK
                     /\ tasks' \in [Runs -> Stages]
                     /\ cancels' \subseteq Runs
                     /\ inflight' \in [Approvals -> {"none", "called", "returned"}]
                     /\ \A a \in Approvals : inflight'[a] = "none"
                     /\ doomed' \in [ChatIds -> Deletion]
  BY <1>a DEF LoseMemory, Stages, Deletion, NoDelete
<1>28. CASE Exit
  BY <1>28, <1>c2 DEF Exit, LoopOK
<1>29. CASE Crash
  <2>1. stops' \in 0..MaxStops
    BY <1>29, BoundsAssumption DEF Crash
  <2>2. QED BY <1>29, <1>c2, <2>1 DEF Crash, LoopOK
<1>30. CASE Recover
  <2>1. msgs' \in [MsgIds -> MsgRow]
    <3>1. ASSUME NEW m \in MsgIds
          PROVE  [msgs[m] EXCEPT !.status = "failed", !.text = TRUE] \in MsgRow
      <4>1. msgs[m] \in MsgRow
        OBVIOUS
      <4>2. QED BY <4>1 DEF MsgRow, MsgStatus
    <3>2. QED BY <1>30, <3>1 DEF Recover
  <2>2. runs' \in [Runs -> RunRow]
    <3>1. ASSUME NEW r \in Runs PROVE [runs[r] EXCEPT !.status = "failed"] \in RunRow
      BY DEF RunRow, RunStatus
    <3>2. QED BY <1>30, <3>1 DEF Recover
  <2>3. QED BY <1>30, <2>1, <2>2 DEF Recover
<1>32. QED
  <2> HIDE DEF TypeOK
  <2> QED
    BY <1>1, <1>2, <1>3, <1>4, <1>5, <1>6, <1>7, <1>8, <1>9, <1>10, <1>11, <1>12, <1>13,
       <1>14, <1>15, <1>16, <1>17, <1>18, <1>19, <1>20, <1>21, <1>22, <1>23, <1>24, <1>25,
       <1>26, <1>27, <1>28, <1>29, <1>30, <1>31
    DEF Next, LoopStep, TaskStep, HandlerStep

\* Type correctness of ChatRuns: rows, tasks and handlers keep the values the
\* code gives them, and an approval id that was never used has neither a row
\* nor a command in flight.
THEOREM TypeCorrect == Spec => []TypeOK
<1>1. Init => TypeOK
  BY InitType
<1>2. TypeOK /\ [Next]_vars => TypeOK'
  BY TypeStep
<1>3. QED
  BY <1>1, <1>2, PTL DEF Spec

-----------------------------------------------------------------------------
(* The approval gate.                                                      *)

\* The inductive invariant behind the gate: a command is in flight only under
\* a request that is executing (or whose row delete_chat removed), and it has
\* not run as long as the request is unused, pending, refused or on its way.
ApprovalInv ==
  \A a \in Approvals :
    /\ inflight[a] # "none" => approvals[a].status \in {"executing", "absent"}
    /\ approvals[a].status \in {"pending", "denied", "other"} => ran[a] = 0
    /\ approvals[a].run = NoRun => ran[a] = 0
    /\ inflight[a] = "called" => ran[a] = 0
    /\ ran[a] <= 1

LEMMA ApprovalInit == Init => ApprovalInv
BY DEF Init, ApprovalInv

LEMMA ApprovalStep == TypeOK /\ ApprovalInv /\ [Next]_vars => ApprovalInv'
<1> SUFFICES ASSUME TypeOK, ApprovalInv, [Next]_vars PROVE ApprovalInv'
  OBVIOUS
<1> USE DEF ApprovalInv, rows, ids, memory, life
<1>0. /\ approvals \in [Approvals -> ApprovalRow]
      /\ inflight \in [Approvals -> {"none", "called", "returned"}]
      /\ ran \in [Approvals -> Nat]
      /\ \A a \in Approvals : approvals[a].run = NoRun =>
           approvals[a].status = "absent" /\ inflight[a] = "none"
  BY DEF TypeOK
\* The actions that leave requests and commands alone.
<1>1. CASE UNCHANGED <<approvals, inflight, ran>>
  BY <1>1
<1>2. ASSUME NEW r \in Runs, NEW a \in Approvals, RaiseApproval(r, a)
      PROVE  ApprovalInv'
  BY <1>0, <1>2, NoRunAssumption DEF RaiseApproval, FreshApproval, ApprovalRow
<1>3. ASSUME NEW a \in Approvals, ExecuteCommand(a) PROVE ApprovalInv'
  BY <1>0, <1>3 DEF ExecuteCommand
<1>13. ASSUME NEW a \in Approvals, ExecuteRaises(a) PROVE ApprovalInv'
  BY <1>0, <1>13 DEF ExecuteRaises
<1>4. ASSUME NEW a \in Approvals, Continue(a) PROVE ApprovalInv'
  BY <1>0, <1>4 DEF Continue, ApprovalRow
<1>5. ASSUME NEW a \in Approvals, ContinueConflict(a) PROVE ApprovalInv'
  BY <1>0, <1>5 DEF ContinueConflict
<1>6. ASSUME NEW a \in Approvals, Approve(a) PROVE ApprovalInv'
  BY <1>0, <1>6 DEF Approve, Resolvable, ApprovalRow
<1>7. ASSUME NEW a \in Approvals, Deny(a) PROVE ApprovalInv'
  BY <1>0, <1>7 DEF Deny, Resolvable, ApprovalRow
<1>8. ASSUME NEW a \in Approvals, NEW r \in Runs, Other(a, r) PROVE ApprovalInv'
  BY <1>0, <1>8 DEF Other, Resolvable, ApprovalRow
<1>9. ASSUME NEW c \in ChatIds, DeleteCommit(c) PROVE ApprovalInv'
  BY <1>0, <1>9 DEF DeleteCommit, ApprovalRow
<1>10. CASE Exit
  BY <1>0, <1>10 DEF Exit, LoseMemory
<1>11. CASE Crash
  BY <1>0, <1>11 DEF Crash, LoseMemory
<1>14. QED
  <2>1. CASE CreateChat
    BY <1>1, <2>1 DEF CreateChat
  <2>2. ASSUME NEW c \in ChatIds, NEW r \in Runs, SendRead(c, r) PROVE ApprovalInv'
    BY <1>1, <2>2 DEF SendRead
  <2>3. CASE LoopStep
    BY <1>1, <2>3 DEF LoopStep, SendCommit, SendStart, Resume, PersistWaiting,
       PersistAsk, PersistFailed
  <2>4. ASSUME NEW r \in Runs, TaskStep(r) PROVE ApprovalInv'
    BY <1>1, <1>2, <2>4 DEF TaskStep, TaskStart, TaskToken, TaskFail, TaskUnwind,
       TaskFinish, TaskIngested, TaskLingered, AdoptApproval
  <2>5. ASSUME NEW c \in ChatIds, DeleteRead(c) PROVE ApprovalInv'
    BY <1>1, <2>5 DEF DeleteRead
  <2>6. CASE Shutdown
    BY <1>1, <2>6 DEF Shutdown
  <2>7. CASE Recover
    BY <1>1, <2>7 DEF Recover
  <2>8. CASE UNCHANGED vars
    BY <1>1, <2>8 DEF vars
  <2> HIDE DEF ApprovalInv
  <2>9. QED
    BY <1>3, <1>4, <1>5, <1>6, <1>7, <1>8, <1>9, <1>10, <1>11, <1>13, <2>1, <2>2, <2>3,
       <2>4, <2>5, <2>6, <2>7, <2>8 DEF Next, HandlerStep

LEMMA ApprovalSafe == Spec => []ApprovalInv
<1>1. QED
  BY ApprovalInit, ApprovalStep, TypeCorrect, PTL DEF Spec

\* README.md:476 `Risky commands require explicit UI approval': whatever users,
\* tasks, deletions and crashes do, a command runs at most once, and never
\* while its request is pending or after it was refused.
THEOREM OnceApproved == Spec => []RunsOnlyOnceApproved
<1>1. ApprovalInv => RunsOnlyOnceApproved
  BY DEF ApprovalInv, RunsOnlyOnceApproved
<1>2. QED
  BY <1>1, ApprovalSafe, PTL

-----------------------------------------------------------------------------
(* ChatRuns implements ApprovalGate.                                       *)

\* A step that changes one request maps to a step of that request.
LEMMA GateMove ==
  ASSUME NEW a \in Approvals, NEW g,
         \A b \in Approvals \ {a} :
           approvals'[b] = approvals[b] /\ inflight'[b] = inflight[b],
         GateOf(a)' = g
  PROVE  [b \in Approvals |-> GateOf(b)]' =
           [[b \in Approvals |-> GateOf(b)] EXCEPT ![a] = g]
<1>1. \A b \in Approvals \ {a} : GateOf(b)' = GateOf(b)
  BY DEF GateOf, FreshApproval
<1> DEFINE G == [b \in Approvals |-> GateOf(b)]
<1>2. G' = [b \in Approvals |-> IF b = a THEN g ELSE GateOf(b)]
  BY <1>1
<1>3. QED BY <1>2

\* Requests given up together map to Close.
LEMMA GateClose ==
  ASSUME NEW S \in SUBSET Approvals,
         \A a \in S : GateOf(a) # "none" /\ GateOf(a)' = "closed",
         \A a \in Approvals \ S : GateOf(a)' = GateOf(a),
         ran' = ran
  PROVE  Gate!Next
<1>1. Gate!Close(S)
  BY DEF Gate!Close
<1>2. QED BY <1>1 DEF Gate!Next

LEMMA GateInit == Init => Gate!Init
BY DEF Init, Gate!Init, GateOf, FreshApproval

\* Every step maps to one step of the gate or leaves it unchanged.
LEMMA GateStep == TypeOK /\ ApprovalInv /\ [Next]_vars => [Gate!Next]_(Gate!vars)
<1> SUFFICES ASSUME TypeOK, ApprovalInv, [Next]_vars
             PROVE  Gate!Next \/ UNCHANGED Gate!vars
  OBVIOUS
<1> USE DEF rows, ids, memory, life
<1>0. /\ approvals \in [Approvals -> ApprovalRow]
      /\ inflight \in [Approvals -> {"none", "called", "returned"}]
      /\ ran \in [Approvals -> Nat]
      /\ \A a \in Approvals : approvals[a].run = NoRun =>
           approvals[a].status = "absent" /\ inflight[a] = "none"
  BY DEF TypeOK
<1>a. \A a \in Approvals : inflight[a] # "none" => approvals[a].status \in {"executing", "absent"}
  BY DEF ApprovalInv
<1>1. ASSUME UNCHANGED <<approvals, inflight, ran>> PROVE UNCHANGED Gate!vars
  BY <1>1 DEF Gate!vars, GateOf, FreshApproval
<1>2. ASSUME NEW r \in Runs, NEW a \in Approvals, RaiseApproval(r, a)
      PROVE  Gate!Next
  <2>1. GateOf(a) = "none" /\ GateOf(a)' = "asked"
    BY <1>0, <1>2, NoRunAssumption DEF RaiseApproval, FreshApproval, GateOf
  <2>2. Gate!Ask(a)
    BY <1>0, <1>2, <2>1, GateMove DEF RaiseApproval, Gate!Ask
  <2>3. QED BY <2>2 DEF Gate!Next
<1>3. ASSUME NEW a \in Approvals, ExecuteCommand(a) PROVE Gate!Next
  <2>1. GateOf(a) = "allowed" /\ GateOf(a)' = "closed"
    BY <1>0, <1>a, <1>3 DEF ExecuteCommand, FreshApproval, GateOf
  <2>2. Gate!Execute(a)
    BY <1>0, <1>3, <2>1, GateMove DEF ExecuteCommand, Gate!Execute
  <2>3. QED BY <2>2 DEF Gate!Next
<1>12. ASSUME NEW a \in Approvals, ExecuteRaises(a) PROVE Gate!Next
  <2>1. GateOf(a) = "allowed" /\ GateOf(a)' = "closed"
    BY <1>0, <1>a, <1>12 DEF ExecuteRaises, FreshApproval, GateOf
  <2>2. Gate!Execute(a)
    BY <1>0, <1>12, <2>1, GateMove DEF ExecuteRaises, Gate!Execute
  <2>3. QED BY <2>2 DEF Gate!Next
<1>4. ASSUME NEW a \in Approvals, Continue(a) PROVE UNCHANGED Gate!vars
  <2>1. GateOf(a) = "closed" /\ GateOf(a)' = "closed"
    BY <1>0, <1>a, <1>4 DEF Continue, FreshApproval, GateOf, ApprovalRow
  <2>2. \A b \in Approvals : GateOf(b)' = GateOf(b)
    BY <1>0, <1>4, <2>1 DEF Continue, FreshApproval, GateOf
  <2>3. QED BY <1>4, <2>2 DEF Continue, Gate!vars
<1>5. ASSUME NEW a \in Approvals, ContinueConflict(a) PROVE UNCHANGED Gate!vars
  <2>1. GateOf(a) = "closed" /\ GateOf(a)' = "closed"
    BY <1>0, <1>a, <1>5 DEF ContinueConflict, FreshApproval, GateOf
  <2>2. \A b \in Approvals : GateOf(b)' = GateOf(b)
    BY <1>0, <1>5, <2>1 DEF ContinueConflict, FreshApproval, GateOf
  <2>3. QED BY <1>5, <2>2 DEF ContinueConflict, Gate!vars
<1>6. ASSUME NEW a \in Approvals, Approve(a) PROVE Gate!Next
  <2>1. GateOf(a) = "asked" /\ GateOf(a)' = "allowed"
    BY <1>0, <1>a, <1>6 DEF Approve, Resolvable, FreshApproval, GateOf
  <2>2. Gate!Allow(a)
    BY <1>0, <1>6, <2>1, GateMove DEF Approve, Gate!Allow
  <2>3. QED BY <2>2 DEF Gate!Next
<1>7. ASSUME NEW a \in Approvals, Deny(a) PROVE Gate!Next
  <2>1. GateOf(a) = "asked" /\ GateOf(a)' = "refused"
    BY <1>0, <1>a, <1>7 DEF Deny, Resolvable, FreshApproval, GateOf, ApprovalRow
  <2>2. Gate!Refuse(a)
    BY <1>0, <1>7, <2>1, GateMove DEF Deny, Gate!Refuse
  <2>3. QED BY <2>2 DEF Gate!Next
<1>8. ASSUME NEW a \in Approvals, NEW r \in Runs, Other(a, r) PROVE Gate!Next
  <2>1. GateOf(a) = "asked" /\ GateOf(a)' = "refused"
    BY <1>0, <1>a, <1>8 DEF Other, Resolvable, FreshApproval, GateOf, ApprovalRow
  <2>2. Gate!Refuse(a)
    BY <1>0, <1>8, <2>1, GateMove DEF Other, Gate!Refuse
  <2>3. QED BY <2>2 DEF Gate!Next
<1>9. ASSUME NEW c \in ChatIds, DeleteCommit(c) PROVE Gate!Next
  <2> DEFINE S == {a \in Approvals : /\ a \in doomed[c].approvals
                                     /\ inflight[a] # "called"
                                     /\ ~FreshApproval(a)}
  <2>1. \A a \in S : GateOf(a) # "none" /\ GateOf(a)' = "closed"
    BY <1>0, <1>9 DEF DeleteCommit, FreshApproval, GateOf, ApprovalRow
  <2>2. \A a \in Approvals \ S : GateOf(a)' = GateOf(a)
    BY <1>0, <1>9 DEF DeleteCommit, FreshApproval, GateOf, ApprovalRow
  <2>3. QED BY <1>9, <2>1, <2>2, GateClose DEF DeleteCommit
<1>10. ASSUME LoseMemory, UNCHANGED <<approvals, ran>> PROVE Gate!Next
  <2> DEFINE S == {a \in Approvals : inflight[a] = "called"}
  <2>1. \A a \in S : GateOf(a) # "none" /\ GateOf(a)' = "closed"
    BY <1>0, <1>a, <1>10 DEF LoseMemory, FreshApproval, GateOf
  <2>2. \A a \in Approvals \ S : GateOf(a)' = GateOf(a)
    BY <1>0, <1>10 DEF LoseMemory, FreshApproval, GateOf
  <2>3. QED BY <1>10, <2>1, <2>2, GateClose
<1>11. QED
  <2>1. CASE CreateChat
    BY <1>1, <2>1 DEF CreateChat
  <2>2. ASSUME NEW c \in ChatIds, NEW r \in Runs, SendRead(c, r)
        PROVE  UNCHANGED Gate!vars
    BY <1>1, <2>2 DEF SendRead
  <2>3. CASE LoopStep
    BY <1>1, <2>3 DEF LoopStep, SendCommit, SendStart, Resume, PersistWaiting,
       PersistAsk, PersistFailed
  <2>4. ASSUME NEW r \in Runs, TaskStep(r) PROVE Gate!Next \/ UNCHANGED Gate!vars
    BY <1>1, <1>2, <2>4 DEF TaskStep, TaskStart, TaskToken, TaskFail, TaskUnwind,
       TaskFinish, TaskIngested, TaskLingered, AdoptApproval
  <2>5. ASSUME NEW c \in ChatIds, DeleteRead(c) PROVE UNCHANGED Gate!vars
    BY <1>1, <2>5 DEF DeleteRead
  <2>6. CASE Shutdown
    BY <1>1, <2>6 DEF Shutdown
  <2>7. CASE Recover
    BY <1>1, <2>7 DEF Recover
  <2>8. CASE Exit \/ Crash
    BY <1>10, <2>8 DEF Exit, Crash
  <2>9. CASE UNCHANGED vars
    BY <1>1, <2>9 DEF vars
  <2>10. QED
    BY <1>3, <1>4, <1>5, <1>6, <1>7, <1>8, <1>9, <1>12, <2>1, <2>2, <2>3, <2>4, <2>5,
       <2>6, <2>7, <2>8, <2>9 DEF Next, HandlerStep

\* README.md:310-326, the approval flow: the rows, handlers and worker threads
\* of ChatRuns together behave as the gate of ApprovalGate, for any number of
\* runs and approvals, through deletions, shutdowns and crashes.
THEOREM ImplementsGate == Spec => GateSpec
<1>1. QED
  BY GateInit, GateStep, TypeCorrect, ApprovalSafe, PTL DEF Spec, GateSpec, Gate!Spec

-----------------------------------------------------------------------------
(* Why a chat never has two active runs, whether row ids are reused or     *)
(* not: a run has one owner at a time (OneDriver), and a run that is owned *)
(* is active until its owner says otherwise.                               *)

\* A run id that was never used is nobody's.
FreshClean ==
  \A r \in Runs : FreshRun(r) =>
    /\ runs[r].status = "absent" /\ tasks[r] = "none" /\ loop.run # r
    /\ \A a \in Approvals : approvals[a].run # r

\* r is active, unless delete_chat removed its row.
Quiet(r) == runs[r].status \in Active \cup {"absent"}

\* The task of r goes on: it is neither cancelled nor has it given r its last
\* status.
Working(r) ==
  /\ tasks[r] \in {"created", "waiting", "streaming"}
  /\ r \notin cancels
  /\ ~(loop.run = r /\ loop.at \in {"ask", "fail"})

\* A run with a command in flight, a working task or a task about to start is
\* active: writing "running" to it activates no further run.
DrivenQuiet ==
  /\ \A a \in Approvals : inflight[a] # "none" => Quiet(approvals[a].run)
  /\ \A r \in Runs : Working(r) => Quiet(r)
  /\ loop.at \in {"start", "resume"} => Quiet(loop.run)

\* Between the checks and the commit of send_message no run becomes active.
SendClear == loop.at = "send" => ActiveRuns(runs[loop.run].chat) = {}

\* A process that is down has no memory.
DownEmpty ==
  phase = "down" => /\ loop = Idle
                    /\ \A r \in Runs : tasks[r] = "none"
                    /\ \A a \in Approvals : inflight[a] = "none"

Ownership == OneDriver /\ FreshClean /\ DownEmpty
Activity == DrivenQuiet /\ SendClear /\ OneActiveRun

LEMMA ExclusionInit == Init => Ownership /\ Activity
BY NoRunAssumption DEF Init, Ownership, Activity, OneDriver, FreshClean, FreshRun, DownEmpty,
   DrivenQuiet, Working, Quiet, SendClear, OneActiveRun, Open, Idle, Active, ActiveRuns

\* Between two stretches of the event loop a run with an open request has no
\* task.
LEMMA OpenHasNoTask ==
  ASSUME Ownership, loop = Idle
  PROVE  \A a \in Approvals : Open(a) => tasks[approvals[a].run] = "none"
<1> SUFFICES ASSUME NEW a \in Approvals, Open(a), tasks[approvals[a].run] # "none"
             PROVE  FALSE
  OBVIOUS
<1>1. loop \in {At("wait", approvals[a].run), At("ask", approvals[a].run)}
  BY DEF Ownership, OneDriver
<1>2. loop.at \in {"wait", "ask"}
  BY <1>1 DEF At
<1>3. QED BY <1>2 DEF Idle

LEMMA OwnershipStep == TypeOK /\ ApprovalInv /\ Ownership /\ [Next]_vars => Ownership'
<1> SUFFICES ASSUME TypeOK, ApprovalInv, Ownership, [Next]_vars PROVE Ownership'
  OBVIOUS
<1> USE DEF Ownership, OneDriver, FreshClean, FreshRun, DownEmpty, Open, Idle, At, RunRow, ApprovalRow,
     rows, ids, memory, life
<1>0. /\ runs \in [Runs -> RunRow]
      /\ approvals \in [Approvals -> ApprovalRow]
      /\ loop \in [at: Places, run: Runs \cup {NoRun}]
      /\ loop.at # "idle" => loop.run \in Runs
      /\ tasks \in [Runs -> Stages]
      /\ inflight \in [Approvals -> {"none", "called", "returned"}]
      /\ \A a \in Approvals : approvals[a].run = NoRun =>
           approvals[a].status = "absent" /\ inflight[a] = "none"
      /\ \A a \in Approvals : inflight[a] # "none" =>
           approvals[a].status \in {"executing", "absent"}
      /\ NoRun \notin Runs
  BY NoRunAssumption DEF TypeOK, ApprovalInv
<1>1. CASE CreateChat
  BY <1>0, <1>1 DEF CreateChat
<1>2. CASE SendCommit
  BY <1>0, <1>2 DEF SendCommit, InsertTurn
<1>3. CASE SendStart
  BY <1>0, <1>3 DEF SendStart
<1>4. CASE Resume
  BY <1>0, <1>4 DEF Resume
<1>5. CASE PersistWaiting
  BY <1>0, <1>5 DEF PersistWaiting, UpdateRun
<1>6. CASE PersistAsk
  BY <1>0, <1>6 DEF PersistAsk, EndTask
<1>7. CASE PersistFailed
  BY <1>0, <1>7 DEF PersistFailed, EndTask
<1>8. ASSUME NEW c \in ChatIds, NEW r \in Runs, SendRead(c, r) PROVE Ownership'
  <2>1. tasks[r] = "none" /\ \A a \in Approvals : approvals[a].run # r
    BY <1>0, <1>8 DEF SendRead
  <2>2. OneDriver'
    BY <1>0, <1>8, <2>1 DEF SendRead, Serving
  <2>3. FreshClean' /\ DownEmpty'
    BY <1>0, <1>8 DEF SendRead, Serving, ChatIds
  <2>4. QED BY <2>2, <2>3
<1>9. ASSUME NEW r \in Runs, TaskStart(r) PROVE Ownership'
  BY <1>0, <1>9 DEF TaskStart, Wakes, UpdateRun
<1>10. ASSUME NEW r \in Runs, TaskToken(r) PROVE Ownership'
  BY <1>0, <1>10, SMTT(60) DEF TaskToken, Wakes, UpdateRun
<1>11. ASSUME NEW r \in Runs, TaskFail(r) PROVE Ownership'
  BY <1>0, <1>11, SMTT(60) DEF TaskFail, Wakes, UpdateRun
<1>12. ASSUME NEW r \in Runs, TaskUnwind(r) PROVE Ownership'
  <2>1. CASE loop' = At("fail", r) /\ tasks[r] \in {"waiting", "streaming"} /\ UNCHANGED tasks
    <3>1. OneDriver'
      BY <1>0, <1>12, <2>1, SMTT(60) DEF TaskUnwind
    <3>2. FreshClean' /\ DownEmpty'
      BY <1>0, <1>12, <2>1 DEF TaskUnwind, UpdateRun
    <3>3. QED BY <3>1, <3>2
  <2>2. CASE EndTask(r) /\ UNCHANGED <<runs, loop>>
    BY <1>0, <1>12, <2>2 DEF TaskUnwind, EndTask
  <2>3. QED BY <1>12, <2>1, <2>2 DEF TaskUnwind
<1>13. ASSUME NEW r \in Runs, TaskFinish(r) PROVE Ownership'
  BY <1>0, <1>13 DEF TaskFinish, Wakes
<1>14. ASSUME NEW r \in Runs, TaskIngested(r) PROVE Ownership'
  BY <1>0, <1>14 DEF TaskIngested, Wakes, UpdateRun
<1>15. ASSUME NEW r \in Runs, TaskLingered(r) PROVE Ownership'
  BY <1>0, <1>15 DEF TaskLingered, Wakes, EndTask
<1>16. ASSUME NEW r \in Runs, AdoptApproval(r) PROVE Ownership'
  BY <1>0, <1>16 DEF AdoptApproval, Wakes
<1>17. ASSUME NEW r \in Runs, NEW a \in Approvals, RaiseApproval(r, a) PROVE Ownership'
  <2>1. tasks[r] \in {"waiting", "streaming"} /\ loop = Idle
    BY <1>17 DEF RaiseApproval, Wakes
  <2>2. \A b \in Approvals : approvals[b].run = r => ~Open(b)
    <3> HIDE DEF Ownership, Open
    <3>1. \A b \in Approvals : Open(b) => tasks[approvals[b].run] = "none"
      BY <2>1, OpenHasNoTask
    <3>2. QED BY <2>1, <3>1
  <2>3. inflight[a] = "none" /\ approvals'[a] = [status |-> "pending", run |-> r]
    BY <1>0, <1>17 DEF RaiseApproval, FreshApproval
  <2>4. \A b \in Approvals \ {a} : approvals'[b] = approvals[b]
    BY <1>0, <1>17 DEF RaiseApproval
  <2>5. OneDriver'
    BY <1>0, <1>17, <2>1, <2>2, <2>3, <2>4 DEF RaiseApproval
  <2>6. FreshClean' /\ DownEmpty'
    BY <1>0, <1>17, <2>1, <2>3, <2>4 DEF RaiseApproval, Wakes
  <2>7. QED BY <2>5, <2>6
<1>18. ASSUME NEW a \in Approvals, ExecuteCommand(a) PROVE Ownership'
  BY <1>0, <1>18 DEF ExecuteCommand
<1>32. ASSUME NEW a \in Approvals, ExecuteRaises(a) PROVE Ownership'
  BY <1>0, <1>32 DEF ExecuteRaises
<1>19. ASSUME NEW a \in Approvals, Continue(a) PROVE Ownership'
  <2> DEFINE r == approvals[a].run
  <2>1. r \in Runs /\ tasks[r] = "none" /\ runs[r].chat # 0 /\ loop = Idle
    <3>1. loop = Idle /\ inflight[a] = "returned"
      BY <1>19 DEF Continue, Serving
    <3>2. approvals[a] \in ApprovalRow /\ r # NoRun /\ Open(a)
      BY <1>0, <3>1
    <3>3. r \in Runs /\ runs[r].chat # 0
      BY <3>2 DEF FreshClean, FreshRun
    <3>4. tasks[r] = "none"
      BY <3>1, <3>2, OpenHasNoTask
    <3>5. QED BY <3>1, <3>3, <3>4
  <2>2. \A b \in Approvals : approvals'[b].run = approvals[b].run
    BY <1>0, <1>19 DEF Continue
  <2>3. \A b \in Approvals : Open(b)' => Open(b) /\ b # a
    BY <1>0, <1>19 DEF Continue
  <2>4. loop' = At("resume", r) /\ tasks' = tasks
    BY <1>19 DEF Continue
  <2>5. \A b \in Approvals : Open(b)' => approvals[b].run # r
    BY <1>0, <1>19, <2>3 DEF Continue
  <2>6. OneDriver'
    BY <1>0, <2>1, <2>2, <2>3, <2>4, <2>5
  <2>7. FreshClean' /\ DownEmpty'
    BY <1>0, <1>19, <2>1, <2>2 DEF Continue, Serving
  <2>8. QED BY <2>6, <2>7
<1>20. ASSUME NEW a \in Approvals, ContinueConflict(a) PROVE Ownership'
  BY <1>0, <1>20 DEF ContinueConflict, Serving
<1>21. ASSUME NEW a \in Approvals, Approve(a) PROVE Ownership'
  BY <1>0, <1>21 DEF Approve, Resolvable, Serving, UpdateRun, ChatOf
<1>22. ASSUME NEW a \in Approvals, Deny(a) PROVE Ownership'
  BY <1>0, <1>22 DEF Deny, Resolvable, Serving, UpdateRun, ChatOf
<1>23. ASSUME NEW r \in Runs, NEW a \in Approvals, Other(a, r) PROVE Ownership'
  BY <1>0, <1>23 DEF Other, Resolvable, Serving, ChatOf
<1>24. ASSUME NEW c \in ChatIds, DeleteRead(c) PROVE Ownership'
  BY <1>0, <1>24 DEF DeleteRead
<1>25. ASSUME NEW c \in ChatIds, DeleteCommit(c) PROVE Ownership'
  BY <1>0, <1>25 DEF DeleteCommit
<1>26. CASE Shutdown
  BY <1>0, <1>26 DEF Shutdown, Serving
<1>27. CASE Exit
  BY <1>0, <1>27 DEF Exit, LoseMemory
<1>28. CASE Crash
  BY <1>0, <1>28 DEF Crash, LoseMemory
<1>29. CASE Recover
  <2>1. /\ runs' = [r \in Runs |-> IF runs[r].status \in Active
                     THEN [runs[r] EXCEPT !.status = "failed"] ELSE runs[r]]
        /\ UNCHANGED <<approvals, loop, tasks, inflight>>
        /\ phase' = "up"
    BY <1>29, Zenon DEF Recover
  <2>2. OneDriver' /\ DownEmpty'
    BY <1>0, <2>1
  <2>3. \A r \in Runs : runs'[r].chat = runs[r].chat
                     /\ (runs[r].status = "absent" => runs'[r].status = "absent")
    BY <1>0, <2>1 DEF Active
  <2>4. FreshClean'
    BY <1>0, <2>1, <2>3
  <2>5. QED BY <2>2, <2>4
<1>30. CASE UNCHANGED vars
  BY <1>30 DEF vars
<1> HIDE DEF Ownership
<1>31. QED
  BY <1>1, <1>2, <1>3, <1>4, <1>5, <1>6, <1>7, <1>8, <1>9, <1>10, <1>11, <1>12, <1>13, <1>14, <1>15, <1>16, <1>17, <1>18, <1>19, <1>20, <1>21, <1>22, <1>23, <1>24, <1>25, <1>26, <1>27, <1>28, <1>29, <1>30, <1>32 DEF Next, LoopStep, TaskStep, HandlerStep

\* With the loop idle a run that has a task has no open request.
LEMMA TaskAlone ==
  ASSUME OneDriver, loop = Idle
  PROVE  \A a \in Approvals : Open(a) => tasks[approvals[a].run] = "none"
<1> SUFFICES ASSUME NEW a \in Approvals, Open(a), tasks[approvals[a].run] # "none"
             PROVE  FALSE
  OBVIOUS
<1>1. loop \in {At("wait", approvals[a].run), At("ask", approvals[a].run)}
  BY DEF OneDriver
<1>2. QED BY <1>1 DEF At, Idle

LEMMA ActivityStep ==
  TypeOK /\ ApprovalInv /\ Ownership /\ Activity /\ [Next]_vars => Activity'
<1> SUFFICES ASSUME TypeOK, ApprovalInv, Ownership, Activity, [Next]_vars
             PROVE  Activity'
  OBVIOUS
<1> USE DEF Activity, DrivenQuiet, Working, Quiet, SendClear, OneActiveRun, ActiveRuns,
     Ownership, OneDriver, FreshClean, FreshRun, DownEmpty, Open, Idle, At, Active,
     RunRow, ApprovalRow, rows, ids, memory, life
<1>0. /\ runs \in [Runs -> RunRow]
      /\ approvals \in [Approvals -> ApprovalRow]
      /\ loop \in [at: Places, run: Runs \cup {NoRun}]
      /\ loop.at # "idle" => loop.run \in Runs
      /\ tasks \in [Runs -> Stages]
      /\ inflight \in [Approvals -> {"none", "called", "returned"}]
      /\ \A a \in Approvals : approvals[a].run = NoRun =>
           approvals[a].status = "absent" /\ inflight[a] = "none"
      /\ \A a \in Approvals : inflight[a] # "none" =>
           approvals[a].status \in {"executing", "absent"}
      /\ NoRun \notin Runs
  BY NoRunAssumption DEF TypeOK, ApprovalInv
<1>a. ASSUME NEW r \in Runs, NEW t \in {"failed", "cancelled", "complete", "denied"},
             UpdateRun(r, t),
             \A a \in Approvals : approvals[a].run = r => inflight[a] = "none",
             inflight' = inflight,
             \A a \in Approvals : approvals'[a].run = approvals[a].run,
             ~Working(r)',
             \A q \in Runs \ {r} : Working(q)' => Working(q),
             loop'.at \notin {"start", "resume", "send"}
      PROVE  Activity'
  <2>1. \A q \in Runs : runs'[q].chat = runs[q].chat
                     /\ (q # r => runs'[q] = runs[q])
                     /\ (runs'[q].status \in Active => runs[q].status \in Active)
    BY <1>0, <1>a DEF UpdateRun
  <2>2. OneActiveRun'
    BY <2>1
  <2>3. \A a \in Approvals : inflight'[a] # "none" => Quiet(approvals[a].run)'
    BY <1>0, <1>a, <2>1
  <2>4. \A q \in Runs : Working(q)' => Quiet(q)'
    BY <1>0, <1>a, <2>1
  <2>5. SendClear' /\ ~(loop'.at \in {"start", "resume"})
    BY <1>a
  <2>6. QED BY <2>2, <2>3, <2>4, <2>5
<1>b. ASSUME NEW r \in Runs, loop = Idle, tasks[r] # "none"
      PROVE  \A a \in Approvals : approvals[a].run = r => inflight[a] = "none"
  BY <1>b, TaskAlone
<1>1. CASE CreateChat
  BY <1>0, <1>1 DEF CreateChat
<1>2. CASE SendCommit
  BY <1>0, <1>2 DEF SendCommit, InsertTurn
<1>3. CASE SendStart
  BY <1>0, <1>3 DEF SendStart
<1>4. CASE Resume
  BY <1>0, <1>4 DEF Resume
<1>5. CASE PersistWaiting
  BY <1>0, <1>5 DEF PersistWaiting, UpdateRun
<1>6. CASE PersistAsk
  BY <1>0, <1>6 DEF PersistAsk, EndTask
<1>7. CASE PersistFailed
  BY <1>0, <1>7 DEF PersistFailed, EndTask
<1>8. ASSUME NEW c \in ChatIds, NEW r \in Runs, SendRead(c, r) PROVE Activity'
  BY <1>0, <1>8 DEF SendRead, Serving
<1>9. ASSUME NEW r \in Runs, TaskStart(r) PROVE Activity'
  BY <1>0, <1>9 DEF TaskStart, Wakes, UpdateRun
<1>10. ASSUME NEW r \in Runs, TaskToken(r) PROVE Activity'
  BY <1>0, <1>10 DEF TaskToken, Wakes, UpdateRun
<1>11. ASSUME NEW r \in Runs, TaskFail(r) PROVE Activity'
  <2>1. loop' = At("fail", r) /\ UNCHANGED <<tasks, cancels, approvals, inflight>>
        /\ UpdateRun(r, "failed") /\ tasks[r] # "none" /\ loop = Idle
    BY <1>11 DEF TaskFail, Wakes
  <2>2. ~Working(r)' /\ \A q \in Runs \ {r} : Working(q)' => Working(q)
    BY <1>0, <2>1
  <2>3. \A a \in Approvals : approvals[a].run = r => inflight[a] = "none"
    BY <1>b, <2>1
  <2>4. QED BY <1>a, <2>1, <2>2, <2>3
<1>12. ASSUME NEW r \in Runs, TaskUnwind(r) PROVE Activity'
  <2>1. CASE /\ loop' = At("fail", r) /\ UNCHANGED <<tasks, cancels>>
             /\ UpdateRun(r, "cancelled") /\ tasks[r] # "none"
    <3>1. UNCHANGED <<approvals, inflight>> /\ loop = Idle
      BY <1>12 DEF TaskUnwind
    <3>2. ~Working(r)' /\ \A q \in Runs \ {r} : Working(q)' => Working(q)
      BY <1>0, <2>1, <3>1
    <3>3. \A a \in Approvals : approvals[a].run = r => inflight[a] = "none"
      BY <1>b, <2>1, <3>1
    <3>4. QED BY <1>a, <2>1, <3>1, <3>2, <3>3
  <2>2. CASE EndTask(r) /\ UNCHANGED <<runs, loop>>
    BY <1>0, <1>12, <2>2 DEF TaskUnwind, EndTask
  <2>3. QED BY <1>12, <2>1, <2>2 DEF TaskUnwind
<1>13. ASSUME NEW r \in Runs, TaskFinish(r) PROVE Activity'
  BY <1>0, <1>13 DEF TaskFinish, Wakes
<1>14. ASSUME NEW r \in Runs, TaskIngested(r) PROVE Activity'
  <2>1. /\ UpdateRun(r, "complete") /\ tasks[r] = "ingest" /\ loop = Idle
        /\ tasks' = [tasks EXCEPT ![r] = "linger"]
        /\ UNCHANGED <<approvals, inflight, loop, cancels>>
    BY <1>14 DEF TaskIngested, Wakes
  <2>2. ~Working(r)' /\ \A q \in Runs \ {r} : Working(q)' => Working(q)
    BY <1>0, <2>1
  <2>3. \A a \in Approvals : approvals[a].run = r => inflight[a] = "none"
    BY <1>b, <2>1
  <2>4. QED BY <1>a, <2>1, <2>2, <2>3
<1>15. ASSUME NEW r \in Runs, TaskLingered(r) PROVE Activity'
  BY <1>0, <1>15 DEF TaskLingered, Wakes, EndTask
<1>16. ASSUME NEW r \in Runs, AdoptApproval(r) PROVE Activity'
  BY <1>0, <1>16 DEF AdoptApproval, Wakes
<1>17. ASSUME NEW r \in Runs, NEW a \in Approvals, RaiseApproval(r, a) PROVE Activity'
  BY <1>0, <1>17 DEF RaiseApproval, Wakes, FreshApproval
<1>18. ASSUME NEW a \in Approvals, ExecuteCommand(a) PROVE Activity'
  BY <1>0, <1>18 DEF ExecuteCommand
<1>32. ASSUME NEW a \in Approvals, ExecuteRaises(a) PROVE Activity'
  BY <1>0, <1>32 DEF ExecuteRaises
<1>19. ASSUME NEW a \in Approvals, Continue(a) PROVE Activity'
  BY <1>0, <1>19 DEF Continue, Serving
<1>20. ASSUME NEW a \in Approvals, ContinueConflict(a) PROVE Activity'
  BY <1>0, <1>20 DEF ContinueConflict, Serving
<1>21. ASSUME NEW a \in Approvals, Approve(a) PROVE Activity'
  <2> DEFINE r == approvals[a].run
             c == ChatOf(a)
  <2>1. /\ loop = Idle /\ approvals[a].status = "pending"
        /\ ActiveRuns(c) \subseteq {r} /\ UpdateRun(r, "running")
        /\ approvals' = [approvals EXCEPT ![a].status = "executing"]
        /\ inflight' = [inflight EXCEPT ![a] = "called"]
        /\ UNCHANGED <<loop, tasks, cancels>>
    BY <1>21 DEF Approve, Resolvable, Serving
  <2>2. r \in Runs
    BY <1>0, <2>1
  <2>3. \A b \in Approvals : approvals'[b].run = approvals[b].run
    BY <1>0, <2>1
  <2>4. /\ \A q \in Runs \ {r} : runs'[q] = runs[q]
        /\ runs'[r].status \in {"running", "absent"} /\ runs'[r].chat = c
    BY <1>0, <2>1, <2>2 DEF UpdateRun, ChatOf
  <2>5. \A q \in Runs : runs'[q].status \in Active /\ runs'[q].chat = c => q = r
    BY <2>1, <2>4
  <2> HIDE DEF r, c
  <2>6. OneActiveRun'
    BY <2>4, <2>5
  <2>7. DrivenQuiet'
    <3>1. \A b \in Approvals : inflight'[b] # "none" => Quiet(approvals[b].run)'
      BY <1>0, <2>1, <2>4 DEF r
    <3>2. \A q \in Runs : Working(q)' => Quiet(q)'
      BY <1>0, <2>1, <2>4
    <3>3. QED BY <1>0, <2>1, <2>3, <2>4, <3>1, <3>2
  <2>8. QED BY <1>0, <2>1, <2>6, <2>7
<1>22. ASSUME NEW a \in Approvals, Deny(a) PROVE Activity'
  <2> DEFINE r == approvals[a].run
  <2>1. /\ loop = Idle /\ approvals[a].status = "pending" /\ UpdateRun(r, "denied")
        /\ approvals' = [approvals EXCEPT ![a].status = "denied"]
        /\ UNCHANGED <<inflight, loop, tasks, cancels>>
    BY <1>22 DEF Deny, Resolvable, Serving
  <2>2. r \in Runs /\ tasks[r] = "none" /\ inflight[a] = "none"
    <3>1. approvals[a] \in ApprovalRow /\ r # NoRun /\ inflight[a] = "none"
      BY <1>0, <2>1
    <3>2. Open(a)
      BY <2>1
    <3>3. QED BY <3>1, <3>2, <2>1
  <2>3. \A b \in Approvals : approvals[b].run = r => inflight[b] = "none"
    BY <1>0, <2>1, <2>2
  <2>4. \A b \in Approvals : approvals'[b].run = approvals[b].run
    BY <1>0, <2>1
  <2> HIDE DEF r
  <2>5. QED BY <1>0, <1>a, <2>1, <2>2, <2>3, <2>4
<1>23. ASSUME NEW r \in Runs, NEW a \in Approvals, Other(a, r) PROVE Activity'
  <2> DEFINE c == ChatOf(a)
             old == approvals[a].run
  <2>1. /\ loop = Idle /\ approvals[a].status = "pending" /\ FreshRun(r)
        /\ c \in chats /\ ActiveRuns(c) \subseteq {old}
        /\ approvals' = [approvals EXCEPT ![a].status = "other"]
        /\ loop' = At("resume", r)
        /\ UNCHANGED <<inflight, tasks, cancels>>
    BY <1>23 DEF Other, Resolvable, Serving
  <2>2. PICK m \in MsgIds : runs' = [q \in Runs |->
                     IF q = r THEN [status |-> "pending", chat |-> c, msg |-> m]
                     ELSE IF q = old /\ runs[q].status # "absent"
                     THEN [runs[q] EXCEPT !.status = "other"]
                     ELSE runs[q]]
    BY <1>23, Zenon DEF Other
  <2>3. /\ old \in Runs /\ old # r /\ tasks[old] = "none" /\ inflight[a] = "none"
        /\ tasks[r] = "none"
    <3>1. approvals[a] \in ApprovalRow /\ old # NoRun /\ inflight[a] = "none"
      BY <1>0, <2>1
    <3>2. Open(a)
      BY <2>1
    <3>3. old # r /\ tasks[r] = "none"
      BY <2>1
    <3>4. QED BY <3>1, <3>2, <3>3, <2>1
  <2>4. /\ \A b \in Approvals : inflight[b] # "none" => approvals[b].run \notin {old, r}
        /\ \A b \in Approvals : approvals'[b].run = approvals[b].run
    BY <1>0, <2>1, <2>3
  <2>5. /\ \A q \in Runs \ {r, old} : runs'[q] = runs[q]
        /\ runs'[r].status = "pending" /\ runs'[r].chat = c
        /\ runs'[old].status \in {"other", "absent"} /\ runs'[old].chat = c
    BY <1>0, <2>2, <2>3 DEF ChatOf
  <2> HIDE DEF c, old
  <2>6. OneActiveRun'
    <3>1. \A q \in Runs : runs[q].status \in Active /\ runs[q].chat = c => q = old
      BY <2>1
    <3>2. runs'[old].status \notin Active
      BY <2>5
    <3>3. \A q \in Runs \ {r} : runs'[q].status \in Active =>
            /\ runs'[q] = runs[q]
            /\ runs'[q].chat # c
      BY <3>1, <3>2, <2>5
    <3>4. \A p, q \in Runs \ {r} : runs'[p].status \in Active /\ runs'[q].status \in Active
            /\ runs'[p].chat = runs'[q].chat => p = q
      BY <3>3
    <3>5. QED BY <3>3, <3>4, <2>5
  <2>7. \A b \in Approvals : inflight'[b] # "none" => Quiet(approvals[b].run)'
    BY <1>0, <2>1, <2>4, <2>5
  <2>8. \A q \in Runs : Working(q)' => Quiet(q)'
    BY <1>0, <2>1, <2>3, <2>5, SMTT(60)
  <2>9. QED BY <1>0, <2>1, <2>5, <2>6, <2>7, <2>8
<1>24. ASSUME NEW c \in ChatIds, DeleteRead(c) PROVE Activity'
  BY <1>0, <1>24 DEF DeleteRead
<1>25. ASSUME NEW c \in ChatIds, DeleteCommit(c) PROVE Activity'
  BY <1>0, <1>25 DEF DeleteCommit
<1>26. CASE Shutdown
  BY <1>0, <1>26 DEF Shutdown, Serving
<1>27. CASE Exit
  BY <1>0, <1>27 DEF Exit, LoseMemory
<1>28. CASE Crash
  BY <1>0, <1>28 DEF Crash, LoseMemory
<1>29. CASE Recover
  <2>1. /\ phase = "down"
        /\ runs' = [r \in Runs |-> IF runs[r].status \in Active
                     THEN [runs[r] EXCEPT !.status = "failed"] ELSE runs[r]]
        /\ UNCHANGED <<approvals, loop, tasks, inflight>>
    BY <1>29, Zenon DEF Recover
  <2>2. loop = Idle /\ (\A r \in Runs : tasks[r] = "none")
        /\ \A a \in Approvals : inflight[a] = "none"
    BY <2>1
  <2>3. \A r \in Runs : runs'[r].status \notin Active
    BY <1>0, <2>1
  <2>4. QED BY <1>0, <2>1, <2>2, <2>3
<1>30. CASE UNCHANGED vars
  BY <1>30 DEF vars
<1> HIDE DEF Activity
<1>31. QED
  BY <1>1, <1>2, <1>3, <1>4, <1>5, <1>6, <1>7, <1>8, <1>9, <1>10, <1>11, <1>12, <1>13, <1>14, <1>15, <1>16, <1>17, <1>18, <1>19, <1>20, <1>21, <1>22, <1>23, <1>24, <1>25, <1>26, <1>27, <1>28, <1>29, <1>30, <1>32 DEF Next, LoopStep, TaskStep, HandlerStep

LEMMA ActivityInv == Spec => [](Ownership /\ Activity)
<1>1. TypeOK /\ ApprovalInv /\ Ownership /\ Activity /\ [Next]_vars
      => (Ownership /\ Activity)'
  BY OwnershipStep, ActivityStep
<1>2. QED
  BY <1>1, ExclusionInit, TypeCorrect, ApprovalSafe, PTL DEF Spec

\* A run is never owned by its task, a stretch of a handler and an open
\* request at once, whatever users, tasks, deletions and crashes do.
THEOREM OneOwner == Spec => []OneDriver
<1>1. Ownership => OneDriver
  BY DEF Ownership
<1>2. QED BY <1>1, ActivityInv, PTL

\* models_db.py:75-83, the index ux_agent_runs_one_active_chat: the checks of
\* send_message and resolve_approval alone keep a chat at one active run, with
\* the index needed only where Continue inserts the run again.
THEOREM OneActive == Spec => []OneActiveRun
<1>1. Activity => OneActiveRun
  BY DEF Activity
<1>2. QED BY <1>1, ActivityInv, PTL

-----------------------------------------------------------------------------
(* A closed run is never reopened.                                         *)

\* The run of a pending request is not closed, and the run send_message is
\* about to insert has no row.
Reopenable ==
  /\ \A a \in Approvals : approvals[a].status = "pending" =>
       runs[approvals[a].run].status \in Active \cup {"absent", "waiting_approval", "failed"}
  /\ loop.at = "send" => runs[loop.run].status = "absent"

LEMMA ReopenableStep ==
  TypeOK /\ ApprovalInv /\ Ownership /\ Activity /\ Reopenable /\ [Next]_vars => Reopenable'
<1> SUFFICES ASSUME TypeOK, ApprovalInv, Ownership, Activity, Reopenable, [Next]_vars
             PROVE  Reopenable'
  OBVIOUS
<1> USE DEF Reopenable, Activity, DrivenQuiet, Working, Quiet,
     Ownership, OneDriver, FreshClean, FreshRun, DownEmpty, Open, Idle, At, Active,
     RunRow, ApprovalRow, rows, ids, memory, life
<1>0. /\ runs \in [Runs -> RunRow]
      /\ approvals \in [Approvals -> ApprovalRow]
      /\ loop \in [at: Places, run: Runs \cup {NoRun}]
      /\ loop.at # "idle" => loop.run \in Runs
      /\ tasks \in [Runs -> Stages]
      /\ inflight \in [Approvals -> {"none", "called", "returned"}]
      /\ \A a \in Approvals : approvals[a].run = NoRun =>
           approvals[a].status = "absent" /\ inflight[a] = "none"
      /\ \A a \in Approvals : inflight[a] # "none" =>
           approvals[a].status \in {"executing", "absent"}
      /\ NoRun \notin Runs
  BY NoRunAssumption DEF TypeOK, ApprovalInv
<1>1. CASE CreateChat
  BY <1>0, <1>1 DEF CreateChat
<1>2. CASE SendCommit
  BY <1>0, <1>2 DEF SendCommit, InsertTurn
<1>3. CASE SendStart
  BY <1>0, <1>3 DEF SendStart
<1>4. CASE Resume
  BY <1>0, <1>4 DEF Resume
<1>5. CASE PersistWaiting
  BY <1>0, <1>5 DEF PersistWaiting, UpdateRun
<1>6. CASE PersistAsk
  BY <1>0, <1>6 DEF PersistAsk, EndTask
<1>7. CASE PersistFailed
  BY <1>0, <1>7 DEF PersistFailed, EndTask
<1>8. ASSUME NEW c \in ChatIds, NEW r \in Runs, SendRead(c, r) PROVE Reopenable'
  BY <1>0, <1>8 DEF SendRead, Serving
<1>9. ASSUME NEW r \in Runs, TaskStart(r) PROVE Reopenable'
  BY <1>0, <1>9 DEF TaskStart, Wakes, UpdateRun
<1>10. ASSUME NEW r \in Runs, TaskToken(r) PROVE Reopenable'
  BY <1>0, <1>10 DEF TaskToken, Wakes, UpdateRun
<1>11. ASSUME NEW r \in Runs, TaskFail(r) PROVE Reopenable'
  BY <1>0, <1>11 DEF TaskFail, Wakes, UpdateRun
<1>12. ASSUME NEW r \in Runs, TaskUnwind(r) PROVE Reopenable'
  <2>1. \A a \in Approvals : approvals[a].status = "pending" => tasks[approvals[a].run] = "none"
    BY <1>12, TaskAlone DEF TaskUnwind
  <2>2. CASE /\ loop' = At("fail", r) /\ UNCHANGED approvals
             /\ UpdateRun(r, "cancelled") /\ tasks[r] # "none"
    <3>1. \A a \in Approvals : approvals[a].status = "pending" =>
            runs'[approvals[a].run] = runs[approvals[a].run]
      BY <1>0, <2>1, <2>2 DEF UpdateRun
    <3>2. QED BY <1>0, <2>2, <3>1
  <2>3. CASE UNCHANGED <<runs, loop, approvals>>
    BY <2>3
  <2>4. QED BY <1>12, <2>2, <2>3 DEF TaskUnwind
<1>13. ASSUME NEW r \in Runs, TaskFinish(r) PROVE Reopenable'
  BY <1>0, <1>13 DEF TaskFinish, Wakes
<1>14. ASSUME NEW r \in Runs, TaskIngested(r) PROVE Reopenable'
  <2>1. \A a \in Approvals : approvals[a].status = "pending" => tasks[approvals[a].run] = "none"
    BY <1>14, TaskAlone DEF TaskIngested, Wakes
  <2>2. /\ UpdateRun(r, "complete") /\ tasks[r] # "none"
        /\ loop = Idle /\ UNCHANGED <<approvals, loop>>
    BY <1>14 DEF TaskIngested, Wakes
  <2>3. \A a \in Approvals : approvals[a].status = "pending" =>
          runs'[approvals[a].run] = runs[approvals[a].run]
    BY <1>0, <2>1, <2>2 DEF UpdateRun
  <2>4. QED BY <1>0, <2>2, <2>3
<1>15. ASSUME NEW r \in Runs, TaskLingered(r) PROVE Reopenable'
  BY <1>0, <1>15 DEF TaskLingered, Wakes, EndTask
<1>16. ASSUME NEW r \in Runs, AdoptApproval(r) PROVE Reopenable'
  BY <1>0, <1>16 DEF AdoptApproval, Wakes
<1>17. ASSUME NEW r \in Runs, NEW a \in Approvals, RaiseApproval(r, a) PROVE Reopenable'
  BY <1>0, <1>17 DEF RaiseApproval, Wakes, FreshApproval
<1>18. ASSUME NEW a \in Approvals, ExecuteCommand(a) PROVE Reopenable'
  BY <1>0, <1>18 DEF ExecuteCommand
<1>32. ASSUME NEW a \in Approvals, ExecuteRaises(a) PROVE Reopenable'
  BY <1>0, <1>32 DEF ExecuteRaises
<1>19. ASSUME NEW a \in Approvals, Continue(a) PROVE Reopenable'
  BY <1>0, <1>19 DEF Continue, Serving
<1>20. ASSUME NEW a \in Approvals, ContinueConflict(a) PROVE Reopenable'
  BY <1>0, <1>20 DEF ContinueConflict, Serving
<1>21. ASSUME NEW a \in Approvals, Approve(a) PROVE Reopenable'
  BY <1>0, <1>21 DEF Approve, Resolvable, Serving, UpdateRun, ChatOf
<1>22. ASSUME NEW a \in Approvals, Deny(a) PROVE Reopenable'
  BY <1>0, <1>22 DEF Deny, Resolvable, Serving, UpdateRun, ChatOf
<1>23. ASSUME NEW r \in Runs, NEW a \in Approvals, Other(a, r) PROVE Reopenable'
  BY <1>0, <1>23 DEF Other, Resolvable, Serving, ChatOf, InsertTurn
<1>24. ASSUME NEW c \in ChatIds, DeleteRead(c) PROVE Reopenable'
  BY <1>0, <1>24 DEF DeleteRead
<1>25. ASSUME NEW c \in ChatIds, DeleteCommit(c) PROVE Reopenable'
  BY <1>0, <1>25 DEF DeleteCommit
<1>26. CASE Shutdown
  <2>1. \A a \in Approvals : approvals[a].status = "pending" => tasks[approvals[a].run] = "none"
    BY <1>26, TaskAlone DEF Shutdown, Serving
  <2>2. UNCHANGED <<approvals, loop>> /\ loop.at = "idle"
    BY <1>26 DEF Shutdown, Serving
  <2>3. \A r \in Runs : tasks[r] = "none" => runs'[r] = runs[r]
    BY <1>26 DEF Shutdown
  <2>4. \A a \in Approvals : approvals[a].status = "pending" => approvals[a].run \in Runs
    BY <1>0
  <2>5. QED BY <2>1, <2>2, <2>3, <2>4
<1>27. CASE Exit
  BY <1>0, <1>27 DEF Exit, LoseMemory
<1>28. CASE Crash
  BY <1>0, <1>28 DEF Crash, LoseMemory
<1>29. CASE Recover
  <2>1. /\ phase = "down"
        /\ runs' = [r \in Runs |-> IF runs[r].status \in Active
                     THEN [runs[r] EXCEPT !.status = "failed"] ELSE runs[r]]
        /\ UNCHANGED <<approvals, loop>>
    BY <1>29, Zenon DEF Recover
  <2>2. \A a \in Approvals : approvals[a].status = "pending" => approvals[a].run \in Runs
    BY <1>0
  <2>3. loop.at = "idle"
    BY <2>1
  <2>4. QED BY <1>0, <2>1, <2>2, <2>3
<1>30. CASE UNCHANGED vars
  BY <1>30 DEF vars
<1> HIDE DEF Reopenable
<1>31. QED
  BY <1>1, <1>2, <1>3, <1>4, <1>5, <1>6, <1>7, <1>8, <1>9, <1>10, <1>11, <1>12, <1>13, <1>14, <1>15, <1>16, <1>17, <1>18, <1>19, <1>20, <1>21, <1>22, <1>23, <1>24, <1>25, <1>26, <1>27, <1>28, <1>29, <1>30, <1>32 DEF Next, LoopStep, TaskStep, HandlerStep

LEMMA ReopenableInv == Spec => []Reopenable
<1>1. Init => Reopenable
  BY DEF Init, Reopenable, Idle
<1>2. QED
  BY <1>1, ReopenableStep, TypeCorrect, ApprovalSafe, ActivityInv, PTL DEF Spec

\* Each step that makes a run active finds it active, absent or waiting.
LEMMA ClosedStep ==
  ASSUME TypeOK, ApprovalInv, Ownership, Activity, Reopenable, [Next]_vars,
         NEW q \in Runs, runs[q].status \in {"complete", "cancelled", "denied", "other"}
  PROVE  runs'[q].status \notin Active
<1> USE DEF Active, RunRow, rows
<1>0. /\ runs \in [Runs -> RunRow]
      /\ loop.at # "idle" => loop.run \in Runs
  BY DEF TypeOK
<1>1. CASE runs' = runs
  BY <1>1
<1>2. ASSUME NEW r \in Runs, NEW t \in RunStatus, UpdateRun(r, t),
             t \in Active => r # q
      PROVE  runs'[q].status \notin Active
  BY <1>0, <1>2 DEF UpdateRun
<1>3. ASSUME NEW c \in ChatIds, NEW r \in Runs, SendRead(c, r)
      PROVE  runs'[q].status \notin Active
  BY <1>0, <1>3 DEF SendRead
<1>4. CASE SendCommit
  BY <1>0, <1>4 DEF SendCommit, Reopenable
<1>5. CASE PersistWaiting
  BY <1>0, <1>2, <1>5 DEF PersistWaiting, RunStatus
<1>6. ASSUME NEW r \in Runs, TaskStart(r) \/ TaskToken(r)
      PROVE  runs'[q].status \notin Active
  <2>1. Wakes(r, {"created", "waiting"}) /\ UpdateRun(r, "running")
    BY <1>6 DEF TaskStart, TaskToken, Wakes
  <2>2. Quiet(r)
    BY <2>1 DEF Activity, DrivenQuiet, Working, Wakes, Idle
  <2>3. r # q
    BY <2>2 DEF Quiet
  <2>4. QED BY <1>2, <2>1, <2>3 DEF RunStatus
<1>7. ASSUME NEW r \in Runs, TaskFail(r) \/ TaskUnwind(r) \/ TaskIngested(r)
      PROVE  runs'[q].status \notin Active
  <2>1. \/ runs' = runs
        \/ \E t \in {"failed", "cancelled", "complete"} : UpdateRun(r, t)
    BY <1>7 DEF TaskFail, TaskUnwind, TaskIngested
  <2>2. QED BY <1>1, <1>2, <2>1 DEF RunStatus
<1>8. ASSUME NEW a \in Approvals, Continue(a) PROVE runs'[q].status \notin Active
  <2>1. Quiet(approvals[a].run)
    BY <1>8 DEF Continue, Activity, DrivenQuiet
  <2>2. approvals[a].run # q
    BY <2>1 DEF Quiet
  <2>3. QED BY <1>0, <1>8, <2>2 DEF Continue
<1>9. ASSUME NEW a \in Approvals, Approve(a) PROVE runs'[q].status \notin Active
  <2>1. approvals[a].run # q
    BY <1>9 DEF Approve, Resolvable, Reopenable
  <2>2. runs' = [runs EXCEPT ![approvals[a].run].status = IF @ = "absent" THEN @ ELSE "running"]
    BY <1>9 DEF Approve, UpdateRun
  <2>3. QED BY <1>0, <2>1, <2>2
<1>10. ASSUME NEW a \in Approvals, Deny(a) PROVE runs'[q].status \notin Active
  <2>1. runs' = [runs EXCEPT ![approvals[a].run].status = IF @ = "absent" THEN @ ELSE "denied"]
    BY <1>10 DEF Deny, UpdateRun
  <2>2. QED BY <1>0, <2>1
<1>11. ASSUME NEW a \in Approvals, NEW r \in Runs, Other(a, r)
       PROVE  runs'[q].status \notin Active
  <2>1. r # q
    BY <1>11 DEF Other, Ownership, FreshClean
  <2>2. runs'[q].status \in {runs[q].status, "other"}
    BY <1>0, <1>11, <2>1 DEF Other
  <2>3. QED BY <2>2
<1>12. ASSUME NEW c \in ChatIds, DeleteCommit(c) PROVE runs'[q].status \notin Active
  BY <1>0, <1>12 DEF DeleteCommit
<1>13. CASE Shutdown
  BY <1>0, <1>13 DEF Shutdown
<1>14. CASE Recover
  BY <1>0, <1>14 DEF Recover
<1>15. QED
  <2>1. CASE CreateChat \/ Exit \/ Crash
    BY <1>1, <2>1 DEF CreateChat, Exit, Crash
  <2>2. CASE SendStart \/ Resume \/ PersistAsk \/ PersistFailed
    BY <1>1, <2>2 DEF SendStart, Resume, PersistAsk, PersistFailed
  <2>3. ASSUME NEW r \in Runs, TaskStep(r) PROVE runs'[q].status \notin Active
    BY <1>1, <1>6, <1>7, <2>3 DEF TaskStep, TaskFinish, TaskLingered, AdoptApproval,
       RaiseApproval
  <2>4. ASSUME NEW a \in Approvals, HandlerStep(a) PROVE runs'[q].status \notin Active
    BY <1>1, <1>8, <2>4 DEF HandlerStep, ExecuteCommand, ExecuteRaises, ContinueConflict
  <2>5. ASSUME NEW c \in ChatIds, DeleteRead(c) PROVE runs'[q].status \notin Active
    BY <1>1, <2>5 DEF DeleteRead
  <2>6. CASE UNCHANGED vars
    BY <1>1, <2>6 DEF vars
  <2>7. QED
    BY <1>3, <1>4, <1>5, <1>9, <1>10, <1>11, <1>12, <1>13, <1>14, <2>1, <2>2, <2>3,
       <2>4, <2>5, <2>6 DEF Next, LoopStep

\* No late writer reopens a run that was completed, cancelled, denied or
\* replaced: neither a task that wakes up, nor an approved command that
\* returns after its chat changed.
THEOREM ClosedStaysClosed == Spec => ClosedRunStaysClosed
<1>1. TypeOK /\ ApprovalInv /\ Ownership /\ Activity /\ Reopenable /\ [Next]_vars =>
        [\A r \in Runs : runs[r].status \in {"complete", "cancelled", "denied", "other"} =>
                         runs'[r].status \notin Active]_vars
  BY ClosedStep
<1>2. QED
  BY <1>1, TypeCorrect, ApprovalSafe, ActivityInv, ReopenableInv, PTL
  DEF Spec, ClosedRunStaysClosed

-----------------------------------------------------------------------------
(* As long as no row id comes back: the row of a chat that exists is the   *)
(* row its runs were started for.                                          *)

Inserted(r) == runs[r].msg # 0

\* Every row id in use, or remembered, was handed out.
IdsGrow ==
  /\ \A c \in chats : c <= lastChat
  /\ \A r \in Runs : runs[r].chat <= lastChat /\ runs[r].msg <= lastMsg
  /\ \A m \in ExistingMsgs : m <= lastMsg

\* Only send_message holds a run that is not inserted yet, and it knows the
\* chat.
InsertedFirst ==
  /\ \A r \in Runs : ~Inserted(r) =>
       /\ runs[r].status = "absent" /\ tasks[r] = "none"
       /\ loop.run = r => loop.at = "send"
       /\ \A a \in Approvals : approvals[a].run # r
  /\ \A r \in Runs : Inserted(r) => ~FreshRun(r)
  /\ loop.at = "send" => ~Inserted(loop.run)

\* A message belongs to one run.
OwnMessage ==
  \A r, q \in Runs : Inserted(r) /\ runs[r].msg = runs[q].msg => r = q

\* A run loses its row and its message together with its chat.
RowsStay ==
  \A r \in Runs : Inserted(r) /\ runs[r].chat \in chats =>
    /\ runs[r].status # "absent"
    /\ runs[r].msg \in ExistingMsgs
    /\ msgs[runs[r].msg].chat = runs[r].chat

\* What delete_chat has loaded are rows of its chat, and with a request its
\* run and message.
DoomedOwn ==
  \A c \in ChatIds : doomed[c].on =>
    /\ \A m \in doomed[c].msgs : m \in ExistingMsgs /\ msgs[m].chat = c
    /\ \A r \in doomed[c].runs : Inserted(r) /\ runs[r].chat = c
    /\ \A a \in doomed[c].approvals :
         /\ approvals[a].run \in doomed[c].runs
         /\ runs[approvals[a].run].msg \in doomed[c].msgs

Rooted == IdsGrow /\ InsertedFirst /\ OwnMessage /\ RowsStay /\ DoomedOwn

\* r has its chat for itself: it is active or will be, or waits for an answer
\* that makes it so.
Claims(r) ==
  \/ runs[r].status \in Active
  \/ Working(r)
  \/ loop.run = r /\ loop.at \in {"send", "start", "resume"}
  \/ \E a \in Approvals : Open(a) /\ approvals[a].run = r

SoleClaim ==
  \A r, q \in Runs :
    Claims(r) /\ Claims(q) /\ runs[r].chat = runs[q].chat => r = q

Deleting(c) == c \notin chats \/ doomed[c].on

\* Only a task is cancelled, and between shutdowns only by delete_chat.
CancelledForDeletion ==
  /\ \A r \in cancels : tasks[r] # "none"
  /\ phase = "up" => \A r \in cancels : Deleting(runs[r].chat)
  /\ phase = "down" => cancels = {}

\* A task gives its run the last status before its message.
StatusFirst == loop.at \in {"ask", "fail"} => runs[loop.run].status \notin Active

Attended == CancelledForDeletion /\ StatusFirst /\ ActiveHasDriver

\* The request is stored before the run and the message that wait for it, and
\* is deleted with them.
AskBacked ==
  loop.at \in {"wait", "ask"} =>
    \/ \E a \in Approvals : approvals[a].status = "pending" /\ approvals[a].run = loop.run
    \/ runs[loop.run].status = "absent" /\ runs[loop.run].msg \notin ExistingMsgs

Answerable == AskBacked /\ AskIsAnswerable

\* Whoever is going to write the message of r finds it unfinished.
Writes(r) ==
  \/ tasks[r] \in {"created", "waiting", "streaming"}
  \/ loop.run = r
  \/ \E a \in Approvals : Open(a) /\ approvals[a].run = r

Unfinished ==
  \A r \in Runs : Writes(r) /\ Inserted(r) => msgs[runs[r].msg].status # "complete"

\* The message of a run is a message of its chat.
SameChat ==
  \A r \in Runs : Inserted(r) /\ runs[r].msg \in ExistingMsgs =>
    msgs[runs[r].msg].chat = runs[r].chat

\* No message waits for a chat that is still to be created.
ChatsKnown == \A m \in ExistingMsgs : msgs[m].chat <= lastChat

StopsCounted == phase # "up" => stops > 0

Written == SameChat /\ ChatsKnown /\ StopsCounted /\ UnsettledHasWriter

LEMMA RootedInit == Init => Rooted
<1> SUFFICES ASSUME Init PROVE Rooted
  OBVIOUS
<1>1. /\ runs = [r \in Runs |-> [status |-> "absent", chat |-> 0, msg |-> 0]]
      /\ approvals = [a \in Approvals |-> [status |-> "absent", run |-> NoRun]]
      /\ tasks = [r \in Runs |-> "none"] /\ loop = Idle
      /\ chats = {} /\ ExistingMsgs = {} /\ lastChat = 0 /\ lastMsg = 0
      /\ \A c \in ChatIds : ~doomed[c].on
  BY DEF Init, NoDelete, ExistingMsgs
<1>2. QED
  BY <1>1, NoRunAssumption DEF Rooted, IdsGrow, InsertedFirst, Inserted, OwnMessage,
     RowsStay, DoomedOwn, Idle, FreshRun

\* A step that inserts, deletes and hands out nothing.
LEMMA RootedSame ==
  ASSUME TypeOK, Rooted, UNCHANGED <<chats, lastChat, lastMsg>>,
         \A m \in MsgIds : /\ msgs'[m].chat = msgs[m].chat
                           /\ (msgs'[m].status = "absent" <=> msgs[m].status = "absent"),
         \A r \in Runs : /\ runs'[r].chat = runs[r].chat /\ runs'[r].msg = runs[r].msg
                         /\ runs[r].status # "absent" => runs'[r].status # "absent"
                         /\ ~Inserted(r) => /\ runs'[r].status = "absent"
                                            /\ tasks'[r] = tasks[r]
                                            /\ loop'.run # r,
         loop'.at # "send",
         \A a \in Approvals : approvals'[a].run # approvals[a].run =>
                                /\ \A c \in ChatIds : doomed'[c].on => a \notin doomed'[c].approvals
                                /\ Inserted(approvals'[a].run),
         \A c \in ChatIds : doomed'[c] = doomed[c] \/ ~doomed'[c].on
  PROVE  Rooted'
<1>1. IdsGrow'
  BY DEF Rooted, IdsGrow, ExistingMsgs
<1>2. InsertedFirst'
  BY DEF Rooted, InsertedFirst, Inserted, FreshRun, TypeOK
<1>3. OwnMessage'
  BY DEF Rooted, OwnMessage, Inserted
<1>4. RowsStay'
  BY DEF Rooted, RowsStay, Inserted, ExistingMsgs
<1>5. DoomedOwn'
  <2> SUFFICES ASSUME NEW c \in ChatIds, doomed'[c].on
               PROVE  /\ \A m \in doomed'[c].msgs : m \in ExistingMsgs' /\ msgs'[m].chat = c
                      /\ \A r \in doomed'[c].runs : Inserted(r)' /\ runs'[r].chat = c
                      /\ \A a \in doomed'[c].approvals :
                           /\ approvals'[a].run \in doomed'[c].runs
                           /\ runs'[approvals'[a].run].msg \in doomed'[c].msgs
    BY DEF DoomedOwn
  <2>1. doomed'[c] = doomed[c] /\ doomed[c].on
    OBVIOUS
  <2>2. doomed[c].msgs \subseteq MsgIds /\ doomed[c].runs \subseteq Runs
        /\ doomed[c].approvals \subseteq Approvals
    BY DEF TypeOK, Deletion
  <2>3. QED BY <2>1, <2>2 DEF Rooted, DoomedOwn, Inserted, ExistingMsgs
<1>6. QED BY <1>1, <1>2, <1>3, <1>4, <1>5 DEF Rooted

\* Where no row id comes back a turn gets ids that were never used.
LEMMA FreshTurn ==
  ASSUME ~ReuseIds, TypeOK, IdsGrow, NEW r, NEW c, NEW m \in MsgIds, InsertTurn(r, c, m)
  PROVE  /\ m = lastMsg + 1 /\ lastMsg' = m /\ m \notin ExistingMsgs /\ m # 0
         /\ \A q \in Runs : runs[q].msg # m
         /\ \A k \in MsgIds \ {m} : msgs'[k] = msgs[k]
         /\ msgs'[m] = [status |-> "pending", text |-> FALSE, chat |-> c]
<1>1. m = lastMsg + 1 /\ lastMsg \in Nat
  BY BoundsAssumption DEF InsertTurn, NextId, TypeOK
<1>2. lastMsg' = m /\ m # 0
  BY <1>1 DEF InsertTurn
<1>3. \A q \in Runs : runs[q].msg # m
  BY <1>1 DEF IdsGrow
<1>4. m \notin ExistingMsgs
  BY <1>1 DEF IdsGrow
<1>5. QED BY <1>1, <1>2, <1>3, <1>4 DEF InsertTurn, TypeOK

LEMMA RootedStep ==
  ASSUME ~ReuseIds, TypeOK, ApprovalInv, Ownership, Rooted, [Next]_vars
  PROVE  Rooted'
<1> USE DEF RunRow, ApprovalRow, MsgRow, rows, ids, memory, life
<1>0. /\ runs \in [Runs -> RunRow]
      /\ msgs \in [MsgIds -> MsgRow]
      /\ approvals \in [Approvals -> ApprovalRow]
      /\ loop \in [at: Places, run: Runs \cup {NoRun}]
      /\ loop.at # "idle" => loop.run \in Runs
      /\ tasks \in [Runs -> Stages]
      /\ inflight \in [Approvals -> {"none", "called", "returned"}]
      /\ \A a \in Approvals : approvals[a].run = NoRun =>
           approvals[a].status = "absent" /\ inflight[a] = "none"
      /\ \A a \in Approvals : inflight[a] # "none" =>
           approvals[a].status \in {"executing", "absent"}
      /\ NoRun \notin Runs
      /\ doomed \in [ChatIds -> Deletion]
      /\ chats \subseteq ChatIds
  BY NoRunAssumption DEF TypeOK, ApprovalInv
<1>a. \A r \in Runs : ~Inserted(r) =>
       /\ runs[r].status = "absent" /\ tasks[r] = "none"
       /\ loop.run = r => loop.at = "send"
       /\ \A a \in Approvals : approvals[a].run # r
  BY DEF Rooted, InsertedFirst
<1>b. ASSUME NEW r \in Runs, NEW t \in RunStatus \ {"absent"}, UpdateRun(r, t)
      PROVE  \A q \in Runs : /\ runs'[q].chat = runs[q].chat /\ runs'[q].msg = runs[q].msg
                             /\ runs[q].status # "absent" => runs'[q].status # "absent"
                             /\ ~Inserted(q) => runs'[q].status = "absent"
  BY <1>0, <1>a, <1>b DEF UpdateRun
<1>c. ASSUME NEW r \in Runs, NEW t \in MsgStatus \ {"absent"}, NEW b \in BOOLEAN,
             msgs' = MsgsWith(runs[r].msg, t, b)
      PROVE  \A k \in MsgIds : /\ msgs'[k].chat = msgs[k].chat
                               /\ (msgs'[k].status = "absent" <=> msgs[k].status = "absent")
  <2> TAKE k \in MsgIds
  <2>1. msgs[k] \in MsgRow
    BY <1>0
  <2>2. /\ msgs'[k] \in {msgs[k], [msgs[k] EXCEPT !.status = t, !.text = b]}
        /\ msgs[k].status = "absent" => msgs'[k] = msgs[k]
    BY <1>c DEF MsgsWith
  <2>3. [msgs[k] EXCEPT !.status = t, !.text = b].chat = msgs[k].chat
        /\ [msgs[k] EXCEPT !.status = t, !.text = b].status = t
    BY <2>1
  <2>4. t # "absent"
    OBVIOUS
  <2>5. QED BY <2>2, <2>3, <2>4
<1>d. ASSUME NEW r \in Runs, NEW c \in ChatIds, NEW m \in MsgIds,
             InsertTurn(r, c, m), ~Inserted(r), c <= lastChat,
             UNCHANGED <<chats, lastChat, tasks, doomed>>,
             \A a \in Approvals : approvals'[a].run = approvals[a].run,
             loop'.at # "send", loop'.run = r,
             \A q \in Runs \ {r} : /\ runs'[q].chat = runs[q].chat /\ runs'[q].msg = runs[q].msg
                                    /\ (runs'[q].status = "absent" <=> runs[q].status = "absent"),
             runs'[r] = [status |-> "pending", chat |-> c, msg |-> m],
             loop = Idle \/ loop.run = r
      PROVE  Rooted'
  <2>1. /\ m = lastMsg + 1 /\ lastMsg' = m /\ m \notin ExistingMsgs /\ m # 0
        /\ \A q \in Runs : runs[q].msg # m
        /\ \A k \in MsgIds \ {m} : msgs'[k] = msgs[k]
        /\ msgs'[m] = [status |-> "pending", text |-> FALSE, chat |-> c]
    BY <1>d, FreshTurn DEF Rooted
  <2>2. lastMsg \in Nat /\ \A q \in Runs : runs[q].msg \in Nat /\ runs[q].msg <= lastMsg
    BY <1>0, BoundsAssumption DEF TypeOK, Rooted, IdsGrow
  <2>3. ExistingMsgs' = ExistingMsgs \cup {m}
    <3>1. msgs'[m].status # "absent"
      BY <2>1
    <3>2. \A k \in MsgIds : k # m => msgs'[k] = msgs[k]
      BY <2>1
    <3>3. QED BY <3>1, <3>2 DEF ExistingMsgs
  <2>4. IdsGrow'
    <3>1. \A k \in ExistingMsgs : k \in Int /\ k <= lastMsg
      BY DEF ExistingMsgs, MsgIds, Rooted, IdsGrow
    <3>2. \A q \in Runs : runs'[q].chat <= lastChat /\ runs'[q].msg <= m
      <4> TAKE q \in Runs
      <4>1. CASE q = r
        <5>1. runs'[q].chat = c /\ runs'[q].msg = m
          BY <1>d, <4>1
        <5>2. QED BY <1>d, <5>1 DEF MsgIds
      <4>2. CASE q # r
        <5>1. runs'[q].chat = runs[q].chat /\ runs'[q].msg = runs[q].msg
          BY <1>d, <4>2
        <5>2. runs[q].chat <= lastChat
          BY DEF Rooted, IdsGrow
        <5>3. QED BY <5>1, <5>2, <2>1, <2>2
      <4>3. QED BY <4>1, <4>2
    <3>3. \A k \in ExistingMsgs' : k <= m
      BY <2>1, <2>2, <2>3, <3>1 DEF MsgIds
    <3>4. QED BY <1>d, <2>1, <3>2, <3>3 DEF Rooted, IdsGrow
  <2>a. Inserted(r)' /\ ~FreshRun(r)' /\ runs'[r].status # "absent"
    <3>1. 0 \notin ChatIds
      BY DEF ChatIds
    <3>2. runs'[r].chat = c /\ runs'[r].msg = m /\ runs'[r].status = "pending"
      BY <1>d
    <3>3. QED BY <2>1, <3>1, <3>2 DEF Inserted, FreshRun
  <2>b. \A q \in Runs \ {r} : /\ (Inserted(q)' <=> Inserted(q))
                               /\ (FreshRun(q)' <=> FreshRun(q))
    BY <1>d DEF Inserted, FreshRun
  <2>5. InsertedFirst'
    <3>1. \A q \in Runs : ~Inserted(q)' =>
             /\ runs'[q].status = "absent" /\ tasks'[q] = "none"
             /\ loop'.run # q
             /\ \A a \in Approvals : approvals'[a].run # q
      BY <1>a, <1>d, <2>a, <2>b
    <3>2. \A q \in Runs : Inserted(q)' => ~FreshRun(q)'
      BY <2>a, <2>b DEF Rooted, InsertedFirst
    <3>3. QED BY <1>d, <3>1, <3>2 DEF InsertedFirst
  <2>6. OwnMessage'
    BY <1>d, <2>1 DEF Rooted, OwnMessage, Inserted
  <2>7. RowsStay'
    <3> SUFFICES ASSUME NEW q \in Runs, Inserted(q)', runs'[q].chat \in chats
                 PROVE  /\ runs'[q].status # "absent"
                        /\ runs'[q].msg \in ExistingMsgs'
                        /\ msgs'[runs'[q].msg].chat = runs'[q].chat
      BY <1>d DEF RowsStay
    <3>1. CASE q = r
      <4>1. runs'[q].chat = c /\ runs'[q].msg = m
        BY <1>d, <3>1
      <4>2. msgs'[m].chat = c
        BY <2>1
      <4>3. QED BY <2>3, <2>a, <3>1, <4>1, <4>2
    <3>2. CASE q # r
      <4>1. /\ Inserted(q) /\ runs'[q].chat = runs[q].chat /\ runs'[q].msg = runs[q].msg
            /\ (runs'[q].status = "absent" <=> runs[q].status = "absent")
        BY <1>d, <2>b, <3>2
      <4>2. /\ runs[q].status # "absent" /\ runs[q].msg \in ExistingMsgs
            /\ msgs[runs[q].msg].chat = runs[q].chat
        BY <4>1 DEF Rooted, RowsStay
      <4>3. msgs'[runs[q].msg] = msgs[runs[q].msg]
        BY <2>1, <4>2 DEF ExistingMsgs
      <4>4. QED BY <2>3, <4>1, <4>2, <4>3
    <3>3. QED BY <3>1, <3>2
  <2>8. DoomedOwn'
    <3>1. \A k \in ChatIds : doomed[k].msgs \subseteq MsgIds /\ doomed[k].runs \subseteq Runs
                            /\ doomed[k].approvals \subseteq Approvals
      BY <1>0 DEF Deletion
    <3>2. \A k \in ChatIds : doomed[k].on => r \notin doomed[k].runs /\ m \notin doomed[k].msgs
      BY <1>d, <2>1 DEF Rooted, DoomedOwn
    <3> SUFFICES ASSUME NEW k \in ChatIds, doomed[k].on
                 PROVE  /\ \A n \in doomed[k].msgs : n \in ExistingMsgs' /\ msgs'[n].chat = k
                        /\ \A q \in doomed[k].runs : Inserted(q)' /\ runs'[q].chat = k
                        /\ \A a \in doomed[k].approvals :
                             /\ approvals'[a].run \in doomed[k].runs
                             /\ runs'[approvals'[a].run].msg \in doomed[k].msgs
      BY <1>d DEF DoomedOwn
    <3>3. \A n \in doomed[k].msgs : n \in ExistingMsgs /\ msgs[n].chat = k
      BY DEF Rooted, DoomedOwn
    <3>4. \A n \in doomed[k].msgs : n \in ExistingMsgs' /\ msgs'[n].chat = k
      BY <2>1, <2>3, <3>1, <3>2, <3>3
    <3>5. \A q \in doomed[k].runs : /\ q \in Runs \ {r} /\ Inserted(q) /\ runs[q].chat = k
      BY <3>1, <3>2 DEF Rooted, DoomedOwn
    <3>6. \A q \in doomed[k].runs : Inserted(q)' /\ runs'[q].chat = k
      BY <1>d, <2>b, <3>5
    <3>7. \A a \in doomed[k].approvals :
             /\ approvals[a].run \in doomed[k].runs
             /\ runs[approvals[a].run].msg \in doomed[k].msgs
      BY DEF Rooted, DoomedOwn
    <3>8. \A a \in doomed[k].approvals :
             /\ approvals'[a].run \in doomed[k].runs
             /\ runs'[approvals'[a].run].msg \in doomed[k].msgs
      BY <1>d, <3>1, <3>5, <3>7
    <3>9. QED BY <3>4, <3>6, <3>8
  <2>9. QED BY <2>4, <2>5, <2>6, <2>7, <2>8 DEF Rooted
<1>1. CASE CreateChat
  <2>1. PICK c \in ChatIds : /\ c = lastChat + 1 /\ chats' = chats \cup {c}
                             /\ lastChat' = IF c > lastChat THEN c ELSE lastChat
    BY <1>1 DEF CreateChat, NextId
  <2>2. UNCHANGED <<msgs, runs, approvals, lastMsg, memory>>
    BY <1>1 DEF CreateChat
  <2>3. lastChat \in Nat /\ lastChat' = c
    BY <2>1, BoundsAssumption DEF TypeOK
  <2>4. \A r \in Runs : runs[r].chat <= lastChat /\ runs[r].chat \in Int
    BY <1>0 DEF Rooted, IdsGrow
  <2>5. IdsGrow'
    <3>1. \A k \in chats : k \in Int /\ k <= lastChat
      BY <1>0 DEF Rooted, IdsGrow, ChatIds
    <3>2. QED BY <2>1, <2>2, <2>3, <2>4, <3>1 DEF Rooted, IdsGrow, ExistingMsgs
  <2>6. RowsStay'
    BY <2>1, <2>2, <2>3, <2>4 DEF Rooted, RowsStay, Inserted, ExistingMsgs
  <2>7. InsertedFirst' /\ OwnMessage' /\ DoomedOwn'
    BY <2>2 DEF Rooted, InsertedFirst, OwnMessage, DoomedOwn, Inserted, ExistingMsgs, FreshRun
  <2>8. QED BY <2>5, <2>6, <2>7 DEF Rooted
<1>2. CASE SendCommit
  <2> DEFINE r == loop.run
             c == runs[r].chat
  <2>1. PICK m \in MsgIds :
          /\ InsertTurn(r, c, m)
          /\ runs' = [runs EXCEPT ![r] = [status |-> "pending", chat |-> c, msg |-> m]]
          /\ loop' = At("start", r)
    BY <1>2 DEF SendCommit
  <2>2. r \in Runs /\ ~Inserted(r) /\ UNCHANGED <<chats, lastChat, approvals, tasks, doomed>>
    BY <1>0, <1>2 DEF SendCommit, Rooted, InsertedFirst
  <2>3. loop'.at = "start" /\ loop'.run = r
    BY <2>1 DEF At
  <2> HIDE DEF r, c
  <2>4. \A q \in Runs \ {r} : runs'[q] = runs[q]
    BY <1>0, <2>1
  <2>5. runs'[r] = [status |-> "pending", chat |-> c, msg |-> m] /\ c = runs[r].chat
    BY <1>0, <2>1, <2>2 DEF c
  <2>6. c \in ChatIds /\ c <= lastChat /\ loop.run = r
    <3>1. c \in 0..MaxChat /\ c # 0
      BY <1>0, <1>2, <2>2, BoundsAssumption DEF SendCommit, Ownership, FreshClean, FreshRun, c, r
    <3>2. c <= lastChat
      BY <2>2 DEF Rooted, IdsGrow, c
    <3>3. QED BY <3>1, <3>2, BoundsAssumption DEF ChatIds, r
  <2>7. QED BY <1>d, <2>1, <2>2, <2>3, <2>4, <2>5, <2>6
<1>3. CASE SendStart
  BY <1>0, <1>a, <1>3, RootedSame DEF SendStart, Idle
<1>4. CASE Resume
  BY <1>0, <1>a, <1>4, RootedSame DEF Resume, Idle
<1>5. CASE PersistWaiting
  BY <1>0, <1>a, <1>b, <1>5, RootedSame DEF PersistWaiting, At, RunStatus
<1>6. CASE PersistAsk
  <2>1. \A k \in MsgIds : /\ msgs'[k].chat = msgs[k].chat
                          /\ (msgs'[k].status = "absent" <=> msgs[k].status = "absent")
    BY <1>0, <1>6, <1>c DEF PersistAsk, MsgStatus
  <2>2. QED BY <1>0, <1>a, <1>6, <2>1, RootedSame DEF PersistAsk, EndTask, Idle
<1>7. CASE PersistFailed
  <2>1. \A k \in MsgIds : /\ msgs'[k].chat = msgs[k].chat
                          /\ (msgs'[k].status = "absent" <=> msgs[k].status = "absent")
    BY <1>0, <1>7, <1>c DEF PersistFailed, MsgStatus
  <2>2. QED BY <1>0, <1>a, <1>7, <2>1, RootedSame DEF PersistFailed, EndTask, Idle
<1>8. ASSUME NEW c \in ChatIds, NEW r \in Runs, SendRead(c, r) PROVE Rooted'
  <2>1. /\ runs' = [runs EXCEPT ![r].chat = c] /\ loop' = At("send", r)
        /\ loop = Idle /\ FreshRun(r) /\ c \in chats
        /\ UNCHANGED <<chats, msgs, approvals, lastChat, lastMsg, tasks, doomed>>
    BY <1>8 DEF SendRead, Serving
  <2>2. /\ \A q \in Runs \ {r} : runs'[q] = runs[q]
        /\ runs'[r].chat = c /\ runs'[r].msg = runs[r].msg /\ runs'[r].status = runs[r].status
        /\ loop'.at = "send" /\ loop'.run = r
    BY <1>0, <2>1 DEF At
  <2>3. ~Inserted(r)
    BY <2>1 DEF Rooted, InsertedFirst
  <2>a. c # 0
    BY DEF ChatIds
  <2>4. InsertedFirst'
    BY <1>0, <1>a, <2>1, <2>2, <2>3, <2>a DEF Rooted, InsertedFirst, Inserted, FreshRun, Idle
  <2>5. IdsGrow' /\ OwnMessage'
    BY <2>1, <2>2 DEF Rooted, IdsGrow, OwnMessage, Inserted, ExistingMsgs
  <2>6. RowsStay'
    BY <2>1, <2>2, <2>3 DEF Rooted, RowsStay, Inserted, ExistingMsgs
  <2>7. DoomedOwn'
    <3>1. \A k \in ChatIds : doomed[k].on => r \notin doomed[k].runs
      BY <2>3 DEF Rooted, DoomedOwn
    <3>2. \A k \in ChatIds : doomed[k].runs \subseteq Runs
      BY <1>0 DEF Deletion
    <3>3. QED BY <2>1, <2>2, <3>1, <3>2 DEF Rooted, DoomedOwn, Inserted, ExistingMsgs
  <2>8. QED BY <2>4, <2>5, <2>6, <2>7 DEF Rooted
<1>9. ASSUME NEW r \in Runs, TaskStart(r) PROVE Rooted'
  BY <1>0, <1>a, <1>b, <1>9, RootedSame DEF TaskStart, Wakes, Idle, RunStatus, Active
<1>10. ASSUME NEW r \in Runs, TaskToken(r) PROVE Rooted'
  BY <1>0, <1>a, <1>b, <1>10, RootedSame DEF TaskToken, Wakes, Idle, RunStatus, Active
<1>11. ASSUME NEW r \in Runs, TaskFail(r) PROVE Rooted'
  BY <1>0, <1>a, <1>b, <1>11, RootedSame DEF TaskFail, Wakes, At, RunStatus, Active
<1>12. ASSUME NEW r \in Runs, TaskUnwind(r) PROVE Rooted'
  BY <1>0, <1>a, <1>b, <1>12, RootedSame DEF TaskUnwind, EndTask, At, Idle, RunStatus, Active
<1>13. ASSUME NEW r \in Runs, TaskFinish(r) PROVE Rooted'
  <2>1. \A k \in MsgIds : /\ msgs'[k].chat = msgs[k].chat
                          /\ (msgs'[k].status = "absent" <=> msgs[k].status = "absent")
    BY <1>0, <1>13, <1>c DEF TaskFinish, MsgStatus
  <2>2. QED BY <1>0, <1>a, <1>13, <2>1, RootedSame DEF TaskFinish, Wakes, Idle
<1>14. ASSUME NEW r \in Runs, TaskIngested(r) PROVE Rooted'
  BY <1>0, <1>a, <1>b, <1>14, RootedSame DEF TaskIngested, Wakes, Idle, RunStatus
<1>15. ASSUME NEW r \in Runs, TaskLingered(r) PROVE Rooted'
  BY <1>0, <1>a, <1>15, RootedSame DEF TaskLingered, Wakes, EndTask, Idle
<1>16. ASSUME NEW r \in Runs, AdoptApproval(r) PROVE Rooted'
  BY <1>0, <1>a, <1>16, RootedSame DEF AdoptApproval, Wakes, At
<1>17. ASSUME NEW r \in Runs, NEW a \in Approvals, RaiseApproval(r, a) PROVE Rooted'
  BY <1>0, <1>a, <1>17, RootedSame DEF RaiseApproval, Wakes, FreshApproval, At, Rooted, DoomedOwn, Deletion
<1>18. ASSUME NEW a \in Approvals, ExecuteCommand(a) PROVE Rooted'
  BY <1>0, <1>a, <1>18 DEF ExecuteCommand, FreshRun, Rooted, IdsGrow, InsertedFirst, OwnMessage, RowsStay, DoomedOwn, Inserted, ExistingMsgs
<1>32. ASSUME NEW a \in Approvals, ExecuteRaises(a) PROVE Rooted'
  BY <1>0, <1>a, <1>32 DEF ExecuteRaises, FreshRun, Rooted, IdsGrow, InsertedFirst, OwnMessage, RowsStay, DoomedOwn, Inserted, ExistingMsgs
<1>19. ASSUME NEW a \in Approvals, Continue(a) PROVE Rooted'
  <2>a. approvals[a].run \in Runs
    BY <1>0, <1>19 DEF Continue
  <2>1. \A k \in MsgIds : /\ msgs'[k].chat = msgs[k].chat
                          /\ (msgs'[k].status = "absent" <=> msgs[k].status = "absent")
    BY <1>19, <1>c, <2>a DEF Continue, MsgStatus, Unsettled
  <2>2. Inserted(approvals[a].run)
    BY <1>a, <2>a
  <2>3. \A q \in Runs : /\ runs'[q].chat = runs[q].chat /\ runs'[q].msg = runs[q].msg
                        /\ (runs[q].status # "absent" => runs'[q].status # "absent")
                        /\ (~Inserted(q) => runs'[q].status = "absent")
    BY <1>0, <1>a, <1>19, <2>a, <2>2 DEF Continue
  <2>4. /\ UNCHANGED <<chats, lastChat, lastMsg, tasks, doomed>>
        /\ \A b \in Approvals : approvals'[b].run = approvals[b].run
    BY <1>0, <1>19 DEF Continue
  <2>5. loop'.at # "send" /\ loop'.run = approvals[a].run
    BY <1>19 DEF Continue, At
  <2>6. QED BY <1>a, <2>1, <2>2, <2>3, <2>4, <2>5, RootedSame
<1>20. ASSUME NEW a \in Approvals, ContinueConflict(a) PROVE Rooted'
  BY <1>0, <1>a, <1>20, RootedSame DEF ContinueConflict, Serving, Idle
<1>21. ASSUME NEW a \in Approvals, Approve(a) PROVE Rooted'
  <2>a. approvals[a].run \in Runs
    BY <1>0, <1>21 DEF Approve, Resolvable
  <2>1. \A k \in MsgIds : /\ msgs'[k].chat = msgs[k].chat
                          /\ (msgs'[k].status = "absent" <=> msgs[k].status = "absent")
    BY <1>21, <1>c, <2>a DEF Approve, MsgStatus, Unsettled
  <2>2. \A q \in Runs : /\ runs'[q].chat = runs[q].chat /\ runs'[q].msg = runs[q].msg
                        /\ (runs[q].status # "absent" => runs'[q].status # "absent")
                        /\ (~Inserted(q) => runs'[q].status = "absent")
    BY <1>21, <1>b, <2>a DEF Approve, RunStatus, Active
  <2>3. /\ UNCHANGED <<chats, lastChat, lastMsg, loop, tasks, doomed>> /\ loop = Idle
        /\ \A b \in Approvals : approvals'[b].run = approvals[b].run
    BY <1>0, <1>21 DEF Approve, Resolvable, Serving
  <2>4. loop'.at # "send" /\ \A q \in Runs : loop'.run # q
    BY <1>0, <2>3 DEF Idle
  <2>5. QED BY <1>a, <2>1, <2>2, <2>3, <2>4, RootedSame
<1>22. ASSUME NEW a \in Approvals, Deny(a) PROVE Rooted'
  <2>a. approvals[a].run \in Runs
    BY <1>0, <1>22 DEF Deny, Resolvable
  <2>1. \A k \in MsgIds : /\ msgs'[k].chat = msgs[k].chat
                          /\ (msgs'[k].status = "absent" <=> msgs[k].status = "absent")
    BY <1>22, <1>c, <2>a DEF Deny, MsgStatus
  <2>2. \A q \in Runs : /\ runs'[q].chat = runs[q].chat /\ runs'[q].msg = runs[q].msg
                        /\ (runs[q].status # "absent" => runs'[q].status # "absent")
                        /\ (~Inserted(q) => runs'[q].status = "absent")
    BY <1>22, <1>b, <2>a DEF Deny, RunStatus, Active
  <2>3. /\ UNCHANGED <<chats, lastChat, lastMsg, loop, tasks, doomed>> /\ loop = Idle
        /\ \A b \in Approvals : approvals'[b].run = approvals[b].run
    BY <1>0, <1>22 DEF Deny, Resolvable, Serving
  <2>4. loop'.at # "send" /\ \A q \in Runs : loop'.run # q
    BY <1>0, <2>3 DEF Idle
  <2>5. QED BY <1>a, <2>1, <2>2, <2>3, <2>4, RootedSame
<1>23. ASSUME NEW r \in Runs, NEW a \in Approvals, Other(a, r) PROVE Rooted'
  <2> DEFINE c == ChatOf(a)
             old == approvals[a].run
  <2>1. PICK m \in MsgIds :
          /\ InsertTurn(r, c, m)
          /\ runs' = [q \in Runs |->
                        IF q = r THEN [status |-> "pending", chat |-> c, msg |-> m]
                        ELSE IF q = old /\ runs[q].status # "absent"
                        THEN [runs[q] EXCEPT !.status = "other"]
                        ELSE runs[q]]
    BY <1>23, Zenon DEF Other
  <2>2. /\ loop = Idle /\ c \in chats /\ FreshRun(r) /\ loop' = At("resume", r)
        /\ approvals' = [approvals EXCEPT ![a].status = "other"]
        /\ UNCHANGED <<chats, lastChat, tasks, doomed>>
    BY <1>23 DEF Other, Resolvable, Serving
  <2>3. c \in ChatIds /\ c <= lastChat
    BY <1>0, <2>2 DEF Rooted, IdsGrow
  <2>4. ~Inserted(r)
    BY <2>2 DEF Rooted, InsertedFirst
  <2>5. loop'.at = "resume" /\ loop'.run = r /\ \A b \in Approvals : approvals'[b].run = approvals[b].run
    BY <1>0, <2>2 DEF At
  <2> HIDE DEF c, old
  <2>6. /\ runs'[r] = [status |-> "pending", chat |-> c, msg |-> m]
        /\ \A q \in Runs \ {r} : /\ runs'[q].chat = runs[q].chat /\ runs'[q].msg = runs[q].msg
                                  /\ (runs'[q].status = "absent" <=> runs[q].status = "absent")
    BY <1>0, <2>1
  <2>7. QED BY <1>d, <2>1, <2>2, <2>3, <2>4, <2>5, <2>6
<1>24. ASSUME NEW c \in ChatIds, DeleteRead(c) PROVE Rooted'
  BY <1>0, <1>a, <1>24 DEF DeleteRead, FreshRun, Rooted, IdsGrow, InsertedFirst, OwnMessage, RowsStay, DoomedOwn, Inserted, ExistingMsgs, ExistingApprovals, ChatOf
<1>25. ASSUME NEW c \in ChatIds, DeleteCommit(c) PROVE Rooted'
  BY <1>0, <1>a, <1>25 DEF DeleteCommit, NoDelete, FreshRun, Rooted, IdsGrow, InsertedFirst, OwnMessage, RowsStay, DoomedOwn, Inserted, ExistingMsgs, Deletion
<1>26. CASE Shutdown
  BY <1>0, <1>a, <1>26, RootedSame DEF Shutdown, Serving, Idle
<1>27. CASE Exit
  BY <1>0, <1>a, <1>27, RootedSame DEF Exit, LoseMemory, Idle, NoDelete
<1>28. CASE Crash
  BY <1>0, <1>a, <1>28, RootedSame DEF Crash, LoseMemory, Idle, NoDelete
<1>29. CASE Recover
  <2>1. msgs' = [m \in MsgIds |-> IF msgs[m].status \in Unsettled /\ ~msgs[m].text
                     THEN [msgs[m] EXCEPT !.status = "failed", !.text = TRUE] ELSE msgs[m]]
    BY <1>29, Zenon DEF Recover
  <2>2. runs' = [r \in Runs |-> IF runs[r].status \in Active
                     THEN [runs[r] EXCEPT !.status = "failed"] ELSE runs[r]]
    BY <1>29, Zenon DEF Recover
  <2>3. /\ UNCHANGED <<chats, approvals, lastChat, lastMsg, loop, tasks, doomed>>
        /\ phase = "down"
    BY <1>29 DEF Recover
  <2>4. \A k \in MsgIds : /\ msgs'[k].chat = msgs[k].chat
                          /\ (msgs'[k].status = "absent" <=> msgs[k].status = "absent")
    BY <1>0, <2>1 DEF Unsettled
  <2>5. \A q \in Runs : /\ runs'[q].chat = runs[q].chat /\ runs'[q].msg = runs[q].msg
                        /\ (runs'[q].status = "absent" <=> runs[q].status = "absent")
    BY <1>0, <2>2 DEF Active
  <2>6. loop' = Idle /\ loop'.at # "send"
    BY <2>3 DEF Ownership, DownEmpty, Idle
  <2>7. \A q \in Runs : ~Inserted(q) => loop'.run # q
    BY <1>0, <2>6 DEF Idle
  <2>8. QED BY <1>a, <2>3, <2>4, <2>5, <2>6, <2>7, RootedSame
<1>30. CASE UNCHANGED vars
  BY <1>30 DEF vars, FreshRun, Rooted, IdsGrow, InsertedFirst, OwnMessage, RowsStay, DoomedOwn, Inserted, ExistingMsgs
<1>31. QED
  BY <1>1, <1>2, <1>3, <1>4, <1>5, <1>6, <1>7, <1>8, <1>9, <1>10, <1>11, <1>12, <1>13, <1>14, <1>15, <1>16, <1>17, <1>18, <1>19, <1>20, <1>21, <1>22, <1>23, <1>24, <1>25, <1>26, <1>27, <1>28, <1>29, <1>30, <1>32 DEF Next, LoopStep, TaskStep, HandlerStep

LEMMA SoleInit == Init => SoleClaim
BY NoRunAssumption DEF Init, SoleClaim, Claims, Working, Open, Idle, Active

\* A step that gives no run a new claim.
LEMMA SoleKept ==
  ASSUME SoleClaim, \A q \in Runs : runs'[q].chat = runs[q].chat,
         \A q \in Runs : Claims(q)' => Claims(q)
  PROVE  SoleClaim'
BY DEF SoleClaim

\* Only send_message claims a chat out of nothing, and Other passes the claim
\* of one run on to the next.
LEMMA SoleStep ==
  ASSUME ~ReuseIds, TypeOK, ApprovalInv, Ownership, Activity, Rooted, SoleClaim, [Next]_vars
  PROVE  SoleClaim'
<1> USE DEF RunRow, ApprovalRow, rows, ids, memory, life
<1>0. /\ runs \in [Runs -> RunRow]
      /\ approvals \in [Approvals -> ApprovalRow]
      /\ loop \in [at: Places, run: Runs \cup {NoRun}]
      /\ loop.at # "idle" => loop.run \in Runs
      /\ tasks \in [Runs -> Stages]
      /\ inflight \in [Approvals -> {"none", "called", "returned"}]
      /\ \A a \in Approvals : approvals[a].run = NoRun =>
           approvals[a].status = "absent" /\ inflight[a] = "none"
      /\ \A a \in Approvals : inflight[a] # "none" =>
           approvals[a].status \in {"executing", "absent"}
      /\ NoRun \notin Runs
  BY NoRunAssumption DEF TypeOK, ApprovalInv
<1>1. CASE CreateChat
  BY <1>1 DEF CreateChat, SoleClaim, Claims, Working, Open
<1>2. CASE SendCommit
  <2>1. PICK m \in MsgIds :
          /\ runs' = [runs EXCEPT ![loop.run] =
                        [status |-> "pending", chat |-> runs[loop.run].chat, msg |-> m]]
          /\ loop' = At("start", loop.run)
    BY <1>2 DEF SendCommit
  <2>2. loop.at = "send" /\ UNCHANGED <<approvals, tasks, cancels, inflight>>
    BY <1>2 DEF SendCommit
  <2>3. QED BY <1>0, <2>1, <2>2, SoleKept DEF Claims, Working, Open, At
<1>3. CASE SendStart
  BY <1>0, <1>3, SoleKept DEF SendStart, Claims, Working, Open, Idle
<1>4. CASE Resume
  BY <1>0, <1>4, SoleKept DEF Resume, Claims, Working, Open, Idle
<1>5. CASE PersistWaiting
  BY <1>0, <1>5, SoleKept DEF PersistWaiting, UpdateRun, Claims, Working, Open, At, Active
<1>6. CASE PersistAsk
  BY <1>0, <1>6, SoleKept DEF PersistAsk, EndTask, Claims, Working, Open, Idle
<1>7. CASE PersistFailed
  BY <1>0, <1>7, SoleKept DEF PersistFailed, EndTask, Claims, Working, Open, Idle
<1>8. ASSUME NEW c \in ChatIds, NEW r \in Runs, SendRead(c, r) PROVE SoleClaim'
  <2>1. /\ runs' = [runs EXCEPT ![r].chat = c] /\ loop' = At("send", r)
        /\ loop = Idle /\ c \in chats /\ PendingApprovals(c) = {} /\ ActiveRuns(c) = {}
        /\ UNCHANGED <<approvals, tasks, cancels, inflight>>
    BY <1>8 DEF SendRead, Serving
  <2>2. \A q \in Runs \ {r} : runs'[q] = runs[q] /\ (Claims(q)' => Claims(q))
    BY <1>0, <2>1 DEF Claims, Working, Open, At, Idle
  <2>3. ASSUME NEW q \in Runs, Claims(q), runs[q].chat = c PROVE FALSE
    <3>1. runs[q].status \notin Active
      BY <2>1, <2>3 DEF ActiveRuns
    <3>2. Inserted(q) => runs[q].status # "absent"
      BY <2>1, <2>3 DEF Rooted, RowsStay
    <3>3. ~Working(q)
      <4>1. Working(q) => Inserted(q)
        BY DEF Working, Rooted, InsertedFirst
      <4>2. Working(q) => Quiet(q)
        BY DEF Activity, DrivenQuiet
      <4>3. QED BY <3>1, <3>2, <4>1, <4>2 DEF Quiet
    <3>4. \A a \in Approvals : approvals[a].run = q => ~Open(a)
      <4>1. \A a \in Approvals : approvals[a].run = q => Inserted(q)
        BY DEF Rooted, InsertedFirst
      <4>2. \A a \in Approvals : approvals[a].run = q /\ inflight[a] # "none" => Quiet(q)
        BY DEF Activity, DrivenQuiet
      <4>3. \A a \in Approvals : approvals[a].run = q => approvals[a].status # "pending"
        BY <2>1, <2>3 DEF PendingApprovals, ExistingApprovals, ChatOf
      <4>4. QED BY <3>1, <3>2, <4>1, <4>2, <4>3 DEF Quiet, Open
    <3>5. loop.at = "idle"
      BY <2>1 DEF Idle
    <3>6. QED BY <2>3, <3>1, <3>3, <3>4, <3>5 DEF Claims
  <2>4. runs'[r].chat = c
    BY <1>0, <2>1
  <2>5. QED BY <2>2, <2>3, <2>4 DEF SoleClaim
<1>9. ASSUME NEW r \in Runs, TaskStart(r) PROVE SoleClaim'
  BY <1>0, <1>9, SoleKept DEF TaskStart, Wakes, UpdateRun, Claims, Working, Open, Idle
<1>10. ASSUME NEW r \in Runs, TaskToken(r) PROVE SoleClaim'
  BY <1>0, <1>10, SoleKept DEF TaskToken, Wakes, UpdateRun, Claims, Working, Open, Idle
<1>11. ASSUME NEW r \in Runs, TaskFail(r) PROVE SoleClaim'
  BY <1>0, <1>11, SoleKept DEF TaskFail, Wakes, UpdateRun, Claims, Working, Open, Idle, At, Active
<1>12. ASSUME NEW r \in Runs, TaskUnwind(r) PROVE SoleClaim'
  <2>1. CASE /\ UpdateRun(r, "cancelled") /\ loop' = At("fail", r) /\ UNCHANGED <<tasks, cancels>>
    BY <1>0, <1>12, <2>1, SoleKept DEF TaskUnwind, UpdateRun, Claims, Working, Open, Idle, At, Active
  <2>2. CASE EndTask(r) /\ UNCHANGED <<runs, loop>>
    BY <1>0, <1>12, <2>2, SoleKept DEF TaskUnwind, EndTask, Claims, Working, Open
  <2>3. QED BY <1>12, <2>1, <2>2 DEF TaskUnwind
<1>13. ASSUME NEW r \in Runs, TaskFinish(r) PROVE SoleClaim'
  BY <1>0, <1>13, SoleKept DEF TaskFinish, Wakes, Claims, Working, Open
<1>14. ASSUME NEW r \in Runs, TaskIngested(r) PROVE SoleClaim'
  BY <1>0, <1>14, SoleKept DEF TaskIngested, Wakes, UpdateRun, Claims, Working, Open, Active
<1>15. ASSUME NEW r \in Runs, TaskLingered(r) PROVE SoleClaim'
  BY <1>0, <1>15, SoleKept DEF TaskLingered, Wakes, EndTask, Claims, Working, Open
<1>16. ASSUME NEW r \in Runs, AdoptApproval(r) PROVE SoleClaim'
  BY <1>0, <1>16, SoleKept DEF AdoptApproval, Wakes, Claims, Working, Open, Idle, At
<1>17. ASSUME NEW r \in Runs, NEW a \in Approvals, RaiseApproval(r, a) PROVE SoleClaim'
  <2>1. /\ approvals' = [approvals EXCEPT ![a] = [status |-> "pending", run |-> r]]
        /\ loop = Idle /\ loop' = At("wait", r) /\ FreshApproval(a)
        /\ tasks[r] \in {"waiting", "streaming"} /\ r \notin cancels
        /\ UNCHANGED <<runs, tasks, cancels, inflight>>
    BY <1>17 DEF RaiseApproval, Wakes
  <2>2. Claims(r)
    BY <2>1 DEF Claims, Working, Idle
  <2>3. \A b \in Approvals \ {a} : approvals'[b] = approvals[b]
    BY <1>0, <2>1
  <2>4. approvals'[a].run = r
    BY <1>0, <2>1
  <2>5. \A q \in Runs : Claims(q)' => Claims(q)
    BY <1>0, <2>1, <2>2, <2>3, <2>4 DEF Claims, Working, Open, Idle, At
  <2>6. QED BY <2>1, <2>5, SoleKept
<1>18. ASSUME NEW a \in Approvals, ExecuteCommand(a) PROVE SoleClaim'
  BY <1>0, <1>18, SoleKept DEF ExecuteCommand, Claims, Working, Open
<1>32. ASSUME NEW a \in Approvals, ExecuteRaises(a) PROVE SoleClaim'
  BY <1>0, <1>32, SoleKept DEF ExecuteRaises, Claims, Working, Open
<1>19. ASSUME NEW a \in Approvals, Continue(a) PROVE SoleClaim'
  <2> DEFINE r == approvals[a].run
  <2>1. /\ runs' = [runs EXCEPT ![r].status = "running"]
        /\ approvals' = [approvals EXCEPT ![a].status = IF @ = "absent" THEN @ ELSE "approved"]
        /\ inflight' = [inflight EXCEPT ![a] = "none"]
        /\ inflight[a] = "returned" /\ loop = Idle /\ loop' = At("resume", r)
        /\ UNCHANGED <<tasks, cancels>>
    BY <1>19 DEF Continue, Serving
  <2>2. r \in Runs /\ Claims(r)
    BY <1>0, <2>1 DEF Claims, Open
  <2> HIDE DEF r
  <2>3. \A q \in Runs \ {r} : runs'[q] = runs[q]
    BY <1>0, <2>1
  <2>4. runs'[r].chat = runs[r].chat
    BY <1>0, <2>1, <2>2
  <2>5. \A b \in Approvals : Open(b)' => Open(b) /\ approvals'[b].run = approvals[b].run
    BY <1>0, <2>1 DEF Open
  <2>6. \A q \in Runs \ {r} : Claims(q)' => Claims(q)
    BY <2>1, <2>3, <2>5 DEF Claims, Working, At, Idle
  <2>7. QED BY <2>2, <2>3, <2>4, <2>6, SoleKept
<1>20. ASSUME NEW a \in Approvals, ContinueConflict(a) PROVE SoleClaim'
  BY <1>0, <1>20, SoleKept DEF ContinueConflict, Claims, Working, Open
<1>21. ASSUME NEW a \in Approvals, Approve(a) PROVE SoleClaim'
  <2>1. /\ approvals' = [approvals EXCEPT ![a].status = "executing"]
        /\ inflight' = [inflight EXCEPT ![a] = "called"]
        /\ UpdateRun(approvals[a].run, "running")
        /\ approvals[a].status = "pending" /\ UNCHANGED <<loop, tasks, cancels>>
    BY <1>21 DEF Approve, Resolvable
  <2>2. approvals[a].run \in Runs /\ Claims(approvals[a].run)
    BY <1>0, <2>1 DEF Claims, Open
  <2>3. \A b \in Approvals : /\ approvals'[b].run = approvals[b].run
                            /\ (Open(b)' <=> Open(b))
    BY <1>0, <2>1 DEF Open
  <2>4. \A q \in Runs : runs'[q].chat = runs[q].chat
                     /\ (q # approvals[a].run => runs'[q] = runs[q])
    BY <1>0, <2>1 DEF UpdateRun
  <2>5. \A q \in Runs : Claims(q)' => Claims(q)
    BY <2>1, <2>2, <2>3, <2>4 DEF Claims, Working
  <2>6. QED BY <2>4, <2>5, SoleKept
<1>22. ASSUME NEW a \in Approvals, Deny(a) PROVE SoleClaim'
  BY <1>0, <1>22, SoleKept DEF Deny, Resolvable, UpdateRun, Claims, Working, Open, Active
<1>23. ASSUME NEW r \in Runs, NEW a \in Approvals, Other(a, r) PROVE SoleClaim'
  <2> DEFINE c == ChatOf(a)
             old == approvals[a].run
  <2>1. PICK m \in MsgIds :
          runs' = [q \in Runs |->
                     IF q = r THEN [status |-> "pending", chat |-> c, msg |-> m]
                     ELSE IF q = old /\ runs[q].status # "absent"
                     THEN [runs[q] EXCEPT !.status = "other"]
                     ELSE runs[q]]
    BY <1>23, Zenon DEF Other
  <2>2. /\ loop = Idle /\ FreshRun(r) /\ loop' = At("resume", r)
        /\ approvals[a].status = "pending"
        /\ approvals' = [approvals EXCEPT ![a].status = "other"]
        /\ UNCHANGED <<tasks, cancels, inflight>>
    BY <1>23 DEF Other, Resolvable, Serving
  <2>3. old \in Runs /\ runs[old].chat = c /\ Claims(old) /\ old # r
    BY <1>0, <2>2 DEF Claims, Open, ChatOf, Ownership, FreshClean
  <2>4. tasks[old] = "none"
    BY <2>2, OpenHasNoTask DEF Open
  <2>5. \A b \in Approvals : /\ approvals'[b].run = approvals[b].run
                            /\ (Open(b)' => Open(b) /\ b # a)
    BY <1>0, <2>2 DEF Open
  <2>6. \A b \in Approvals : approvals[b].run = old /\ Open(b) => b = a
    BY <2>2 DEF Ownership, OneDriver, Open
  <2> HIDE DEF c, old
  <2>7. /\ runs'[r].chat = c /\ (old # r => runs'[old].status \notin Active)
        /\ \A q \in Runs \ {r} : runs'[q].chat = runs[q].chat
        /\ \A q \in Runs \ {r, old} : runs'[q] = runs[q]
    BY <1>0, <2>1, <2>3 DEF Active
  <2>8. \A q \in Runs \ {r} : Claims(q)' => Claims(q) /\ q # old
    BY <2>2, <2>3, <2>4, <2>5, <2>6, <2>7 DEF Claims, Working, At, Idle
  <2>9. \A q \in Runs : Claims(q) /\ runs[q].chat = c => q = old
    BY <2>3 DEF SoleClaim
  <2>10. QED BY <2>7, <2>8, <2>9 DEF SoleClaim
<1>24. ASSUME NEW c \in ChatIds, DeleteRead(c) PROVE SoleClaim'
  BY <1>0, <1>24, SoleKept DEF DeleteRead, Claims, Working, Open
<1>25. ASSUME NEW c \in ChatIds, DeleteCommit(c) PROVE SoleClaim'
  BY <1>0, <1>25, SoleKept DEF DeleteCommit, Claims, Working, Open, Active
<1>26. CASE Shutdown
  BY <1>0, <1>26, SoleKept DEF Shutdown, Serving, Claims, Working, Open, Active
<1>27. CASE Exit
  BY <1>0, <1>27, SoleKept DEF Exit, LoseMemory, Claims, Working, Open, Idle
<1>28. CASE Crash
  BY <1>0, <1>28, SoleKept DEF Crash, LoseMemory, Claims, Working, Open, Idle
<1>29. CASE Recover
  <2>1. runs' = [r \in Runs |-> IF runs[r].status \in Active
                     THEN [runs[r] EXCEPT !.status = "failed"] ELSE runs[r]]
    BY <1>29, Zenon DEF Recover
  <2>2. UNCHANGED <<approvals, loop, tasks, cancels, inflight>>
    BY <1>29 DEF Recover
  <2>3. \A q \in Runs : runs'[q].chat = runs[q].chat
                     /\ (runs'[q].status \in Active => runs[q].status \in Active)
    BY <1>0, <2>1 DEF Active
  <2>4. QED BY <2>2, <2>3, SoleKept DEF Claims, Working, Open
<1>30. CASE UNCHANGED vars
  BY <1>30 DEF vars, SoleClaim, Claims, Working, Open
<1>31. QED
  BY <1>1, <1>2, <1>3, <1>4, <1>5, <1>6, <1>7, <1>8, <1>9, <1>10, <1>11, <1>12, <1>13, <1>14, <1>15, <1>16, <1>17, <1>18, <1>19, <1>20, <1>21, <1>22, <1>23, <1>24, <1>25, <1>26, <1>27, <1>28, <1>29, <1>30, <1>32 DEF Next, LoopStep, TaskStep, HandlerStep

LEMMA SoleNoTurn == TypeOK /\ SoleClaim => NoTurnWhilePending
<1> SUFFICES ASSUME TypeOK, SoleClaim, NEW a \in ExistingApprovals,
                    approvals[a].status = "pending",
                    NEW q \in ActiveRuns(ChatOf(a))
             PROVE  q = approvals[a].run
  BY DEF NoTurnWhilePending
<1>1. a \in Approvals /\ approvals[a].run \in Runs
  BY DEF ExistingApprovals, TypeOK, ApprovalRow
<1>2. Claims(approvals[a].run)
  BY <1>1 DEF Claims, Open
<1>3. q \in Runs /\ Claims(q) /\ runs[q].chat = runs[approvals[a].run].chat
  BY DEF ActiveRuns, ChatOf, Claims
<1>4. QED BY <1>1, <1>2, <1>3 DEF SoleClaim

\* No request leaves the history of commands that raised.
LEMMA RaisedKept == TypeOK /\ [Next]_vars => \A r \in Runs : Raised(r) => Raised(r)'
<1> SUFFICES ASSUME TypeOK, [Next]_vars
             PROVE  raised \subseteq raised' /\ \A a \in raised : approvals'[a].run = approvals[a].run
  BY DEF Raised
<1> USE DEF ApprovalRow, rows, ids, memory, life
<1>0. /\ approvals \in [Approvals -> ApprovalRow]
      /\ raised \subseteq Approvals
      /\ \A a \in raised : approvals[a].run # NoRun
  BY DEF TypeOK
<1>1. CASE UNCHANGED <<approvals, raised>>
  BY <1>1
<1>2. ASSUME NEW r \in Runs, NEW a \in Approvals, RaiseApproval(r, a)
      PROVE  raised' = raised /\ \A b \in raised : approvals'[b].run = approvals[b].run
  BY <1>0, <1>2 DEF RaiseApproval, FreshApproval
<1>3. ASSUME NEW a \in Approvals, NEW t, raised' = raised,
             approvals' = [approvals EXCEPT ![a].status = t]
      PROVE  \A b \in raised : approvals'[b].run = approvals[b].run
  BY <1>0, <1>3
<1>4. ASSUME NEW c \in ChatIds, DeleteCommit(c)
      PROVE  raised' = raised /\ \A b \in raised : approvals'[b].run = approvals[b].run
  BY <1>0, <1>4 DEF DeleteCommit
<1>5. ASSUME NEW a \in Approvals, ExecuteRaises(a)
      PROVE  raised \subseteq raised' /\ approvals' = approvals
  BY <1>5 DEF ExecuteRaises
<1>6. ASSUME NEW a \in Approvals, HandlerStep(a) \/ Approve(a) \/ Deny(a)
      PROVE  raised \subseteq raised' /\ \A b \in raised : approvals'[b].run = approvals[b].run
  <2>1. CASE ExecuteCommand(a) \/ ContinueConflict(a)
    BY <2>1 DEF ExecuteCommand, ContinueConflict
  <2>2. CASE Approve(a) \/ Deny(a) \/ Continue(a)
    BY <1>3, <2>2 DEF Approve, Deny, Continue
  <2>3. QED BY <1>5, <1>6, <2>1, <2>2 DEF HandlerStep
<1>7. ASSUME NEW a \in Approvals, NEW r \in Runs, Other(a, r)
      PROVE  raised' = raised /\ \A b \in raised : approvals'[b].run = approvals[b].run
  BY <1>3, <1>7 DEF Other
<1>8. ASSUME NEW r \in Runs, TaskStep(r)
      PROVE  raised' = raised /\ \A b \in raised : approvals'[b].run = approvals[b].run
  BY <1>2, <1>8 DEF TaskStep, TaskStart, TaskToken, TaskFail, TaskUnwind, TaskFinish,
     TaskIngested, TaskLingered, AdoptApproval
<1>9. QED
  <2>1. CASE CreateChat \/ LoopStep \/ Shutdown \/ Exit \/ Crash \/ Recover \/ UNCHANGED vars
    BY <1>1, <2>1 DEF CreateChat, LoopStep, SendCommit, SendStart, Resume, PersistWaiting,
       PersistAsk, PersistFailed, Shutdown, Exit, Crash, Recover, vars
  <2>2. ASSUME NEW c \in ChatIds, NEW r \in Runs, SendRead(c, r)
        PROVE  UNCHANGED <<approvals, raised>>
    BY <2>2 DEF SendRead
  <2>3. ASSUME NEW c \in ChatIds, DeleteRead(c) PROVE UNCHANGED <<approvals, raised>>
    BY <2>3 DEF DeleteRead
  <2>4. QED BY <1>1, <1>4, <1>6, <1>7, <1>8, <2>1, <2>2, <2>3 DEF Next

LEMMA AttendedInit == Init => Attended
BY DEF Init, Attended, CancelledForDeletion, StatusFirst, ActiveHasDriver, Idle, Active

\* A step that neither creates nor deletes a chat, starts nor stops the
\* process: what it leaves active it leaves driven.
LEMMA AttendedKept ==
  ASSUME Attended, UNCHANGED <<chats, doomed, phase>>, cancels' \subseteq cancels,
         \A q \in cancels' : /\ runs'[q].chat = runs[q].chat
                             /\ tasks'[q] # "none",
         loop'.at \in {"ask", "fail"} => runs'[loop'.run].status \notin Active,
         \A q \in Runs : Raised(q) => Raised(q)',
         \A q \in Runs :
           /\ phase = "up" /\ runs'[q].status \in Active /\ ~Deleting(runs'[q].chat)
           /\ runs[q].status \in Active /\ runs'[q].chat = runs[q].chat => Driven(q) \/ Raised(q)
           => Driven(q)' \/ Raised(q)'
  PROVE  Attended'
<1>1. CancelledForDeletion'
  BY DEF Attended, CancelledForDeletion, Deleting
<1>2. StatusFirst'
  BY DEF StatusFirst
<1>3. ActiveHasDriver'
  BY DEF Attended, ActiveHasDriver, Deleting
<1>4. QED BY <1>1, <1>2, <1>3 DEF Attended

LEMMA AttendedStep ==
  ASSUME ~ReuseIds, TypeOK, ApprovalInv, Ownership, Rooted, Attended, [Next]_vars
  PROVE  Attended'
<1> USE DEF RunRow, ApprovalRow, rows, ids, memory, life
<1>0. /\ runs \in [Runs -> RunRow]
      /\ approvals \in [Approvals -> ApprovalRow]
      /\ loop \in [at: Places, run: Runs \cup {NoRun}]
      /\ loop.at # "idle" => loop.run \in Runs
      /\ tasks \in [Runs -> Stages]
      /\ cancels \subseteq Runs
      /\ inflight \in [Approvals -> {"none", "called", "returned"}]
      /\ \A a \in Approvals : approvals[a].run = NoRun =>
           approvals[a].status = "absent" /\ inflight[a] = "none"
      /\ doomed \in [ChatIds -> Deletion]
      /\ NoRun \notin Runs
  BY NoRunAssumption DEF TypeOK
<1>r. \A q \in Runs : Raised(q) => Raised(q)'
  BY RaisedKept
<1>a. /\ \A r \in cancels : tasks[r] # "none"
      /\ phase = "up" => \A r \in cancels : Deleting(runs[r].chat)
      /\ phase = "down" => cancels = {}
      /\ loop.at \in {"ask", "fail"} => runs[loop.run].status \notin Active
  BY DEF Attended, CancelledForDeletion, StatusFirst
<1>1. CASE CreateChat
  <2>1. PICK c \in ChatIds : c = lastChat + 1 /\ chats' = chats \cup {c}
    BY <1>1 DEF CreateChat, NextId
  <2>2. UNCHANGED <<msgs, runs, approvals, memory, life>>
    BY <1>1 DEF CreateChat
  <2>3. \A r \in Runs : runs[r].chat # c
    <3>1. lastChat \in Nat /\ \A r \in Runs : runs[r].chat <= lastChat /\ runs[r].chat \in Int
      BY <1>0, BoundsAssumption DEF TypeOK, Rooted, IdsGrow
    <3>2. QED BY <2>1, <3>1
  <2>4. CancelledForDeletion'
    BY <1>0, <1>a, <2>1, <2>2, <2>3 DEF CancelledForDeletion, Deleting
  <2>5. StatusFirst'
    BY <2>2 DEF Attended, StatusFirst
  <2>6. ActiveHasDriver'
    BY <1>r, <2>1, <2>2, <2>3 DEF Attended, ActiveHasDriver, Driven
  <2>7. QED BY <2>4, <2>5, <2>6 DEF Attended
<1>2. CASE SendCommit
  <2>1. PICK m \in MsgIds :
          /\ runs' = [runs EXCEPT ![loop.run] =
                        [status |-> "pending", chat |-> runs[loop.run].chat, msg |-> m]]
          /\ loop' = At("start", loop.run)
    BY <1>2 DEF SendCommit
  <2>2. loop.at = "send" /\ UNCHANGED <<chats, approvals, tasks, cancels, inflight, doomed, phase>>
    BY <1>2 DEF SendCommit
  <2>3. \A q \in Runs : runs'[q].chat = runs[q].chat /\ (q # loop.run => runs'[q] = runs[q])
    BY <1>0, <2>1
  <2>4. QED BY <1>r, <1>0, <1>a, <2>1, <2>2, <2>3, AttendedKept DEF Driven, At
<1>3. CASE SendStart
  <2> DEFINE r == loop.run
  <2>1. loop.at = "start" /\ r \in Runs /\ loop' = Idle
        /\ UNCHANGED <<chats, msgs, runs, approvals, cancels, inflight, doomed, phase>>
    BY <1>0, <1>3 DEF SendStart
  <2>2. tasks' = tasks \/ tasks' = [tasks EXCEPT ![r] = "created"]
    BY <1>3 DEF SendStart
  <2>3. ~Deleting(runs[r].chat) /\ runs[r].status \in Active => tasks'[r] = "created"
    <3>1. Inserted(r)
      BY <2>1 DEF Rooted, InsertedFirst
    <3>2. runs[r].chat \in chats => runs[r].msg \in ExistingMsgs
      BY <2>1, <3>1 DEF Rooted, RowsStay
    <3>3. QED BY <1>0, <1>3, <2>1, <3>2 DEF SendStart, Deleting
  <2> HIDE DEF r
  <2>4. \A q \in Runs : tasks'[q] # tasks[q] => tasks'[q] = "created"
    BY <1>0, <2>2
  <2>5. \A q \in Runs \ {r} : tasks'[q] = tasks[q] /\ loop.run # q
    BY <1>0, <2>2 DEF r
  <2>6. QED BY <1>r, <1>a, <2>1, <2>3, <2>4, <2>5, <1>0, AttendedKept DEF Driven, Idle
<1>4. CASE Resume
  BY <1>r, <1>0, <1>a, <1>4, AttendedKept DEF Resume, Driven, Idle
<1>5. CASE PersistWaiting
  BY <1>r, <1>0, <1>a, <1>5, AttendedKept DEF PersistWaiting, UpdateRun, Driven, At, Active
<1>6. CASE PersistAsk
  BY <1>r, <1>0, <1>a, <1>6, AttendedKept DEF PersistAsk, EndTask, Driven, Idle
<1>7. CASE PersistFailed
  BY <1>r, <1>0, <1>a, <1>7, AttendedKept DEF PersistFailed, EndTask, Driven, Idle
<1>8. ASSUME NEW c \in ChatIds, NEW r \in Runs, SendRead(c, r) PROVE Attended'
  <2>1. r \notin cancels /\ runs[r].status = "absent"
    BY <1>0, <1>a, <1>8 DEF SendRead, Ownership, FreshClean
  <2>2. QED BY <1>r, <1>0, <1>a, <1>8, <2>1, AttendedKept DEF SendRead, Serving, Driven, Idle, At, Active
<1>9. ASSUME NEW r \in Runs, TaskStart(r) PROVE Attended'
  BY <1>r, <1>0, <1>a, <1>9, AttendedKept DEF TaskStart, Wakes, UpdateRun, Driven, Idle
<1>10. ASSUME NEW r \in Runs, TaskToken(r) PROVE Attended'
  BY <1>r, <1>0, <1>a, <1>10, AttendedKept DEF TaskToken, Wakes, UpdateRun, Driven, Idle
<1>11. ASSUME NEW r \in Runs, TaskFail(r) PROVE Attended'
  BY <1>r, <1>0, <1>a, <1>11, AttendedKept DEF TaskFail, Wakes, UpdateRun, Driven, Idle, At, Active
<1>12. ASSUME NEW r \in Runs, TaskUnwind(r) PROVE Attended'
  <2>1. CASE /\ UpdateRun(r, "cancelled") /\ loop' = At("fail", r) /\ UNCHANGED <<tasks, cancels>>
    BY <1>r, <1>0, <1>a, <1>12, <2>1, AttendedKept DEF TaskUnwind, UpdateRun, Driven, Idle, At, Active
  <2>2. CASE EndTask(r) /\ UNCHANGED <<runs, loop>>
    <3>1. phase = "up" => Deleting(runs[r].chat)
      BY <1>a, <1>12 DEF TaskUnwind
    <3>2. QED BY <1>r, <1>0, <1>a, <1>12, <2>2, <3>1, AttendedKept DEF TaskUnwind, EndTask, Driven, Idle
  <2>3. QED BY <1>12, <2>1, <2>2 DEF TaskUnwind
<1>13. ASSUME NEW r \in Runs, TaskFinish(r) PROVE Attended'
  BY <1>r, <1>0, <1>a, <1>13, AttendedKept DEF TaskFinish, Wakes, Driven, Idle
<1>14. ASSUME NEW r \in Runs, TaskIngested(r) PROVE Attended'
  BY <1>r, <1>0, <1>a, <1>14, AttendedKept DEF TaskIngested, Wakes, UpdateRun, Driven, Idle, Active
<1>15. ASSUME NEW r \in Runs, TaskLingered(r) PROVE Attended'
  BY <1>r, <1>0, <1>a, <1>15, AttendedKept DEF TaskLingered, Wakes, EndTask, Driven, Idle
<1>16. ASSUME NEW r \in Runs, AdoptApproval(r) PROVE Attended'
  BY <1>r, <1>0, <1>a, <1>16, AttendedKept DEF AdoptApproval, Wakes, Driven, Idle, At
<1>17. ASSUME NEW r \in Runs, NEW a \in Approvals, RaiseApproval(r, a) PROVE Attended'
  <2>1. inflight[a] = "none"
    BY <1>0, <1>17 DEF RaiseApproval, FreshApproval
  <2>2. QED BY <1>r, <1>0, <1>a, <1>17, <2>1, AttendedKept DEF RaiseApproval, Wakes, Driven, Idle, At
<1>18. ASSUME NEW a \in Approvals, ExecuteCommand(a) PROVE Attended'
  BY <1>r, <1>0, <1>a, <1>18, AttendedKept DEF ExecuteCommand, Driven
<1>32. ASSUME NEW a \in Approvals, ExecuteRaises(a) PROVE Attended'
  <2>1. \A q \in Runs : Driven(q) => Driven(q)' \/ Raised(q)'
    BY <1>0, <1>32 DEF ExecuteRaises, Driven, Raised
  <2>2. QED BY <1>r, <1>0, <1>a, <1>32, <2>1, AttendedKept DEF ExecuteRaises
<1>19. ASSUME NEW a \in Approvals, Continue(a) PROVE Attended'
  <2> DEFINE r == approvals[a].run
  <2>1. /\ runs' = [runs EXCEPT ![r].status = "running"]
        /\ approvals' = [approvals EXCEPT ![a].status = IF @ = "absent" THEN @ ELSE "approved"]
        /\ inflight' = [inflight EXCEPT ![a] = "none"]
        /\ inflight[a] = "returned" /\ loop = Idle /\ loop' = At("resume", r)
        /\ UNCHANGED <<chats, tasks, cancels, doomed, phase>>
    BY <1>19 DEF Continue, Serving
  <2>2. r \in Runs
    BY <1>0, <2>1
  <2>3. \A q \in Runs : runs'[q].chat = runs[q].chat /\ (q # r => runs'[q] = runs[q])
    BY <1>0, <2>1
  <2>4. \A b \in Approvals : /\ approvals'[b].run = approvals[b].run
                            /\ (b # a => inflight'[b] = inflight[b])
    BY <1>0, <2>1
  <2>5. loop'.at = "resume" /\ loop'.run = r /\ loop.run = NoRun
    BY <2>1 DEF Idle, At
  <2>6. \A q \in Runs \ {r} : Driven(q) => Driven(q)'
    BY <1>0, <2>1, <2>4, <2>5 DEF Driven
  <2>7. \A q \in Runs : q = r => Driven(q)'
    BY <2>5 DEF Driven
  <2> HIDE DEF r
  <2>8. QED BY <1>r, <1>0, <1>a, <2>1, <2>3, <2>5, <2>6, <2>7, AttendedKept
<1>20. ASSUME NEW a \in Approvals, ContinueConflict(a) PROVE Attended'
  BY <1>r, <1>0, <1>a, <1>20, AttendedKept DEF ContinueConflict, Serving, Driven, Idle, Active
<1>21. ASSUME NEW a \in Approvals, Approve(a) PROVE Attended'
  <2>1. /\ approvals' = [approvals EXCEPT ![a].status = "executing"]
        /\ inflight' = [inflight EXCEPT ![a] = "called"]
        /\ UpdateRun(approvals[a].run, "running")
        /\ loop = Idle /\ UNCHANGED <<chats, loop, tasks, cancels, doomed, phase>>
    BY <1>21 DEF Approve, Resolvable, Serving
  <2>2. \A q \in Runs : runs'[q].chat = runs[q].chat
                     /\ (q # approvals[a].run => runs'[q] = runs[q])
    BY <1>0, <2>1 DEF UpdateRun
  <2>3. \A q \in Runs : (q # approvals[a].run /\ Driven(q) => Driven(q)')
    BY <1>0, <2>1 DEF Driven
  <2>4. \A q \in Runs : q = approvals[a].run => Driven(q)'
    BY <1>0, <2>1 DEF Driven
  <2>5. QED BY <1>r, <1>0, <1>a, <2>1, <2>2, <2>3, <2>4, AttendedKept DEF Idle
<1>22. ASSUME NEW a \in Approvals, Deny(a) PROVE Attended'
  BY <1>r, <1>0, <1>a, <1>22, AttendedKept DEF Deny, Resolvable, Serving, UpdateRun, Driven, Idle, Active
<1>23. ASSUME NEW r \in Runs, NEW a \in Approvals, Other(a, r) PROVE Attended'
  <2> DEFINE c == ChatOf(a)
             old == approvals[a].run
  <2>1. PICK m \in MsgIds :
          runs' = [q \in Runs |->
                     IF q = r THEN [status |-> "pending", chat |-> c, msg |-> m]
                     ELSE IF q = old /\ runs[q].status # "absent"
                     THEN [runs[q] EXCEPT !.status = "other"]
                     ELSE runs[q]]
    BY <1>23, Zenon DEF Other
  <2>2. /\ loop = Idle /\ FreshRun(r) /\ loop' = At("resume", r)
        /\ approvals' = [approvals EXCEPT ![a].status = "other"]
        /\ UNCHANGED <<chats, tasks, cancels, inflight, doomed, phase>>
    BY <1>23 DEF Other, Resolvable, Serving
  <2>3. r \notin cancels
    BY <1>0, <1>a, <2>2 DEF Ownership, FreshClean
  <2> HIDE DEF c, old
  <2>4. \A q \in Runs \ {r} : /\ runs'[q].chat = runs[q].chat
                             /\ (runs'[q].status \in Active => runs[q].status \in Active)
    BY <1>0, <2>1 DEF Active
  <2>5. loop'.at = "resume" /\ loop'.run = r /\ loop.run = NoRun
    BY <2>2 DEF Idle, At
  <2>6. \A q \in Runs \ {r} : Driven(q) => Driven(q)'
    BY <1>0, <2>2, <2>5 DEF Driven
  <2>7. Driven(r)'
    BY <2>5 DEF Driven
  <2>8. QED BY <1>r, <1>0, <1>a, <2>2, <2>3, <2>4, <2>5, <2>6, <2>7, AttendedKept
<1>24. ASSUME NEW c \in ChatIds, DeleteRead(c) PROVE Attended'
  <2>1. /\ phase = "up" /\ cancels' = cancels \cup {r \in ActiveRuns(c) : tasks[r] # "none"}
        /\ UNCHANGED <<chats, runs, approvals, loop, tasks, inflight, phase>>
    BY <1>24 DEF DeleteRead
  <2>2. doomed'[c].on /\ \A k \in ChatIds \ {c} : doomed'[k] = doomed[k]
    BY <1>0, <1>24 DEF DeleteRead
  <2>3. chats \subseteq ChatIds
    BY DEF TypeOK
  <2>4. CancelledForDeletion'
    BY <1>a, <2>1, <2>2, <2>3 DEF CancelledForDeletion, Deleting, ActiveRuns
  <2>5. StatusFirst'
    BY <2>1 DEF Attended, StatusFirst
  <2>6. ActiveHasDriver'
    BY <1>r, <2>1, <2>2, <2>3 DEF Attended, ActiveHasDriver, Driven
  <2>7. QED BY <2>4, <2>5, <2>6 DEF Attended
<1>25. ASSUME NEW c \in ChatIds, DeleteCommit(c) PROVE Attended'
  <2>1. /\ chats' = chats \ {c} /\ UNCHANGED <<loop, tasks, cancels, inflight, phase>>
    BY <1>25 DEF DeleteCommit
  <2>2. \A q \in Runs : /\ runs'[q].chat = runs[q].chat
                       /\ (runs'[q].status \in Active => runs[q].status \in Active)
    BY <1>0, <1>25 DEF DeleteCommit, Active
  <2>3. \A b \in Approvals : approvals'[b].run = approvals[b].run
    BY <1>0, <1>25 DEF DeleteCommit
  <2>4. \A k \in ChatIds \ {c} : doomed'[k] = doomed[k]
    BY <1>0, <1>25 DEF DeleteCommit
  <2>5. chats \subseteq ChatIds
    BY DEF TypeOK
  <2>6. CancelledForDeletion'
    BY <1>0, <1>a, <2>1, <2>2, <2>4, <2>5 DEF CancelledForDeletion, Deleting
  <2>7. StatusFirst'
    <3>1. CASE loop.at \in {"ask", "fail"}
      BY <1>0, <1>a, <2>1, <2>2, <3>1 DEF StatusFirst
    <3>2. QED BY <2>1, <3>1 DEF StatusFirst
  <2>8. ActiveHasDriver'
    BY <1>r, <2>1, <2>2, <2>3, <2>4, <2>5 DEF Attended, ActiveHasDriver, Driven
  <2>9. QED BY <2>6, <2>7, <2>8 DEF Attended
<1>26. CASE Shutdown
  BY <1>0, <1>a, <1>26 DEF Shutdown, Serving, Attended, CancelledForDeletion, StatusFirst, ActiveHasDriver, Idle
<1>27. CASE Exit
  BY <1>27 DEF Exit, LoseMemory, Attended, CancelledForDeletion, StatusFirst, ActiveHasDriver, Idle
<1>28. CASE Crash
  BY <1>28 DEF Crash, LoseMemory, Attended, CancelledForDeletion, StatusFirst, ActiveHasDriver, Idle
<1>29. CASE Recover
  <2>1. runs' = [r \in Runs |-> IF runs[r].status \in Active
                     THEN [runs[r] EXCEPT !.status = "failed"] ELSE runs[r]]
    BY <1>29, Zenon DEF Recover
  <2>2. phase = "down" /\ UNCHANGED <<loop, tasks, cancels>>
    BY <1>29 DEF Recover
  <2>3. \A q \in Runs : runs'[q].status \notin Active
    BY <1>0, <2>1 DEF Active
  <2>4. loop'.at = "idle" /\ cancels' = {}
    BY <1>a, <2>2 DEF Ownership, DownEmpty, Idle
  <2>5. QED BY <2>3, <2>4 DEF Attended, CancelledForDeletion, StatusFirst, ActiveHasDriver
<1>30. CASE UNCHANGED vars
  BY <1>r, <1>30 DEF vars, Attended, CancelledForDeletion, StatusFirst, ActiveHasDriver, Deleting, Driven
<1>31. QED
  BY <1>1, <1>2, <1>3, <1>4, <1>5, <1>6, <1>7, <1>8, <1>9, <1>10, <1>11, <1>12, <1>13, <1>14, <1>15, <1>16, <1>17, <1>18, <1>19, <1>20, <1>21, <1>22, <1>23, <1>24, <1>25, <1>26, <1>27, <1>28, <1>29, <1>30, <1>32 DEF Next, LoopStep, TaskStep, HandlerStep

LEMMA AnswerableInit == Init => Answerable
BY DEF Init, Answerable, AskBacked, AskIsAnswerable, Idle, ExistingMsgs

\* A step that asks nobody and answers nothing.
LEMMA AnswerableKept ==
  ASSUME Answerable, TypeOK,
         \A a \in Approvals : approvals[a].status \in {"pending", "other"} =>
                                /\ approvals'[a] = approvals[a]
                                /\ runs'[approvals[a].run].msg = runs[approvals[a].run].msg,
         \A q \in Runs : (runs'[q].status = "waiting_approval" =>
                            runs[q].status = "waiting_approval"),
         \A m \in MsgIds : (msgs'[m].status = "approval_required" =>
                              msgs[m].status = "approval_required"),
         loop'.at \notin {"wait", "ask"}
  PROVE  Answerable'
<1>1. AskBacked'
  BY DEF AskBacked
<1>2. \A r \in Runs : runs'[r].status = "waiting_approval" =>
        \E a \in ExistingApprovals' : approvals'[a].status = "pending" /\ approvals'[a].run = r
  BY DEF Answerable, AskIsAnswerable, ExistingApprovals
<1>3. \A m \in ExistingMsgs' : msgs'[m].status = "approval_required" =>
        \E a \in ExistingApprovals' : /\ approvals'[a].status \in {"pending", "other"}
                                      /\ runs'[approvals'[a].run].msg = m
  <2> SUFFICES ASSUME NEW m \in ExistingMsgs', msgs'[m].status = "approval_required"
               PROVE  \E a \in ExistingApprovals' :
                        /\ approvals'[a].status \in {"pending", "other"}
                        /\ runs'[approvals'[a].run].msg = m
    OBVIOUS
  <2>1. m \in ExistingMsgs /\ msgs[m].status = "approval_required"
    BY DEF ExistingMsgs
  <2>2. PICK a \in ExistingApprovals : /\ approvals[a].status \in {"pending", "other"}
                                       /\ runs[approvals[a].run].msg = m
    BY <2>1 DEF Answerable, AskIsAnswerable
  <2>3. approvals'[a] = approvals[a] /\ a \in ExistingApprovals'
    BY <2>2 DEF ExistingApprovals
  <2>4. QED BY <2>2, <2>3 DEF ExistingApprovals
<1>4. QED BY <1>1, <1>2, <1>3 DEF Answerable, AskIsAnswerable

LEMMA AnswerableStep ==
  ASSUME ~ReuseIds, TypeOK, ApprovalInv, Ownership, Rooted, SoleClaim, Answerable, [Next]_vars
  PROVE  Answerable'
<1> USE DEF RunRow, ApprovalRow, MsgRow, rows, ids, memory, life
<1>0. /\ runs \in [Runs -> RunRow]
      /\ msgs \in [MsgIds -> MsgRow]
      /\ approvals \in [Approvals -> ApprovalRow]
      /\ loop \in [at: Places, run: Runs \cup {NoRun}]
      /\ loop.at # "idle" => loop.run \in Runs
      /\ tasks \in [Runs -> Stages]
      /\ inflight \in [Approvals -> {"none", "called", "returned"}]
      /\ \A a \in Approvals : approvals[a].run = NoRun =>
           approvals[a].status = "absent" /\ inflight[a] = "none"
      /\ \A a \in Approvals : inflight[a] # "none" =>
           approvals[a].status \in {"executing", "absent"}
      /\ doomed \in [ChatIds -> Deletion]
      /\ NoRun \notin Runs
  BY NoRunAssumption DEF TypeOK, ApprovalInv
<1>a. ASSUME NEW r \in Runs, NEW t \in RunStatus \ {"waiting_approval"}, UpdateRun(r, t)
      PROVE  /\ \A q \in Runs : runs'[q].msg = runs[q].msg
             /\ \A q \in Runs : (runs'[q].status = "waiting_approval" =>
                                   runs[q].status = "waiting_approval" /\ (q # r))
  BY <1>0, <1>a DEF UpdateRun
<1>b. \A a \in Approvals : approvals[a].status \in {"pending", "other"} => approvals[a].run \in Runs
  BY <1>0
<1>c. ASSUME NEW m, NEW t \in MsgStatus \ {"approval_required"}, NEW b \in BOOLEAN,
             msgs' = MsgsWith(m, t, b)
      PROVE  \A k \in MsgIds : (msgs'[k].status = "approval_required" =>
                                msgs[k].status = "approval_required" /\ (k # m))
  <2> TAKE k \in MsgIds
  <2>1. msgs[k] \in MsgRow
    BY <1>0
  <2>2. /\ msgs'[k] \in {msgs[k], [msgs[k] EXCEPT !.status = t, !.text = b]}
        /\ (k = m /\ msgs[k].status # "absent" =>
              msgs'[k] = [msgs[k] EXCEPT !.status = t, !.text = b])
    BY <1>c DEF MsgsWith
  <2>3. [msgs[k] EXCEPT !.status = t, !.text = b].status = t /\ t # "approval_required"
    BY <2>1
  <2>4. QED BY <1>c, <2>2, <2>3 DEF MsgsWith
\* Approve and Deny: the run and the message of a stop waiting with it.
<1>d. ASSUME NEW a \in Approvals, NEW t \in RunStatus \ {"waiting_approval"},
             NEW u \in MsgStatus \ {"approval_required"},
             NEW v \in ApprovalStatus \ {"absent"},
             UpdateRun(approvals[a].run, t), loop' = Idle,
             approvals' = [approvals EXCEPT ![a].status = v],
             msgs' = MsgsWith(runs[approvals[a].run].msg, u, TRUE),
             approvals[a].status = "pending"
      PROVE  Answerable'
  <2> DEFINE r == approvals[a].run
  <2>1. r \in Runs
    BY <1>b, <1>d
  <2>2. \A q \in Runs : /\ runs'[q].msg = runs[q].msg
                        /\ (runs'[q].status = "waiting_approval" =>
                              runs[q].status = "waiting_approval" /\ (q # r))
    BY <1>a, <1>d, <2>1
  <2>3. \A k \in MsgIds : (msgs'[k].status = "approval_required" =>
                           msgs[k].status = "approval_required" /\ (k # runs[r].msg))
    BY <1>c, <1>d
  <2>4. \A b \in Approvals \ {a} : approvals'[b] = approvals[b]
    BY <1>0, <1>d
  <2>5. AskBacked'
    BY <1>d DEF AskBacked, Idle
  <2>6. ASSUME NEW q \in Runs, runs'[q].status = "waiting_approval"
        PROVE  \E b \in ExistingApprovals' : approvals'[b].status = "pending" /\ approvals'[b].run = q
    <3>1. runs[q].status = "waiting_approval" /\ q # r
      BY <2>2, <2>6
    <3>2. PICK b \in ExistingApprovals : approvals[b].status = "pending" /\ approvals[b].run = q
      BY <3>1 DEF Answerable, AskIsAnswerable
    <3>3. QED BY <2>4, <3>1, <3>2 DEF ExistingApprovals
  <2>7. ASSUME NEW k \in ExistingMsgs', msgs'[k].status = "approval_required"
        PROVE  \E b \in ExistingApprovals' : /\ approvals'[b].status \in {"pending", "other"}
                                             /\ runs'[approvals'[b].run].msg = k
    <3>1. k \in ExistingMsgs /\ msgs[k].status = "approval_required" /\ k # runs[r].msg
      BY <2>3, <2>7 DEF ExistingMsgs
    <3>2. PICK b \in ExistingApprovals : /\ approvals[b].status \in {"pending", "other"}
                                         /\ runs[approvals[b].run].msg = k
      BY <3>1 DEF Answerable, AskIsAnswerable
    <3>3. b \in Approvals \ {a} /\ approvals[b].run \in Runs
      BY <1>b, <3>1, <3>2 DEF ExistingApprovals
    <3>4. QED BY <2>2, <2>4, <3>2, <3>3 DEF ExistingApprovals
  <2>8. QED BY <2>5, <2>6, <2>7 DEF Answerable, AskIsAnswerable
<1>1. CASE CreateChat
  BY <1>1 DEF CreateChat, Answerable, AskBacked, AskIsAnswerable, ExistingApprovals, ExistingMsgs
<1>2. CASE SendCommit
  <2> DEFINE r == loop.run
  <2>1. PICK m \in MsgIds :
          /\ InsertTurn(r, runs[r].chat, m)
          /\ runs' = [runs EXCEPT ![r] =
                        [status |-> "pending", chat |-> runs[r].chat, msg |-> m]]
          /\ loop' = At("start", r)
    BY <1>2 DEF SendCommit
  <2>2. r \in Runs /\ ~Inserted(r) /\ approvals' = approvals
    BY <1>0, <1>2 DEF SendCommit, Rooted, InsertedFirst
  <2>3. \A b \in Approvals : approvals[b].run # r
    BY <2>2 DEF Rooted, InsertedFirst
  <2>4. \A k \in MsgIds : (msgs'[k].status = "approval_required" =>
                           msgs[k].status = "approval_required")
    BY <1>0, <2>1 DEF InsertTurn
  <2>5. loop'.at = "start"
    BY <2>1 DEF At
  <2> HIDE DEF r
  <2>6. /\ runs'[r].status = "pending"
        /\ \A q \in Runs \ {r} : runs'[q] = runs[q]
    BY <1>0, <2>1, <2>2
  <2>7. QED BY <1>b, <2>2, <2>3, <2>4, <2>5, <2>6, AnswerableKept
<1>3. CASE SendStart
  BY <1>3, AnswerableKept DEF SendStart, Idle
<1>4. CASE Resume
  BY <1>4, AnswerableKept DEF Resume, Idle
<1>5. CASE PersistWaiting
  <2> DEFINE r == loop.run
  <2>1. /\ loop.at = "wait" /\ r \in Runs /\ loop' = At("ask", r)
        /\ UpdateRun(r, "waiting_approval") /\ UNCHANGED <<msgs, approvals>>
    BY <1>0, <1>5 DEF PersistWaiting
  <2>2. \/ \E a \in Approvals : approvals[a].status = "pending" /\ approvals[a].run = r
        \/ runs[r].status = "absent" /\ runs[r].msg \notin ExistingMsgs
    BY <2>1 DEF Answerable, AskBacked
  <2> HIDE DEF r
  <2>3. /\ \A q \in Runs : runs'[q].msg = runs[q].msg
        /\ \A q \in Runs \ {r} : runs'[q] = runs[q]
        /\ (runs[r].status = "absent" => runs'[r].status = "absent")
    BY <1>0, <2>1 DEF UpdateRun
  <2>4. loop'.run = r
    BY <2>1 DEF At
  <2>5. AskBacked'
    BY <2>1, <2>2, <2>3, <2>4 DEF AskBacked, ExistingMsgs
  <2>6. \A q \in Runs : runs'[q].status = "waiting_approval" =>
          \E a \in ExistingApprovals : approvals[a].status = "pending" /\ approvals[a].run = q
    BY <2>2, <2>3 DEF Answerable, AskIsAnswerable, ExistingApprovals
  <2>7. \A m \in ExistingMsgs : msgs[m].status = "approval_required" =>
          \E a \in ExistingApprovals : /\ approvals[a].status \in {"pending", "other"}
                                       /\ runs'[approvals[a].run].msg = m
    BY <1>b, <2>3 DEF Answerable, AskIsAnswerable, ExistingApprovals
  <2>8. AskIsAnswerable'
    BY <2>1, <2>6, <2>7 DEF AskIsAnswerable, ExistingMsgs, ExistingApprovals
  <2>9. QED BY <2>5, <2>8 DEF Answerable
<1>6. CASE PersistAsk
  <2> DEFINE r == loop.run
             w == runs[r].msg
  <2>1. /\ loop.at = "ask" /\ r \in Runs /\ loop' = Idle
        /\ msgs' = MsgsWith(w, "approval_required", TRUE) /\ UNCHANGED <<runs, approvals>>
    BY <1>0, <1>6 DEF PersistAsk
  <2>2. \/ \E a \in Approvals : approvals[a].status = "pending" /\ approvals[a].run = r
        \/ runs[r].msg \notin ExistingMsgs
    BY <2>1 DEF Answerable, AskBacked
  <2>3. \A k \in MsgIds : msgs'[k] = msgs[k] \/ (k = w /\ k \in ExistingMsgs)
    BY <2>1 DEF MsgsWith, ExistingMsgs
  <2>4. AskBacked'
    BY <2>1 DEF AskBacked, Idle
  <2>5. \A q \in Runs : runs[q].status = "waiting_approval" =>
          \E a \in ExistingApprovals : approvals[a].status = "pending" /\ approvals[a].run = q
    BY DEF Answerable, AskIsAnswerable
  <2>6. ASSUME NEW m \in MsgIds, msgs'[m].status = "approval_required"
        PROVE  m \in ExistingMsgs /\
               \E a \in ExistingApprovals : /\ approvals[a].status \in {"pending", "other"}
                                            /\ runs[approvals[a].run].msg = m
    <3>1. CASE m = w /\ m \in ExistingMsgs
      BY <2>2, <3>1 DEF ExistingApprovals
    <3>2. CASE msgs'[m] = msgs[m]
      BY <2>6, <3>2 DEF Answerable, AskIsAnswerable, ExistingMsgs
    <3>3. QED BY <2>3, <3>1, <3>2
  <2>7. runs' = runs /\ approvals' = approvals /\ ExistingApprovals' = ExistingApprovals
    BY <2>1 DEF ExistingApprovals
  <2> HIDE DEF r, w
  <2>8. AskIsAnswerable'
    BY <2>5, <2>6, <2>7 DEF AskIsAnswerable, ExistingMsgs
  <2>9. QED BY <2>4, <2>8 DEF Answerable
<1>7. CASE PersistFailed
  <2>1. \A k \in MsgIds : (msgs'[k].status = "approval_required" =>
                           msgs[k].status = "approval_required")
    BY <1>7, <1>c DEF PersistFailed, MsgStatus
  <2>2. QED BY <1>7, <2>1, AnswerableKept DEF PersistFailed, Idle
<1>8. ASSUME NEW c \in ChatIds, NEW r \in Runs, SendRead(c, r) PROVE Answerable'
  <2>1. \A q \in Runs : runs'[q].msg = runs[q].msg /\ runs'[q].status = runs[q].status
    BY <1>0, <1>8 DEF SendRead
  <2>2. QED BY <1>b, <1>8, <2>1, AnswerableKept DEF SendRead, At
<1>9. ASSUME NEW r \in Runs, TaskStart(r) PROVE Answerable'
  BY <1>a, <1>b, <1>9, AnswerableKept DEF TaskStart, Wakes, Idle, RunStatus, Active
<1>10. ASSUME NEW r \in Runs, TaskToken(r) PROVE Answerable'
  <2>1. \A k \in MsgIds : (msgs'[k].status = "approval_required" =>
                           msgs[k].status = "approval_required")
    BY <1>0, <1>10 DEF TaskToken
  <2>2. UpdateRun(r, "running") /\ loop' = Idle /\ approvals' = approvals
    BY <1>10 DEF TaskToken, Wakes
  <2>3. QED BY <1>a, <1>b, <2>1, <2>2, AnswerableKept DEF Idle, RunStatus, Active
<1>11. ASSUME NEW r \in Runs, TaskFail(r) PROVE Answerable'
  BY <1>a, <1>b, <1>11, AnswerableKept DEF TaskFail, At, RunStatus, Active
<1>12. ASSUME NEW r \in Runs, TaskUnwind(r) PROVE Answerable'
  <2>1. CASE UpdateRun(r, "cancelled") /\ loop' = At("fail", r)
    BY <1>a, <1>b, <1>12, <2>1, AnswerableKept DEF TaskUnwind, At, RunStatus, Active
  <2>2. CASE UNCHANGED <<runs, loop>>
    BY <1>12, <2>2, AnswerableKept DEF TaskUnwind, Idle
  <2>3. QED BY <1>12, <2>1, <2>2 DEF TaskUnwind
<1>13. ASSUME NEW r \in Runs, TaskFinish(r) PROVE Answerable'
  <2>1. \A k \in MsgIds : (msgs'[k].status = "approval_required" =>
                           msgs[k].status = "approval_required")
    BY <1>13, <1>c DEF TaskFinish, MsgStatus
  <2>2. QED BY <1>13, <2>1, AnswerableKept DEF TaskFinish, Wakes, Idle
<1>14. ASSUME NEW r \in Runs, TaskIngested(r) PROVE Answerable'
  BY <1>a, <1>b, <1>14, AnswerableKept DEF TaskIngested, Wakes, Idle, RunStatus, Active
<1>15. ASSUME NEW r \in Runs, TaskLingered(r) PROVE Answerable'
  BY <1>15, AnswerableKept DEF TaskLingered, Wakes, Idle
<1>16. ASSUME NEW r \in Runs, AdoptApproval(r) PROVE Answerable'
  <2>1. /\ loop = Idle /\ tasks[r] \in {"waiting", "streaming"} /\ r \notin cancels
        /\ PendingApprovals(runs[r].chat) # {}
        /\ loop' = At("wait", r) /\ UNCHANGED <<msgs, runs, approvals>>
    BY <1>16 DEF AdoptApproval, Wakes
  <2>2. PICK b \in Approvals : approvals[b].status = "pending" /\ runs[approvals[b].run].chat = runs[r].chat
    BY <2>1 DEF PendingApprovals, ExistingApprovals, ChatOf
  <2>3. Claims(r)
    BY <2>1 DEF Claims, Working, Idle
  <2>4. approvals[b].run \in Runs /\ Claims(approvals[b].run)
    BY <1>0, <2>2 DEF Claims, Open
  <2>5. approvals[b].run = r
    BY <2>2, <2>3, <2>4 DEF SoleClaim
  <2>6. AskBacked'
    BY <2>1, <2>2, <2>5 DEF AskBacked, At
  <2>7. QED BY <2>1, <2>6 DEF Answerable, AskIsAnswerable, ExistingMsgs, ExistingApprovals
<1>17. ASSUME NEW r \in Runs, NEW a \in Approvals, RaiseApproval(r, a) PROVE Answerable'
  <2>1. /\ approvals' = [approvals EXCEPT ![a] = [status |-> "pending", run |-> r]]
        /\ loop' = At("wait", r) /\ UNCHANGED <<msgs, runs>>
    BY <1>17 DEF RaiseApproval
  <2>2. approvals[a].status = "absent"
    BY <1>0, <1>17 DEF RaiseApproval, FreshApproval
  <2>3. /\ approvals'[a].status = "pending" /\ approvals'[a].run = r
        /\ \A b \in Approvals \ {a} : approvals'[b] = approvals[b]
    BY <1>0, <2>1
  <2>4. \A b \in ExistingApprovals : b \in ExistingApprovals' /\ approvals'[b] = approvals[b]
    BY <2>2, <2>3 DEF ExistingApprovals
  <2>5. AskBacked'
    BY <2>1, <2>3 DEF AskBacked, At
  <2>6. AskIsAnswerable'
    BY <2>1, <2>4 DEF Answerable, AskIsAnswerable, ExistingMsgs
  <2>7. QED BY <2>5, <2>6 DEF Answerable
<1>18. ASSUME NEW a \in Approvals, ExecuteCommand(a) PROVE Answerable'
  BY <1>18 DEF ExecuteCommand, Answerable, AskBacked, AskIsAnswerable, ExistingApprovals, ExistingMsgs
<1>32. ASSUME NEW a \in Approvals, ExecuteRaises(a) PROVE Answerable'
  BY <1>32 DEF ExecuteRaises, Answerable, AskBacked, AskIsAnswerable, ExistingApprovals, ExistingMsgs
<1>19. ASSUME NEW a \in Approvals, Continue(a) PROVE Answerable'
  <2>1. \A k \in MsgIds : (msgs'[k].status = "approval_required" =>
                           msgs[k].status = "approval_required")
    BY <1>19, <1>c DEF Continue, MsgStatus, Unsettled
  <2>2. /\ runs' = [runs EXCEPT ![approvals[a].run].status = "running"]
        /\ approvals' = [approvals EXCEPT ![a].status = IF @ = "absent" THEN @ ELSE "approved"]
        /\ inflight[a] = "returned" /\ loop' = At("resume", approvals[a].run)
    BY <1>19 DEF Continue
  <2>3. approvals[a].status \in {"executing", "absent"} /\ approvals[a].run \in Runs
    BY <1>0, <2>2
  <2>4. \A b \in Approvals : (approvals[b].status \in {"pending", "other"} =>
                                approvals'[b] = approvals[b])
    BY <1>0, <2>2, <2>3
  <2>5. \A q \in Runs : /\ runs'[q].msg = runs[q].msg
                        /\ (runs'[q].status = "waiting_approval" =>
                              runs[q].status = "waiting_approval")
    BY <1>0, <2>2, <2>3
  <2>6. loop'.at = "resume"
    BY <2>2 DEF At
  <2>7. QED BY <1>b, <2>1, <2>4, <2>5, <2>6, AnswerableKept
<1>20. ASSUME NEW a \in Approvals, ContinueConflict(a) PROVE Answerable'
  BY <1>20, AnswerableKept DEF ContinueConflict, Serving, Idle
<1>21. ASSUME NEW a \in Approvals, Approve(a) PROVE Answerable'
  <2>1. /\ UpdateRun(approvals[a].run, "running") /\ loop' = Idle
        /\ approvals' = [approvals EXCEPT ![a].status = "executing"]
        /\ msgs' = MsgsWith(runs[approvals[a].run].msg, "streaming", TRUE)
        /\ approvals[a].status = "pending"
    BY <1>21 DEF Approve, Resolvable, Serving
  <2>2. QED BY <2>1, <1>d DEF RunStatus, Active, MsgStatus, Unsettled, ApprovalStatus
<1>22. ASSUME NEW a \in Approvals, Deny(a) PROVE Answerable'
  <2>1. /\ UpdateRun(approvals[a].run, "denied") /\ loop' = Idle
        /\ approvals' = [approvals EXCEPT ![a].status = "denied"]
        /\ msgs' = MsgsWith(runs[approvals[a].run].msg, "complete", TRUE)
        /\ approvals[a].status = "pending"
    BY <1>22 DEF Deny, Resolvable, Serving
  <2>2. QED BY <2>1, <1>d DEF RunStatus, MsgStatus, ApprovalStatus
<1>23. ASSUME NEW r \in Runs, NEW a \in Approvals, Other(a, r) PROVE Answerable'
  <2> DEFINE c == ChatOf(a)
             old == approvals[a].run
  <2>1. PICK m \in MsgIds :
          /\ InsertTurn(r, c, m)
          /\ runs' = [q \in Runs |->
                     IF q = r THEN [status |-> "pending", chat |-> c, msg |-> m]
                     ELSE IF q = old /\ runs[q].status # "absent"
                     THEN [runs[q] EXCEPT !.status = "other"]
                     ELSE runs[q]]
    BY <1>23, Zenon DEF Other
  <2>2. /\ FreshRun(r) /\ loop' = At("resume", r)
        /\ approvals[a].status = "pending"
        /\ approvals' = [approvals EXCEPT ![a].status = "other"]
    BY <1>23 DEF Other, Resolvable
  <2>3. \A b \in Approvals : approvals[b].run # r
    BY <2>2 DEF Ownership, FreshClean
  <2>4. \A k \in MsgIds : (msgs'[k].status = "approval_required" =>
                           msgs[k].status = "approval_required")
    BY <1>0, <2>1 DEF InsertTurn
  <2> HIDE DEF c, old
  <2>5. /\ runs'[r].status = "pending"
        /\ \A q \in Runs \ {r} : /\ runs'[q].msg = runs[q].msg
                                 /\ (runs'[q].status = "waiting_approval" =>
                                       runs[q].status = "waiting_approval" /\ (q # old))
    BY <1>0, <2>1
  <2>6. /\ approvals'[a].status = "other" /\ approvals'[a].run = approvals[a].run
        /\ \A b \in Approvals \ {a} : approvals'[b] = approvals[b]
    BY <1>0, <2>2
  <2>7. AskBacked'
    BY <2>2 DEF AskBacked, At
  <2>8. ASSUME NEW q \in Runs, runs'[q].status = "waiting_approval"
        PROVE  \E b \in ExistingApprovals' : approvals'[b].status = "pending" /\ approvals'[b].run = q
    <3>1. runs[q].status = "waiting_approval" /\ q # old
      BY <2>5, <2>8
    <3>2. PICK b \in ExistingApprovals : approvals[b].status = "pending" /\ approvals[b].run = q
      BY <3>1 DEF Answerable, AskIsAnswerable
    <3>3. QED BY <2>6, <3>1, <3>2 DEF ExistingApprovals, old
  <2>9. ASSUME NEW k \in ExistingMsgs', msgs'[k].status = "approval_required"
        PROVE  \E b \in ExistingApprovals' : /\ approvals'[b].status \in {"pending", "other"}
                                             /\ runs'[approvals'[b].run].msg = k
    <3>1. k \in ExistingMsgs /\ msgs[k].status = "approval_required"
      BY <2>4, <2>9 DEF ExistingMsgs
    <3>2. PICK b \in ExistingApprovals : /\ approvals[b].status \in {"pending", "other"}
                                         /\ runs[approvals[b].run].msg = k
      BY <3>1 DEF Answerable, AskIsAnswerable
    <3>3. b \in Approvals /\ approvals[b].run \in Runs \ {r}
      BY <1>b, <2>3, <3>2 DEF ExistingApprovals
    <3>4. QED BY <2>5, <2>6, <3>2, <3>3 DEF ExistingApprovals
  <2>10. QED BY <2>7, <2>8, <2>9 DEF Answerable, AskIsAnswerable
<1>24. ASSUME NEW c \in ChatIds, DeleteRead(c) PROVE Answerable'
  BY <1>24 DEF DeleteRead, Answerable, AskBacked, AskIsAnswerable, ExistingApprovals, ExistingMsgs
<1>25. ASSUME NEW c \in ChatIds, DeleteCommit(c) PROVE Answerable'
  <2>1. /\ doomed[c].on /\ loop' = loop
        /\ \A k \in MsgIds : IF k \in doomed[c].msgs THEN msgs'[k].status = "absent"
                              ELSE msgs'[k] = msgs[k]
        /\ \A q \in Runs : runs'[q].msg = runs[q].msg
                           /\ IF q \in doomed[c].runs THEN runs'[q].status = "absent"
                              ELSE runs'[q] = runs[q]
        /\ \A b \in Approvals : b \notin doomed[c].approvals => approvals'[b] = approvals[b]
    BY <1>0, <1>25 DEF DeleteCommit
  <2>2. \A b \in doomed[c].approvals : /\ approvals[b].run \in doomed[c].runs
                                      /\ runs[approvals[b].run].msg \in doomed[c].msgs
    BY <2>1 DEF Rooted, DoomedOwn
  <2>3. \A k \in ExistingMsgs' : k \in ExistingMsgs /\ k \notin doomed[c].msgs /\ msgs'[k] = msgs[k]
    BY <2>1 DEF ExistingMsgs
  <2>4. AskBacked'
    <3> SUFFICES ASSUME loop.at \in {"wait", "ask"}
                 PROVE  \/ \E b \in Approvals : approvals'[b].status = "pending" /\ approvals'[b].run = loop.run
                        \/ runs'[loop.run].status = "absent" /\ runs'[loop.run].msg \notin ExistingMsgs'
      BY <2>1 DEF AskBacked
    <3>1. loop.run \in Runs
      BY <1>0
    <3>2. CASE \E b \in Approvals : approvals[b].status = "pending" /\ approvals[b].run = loop.run
      <4>1. PICK b \in Approvals : approvals[b].status = "pending" /\ approvals[b].run = loop.run
        BY <3>2
      <4>2. CASE b \in doomed[c].approvals
        BY <2>1, <2>2, <2>3, <3>1, <4>1, <4>2
      <4>3. CASE b \notin doomed[c].approvals
        BY <2>1, <4>1, <4>3
      <4>4. QED BY <4>2, <4>3
    <3>3. CASE runs[loop.run].status = "absent" /\ runs[loop.run].msg \notin ExistingMsgs
      BY <2>1, <2>3, <3>1, <3>3
    <3>4. QED BY <3>2, <3>3 DEF Answerable, AskBacked
  <2>5. ASSUME NEW q \in Runs, runs'[q].status = "waiting_approval"
        PROVE  \E b \in ExistingApprovals' : approvals'[b].status = "pending" /\ approvals'[b].run = q
    <3>1. runs[q].status = "waiting_approval" /\ q \notin doomed[c].runs
      BY <2>1, <2>5
    <3>2. PICK b \in ExistingApprovals : approvals[b].status = "pending" /\ approvals[b].run = q
      BY <3>1 DEF Answerable, AskIsAnswerable
    <3>3. b \in Approvals /\ b \notin doomed[c].approvals
      BY <2>2, <3>1, <3>2 DEF ExistingApprovals
    <3>4. QED BY <2>1, <3>2, <3>3 DEF ExistingApprovals
  <2>6. ASSUME NEW k \in ExistingMsgs', msgs'[k].status = "approval_required"
        PROVE  \E b \in ExistingApprovals' : /\ approvals'[b].status \in {"pending", "other"}
                                             /\ runs'[approvals'[b].run].msg = k
    <3>1. k \in ExistingMsgs /\ msgs[k].status = "approval_required" /\ k \notin doomed[c].msgs
      BY <2>3, <2>6
    <3>2. PICK b \in ExistingApprovals : /\ approvals[b].status \in {"pending", "other"}
                                         /\ runs[approvals[b].run].msg = k
      BY <3>1 DEF Answerable, AskIsAnswerable
    <3>3. b \in Approvals /\ b \notin doomed[c].approvals /\ approvals[b].run \in Runs
      BY <1>b, <2>2, <3>1, <3>2 DEF ExistingApprovals
    <3>4. QED BY <2>1, <3>2, <3>3 DEF ExistingApprovals
  <2>7. QED BY <2>4, <2>5, <2>6 DEF Answerable, AskIsAnswerable
<1>26. CASE Shutdown
  BY <1>0, <1>b, <1>26, AnswerableKept DEF Shutdown, Serving, Idle
<1>27. CASE Exit
  BY <1>27, AnswerableKept DEF Exit, LoseMemory, Idle
<1>28. CASE Crash
  BY <1>28, AnswerableKept DEF Crash, LoseMemory, Idle
<1>29. CASE Recover
  <2>1. msgs' = [m \in MsgIds |-> IF msgs[m].status \in Unsettled /\ ~msgs[m].text
                     THEN [msgs[m] EXCEPT !.status = "failed", !.text = TRUE] ELSE msgs[m]]
    BY <1>29, Zenon DEF Recover
  <2>2. runs' = [r \in Runs |-> IF runs[r].status \in Active
                     THEN [runs[r] EXCEPT !.status = "failed"] ELSE runs[r]]
    BY <1>29, Zenon DEF Recover
  <2>3. approvals' = approvals /\ loop' = loop /\ phase = "down"
    BY <1>29 DEF Recover
  <2>4. \A k \in MsgIds : (msgs'[k].status = "approval_required" =>
                           msgs[k].status = "approval_required")
    <3> TAKE k \in MsgIds
    <3>1. msgs[k] \in MsgRow
      BY <1>0
    <3>2. \/ msgs'[k] = [msgs[k] EXCEPT !.status = "failed", !.text = TRUE]
          \/ msgs'[k] = msgs[k]
      BY <2>1
    <3>3. [msgs[k] EXCEPT !.status = "failed", !.text = TRUE].status = "failed"
      BY <3>1
    <3>4. QED BY <3>2, <3>3
  <2>5. \A q \in Runs : /\ runs'[q].msg = runs[q].msg
                        /\ (runs'[q].status = "waiting_approval" =>
                              runs[q].status = "waiting_approval")
    BY <1>0, <2>2
  <2>6. loop'.at \notin {"wait", "ask"}
    BY <2>3 DEF Ownership, DownEmpty, Idle
  <2>7. QED BY <1>b, <2>3, <2>4, <2>5, <2>6, AnswerableKept
<1>30. CASE UNCHANGED vars
  BY <1>30 DEF vars, Answerable, AskBacked, AskIsAnswerable, ExistingApprovals, ExistingMsgs
<1>31. QED
  BY <1>1, <1>2, <1>3, <1>4, <1>5, <1>6, <1>7, <1>8, <1>9, <1>10, <1>11, <1>12, <1>13, <1>14, <1>15, <1>16, <1>17, <1>18, <1>19, <1>20, <1>21, <1>22, <1>23, <1>24, <1>25, <1>26, <1>27, <1>28, <1>29, <1>30, <1>32 DEF Next, LoopStep, TaskStep, HandlerStep

LEMMA UnfinishedInit == Init => Unfinished
BY NoRunAssumption DEF Init, Unfinished, Writes, Inserted, Open, Idle

\* A step that completes no message and makes nobody a writer.
LEMMA UnfinishedKept ==
  ASSUME Unfinished, TypeOK,
         \A q \in Runs : runs'[q].msg = runs[q].msg,
         \A q \in Runs : Inserted(q) => (Writes(q)' => Writes(q)),
         \A k \in MsgIds : (msgs'[k].status = "complete" => msgs[k].status = "complete")
  PROVE  Unfinished'
<1> SUFFICES ASSUME NEW q \in Runs, Writes(q)', Inserted(q)',
                    msgs'[runs'[q].msg].status = "complete"
             PROVE  FALSE
  BY DEF Unfinished
<1>1. Inserted(q) /\ runs'[q].msg = runs[q].msg
  BY DEF Inserted
<1>2. runs[q].msg \in MsgIds
  BY <1>1, BoundsAssumption DEF TypeOK, RunRow, Inserted, MsgIds
<1>3. msgs[runs[q].msg].status = "complete" /\ Writes(q)
  BY <1>1, <1>2
<1>4. QED BY <1>1, <1>3 DEF Unfinished

\* The step that completes the message of r is the last one r writes.
LEMMA UnfinishedLast ==
  ASSUME Unfinished, OwnMessage, TypeOK, NEW r \in Runs, NEW b \in BOOLEAN,
         msgs' = MsgsWith(runs[r].msg, "complete", b),
         \A q \in Runs : runs'[q].msg = runs[q].msg,
         \A q \in Runs : Writes(q)' => Writes(q) /\ (q # r)
  PROVE  Unfinished'
<1> SUFFICES ASSUME NEW q \in Runs, Writes(q)', Inserted(q)',
                    msgs'[runs'[q].msg].status = "complete"
             PROVE  FALSE
  BY DEF Unfinished
<1>1. Inserted(q) /\ runs'[q].msg = runs[q].msg /\ Writes(q) /\ q # r
  BY DEF Inserted
<1>2. runs[q].msg \in MsgIds /\ runs[q].msg # runs[r].msg
  BY <1>1, BoundsAssumption DEF TypeOK, RunRow, Inserted, MsgIds, OwnMessage
<1>3. msgs'[runs[q].msg] = msgs[runs[q].msg]
  BY <1>2 DEF MsgsWith
<1>4. QED BY <1>1, <1>3 DEF Unfinished

\* A new turn has a message of its own.
LEMMA UnfinishedTurn ==
  ASSUME ~ReuseIds, TypeOK, Rooted, Unfinished, NEW r \in Runs, NEW c, NEW m \in MsgIds,
         InsertTurn(r, c, m),
         runs'[r].msg = m,
         \A q \in Runs \ {r} : runs'[q].msg = runs[q].msg,
         \A q \in Runs \ {r} : Writes(q)' => Writes(q)
  PROVE  Unfinished'
<1>1. /\ \A q \in Runs : runs[q].msg # m
      /\ \A k \in MsgIds \ {m} : msgs'[k] = msgs[k]
      /\ msgs'[m].status = "pending"
  <2>1. /\ m = lastMsg + 1 /\ lastMsg' = m /\ m \notin ExistingMsgs /\ m # 0
        /\ \A q \in Runs : runs[q].msg # m
        /\ \A k \in MsgIds \ {m} : msgs'[k] = msgs[k]
        /\ msgs'[m] = [status |-> "pending", text |-> FALSE, chat |-> c]
    BY FreshTurn DEF Rooted
  <2>2. QED BY <2>1
<1> SUFFICES ASSUME NEW q \in Runs, Writes(q)', Inserted(q)',
                    msgs'[runs'[q].msg].status = "complete"
             PROVE  FALSE
  BY DEF Unfinished
<1>2. q # r
  BY <1>1
<1>3. Inserted(q) /\ runs'[q].msg = runs[q].msg /\ Writes(q)
  BY <1>2 DEF Inserted
<1>4. runs[q].msg \in MsgIds \ {m}
  BY <1>1, <1>3, BoundsAssumption DEF TypeOK, RunRow, Inserted, MsgIds
<1>5. QED BY <1>1, <1>3, <1>4 DEF Unfinished

LEMMA UnfinishedStep ==
  ASSUME ~ReuseIds, TypeOK, ApprovalInv, Ownership, Rooted, Unfinished, [Next]_vars
  PROVE  Unfinished'
<1> USE DEF RunRow, ApprovalRow, MsgRow, rows, ids, memory, life
<1>0. /\ runs \in [Runs -> RunRow]
      /\ msgs \in [MsgIds -> MsgRow]
      /\ approvals \in [Approvals -> ApprovalRow]
      /\ loop \in [at: Places, run: Runs \cup {NoRun}]
      /\ loop.at # "idle" => loop.run \in Runs
      /\ tasks \in [Runs -> Stages]
      /\ inflight \in [Approvals -> {"none", "called", "returned"}]
      /\ \A a \in Approvals : approvals[a].run = NoRun =>
           approvals[a].status = "absent" /\ inflight[a] = "none"
      /\ \A a \in Approvals : inflight[a] # "none" =>
           approvals[a].status \in {"executing", "absent"}
      /\ NoRun \notin Runs
  BY NoRunAssumption DEF TypeOK, ApprovalInv
<1>a. ASSUME NEW r \in Runs, NEW t, UpdateRun(r, t)
      PROVE  \A q \in Runs : runs'[q].msg = runs[q].msg
  BY <1>0, <1>a DEF UpdateRun
<1>b. ASSUME NEW m, NEW t \in MsgStatus \ {"complete"}, NEW b \in BOOLEAN,
             msgs' = MsgsWith(m, t, b)
      PROVE  \A k \in MsgIds : (msgs'[k].status = "complete" => msgs[k].status = "complete")
  <2> TAKE k \in MsgIds
  <2>1. msgs[k] \in MsgRow
    BY <1>0
  <2>2. msgs'[k] \in {msgs[k], [msgs[k] EXCEPT !.status = t, !.text = b]}
    BY <1>b DEF MsgsWith
  <2>3. [msgs[k] EXCEPT !.status = t, !.text = b].status = t /\ t # "complete"
    BY <2>1
  <2>4. QED BY <2>2, <2>3
<1>1. CASE CreateChat
  BY <1>1, UnfinishedKept DEF CreateChat, Writes, Open
<1>2. CASE SendCommit
  <2> DEFINE r == loop.run
  <2>1. PICK m \in MsgIds :
          /\ InsertTurn(r, runs[r].chat, m)
          /\ runs' = [runs EXCEPT ![r] =
                        [status |-> "pending", chat |-> runs[r].chat, msg |-> m]]
          /\ loop' = At("start", r)
    BY <1>2 DEF SendCommit
  <2>2. r \in Runs /\ UNCHANGED <<approvals, tasks, inflight>>
    BY <1>0, <1>2 DEF SendCommit
  <2>3. loop'.run = loop.run
    BY <2>1 DEF At
  <2>4. \A q \in Runs : Writes(q)' => Writes(q)
    BY <2>2, <2>3 DEF Writes, Open
  <2> HIDE DEF r
  <2>5. runs'[r].msg = m /\ \A q \in Runs \ {r} : runs'[q].msg = runs[q].msg
    BY <1>0, <2>1, <2>2
  <2>6. QED BY <2>1, <2>2, <2>4, <2>5, UnfinishedTurn
<1>3. CASE SendStart
  BY <1>0, <1>3, UnfinishedKept DEF SendStart, Writes, Open, Idle
<1>4. CASE Resume
  BY <1>0, <1>4, UnfinishedKept DEF Resume, Writes, Open, Idle
<1>5. CASE PersistWaiting
  BY <1>0, <1>a, <1>5, UnfinishedKept DEF PersistWaiting, Writes, Open, At
<1>6. CASE PersistAsk
  <2>1. \A k \in MsgIds : (msgs'[k].status = "complete" => msgs[k].status = "complete")
    BY <1>6, <1>b DEF PersistAsk, MsgStatus
  <2>2. QED BY <1>0, <1>6, <2>1, UnfinishedKept DEF PersistAsk, EndTask, Writes, Open, Idle
<1>7. CASE PersistFailed
  <2>1. \A k \in MsgIds : (msgs'[k].status = "complete" => msgs[k].status = "complete")
    BY <1>7, <1>b DEF PersistFailed, MsgStatus
  <2>2. QED BY <1>0, <1>7, <2>1, UnfinishedKept DEF PersistFailed, EndTask, Writes, Open, Idle
<1>8. ASSUME NEW c \in ChatIds, NEW r \in Runs, SendRead(c, r) PROVE Unfinished'
  <2>1. ~Inserted(r)
    BY <1>8 DEF SendRead, Rooted, InsertedFirst
  <2>2. QED BY <1>0, <1>8, <2>1, UnfinishedKept DEF SendRead, Serving, Writes, Open, At, Idle
<1>9. ASSUME NEW r \in Runs, TaskStart(r) PROVE Unfinished'
  BY <1>0, <1>a, <1>9, UnfinishedKept DEF TaskStart, Wakes, Writes, Open
<1>10. ASSUME NEW r \in Runs, TaskToken(r) PROVE Unfinished'
  <2>1. \A k \in MsgIds : (msgs'[k].status = "complete" => msgs[k].status = "complete")
    BY <1>0, <1>10 DEF TaskToken
  <2>2. QED BY <1>0, <1>a, <1>10, <2>1, UnfinishedKept DEF TaskToken, Wakes, Writes, Open
<1>11. ASSUME NEW r \in Runs, TaskFail(r) PROVE Unfinished'
  BY <1>0, <1>a, <1>11, UnfinishedKept DEF TaskFail, Wakes, Writes, Open, At
<1>12. ASSUME NEW r \in Runs, TaskUnwind(r) PROVE Unfinished'
  <2>1. CASE /\ UpdateRun(r, "cancelled") /\ loop' = At("fail", r) /\ UNCHANGED tasks
             /\ tasks[r] \in {"waiting", "streaming"}
    BY <1>0, <1>a, <1>12, <2>1, UnfinishedKept DEF TaskUnwind, Writes, Open, At
  <2>2. CASE EndTask(r) /\ UNCHANGED <<runs, loop>>
    BY <1>0, <1>12, <2>2, UnfinishedKept DEF TaskUnwind, EndTask, Writes, Open
  <2>3. QED BY <1>12, <2>1, <2>2 DEF TaskUnwind
<1>13. ASSUME NEW r \in Runs, TaskFinish(r) PROVE Unfinished'
  <2>1. /\ loop = Idle /\ tasks[r] # "none" /\ tasks' = [tasks EXCEPT ![r] = "ingest"]
        /\ msgs' = MsgsWith(runs[r].msg, "complete", TRUE)
        /\ UNCHANGED <<runs, approvals, loop, inflight>>
    BY <1>13 DEF TaskFinish, Wakes
  <2>2. \A a \in Approvals : Open(a) => approvals[a].run # r
    BY <2>1, OpenHasNoTask
  <2>3. \A q \in Runs : Writes(q)' => Writes(q) /\ (q # r)
    BY <1>0, <2>1, <2>2 DEF Writes, Open, Idle
  <2>4. QED BY <2>1, <2>3, UnfinishedLast DEF Rooted
<1>14. ASSUME NEW r \in Runs, TaskIngested(r) PROVE Unfinished'
  BY <1>0, <1>a, <1>14, UnfinishedKept DEF TaskIngested, Wakes, Writes, Open
<1>15. ASSUME NEW r \in Runs, TaskLingered(r) PROVE Unfinished'
  BY <1>0, <1>15, UnfinishedKept DEF TaskLingered, EndTask, Writes, Open
<1>16. ASSUME NEW r \in Runs, AdoptApproval(r) PROVE Unfinished'
  BY <1>0, <1>16, UnfinishedKept DEF AdoptApproval, Wakes, Writes, Open, At
<1>17. ASSUME NEW r \in Runs, NEW a \in Approvals, RaiseApproval(r, a) PROVE Unfinished'
  BY <1>0, <1>17, UnfinishedKept DEF RaiseApproval, Wakes, FreshApproval, Writes, Open, At
<1>18. ASSUME NEW a \in Approvals, ExecuteCommand(a) PROVE Unfinished'
  BY <1>0, <1>18, UnfinishedKept DEF ExecuteCommand, Writes, Open
<1>32. ASSUME NEW a \in Approvals, ExecuteRaises(a) PROVE Unfinished'
  BY <1>0, <1>32, UnfinishedKept DEF ExecuteRaises, Writes, Open
<1>19. ASSUME NEW a \in Approvals, Continue(a) PROVE Unfinished'
  <2>1. \A k \in MsgIds : (msgs'[k].status = "complete" => msgs[k].status = "complete")
    BY <1>19, <1>b DEF Continue, MsgStatus, Unsettled
  <2>2. /\ runs' = [runs EXCEPT ![approvals[a].run].status = "running"]
        /\ approvals' = [approvals EXCEPT ![a].status = IF @ = "absent" THEN @ ELSE "approved"]
        /\ inflight' = [inflight EXCEPT ![a] = "none"]
        /\ inflight[a] = "returned" /\ loop' = At("resume", approvals[a].run) /\ tasks' = tasks
    BY <1>19 DEF Continue
  <2>3. \A q \in Runs : runs'[q].msg = runs[q].msg
    BY <1>0, <2>2
  <2>4. \A b \in Approvals : (Open(b)' => Open(b)) /\ approvals'[b].run = approvals[b].run
    BY <1>0, <2>2 DEF Open
  <2>5. Open(a) /\ loop'.run = approvals[a].run
    BY <2>2 DEF Open, At
  <2>6. \A q \in Runs : Writes(q)' => Writes(q)
    BY <2>2, <2>4, <2>5 DEF Writes
  <2>7. QED BY <2>1, <2>3, <2>6, UnfinishedKept
<1>20. ASSUME NEW a \in Approvals, ContinueConflict(a) PROVE Unfinished'
  BY <1>0, <1>20, UnfinishedKept DEF ContinueConflict, Writes, Open
<1>21. ASSUME NEW a \in Approvals, Approve(a) PROVE Unfinished'
  <2>1. \A k \in MsgIds : (msgs'[k].status = "complete" => msgs[k].status = "complete")
    BY <1>21, <1>b DEF Approve, MsgStatus, Unsettled
  <2>2. /\ UpdateRun(approvals[a].run, "running")
        /\ approvals' = [approvals EXCEPT ![a].status = "executing"]
        /\ inflight' = [inflight EXCEPT ![a] = "called"]
        /\ approvals[a].status = "pending" /\ UNCHANGED <<loop, tasks>>
    BY <1>21 DEF Approve, Resolvable
  <2>3. \A q \in Runs : runs'[q].msg = runs[q].msg
    BY <1>0, <1>a, <2>2
  <2>4. \A b \in Approvals : (Open(b)' => Open(b)) /\ approvals'[b].run = approvals[b].run
    BY <1>0, <2>2 DEF Open
  <2>5. QED BY <2>1, <2>2, <2>3, <2>4, UnfinishedKept DEF Writes
<1>22. ASSUME NEW a \in Approvals, Deny(a) PROVE Unfinished'
  <2> DEFINE r == approvals[a].run
  <2>1. /\ loop = Idle /\ approvals[a].status = "pending"
        /\ approvals' = [approvals EXCEPT ![a].status = "denied"]
        /\ UpdateRun(r, "denied")
        /\ msgs' = MsgsWith(runs[r].msg, "complete", TRUE)
        /\ UNCHANGED <<loop, tasks, inflight>>
    BY <1>22 DEF Deny, Resolvable, Serving
  <2>2. r \in Runs /\ Open(a) /\ inflight[a] = "none"
    BY <1>0, <2>1 DEF Open
  <2>3. tasks[r] = "none" /\ loop.run # r
    BY <1>0, <2>1, <2>2, OpenHasNoTask DEF Idle
  <2>4. \A b \in Approvals : Open(b) /\ approvals[b].run = r => b = a
    BY <2>2 DEF Ownership, OneDriver
  <2>5. \A b \in Approvals : approvals'[b].run = approvals[b].run /\ (Open(b)' => Open(b) /\ (b # a))
    BY <1>0, <2>1, <2>2 DEF Open
  <2> HIDE DEF r
  <2>6. \A q \in Runs : Writes(q)' => Writes(q) /\ (q # r)
    BY <2>1, <2>3, <2>4, <2>5 DEF Writes
  <2>7. \A q \in Runs : runs'[q].msg = runs[q].msg
    BY <1>a, <2>1, <2>2
  <2>8. QED BY <2>1, <2>2, <2>6, <2>7, UnfinishedLast DEF Rooted
<1>23. ASSUME NEW r \in Runs, NEW a \in Approvals, Other(a, r) PROVE Unfinished'
  <2> DEFINE c == ChatOf(a)
             old == approvals[a].run
  <2>1. PICK m \in MsgIds :
          /\ InsertTurn(r, c, m)
          /\ runs' = [q \in Runs |->
                     IF q = r THEN [status |-> "pending", chat |-> c, msg |-> m]
                     ELSE IF q = old /\ runs[q].status # "absent"
                     THEN [runs[q] EXCEPT !.status = "other"]
                     ELSE runs[q]]
    BY <1>23, Zenon DEF Other
  <2>2. /\ loop' = At("resume", r) /\ UNCHANGED <<tasks, inflight>>
        /\ approvals' = [approvals EXCEPT ![a].status = "other"]
    BY <1>23 DEF Other
  <2> HIDE DEF c, old
  <2>3. runs'[r].msg = m /\ \A q \in Runs \ {r} : runs'[q].msg = runs[q].msg
    BY <1>0, <2>1
  <2>4. \A b \in Approvals : approvals'[b].run = approvals[b].run /\ (Open(b)' => Open(b))
    BY <1>0, <2>2 DEF Open
  <2>5. \A q \in Runs \ {r} : Writes(q)' => Writes(q)
    BY <2>2, <2>4 DEF Writes, At
  <2>6. QED BY <2>1, <2>3, <2>5, UnfinishedTurn
<1>24. ASSUME NEW c \in ChatIds, DeleteRead(c) PROVE Unfinished'
  BY <1>24, UnfinishedKept DEF DeleteRead, Writes, Open
<1>25. ASSUME NEW c \in ChatIds, DeleteCommit(c) PROVE Unfinished'
  BY <1>0, <1>25, UnfinishedKept DEF DeleteCommit, Writes, Open
<1>26. CASE Shutdown
  BY <1>0, <1>26, UnfinishedKept DEF Shutdown, Writes, Open
<1>27. CASE Exit
  BY <1>0, <1>27, UnfinishedKept DEF Exit, LoseMemory, Writes, Open, Idle
<1>28. CASE Crash
  BY <1>0, <1>28, UnfinishedKept DEF Crash, LoseMemory, Writes, Open, Idle
<1>29. CASE Recover
  <2>1. msgs' = [m \in MsgIds |-> IF msgs[m].status \in Unsettled /\ ~msgs[m].text
                     THEN [msgs[m] EXCEPT !.status = "failed", !.text = TRUE] ELSE msgs[m]]
    BY <1>29, Zenon DEF Recover
  <2>2. runs' = [r \in Runs |-> IF runs[r].status \in Active
                     THEN [runs[r] EXCEPT !.status = "failed"] ELSE runs[r]]
    BY <1>29, Zenon DEF Recover
  <2>3. UNCHANGED <<approvals, loop, tasks, inflight>>
    BY <1>29 DEF Recover
  <2>4. \A k \in MsgIds : (msgs'[k].status = "complete" => msgs[k].status = "complete")
    <3> TAKE k \in MsgIds
    <3>1. msgs[k] \in MsgRow
      BY <1>0
    <3>2. msgs'[k] \in {msgs[k], [msgs[k] EXCEPT !.status = "failed", !.text = TRUE]}
      BY <2>1
    <3>3. QED BY <3>1, <3>2
  <2>5. \A q \in Runs : runs'[q].msg = runs[q].msg
    BY <1>0, <2>2
  <2>6. QED BY <2>3, <2>4, <2>5, UnfinishedKept DEF Writes, Open
<1>30. CASE UNCHANGED vars
  BY <1>30, UnfinishedKept DEF vars, Writes, Open
<1>31. QED
  BY <1>1, <1>2, <1>3, <1>4, <1>5, <1>6, <1>7, <1>8, <1>9, <1>10, <1>11, <1>12, <1>13, <1>14, <1>15, <1>16, <1>17, <1>18, <1>19, <1>20, <1>21, <1>22, <1>23, <1>24, <1>25, <1>26, <1>27, <1>28, <1>29, <1>30, <1>32 DEF Next, LoopStep, TaskStep, HandlerStep

CompleteKept == \A m \in MsgIds : msgs[m].status = "complete" =>
                                    msgs'[m].status \in {"complete", "absent"}

LEMMA CompleteStep ==
  ASSUME ~ReuseIds, TypeOK, ApprovalInv, Ownership, Rooted, Unfinished, [Next]_vars
  PROVE  CompleteKept
<1> USE DEF RunRow, ApprovalRow, MsgRow, rows, ids, memory, life
<1>0. /\ runs \in [Runs -> RunRow]
      /\ msgs \in [MsgIds -> MsgRow]
      /\ approvals \in [Approvals -> ApprovalRow]
      /\ loop \in [at: Places, run: Runs \cup {NoRun}]
      /\ loop.at # "idle" => loop.run \in Runs
      /\ tasks \in [Runs -> Stages]
      /\ \A a \in Approvals : approvals[a].run = NoRun =>
           approvals[a].status = "absent" /\ inflight[a] = "none"
      /\ NoRun \notin Runs
  BY NoRunAssumption DEF TypeOK
\* A message that does not change, or that only a writer of its run changes.
<1>a. ASSUME msgs' = msgs PROVE CompleteKept
  BY <1>a DEF CompleteKept
<1>b. ASSUME NEW r \in Runs, Writes(r),
             \A k \in MsgIds : msgs'[k] # msgs[k] => k = runs[r].msg
      PROVE  CompleteKept
  <2> SUFFICES ASSUME NEW m \in MsgIds, msgs[m].status = "complete", msgs'[m] # msgs[m]
               PROVE  FALSE
    BY DEF CompleteKept
  <2>1. m = runs[r].msg /\ m # 0
    BY <1>b DEF MsgIds
  <2>2. QED BY <1>b, <2>1 DEF Unfinished, Inserted
<1>c. ASSUME NEW r, NEW c, NEW m \in MsgIds, InsertTurn(r, c, m) PROVE CompleteKept
  <2>1. /\ m = lastMsg + 1 /\ lastMsg' = m /\ m \notin ExistingMsgs /\ m # 0
        /\ \A q \in Runs : runs[q].msg # m
        /\ \A k \in MsgIds \ {m} : msgs'[k] = msgs[k]
        /\ msgs'[m] = [status |-> "pending", text |-> FALSE, chat |-> c]
    BY <1>c, FreshTurn DEF Rooted
  <2>2. QED BY <2>1 DEF CompleteKept, ExistingMsgs
<1>d. ASSUME NEW w, NEW t, NEW b, msgs' = MsgsWith(w, t, b)
      PROVE  \A k \in MsgIds : msgs'[k] # msgs[k] => k = w
  BY <1>d DEF MsgsWith
<1>e. ASSUME NEW w, NEW b \in BOOLEAN, msgs' = MsgsWith(w, "complete", b)
      PROVE  CompleteKept
  <2> SUFFICES ASSUME NEW m \in MsgIds, msgs[m].status = "complete"
               PROVE  msgs'[m].status = "complete"
    BY DEF CompleteKept
  <2>1. msgs[m] \in MsgRow
    BY <1>0
  <2>2. msgs'[m] \in {msgs[m], [msgs[m] EXCEPT !.status = "complete", !.text = b]}
    BY <1>e DEF MsgsWith
  <2>3. QED BY <2>1, <2>2
<1>1. CASE CreateChat
  BY <1>1, <1>a DEF CreateChat
<1>2. CASE SendCommit
  BY <1>2, <1>c DEF SendCommit
<1>3. CASE SendStart
  BY <1>3, <1>a DEF SendStart
<1>4. CASE Resume
  BY <1>4, <1>a DEF Resume
<1>5. CASE PersistWaiting
  BY <1>5, <1>a DEF PersistWaiting
<1>6. CASE PersistAsk
  <2>1. loop.run \in Runs /\ Writes(loop.run)
    BY <1>0, <1>6 DEF PersistAsk, Writes
  <2>2. QED BY <1>6, <1>b, <1>d, <2>1 DEF PersistAsk
<1>7. CASE PersistFailed
  <2>1. loop.run \in Runs /\ Writes(loop.run)
    BY <1>0, <1>7 DEF PersistFailed, Writes
  <2>2. QED BY <1>7, <1>b, <1>d, <2>1 DEF PersistFailed
<1>8. ASSUME NEW c \in ChatIds, NEW r \in Runs, SendRead(c, r) PROVE CompleteKept
  BY <1>8, <1>a DEF SendRead
<1>9. ASSUME NEW r \in Runs, TaskStart(r) PROVE CompleteKept
  BY <1>9, <1>a DEF TaskStart
<1>10. ASSUME NEW r \in Runs, TaskToken(r) PROVE CompleteKept
  <2>1. Writes(r)
    BY <1>10 DEF TaskToken, Wakes, Writes
  <2>2. \A k \in MsgIds : msgs'[k] # msgs[k] => k = runs[r].msg
    BY <1>10 DEF TaskToken
  <2>3. QED BY <1>b, <2>1, <2>2
<1>11. ASSUME NEW r \in Runs, TaskFail(r) PROVE CompleteKept
  BY <1>11, <1>a DEF TaskFail
<1>12. ASSUME NEW r \in Runs, TaskUnwind(r) PROVE CompleteKept
  BY <1>12, <1>a DEF TaskUnwind
<1>13. ASSUME NEW r \in Runs, TaskFinish(r) PROVE CompleteKept
  BY <1>13, <1>e DEF TaskFinish
<1>14. ASSUME NEW r \in Runs, TaskIngested(r) PROVE CompleteKept
  BY <1>14, <1>a DEF TaskIngested
<1>15. ASSUME NEW r \in Runs, TaskLingered(r) PROVE CompleteKept
  BY <1>15, <1>a DEF TaskLingered
<1>16. ASSUME NEW r \in Runs, AdoptApproval(r) PROVE CompleteKept
  BY <1>16, <1>a DEF AdoptApproval
<1>17. ASSUME NEW r \in Runs, NEW a \in Approvals, RaiseApproval(r, a) PROVE CompleteKept
  BY <1>17, <1>a DEF RaiseApproval
<1>18. ASSUME NEW a \in Approvals, ExecuteCommand(a) PROVE CompleteKept
  BY <1>18, <1>a DEF ExecuteCommand
<1>32. ASSUME NEW a \in Approvals, ExecuteRaises(a) PROVE CompleteKept
  BY <1>32, <1>a DEF ExecuteRaises
<1>19. ASSUME NEW a \in Approvals, Continue(a) PROVE CompleteKept
  <2>1. approvals[a].run \in Runs /\ Writes(approvals[a].run)
    BY <1>0, <1>19 DEF Continue, Writes, Open
  <2>2. msgs' = MsgsWith(runs[approvals[a].run].msg, "streaming", TRUE)
    BY <1>19 DEF Continue
  <2>3. \A k \in MsgIds : msgs'[k] # msgs[k] => k = runs[approvals[a].run].msg
    BY <2>2 DEF MsgsWith
  <2>4. QED BY <1>b, <2>1, <2>3
<1>20. ASSUME NEW a \in Approvals, ContinueConflict(a) PROVE CompleteKept
  BY <1>20, <1>a DEF ContinueConflict
<1>21. ASSUME NEW a \in Approvals, Approve(a) PROVE CompleteKept
  <2>1. approvals[a].run \in Runs /\ Writes(approvals[a].run)
    BY <1>0, <1>21 DEF Approve, Resolvable, Writes, Open
  <2>2. msgs' = MsgsWith(runs[approvals[a].run].msg, "streaming", TRUE)
    BY <1>21 DEF Approve
  <2>3. \A k \in MsgIds : msgs'[k] # msgs[k] => k = runs[approvals[a].run].msg
    BY <2>2 DEF MsgsWith
  <2>4. QED BY <1>b, <2>1, <2>3
<1>22. ASSUME NEW a \in Approvals, Deny(a) PROVE CompleteKept
  BY <1>22, <1>e DEF Deny
<1>23. ASSUME NEW r \in Runs, NEW a \in Approvals, Other(a, r) PROVE CompleteKept
  <2>1. PICK m \in MsgIds : InsertTurn(r, ChatOf(a), m)
    BY <1>23, Zenon DEF Other
  <2>2. QED BY <1>c, <2>1
<1>24. ASSUME NEW c \in ChatIds, DeleteRead(c) PROVE CompleteKept
  BY <1>24, <1>a DEF DeleteRead
<1>25. ASSUME NEW c \in ChatIds, DeleteCommit(c) PROVE CompleteKept
  BY <1>0, <1>25 DEF DeleteCommit, CompleteKept
<1>26. CASE Shutdown
  BY <1>26, <1>a DEF Shutdown
<1>27. CASE Exit
  BY <1>27, <1>a DEF Exit
<1>28. CASE Crash
  BY <1>28, <1>a DEF Crash
<1>29. CASE Recover
  <2>1. msgs' = [m \in MsgIds |-> IF msgs[m].status \in Unsettled /\ ~msgs[m].text
                     THEN [msgs[m] EXCEPT !.status = "failed", !.text = TRUE] ELSE msgs[m]]
    BY <1>29, Zenon DEF Recover
  <2>2. \A k \in MsgIds : msgs[k].status = "complete" => msgs'[k] = msgs[k]
    BY <2>1 DEF Unsettled
  <2>3. QED BY <2>2 DEF CompleteKept
<1>30. CASE UNCHANGED vars
  BY <1>30, <1>a DEF vars
<1>31. QED
  BY <1>1, <1>2, <1>3, <1>4, <1>5, <1>6, <1>7, <1>8, <1>9, <1>10, <1>11, <1>12, <1>13, <1>14, <1>15, <1>16, <1>17, <1>18, <1>19, <1>20, <1>21, <1>22, <1>23, <1>24, <1>25, <1>26, <1>27, <1>28, <1>29, <1>30, <1>32 DEF Next, LoopStep, TaskStep, HandlerStep

LEMMA WrittenInit == Init => Written
BY DEF Init, Written, SameChat, ChatsKnown, StopsCounted, UnsettledHasWriter, ExistingMsgs

\* A step that neither creates nor deletes a chat, inserts a turn, starts nor
\* stops the process: a message it writes is settled or written on, and who
\* stops writing leaves a settled message.
LEMMA WrittenKept ==
  ASSUME TypeOK, Written, UNCHANGED <<chats, lastChat, doomed, phase, stops>>,
         \A q \in Runs : /\ runs'[q].msg = runs[q].msg
                         /\ (Inserted(q) => runs'[q].chat = runs[q].chat),
         \A k \in MsgIds : /\ msgs'[k].chat = msgs[k].chat
                           /\ (msgs'[k].status # "absent" => msgs[k].status # "absent")
                           /\ \/ msgs'[k] = msgs[k]
                              \/ msgs'[k].status \notin Unsettled
                              \/ \E q \in Runs : runs[q].msg = k /\ Writing(q)',
         \A q \in Runs : Raised(q) => Raised(q)',
         \A q \in Runs :
           phase = "up" /\ Inserted(q) /\ Writing(q) /\ ~Deleting(runs[q].chat) =>
             \/ Writing(q)' \/ Raised(q)'
             \/ msgs'[runs[q].msg].status \notin Unsettled
  PROVE  Written'
<1>1. SameChat'
  BY DEF Written, SameChat, Inserted, ExistingMsgs
<1>2. ChatsKnown'
  BY DEF Written, ChatsKnown, ExistingMsgs
<1>3. StopsCounted'
  BY DEF Written, StopsCounted
<1>4. UnsettledHasWriter'
  <2> SUFFICES ASSUME NEW m \in MsgIds, msgs'[m].status # "absent", phase = "up",
                      msgs'[m].status \in Unsettled, stops = 0 \/ ~msgs'[m].text,
                      msgs[m].chat \in chats, ~doomed[msgs[m].chat].on
               PROVE  \E r \in Runs : runs[r].msg = m /\ (Writing(r)' \/ Raised(r)')
    BY DEF UnsettledHasWriter, ExistingMsgs
  <2>1. CASE msgs'[m] = msgs[m]
    <3>1. m \in ExistingMsgs
      BY DEF ExistingMsgs
    <3>2. PICK r \in Runs : runs[r].msg = m /\ (Writing(r) \/ Raised(r))
      BY <2>1, <3>1 DEF Written, UnsettledHasWriter
    <3>3. Inserted(r)
      BY <3>2 DEF Inserted, MsgIds
    <3>4. runs[r].chat = msgs[m].chat
      BY <3>1, <3>2, <3>3 DEF Written, SameChat
    <3>5. ~Deleting(runs[r].chat)
      BY <3>4 DEF Deleting
    <3>6. QED BY <3>2, <3>3, <3>5
  <2>2. QED BY <2>1
<1>5. QED BY <1>1, <1>2, <1>3, <1>4 DEF Written

\* A turn that begins is written by the stretch that begins it.
LEMMA WrittenTurn ==
  ASSUME ~ReuseIds, TypeOK, Rooted, Written, NEW r \in Runs, NEW c, NEW m \in MsgIds,
         c <= lastChat, InsertTurn(r, c, m), UNCHANGED <<chats, lastChat, doomed, phase, stops>>,
         runs'[r].msg = m, runs'[r].chat = c, ~Inserted(r), Writing(r)',
         \A q \in Runs \ {r} : /\ runs'[q].msg = runs[q].msg
                               /\ runs'[q].chat = runs[q].chat
                               /\ (Writing(q) => Writing(q)')
                               /\ (Raised(q) => Raised(q)')
  PROVE  Written'
<1>1. /\ m \notin ExistingMsgs /\ m # 0
      /\ \A q \in Runs : runs[q].msg # m
      /\ \A k \in MsgIds \ {m} : msgs'[k] = msgs[k]
      /\ msgs'[m] = [status |-> "pending", text |-> FALSE, chat |-> c]
  <2>1. /\ m = lastMsg + 1 /\ lastMsg' = m /\ m \notin ExistingMsgs /\ m # 0
        /\ \A q \in Runs : runs[q].msg # m
        /\ \A k \in MsgIds \ {m} : msgs'[k] = msgs[k]
        /\ msgs'[m] = [status |-> "pending", text |-> FALSE, chat |-> c]
    BY FreshTurn DEF Rooted
  <2>2. QED BY <2>1
<1>2. SameChat'
  BY <1>1 DEF Written, SameChat, Inserted, ExistingMsgs
<1>3. ChatsKnown'
  BY <1>1 DEF Written, ChatsKnown, ExistingMsgs, Rooted, IdsGrow
<1>4. StopsCounted'
  BY DEF Written, StopsCounted
<1>5. UnsettledHasWriter'
  <2> SUFFICES ASSUME NEW k \in MsgIds, msgs'[k].status # "absent", phase = "up",
                      msgs'[k].status \in Unsettled, stops = 0 \/ ~msgs'[k].text,
                      msgs'[k].chat \in chats, ~doomed[msgs'[k].chat].on
               PROVE  \E q \in Runs : runs'[q].msg = k /\ (Writing(q)' \/ Raised(q)')
    BY DEF UnsettledHasWriter, ExistingMsgs
  <2>1. CASE k # m
    <3>1. msgs'[k] = msgs[k] /\ k \in ExistingMsgs
      BY <1>1, <2>1 DEF ExistingMsgs
    <3>2. PICK q \in Runs : runs[q].msg = k /\ (Writing(q) \/ Raised(q))
      BY <3>1 DEF Written, UnsettledHasWriter
    <3>3. q # r
      BY <3>2 DEF Inserted, MsgIds
    <3>4. QED BY <3>2, <3>3
  <2>2. QED BY <2>1
<1>6. QED BY <1>2, <1>3, <1>4, <1>5 DEF Written

LEMMA WrittenStep ==
  ASSUME ~ReuseIds, TypeOK, ApprovalInv, Ownership, Rooted, Attended, Written, [Next]_vars
  PROVE  Written'
<1> USE DEF RunRow, ApprovalRow, MsgRow, rows, ids, memory, life
<1>0. /\ runs \in [Runs -> RunRow]
      /\ msgs \in [MsgIds -> MsgRow]
      /\ approvals \in [Approvals -> ApprovalRow]
      /\ loop \in [at: Places, run: Runs \cup {NoRun}]
      /\ loop.at # "idle" => loop.run \in Runs
      /\ tasks \in [Runs -> Stages]
      /\ inflight \in [Approvals -> {"none", "called", "returned"}]
      /\ \A a \in Approvals : approvals[a].run = NoRun =>
           approvals[a].status = "absent" /\ inflight[a] = "none"
      /\ doomed \in [ChatIds -> Deletion]
      /\ NoRun \notin Runs
      /\ chats \subseteq ChatIds
  BY NoRunAssumption DEF TypeOK
<1>r. \A q \in Runs : Raised(q) => Raised(q)'
  BY RaisedKept
<1>a. ASSUME NEW r \in Runs, NEW t, UpdateRun(r, t)
      PROVE  \A q \in Runs : runs'[q].msg = runs[q].msg /\ runs'[q].chat = runs[q].chat
  BY <1>0, <1>a DEF UpdateRun
\* What a write to message w leaves of the messages.
<1>b. ASSUME NEW w, NEW t \in MsgStatus \ {"absent"}, NEW b \in BOOLEAN,
             msgs' = MsgsWith(w, t, b)
      PROVE  \A k \in MsgIds : /\ msgs'[k].chat = msgs[k].chat
                               /\ (msgs'[k].status # "absent" => msgs[k].status # "absent")
                               /\ msgs'[k] = msgs[k] \/ (k = w /\ msgs'[k].status = t)
  <2> TAKE k \in MsgIds
  <2>1. msgs[k] \in MsgRow
    BY <1>0
  <2>2. \/ msgs'[k] = msgs[k]
        \/ k = w /\ msgs[k].status # "absent" /\ msgs'[k] = [msgs[k] EXCEPT !.status = t, !.text = b]
    BY <1>b DEF MsgsWith
  <2>3. [msgs[k] EXCEPT !.status = t, !.text = b].status = t
        /\ [msgs[k] EXCEPT !.status = t, !.text = b].chat = msgs[k].chat
    BY <2>1
  <2>4. QED BY <2>2, <2>3
\* ... and how its status reads afterwards, the row gone or not.
<1>c. ASSUME NEW w \in MsgIds, NEW t \in MsgStatus \ Unsettled, NEW b \in BOOLEAN,
             msgs' = MsgsWith(w, t, b)
      PROVE  msgs'[w].status \notin Unsettled
  <2>1. msgs[w] \in MsgRow
    BY <1>0
  <2>2. \/ msgs[w].status = "absent" /\ msgs'[w] = msgs[w]
        \/ msgs'[w] = [msgs[w] EXCEPT !.status = t, !.text = b]
    BY <1>c DEF MsgsWith
  <2>3. [msgs[w] EXCEPT !.status = t, !.text = b].status = t
    BY <2>1
  <2>4. QED BY <1>c, <2>2, <2>3 DEF Unsettled
<1>s. /\ {"approval_required", "failed", "complete"} \subseteq MsgStatus \ Unsettled
      /\ {"approval_required", "failed", "complete", "streaming"} \subseteq MsgStatus \ {"absent"}
  BY DEF MsgStatus, Unsettled
<1>d. ASSUME NEW r \in Runs, Inserted(r) PROVE runs[r].msg \in MsgIds
  BY <1>0, <1>d, BoundsAssumption DEF Inserted, MsgIds
<1>1. CASE CreateChat
  <2>1. PICK c \in ChatIds : c = lastChat + 1 /\ chats' = chats \cup {c} /\ lastChat' >= lastChat
    BY <1>1, BoundsAssumption DEF CreateChat, NextId, TypeOK, ChatIds
  <2>2. UNCHANGED <<msgs, runs, approvals, memory, life>>
    BY <1>1 DEF CreateChat
  <2>3. lastChat \in Nat /\ lastChat' \in Nat /\ \A m \in ExistingMsgs : msgs[m].chat \in Nat
    BY <1>0, <1>1, BoundsAssumption DEF TypeOK, CreateChat, ChatIds, ExistingMsgs
  <2>4. \A m \in ExistingMsgs : msgs[m].chat # c /\ msgs[m].chat <= lastChat'
    BY <2>1, <2>3 DEF Written, ChatsKnown
  <2>5. QED
    BY <1>r, <2>1, <2>2, <2>4 DEF Written, SameChat, ChatsKnown, StopsCounted, UnsettledHasWriter,
       Inserted, ExistingMsgs, Writing
<1>2. CASE SendCommit
  <2>0. PICK r \in Runs, c \in 0..MaxChat : r = loop.run /\ c = runs[r].chat
    BY <1>0, <1>2 DEF SendCommit
  <2>1. PICK m \in MsgIds :
          /\ InsertTurn(r, c, m)
          /\ runs' = [runs EXCEPT ![r] = [status |-> "pending", chat |-> c, msg |-> m]]
          /\ loop' = At("start", r)
    BY <1>2, <2>0 DEF SendCommit
  <2>2. UNCHANGED <<chats, lastChat, approvals, tasks, inflight, doomed, phase, stops>>
    BY <1>2 DEF SendCommit
  <2>3. ~Inserted(r) /\ c <= lastChat
    BY <1>2, <2>0 DEF SendCommit, Rooted, InsertedFirst, IdsGrow
  <2>4. loop'.run = r
    BY <2>1 DEF At
  <2>5. Writing(r)' /\ \A q \in Runs : Writing(q) => Writing(q)'
    BY <2>0, <2>2, <2>4 DEF Writing
  <2>6. /\ runs'[r].msg = m /\ runs'[r].chat = c
        /\ \A q \in Runs \ {r} : runs'[q] = runs[q]
    BY <1>0, <2>1, <2>2
  <2>7. QED BY <1>r, <2>1, <2>2, <2>3, <2>5, <2>6, WrittenTurn
<1>3. CASE SendStart
  <2>0. PICK r \in Runs : r = loop.run
    BY <1>0, <1>3 DEF SendStart
  <2>1. /\ loop.at = "start" /\ loop' = Idle
        /\ UNCHANGED <<chats, lastChat, msgs, runs, approvals, inflight, doomed, phase, stops>>
    BY <1>0, <1>3 DEF SendStart
  <2>2. tasks' = IF runs[r].chat \in chats /\ runs[r].msg \in ExistingMsgs
                 THEN [tasks EXCEPT ![r] = "created"] ELSE tasks
    BY <1>3, <2>0 DEF SendStart
  <2>3. ~Deleting(runs[r].chat) /\ Inserted(r) => tasks'[r] = "created"
    BY <1>0, <2>1, <2>2 DEF Deleting, Rooted, RowsStay
  <2>4. \A q \in Runs \ {r} : tasks'[q] = tasks[q]
    BY <1>0, <2>2
  <2>5. \A q \in Runs \ {r} : Writing(q) => Writing(q)'
    BY <2>0, <2>1, <2>4 DEF Writing
  <2>6. tasks'[r] = "created" => Writing(r)'
    BY DEF Writing
  <2>7. QED BY <1>r, <2>1, <2>3, <2>5, <2>6, WrittenKept
<1>4. CASE Resume
  BY <1>r, <1>0, <1>4, WrittenKept DEF Resume, Writing, Idle
<1>5. CASE PersistWaiting
  BY <1>r, <1>0, <1>a, <1>5, WrittenKept DEF PersistWaiting, Writing, At
<1>6. CASE PersistAsk
  <2>1. /\ msgs' = MsgsWith(runs[loop.run].msg, "approval_required", TRUE)
        /\ EndTask(loop.run) /\ loop' = Idle /\ loop.run \in Runs
        /\ UNCHANGED <<chats, lastChat, runs, approvals, inflight, doomed, phase, stops>>
    BY <1>0, <1>6 DEF PersistAsk
  <2>2. \A k \in MsgIds : /\ msgs'[k].chat = msgs[k].chat
                          /\ (msgs'[k].status # "absent" => msgs[k].status # "absent")
                          /\ msgs'[k] = msgs[k] \/ msgs'[k].status \notin Unsettled
    BY <1>b, <1>s, <2>1
  <2>3. \A q \in Runs : Inserted(q) /\ Writing(q) =>
                         Writing(q)' \/ msgs'[runs[q].msg].status \notin Unsettled
    <3> TAKE q \in Runs
    <3>1. CASE q = loop.run
      BY <1>c, <1>d, <1>s, <2>1, <3>1
    <3>2. CASE q # loop.run
      BY <1>0, <2>1, <3>2 DEF EndTask, Writing
    <3>3. QED BY <3>1, <3>2
  <2>4. QED BY <1>r, <2>1, <2>2, <2>3, WrittenKept
<1>7. CASE PersistFailed
  <2>1. /\ msgs' = MsgsWith(runs[loop.run].msg, "failed", TRUE)
        /\ EndTask(loop.run) /\ loop' = Idle /\ loop.run \in Runs
        /\ UNCHANGED <<chats, lastChat, runs, approvals, inflight, doomed, phase, stops>>
    BY <1>0, <1>7 DEF PersistFailed
  <2>2. \A k \in MsgIds : /\ msgs'[k].chat = msgs[k].chat
                          /\ (msgs'[k].status # "absent" => msgs[k].status # "absent")
                          /\ msgs'[k] = msgs[k] \/ msgs'[k].status \notin Unsettled
    BY <1>b, <1>s, <2>1
  <2>3. \A q \in Runs : Inserted(q) /\ Writing(q) =>
                         Writing(q)' \/ msgs'[runs[q].msg].status \notin Unsettled
    <3> TAKE q \in Runs
    <3>1. CASE q = loop.run
      BY <1>c, <1>d, <1>s, <2>1, <3>1
    <3>2. CASE q # loop.run
      BY <1>0, <2>1, <3>2 DEF EndTask, Writing
    <3>3. QED BY <3>1, <3>2
  <2>4. QED BY <1>r, <2>1, <2>2, <2>3, WrittenKept
<1>8. ASSUME NEW c \in ChatIds, NEW r \in Runs, SendRead(c, r) PROVE Written'
  <2>1. ~Inserted(r)
    BY <1>8 DEF SendRead, Rooted, InsertedFirst
  <2>2. QED BY <1>r, <1>0, <1>8, <2>1, WrittenKept DEF SendRead, Serving, Writing, Idle, At
<1>9. ASSUME NEW r \in Runs, TaskStart(r) PROVE Written'
  BY <1>r, <1>0, <1>a, <1>9, WrittenKept DEF TaskStart, Wakes, Writing
<1>10. ASSUME NEW r \in Runs, TaskToken(r) PROVE Written'
  <2>1. /\ UpdateRun(r, "running") /\ tasks' = [tasks EXCEPT ![r] = "streaming"]
        /\ UNCHANGED <<chats, lastChat, approvals, loop, inflight, doomed, phase, stops>>
    BY <1>10 DEF TaskToken
  <2>2. \A k \in MsgIds : /\ msgs'[k].chat = msgs[k].chat
                          /\ (msgs'[k].status # "absent" => msgs[k].status # "absent")
                          /\ msgs'[k] = msgs[k] \/ k = runs[r].msg
    BY <1>0, <1>10 DEF TaskToken
  <2>3. Writing(r)' /\ \A q \in Runs : Writing(q) => Writing(q)'
    BY <1>0, <2>1 DEF Writing
  <2>4. QED BY <1>r, <1>a, <2>1, <2>2, <2>3, WrittenKept
<1>11. ASSUME NEW r \in Runs, TaskFail(r) PROVE Written'
  BY <1>r, <1>0, <1>a, <1>11, WrittenKept DEF TaskFail, Wakes, Writing, Idle, At
<1>12. ASSUME NEW r \in Runs, TaskUnwind(r) PROVE Written'
  <2>1. CASE /\ UpdateRun(r, "cancelled") /\ loop' = At("fail", r) /\ UNCHANGED tasks
    BY <1>r, <1>0, <1>a, <1>12, <2>1, WrittenKept DEF TaskUnwind, Writing, Idle, At
  <2>2. CASE EndTask(r) /\ UNCHANGED <<runs, loop>>
    <3>1. phase = "up" => Deleting(runs[r].chat)
      BY <1>12 DEF TaskUnwind, Attended, CancelledForDeletion
    <3>2. QED BY <1>r, <1>0, <1>12, <2>2, <3>1, WrittenKept DEF TaskUnwind, EndTask, Writing, Idle
  <2>3. QED BY <1>12, <2>1, <2>2 DEF TaskUnwind
<1>13. ASSUME NEW r \in Runs, TaskFinish(r) PROVE Written'
  <2>1. /\ tasks' = [tasks EXCEPT ![r] = "ingest"]
        /\ msgs' = MsgsWith(runs[r].msg, "complete", TRUE)
        /\ UNCHANGED <<chats, lastChat, runs, approvals, loop, inflight, doomed, phase, stops>>
    BY <1>13 DEF TaskFinish
  <2>2. \A k \in MsgIds : /\ msgs'[k].chat = msgs[k].chat
                          /\ (msgs'[k].status # "absent" => msgs[k].status # "absent")
                          /\ msgs'[k] = msgs[k] \/ msgs'[k].status \notin Unsettled
    BY <1>b, <1>s, <2>1
  <2>3. \A q \in Runs : Inserted(q) /\ Writing(q) =>
                         Writing(q)' \/ msgs'[runs[q].msg].status \notin Unsettled
    <3> TAKE q \in Runs
    <3>1. CASE q = r
      BY <1>c, <1>d, <1>s, <2>1, <3>1
    <3>2. CASE q # r
      BY <1>0, <2>1, <3>2 DEF Writing
    <3>3. QED BY <3>1, <3>2
  <2>4. QED BY <1>r, <2>1, <2>2, <2>3, WrittenKept
<1>14. ASSUME NEW r \in Runs, TaskIngested(r) PROVE Written'
  BY <1>r, <1>0, <1>a, <1>14, WrittenKept DEF TaskIngested, Wakes, Writing
<1>15. ASSUME NEW r \in Runs, TaskLingered(r) PROVE Written'
  BY <1>r, <1>0, <1>15, WrittenKept DEF TaskLingered, Wakes, EndTask, Writing
<1>16. ASSUME NEW r \in Runs, AdoptApproval(r) PROVE Written'
  BY <1>r, <1>0, <1>16, WrittenKept DEF AdoptApproval, Wakes, Writing, Idle, At
<1>17. ASSUME NEW r \in Runs, NEW a \in Approvals, RaiseApproval(r, a) PROVE Written'
  <2>1. inflight[a] = "none"
    BY <1>0, <1>17 DEF RaiseApproval, FreshApproval
  <2>2. QED BY <1>r, <1>0, <1>17, <2>1, WrittenKept DEF RaiseApproval, Wakes, Writing, Idle, At
<1>18. ASSUME NEW a \in Approvals, ExecuteCommand(a) PROVE Written'
  BY <1>r, <1>0, <1>18, WrittenKept DEF ExecuteCommand, Writing
<1>32. ASSUME NEW a \in Approvals, ExecuteRaises(a) PROVE Written'
  <2>1. \A q \in Runs : Writing(q) => Writing(q)' \/ Raised(q)'
    BY <1>0, <1>32 DEF ExecuteRaises, Writing, Raised
  <2>2. QED BY <1>r, <1>0, <1>32, <2>1, WrittenKept DEF ExecuteRaises
<1>19. ASSUME NEW a \in Approvals, Continue(a) PROVE Written'
  <2>0. PICK r \in Runs : r = approvals[a].run
    BY <1>0, <1>19 DEF Continue
  <2>1. /\ runs' = [runs EXCEPT ![r].status = "running"]
        /\ approvals' = [approvals EXCEPT ![a].status = IF @ = "absent" THEN @ ELSE "approved"]
        /\ inflight' = [inflight EXCEPT ![a] = "none"]
        /\ msgs' = MsgsWith(runs[r].msg, "streaming", TRUE)
        /\ inflight[a] = "returned" /\ loop = Idle /\ loop' = At("resume", r)
        /\ UNCHANGED <<chats, lastChat, tasks, doomed, phase, stops>>
    BY <1>19, <2>0 DEF Continue, Serving
  <2>3. \A q \in Runs : runs'[q].msg = runs[q].msg /\ runs'[q].chat = runs[q].chat
    BY <1>0, <2>1
  <2>4. \A b \in Approvals : /\ approvals'[b].run = approvals[b].run
                            /\ (b # a => inflight'[b] = inflight[b])
    BY <1>0, <2>1
  <2>5. loop'.run = r /\ loop.run = NoRun
    BY <2>1 DEF Idle, At
  <2>6. Writing(r)' /\ \A q \in Runs : Writing(q) => Writing(q)'
    BY <1>0, <2>0, <2>1, <2>4, <2>5 DEF Writing
  <2>7. \A k \in MsgIds : /\ msgs'[k].chat = msgs[k].chat
                          /\ (msgs'[k].status # "absent" => msgs[k].status # "absent")
                          /\ msgs'[k] = msgs[k] \/ k = runs[r].msg
    BY <1>b, <1>s, <2>1
  <2>8. QED BY <1>r, <2>1, <2>3, <2>6, <2>7, WrittenKept
<1>20. ASSUME NEW a \in Approvals, ContinueConflict(a) PROVE Written'
  <2>0. PICK r \in Runs : r = approvals[a].run
    BY <1>0, <1>20 DEF ContinueConflict
  <2>1. /\ inflight[a] = "returned" /\ runs[r].status = "absent"
        /\ inflight' = [inflight EXCEPT ![a] = "none"]
        /\ UNCHANGED <<chats, lastChat, msgs, runs, approvals, loop, tasks, doomed, phase, stops>>
    BY <1>20, <2>0 DEF ContinueConflict
  <2>3. Inserted(r) => Deleting(runs[r].chat)
    BY <2>1 DEF Deleting, Rooted, RowsStay
  <2>4. \A q \in Runs \ {r} : Writing(q) => Writing(q)'
    BY <1>0, <2>0, <2>1 DEF Writing
  <2>5. QED BY <1>r, <2>1, <2>3, <2>4, WrittenKept
<1>21. ASSUME NEW a \in Approvals, Approve(a) PROVE Written'
  <2>0. PICK r \in Runs : r = approvals[a].run
    BY <1>0, <1>21 DEF Approve, Resolvable
  <2>1. /\ approvals' = [approvals EXCEPT ![a].status = "executing"]
        /\ inflight' = [inflight EXCEPT ![a] = "called"]
        /\ UpdateRun(r, "running") /\ approvals[a].status = "pending"
        /\ msgs' = MsgsWith(runs[r].msg, "streaming", TRUE)
        /\ UNCHANGED <<chats, lastChat, loop, tasks, doomed, phase, stops>>
    BY <1>21, <2>0 DEF Approve, Resolvable
  <2>3. \A q \in Runs : runs'[q].msg = runs[q].msg /\ runs'[q].chat = runs[q].chat
    BY <1>a, <2>1
  <2>4. /\ \A b \in Approvals : /\ approvals'[b].run = approvals[b].run
                                /\ (inflight[b] # "none" => inflight'[b] # "none")
        /\ inflight'[a] # "none"
    BY <1>0, <2>1
  <2>5. Writing(r)' /\ \A q \in Runs : Writing(q) => Writing(q)'
    BY <2>0, <2>1, <2>4 DEF Writing
  <2>6. \A k \in MsgIds : /\ msgs'[k].chat = msgs[k].chat
                          /\ (msgs'[k].status # "absent" => msgs[k].status # "absent")
                          /\ msgs'[k] = msgs[k] \/ k = runs[r].msg
    BY <1>b, <1>s, <2>1
  <2>7. QED BY <1>r, <2>1, <2>3, <2>5, <2>6, WrittenKept
<1>22. ASSUME NEW a \in Approvals, Deny(a) PROVE Written'
  <2>1. /\ approvals' = [approvals EXCEPT ![a].status = "denied"]
        /\ UpdateRun(approvals[a].run, "denied") /\ approvals[a].status = "pending"
        /\ msgs' = MsgsWith(runs[approvals[a].run].msg, "complete", TRUE)
        /\ UNCHANGED <<chats, lastChat, loop, tasks, inflight, doomed, phase, stops>>
    BY <1>22 DEF Deny, Resolvable
  <2>2. \A q \in Runs : runs'[q].msg = runs[q].msg /\ runs'[q].chat = runs[q].chat
    BY <1>0, <1>a, <2>1
  <2>3. \A b \in Approvals : approvals'[b].run = approvals[b].run
    BY <1>0, <2>1
  <2>4. \A q \in Runs : Writing(q) => Writing(q)'
    BY <2>1, <2>3 DEF Writing
  <2>5. \A k \in MsgIds : /\ msgs'[k].chat = msgs[k].chat
                          /\ (msgs'[k].status # "absent" => msgs[k].status # "absent")
                          /\ msgs'[k] = msgs[k] \/ msgs'[k].status \notin Unsettled
    BY <1>b, <1>s, <2>1
  <2>6. QED BY <1>r, <2>1, <2>2, <2>4, <2>5, WrittenKept
<1>23. ASSUME NEW r \in Runs, NEW a \in Approvals, Other(a, r) PROVE Written'
  <2> DEFINE c == ChatOf(a)
             old == approvals[a].run
  <2>1. PICK m \in MsgIds :
          /\ InsertTurn(r, c, m)
          /\ runs' = [q \in Runs |->
                     IF q = r THEN [status |-> "pending", chat |-> c, msg |-> m]
                     ELSE IF q = old /\ runs[q].status # "absent"
                     THEN [runs[q] EXCEPT !.status = "other"]
                     ELSE runs[q]]
    BY <1>23, Zenon DEF Other
  <2>2. /\ loop = Idle /\ FreshRun(r) /\ loop' = At("resume", r)
        /\ approvals' = [approvals EXCEPT ![a].status = "other"]
        /\ approvals[a].status = "pending"
        /\ UNCHANGED <<chats, lastChat, tasks, inflight, doomed, phase, stops>>
    BY <1>23 DEF Other, Resolvable, Serving
  <2>3. ~Inserted(r)
    BY <2>2 DEF Rooted, InsertedFirst
  <2>4. c <= lastChat
    BY <1>0, <2>2 DEF Rooted, IdsGrow, ChatOf
  <2> HIDE DEF c, old
  <2>5. \A b \in Approvals : approvals'[b].run = approvals[b].run
    BY <1>0, <2>2
  <2>6. loop'.run = r /\ loop.run = NoRun
    BY <2>2 DEF Idle, At
  <2>7. Writing(r)' /\ \A q \in Runs : Writing(q) => Writing(q)'
    BY <1>0, <2>2, <2>5, <2>6 DEF Writing
  <2>8. /\ runs'[r].msg = m /\ runs'[r].chat = c
        /\ \A q \in Runs \ {r} : runs'[q].msg = runs[q].msg /\ runs'[q].chat = runs[q].chat
    BY <1>0, <2>1
  <2>9. QED BY <1>r, <2>1, <2>2, <2>3, <2>4, <2>7, <2>8, WrittenTurn
<1>24. ASSUME NEW c \in ChatIds, DeleteRead(c) PROVE Written'
  <2>1. UNCHANGED <<chats, msgs, runs, approvals, lastChat, loop, tasks, inflight, phase, stops>>
    BY <1>24 DEF DeleteRead
  <2>2. doomed'[c].on /\ \A k \in ChatIds \ {c} : doomed'[k] = doomed[k]
    BY <1>0, <1>24 DEF DeleteRead
  <2>3. QED
    BY <1>r, <1>0, <2>1, <2>2 DEF Written, SameChat, ChatsKnown, StopsCounted, UnsettledHasWriter,
       Inserted, ExistingMsgs, Writing
<1>25. ASSUME NEW c \in ChatIds, DeleteCommit(c) PROVE Written'
  <2>1. /\ chats' = chats \ {c}
        /\ UNCHANGED <<lastChat, loop, tasks, inflight, phase, stops>>
    BY <1>25 DEF DeleteCommit
  <2>2. \A q \in Runs : runs'[q].msg = runs[q].msg /\ runs'[q].chat = runs[q].chat
    BY <1>0, <1>25 DEF DeleteCommit
  <2>3. \A b \in Approvals : approvals'[b].run = approvals[b].run
    BY <1>0, <1>25 DEF DeleteCommit
  <2>4. \A k \in ChatIds \ {c} : doomed'[k] = doomed[k]
    BY <1>0, <1>25 DEF DeleteCommit
  <2>5. \A m \in MsgIds : msgs'[m].status # "absent" => msgs'[m] = msgs[m]
    BY <1>25 DEF DeleteCommit
  <2>6. \A q \in Runs : Writing(q) => Writing(q)'
    BY <2>1, <2>3 DEF Writing
  <2>7. UnsettledHasWriter'
    <3> SUFFICES ASSUME NEW m \in MsgIds, msgs'[m].status # "absent", phase = "up",
                        msgs'[m].status \in Unsettled, stops = 0 \/ ~msgs'[m].text,
                        msgs'[m].chat \in chats', ~doomed'[msgs'[m].chat].on
                 PROVE  \E q \in Runs : runs'[q].msg = m /\ (Writing(q)' \/ Raised(q)')
      BY <2>1 DEF UnsettledHasWriter, ExistingMsgs
    <3>1. msgs'[m] = msgs[m] /\ m \in ExistingMsgs
      BY <2>5 DEF ExistingMsgs
    <3>2. msgs[m].chat \in chats /\ ~doomed[msgs[m].chat].on
      BY <1>0, <2>1, <2>4, <3>1
    <3>3. QED BY <1>r, <2>2, <2>6, <3>1, <3>2 DEF Written, UnsettledHasWriter
  <2>8. QED
    BY <2>1, <2>2, <2>5, <2>7 DEF Written, SameChat, ChatsKnown, StopsCounted, Inserted, ExistingMsgs
<1>26. CASE Shutdown
  <2>1. /\ phase' = "stopping" /\ stops' > 0 /\ UNCHANGED <<msgs, lastChat>>
    BY <1>26, BoundsAssumption DEF Shutdown, TypeOK
  <2>2. \A q \in Runs : runs'[q].msg = runs[q].msg /\ runs'[q].chat = runs[q].chat
    BY <1>0, <1>26 DEF Shutdown
  <2>3. QED
    BY <2>1, <2>2 DEF Written, SameChat, ChatsKnown, StopsCounted, UnsettledHasWriter,
       Inserted, ExistingMsgs
<1>27. CASE Exit
  BY <1>27 DEF Exit, Written, SameChat, ChatsKnown, StopsCounted, UnsettledHasWriter,
     Inserted, ExistingMsgs
<1>28. CASE Crash
  <2>1. /\ phase' = "down" /\ stops' > 0 /\ UNCHANGED <<msgs, runs, lastChat>>
    BY <1>28, BoundsAssumption DEF Crash, TypeOK
  <2>2. QED
    BY <2>1 DEF Written, SameChat, ChatsKnown, StopsCounted, UnsettledHasWriter,
       Inserted, ExistingMsgs
<1>29. CASE Recover
  <2>1. msgs' = [m \in MsgIds |-> IF msgs[m].status \in Unsettled /\ ~msgs[m].text
                     THEN [msgs[m] EXCEPT !.status = "failed", !.text = TRUE] ELSE msgs[m]]
    BY <1>29, Zenon DEF Recover
  <2>2. runs' = [r \in Runs |-> IF runs[r].status \in Active
                     THEN [runs[r] EXCEPT !.status = "failed"] ELSE runs[r]]
    BY <1>29, Zenon DEF Recover
  <2>3. phase = "down" /\ phase' = "up" /\ UNCHANGED <<lastChat, stops>>
    BY <1>29 DEF Recover
  <2>4. stops \in Nat /\ stops' # 0
    BY <2>3, BoundsAssumption DEF Written, StopsCounted, TypeOK
  <2>5. \A k \in MsgIds : /\ msgs'[k].chat = msgs[k].chat
                          /\ (msgs'[k].status # "absent" => msgs[k].status # "absent")
                          /\ (msgs'[k].status \in Unsettled => msgs'[k].text)
    <3> TAKE k \in MsgIds
    <3>1. msgs[k] \in MsgRow
      BY <1>0
    <3>2. IF msgs[k].status \in Unsettled /\ ~msgs[k].text
          THEN msgs'[k] = [msgs[k] EXCEPT !.status = "failed", !.text = TRUE]
          ELSE msgs'[k] = msgs[k]
      BY <2>1
    <3>3. /\ [msgs[k] EXCEPT !.status = "failed", !.text = TRUE].status = "failed"
          /\ [msgs[k] EXCEPT !.status = "failed", !.text = TRUE].chat = msgs[k].chat
      BY <3>1
    <3>4. QED BY <3>1, <3>2, <3>3 DEF Unsettled
  <2>6. \A q \in Runs : runs'[q].msg = runs[q].msg /\ runs'[q].chat = runs[q].chat
    BY <1>0, <2>2
  <2>7. UnsettledHasWriter'
    BY <2>4, <2>5 DEF UnsettledHasWriter, ExistingMsgs
  <2>8. QED
    BY <2>3, <2>5, <2>6, <2>7 DEF Written, SameChat, ChatsKnown, StopsCounted, Inserted, ExistingMsgs
<1>30. CASE UNCHANGED vars
  BY <1>r, <1>30 DEF vars, Written, SameChat, ChatsKnown, StopsCounted, UnsettledHasWriter,
     Inserted, ExistingMsgs, Writing
<1>31. QED
  BY <1>1, <1>2, <1>3, <1>4, <1>5, <1>6, <1>7, <1>8, <1>9, <1>10, <1>11, <1>12, <1>13, <1>14, <1>15, <1>16, <1>17, <1>18, <1>19, <1>20, <1>21, <1>22, <1>23, <1>24, <1>25, <1>26, <1>27, <1>28, <1>29, <1>30, <1>32 DEF Next, LoopStep, TaskStep, HandlerStep

-----------------------------------------------------------------------------
(* The theorems.  They speak of the behaviours in which no row id comes    *)
(* back; with ids that come back TLC finds each of them violated.          *)

FreshInv == Rooted /\ SoleClaim /\ Attended /\ Answerable /\ Unfinished /\ Written

LEMMA FreshHolds == ASSUME ~ReuseIds PROVE Spec => []FreshInv
<1>1. Init => FreshInv
  BY RootedInit, SoleInit, AttendedInit, AnswerableInit, UnfinishedInit, WrittenInit DEF FreshInv
<1>2. TypeOK /\ ApprovalInv /\ Ownership /\ Activity /\ FreshInv /\ [Next]_vars => FreshInv'
  BY RootedStep, SoleStep, AttendedStep, AnswerableStep, UnfinishedStep, WrittenStep
  DEF FreshInv
<1>3. QED
  BY <1>1, <1>2, TypeCorrect, ApprovalSafe, ActivityInv, PTL DEF Spec

\* While a request is pending no other run of its chat is active, so a second
\* answer never appears beside it and resolve_approval's 409 for a foreign
\* active run is never taken: whoever holds a claim on the chat (an active
\* run, a working task, a send in progress, an open request) is one run.
THEOREM NoTurnBesideRequest == ASSUME ~ReuseIds PROVE Spec => []NoTurnWhilePending
<1>1. TypeOK /\ FreshInv => NoTurnWhilePending
  BY SoleNoTurn DEF FreshInv
<1>2. QED
  BY <1>1, TypeCorrect, FreshHolds, PTL

\* A run that waits for approval has a request a user can answer, and a
\* message that asks has its request, whatever crash, deletion or shutdown
\* falls between the commits of _persist_action_approval.
THEOREM EveryAskAnswerable == ASSUME ~ReuseIds PROVE Spec => []AskIsAnswerable
<1>1. FreshInv => AskIsAnswerable
  BY DEF FreshInv, Answerable
<1>2. QED
  BY <1>1, FreshHolds, PTL

\* While the process is up and a chat is not being deleted, an active run of it
\* has a task, a handler or an approved command that is going to finish it, and
\* a pending or streaming message somebody who is going to settle it.  Excepted
\* are the run and the message whose approved command raised in
\* _execute_approved_command_sync, which nobody goes on with; and after a
\* restart the second is claimed of a message without content, the only kind
\* _recover_stuck_messages resets.
THEOREM NothingStranded == ASSUME ~ReuseIds PROVE Spec => []NothingIsStranded
<1>1. FreshInv => NothingIsStranded
  BY DEF FreshInv, Attended, Written, NothingIsStranded
<1>2. QED
  BY <1>1, FreshHolds, PTL

\* A complete message keeps that status until it is deleted: every task,
\* handler and start-up step that writes a message writes that of a run whose
\* message is not complete yet.
THEOREM CompleteStays == ASSUME ~ReuseIds PROVE Spec => CompleteIsFinal
<1>1. TypeOK /\ ApprovalInv /\ Ownership /\ FreshInv /\ [Next]_vars => CompleteKept
  BY CompleteStep DEF FreshInv
<1>2. Spec => [][CompleteKept]_vars
  BY <1>1, TypeCorrect, ApprovalSafe, ActivityInv, FreshHolds, PTL DEF Spec
<1>3. QED
  BY <1>2, PTL DEF CompleteIsFinal, CompleteKept

=============================================================================
