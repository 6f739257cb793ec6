---------------------------- MODULE ApprovalGate ----------------------------
(***************************************************************************)
(* What the approval of risky commands promises (README.md:310-326,        *)
(* chat.py `It will not run until you approve it'): a command runs only    *)
(* after its request was allowed, and at most once; a refused request      *)
(* never runs anything.  Nothing here knows of rows, runs or tasks.        *)
(***************************************************************************)
EXTENDS Integers

CONSTANT Approvals

VARIABLES
  gate,  \* state of each request
  ran    \* how often its command was executed

vars == <<gate, ran>>

GateState == {"none", "asked", "allowed", "refused", "closed"}

TypeOK ==
  /\ gate \in [Approvals -> GateState]
  /\ ran \in [Approvals -> Nat]

Init ==
  /\ gate = [a \in Approvals |-> "none"]
  /\ ran = [a \in Approvals |-> 0]

\* The agent asks.
Ask(a) ==
  /\ gate[a] = "none"
  /\ gate' = [gate EXCEPT ![a] = "asked"]
  /\ ran' = ran

\* The user allows or refuses.
Allow(a) ==
  /\ gate[a] = "asked"
  /\ gate' = [gate EXCEPT ![a] = "allowed"]
  /\ ran' = ran

Refuse(a) ==
  /\ gate[a] = "asked"
  /\ gate' = [gate EXCEPT ![a] = "refused"]
  /\ ran' = ran

\* The one attempt: it may fail to reach the host.
Execute(a) ==
  /\ gate[a] = "allowed"
  /\ gate' = [gate EXCEPT ![a] = "closed"]
  /\ \/ ran' = [ran EXCEPT ![a] = @ + 1]
     \/ ran' = ran

\* Requests are given up together: their chat is deleted, the process dies.
Close(S) ==
  /\ \A a \in S : gate[a] # "none"
  /\ gate' = [a \in Approvals |-> IF a \in S THEN "closed" ELSE gate[a]]
  /\ ran' = ran

Next ==
  \/ \E a \in Approvals : Ask(a) \/ Allow(a) \/ Refuse(a) \/ Execute(a)
  \/ \E S \in SUBSET Approvals : Close(S)

Spec == Init /\ [][Next]_vars

=============================================================================
