------------------------- MODULE AnswerStreamProofs -------------------------
(***************************************************************************)
(* Theorems about AnswerStream for every capacity and length of answer:    *)
(* what the client is shown is the answer, and its end is the end that is  *)
(* stored.                                                                 *)
(***************************************************************************)
EXTENDS AnswerStream, SequenceTheorems, TLAPS

Kinds == Ends \cup {"token", "progress"}

-----------------------------------------------------------------------------
(* The queue.                                                              *)

\* Every kind of item, with the values the fields of an item may take.
LEMMA ItemOK ==
  ASSUME NEW kind \in Kinds, NEW n \in 0..MaxTokens
  PROVE  [kind |-> kind, n |-> n] \in Item
BY DEF Item, Kinds

\* A put appends the item or, when the queue is full, notes its kind.
LEMMA PutEffect ==
  ASSUME TypeOK, NEW kind \in Kinds, NEW n \in 0..MaxTokens, Put(kind, n)
  PROVE  /\ queue' \in Seq(Item) /\ Len(queue') <= Capacity
         /\ dropped' \subseteq Kinds
         /\ \/ queue' = queue /\ dropped' = dropped \cup {kind}
            \/ /\ dropped' = dropped
               /\ Len(queue') = Len(queue) + 1
               /\ \A i \in 1..Len(queue) : queue'[i] = queue[i]
               /\ queue'[Len(queue')].kind = kind /\ queue'[Len(queue')].n = n
<1> DEFINE x == [kind |-> kind, n |-> n]
<1>1. x \in Item
  BY ItemOK
<1>2. queue \in Seq(Item) /\ Len(queue) <= Capacity /\ dropped \subseteq Kinds
  BY DEF TypeOK, Kinds
<1>3. CASE Len(queue) < Capacity
  <2>1. queue' = Append(queue, x) /\ dropped' = dropped
    BY <1>3 DEF Put
  <2>2. /\ queue' \in Seq(Item)
        /\ Len(queue') = Len(queue) + 1
        /\ \A i \in 1..Len(queue) : queue'[i] = queue[i]
        /\ queue'[Len(queue) + 1] = x
    BY <1>1, <1>2, <2>1, AppendProperties
  <2>3. Len(queue) \in Nat
    BY <1>2, LenProperties
  <2> QED
    BY <1>2, <1>3, <2>1, <2>2, <2>3, StreamAssumption
<1>4. CASE ~(Len(queue) < Capacity)
  BY <1>2, <1>4 DEF Put, Kinds
<1> QED
  BY <1>3, <1>4

\* A read takes the first item.
LEMMA ReadEffect ==
  ASSUME TypeOK, Read
  PROVE  /\ queue[1] \in Item
         /\ 1 \in 1..Len(queue)
         /\ queue' \in Seq(Item)
         /\ Len(queue') = Len(queue) - 1
         /\ \A i \in 1..Len(queue') : i + 1 \in 1..Len(queue) /\ queue'[i] = queue[i + 1]
<1>1. queue \in Seq(Item) /\ queue # <<>> /\ queue' = Tail(queue)
  BY DEF TypeOK, Read
<1>2. /\ Tail(queue) \in Seq(Item)
      /\ Len(Tail(queue)) = Len(queue) - 1
      /\ \A i \in 1..Len(Tail(queue)) : Tail(queue)[i] = queue[i + 1]
  BY <1>1, HeadTailProperties
<1>3. Len(queue) \in Nat /\ Len(queue) # 0
  BY <1>1, LenProperties, EmptySeq
<1>4. queue[1] \in Item
  BY <1>1, <1>3, ElementOfSeq
<1> QED
  BY <1>1, <1>2, <1>3, <1>4

\* A step either leaves the queue and the client alone, puts an item, or
\* reads one, or the client leaves.
Quiet == UNCHANGED <<made, queue, stream, shown, dropped>>

LEMMA StepKinds ==
  ASSUME TypeOK, Next
  PROVE  \/ Quiet
         \/ Leave
         \/ Read
         \/ Token
         \/ \E kind \in Kinds \ {"token"} : Put(kind, 0) /\ UNCHANGED <<made, stream, shown>>
BY DEF Next, Work, Begin, Progress, Fail, Ask, Finish, Ingested, Linger, Cancel,
       DeleteRow, Quiet, Kinds, Ends

-----------------------------------------------------------------------------
(* Types.                                                                  *)

\* What the client has after a read.
LEMMA ReadShown ==
  ASSUME TypeOK, Read
  PROVE  /\ stream' = IF queue[1].kind \in Ends THEN queue[1].kind ELSE "open"
         /\ IF queue[1].kind = "token"
              THEN /\ Len(shown') = Len(shown) + 1
                   /\ \A i \in 1..Len(shown) : shown'[i] = shown[i]
                   /\ shown'[Len(shown')] = queue[1].n
              ELSE shown' = shown
         /\ (queue[1].kind = "token" => queue[1].n \in 1..MaxTokens) => shown' \in Seq(1..MaxTokens)
<1>1. Head(queue) = queue[1] /\ stream = "open"
  BY DEF Read
<1>2. /\ stream' = IF queue[1].kind \in Ends THEN queue[1].kind ELSE "open"
      /\ shown' = IF queue[1].kind = "token" THEN Append(shown, queue[1].n) ELSE shown
  BY <1>1 DEF Read
<1>3. shown \in Seq(1..MaxTokens) /\ Len(shown) \in Nat
  BY LenProperties DEF TypeOK
<1>4. shown \in Seq(Nat) /\ queue[1].n \in Nat
  <2>1. shown \in Seq(Nat)
    BY <1>3, SeqMonotonic, StreamAssumption
  <2>2. queue[1].n \in 0..MaxTokens
    BY ReadEffect DEF Item
  <2> QED
    BY <2>1, <2>2, StreamAssumption
<1>5. CASE queue[1].kind = "token"
  <2>1. shown' = Append(shown, queue[1].n)
    BY <1>2, <1>5
  <2>2. /\ Len(shown') = Len(shown) + 1
        /\ \A i \in 1..Len(shown) : shown'[i] = shown[i]
        /\ shown'[Len(shown) + 1] = queue[1].n
    BY <1>4, <2>1, AppendProperties
  <2>3. queue[1].n \in 1..MaxTokens => shown' \in Seq(1..MaxTokens)
    BY <1>3, <2>1, AppendProperties
  <2> QED
    BY <1>2, <1>5, <2>2, <2>3
<1>6. CASE queue[1].kind # "token"
  BY <1>2, <1>3, <1>6
<1> QED
  BY <1>5, <1>6

\* Tokens are numbered from one.
TokensOK == \A q \in 1..Len(queue) : queue[q].kind = "token" => queue[q].n \in 1..made

LEMMA TypeInit == Init => TypeOK /\ TokensOK
<1> SUFFICES ASSUME Init PROVE TypeOK /\ TokensOK
  OBVIOUS
<1>1. queue \in Seq(Item) /\ Len(queue) = 0 /\ shown \in Seq(1..MaxTokens)
  BY EmptySeq DEF Init
<1> QED
  BY <1>1, StreamAssumption DEF Init, TypeOK, TokensOK

LEMMA TypeStep == TypeOK /\ TokensOK /\ [Next]_vars => TypeOK' /\ TokensOK'
<1> SUFFICES ASSUME TypeOK, TokensOK, [Next]_vars PROVE TypeOK' /\ TokensOK'
  OBVIOUS
<1>0. MaxTokens \in Nat /\ Capacity \in Nat /\ made \in 0..MaxTokens /\ Len(queue) \in Nat
  BY StreamAssumption, LenProperties DEF TypeOK
<1>1. CASE UNCHANGED vars
  BY <1>1 DEF TypeOK, TokensOK, vars
<1>2. CASE Next
  <2>1. /\ stage' \in {"created", "agent", "ingest", "linger", "over"}
        /\ msg' \in {"pending", "streaming", "complete", "failed", "approval_required", "gone"}
        /\ mishaps' \subseteq {"write", "silent"}
    BY <1>2 DEF Next, Work, Begin, Token, Progress, Fail, Ask, Finish, Ingested, Linger,
                Cancel, DeleteRow, Read, Leave, Write, TypeOK
  <2> DEFINE Rest == /\ made' \in 0..MaxTokens
                     /\ queue' \in Seq(Item) /\ Len(queue') <= Capacity
                     /\ stream' \in {"open", "gone"} \cup Ends
                     /\ shown' \in Seq(1..MaxTokens)
                     /\ dropped' \subseteq Kinds
                     /\ TokensOK'
  <2>2. ASSUME Quiet PROVE Rest
    BY <2>2 DEF Quiet, TypeOK, TokensOK, Kinds
  <2>3. ASSUME Leave PROVE Rest
    BY <2>3 DEF Leave, TypeOK, TokensOK, Kinds
  <2>4. ASSUME Read PROVE Rest
    <3>1. queue[1].kind = "token" => queue[1].n \in 1..MaxTokens
      BY <1>0, <2>4, ReadEffect DEF TokensOK
    <3>2. shown' \in Seq(1..MaxTokens) /\ stream' \in {"open", "gone"} \cup Ends
      BY <2>4, <3>1, ReadShown
    <3>3. made' = made /\ dropped' = dropped
      BY <2>4 DEF Read
    <3>4. queue' \in Seq(Item) /\ Len(queue') = Len(queue) - 1 /\ Len(queue) <= Capacity
      BY <2>4, ReadEffect DEF TypeOK
    <3>5. TokensOK'
      BY <2>4, <3>3, ReadEffect DEF TokensOK
    <3> QED
      BY <1>0, <3>2, <3>3, <3>4, <3>5 DEF TypeOK, Kinds
  <2>5. ASSUME Token PROVE Rest
    <3>1. Put("token", made + 1) /\ made' = made + 1 /\ made' \in 1..MaxTokens
          /\ stream' = stream /\ shown' = shown
      BY <1>0, <2>5 DEF Token
    <3>2. "token" \in Kinds /\ made + 1 \in 0..MaxTokens
      BY <1>0, <3>1 DEF Kinds
    <3>3. TokensOK'
      BY <1>0, <3>1, <3>2, PutEffect, SMTT(60) DEF TokensOK
    <3> QED
      BY <1>0, <3>1, <3>2, <3>3, PutEffect DEF TypeOK
  <2>6. ASSUME NEW kind \in Kinds \ {"token"}, Put(kind, 0), UNCHANGED <<made, stream, shown>>
        PROVE  Rest
    <3>1. 0 \in 0..MaxTokens
      BY <1>0
    <3>2. TokensOK'
      BY <1>0, <2>6, <3>1, PutEffect DEF TokensOK
    <3> QED
      BY <2>6, <3>1, <3>2, PutEffect DEF TypeOK
  <2>7. Rest
    BY <1>2, <2>2, <2>3, <2>4, <2>5, <2>6, StepKinds
  <2> QED
    BY <2>1, <2>7 DEF TypeOK, Kinds
<1> QED
  BY <1>1, <1>2

\* Rows, queue and client keep the values the code gives them.
THEOREM TypeCorrect == Spec => [](TypeOK /\ TokensOK)
BY TypeInit, TypeStep, PTL DEF Spec

-----------------------------------------------------------------------------
(* What the client has been shown.                                         *)

\* Tokens wait in the order they were made, behind those already shown.
InOrder ==
  /\ \A i, j \in 1..Len(shown) : i < j => shown[i] < shown[j]
  /\ \A i \in 1..Len(shown), q \in 1..Len(queue) :
       queue[q].kind = "token" => shown[i] < queue[q].n
  /\ \A p, q \in 1..Len(queue) :
       p < q /\ queue[p].kind = "token" /\ queue[q].kind = "token" => queue[p].n < queue[q].n
  /\ \A i \in 1..Len(shown) : shown[i] \in 1..made

\* An end is the last item, and after it nothing is put.
EndLast ==
  /\ \A q \in 1..Len(queue) :
       queue[q].kind \in Ends => q = Len(queue) /\ stage \in {"linger", "over"}
  /\ stream \in Ends => Len(queue) = 0 /\ stage \in {"linger", "over"}

\* Unless the queue refused a token, those waiting continue where the client
\* is and lead to the last one made.
NoHoles ==
  "token" \notin dropped =>
    /\ made = Len(shown) \/ \E q \in 1..Len(queue) : queue[q].kind = "token" /\ queue[q].n = made
    /\ \A q \in 1..Len(queue) : queue[q].kind = "token" =>
         \/ queue[q].n = Len(shown) + 1
         \/ \E p \in 1..(q - 1) : queue[p].kind = "token" /\ queue[p].n = queue[q].n - 1

LEMMA OrderStep ==
  TypeOK /\ TokensOK /\ InOrder /\ [Next]_vars => InOrder'
<1> SUFFICES ASSUME TypeOK, TokensOK, InOrder, [Next]_vars PROVE InOrder'
  OBVIOUS
<1>0. made \in Nat /\ Len(queue) \in Nat /\ Len(shown) \in Nat /\ 0 \in 0..MaxTokens
  BY StreamAssumption, LenProperties DEF TypeOK
<1>1. CASE UNCHANGED vars
  BY <1>1 DEF InOrder, vars
<1>2. ASSUME Quiet PROVE InOrder'
  BY <1>2 DEF Quiet, InOrder
<1>3. ASSUME Leave PROVE InOrder'
  BY <1>3 DEF Leave, InOrder
<1>4. ASSUME Read PROVE InOrder'
  <2>0. \A p, q \in 1..Len(queue') :
          /\ queue'[p] = queue[p + 1] /\ queue'[q] = queue[q + 1]
          /\ p + 1 \in 1..Len(queue) /\ q + 1 \in 1..Len(queue)
          /\ p < q => p + 1 < q + 1
    BY <1>0, <1>4, ReadEffect
  <2>1. made' = made
    BY <1>4 DEF Read
  <2>2. CASE queue[1].kind = "token"
    <3>1. /\ Len(shown') = Len(shown) + 1
          /\ \A i \in 1..Len(shown) : shown'[i] = shown[i]
          /\ shown'[Len(shown')] = queue[1].n
      BY <1>4, <2>2, ReadShown
    <3>2. queue[1].n \in 1..made
      BY <1>4, <2>2, ReadEffect DEF TokensOK
    <3>3. \A i \in 1..Len(shown') : shown'[i] \in 1..made'
      BY <1>0, <2>1, <3>1, <3>2 DEF InOrder
    <3>4. \A i, j \in 1..Len(shown') : i < j => shown'[i] < shown'[j]
      <4>1. \A i \in 1..Len(shown) : shown[i] < queue[1].n
        BY <1>4, <2>2, ReadEffect DEF InOrder
      <4>2. \A i, j \in 1..Len(shown') :
              i < j => i \in 1..Len(shown) /\ (j \in 1..Len(shown) \/ j = Len(shown'))
        BY <1>0, <3>1
      <4> QED
        BY <3>1, <4>1, <4>2 DEF InOrder
    <3>5. \A i \in 1..Len(shown'), q \in 1..Len(queue') :
            queue'[q].kind = "token" => shown'[i] < queue'[q].n
      <4> SUFFICES ASSUME NEW i \in 1..Len(shown'), NEW q \in 1..Len(queue'),
                          queue'[q].kind = "token"
                   PROVE  shown'[i] < queue'[q].n
        OBVIOUS
      <4>1. q + 1 \in 1..Len(queue) /\ queue'[q] = queue[q + 1] /\ 1 \in 1..Len(queue)
        BY <1>4, ReadEffect
      <4>2. CASE i \in 1..Len(shown)
        BY <3>1, <4>1, <4>2 DEF InOrder
      <4>3. CASE i = Len(shown')
        BY <2>2, <3>1, <4>1, <4>3 DEF InOrder
      <4> QED
        BY <1>0, <3>1, <4>2, <4>3
    <3>6. \A p, q \in 1..Len(queue') :
            p < q /\ queue'[p].kind = "token" /\ queue'[q].kind = "token"
              => queue'[p].n < queue'[q].n
      BY <2>0 DEF InOrder
    <3> QED
      BY <3>3, <3>4, <3>5, <3>6 DEF InOrder
  <2>3. CASE queue[1].kind # "token"
    <3>1. shown' = shown
      BY <1>4, <2>3, ReadShown
    <3>2. \A i \in 1..Len(shown'), q \in 1..Len(queue') :
            queue'[q].kind = "token" => shown'[i] < queue'[q].n
      BY <2>0, <3>1, SMTT(60) DEF InOrder
    <3>3. \A p, q \in 1..Len(queue') :
            p < q /\ queue'[p].kind = "token" /\ queue'[q].kind = "token"
              => queue'[p].n < queue'[q].n
      BY <2>0 DEF InOrder
    <3>4. /\ \A i, j \in 1..Len(shown') : i < j => shown'[i] < shown'[j]
          /\ \A i \in 1..Len(shown') : shown'[i] \in 1..made'
      BY <2>1, <3>1 DEF InOrder
    <3> QED
      BY <3>2, <3>3, <3>4 DEF InOrder
  <2> QED
    BY <2>2, <2>3
<1>5. ASSUME Token PROVE InOrder'
  <2>1. Put("token", made + 1) /\ made' = made + 1 /\ shown' = shown
        /\ made + 1 \in 0..MaxTokens /\ "token" \in Kinds
    BY <1>0, <1>5, StreamAssumption DEF Token, Kinds, TypeOK
  <2>2. \A i \in 1..Len(shown) : shown[i] < made + 1
    BY <1>0 DEF InOrder
  <2>3. \A q \in 1..Len(queue) : queue[q].kind = "token" => queue[q].n < made + 1
    BY <1>0 DEF TokensOK
  <2>4. CASE queue' = queue
    BY <1>0, <2>1, <2>4 DEF InOrder
  <2>5. CASE /\ Len(queue') = Len(queue) + 1
             /\ \A i \in 1..Len(queue) : queue'[i] = queue[i]
             /\ queue'[Len(queue')].n = made + 1
    <3>1. \A q \in 1..Len(queue') : q \in 1..Len(queue) \/ q = Len(queue')
      BY <1>0, <2>5
    <3>2. \A p, q \in 1..Len(queue') : p < q => p \in 1..Len(queue)
      BY <1>0, <2>5
    <3>3. \A p, q \in 1..Len(queue') :
            p < q /\ queue'[p].kind = "token" /\ queue'[q].kind = "token"
              => queue'[p].n < queue'[q].n
      BY <2>3, <2>5, <3>1, <3>2 DEF InOrder
    <3>4. \A i \in 1..Len(shown), q \in 1..Len(queue') :
            queue'[q].kind = "token" => shown[i] < queue'[q].n
      BY <2>2, <2>5, <3>1 DEF InOrder
    <3> QED
      BY <1>0, <2>1, <3>3, <3>4 DEF InOrder
  <2> QED
    BY <2>1, <2>4, <2>5, PutEffect
<1>6. ASSUME NEW kind \in Kinds \ {"token"}, Put(kind, 0), UNCHANGED <<made, stream, shown>>
      PROVE  InOrder'
  <2>1. CASE queue' = queue
    BY <1>6, <2>1 DEF InOrder
  <2>2. CASE /\ Len(queue') = Len(queue) + 1
             /\ \A i \in 1..Len(queue) : queue'[i] = queue[i]
             /\ queue'[Len(queue')].kind = kind
    <3>1. \A q \in 1..Len(queue') : queue'[q].kind = "token" => q \in 1..Len(queue)
      BY <1>0, <1>6, <2>2
    <3> QED
      BY <1>6, <2>2, <3>1 DEF InOrder
  <2> QED
    BY <1>0, <1>6, <2>1, <2>2, PutEffect
<1> QED
  BY <1>1, <1>2, <1>3, <1>4, <1>5, <1>6, StepKinds

LEMMA EndLastStep ==
  TypeOK /\ EndLast /\ [Next]_vars => EndLast'
<1> SUFFICES ASSUME TypeOK, EndLast, [Next]_vars PROVE EndLast'
  OBVIOUS
<1>0. Len(queue) \in Nat /\ 0 \in 0..MaxTokens /\ made \in 0..MaxTokens
  BY StreamAssumption, LenProperties DEF TypeOK
<1>1. CASE UNCHANGED vars
  BY <1>1 DEF EndLast, vars
<1>2. ASSUME UNCHANGED <<queue, stream>>, stage \in {"linger", "over"} => stage' \in {"linger", "over"}
      PROVE  EndLast'
  BY <1>2 DEF EndLast
<1>3. ASSUME NEW kind \in Kinds, NEW n \in 0..MaxTokens, Put(kind, n), stream' = stream,
             stage \notin {"linger", "over"},
             kind \in Ends => stage' \in {"linger", "over"}
      PROVE  EndLast'
  <2>1. \A q \in 1..Len(queue) : queue[q].kind \notin Ends
    BY <1>3 DEF EndLast
  <2>2. stream' \notin Ends
    BY <1>3 DEF EndLast
  <2>3. \A q \in 1..Len(queue') : queue'[q].kind \in Ends =>
          q = Len(queue') /\ stage' \in {"linger", "over"}
    <3>1. CASE queue' = queue
      BY <2>1, <3>1
    <3>2. CASE /\ Len(queue') = Len(queue) + 1
               /\ \A i \in 1..Len(queue) : queue'[i] = queue[i]
               /\ queue'[Len(queue')].kind = kind
      <4>1. \A q \in 1..Len(queue') : q \in 1..Len(queue) \/ q = Len(queue')
        BY <1>0, <3>2
      <4> QED
        BY <1>3, <2>1, <3>2, <4>1
    <3> QED
      BY <1>3, <3>1, <3>2, PutEffect
  <2> QED
    BY <2>2, <2>3 DEF EndLast
<1>4. ASSUME Read PROVE EndLast'
  <2>1. stage' = stage
    BY <1>4 DEF Read
  <2>2. \A q \in 1..Len(queue') : queue'[q].kind \in Ends =>
          q = Len(queue') /\ stage' \in {"linger", "over"}
    BY <1>0, <1>4, <2>1, ReadEffect DEF EndLast
  <2>3. ASSUME stream' \in Ends
        PROVE  Len(queue') = 0 /\ stage' \in {"linger", "over"}
    <3>1. queue[1].kind \in Ends
      BY <1>4, <2>3, ReadShown DEF Ends
    <3> QED
      BY <1>0, <1>4, <2>1, <3>1, ReadEffect DEF EndLast
  <2> QED
    BY <2>2, <2>3 DEF EndLast
<1>5. ASSUME Leave PROVE EndLast'
  BY <1>5 DEF Leave, EndLast, Ends
<1>6. ASSUME Token PROVE EndLast'
  BY <1>0, <1>3, <1>6, StreamAssumption DEF Token, Kinds, Ends
<1>7. ASSUME Progress PROVE EndLast'
  BY <1>0, <1>3, <1>7 DEF Progress, Kinds, Ends
<1>8. ASSUME Fail \/ Ask \/ Ingested PROVE EndLast'
  BY <1>0, <1>3, <1>8 DEF Fail, Ask, Ingested, Kinds, Ends
<1>9. ASSUME Cancel PROVE EndLast'
  BY <1>0, <1>2, <1>3, <1>9 DEF Cancel, Kinds, Ends
<1>10. ASSUME Begin \/ Finish \/ Linger \/ DeleteRow PROVE EndLast'
  BY <1>2, <1>10 DEF Begin, Finish, Linger, DeleteRow
<1> QED
  BY <1>1, <1>4, <1>5, <1>6, <1>7, <1>8, <1>9, <1>10 DEF Next, Work

LEMMA NoHolesStep ==
  TypeOK /\ TokensOK /\ InOrder /\ NoHoles /\ [Next]_vars => NoHoles'
<1> SUFFICES ASSUME TypeOK, TokensOK, InOrder, NoHoles, [Next]_vars, "token" \notin dropped'
             PROVE  /\ \/ made' = Len(shown')
                       \/ \E q \in 1..Len(queue') : queue'[q].kind = "token" /\ queue'[q].n = made'
                    /\ \A q \in 1..Len(queue') : queue'[q].kind = "token" =>
                         \/ queue'[q].n = Len(shown') + 1
                         \/ \E p \in 1..(q - 1) :
                              queue'[p].kind = "token" /\ queue'[p].n = queue'[q].n - 1
  BY DEF NoHoles
<1> DEFINE Lead == \/ made' = Len(shown')
                   \/ \E q \in 1..Len(queue') : queue'[q].kind = "token" /\ queue'[q].n = made'
           Chain == \A q \in 1..Len(queue') : queue'[q].kind = "token" =>
                      \/ queue'[q].n = Len(shown') + 1
                      \/ \E p \in 1..(q - 1) :
                           queue'[p].kind = "token" /\ queue'[p].n = queue'[q].n - 1
<1>0. made \in Nat /\ Len(queue) \in Nat /\ Len(shown) \in Nat /\ 0 \in 0..MaxTokens
  BY StreamAssumption, LenProperties DEF TypeOK
<1>a. ASSUME "token" \notin dropped
      PROVE  /\ made = Len(shown) \/ \E q \in 1..Len(queue) : queue[q].kind = "token" /\ queue[q].n = made
             /\ \A q \in 1..Len(queue) : queue[q].kind = "token" =>
                  \/ queue[q].n = Len(shown) + 1
                  \/ \E p \in 1..(q - 1) : queue[p].kind = "token" /\ queue[p].n = queue[q].n - 1
  BY <1>a DEF NoHoles
<1>1. CASE UNCHANGED vars
  BY <1>1, <1>a DEF vars
<1>2. ASSUME Quiet \/ Leave PROVE Lead /\ Chain
  BY <1>2, <1>a DEF Quiet, Leave
<1>4. ASSUME Read PROVE Lead /\ Chain
  <2>1. made' = made /\ "token" \notin dropped
    BY <1>4 DEF Read
  <2>2. /\ 1 \in 1..Len(queue) /\ Len(queue') = Len(queue) - 1
        /\ \A q \in 1..Len(queue') : q + 1 \in 1..Len(queue) /\ queue'[q] = queue[q + 1]
        /\ \A q \in 1..Len(queue) : q # 1 => q - 1 \in 1..Len(queue') /\ queue'[q - 1] = queue[q]
    <3>1. /\ 1 \in 1..Len(queue) /\ Len(queue') = Len(queue) - 1
          /\ \A q \in 1..Len(queue') : q + 1 \in 1..Len(queue) /\ queue'[q] = queue[q + 1]
      BY <1>4, ReadEffect
    <3>2. ASSUME NEW q \in 1..Len(queue), q # 1
          PROVE  q - 1 \in 1..Len(queue') /\ queue'[q - 1] = queue[q]
      <4>1. q - 1 \in 1..Len(queue') /\ (q - 1) + 1 = q
        BY <1>0, <3>1, <3>2
      <4> QED
        BY <3>1, <4>1
    <3> QED
      BY <3>1, <3>2
  <2>3. CASE queue[1].kind = "token"
    <3>1. Len(shown') = Len(shown) + 1
      BY <1>4, <2>3, ReadShown
    <3>2. queue[1].n = Len(shown) + 1
      BY <1>0, <1>a, <2>1, <2>2, <2>3
    <3>3. Lead
      <4>1. CASE made = Len(shown)
        <5>1. queue[1].n <= made
          BY <1>0, <2>2, <2>3 DEF TokensOK
        <5> QED
          BY <1>0, <3>2, <4>1, <5>1
      <4>2. ASSUME NEW q \in 1..Len(queue), queue[q].kind = "token", queue[q].n = made
            PROVE  Lead
        <5>1. CASE q = 1
          BY <2>1, <3>1, <3>2, <4>2, <5>1
        <5>2. CASE q # 1
          BY <2>1, <2>2, <4>2, <5>2
        <5> QED
          BY <5>1, <5>2
      <4> QED
        BY <1>a, <2>1, <4>1, <4>2
    <3>4. Chain
      <4> SUFFICES ASSUME NEW q \in 1..Len(queue'), queue'[q].kind = "token"
                   PROVE  \/ queue'[q].n = Len(shown') + 1
                          \/ \E p \in 1..(q - 1) :
                               queue'[p].kind = "token" /\ queue'[p].n = queue'[q].n - 1
        OBVIOUS
      <4>1. /\ q + 1 \in 1..Len(queue) /\ queue'[q] = queue[q + 1]
            /\ queue[1].n < queue[q + 1].n
        BY <1>0, <2>2, <2>3 DEF InOrder
      <4>2. queue[q + 1].n # Len(shown) + 1
        BY <1>0, <3>2, <4>1
      <4>3. PICK p \in 1..q : queue[p].kind = "token" /\ queue[p].n = queue[q + 1].n - 1
        BY <1>0, <1>a, <2>1, <4>1, <4>2
      <4>4. CASE p = 1
        <5>1. queue[q + 1].n \in Nat
          BY <1>0, <4>1 DEF TokensOK
        <5> QED
          BY <1>0, <3>1, <3>2, <4>1, <4>3, <4>4, <5>1
      <4>5. CASE p # 1
        <5>1. p \in 1..Len(queue) /\ p - 1 \in 1..(q - 1)
          BY <1>0, <4>1, <4>5
        <5> QED
          BY <2>2, <4>1, <4>3, <4>5, <5>1
      <4> QED
        BY <4>4, <4>5
    <3> QED
      BY <3>3, <3>4
  <2>4. CASE queue[1].kind # "token"
    <3>1. shown' = shown
      BY <1>4, <2>4, ReadShown
    <3>2. Lead
      BY <1>a, <2>1, <2>2, <2>4, <3>1
    <3>3. Chain
      <4> SUFFICES ASSUME NEW q \in 1..Len(queue'), queue'[q].kind = "token",
                          queue'[q].n # Len(shown') + 1
                   PROVE  \E p \in 1..(q - 1) :
                            queue'[p].kind = "token" /\ queue'[p].n = queue'[q].n - 1
        OBVIOUS
      <4>1. q + 1 \in 1..Len(queue) /\ queue'[q] = queue[q + 1]
        BY <2>2
      <4>2. PICK p \in 1..q : queue[p].kind = "token" /\ queue[p].n = queue[q + 1].n - 1
        BY <1>0, <1>a, <2>1, <3>1, <4>1
      <4>3. p \in 1..Len(queue) /\ p - 1 \in 1..(q - 1)
        BY <1>0, <2>4, <4>1, <4>2
      <4> QED
        BY <2>2, <2>4, <4>1, <4>2, <4>3
    <3> QED
      BY <3>2, <3>3
  <2> QED
    BY <2>3, <2>4
<1>5. ASSUME Token PROVE Lead /\ Chain
  <2>1. Put("token", made + 1) /\ made' = made + 1 /\ shown' = shown
        /\ made + 1 \in 0..MaxTokens /\ "token" \in Kinds
    BY <1>0, <1>5, StreamAssumption DEF Token, Kinds, TypeOK
  <2>2. /\ dropped' = dropped
        /\ Len(queue') = Len(queue) + 1
        /\ \A i \in 1..Len(queue) : queue'[i] = queue[i]
        /\ queue'[Len(queue')].kind = "token" /\ queue'[Len(queue')].n = made + 1
    BY <2>1, PutEffect
  <2>3. "token" \notin dropped
    BY <2>2
  <2>4. Lead
    BY <1>0, <2>1, <2>2
  <2>5. Chain
    <3> SUFFICES ASSUME NEW q \in 1..Len(queue'), queue'[q].kind = "token"
                 PROVE  \/ queue'[q].n = Len(shown') + 1
                        \/ \E p \in 1..(q - 1) :
                             queue'[p].kind = "token" /\ queue'[p].n = queue'[q].n - 1
      OBVIOUS
    <3>1. CASE q \in 1..Len(queue)
      <4>1. \A p \in 1..(q - 1) : p \in 1..Len(queue)
        BY <1>0, <3>1
      <4> QED
        BY <1>a, <2>1, <2>2, <2>3, <3>1, <4>1
    <3>2. CASE q = Len(queue')
      <4>1. queue'[q].n = made + 1 /\ q - 1 = Len(queue)
        BY <1>0, <2>2, <3>2
      <4>2. CASE made = Len(shown)
        BY <2>1, <4>1, <4>2
      <4>3. CASE \E p \in 1..Len(queue) : queue[p].kind = "token" /\ queue[p].n = made
        BY <1>0, <2>2, <4>1, <4>3
      <4> QED
        BY <1>a, <2>3, <4>2, <4>3
    <3> QED
      BY <1>0, <2>2, <3>1, <3>2
  <2> QED
    BY <2>4, <2>5
<1>6. ASSUME NEW kind \in Kinds \ {"token"}, Put(kind, 0), UNCHANGED <<made, stream, shown>>
      PROVE  Lead /\ Chain
  <2>1. "token" \notin dropped
    BY <1>0, <1>6, PutEffect
  <2>2. CASE queue' = queue
    BY <1>6, <1>a, <2>1, <2>2
  <2>3. CASE /\ Len(queue') = Len(queue) + 1
             /\ \A i \in 1..Len(queue) : queue'[i] = queue[i]
             /\ queue'[Len(queue')].kind = kind
    <3>1. \A q \in 1..Len(queue') : queue'[q].kind = "token" => q \in 1..Len(queue)
      BY <1>0, <1>6, <2>3
    <3>2. \A q \in 1..Len(queue) : q \in 1..Len(queue') /\ \A p \in 1..(q - 1) : p \in 1..Len(queue)
      BY <1>0, <2>3
    <3>3. Lead
      BY <1>6, <1>a, <2>1, <2>3, <3>2
    <3>4. Chain
      BY <1>6, <1>a, <2>1, <2>3, <3>1, <3>2
    <3> QED
      BY <3>3, <3>4
  <2> QED
    BY <1>0, <1>6, <2>2, <2>3, PutEffect
<1> QED
  BY <1>1, <1>2, <1>4, <1>5, <1>6, StepKinds

\* The client gets the tokens in order and, by the end `done', all of them
\* unless the full queue refused some.
THEOREM AnswerIsShown == Spec => []AnswerShown
<1> DEFINE IInv == InOrder /\ EndLast /\ NoHoles
<1>1. Init => IInv
  <2> SUFFICES ASSUME Init PROVE IInv
    OBVIOUS
  <2>1. Len(queue) = 0 /\ Len(shown) = 0
    BY EmptySeq DEF Init
  <2> QED
    BY <2>1 DEF Init, InOrder, EndLast, NoHoles, Ends
<1>2. TypeOK /\ TokensOK /\ IInv /\ [Next]_vars => IInv'
  BY OrderStep, EndLastStep, NoHolesStep
<1>3. IInv => AnswerShown
  <2>1. InOrder => \A i, j \in 1..Len(shown) : i < j => shown[i] < shown[j]
    BY DEF InOrder
  <2>2. EndLast /\ stream = "done" => 1..Len(queue) = {}
    BY DEF EndLast, Ends
  <2>3. NoHoles /\ "token" \notin dropped /\ 1..Len(queue) = {} => made = Len(shown)
    BY DEF NoHoles
  <2> QED
    BY <2>1, <2>2, <2>3 DEF AnswerShown
<1> QED
  BY <1>1, <1>2, <1>3, TypeCorrect, PTL DEF Spec

-----------------------------------------------------------------------------
(* The row agrees with the end.                                            *)

\* The statuses of the message that agree with an end.
RowsFor(kind) ==
  {"gone"} \cup CASE kind = "done" -> {"complete"}
                  [] kind = "error" -> {"failed"}
                  [] kind = "approval" -> {"approval_required"}

\* The row is settled before the end is put, and only deleted afterwards.
Settled ==
  "write" \notin mishaps =>
    /\ stage \in {"ingest", "linger"} => msg \in RowsFor("done")
    /\ \A q \in 1..Len(queue) : queue[q].kind \in Ends => msg \in RowsFor(queue[q].kind)
    /\ stream \in Ends => msg \in RowsFor(stream)

\* A failed write is not forgotten.
LEMMA MishapsStay == [Next]_vars => mishaps \subseteq mishaps'
BY DEF Next, Work, Begin, Token, Progress, Fail, Ask, Finish, Ingested, Linger,
       Cancel, DeleteRow, Read, Leave, Write, vars

LEMMA SettledStep == TypeOK /\ EndLast /\ Settled /\ [Next]_vars => Settled'
<1> SUFFICES ASSUME TypeOK, EndLast, Settled, [Next]_vars, "write" \notin mishaps'
             PROVE  Settled'
  BY DEF Settled
<1>c. "write" \notin mishaps
  BY MishapsStay
<1>0. Len(queue) \in Nat /\ 0 \in 0..MaxTokens
  BY StreamAssumption, LenProperties DEF TypeOK
<1>a. ASSUME NEW status, Write(status) PROVE msg' \in {"gone", status}
  BY <1>a DEF Write
<1>b. \A kind : "gone" \in RowsFor(kind)
  BY DEF RowsFor
<1>1. CASE UNCHANGED vars
  BY <1>c, <1>1 DEF Settled, vars
\* Before an end is put, the row may still be anything.
<1>2. ASSUME UNCHANGED <<queue, stream>>, stage \notin {"linger", "over"},
             stage' \in {"ingest", "linger"} => msg' \in RowsFor("done")
      PROVE  Settled'
  BY <1>c, <1>2 DEF Settled, EndLast
<1>3. ASSUME NEW kind \in Kinds, NEW n \in 0..MaxTokens, Put(kind, n), stream' = stream,
             stage \notin {"linger", "over"},
             kind \in Ends => msg' \in RowsFor(kind),
             stage' \in {"ingest", "linger"} => msg' \in RowsFor("done")
      PROVE  Settled'
  <2>1. stream' \notin Ends /\ \A q \in 1..Len(queue) : queue[q].kind \notin Ends
    BY <1>3 DEF EndLast
  <2>2. \A q \in 1..Len(queue') : queue'[q].kind \in Ends => msg' \in RowsFor(queue'[q].kind)
    <3>1. CASE queue' = queue
      BY <2>1, <3>1
    <3>2. CASE /\ Len(queue') = Len(queue) + 1
               /\ \A i \in 1..Len(queue) : queue'[i] = queue[i]
               /\ queue'[Len(queue')].kind = kind
      <4>1. \A q \in 1..Len(queue') : q \in 1..Len(queue) \/ q = Len(queue')
        BY <1>0, <3>2
      <4> QED
        BY <1>3, <2>1, <3>2, <4>1
    <3> QED
      BY <1>3, <3>1, <3>2, PutEffect
  <2> QED
    BY <1>c, <1>3, <2>1, <2>2 DEF Settled
<1>4. ASSUME Read PROVE Settled'
  <2>1. msg' = msg /\ stage' = stage
    BY <1>4 DEF Read
  <2>2. \A q \in 1..Len(queue') : queue'[q].kind \in Ends => msg' \in RowsFor(queue'[q].kind)
    BY <1>c, <1>4, <2>1, ReadEffect DEF Settled
  <2>3. stream' \in Ends => msg' \in RowsFor(stream')
    BY <1>c, <1>4, <2>1, ReadEffect, ReadShown DEF Settled, Ends
  <2> QED
    BY <1>c, <2>1, <2>2, <2>3 DEF Settled
<1>5. ASSUME Leave PROVE Settled'
  BY <1>c, <1>5 DEF Leave, Settled, Ends
<1>6. ASSUME DeleteRow PROVE Settled'
  BY <1>c, <1>6, <1>b DEF DeleteRow, Settled
<1>7. ASSUME Linger PROVE Settled'
  BY <1>c, <1>7 DEF Linger, Settled
<1>8. ASSUME Token PROVE Settled'
  <2>1. Put("token", made + 1) /\ stream' = stream /\ stage = "agent" /\ stage' = stage
        /\ made + 1 \in 0..MaxTokens /\ "token" \in Kinds /\ "token" \notin Ends
    BY <1>8, StreamAssumption DEF Token, Kinds, Ends, TypeOK
  <2> QED
    BY <1>3, <2>1
<1>9. ASSUME Progress PROVE Settled'
  BY <1>0, <1>3, <1>9 DEF Progress, Kinds, Ends
<1>10. ASSUME Fail PROVE Settled'
  <2>1. msg' \in RowsFor("error")
    BY <1>10, <1>a DEF Fail, RowsFor
  <2> QED
    BY <1>0, <1>3, <1>10, <2>1 DEF Fail, Kinds, Ends
<1>11. ASSUME Ask PROVE Settled'
  <2>1. msg' \in RowsFor("approval") /\ Put("approval", 0)
    BY <1>11, <1>a DEF Ask, RowsFor
  <2> QED
    BY <1>0, <1>3, <1>11, <2>1 DEF Ask, Kinds, Ends
<1>12. ASSUME Finish PROVE Settled'
  <2>1. msg' \in RowsFor("done")
    BY <1>12, <1>a DEF Finish, RowsFor
  <2> QED
    BY <1>2, <1>12, <2>1 DEF Finish
<1>13. ASSUME Ingested PROVE Settled'
  <2>1. msg' = msg /\ msg \in RowsFor("done")
    BY <1>c, <1>13 DEF Ingested, Settled
  <2> QED
    BY <1>0, <1>3, <1>13, <2>1 DEF Ingested, Kinds, Ends
<1>14. ASSUME Cancel PROVE Settled'
  <2>1. CASE stage = "agent"
    <3>1. Write("failed") /\ Put("error", 0) /\ stream' = stream /\ stage' = "over"
      BY <1>14, <2>1 DEF Cancel
    <3>2. msg' \in RowsFor("error")
      BY <1>a, <3>1 DEF RowsFor
    <3> QED
      BY <1>0, <1>3, <2>1, <3>1, <3>2 DEF Kinds, Ends
  <2>2. CASE stage # "agent"
    BY <1>c, <1>14, <2>2 DEF Cancel, Settled
  <2> QED
    BY <2>1, <2>2
<1>15. ASSUME Begin PROVE Settled'
  BY <1>2, <1>15 DEF Begin
<1> QED
  BY <1>1, <1>4, <1>5, <1>6, <1>7, <1>8, <1>9, <1>10, <1>11, <1>12, <1>13, <1>14, <1>15
     DEF Next, Work

\* As long as no write failed, the end that the client reads is the end that is stored,
\* whatever is cancelled or deleted.
THEOREM EndIsStored == Spec => []EndMatchesRow
<1>1. Init => EndLast /\ Settled
  <2> SUFFICES ASSUME Init PROVE EndLast /\ Settled
    OBVIOUS
  <2>1. Len(queue) = 0
    BY EmptySeq DEF Init
  <2> QED
    BY <2>1 DEF Init, EndLast, Settled, Ends
<1>2. TypeOK /\ EndLast /\ Settled /\ [Next]_vars => EndLast' /\ Settled'
  BY EndLastStep, SettledStep
<1>3. Settled => EndMatchesRow
  BY DEF Settled, EndMatchesRow, RowsFor, Ends
<1> QED
  BY <1>1, <1>2, <1>3, TypeCorrect, PTL DEF Spec

=============================================================================
