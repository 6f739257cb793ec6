---------------------------- MODULE MemoryProofs ----------------------------
(***************************************************************************)
(* Theorems about Memory for every set of facts, hosts, turns and threads  *)
(* and every limit: type correctness, and what maintenance may forget.     *)
(* The invariant behind them says what a row's key tells about the row     *)
(* (Keyed), that no row is from the future, and that maintenance has the   *)
(* table for itself.                                                       *)
(***************************************************************************)
EXTENDS Memory, FiniteSetTheorems, SequenceTheorems, TLAPS

-----------------------------------------------------------------------------
(* The invariant.                                                          *)

\* What the kind of a key tells about a row or record r under it.
Keyed(k, r) ==
  /\ r.facts = k.facts
  /\ k.kind = "explicit" => r.important /\ r.category \in {"preference", "general"}
  /\ k.kind = "preference" => r.category = "preference"
  /\ k.kind \in {"system", "summary"} => r.category = k.kind /\ ~r.important

Table ==
  {R \in UNION {[S -> Row] : S \in SUBSET Key} :
     \A k \in DOMAIN R : Keyed(k, R[k]) /\ R[k].updated <= clock}

TurnRecord == {r \in Record : Keyed(r.key, r)}

Thread ==
  {Idle}
    \cup [at : {"lookup"}, todo : Seq(TurnRecord) \ {<<>>}]
    \cup [at : {"save"}, todo : Seq(TurnRecord) \ {<<>>}, seen : {Never} \cup Nat]
    \cup [at : {"recalled"}, seen : UNION {[S -> Nat] : S \in SUBSET DOMAIN rows}]

Inv ==
  /\ rows \in Table
  /\ marker \in Nat \cup {Never}
  /\ clock \in Nat
  /\ phase \in {"down", "marking", "serving"}
  /\ work \in [Workers -> Thread]
  /\ phase # "serving" => \A w \in Workers : work[w] = Idle

LEMMA InvTyped == Inv => TypeOK
<1> SUFFICES ASSUME Inv PROVE TypeOK
  OBVIOUS
<1>1. DOMAIN rows \subseteq Key /\ \A k \in DOMAIN rows : rows[k] \in Row
  BY DEF Inv, Table
<1>2. ASSUME NEW w \in Workers
      PROVE  \/ work[w] = Idle
             \/ /\ work[w].at \in {"lookup", "save"}
                /\ work[w].todo # <<>>
                /\ \A i \in DOMAIN work[w].todo : work[w].todo[i] \in Record
                /\ work[w].at = "save" => work[w].seen \in {Never} \cup Nat
             \/ /\ work[w].at = "recalled"
                /\ DOMAIN work[w].seen \subseteq DOMAIN rows
                /\ \A k \in DOMAIN work[w].seen : work[w].seen[k] \in Nat
  <2>1. work[w] \in Thread
    BY DEF Inv
  <2>2. \A s \in Seq(TurnRecord) : \A i \in DOMAIN s : s[i] \in Record
    <3> TAKE s \in Seq(TurnRecord)
    <3>1. s \in [1..Len(s) -> TurnRecord] /\ DOMAIN s = 1..Len(s)
      BY LenProperties
    <3>2. QED BY <3>1 DEF TurnRecord
  <2>3. QED BY <2>1, <2>2 DEF Thread
<1>3. QED BY <1>1, <1>2 DEF Inv, TypeOK

LEMMA InvInit == Init => Inv
<1> SUFFICES ASSUME Init PROVE Inv
  OBVIOUS
<1>1. rows \in Table
  BY DEF Init, Table
<1>2. work \in [Workers -> Thread]
  BY DEF Init, Thread
<1>3. QED BY <1>1, <1>2 DEF Init, Inv

-----------------------------------------------------------------------------
(* What a turn leaves.                                                     *)

\* SetToSeq lists a finite set.
LEMMA SetToSeqLists ==
  ASSUME NEW S, IsFiniteSet(S)
  PROVE  SetToSeq(S) \in Seq(S)
<1>1. Cardinality(S) \in Nat /\ ExistsBijection(1..Cardinality(S), S)
  BY FS_CardinalityType
<1>2. \E f \in [1..Cardinality(S) -> S] : IsInjective(f)
  BY <1>1 DEF ExistsBijection, Bijection, Injection
<1>3. SetToSeq(S) \in [1..Cardinality(S) -> S]
  BY <1>2 DEF SetToSeq
<1>4. QED BY <1>1, <1>3, SeqDef

LEMMA ListedRecords ==
  ASSUME NEW S, S \subseteq TurnRecord, IsFiniteSet(S)
  PROVE  SetToSeq(S) \in Seq(TurnRecord)
BY SetToSeqLists, SeqMonotonic

\* The records of a set of facts are finitely many.
LEMMA FinitelyMany ==
  ASSUME NEW S \in SUBSET Facts, NEW f, f = [x \in S |-> f[x]]
  PROVE  IsFiniteSet({f[x] : x \in S})
<1>1. IsFiniteSet(S)
  BY FS_Subset, MemoryAssumption
<1>2. f \in Surjection(S, {f[x] : x \in S})
  BY DEF Surjection
<1>3. QED BY <1>1, <1>2, FS_Surjection

LEMMA ExtractType ==
  ASSUME NEW t \in Turns
  PROVE  ExtractLocalMemories(t) \in Seq(TurnRecord)
<1>0. t \in TurnType /\ t.asked \subseteq Facts /\ t.preferred \subseteq Facts
      /\ t.result \subseteq Facts /\ t.host \in Hosts \cup {NoHost}
  BY MemoryAssumption DEF TurnType
<1> USE DEF TurnRecord, Record, Key, Category, Keyed
<1>1. SetToSeq({Explicit(f, t.host) : f \in t.asked}) \in Seq(TurnRecord)
  <2> DEFINE e == [f \in t.asked |-> Explicit(f, t.host)]
             S == {Explicit(f, t.host) : f \in t.asked}
  <2>1. S = {e[f] : f \in t.asked}
    OBVIOUS
  <2>2. IsFiniteSet(S)
    <3>1. e = [x \in t.asked |-> e[x]]
      OBVIOUS
    <3> HIDE DEF e, S
    <3>2. QED BY <1>0, <2>1, <3>1, FinitelyMany
  <2>3. S \subseteq TurnRecord
    <3> SUFFICES ASSUME NEW f \in t.asked PROVE Explicit(f, t.host) \in TurnRecord
      OBVIOUS
    <3>1. {f} \subseteq Facts
      BY <1>0
    <3>2. QED BY <1>0, <3>1 DEF Explicit
  <2> HIDE DEF S
  <2>4. SetToSeq(S) \in Seq(TurnRecord)
    BY <2>2, <2>3, ListedRecords
  <2>5. QED BY <2>4 DEF S
<1>2. SetToSeq({Preference(f, t.host) : f \in t.preferred}) \in Seq(TurnRecord)
  <2> DEFINE e == [f \in t.preferred |-> Preference(f, t.host)]
             S == {Preference(f, t.host) : f \in t.preferred}
  <2>1. S = {e[f] : f \in t.preferred}
    OBVIOUS
  <2>2. IsFiniteSet(S)
    <3>1. e = [x \in t.preferred |-> e[x]]
      OBVIOUS
    <3> HIDE DEF e, S
    <3>2. QED BY <1>0, <2>1, <3>1, FinitelyMany
  <2>3. S \subseteq TurnRecord
    <3> SUFFICES ASSUME NEW f \in t.preferred PROVE Preference(f, t.host) \in TurnRecord
      OBVIOUS
    <3>1. {f} \subseteq Facts
      BY <1>0
    <3>2. QED BY <1>0, <3>1 DEF Preference
  <2> HIDE DEF S
  <2>4. SetToSeq(S) \in Seq(TurnRecord)
    BY <2>2, <2>3, ListedRecords
  <2>5. QED BY <2>4 DEF S
<1>3. SetToSeq({Observation(f, t.host) : f \in t.result}) \in Seq(TurnRecord)
  <2> DEFINE e == [f \in t.result |-> Observation(f, t.host)]
             S == {Observation(f, t.host) : f \in t.result}
  <2>1. S = {e[f] : f \in t.result}
    OBVIOUS
  <2>2. IsFiniteSet(S)
    <3>1. e = [x \in t.result |-> e[x]]
      OBVIOUS
    <3> HIDE DEF e, S
    <3>2. QED BY <1>0, <2>1, <3>1, FinitelyMany
  <2>3. S \subseteq TurnRecord
    <3> SUFFICES ASSUME NEW f \in t.result PROVE Observation(f, t.host) \in TurnRecord
      OBVIOUS
    <3>1. {f} \subseteq Facts
      BY <1>0
    <3>2. QED BY <1>0, <3>1 DEF Observation
  <2> HIDE DEF S
  <2>4. SetToSeq(S) \in Seq(TurnRecord)
    BY <2>2, <2>3, ListedRecords
  <2>5. QED BY <2>4 DEF S
<1>4. <<>> \in Seq(TurnRecord)
  BY EmptySeq
<1> HIDE DEF TurnRecord
<1>5. SetToSeq({Explicit(f, t.host) : f \in t.asked})
        \o SetToSeq({Preference(f, t.host) : f \in t.preferred}) \in Seq(TurnRecord)
  BY <1>1, <1>2, ConcatProperties
<1>6. (IF t.host = NoHost THEN <<>>
       ELSE SetToSeq({Observation(f, t.host) : f \in t.result})) \in Seq(TurnRecord)
  BY <1>3, <1>4
<1>7. QED BY <1>5, <1>6, ConcatProperties DEF ExtractLocalMemories

-----------------------------------------------------------------------------
(* What maintenance leaves is a table again.                               *)

LEMMA SubTable ==
  ASSUME NEW R \in Table, NEW S \in SUBSET DOMAIN R
  PROVE  [k \in S |-> R[k]] \in Table
<1>1. DOMAIN R \subseteq Key /\ \A k \in DOMAIN R : R[k] \in Row
  BY DEF Table
<1>2. [k \in S |-> R[k]] \in [S -> Row] /\ S \in SUBSET Key
  BY <1>1
<1>3. \A k \in S : Keyed(k, R[k]) /\ R[k].updated <= clock
  BY DEF Table
<1>4. QED BY <1>2, <1>3 DEF Table

LEMMA MergedTable ==
  ASSUME NEW R \in Table, NEW M \in Merged(R)
  PROVE  M \in Table
<1>1. PICK S \in SUBSET DOMAIN R : M = [k \in S |-> R[k]]
  BY DEF Merged
<1>2. QED BY <1>1, SubTable

LEMMA TrimmedTable ==
  ASSUME NEW R \in Table, NEW T \in Trimmed(R)
  PROVE  T \in Table
<1>1. CASE T = R
  BY <1>1
<1>2. CASE \E S \in SUBSET DOMAIN R : T = [k \in S |-> R[k]]
  BY <1>2, SubTable
<1>3. QED BY <1>1, <1>2 DEF Trimmed

\* The rows of a group are compactable rows of one host.
LEMMA GroupRows ==
  ASSUME NEW R, NEW g \in Groups(R)
  PROVE  /\ g \subseteq DOMAIN R /\ g # {}
         /\ \A k \in g : Compactable(R[k])
         /\ \A k, q \in g : R[k].host = R[q].host
<1> DEFINE candidates == {k \in DOMAIN R : Compactable(R[k])}
           like(k) == {q \in candidates : R[q].category = R[k].category /\ R[q].host = R[k].host}
<1>1. PICK k \in candidates : g = like(k)
  BY DEF Groups
<1>2. k \in g
  BY <1>1
<1>3. QED BY <1>1, <1>2

\* The table after compaction: what is in no group is there, and a group has
\* left the summary of its text.
SummaryKey(R, text, g) ==
  [kind |-> "summary", facts |-> text[g], host |-> R[CHOOSE k \in g : TRUE].host]

Summaries(R, text) == {SummaryKey(R, text, g) : g \in Groups(R)}

OldCount(R, k) == IF k \in DOMAIN R THEN R[k].count ELSE 0

CompactedBy(R, text) ==
  [k \in (DOMAIN R \ UNION Groups(R)) \cup Summaries(R, text) |->
     IF k \in Summaries(R, text) THEN Summary(k.facts, k.host, OldCount(R, k)) ELSE R[k]]

LEMMA CompactedRows ==
  ASSUME NEW R, NEW C \in Compacted(R)
  PROVE  \E text \in [Groups(R) -> SUBSET Facts] :
           (\A g \in Groups(R) : text[g] \in Texts(R, g)) /\ C = CompactedBy(R, text)
BY Zenon DEF Compacted, SummaryKey, Summaries, OldCount, CompactedBy

LEMMA SummaryRow ==
  ASSUME clock \in Nat, NEW k \in Key, k.kind = "summary", NEW n \in Nat
  PROVE  /\ Summary(k.facts, k.host, n) \in Row
         /\ Keyed(k, Summary(k.facts, k.host, n))
         /\ Summary(k.facts, k.host, n).updated <= clock
BY DEF Summary, Row, Key, Category, Keyed

LEMMA CompactedTable ==
  ASSUME clock \in Nat, NEW R \in Table, NEW C \in Compacted(R)
  PROVE  C \in Table
<1>1. PICK text \in [Groups(R) -> SUBSET Facts] : C = CompactedBy(R, text)
  BY CompactedRows
<1> DEFINE summaries == Summaries(R, text)
           count(k) == OldCount(R, k)
<1>2. DOMAIN R \subseteq Key /\ \A k \in DOMAIN R : R[k] \in Row /\ Keyed(k, R[k]) /\ R[k].updated <= clock
  BY DEF Table
<1>3. \A s \in summaries : s \in Key /\ s.kind = "summary"
  <2> SUFFICES ASSUME NEW g \in Groups(R)
               PROVE  /\ SummaryKey(R, text, g) \in Key
                      /\ SummaryKey(R, text, g).kind = "summary"
    BY DEF Summaries
  <2>1. g \subseteq DOMAIN R /\ g # {}
    BY GroupRows
  <2>2. R[CHOOSE k \in g : TRUE] \in Row
    BY <1>2, <2>1
  <2>3. R[CHOOSE k \in g : TRUE].host \in Hosts \cup {NoHost}
    BY <2>2 DEF Row
  <2>4. QED BY <2>3 DEF SummaryKey, Key
<1>4. \A k : count(k) \in Nat
  BY <1>2 DEF Row, OldCount
<1>5. \A k \in summaries : /\ Summary(k.facts, k.host, count(k)) \in Row
                           /\ Keyed(k, Summary(k.facts, k.host, count(k)))
                           /\ Summary(k.facts, k.host, count(k)).updated <= clock
  BY <1>3, <1>4, SummaryRow
<1> DEFINE D == (DOMAIN R \ UNION Groups(R)) \cup summaries
<1>6. C = [k \in D |-> IF k \in summaries THEN Summary(k.facts, k.host, count(k)) ELSE R[k]]
  BY <1>1 DEF CompactedBy
<1>7. \A k \in D : k \in Key /\ (k \notin summaries => k \in DOMAIN R)
  BY <1>2, <1>3
<1> HIDE DEF summaries, count, D
<1>8. DOMAIN C = D /\ D \in SUBSET Key
  BY <1>6, <1>7
<1>9. \A k \in D : C[k] \in Row /\ Keyed(k, C[k]) /\ C[k].updated <= clock
  BY <1>2, <1>5, <1>6, <1>7
<1>10. C \in [D -> Row]
  BY <1>6, <1>8, <1>9
<1>11. QED BY <1>8, <1>9, <1>10 DEF Table

LEMMA MaintainedTable ==
  ASSUME clock \in Nat, NEW R \in Table, NEW T \in RunMaintenance(R)
  PROVE  T \in Table
<1>1. PICK M \in Merged(R) : T \in UNION {Trimmed(C) : C \in Compacted(M)}
  BY DEF RunMaintenance
<1>2. PICK C \in Compacted(M) : T \in Trimmed(C)
  BY <1>1
<1>3. QED BY <1>1, <1>2, MergedTable, CompactedTable, TrimmedTable

-----------------------------------------------------------------------------
(* Every step keeps the invariant.                                         *)

\* A thread is as well off in a table that has more rows.
LEMMA ThreadsGrow ==
  ASSUME DOMAIN rows \subseteq DOMAIN rows'
  PROVE  Thread \subseteq Thread'
<1>1. \A S \in SUBSET DOMAIN rows : S \in SUBSET DOMAIN rows'
  OBVIOUS
<1>2. QED BY <1>1 DEF Thread, Idle

LEMMA TablesStay ==
  ASSUME clock' \in Nat, clock \in Nat, clock <= clock', NEW R \in Table
  PROVE  R \in Table'
<1>1. \A k \in DOMAIN R : Keyed(k, R[k]) /\ R[k].updated <= clock
  BY DEF Table
<1>2. PICK S \in SUBSET Key : R \in [S -> Row]
  BY DEF Table
<1>3. \A k \in DOMAIN R : R[k].updated \in Nat
  BY <1>2 DEF Row
<1>4. \A k \in DOMAIN R : Keyed(k, R[k]) /\ R[k].updated <= clock'
  BY <1>1, <1>3
<1>5. QED BY <1>2, <1>4 DEF Table, Keyed

LEMMA RowOfTable ==
  ASSUME NEW R \in Table
  PROVE  /\ DOMAIN R \subseteq Key
         /\ R = [k \in DOMAIN R |-> R[k]]
         /\ \A k \in DOMAIN R : R[k] \in Row /\ Keyed(k, R[k]) /\ R[k].updated <= clock
BY DEF Table

\* The row StoreCommit writes, under the key of the record.
LEMMA WrittenRow ==
  ASSUME clock \in Nat, NEW r \in TurnRecord, NEW n \in Nat,
         NEW row, row = [facts |-> r.facts, category |-> r.category, host |-> r.host,
                         important |-> r.important, updated |-> clock, count |-> n]
  PROVE  r.key \in Key /\ row \in Row /\ Keyed(r.key, row) /\ row.updated <= clock
BY DEF TurnRecord, Record, Row, Keyed, Key

LEMMA TableWithRow ==
  ASSUME NEW R \in Table, NEW key \in Key, NEW row \in Row, Keyed(key, row),
         row.updated <= clock, clock \in Nat
  PROVE  [k \in DOMAIN R \cup {key} |-> IF k = key THEN row ELSE R[k]] \in Table
<1> DEFINE D == DOMAIN R \cup {key}
           F == [k \in D |-> IF k = key THEN row ELSE R[k]]
<1>1. D \in SUBSET Key
  BY RowOfTable
<1>2. \A k \in D : F[k] \in Row /\ Keyed(k, F[k]) /\ F[k].updated <= clock
  BY RowOfTable
<1>3. F \in [D -> Row] /\ DOMAIN F = D
  BY <1>2
<1> HIDE DEF F, D
<1>4. F \in Table
  BY <1>1, <1>2, <1>3 DEF Table
<1>5. QED BY <1>4 DEF F, D

LEMMA InvRecord ==
  ASSUME Inv, NEW w \in Workers, RecordInteraction(w)
  PROVE  Inv'
<1>1. PICK t \in Turns :
        /\ ExtractLocalMemories(t) # <<>>
        /\ work' = [work EXCEPT ![w] = [at |-> "lookup", todo |-> ExtractLocalMemories(t)]]
  BY DEF RecordInteraction
<1>2. [at |-> "lookup", todo |-> ExtractLocalMemories(t)] \in Thread
  BY <1>1, ExtractType DEF Thread
<1>3. UNCHANGED <<rows, marker, clock, phase>> /\ phase = "serving"
  BY DEF RecordInteraction
<1>4. work' \in [Workers -> Thread]
  BY <1>1, <1>2 DEF Inv
<1>5. Thread' = Thread /\ Table' = Table
  BY <1>3 DEF Thread, Table
<1>6. QED BY <1>3, <1>4, <1>5 DEF Inv

LEMMA InvLookup ==
  ASSUME Inv, NEW w \in Workers, StoreLookup(w)
  PROVE  Inv'
<1>1. work[w] \in Thread /\ work[w].at = "lookup"
  BY DEF Inv, StoreLookup
<1>2. work[w].todo \in Seq(TurnRecord) \ {<<>>}
  BY <1>1 DEF Thread, Idle
<1>3. PICK n : /\ n \in {Never} \cup Nat
               /\ work' = [work EXCEPT ![w] = [at |-> "save", todo |-> @.todo, seen |-> n]]
  <2>1. work' = [work EXCEPT ![w] = [at |-> "save", todo |-> @.todo,
                   seen |-> IF Head(work[w].todo).key \in DOMAIN rows
                            THEN rows[Head(work[w].todo).key].count ELSE Never]]
    BY DEF StoreLookup
  <2>2. \A k \in DOMAIN rows : rows[k].count \in Nat
    BY RowOfTable DEF Inv, Row
  <2>3. QED BY <2>1, <2>2
<1>4. [at |-> "save", todo |-> work[w].todo, seen |-> n] \in Thread
  BY <1>2, <1>3 DEF Thread
<1>5. UNCHANGED <<rows, marker, clock, phase>> /\ phase = "serving"
  BY DEF StoreLookup
<1>6. work' \in [Workers -> Thread]
  BY <1>3, <1>4 DEF Inv
<1>7. Thread' = Thread /\ Table' = Table
  BY <1>5 DEF Thread, Table
<1>8. QED BY <1>5, <1>6, <1>7 DEF Inv

\* StoreCommit leaves the table alone, or the row of the record is written.
LEMMA CommittedRow ==
  ASSUME Inv, NEW w \in Workers, StoreCommit(w), rows' # rows
  PROVE  \E key \in Key, row \in Row :
           /\ Keyed(key, row) /\ row.updated <= clock
           /\ rows' = [k \in DOMAIN rows \cup {key} |-> IF k = key THEN row ELSE rows[k]]
<1>1. work[w] \in Thread /\ work[w].at = "save"
  BY DEF Inv, StoreCommit
<1>2. work[w].todo \in Seq(TurnRecord) \ {<<>>} /\ work[w].seen \in {Never} \cup Nat
  BY <1>1 DEF Thread, Idle
<1>3. Head(work[w].todo) \in TurnRecord
  BY <1>2, HeadTailProperties
<1> DEFINE r == Head(work[w].todo)
           n == IF work[w].seen = Never THEN 0 ELSE work[w].seen + 1
           row == [facts |-> r.facts, category |-> r.category, host |-> r.host,
                   important |-> r.important, updated |-> clock, count |-> n]
<1>4. rows' = [k \in DOMAIN rows \cup {r.key} |-> IF k = r.key THEN row ELSE rows[k]]
  BY Zenon DEF StoreCommit
<1>5. n \in Nat
  BY <1>2
<1>6. clock \in Nat
  BY DEF Inv
<1>7. r.key \in Key /\ row \in Row /\ Keyed(r.key, row) /\ row.updated <= clock
  <2> HIDE DEF n
  <2>1. QED BY <1>3, <1>5, <1>6, WrittenRow
<1> HIDE DEF r, n, row
<1>8. QED BY <1>4, <1>7

LEMMA InvCommit ==
  ASSUME Inv, NEW w \in Workers, StoreCommit(w)
  PROVE  Inv'
<1>1. work[w] \in Thread /\ work[w].at = "save"
  BY DEF Inv, StoreCommit
<1>2. work[w].todo \in Seq(TurnRecord) \ {<<>>}
  BY <1>1 DEF Thread, Idle
<1>3. UNCHANGED <<marker, clock, phase>> /\ phase = "serving" /\ clock \in Nat
  BY DEF StoreCommit, Inv
<1>4. rows' \in Table /\ DOMAIN rows \subseteq DOMAIN rows'
  <2>1. CASE rows' = rows
    BY <2>1 DEF Inv
  <2>2. CASE rows' # rows
    <3>1. PICK key \in Key, row \in Row :
            /\ Keyed(key, row) /\ row.updated <= clock
            /\ rows' = [k \in DOMAIN rows \cup {key} |-> IF k = key THEN row ELSE rows[k]]
      BY <2>2, CommittedRow
    <3>2. rows \in Table
      BY DEF Inv
    <3>3. QED BY <1>3, <3>1, <3>2, TableWithRow
  <2>3. QED BY <2>1, <2>2
<1>5. Thread \subseteq Thread' /\ Table' = Table
  BY <1>3, <1>4, ThreadsGrow DEF Table
<1>6. work' = [work EXCEPT ![w] =
                 IF Len(work[w].todo) = 1 THEN Idle ELSE [at |-> "lookup", todo |-> Tail(work[w].todo)]]
  BY DEF StoreCommit
<1>7. Len(work[w].todo) # 1 => Tail(work[w].todo) \in Seq(TurnRecord) \ {<<>>}
  <2>1. Len(work[w].todo) \in Nat /\ Tail(work[w].todo) \in Seq(TurnRecord)
        /\ Len(Tail(work[w].todo)) = Len(work[w].todo) - 1
    BY <1>2, HeadTailProperties, LenProperties
  <2>2. Tail(work[w].todo) = <<>> => Len(Tail(work[w].todo)) = 0
    BY EmptySeq
  <2> DEFINE todo == work[w].todo
             tail == Tail(todo)
  <2>3. Len(todo) \in Nat /\ tail \in Seq(TurnRecord) /\ Len(tail) = Len(todo) - 1
    BY <2>1
  <2>4. tail = <<>> => Len(tail) = 0
    BY <2>2
  <2>5. (Len(todo) # 1) => tail \in Seq(TurnRecord) \ {<<>>}
    <3> HIDE DEF todo, tail
    <3>1. QED BY <2>3, <2>4
  <2>6. QED BY <2>5
<1>8. (IF Len(work[w].todo) = 1 THEN Idle ELSE [at |-> "lookup", todo |-> Tail(work[w].todo)])
        \in Thread
  BY <1>7 DEF Thread
<1>9. work' \in [Workers -> Thread]
  BY <1>6, <1>8 DEF Inv
<1>10. work' \in [Workers -> Thread']
  BY <1>5, <1>9
<1>11. QED BY <1>3, <1>4, <1>5, <1>10 DEF Inv

LEMMA InvRecall ==
  ASSUME Inv, NEW w \in Workers, Recall(w)
  PROVE  Inv'
<1>1. PICK chosen \in SUBSET DOMAIN rows :
        work' = [work EXCEPT ![w] = [at |-> "recalled", seen |-> [k \in chosen |-> rows[k].count]]]
  BY DEF Recall
<1>2. \A k \in DOMAIN rows : rows[k].count \in Nat
  BY RowOfTable DEF Inv, Row
<1>3. [k \in chosen |-> rows[k].count] \in [chosen -> Nat]
  BY <1>2
<1>4. [at |-> "recalled", seen |-> [k \in chosen |-> rows[k].count]] \in Thread
  BY <1>3 DEF Thread
<1>5. UNCHANGED <<rows, marker, clock, phase>> /\ phase = "serving"
  BY DEF Recall
<1>6. work' \in [Workers -> Thread]
  BY <1>1, <1>4 DEF Inv
<1>7. Thread' = Thread /\ Table' = Table
  BY <1>5 DEF Thread, Table
<1>8. QED BY <1>5, <1>6, <1>7 DEF Inv

LEMMA CountedRow ==
  ASSUME clock \in Nat, NEW k, NEW r \in Row, Keyed(k, r), NEW n \in Nat,
         NEW c, c = [facts |-> r.facts, category |-> r.category, host |-> r.host,
                     important |-> r.important, count |-> n, updated |-> clock]
  PROVE  /\ c \in Row /\ Keyed(k, c) /\ c.updated <= clock
         /\ c.facts = r.facts /\ c.important = r.important /\ c.category = r.category
BY DEF Row, Keyed

\* What a thread has read is in the table still, and it is counted.
LEMMA RecalledRows ==
  ASSUME Inv, NEW w \in Workers, RecallCommit(w)
  PROVE  /\ rows' \in Table /\ DOMAIN rows' = DOMAIN rows
         /\ \A k \in DOMAIN rows : /\ rows'[k].facts = rows[k].facts
                                   /\ rows'[k].important = rows[k].important
                                   /\ rows'[k].category = rows[k].category
<1>1. work[w] \in Thread /\ work[w].at = "recalled"
  BY DEF Inv, RecallCommit
<1>2. PICK S \in SUBSET DOMAIN rows : work[w].seen \in [S -> Nat]
  <2>1. work[w].seen \in UNION {[S -> Nat] : S \in SUBSET DOMAIN rows}
    <3> DEFINE U == UNION {[S -> Nat] : S \in SUBSET DOMAIN rows}
               L == Seq(TurnRecord) \ {<<>>}
               N == {Never} \cup Nat
               v == work[w]
    <3>1. v \in {[at |-> "idle"]} \cup [at : {"lookup"}, todo : L]
                  \cup [at : {"save"}, todo : L, seen : N] \cup [at : {"recalled"}, seen : U]
      BY <1>1 DEF Thread, Idle
    <3>2. v.at = "recalled"
      BY <1>1
    <3>3. v.seen \in U
      <4> HIDE DEF U, L, N, v
      <4>1. QED BY <3>1, <3>2
    <3>4. QED BY <3>3
  <2>2. QED BY <2>1
<1>3. rows \in Table /\ clock \in Nat /\ clock' = clock
  BY DEF Inv, RecallCommit
<1>4. CASE rows' = rows
  BY <1>3, <1>4
<1>5. CASE rows' = [k \in DOMAIN rows |->
                      IF k \in S THEN [rows[k] EXCEPT !.count = work[w].seen[k] + 1, !.updated = clock]
                      ELSE rows[k]]
  <2>1. \A k \in S : work[w].seen[k] + 1 \in Nat
    BY <1>2
  <2>2. ASSUME NEW k \in DOMAIN rows
        PROVE  /\ rows'[k] \in Row /\ Keyed(k, rows'[k]) /\ rows'[k].updated <= clock
               /\ rows'[k].facts = rows[k].facts /\ rows'[k].important = rows[k].important
               /\ rows'[k].category = rows[k].category
    <3>1. rows[k] \in Row /\ Keyed(k, rows[k]) /\ rows[k].updated <= clock
      BY <1>3, RowOfTable
    <3>2. CASE k \notin S
      BY <1>5, <3>1, <3>2
    <3>3. CASE k \in S
      <4>1. rows'[k] = [rows[k] EXCEPT !.count = work[w].seen[k] + 1, !.updated = clock]
        BY <1>5, <3>3
      <4>2. work[w].seen[k] + 1 \in Nat
        BY <2>1, <3>3
      <4> DEFINE n == work[w].seen[k] + 1
                 r == rows[k]
                 c == rows'[k]
      <4>3. r \in Row /\ Keyed(k, r) /\ n \in Nat /\ clock \in Nat
            /\ c = [r EXCEPT !.count = n, !.updated = clock]
        BY <1>3, <3>1, <4>1, <4>2
      <4> HIDE DEF n, r, c
      <4>5. c = [facts |-> r.facts, category |-> r.category, host |-> r.host,
                 important |-> r.important, count |-> n, updated |-> clock]
        BY <4>3 DEF Row
      <4>6. /\ c \in Row /\ Keyed(k, c) /\ c.updated <= clock
            /\ c.facts = r.facts /\ c.important = r.important /\ c.category = r.category
        BY <4>3, <4>5, CountedRow
      <4>7. QED BY <4>6 DEF r, c
    <3>4. QED BY <3>2, <3>3
  <2>3. DOMAIN rows' = DOMAIN rows
    BY <1>5
  <2>4. rows' \in [DOMAIN rows -> Row] /\ DOMAIN rows \in SUBSET Key
    BY <1>3, <1>5, <2>2, <2>3, RowOfTable
  <2>5. rows' \in Table
    BY <2>2, <2>3, <2>4 DEF Table
  <2>6. QED BY <2>2, <2>3, <2>5
<1>6. DOMAIN work[w].seen = S
  BY <1>2
<1>7. QED BY <1>4, <1>5, <1>6 DEF RecallCommit

LEMMA InvRecallCommit ==
  ASSUME Inv, NEW w \in Workers, RecallCommit(w)
  PROVE  Inv'
<1>1. UNCHANGED <<marker, clock, phase>> /\ phase = "serving"
      /\ work' = [work EXCEPT ![w] = Idle]
  BY DEF RecallCommit
<1>2. rows' \in Table /\ DOMAIN rows' = DOMAIN rows
  BY RecalledRows
<1>3. Thread \subseteq Thread' /\ Table' = Table
  BY <1>1, <1>2, ThreadsGrow DEF Table
<1>4. work' \in [Workers -> Thread]
  BY <1>1 DEF Inv, Thread
<1>5. work' \in [Workers -> Thread']
  BY <1>3, <1>4
<1>6. QED BY <1>1, <1>2, <1>3, <1>5 DEF Inv

LEMMA AllIdle ==
  ASSUME \A w \in Workers : work[w] = Idle, work \in [Workers -> Thread], work' = work
  PROVE  work' \in [Workers -> Thread'] /\ \A w \in Workers : work'[w] = Idle
<1>1. Idle \in Thread'
  BY DEF Thread
<1>2. QED BY <1>1

LEMMA InvMaintain == Inv /\ Maintain => Inv'
<1> SUFFICES ASSUME Inv, Maintain PROVE Inv'
  OBVIOUS
<1>1. phase = "down" /\ phase' = "marking" /\ UNCHANGED <<marker, clock, work>>
      /\ rows' \in RunMaintenance(rows)
  BY DEF Maintain
<1>2. rows' \in Table /\ Table' = Table
  BY <1>1, MaintainedTable DEF Inv, Table
<1>3. work' \in [Workers -> Thread'] /\ \A w \in Workers : work'[w] = Idle
  BY <1>1, AllIdle DEF Inv
<1>4. QED BY <1>1, <1>2, <1>3 DEF Inv

LEMMA InvProcess == Inv /\ (Mark \/ Serve \/ Stop \/ Tick \/ UNCHANGED vars) => Inv'
<1> SUFFICES ASSUME Inv, Mark \/ Serve \/ Stop \/ Tick \/ UNCHANGED vars PROVE Inv'
  OBVIOUS
<1>1. /\ rows' = rows /\ marker' \in Nat \cup {Never}
      /\ clock' \in Nat /\ clock <= clock' /\ phase' \in {"down", "marking", "serving"}
  BY DEF Inv, Mark, Serve, Stop, Tick, vars
<1>2. rows' \in Table'
  BY <1>1, TablesStay DEF Inv
<1>3. Thread' = Thread
  BY <1>1 DEF Thread, Idle
<1>4. work' \in [Workers -> Thread]
  BY DEF Inv, Mark, Serve, Stop, Tick, vars, Thread
<1>5. phase' # "serving" => \A w \in Workers : work'[w] = Idle
  BY DEF Inv, Mark, Serve, Stop, Tick, vars
<1>6. QED BY <1>1, <1>2, <1>3, <1>4, <1>5 DEF Inv

LEMMA InvStep == Inv /\ [Next]_vars => Inv'
BY InvRecord, InvLookup, InvCommit, InvRecall, InvRecallCommit, InvMaintain, InvProcess
   DEF Next

LEMMA InvAlways == Spec => []Inv
<1>1. QED BY InvInit, InvStep, PTL DEF Spec

\* The table is one: a key has one row, whose columns are of the types of
\* models_db.AgentMemory, and a thread that counts what it read finds it.
THEOREM TypeCorrect == Spec => []TypeOK
<1>1. QED BY InvAlways, InvTyped, PTL

-----------------------------------------------------------------------------
(* What a maintenance leaves of what was there: T is the table after R is  *)
(* merged to M, compacted to C and trimmed.                                *)

\* One row of every group of duplicates stays, as it was.
LEMMA MergeKeeps ==
  ASSUME NEW R \in Table, NEW M \in Merged(R)
  PROVE  /\ DOMAIN M \subseteq DOMAIN R
         /\ \A k \in DOMAIN M : M[k] = R[k]
         /\ \A k \in DOMAIN R : \E q \in DOMAIN M : SameFingerprint(R[k], R[q])
<1>1. PICK S \in SUBSET DOMAIN R :
        /\ M = [k \in S |-> R[k]]
        /\ \A k \in DOMAIN R :
             \E q \in {p \in DOMAIN R : SameFingerprint(R[k], R[p])} :
               S \cap {p \in DOMAIN R : SameFingerprint(R[k], R[p])} = {q}
  BY Zenon DEF Merged
<1>2. \A k \in DOMAIN R : \E q \in S : SameFingerprint(R[k], R[q])
  BY <1>1
<1>3. QED BY <1>1, <1>2

\* What is in no group keeps its facts and its place in the order, and what
\* is no summary stays as it was.
LEMMA CompactKeeps ==
  ASSUME clock \in Nat, NEW M \in Table, NEW text, NEW q \in DOMAIN M \ UNION Groups(M)
  PROVE  /\ q \in DOMAIN CompactedBy(M, text)
         /\ CompactedBy(M, text)[q].facts = M[q].facts
         /\ CompactedBy(M, text)[q].count = M[q].count
         /\ CompactedBy(M, text)[q].updated \in Nat
         /\ CompactedBy(M, text)[q].updated >= M[q].updated
         /\ q.kind # "summary" => CompactedBy(M, text)[q] = M[q]
<1>1. /\ q \in DOMAIN CompactedBy(M, text)
      /\ CompactedBy(M, text)[q] =
           IF q \in Summaries(M, text) THEN Summary(q.facts, q.host, OldCount(M, q)) ELSE M[q]
  BY DEF CompactedBy
<1>2. M[q] \in Row /\ Keyed(q, M[q]) /\ M[q].updated <= clock
  BY RowOfTable
<1>3. CASE q \in Summaries(M, text)
  <2>1. q.kind = "summary"
    BY <1>3 DEF Summaries, SummaryKey
  <2>2. CompactedBy(M, text)[q] = Summary(q.facts, q.host, M[q].count)
    BY <1>1, <1>3 DEF OldCount
  <2>3. QED BY <1>1, <1>2, <2>1, <2>2 DEF Summary, Keyed, Row
<1>4. CASE q \notin Summaries(M, text)
  BY <1>1, <1>2, <1>4 DEF Row
<1>5. QED BY <1>3, <1>4

\* A group leaves a new summary of its host.
LEMMA CompactSummarises ==
  ASSUME NEW M \in Table, NEW text, NEW g \in Groups(M), NEW q \in g
  PROVE  \E s \in DOMAIN CompactedBy(M, text), n \in Nat :
           CompactedBy(M, text)[s] = Summary(text[g], M[q].host, n)
<1> DEFINE s == SummaryKey(M, text, g)
<1>1. s \in Summaries(M, text)
  BY DEF Summaries
<1>2. s.facts = text[g] /\ s.host = M[q].host
  <2>1. (CHOOSE k \in g : TRUE) \in g
    OBVIOUS
  <2>2. M[CHOOSE k \in g : TRUE].host = M[q].host
    BY <2>1, GroupRows
  <2>3. QED BY <2>2 DEF SummaryKey
<1> HIDE DEF s
<1>3. OldCount(M, s) \in Nat
  BY RowOfTable DEF OldCount, Row
<1>4. s \in DOMAIN CompactedBy(M, text)
      /\ CompactedBy(M, text)[s] = Summary(s.facts, s.host, OldCount(M, s))
  BY <1>1 DEF CompactedBy
<1>5. QED BY <1>2, <1>3, <1>4

\* What is trimmed was not used more, or as much and later, than what stays,
\* of which there is as much as there may be.
LEMMA TrimKeeps ==
  ASSUME NEW C, C = [k \in DOMAIN C |-> C[k]], NEW T \in Trimmed(C)
  PROVE  /\ DOMAIN T \subseteq DOMAIN C
         /\ \A k \in DOMAIN T : T[k] = C[k]
         /\ \A k \in DOMAIN C \ DOMAIN T :
              /\ Cardinality(DOMAIN T) = MaxRecords
              /\ \A q \in DOMAIN T : ~Before(T[q], C[k])
<1>1. CASE T = C
  BY <1>1
<1>2. CASE T # C
  <2>1. PICK S \in SUBSET DOMAIN C :
          /\ T = [k \in S |-> C[k]]
          /\ Cardinality(S) = MaxRecords
          /\ \A k \in S, q \in DOMAIN C \ S : ~Before(C[k], C[q])
    <3> DEFINE P(S) == Cardinality(S) = MaxRecords /\ \A k \in S, q \in DOMAIN C \ S : ~Before(C[k], C[q])
    <3>1. T \in {[k \in S |-> C[k]] : S \in {S \in SUBSET DOMAIN C : P(S)}}
      BY <1>2 DEF Trimmed
    <3> HIDE DEF P
    <3>2. PICK S \in {S \in SUBSET DOMAIN C : P(S)} : T = [k \in S |-> C[k]]
      BY <3>1
    <3>3. S \in SUBSET DOMAIN C /\ P(S)
      OBVIOUS
    <3>4. QED BY <3>2, <3>3 DEF P
  <2>2. QED BY <2>1
<1>3. QED BY <1>1, <1>2

LEMMA MaintenanceSteps ==
  ASSUME NEW R \in Table, clock \in Nat, NEW T \in RunMaintenance(R)
  PROVE  \E M \in Merged(R) : \E text \in [Groups(M) -> SUBSET Facts] :
           /\ M \in Table
           /\ \A g \in Groups(M) : text[g] \in Texts(M, g)
           /\ T \in Trimmed(CompactedBy(M, text))
<1>1. PICK M \in Merged(R) : T \in UNION {Trimmed(C) : C \in Compacted(M)}
  BY DEF RunMaintenance
<1>2. PICK C \in Compacted(M) : T \in Trimmed(C)
  BY <1>1
<1>3. PICK text \in [Groups(M) -> SUBSET Facts] :
        (\A g \in Groups(M) : text[g] \in Texts(M, g)) /\ C = CompactedBy(M, text)
  BY CompactedRows
<1>4. QED BY <1>2, <1>3, MergedTable

\* A text that leaves a fact out is as long as it may be.
LEMMA FullText ==
  ASSUME NEW M \in Table, NEW g \in Groups(M), NEW text \in Texts(M, g),
         NEW f \in FactsOf(M, g) \ text
  PROVE  Cardinality(text) >= SummaryFits
<1> DEFINE F == FactsOf(M, g)
<1>1. F \subseteq Facts
  <2>1. \A k \in g : M[k].facts \subseteq Facts
    BY GroupRows, RowOfTable DEF Row
  <2>2. QED BY <2>1 DEF FactsOf
<1>2. IsFiniteSet(F)
  BY <1>1, FS_Subset, MemoryAssumption
<1>3. text \subseteq F /\ text # F /\ Cardinality(text) >= Min({SummaryFits, Cardinality(F)})
  BY DEF Texts
<1> HIDE DEF F
<1>4. Cardinality(text) \in Nat /\ Cardinality(F) \in Nat /\ Cardinality(text) < Cardinality(F)
  BY <1>2, <1>3, FS_Subset, FS_CardinalityType
<1>5. SummaryFits \in Nat
  BY MemoryAssumption
<1>6. Min({SummaryFits, Cardinality(F)}) \in {SummaryFits, Cardinality(F)}
  <2>1. \E x \in {SummaryFits, Cardinality(F)} : \A y \in {SummaryFits, Cardinality(F)} : x <= y
    BY <1>4, <1>5
  <2>2. QED BY <2>1 DEF Min
<1>7. QED BY <1>3, <1>4, <1>5, <1>6

-----------------------------------------------------------------------------
(* Nothing is silently lost.                                               *)

\* What maintenance may have dropped is what the order puts after the rest,
\* and so is what the order puts after that.
LEMMA StillOverflowed ==
  ASSUME NEW r, NEW s, r.count \in Nat, s.count \in Nat, r.updated \in Nat, s.updated \in Nat,
         \/ s.count < r.count
         \/ s.count = r.count /\ s.updated <= r.updated,
         NEW T \in Table, \A q \in DOMAIN T : ~Before(T[q], r)
  PROVE  \A q \in DOMAIN T : ~Before(T[q], s)
<1> SUFFICES ASSUME NEW q \in DOMAIN T, Before(T[q], s) PROVE FALSE
  OBVIOUS
<1>1. T[q].count \in Nat /\ T[q].updated \in Nat
  BY RowOfTable DEF Row
<1>2. ~Before(T[q], r)
  OBVIOUS
<1>3. QED BY <1>1, <1>2 DEF Before

\* A step that is no maintenance keeps every fact.
LEMMA OthersKeepFacts ==
  ASSUME Inv, [Next]_vars, ~Maintain
  PROVE  Held \subseteq Held'
<1> SUFFICES ASSUME NEW f \in Held PROVE f \in Held'
  OBVIOUS
<1>1. PICK k \in DOMAIN rows : f \in rows[k].facts
  BY DEF Held, FactsOf
<1>2. rows \in Table
  BY DEF Inv
<1>3. k \in DOMAIN rows' /\ f \in rows'[k].facts
  <2>1. CASE rows' = rows
    BY <1>1, <2>1
  <2>2. ASSUME NEW w \in Workers, StoreCommit(w), rows' # rows
        PROVE  k \in DOMAIN rows' /\ f \in rows'[k].facts
    <3>1. PICK key \in Key, row \in Row :
            /\ Keyed(key, row) /\ row.updated <= clock
            /\ rows' = [x \in DOMAIN rows \cup {key} |-> IF x = key THEN row ELSE rows[x]]
      BY <2>2, CommittedRow
    <3>2. rows[k].facts = k.facts
      BY <1>2, RowOfTable DEF Keyed
    <3>3. QED BY <1>1, <3>1, <3>2 DEF Keyed
  <2>3. ASSUME NEW w \in Workers, RecallCommit(w)
        PROVE  k \in DOMAIN rows' /\ f \in rows'[k].facts
    BY <1>1, <2>3, RecalledRows
  <2>4. \/ rows' = rows
        \/ \E w \in Workers : StoreCommit(w)
        \/ \E w \in Workers : RecallCommit(w)
    BY DEF Next, vars, RecordInteraction, StoreLookup, Recall, Mark, Serve, Stop, Tick
  <2>5. QED BY <2>1, <2>2, <2>3, <2>4
<1>4. QED BY <1>3 DEF Held, FactsOf

LEMMA MaintainLoses ==
  ASSUME Inv, Maintain, NEW f \in Held \ Held'
  PROVE  \E k \in DOMAIN rows :
           /\ f \in rows[k].facts
           /\ \/ Overflowed(rows[k])
              \/ Squeezed(rows[k])
              \/ Compactable(rows[k]) /\ Overflowed(Summary({f}, rows[k].host, 0))
<1> DEFINE T == rows'
<1>1. rows \in Table /\ clock \in Nat /\ Maintained /\ T \in RunMaintenance(rows)
  BY DEF Inv, Maintain, Maintained
<1>2. PICK M \in Merged(rows) : \E text \in [Groups(M) -> SUBSET Facts] :
        /\ M \in Table
        /\ \A g \in Groups(M) : text[g] \in Texts(M, g)
        /\ T \in Trimmed(CompactedBy(M, text))
  BY <1>1, MaintenanceSteps
<1>3. PICK text \in [Groups(M) -> SUBSET Facts] :
        /\ M \in Table
        /\ \A g \in Groups(M) : text[g] \in Texts(M, g)
        /\ T \in Trimmed(CompactedBy(M, text))
  BY <1>2
<1> DEFINE C == CompactedBy(M, text)
<1>4. \A k \in DOMAIN T : f \notin T[k].facts
  BY DEF Held, FactsOf
<1>5. /\ DOMAIN T \subseteq DOMAIN C
      /\ \A k \in DOMAIN T : T[k] = C[k]
      /\ \A k \in DOMAIN C \ DOMAIN T :
           /\ Cardinality(DOMAIN T) = MaxRecords
           /\ \A q \in DOMAIN T : ~Before(T[q], C[k])
  <2>1. C = [k \in DOMAIN C |-> C[k]]
    BY DEF CompactedBy
  <2> HIDE DEF C, T
  <2>2. T \in Trimmed(C)
    BY <1>3 DEF C
  <2>3. QED BY <2>1, <2>2, TrimKeeps
<1>6. PICK q \in DOMAIN M : f \in M[q].facts /\ q \in DOMAIN rows /\ M[q] = rows[q]
  <2>1. PICK k \in DOMAIN rows : f \in rows[k].facts
    BY DEF Held, FactsOf
  <2>2. PICK q \in DOMAIN M : SameFingerprint(rows[k], rows[q])
    BY <1>1, MergeKeeps
  <2>3. q \in DOMAIN rows /\ M[q] = rows[q]
    BY <1>1, MergeKeeps
  <2>4. QED BY <2>1, <2>2, <2>3 DEF SameFingerprint
<1>7. M[q] \in Row /\ M[q].updated <= clock
  BY <1>3, RowOfTable
<1>8. T \in Table
  BY <1>1, MaintainedTable
<1>9. CASE q \notin UNION Groups(M)
  <2>1. /\ q \in DOMAIN C /\ C[q].facts = M[q].facts /\ C[q].count = M[q].count
        /\ C[q].updated >= M[q].updated
    BY <1>1, <1>3, <1>9, CompactKeeps
  <2>2. q \notin DOMAIN T
    <3> HIDE DEF C, T
    <3>1. QED BY <1>4, <1>5, <1>6, <2>1
  <2>3. Cardinality(DOMAIN T) = MaxRecords /\ \A p \in DOMAIN T : ~Before(T[p], C[q])
    <3> HIDE DEF C, T
    <3>1. QED BY <1>5, <2>1, <2>2
  <2>4. \A p \in DOMAIN T : ~Before(T[p], M[q])
    <3> HIDE DEF T
    <3>0. C[q].updated \in Nat
      BY <1>1, <1>3, <1>9, CompactKeeps
    <3>1. M[q].count \in Nat /\ M[q].updated \in Nat
      BY <1>7 DEF Row
    <3> HIDE DEF C
    <3>2. QED BY <1>8, <2>1, <2>3, <3>0, <3>1, StillOverflowed
  <2>5. Overflowed(rows[q])
    BY <1>1, <1>6, <2>3, <2>4 DEF Overflowed
  <2>6. QED BY <1>6, <2>5
<1>10. CASE q \in UNION Groups(M)
  <2>1. PICK g \in Groups(M) : q \in g
    BY <1>10
  <2>2. Compactable(rows[q])
    BY <1>6, <2>1, GroupRows
  <2>3. PICK s \in DOMAIN C, n \in Nat : C[s] = Summary(text[g], M[q].host, n)
    BY <1>3, <2>1, CompactSummarises
  <2>4. CASE s \in DOMAIN T
    <3>1. T[s] = Summary(text[g], rows[q].host, n)
      <4> HIDE DEF C, T
      <4>1. QED BY <1>5, <1>6, <2>3, <2>4
    <3>2. f \notin text[g]
      BY <1>4, <2>4, <3>1 DEF Summary
    <3>3. f \in FactsOf(M, g)
      BY <1>6, <2>1 DEF FactsOf
    <3>4. text[g] \in Texts(M, g)
      BY <1>3
    <3>5. Cardinality(text[g]) >= SummaryFits
      BY <1>3, <3>2, <3>3, <3>4, FullText
    <3>6. Squeezed(rows[q])
      BY <1>1, <2>2, <2>4, <3>1, <3>5 DEF Squeezed, Summary
    <3>7. QED BY <1>6, <3>6
  <2>5. CASE s \notin DOMAIN T
    <3>1. Cardinality(DOMAIN T) = MaxRecords /\ \A p \in DOMAIN T : ~Before(T[p], C[s])
      <4> HIDE DEF C, T
      <4>1. QED BY <1>5, <2>3, <2>5
    <3> DEFINE small == Summary({f}, rows[q].host, 0)
    <3>2. /\ small.count = 0 /\ small.updated = clock
          /\ C[s].count = n /\ C[s].updated = clock
      BY <2>3 DEF Summary
    <3>3. \A p \in DOMAIN T : ~Before(T[p], small)
      <4> HIDE DEF C, T, small
      <4>0. n \in Nat
        BY <2>3
      <4>1. C[s].count \in Nat /\ small.count \in Nat /\ C[s].updated \in Nat
            /\ small.updated \in Nat /\ small.updated <= C[s].updated
            /\ (small.count < C[s].count \/ small.count = C[s].count)
        BY <1>1, <3>2, <4>0
      <4>2. QED BY <1>8, <3>1, <4>1, StillOverflowed
    <3>4. Overflowed(small)
      BY <1>1, <3>1, <3>3 DEF Overflowed
    <3>5. QED BY <1>6, <2>2, <3>4
  <2>6. QED BY <2>4, <2>5
<1>11. QED BY <1>9, <1>10

\* README.md:268-270: what a turn has told is forgotten by nothing but
\* maintenance; and by that only if its row, or the summary it went into,
\* overflows the table, or if that summary has no room for it.
THEOREM NothingLost == Spec => NothingSilentlyLost
<1>1. Inv /\ [Next]_vars =>
        [\A f \in Held \ Held' :
           \E k \in DOMAIN rows :
             /\ f \in rows[k].facts
             /\ \/ Overflowed(rows[k])
                \/ Squeezed(rows[k])
                \/ Compactable(rows[k]) /\ Overflowed(Summary({f}, rows[k].host, 0))]_vars
  <2> SUFFICES ASSUME Inv, [Next]_vars, NEW f \in Held \ Held'
               PROVE  \E k \in DOMAIN rows :
                        /\ f \in rows[k].facts
                        /\ \/ Overflowed(rows[k])
                           \/ Squeezed(rows[k])
                           \/ Compactable(rows[k]) /\ Overflowed(Summary({f}, rows[k].host, 0))
    OBVIOUS
  <2>1. Maintain
    BY OthersKeepFacts
  <2>2. QED BY <2>1, MaintainLoses
<1>2. QED BY <1>1, InvAlways, PTL DEF Spec, NothingSilentlyLost

-----------------------------------------------------------------------------
(* What the user asked to remember keeps a row of its own.                 *)

\* Such a row is the record of a turn, whose key says so.
LEMMA OwnKind ==
  ASSUME NEW R \in Table, NEW k \in DOMAIN R, R[k].important \/ R[k].category = "preference"
  PROVE  /\ k.kind \in {"explicit", "preference"}
         /\ ~Compactable(R[k])
<1>1. k \in Key /\ R[k] \in Row /\ Keyed(k, R[k])
  BY RowOfTable
<1>2. k.kind \in {"explicit", "preference", "system", "summary"}
  BY <1>1 DEF Key
<1>3. k.kind \in {"explicit", "preference"}
  BY <1>1, <1>2 DEF Keyed
<1>4. QED BY <1>3 DEF Compactable

\* So it is whatever is written under its key, ...
LEMMA OwnAgain ==
  ASSUME NEW k, NEW r, NEW s, Keyed(k, r), Keyed(k, s), k.kind \in {"explicit", "preference"}
  PROVE  s.facts = r.facts /\ (s.important \/ s.category = "preference")
BY DEF Keyed

\* ... and a duplicate of it is such a row too.
LEMMA OwnDuplicate ==
  ASSUME NEW R \in Table, NEW k \in DOMAIN R, NEW q \in DOMAIN R,
         R[k].important \/ R[k].category = "preference", SameFingerprint(R[k], R[q])
  PROVE  R[q].facts = R[k].facts /\ (R[q].important \/ R[q].category = "preference")
<1>1. k \in Key /\ q \in Key /\ Keyed(k, R[k]) /\ Keyed(q, R[q])
  BY RowOfTable
<1>2. q.kind \in {"explicit", "preference", "system", "summary"}
  BY <1>1 DEF Key
<1>3. k.kind \in {"explicit", "preference"}
  BY OwnKind
<1>4. R[k].category \in {"preference", "general"}
  BY <1>1, <1>3 DEF Keyed
<1>5. QED BY <1>1, <1>2, <1>4 DEF Keyed, SameFingerprint

LEMMA OthersKeepOwn ==
  ASSUME Inv, [Next]_vars, ~Maintain, NEW f, OwnRows(f) # {}
  PROVE  OwnRows(f)' # {}
<1>1. PICK k \in DOMAIN rows :
        rows[k].facts = {f} /\ (rows[k].important \/ rows[k].category = "preference")
  BY DEF OwnRows
<1>2. rows \in Table
  BY DEF Inv
<1>3. k \in DOMAIN rows' /\ rows'[k].facts = {f}
      /\ (rows'[k].important \/ rows'[k].category = "preference")
  <2>1. CASE rows' = rows
    BY <1>1, <2>1
  <2>2. ASSUME NEW w \in Workers, StoreCommit(w), rows' # rows
        PROVE  k \in DOMAIN rows' /\ rows'[k].facts = {f}
               /\ (rows'[k].important \/ rows'[k].category = "preference")
    <3>1. PICK key \in Key, row \in Row :
            /\ Keyed(key, row) /\ row.updated <= clock
            /\ rows' = [x \in DOMAIN rows \cup {key} |-> IF x = key THEN row ELSE rows[x]]
      BY <2>2, CommittedRow
    <3>2. k.kind \in {"explicit", "preference"} /\ Keyed(k, rows[k])
      BY <1>1, <1>2, OwnKind, RowOfTable
    <3>3. k = key => row.facts = rows[k].facts /\ (row.important \/ row.category = "preference")
      BY <3>1, <3>2, OwnAgain
    <3>4. QED BY <1>1, <3>1, <3>3
  <2>3. ASSUME NEW w \in Workers, RecallCommit(w)
        PROVE  k \in DOMAIN rows' /\ rows'[k].facts = {f}
               /\ (rows'[k].important \/ rows'[k].category = "preference")
    BY <1>1, <2>3, RecalledRows
  <2>4. \/ rows' = rows
        \/ \E w \in Workers : StoreCommit(w)
        \/ \E w \in Workers : RecallCommit(w)
    BY DEF Next, vars, RecordInteraction, StoreLookup, Recall, Mark, Serve, Stop, Tick
  <2>5. QED BY <2>1, <2>2, <2>3, <2>4
<1>4. QED BY <1>3 DEF OwnRows

LEMMA MaintainKeepsOwn ==
  ASSUME Inv, Maintain, NEW f, OwnRows(f) # {}, OwnRows(f)' = {}
  PROVE  \E k \in OwnRows(f) : Overflowed(rows[k])
<1> DEFINE T == rows'
<1>1. rows \in Table /\ clock \in Nat /\ Maintained /\ T \in RunMaintenance(rows)
  BY DEF Inv, Maintain, Maintained
<1>2. PICK M \in Merged(rows) : \E text \in [Groups(M) -> SUBSET Facts] :
        /\ M \in Table
        /\ \A g \in Groups(M) : text[g] \in Texts(M, g)
        /\ T \in Trimmed(CompactedBy(M, text))
  BY <1>1, MaintenanceSteps
<1>3. PICK text \in [Groups(M) -> SUBSET Facts] :
        M \in Table /\ T \in Trimmed(CompactedBy(M, text))
  BY <1>2
<1> DEFINE C == CompactedBy(M, text)
<1>4. PICK k \in DOMAIN rows :
        rows[k].facts = {f} /\ (rows[k].important \/ rows[k].category = "preference")
  BY DEF OwnRows
<1>5. PICK q \in DOMAIN M : SameFingerprint(rows[k], rows[q])
  BY <1>1, MergeKeeps
<1>6. q \in DOMAIN rows /\ M[q] = rows[q]
  BY <1>1, MergeKeeps
<1>7. rows[q].facts = {f} /\ (rows[q].important \/ rows[q].category = "preference")
  BY <1>1, <1>4, <1>5, <1>6, OwnDuplicate
<1>8. q.kind \in {"explicit", "preference"} /\ ~Compactable(M[q])
  BY <1>1, <1>6, <1>7, OwnKind
<1>9. q \notin UNION Groups(M)
  <2>1. \A g \in Groups(M) : \A p \in g : Compactable(M[p])
    BY GroupRows
  <2>2. QED BY <1>8, <2>1
<1>10. q \in DOMAIN C /\ C[q] = rows[q]
  BY <1>1, <1>3, <1>6, <1>8, <1>9, CompactKeeps
<1>11. q \notin DOMAIN T => /\ Cardinality(DOMAIN T) = MaxRecords
                           /\ \A p \in DOMAIN T : ~Before(T[p], C[q])
  <2>1. C = [p \in DOMAIN C |-> C[p]] /\ T \in Trimmed(C)
    BY <1>3 DEF CompactedBy
  <2> HIDE DEF C, T
  <2>2. QED BY <1>10, <2>1, TrimKeeps
<1>12. q \in DOMAIN T => T[q] = rows[q]
  <2>1. C = [p \in DOMAIN C |-> C[p]] /\ T \in Trimmed(C)
    BY <1>3 DEF CompactedBy
  <2> HIDE DEF C, T
  <2>2. QED BY <1>10, <2>1, TrimKeeps
<1>13. q \notin DOMAIN T
  BY <1>7, <1>12 DEF OwnRows
<1>14. Overflowed(rows[q])
  <2>1. Cardinality(DOMAIN T) = MaxRecords /\ \A p \in DOMAIN T : ~Before(T[p], rows[q])
    <3> HIDE DEF C, T
    <3>1. QED BY <1>10, <1>11, <1>13
  <2>2. QED BY <1>1, <2>1 DEF Overflowed
<1>15. q \in OwnRows(f)
  BY <1>6, <1>7 DEF OwnRows
<1>16. QED BY <1>14, <1>15

\* README.md:270 `compacts older low-importance operational records': what the
\* user asked to remember, or prefers, has a row of its own until that row
\* overflows the table: it is not compacted however old it is, and where it is
\* merged the one that stays is its own too.
THEOREM AskedStays == Spec => AskedIsKept
<1>1. Inv /\ [Next]_vars =>
        [\A f \in Facts : OwnRows(f) # {} /\ OwnRows(f)' = {} =>
           \E k \in OwnRows(f) : Overflowed(rows[k])]_vars
  <2> SUFFICES ASSUME Inv, [Next]_vars, NEW f \in Facts, OwnRows(f) # {}, OwnRows(f)' = {}
               PROVE  \E k \in OwnRows(f) : Overflowed(rows[k])
    OBVIOUS
  <2>1. Maintain
    BY OthersKeepOwn
  <2>2. QED BY <2>1, MaintainKeepsOwn
<1>2. QED BY <1>1, InvAlways, PTL DEF Spec, AskedIsKept
=============================================================================
