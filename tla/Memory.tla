------------------------------- MODULE Memory -------------------------------
(***************************************************************************)
(* The agent's memory across chats: the table agent_memory                 *)
(* (src/backend/models_db.py), what completed turns write into it and      *)
(* prompts read from it (memory/manager.py, memory/long_term.py), and the  *)
(* maintenance the process runs on it before it serves                     *)
(* (memory/maintenance.py).                                                *)
(*                                                                         *)
(* What a record says is a set of facts: one for a record of a turn, those *)
(* its text reaches for a summary.  Keys are hashes of the text (an        *)
(* observation's of the host too), so a key is its kind and its facts; two *)
(* texts that differ in case or spaces are one fact here.  `updated' is in *)
(* units of the clock, and the columns nothing decides by are left out,    *)
(* with `expires_at', which no caller sets.                                *)
(*                                                                         *)
(* Honcho is an external service.  Whatever MEMORY_PROVIDER says, the      *)
(* local backend is one of the writers and an error of the other one is    *)
(* swallowed, so a turn is always written here; and it is read here or,    *)
(* with `honcho', when Honcho gives no text.                               *)
(***************************************************************************)
EXTENDS Naturals, Sequences, FiniteSets, SequencesExt

CONSTANTS
  Facts,          \* what a turn may tell
  Preferences,    \* the facts whose text speaks of a preference
  Hosts, NoHost,  \* what a fact is about: a host, or none in particular
  Turns,          \* the completed turns, see TurnType
  Workers,        \* threads that store a turn or read for a prompt
  RecallLimit,    \* rows of one prompt (12)
  UsedOften,      \* accesses that keep a row from being compacted (5)
  MinGroup,       \* rows that are worth a summary (4)
  SummaryFits,    \* facts that always fit its 1600 characters (7)
  MaxRecords,     \* memory_max_local_records (5000)
  SummaryAfter,   \* memory_summary_after_days (30)
  Interval,       \* memory_maintenance_interval_days (7)
  Never           \* no maintenance has been recorded

\* What _extract_local_memories finds in a turn: the fact the user asks to
\* remember, the preference he states, the result the answer reports.
TurnType ==
  [asked : SUBSET Facts, preferred : SUBSET Facts, result : SUBSET Facts,
   host : Hosts \cup {NoHost}]

\* SQLite stores no text above a gigabyte: there are finitely many.
ASSUME MemoryAssumption ==
  /\ IsFiniteSet(Facts)
  /\ Preferences \subseteq Facts /\ Turns \subseteq TurnType /\ NoHost \notin Hosts
  /\ {RecallLimit, UsedOften, MinGroup, SummaryFits, MaxRecords} \subseteq Nat \ {0}
  /\ {SummaryAfter, Interval} \subseteq Nat /\ Never \notin Nat

VARIABLES
  rows,    \* agent_memory: its keys, and their rows
  marker,  \* MAINTENANCE_KEY: when maintenance was last recorded
  clock,   \* the time
  phase,   \* "down", "marking" (maintenance committed) or "serving"
  work     \* what each thread is about

vars == <<rows, marker, clock, phase, work>>

Key == [kind : {"explicit", "preference", "system", "summary"}, facts : SUBSET Facts,
        host : Hosts \cup {NoHost}]

Category == {"preference", "general", "system", "summary"}

Row == [facts : SUBSET Facts, category : Category, host : Hosts \cup {NoHost},
        important : BOOLEAN, count : Nat, updated : Nat]

Record == [key : Key, facts : SUBSET Facts, category : Category,
           host : Hosts \cup {NoHost}, important : BOOLEAN]

\* A thread stores the records of its turn, `todo', one after the other, and
\* is about to look up ("lookup") or write ("save") the row of the first; or
\* it has read rows for a prompt and holds their counts ("recalled").
Idle == [at |-> "idle"]

TypeOK ==
  /\ DOMAIN rows \subseteq Key
  /\ \A k \in DOMAIN rows : rows[k] \in Row
  /\ marker \in Nat \cup {Never}
  /\ clock \in Nat
  /\ phase \in {"down", "marking", "serving"}
  /\ \A w \in Workers :
       \/ work[w] = Idle
       \/ /\ work[w].at \in {"lookup", "save"}
          /\ work[w].todo # <<>>
          /\ \A i \in DOMAIN work[w].todo : work[w].todo[i] \in Record
          /\ work[w].at = "save" => work[w].seen \in {Never} \cup Nat
       \/ /\ work[w].at = "recalled"
          /\ DOMAIN work[w].seen \subseteq DOMAIN rows
          /\ \A k \in DOMAIN work[w].seen : work[w].seen[k] \in Nat

Init ==
  /\ rows = [k \in {} |-> 0]
  /\ marker = Never
  /\ clock = 0
  /\ phase = "down"
  /\ work = [w \in Workers |-> Idle]

-----------------------------------------------------------------------------
(* What a turn leaves: importance is 0.9, 0.75 and 0.65, and maintenance   *)
(* only asks whether it is below 0.8.                                      *)

Explicit(f, h) ==
  [key |-> [kind |-> "explicit", facts |-> {f}, host |-> NoHost], facts |-> {f},
   category |-> IF f \in Preferences THEN "preference" ELSE "general",
   host |-> h, important |-> TRUE]

Preference(f, h) ==
  [key |-> [kind |-> "preference", facts |-> {f}, host |-> NoHost], facts |-> {f},
   category |-> "preference", host |-> h, important |-> FALSE]

Observation(f, h) ==
  [key |-> [kind |-> "system", facts |-> {f}, host |-> h], facts |-> {f},
   category |-> "system", host |-> h, important |-> FALSE]

ExtractLocalMemories(t) ==
  SetToSeq({Explicit(f, t.host) : f \in t.asked})
    \o SetToSeq({Preference(f, t.host) : f \in t.preferred})
    \o (IF t.host = NoHost THEN <<>>
        ELSE SetToSeq({Observation(f, t.host) : f \in t.result}))

-----------------------------------------------------------------------------
(* record_interaction: each record in a session and a transaction of its   *)
(* own.                                                                    *)

RecordInteraction(w) ==
  /\ phase = "serving" /\ work[w] = Idle
  /\ \E t \in Turns :
       /\ ExtractLocalMemories(t) # <<>>
       /\ work' = [work EXCEPT ![w] = [at |-> "lookup", todo |-> ExtractLocalMemories(t)]]
  /\ UNCHANGED <<rows, marker, clock, phase>>

\* LongTermMemory.store queries the key ...
StoreLookup(w) ==
  /\ phase = "serving" /\ work[w].at = "lookup"
  /\ LET k == Head(work[w].todo).key IN
     work' = [work EXCEPT ![w] =
                [at |-> "save", todo |-> @.todo,
                 seen |-> IF k \in DOMAIN rows THEN rows[k].count ELSE Never]]
  /\ UNCHANGED <<rows, marker, clock, phase>>

\* ... and updates the row it found or inserts one.  An insert that another
\* thread was faster with is refused by the unique key, and any error makes
\* store answer False, which nobody looks at.
StoreCommit(w) ==
  /\ phase = "serving" /\ work[w].at = "save"
  /\ LET r == Head(work[w].todo)
         seen == work[w].seen
         row == [facts |-> r.facts, category |-> r.category, host |-> r.host,
                 important |-> r.important, updated |-> clock,
                 count |-> IF seen = Never THEN 0 ELSE seen + 1]
     IN \/ rows' = rows
        \/ /\ seen = Never => r.key \notin DOMAIN rows
           /\ rows' = [k \in DOMAIN rows \cup {r.key} |-> IF k = r.key THEN row ELSE rows[k]]
  /\ work' = [work EXCEPT ![w] =
                IF Len(@.todo) = 1 THEN Idle ELSE [at |-> "lookup", todo |-> Tail(@.todo)]]
  /\ UNCHANGED <<marker, clock, phase>>

\* retrieve_relevant takes the rows with the best scores of those updated
\* last.  Every row scores enough, so as many as fit; the marker is not
\* excluded and may take one place.
Recall(w) ==
  /\ phase = "serving" /\ work[w] = Idle
  /\ \E chosen \in SUBSET DOMAIN rows :
       /\ chosen # {}
       /\ \E places \in IF marker = Never THEN {RecallLimit} ELSE {RecallLimit - 1, RecallLimit} :
            Cardinality(chosen) = Min({places, Cardinality(DOMAIN rows)})
       /\ \A k \in chosen :
            Cardinality({q \in DOMAIN rows : rows[q].updated > rows[k].updated})
              < Max({MaxRecords, RecallLimit})
       /\ work' = [work EXCEPT ![w] =
                     [at |-> "recalled", seen |-> [k \in chosen |-> rows[k].count]]]
  /\ UNCHANGED <<rows, marker, clock, phase>>

\* It counts the access on what it read: what another thread has counted
\* meanwhile is overwritten.  `updated_at' has `onupdate', so that a row that
\* was read is as fresh as one that was written.
RecallCommit(w) ==
  /\ phase = "serving" /\ work[w].at = "recalled"
  /\ \/ rows' = rows
     \/ rows' = [k \in DOMAIN rows |->
                   IF k \in DOMAIN work[w].seen
                   THEN [rows[k] EXCEPT !.count = work[w].seen[k] + 1, !.updated = clock]
                   ELSE rows[k]]
  /\ work' = [work EXCEPT ![w] = Idle]
  /\ UNCHANGED <<marker, clock, phase>>

-----------------------------------------------------------------------------
(* run_memory_maintenance, on a table R: merge, compact, trim.             *)

\* The order of duplicates and of what overflows: used more, or as often and
\* updated later.
Before(r, s) == r.count < s.count \/ (r.count = s.count /\ r.updated < s.updated)

SameFingerprint(r, s) == r.category = s.category /\ r.host = s.host /\ r.facts = s.facts

\* Mutant: all duplicates go, not all but the best one.
MergedAway(R) ==
  {[k \in {q \in DOMAIN R : \A p \in DOMAIN R : SameFingerprint(R[p], R[q]) => p = q} |-> R[k]]}

\* What may be left when of each group of duplicates the best one is kept.
Merged(R) ==
  {[k \in S |-> R[k]] : S \in
     {S \in SUBSET DOMAIN R :
        \A k \in DOMAIN R :
          LET group == {q \in DOMAIN R : SameFingerprint(R[k], R[q])} IN
          \E q \in group : S \cap group = {q} /\ \A p \in group : ~Before(R[q], R[p])}}

\* Mutant: what the user asked to remember is compacted too.
CompactableAny(r) ==
  /\ r.category \in {"system", "general"}
  /\ r.updated + SummaryAfter <= clock
  /\ r.count < UsedOften

\* Old, of little importance and seldom used.
Compactable(r) ==
  /\ r.category \in {"system", "general"}
  /\ r.updated + SummaryAfter <= clock
  /\ ~r.important
  /\ r.count < UsedOften

Groups(R) ==
  LET candidates == {k \in DOMAIN R : Compactable(R[k])}
      like(k) == {q \in candidates : R[q].category = R[k].category /\ R[q].host = R[k].host}
  IN {g \in {like(k) : k \in candidates} : Cardinality(g) >= MinGroup}

FactsOf(R, ks) == UNION {R[k].facts : k \in ks}

\* The texts _build_summary_text may give: some facts of the group, and all
\* as long as they fit.
Texts(R, g) ==
  {text \in SUBSET FactsOf(R, g) :
     Cardinality(text) >= Min({SummaryFits, Cardinality(FactsOf(R, g))})}

Summary(text, h, old) ==
  [facts |-> text, category |-> "summary", host |-> h, important |-> FALSE,
   count |-> old, updated |-> clock]

\* What may be left when each group has given way to its summary.  One with
\* the same text is updated and keeps its count.
Compacted(R) ==
  {LET summaryOf(g) == [kind |-> "summary", facts |-> text[g],
                        host |-> R[CHOOSE k \in g : TRUE].host]
       summaries == {summaryOf(g) : g \in Groups(R)}
   IN [k \in (DOMAIN R \ UNION Groups(R)) \cup summaries |->
         IF k \in summaries
         THEN Summary(k.facts, k.host, IF k \in DOMAIN R THEN R[k].count ELSE 0)
         ELSE R[k]]
   : text \in {f \in [Groups(R) -> SUBSET Facts] : \A g \in Groups(R) : f[g] \in Texts(R, g)}}

\* What may be left when the rows used least, and of those the oldest, have
\* gone until MaxRecords are there.
Trimmed(R) ==
  IF Cardinality(DOMAIN R) <= MaxRecords THEN {R}
  ELSE {[k \in S |-> R[k]] : S \in
          {S \in SUBSET DOMAIN R :
             /\ Cardinality(S) = MaxRecords
             /\ \A k \in S, q \in DOMAIN R \ S : ~Before(R[k], R[q])}}

RunMaintenance(R) == UNION {UNION {Trimmed(C) : C \in Compacted(M)} : M \in Merged(R)}

-----------------------------------------------------------------------------
(* The process: maintenance when it is due, then it serves.                *)

Due == marker # Never => clock - marker >= Interval

\* Mutant: maintenance runs while the process serves.
MaintainBeside ==
  /\ phase \in {"down", "serving"} /\ Due
  /\ rows' \in RunMaintenance(rows)
  /\ phase' = "marking"
  /\ UNCHANGED <<marker, clock, work>>

\* maybe_run_memory_maintenance commits the table first ...
Maintain ==
  /\ phase = "down" /\ Due
  /\ rows' \in RunMaintenance(rows)
  /\ phase' = "marking"
  /\ UNCHANGED <<marker, clock, work>>

\* ... and the marker after it.
Mark ==
  /\ phase = "marking"
  /\ marker' = clock
  /\ phase' = "serving"
  /\ UNCHANGED <<rows, clock, work>>

\* Not due; or an error, which is rolled back and logged.
Serve ==
  /\ phase \in {"down", "marking"}
  /\ phase' = "serving"
  /\ UNCHANGED <<rows, marker, clock, work>>

\* The process ends wherever it is, and its threads with it.
Stop ==
  /\ phase # "down"
  /\ phase' = "down"
  /\ work' = [w \in Workers |-> Idle]
  /\ UNCHANGED <<rows, marker, clock>>

Tick ==
  /\ phase # "marking"
  /\ clock' = clock + 1
  /\ UNCHANGED <<rows, marker, phase, work>>

Next ==
  \/ \E w \in Workers :
       \/ RecordInteraction(w) \/ StoreLookup(w) \/ StoreCommit(w)
       \/ Recall(w) \/ RecallCommit(w)
  \/ Maintain \/ Mark \/ Serve \/ Stop \/ Tick

Spec == Init /\ [][Next]_vars

-----------------------------------------------------------------------------
(* Properties.                                                             *)

Held == FactsOf(rows, DOMAIN rows)

Maintained == phase # "marking" /\ phase' = "marking"

\* README.md:270 `trims overflow': r may have been dropped, because the table
\* is left full and nothing in it was used less, or as little and longer ago.
Overflowed(r) ==
  /\ Maintained /\ Cardinality(DOMAIN rows') = MaxRecords
  /\ \A k \in DOMAIN rows' : ~Before(rows'[k], r)

\* r may have given way to a summary of its host that has no room for it.
Squeezed(r) ==
  /\ Maintained /\ Compactable(r)
  /\ \E k \in DOMAIN rows' :
       /\ rows'[k].category = "summary" /\ rows'[k].host = r.host
       /\ rows'[k].updated = clock /\ Cardinality(rows'[k].facts) >= SummaryFits

\* README.md:268-270: nothing but maintenance forgets, and it forgets a fact
\* only if what held it, or its summary, overflows the table, or if its
\* observation is old and the text of the summary of its host is full.
NothingSilentlyLost ==
  [][\A f \in Held \ Held' :
       \E k \in DOMAIN rows :
         /\ f \in rows[k].facts
         /\ \/ Overflowed(rows[k])
            \/ Squeezed(rows[k])
            \/ Compactable(rows[k]) /\ Overflowed(Summary({f}, rows[k].host, 0))]_vars

\* The rows of their own of what the user asked to remember, or prefers.
OwnRows(f) ==
  {k \in DOMAIN rows :
     rows[k].facts = {f} /\ (rows[k].important \/ rows[k].category = "preference")}

\* README.md:270 `compacts older low-importance operational records': what the
\* user asked to remember keeps a row of its own, however old it is and
\* whatever duplicates it has, until that row overflows the table.
AskedIsKept ==
  [][\A f \in Facts : OwnRows(f) # {} /\ OwnRows(f)' = {} =>
       \E k \in OwnRows(f) : Overflowed(rows[k])]_vars

=============================================================================
