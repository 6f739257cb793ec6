--------------------------- MODULE HostTreeProofs ---------------------------
(***************************************************************************)
(* Theorems about HostTree, for any number of hosts and pages.             *)
(***************************************************************************)
EXTENDS HostTree, FiniteSetTheorems, WellFoundedInduction, TLAPS

\* Every deleted host was known.
LEMMA CascadedKnown ==
  ASSUME NEW S, NEW par
  PROVE  Cascaded(S, par) \subseteq known
BY DEF Cascaded

\* What a deletion does to the rows, whatever it takes along.
LEMMA RemoveEffect ==
  ASSUME TypeOK, NEW S \in SUBSET known, Remove(S)
  PROVE  /\ known' \subseteq known
         /\ parent' \in [Systems -> Systems \cup {None}]
         /\ \A s \in Systems : parent'[s] \in {parent[s], None}
         /\ \A s \in Systems \ known' : parent'[s] = None
         /\ \A s \in Systems : parent'[s] \notin known \ known'
         /\ form' = form
         /\ lost' \subseteq Systems
<1> DEFINE par == Orphaned(S)
           gone == Cascaded(S, par)
<1>1. gone \subseteq known
  BY CascadedKnown
<1>2. /\ known' = known \ gone
      /\ parent' = [s \in Systems |-> IF s \in gone \/ par[s] \in gone THEN None ELSE par[s]]
      /\ lost' = gone \ S
      /\ form' = form
  BY DEF Remove
<1>3. \A s \in Systems : par[s] \in {parent[s], None}
  BY DEF Orphaned
<1>4. \A s \in Systems \ known : parent[s] = None
  BY DEF TypeOK
<1> HIDE DEF par, gone
<1>5. \A s \in Systems : parent'[s] \in {parent[s], None}
  BY <1>2, <1>3
<1>6. parent' \in [Systems -> Systems \cup {None}]
  BY <1>2, <1>5 DEF TypeOK
<1>7. \A s \in Systems \ known' : parent'[s] = None
  BY <1>2, <1>3, <1>4
<1>8. \A s \in Systems : parent'[s] \notin known \ known'
  BY <1>1, <1>2, NoneAssumption DEF TypeOK
<1> QED
  BY <1>1, <1>2, <1>5, <1>6, <1>7, <1>8 DEF TypeOK

\* A deletion by id is a removal of a known host.
LEMMA Deletions ==
  ASSUME NEW s, Delete(s) PROVE {s} \in SUBSET known /\ Remove({s})
BY DEF Delete

\* Which action a step is.
LEMMA Steps ==
  ASSUME Next
  PROVE  \/ \E s \in Systems : Register(s)
         \/ \E p \in Pages, s \in Systems : Save(p, s)
         \/ \E p \in Pages, s \in Systems : Open(p, s)
         \/ \E p \in Pages : OpenUnlinked(p)
         \/ \E upd \in Updates : Reorder(upd)
         \/ \E S \in SUBSET known : Remove(S)
<1>1. ASSUME NEW s \in Systems, Delete(s) PROVE \E S \in SUBSET known : Remove(S)
  BY <1>1, Deletions
<1>2. ASSUME NEW S \in SUBSET Systems, DeleteWithKey(S) PROVE \E T \in SUBSET known : Remove(T)
  BY <1>2 DEF DeleteWithKey
<1> QED
  BY <1>1, <1>2 DEF Next

\* An accepted reorder request keeps the rows well formed.
LEMMA ReorderEffect ==
  ASSUME TypeOK, NEW upd \in Updates, Reorder(upd)
  PROVE  /\ known' = known
         /\ parent' \in [Systems -> Systems \cup {None}]
         /\ \A s \in known : parent'[s] = parent[s] \/ parent'[s] \in known \cup {None}
         /\ \A s \in Systems \ known : parent'[s] = parent[s]
         /\ form' = form
         /\ lost' = {}
<1>1. PICK U \in SUBSET Systems : upd \in [U -> Systems \cup {None}]
  BY DEF Updates
<1>2. DOMAIN upd = U
  BY <1>1
<1> QED
  BY <1>1, <1>2 DEF Reorder, Merged, TypeOK

-----------------------------------------------------------------------------

\* The rows and forms keep the values the code gives them, and a host without
\* a row has no parent.
THEOREM TypeCorrect == Spec => []TypeOK
<1>1. Init => TypeOK
  BY DEF Init, TypeOK
<1>2. TypeOK /\ [Next]_vars => TypeOK'
  <2> SUFFICES ASSUME TypeOK, [Next]_vars PROVE TypeOK'
    OBVIOUS
  <2>1. CASE UNCHANGED vars
    BY <2>1 DEF TypeOK, vars
  <2>2. ASSUME NEW s \in Systems, Register(s) PROVE TypeOK'
    BY <2>2 DEF Register, TypeOK
  <2>3. ASSUME NEW p \in Pages, NEW s \in Systems, Save(p, s) PROVE TypeOK'
    <3>1. form[p] \in Form
      BY <2>3 DEF Save, TypeOK
    <3>2. form[p].parent \in Systems \cup {None}
      BY <3>1 DEF Form
    <3> QED
      BY <2>3, <3>2 DEF Save, TypeOK
  <2>4. ASSUME NEW p \in Pages, NEW s \in Systems, Open(p, s) PROVE TypeOK'
    BY <2>4 DEF Open, TypeOK, Form
  <2>7. ASSUME NEW p \in Pages, OpenUnlinked(p) PROVE TypeOK'
    BY <2>7 DEF OpenUnlinked, TypeOK, Form
  <2>5. ASSUME NEW upd \in Updates, Reorder(upd) PROVE TypeOK'
    BY <2>5, ReorderEffect DEF TypeOK
  <2>6. ASSUME NEW S \in SUBSET known, Remove(S) PROVE TypeOK'
    BY <2>6, RemoveEffect DEF TypeOK
  <2> QED
    BY <2>1, <2>2, <2>3, <2>4, <2>5, <2>6, <2>7, Steps
<1> QED
  BY <1>1, <1>2, PTL DEF Spec

\* A deletion, alone or with a key, whatever the cascade takes along and
\* whatever stale saves did before: no host is left below a removed one.
THEOREM DeletionFrees == Spec => DeletionFreesChildren
<1>1. TypeOK /\ [Next]_vars => [\A s \in known' : parent'[s] \notin known \ known']_vars
  <2> SUFFICES ASSUME TypeOK, Next PROVE \A s \in known' : parent'[s] \notin known \ known'
    BY DEF vars
  <2>1. CASE known \subseteq known'
    BY <2>1
  <2>2. ASSUME NEW S \in SUBSET known, Remove(S)
        PROVE \A s \in known' : parent'[s] \notin known \ known'
    BY <2>2, RemoveEffect DEF TypeOK
  <2>3. ASSUME NEW upd \in Updates, Reorder(upd) PROVE known \subseteq known'
    BY <2>3 DEF Reorder
  <2> QED
    BY <2>1, <2>2, <2>3, Steps DEF Register, Save, Open, OpenUnlinked
<1> QED
  BY <1>1, TypeCorrect, PTL DEF Spec, DeletionFreesChildren

\* A set that is closed under parents holds what a deletion of it takes along, ...
LEMMA CascadeStays ==
  ASSUME NEW S \in SUBSET known, NEW par, \A s \in S : par[s] \in known => par[s] \in S
  PROVE  Cascaded(S, par) \subseteq S
BY DEF Cascaded

\* ... and the parent of a deleted host goes with it.
LEMMA CascadeClimbs ==
  ASSUME NEW S, NEW par, NEW s \in S, par[s] \in known
  PROVE  par[s] \in Cascaded(S, par)
BY DEF Cascaded

\* When a deletion, alone or with a key, is what systems.py:233 `Orphan children
\* instead of cascade-deleting them' says: exactly when the parent of each host it
\* names is named too, or has no row.  A host with another parent takes it along,
\* whatever the hierarchy looks like.
THEOREM ExactAtTheTop ==
  Spec => [][\A S \in SUBSET known : Remove(S) =>
               (lost' = {} <=> \A s \in S : parent[s] \notin known \ S)]_vars
<1>1. TypeOK /\ [Next]_vars =>
        [\A S \in SUBSET known : Remove(S) =>
           (lost' = {} <=> \A s \in S : parent[s] \notin known \ S)]_vars
  <2> SUFFICES ASSUME TypeOK, NEW S \in SUBSET known, Remove(S)
               PROVE lost' = {} <=> \A s \in S : parent[s] \notin known \ S
    OBVIOUS
  <2> DEFINE par == Orphaned(S)
  <2>1. lost' = Cascaded(S, par) \ S
    BY DEF Remove
  <2>2. \A s \in S : par[s] = parent[s]
    BY DEF Orphaned, TypeOK
  <2> HIDE DEF par
  <2>3. ASSUME \A s \in S : parent[s] \notin known \ S PROVE lost' = {}
    BY <2>1, <2>2, <2>3, CascadeStays
  <2>4. ASSUME NEW s \in S, parent[s] \in known \ S PROVE lost' # {}
    BY <2>1, <2>2, <2>4, CascadeClimbs
  <2> QED
    BY <2>3, <2>4
<1> QED
  BY <1>1, TypeCorrect, PTL DEF Spec

-----------------------------------------------------------------------------
(* The walk of reorder_systems finds every cycle.  Its steps are counted,  *)
(* so that what holds of all of them is proved by the least step at which  *)
(* it would not.                                                           *)

LEMMA LeastNumber ==
  ASSUME NEW S \in SUBSET Nat, S # {}
  PROVE  \E m \in S : \A n \in S : m <= n
<1>1. PICK m \in S : \A n \in S : <<n, m>> \notin OpToRel(<, Nat)
  BY WFMin, NatLessThanWellFounded
<1>2. \A n \in S : ~(n < m)
  BY <1>1 DEF OpToRel
<1>3. QED BY <1>2

\* u is the walk up from s, as far as k steps.
Walk(par, s, u, k) ==
  u = [n \in 0..k |-> IF n = 0 THEN par[s]
                      ELSE IF u[n - 1] \in known THEN par[u[n - 1]] ELSE None]

LEMMA WalkExists ==
  ASSUME NEW par, NEW s, NEW k \in Nat
  PROVE  \E u : Walk(par, s, u, k)
<1> DEFINE bad == {n \in Nat : ~\E u : Walk(par, s, u, n)}
<1>1. SUFFICES ASSUME bad # {} PROVE FALSE
  OBVIOUS
<1>2. PICK m \in bad : \A n \in bad : m <= n
  BY <1>1, LeastNumber
<1>3. m \in Nat /\ ~\E u : Walk(par, s, u, m)
  OBVIOUS
<1>4. CASE m = 0
  <2> DEFINE u == [n \in 0..0 |-> par[s]]
  <2>1. Walk(par, s, u, 0)
    BY DEF Walk
  <2> HIDE DEF u
  <2>2. QED BY <1>3, <1>4, <2>1
<1>5. CASE m # 0
  <2>1. m - 1 \in Nat /\ m - 1 \notin bad
    BY <1>2, <1>3, <1>5
  <2>2. PICK v : Walk(par, s, v, m - 1)
    BY <2>1
  <2> DEFINE top == IF v[m - 1] \in known THEN par[v[m - 1]] ELSE None
             u == [n \in 0..m |-> IF n = m THEN top ELSE v[n]]
             e(n) == IF n = 0 THEN par[s]
                     ELSE IF u[n - 1] \in known THEN par[u[n - 1]] ELSE None
  <2>3. \A n \in 0..(m - 1) :
          v[n] = IF n = 0 THEN par[s]
                 ELSE IF v[n - 1] \in known THEN par[v[n - 1]] ELSE None
    BY <2>2 DEF Walk
  <2>4. \A n \in 0..m : u[n] = e(n)
    <3> SUFFICES ASSUME NEW n \in 0..m PROVE u[n] = e(n)
      OBVIOUS
    <3>1. n # 0 => n - 1 \in 0..m /\ n - 1 # m /\ u[n - 1] = v[n - 1]
      BY <1>3
    <3>2. CASE n = m
      BY <1>5, <3>1, <3>2
    <3>3. CASE n # m
      <4>1. n \in 0..(m - 1) /\ u[n] = v[n]
        BY <1>3, <3>3
      <4>2. QED BY <2>3, <3>1, <4>1
    <3>4. QED BY <3>2, <3>3
  <2>5. u = [n \in 0..m |-> e(n)]
    <3>1. u = [n \in 0..m |-> u[n]]
      OBVIOUS
    <3> HIDE DEF u, e
    <3>2. QED BY <2>4, <3>1
  <2>6. Walk(par, s, u, m)
    <3> HIDE DEF u
    <3>1. QED BY <2>5 DEF Walk
  <2> HIDE DEF u
  <2>7. QED BY <1>3, <2>6
<1>6. QED BY <1>4, <1>5

\* Ancestor is that walk, with as many steps as there are hosts.
LEMMA AncestorWalks ==
  ASSUME NEW par, NEW s
  PROVE  Walk(par, s, Ancestor(par, s), Cardinality(Systems))
<1>1. Cardinality(Systems) \in Nat
  BY SystemsAssumption, FS_CardinalityType
<1>2. \E u : Walk(par, s, u, Cardinality(Systems))
  BY <1>1, WalkExists
<1>3. Ancestor(par, s) = CHOOSE u : Walk(par, s, u, Cardinality(Systems))
  BY Zenon DEF Ancestor, Walk
<1>4. QED BY <1>2, <1>3

\* Hosts whose parents are all among them are never left.
LEMMA WalkStays ==
  ASSUME NEW par, NEW T \in SUBSET known, \A t \in T : par[t] \in T, NEW s \in T,
         NEW k \in Nat, NEW u, Walk(par, s, u, k)
  PROVE  u \in [0..k -> T]
<1>1. /\ \A n \in 0..k : u[n] = IF n = 0 THEN par[s]
                                ELSE IF u[n - 1] \in known THEN par[u[n - 1]] ELSE None
      /\ u = [n \in 0..k |-> u[n]]
  <2>1. u = [n \in 0..k |-> IF n = 0 THEN par[s]
                            ELSE IF u[n - 1] \in known THEN par[u[n - 1]] ELSE None]
    BY DEF Walk
  <2>2. \A n \in 0..k : u[n] = IF n = 0 THEN par[s]
                               ELSE IF u[n - 1] \in known THEN par[u[n - 1]] ELSE None
    BY <2>1, Zenon
  <2>3. DOMAIN u = 0..k /\ u = [n \in DOMAIN u |-> u[n]]
    BY <2>1, Zenon
  <2>4. QED BY <2>2, <2>3
<1> DEFINE out == {n \in 0..k : u[n] \notin T}
<1>2. out = {}
  <2>1. SUFFICES ASSUME out # {} PROVE FALSE
    OBVIOUS
  <2>2. PICK m \in out : \A n \in out : m <= n
    <3>1. out \in SUBSET Nat
      OBVIOUS
    <3> HIDE DEF out
    <3>2. QED BY <2>1, <3>1, LeastNumber
  <2>3. m \in 0..k /\ u[m] \notin T /\ (m # 0 => m - 1 \in 0..k /\ m - 1 \notin out)
    BY <2>2
  <2>4. m # 0 => u[m - 1] \in T
    BY <2>3
  <2>5. QED BY <1>1, <2>3, <2>4
<1>3. QED BY <1>1, <1>2

\* Where no walk finds a cycle, the hosts are a forest: on hosts whose parents
\* are all among them, a walk has more steps than it has hosts to visit.
LEMMA CyclesAreFound ==
  ASSUME TypeOK, NEW par, ~CycleFound(par)
  PROVE  IsForest(known, par)
<1> SUFFICES ASSUME NEW T \in SUBSET known, T # {}, \A t \in T : par[t] \in T
             PROVE  FALSE
  BY DEF IsForest
<1>1. PICK s \in T : TRUE
  OBVIOUS
<1> DEFINE N == Cardinality(Systems)
           up == Ancestor(par, s)
<1>2. N \in Nat
  BY SystemsAssumption, FS_CardinalityType
<1>3. up \in [0..N -> T]
  <2>1. Walk(par, s, up, N)
    BY AncestorWalks
  <2> HIDE DEF up, N
  <2>2. QED BY <1>2, <2>1, WalkStays
<1>4. IsFiniteSet(T) /\ Cardinality(T) <= N
  BY SystemsAssumption, FS_Subset DEF TypeOK
<1>5. IsFiniteSet(0..N) /\ Cardinality(0..N) = N + 1
  <2> HIDE DEF N
  <2>1. QED BY <1>2, FS_Interval
<1>6. PICK m, n \in 0..N : m # n /\ up[m] = up[n]
  <2>1. Cardinality(T) \in Nat
    BY <1>4, FS_CardinalityType
  <2> HIDE DEF up, N
  <2>2. Cardinality(T) < Cardinality(0..N)
    BY <1>2, <1>4, <1>5, <2>1
  <2>3. QED BY <1>3, <1>4, <1>5, <2>2, FS_PigeonHole
<1>7. \E i, j \in 0..N : j < i /\ up[j] = up[i]
  <2> HIDE DEF up, N
  <2>1. QED BY <1>2, <1>6
<1>8. PICK i, j \in 0..N : j < i /\ up[j] = up[i]
  BY <1>7
<1>9. /\ DOMAIN up = 0..N /\ i \in DOMAIN up /\ j \in 0..(i - 1)
      /\ up[i] \in T /\ None \notin T
  <2>1. None \notin T
    BY NoneAssumption DEF TypeOK
  <2> HIDE DEF up, N
  <2>2. QED BY <1>2, <1>3, <1>8, <2>1
<1>10. CycleFound(par)
  <2>1. s \in known /\ i \in DOMAIN up /\ up[i] # None /\ \E p \in 0..(i - 1) : up[p] = up[i]
    BY <1>8, <1>9
  <2>2. QED BY <2>1 DEF CycleFound
<1>11. QED BY <1>10

\* systems.py `Cycle detection': any reorder request that is accepted leaves a
\* forest, however many hosts there are and whatever they were before.
THEOREM ReorderLeavesForest == Spec => ReorderMakesForest
<1>1. TypeOK /\ [Next]_vars => [(\E upd \in Updates : Reorder(upd)) => Forest']_vars
  <2> SUFFICES ASSUME TypeOK, NEW upd \in Updates, Reorder(upd) PROVE Forest'
    OBVIOUS
  <2>1. known' = known /\ parent' = Merged(upd) /\ ~CycleFound(Merged(upd))
    BY DEF Reorder
  <2>2. IsForest(known, Merged(upd))
    BY <2>1, CyclesAreFound
  <2> QED
    BY <2>1, <2>2 DEF Forest, IsForest
<1> QED
  BY <1>1, TypeCorrect, PTL DEF Spec, ReorderMakesForest

-----------------------------------------------------------------------------
(* Only stale saves.                                                       *)

\* A save of a form that is not stale leaves every parent as it is.
LEMMA FreshSave ==
  ASSUME TypeOK, NEW p \in Pages, NEW s \in Systems, Save(p, s), ~StaleSave
  PROVE  parent' = parent /\ known' = known \cup {s}
<1>1. form[p].parent = parent[s]
  BY DEF StaleSave
<1> QED
  BY <1>1 DEF Save, TypeOK

\* Registration sets no parent, reorder refuses unknown ones, deletion frees
\* the children: only a stale save leaves a host below one that is gone.
THEOREM ParentsAreKept == Spec => ParentsKept
<1>1. TypeOK /\ [Next]_vars => [NoDangling /\ ~StaleSave => NoDangling']_vars
  <2> SUFFICES ASSUME TypeOK, NoDangling, Next, ~StaleSave PROVE NoDangling'
    OBVIOUS
  <2>1. ASSUME NEW s \in Systems, Register(s) PROVE NoDangling'
    BY <2>1 DEF Register, NoDangling, TypeOK
  <2>2. ASSUME NEW upd \in Updates, Reorder(upd) PROVE NoDangling'
    BY <2>2, ReorderEffect DEF NoDangling
  <2>3. ASSUME NEW S \in SUBSET known, Remove(S) PROVE NoDangling'
    BY <2>3, RemoveEffect DEF NoDangling, TypeOK
  <2>4. ASSUME NEW p \in Pages, NEW s \in Systems, Save(p, s) PROVE NoDangling'
    <3>1. \A t \in known' : t \in known \/ parent[t] = None
      BY <2>4, FreshSave DEF TypeOK
    <3> QED
      BY <2>4, <3>1, FreshSave DEF NoDangling
  <2>5. ASSUME NEW p \in Pages, NEW s \in Systems, Open(p, s) PROVE NoDangling'
    BY <2>5 DEF Open, NoDangling
  <2>6. ASSUME NEW p \in Pages, OpenUnlinked(p) PROVE NoDangling'
    BY <2>6 DEF OpenUnlinked, NoDangling
  <2> QED
    BY <2>1, <2>2, <2>3, <2>4, <2>5, <2>6, Steps
<1> QED
  BY <1>1, TypeCorrect, PTL DEF Spec, ParentsKept

\* Only a stale save closes a cycle: no other handler can, an accepted reorder
\* request and a deletion with its cascade included.
THEOREM StaysForest == Spec => ForestKept
<1> DEFINE ReorderStep == (\E upd \in Updates : Reorder(upd)) => Forest'
<1>1. TypeOK /\ [Next]_vars /\ [ReorderStep]_vars => [Forest /\ ~StaleSave => Forest']_vars
  <2> SUFFICES ASSUME TypeOK, Forest, Next, ReorderStep, ~StaleSave PROVE Forest'
    OBVIOUS
  <2>1. ASSUME NEW s \in Systems, s \notin known, known' = known \cup {s},
               parent' = parent
        PROVE  Forest'
    <3> SUFFICES ASSUME NEW T \in SUBSET known', T # {}
                 PROVE \E t \in T : parent'[t] \notin T
      BY DEF Forest, IsForest
    <3>1. parent'[s] = None /\ None \notin T
      BY <2>1, NoneAssumption DEF TypeOK
    <3>2. CASE s \in T
      BY <3>1, <3>2
    <3>3. CASE s \notin T
      BY <2>1, <3>3 DEF Forest, IsForest
    <3> QED
      BY <3>2, <3>3
  <2>2. ASSUME NEW s \in Systems, Register(s) PROVE Forest'
    BY <2>1, <2>2 DEF Register
  <2>3. ASSUME NEW upd \in Updates, Reorder(upd) PROVE Forest'
    BY <2>3
  <2>4. ASSUME NEW S \in SUBSET known, Remove(S) PROVE Forest'
    <3> SUFFICES ASSUME NEW T \in SUBSET known', T # {}
                 PROVE \E t \in T : parent'[t] \notin T
      BY DEF Forest, IsForest
    <3>1. T \in SUBSET known /\ None \notin T
      BY <2>4, RemoveEffect, NoneAssumption DEF TypeOK
    <3>2. PICK t \in T : parent[t] \notin T
      BY <3>1 DEF Forest, IsForest
    <3> QED
      BY <2>4, <3>1, <3>2, RemoveEffect DEF TypeOK
  <2>5. ASSUME NEW p \in Pages, NEW s \in Systems, Save(p, s) PROVE Forest'
    <3>1. CASE s \in known
      <4>1. known' = known /\ parent' = parent
        BY <2>5, <3>1, FreshSave
      <4> QED
        BY <4>1 DEF Forest, IsForest
    <3>2. CASE s \notin known
      BY <2>1, <2>5, <3>2, FreshSave
    <3> QED
      BY <3>1, <3>2
  <2>6. ASSUME NEW p \in Pages, NEW s \in Systems, Open(p, s) PROVE Forest'
    BY <2>6 DEF Open, Forest, IsForest
  <2>7. ASSUME NEW p \in Pages, OpenUnlinked(p) PROVE Forest'
    BY <2>7 DEF OpenUnlinked, Forest, IsForest
  <2> QED
    BY <2>2, <2>3, <2>4, <2>5, <2>6, <2>7, Steps
<1> QED
  BY <1>1, TypeCorrect, ReorderLeavesForest, PTL DEF Spec, ReorderMakesForest, ForestKept

\* Only the save of a stale form spoils the hierarchy, by a cycle or by a
\* parent that is gone.
THEOREM HierarchyStays == Spec => HierarchyKept
  BY ParentsAreKept, StaysForest DEF HierarchyKept

=============================================================================
