------------------------------ MODULE HostTree ------------------------------
(***************************************************************************)
(* The hosts of backend/routers/systems.py and their hierarchy: rows of    *)
(* table systems, each with a parent, changed by registration, by saves    *)
(* from edit forms of browser pages (frontend/src/pages/SshManager.jsx),   *)
(* by reorder requests and by deletion, alone or together with an SSH key  *)
(* (backend/routers/ssh.py).                                               *)
(*                                                                         *)
(* Every handler is `async def' without an await: one step each.  What is  *)
(* not atomic is an edit: the form keeps the parent it was opened with and *)
(* sends it back when it is saved.                                         *)
(*                                                                         *)
(* Abstractions.  Of a host only its parent is kept: which one a save      *)
(* without an id finds by name, key path or address is left open.  SQLite  *)
(* enforces no foreign key.                                                *)
(***************************************************************************)
EXTENDS Integers, FiniteSets

CONSTANTS
  Systems,  \* host ids
  Pages,    \* browser pages with an edit form
  None      \* no parent, no form

ASSUME NoneAssumption == None \notin Systems

\* Ids are strings of a column of SQLite, which stores none above a gigabyte.
ASSUME SystemsAssumption == IsFiniteSet(Systems)

VARIABLES
  known,   \* ids of the rows
  parent,  \* parent_id of each row, None for an id without a row
  form,    \* the edit form open on each page
  lost     \* history: hosts the last deletion removed without being asked to

vars == <<known, parent, form, lost>>

Form == [sys: Systems \cup {None}, parent: Systems \cup {None}]

TypeOK ==
  /\ known \subseteq Systems
  /\ parent \in [Systems -> Systems \cup {None}]
  /\ \A s \in Systems \ known : parent[s] = None
  /\ form \in [Pages -> Form \cup {None}]
  /\ lost \subseteq Systems

Init ==
  /\ known = {}
  /\ parent = [s \in Systems |-> None]
  /\ form = [p \in Pages |-> None]
  /\ lost = {}

-----------------------------------------------------------------------------
(* Registration and edit forms.                                            *)

\* A host that is set up or saved for the first time has no parent.
Register(s) ==
  /\ s \notin known
  /\ known' = known \cup {s}
  /\ lost' = {}
  /\ UNCHANGED <<parent, form>>

Open(p, s) ==
  /\ s \in known
  /\ form' = [form EXCEPT ![p] = [sys |-> s, parent |-> parent[s]]]
  /\ lost' = {}
  /\ UNCHANGED <<known, parent>>

\* The form of a key that is linked to no host has neither id nor parent.
OpenUnlinked(p) ==
  /\ form' = [form EXCEPT ![p] = [sys |-> None, parent |-> None]]
  /\ lost' = {}
  /\ UNCHANGED <<known, parent>>

\* The host a save falls on: the form's, while it has a row.  Otherwise any host
\* that has its key or address, or, for a form without an id, its name; else the
\* row is inserted, with the id of the form or a new one.
Target(p, s) ==
  IF form[p].sys \in known THEN s = form[p].sys
                           ELSE s \in known \/ form[p].sys \in {s, None}

\* save_system.  The parent is taken as it comes.
Save(p, s) ==
  /\ form[p] # None
  /\ Target(p, s)
  /\ known' = known \cup {s}
  /\ parent' = [parent EXCEPT ![s] = form[p].parent]
  /\ form' = [form EXCEPT ![p] = None]
  /\ lost' = {}

-----------------------------------------------------------------------------
(* reorder_systems.                                                        *)

\* Mutant: an update of an id without a row is not skipped.
MergedUnknown(upd) == [s \in Systems |-> IF s \in DOMAIN upd THEN upd[s] ELSE parent[s]]

\* The parents after the updates; ids without a row are skipped.
Merged(upd) ==
  [s \in Systems |-> IF s \in known /\ s \in DOMAIN upd THEN upd[s] ELSE parent[s]]

\* Ancestor(par, s)[n] is what the walk up from s has reached after n steps.
\* It stops at a parent without a row.
Ancestor(par, s) ==
  LET up[n \in 0..Cardinality(Systems)] ==
        IF n = 0 THEN par[s]
        ELSE IF up[n - 1] \in known THEN par[up[n - 1]] ELSE None
  IN up

\* Mutant: only a host that is its own parent is refused.
CycleFoundSelf(par) == \E s \in known : par[s] = s

\* The loop `Cycle detection': walking up from some host comes back to it, or
\* to a host the walk has seen.
CycleFound(par) ==
  \E s \in known :
    LET up == Ancestor(par, s) IN
    \E n \in DOMAIN up :
      /\ up[n] # None
      /\ up[n] = s \/ \E m \in 0..(n - 1) : up[m] = up[n]

\* 400 for a host under itself, an unknown parent or a cycle.
Reorder(upd) ==
  /\ \A s \in DOMAIN upd \cap known :
       upd[s] # s /\ (upd[s] # None => upd[s] \in known)
  /\ ~CycleFound(Merged(upd))
  /\ parent' = Merged(upd)
  /\ lost' = {}
  /\ UNCHANGED <<known, form>>

Updates == UNION {[U -> Systems \cup {None}] : U \in SUBSET Systems}

-----------------------------------------------------------------------------
(* Deletion.                                                               *)

\* delete_system and _delete_systems_definitively first set the children of
\* the deleted hosts free.
Orphaned(S) ==
  [s \in Systems |-> IF parent[s] \in S /\ s \notin S THEN None ELSE parent[s]]

\* System.children has remote_side=[id], so it leads from a host to its
\* parent, and its cascade deletes the parent too, and so on upwards.
Cascaded(S, par) ==
  {t \in known : \A T \in SUBSET known :
     S \subseteq T /\ (\A u \in T : par[u] \in known => par[u] \in T) => t \in T}

\* Mutant: the rows go, and nothing is done about the hosts below them.
RemoveOnly(S) ==
  LET gone == Cascaded(S, Orphaned(S)) IN
  /\ known' = known \ gone
  /\ parent' = [s \in Systems |-> IF s \in gone THEN None ELSE parent[s]]
  /\ lost' = gone \ S
  /\ UNCHANGED form

\* The backref frees the other children of every host deleted on the way.  (Hosts
\* on a cycle cannot be sorted for deletion: the request may fail instead,
\* which changes nothing.)
Remove(S) ==
  LET par == Orphaned(S)
      gone == Cascaded(S, par) IN
  /\ known' = known \ gone
  /\ parent' = [s \in Systems |-> IF s \in gone \/ par[s] \in gone THEN None ELSE par[s]]
  /\ lost' = gone \ S
  /\ UNCHANGED form

Delete(s) == s \in known /\ Remove({s})

\* delete_ssh_key: all hosts linked to the key.
DeleteWithKey(S) == S # {} /\ S \subseteq known /\ Remove(S)

-----------------------------------------------------------------------------

Next ==
  \/ \E s \in Systems : Register(s) \/ Delete(s)
  \/ \E p \in Pages : OpenUnlinked(p) \/ \E s \in Systems : Open(p, s) \/ Save(p, s)
  \/ \E upd \in Updates : Reorder(upd)
  \/ \E S \in SUBSET Systems : DeleteWithKey(S)

Spec == Init /\ [][Next]_vars

-----------------------------------------------------------------------------
(* Properties.                                                             *)

IsForest(K, par) ==
  \A T \in SUBSET K : T # {} => \E s \in T : par[s] \notin T

\* No host is above itself.
Forest == IsForest(known, parent)

\* The parent of every host exists.
NoDangling == \A s \in known : parent[s] \in known \cup {None}

\* A form is saved that holds another parent than the host it falls on has by now.
StaleSave == \E p \in Pages, s \in Systems : Save(p, s) /\ form[p].parent # parent[s]

\* docs/index.html:1025: hosts form a hierarchy.  Only a stale save can close a
\* cycle: registration, deletion, reordering and fresh saves keep a forest.
ForestKept == [][Forest /\ ~StaleSave => Forest']_vars

\* systems.py:278 `Unknown parent system': only a stale save can leave a host
\* below one that does not exist.
ParentsKept == [][NoDangling /\ ~StaleSave => NoDangling']_vars

\* Only the save of a stale form spoils the hierarchy, in either way.
HierarchyKept == ForestKept /\ ParentsKept

\* Any reorder request that is accepted leaves a forest, whatever stale saves
\* have done to the hierarchy before.
ReorderMakesForest ==
  [][(\E upd \in Updates : Reorder(upd)) => Forest']_vars

\* A deletion leaves no host under a host it removed.
DeletionFreesChildren ==
  [][\A s \in known' : parent'[s] \notin known \ known']_vars

\* systems.py:233 `Orphan children instead of cascade-deleting them', ssh.py:183
\* `Preserve unrelated child hosts': a deletion removes only hosts it names.
DeletionIsExact == lost = {}

=============================================================================
