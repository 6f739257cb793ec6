--------------------------- MODULE KeyStoreProofs ---------------------------
(***************************************************************************)
(* Theorems about KeyStore, for any set of keys and of hosts: its types,   *)
(* and that what a key consists of stays together through failures,        *)
(* crashes, exports and restores.                                          *)
(***************************************************************************)
EXTENDS KeyStore, TLAPS

-----------------------------------------------------------------------------
(* Strengthenings.                                                         *)

Create == {"createPublic", "createIndex", "createCommit"}
Deletion == {"deletePrivate", "deletePublic", "deleteIndex", "deleteCommit"}

\* What a handler has already done at each of its steps.
Shape ==
  /\ work.at = "idle" => work = Idle
  /\ work.at # "restore" => work.todo = {} /\ ~work.indexTodo
  /\ work.at = "createPublic" => <<"private", work.key>> \in files
  /\ work.at = "createIndex" => FilesOf(work.key) \subseteq files
  /\ work.at = "createCommit" => FilesOf(work.key) \subseteq files /\ work.key \in index
  /\ work.at \in Deletion => \A h \in Hosts : host[h] = work.key => h \in work.taken
  /\ work.at \in {"deletePrivate", "deletePublic", "deleteIndex"} => work.key \in index
  /\ work.at = "deletePublic" => <<"private", work.key>> \notin files
  /\ work.at \in {"deleteIndex", "deleteCommit"} => FilesOf(work.key) \cap files = {}
  /\ work.at = "deleteCommit" => work.key \notin index

\* Only keys that were generated are listed anywhere.
Known ==
  /\ index \subseteq made /\ gone \subseteq made /\ work.index \subseteq made
  /\ work.at \in Create \cup Deletion => work.key \in made
  /\ copy # None => copy.made.index \subseteq made
  /\ archive # None => archive.index \subseteq made

\* A key that is being generated has not been deleted.
NewIsNotGone == work.at \in Create => work.key \notin gone

\* An export beside no handler has copied the store as it is.
Copied ==
  copy # None /\ copy.made.clean =>
    /\ work.at \in {"idle", "deletePrivate"}
    /\ copy.made.host = host
    /\ copy.at = "list" => copy.made.files = {} /\ copy.todo = {}
    /\ copy.made.keys /\ copy.at = "files" =>
         /\ copy.made.files \cup copy.todo = files
         /\ ~copy.indexTodo => copy.made.index = index

\* A key that is listed has its files, or is being deleted, or its files are
\* still to be restored; and a host has a key that is listed or will be.
FilesThere ==
  \A k \in index :
    \/ FilesOf(k) \subseteq files \cup work.todo
    \/ work.at \in {"deletePublic", "deleteIndex"} /\ k = work.key
FilesToCome == work.indexTodo => \A k \in work.index : FilesOf(k) \subseteq files \cup work.todo
HostsListed ==
  \A h \in Hosts : host[h] \in Keys =>
    \/ host[h] \in (IF work.indexTodo THEN work.index ELSE index)
    \/ work.at = "deleteCommit" /\ host[h] = work.key
ArchiveUsable ==
  archive # None /\ archive.clean /\ archive.keys =>
    /\ \A k \in archive.index : FilesOf(k) \subseteq archive.files
    /\ archive.systems =>
         \A h \in Hosts : archive.host[h] \in Keys => archive.host[h] \in archive.index
UsableInv ==
  mishaps \subseteq {"creation"} => FilesThere /\ FilesToCome /\ HostsListed /\ ArchiveUsable

\* Every file belongs to a key that is listed, or will be, or is at work.
FilesListed ==
  \A f \in files \cup work.todo :
    \/ f[2] \in (IF work.indexTodo THEN work.index ELSE index)
    \/ work.at \in Create /\ f[2] = work.key
ArchiveListed ==
  archive # None /\ archive.clean /\ archive.keys =>
    \A f \in archive.files : f[2] \in archive.index
StrayInv == mishaps \subseteq {"deletion", "stale"} => FilesListed /\ ArchiveListed

\* Nothing of a deleted key is there, nor is about to be restored.
GoneInv ==
  mishaps \cap {"stale", "raced", "partial"} = {} =>
    /\ DeletedIsGone
    /\ \A k \in gone : FilesOf(k) \cap work.todo = {} /\ k \notin work.index

IInv ==
  /\ TypeOK /\ Shape /\ Known /\ NewIsNotGone
  /\ Copied /\ UsableInv /\ StrayInv /\ GoneInv

-----------------------------------------------------------------------------
(* Types.                                                                  *)

LEMMA FilesOfKey ==
  ASSUME NEW k \in Keys
  PROVE  /\ FilesOf(k) = {<<"private", k>>, <<"public", k>>}
         /\ FilesOf(k) \subseteq Files
         /\ \A f \in FilesOf(k) : f[2] = k
  BY DEF FilesOf, Files

LEMMA DisturbedType ==
  ASSUME copy \in Copy \cup {None}
  PROVE  Disturbed \in Copy \cup {None}
  BY DEF Disturbed, Copy, Archive

\* Every step keeps the types.
LEMMA TypeStep ==
  ASSUME TypeOK, [Next]_vars
  PROVE  TypeOK'
<1>1. ASSUME NEW k \in Keys, NEW h \in Hosts \cup {None}, CreatePrivate(k, h)
      PROVE  TypeOK'
  <2>1. files' \subseteq Files /\ made' \subseteq Keys
    BY <1>1, FilesOfKey DEF CreatePrivate, TypeOK, Files
  <2>2. work' \in Work /\ work'.key = k /\ work'.at = "createPublic"
    BY <1>1 DEF CreatePrivate, Work, Idle, Steps
  <2>3. address' \in [Keys -> Hosts \cup {None}]
    BY <1>1 DEF CreatePrivate, TypeOK
  <2> QED
    BY <1>1, <2>1, <2>2, <2>3, DisturbedType DEF CreatePrivate, TypeOK
<1>2. CASE CreatePublic
  BY <1>2, NoneAssumption, FilesOfKey, DisturbedType DEF CreatePublic, TypeOK, Work, Idle, Steps, Mishaps
<1>3. CASE CreateIndex
  BY <1>3, NoneAssumption, FilesOfKey, DisturbedType DEF CreateIndex, TypeOK, Work, Idle, Steps, Mishaps
<1>4. CASE CreateCommit
  BY <1>4, NoneAssumption, FilesOfKey, DisturbedType DEF CreateCommit, TypeOK, Work, Idle, Steps, Mishaps, Rows
<1>5. CASE CreateFails
  BY <1>5, NoneAssumption, FilesOfKey, DisturbedType DEF CreateFails, TypeOK, Work, Idle, Steps, Mishaps
<1>6. ASSUME NEW k \in Keys, NEW above \in SUBSET Hosts, Delete(k, above)
      PROVE  TypeOK'
  BY <1>6, NoneAssumption, FilesOfKey, DisturbedType DEF Delete, TypeOK, Work, Idle, Steps, Mishaps, Linked
<1>7. CASE DeletePrivate
  BY <1>7, NoneAssumption, FilesOfKey, DisturbedType DEF DeletePrivate, TypeOK, Work, Idle, Steps, Mishaps
<1>8. CASE DeletePublic
  BY <1>8, NoneAssumption, FilesOfKey, DisturbedType DEF DeletePublic, TypeOK, Work, Idle, Steps, Mishaps
<1>9. ASSUME NEW kept \in SUBSET Files, UnlinkFails(kept)
      PROVE  TypeOK'
  BY <1>9, NoneAssumption, FilesOfKey, DisturbedType DEF UnlinkFails, TypeOK, Work, Idle, Steps, Mishaps
<1>10. CASE DeleteIndex
  BY <1>10, NoneAssumption, FilesOfKey, DisturbedType DEF DeleteIndex, TypeOK, Work, Idle, Steps, Mishaps
<1>11. CASE DeleteCommit
  BY <1>11, NoneAssumption, FilesOfKey, DisturbedType DEF DeleteCommit, TypeOK, Work, Idle, Steps, Mishaps, Rows
<1>12. CASE DeleteFails
  BY <1>12, NoneAssumption, FilesOfKey, DisturbedType DEF DeleteFails, TypeOK, Work, Idle, Steps, Mishaps
<1>13. ASSUME NEW h \in Hosts, NEW k \in made \cup {None}, Save(h, k)
      PROVE  TypeOK'
  BY <1>13, NoneAssumption, FilesOfKey, DisturbedType DEF Save, TypeOK, Work, Idle, Steps, Mishaps, Rows
<1>14. ASSUME NEW h \in Hosts, NEW above \in SUBSET Hosts, DeleteHost(h, above)
      PROVE  TypeOK'
  BY <1>14, NoneAssumption, FilesOfKey, DisturbedType DEF DeleteHost, TypeOK, Work, Idle, Steps, Mishaps, Rows
<1>15. ASSUME NEW systems \in BOOLEAN, NEW keys \in BOOLEAN, ExportRows(systems, keys)
      PROVE  TypeOK'
  BY <1>15, NoneAssumption, FilesOfKey, DisturbedType DEF ExportRows, TypeOK, Work, Idle, Steps, Mishaps, Copy, Archive, Rows
<1>16. CASE ExportList
  <2>1. copy \in Copy /\ files \subseteq Files
    BY <1>16 DEF ExportList, TypeOK
  <2>2. copy' \in Copy
    BY <1>16, <2>1 DEF ExportList, Copy, Archive
  <2> QED
    BY <1>16, <2>2 DEF ExportList, TypeOK
<1>17. ASSUME NEW k \in Keys, ExportFiles(k)
      PROVE  TypeOK'
  <2>1. copy \in Copy
    BY <1>17 DEF ExportFiles, TypeOK
  <2>2. /\ copy.todo \ FilesOf(k) \subseteq Files
        /\ copy.made.files \cup (FilesOf(k) \cap copy.todo \cap files) \subseteq Files
    BY <2>1, FilesOfKey DEF Copy, Archive
  <2>3. copy' \in Copy
    BY <1>17, <2>1, <2>2 DEF ExportFiles, Copy, Archive
  <2> QED
    BY <1>17, <2>3 DEF ExportFiles, TypeOK
<1>18. ASSUME NEW seen \in SUBSET Keys, ExportIndex(seen)
      PROVE  TypeOK'
  <2>1. copy \in Copy /\ copy' = [copy EXCEPT !.indexTodo = FALSE, !.made.index = seen]
    BY <1>18 DEF ExportIndex, TypeOK
  <2>2. copy' \in Copy
    BY <2>1 DEF Copy, Archive
  <2> QED
    BY <1>18, <2>2 DEF ExportIndex, TypeOK
<1>19. CASE ExportDone
  BY <1>19, NoneAssumption, FilesOfKey, DisturbedType DEF ExportDone, TypeOK, Work, Idle, Steps, Mishaps, Copy
<1>20. CASE RestoreRows
  BY <1>20, NoneAssumption, FilesOfKey, DisturbedType DEF RestoreRows, TypeOK, Work, Idle, Steps, Mishaps, Archive, Misfit, Brought
<1>21. ASSUME NEW k \in Keys, RestoreFiles(k)
      PROVE  TypeOK'
  BY <1>21, NoneAssumption, FilesOfKey, DisturbedType DEF RestoreFiles, TypeOK, Work, Idle, Steps, Mishaps
<1>22. CASE RestoreIndex
  BY <1>22, NoneAssumption, FilesOfKey, DisturbedType DEF RestoreIndex, TypeOK, Work, Idle, Steps, Mishaps
<1>23. CASE RestoreDone
  BY <1>23, NoneAssumption, FilesOfKey, DisturbedType DEF RestoreDone, TypeOK, Work, Idle, Steps, Mishaps
<1>24. CASE RestoreFails
  BY <1>24, NoneAssumption, FilesOfKey, DisturbedType DEF RestoreFails, TypeOK, Work, Idle, Steps, Mishaps
<1>25. ASSUME NEW torn \in BOOLEAN, Crash(torn)
      PROVE  TypeOK'
  BY <1>25, NoneAssumption, FilesOfKey, DisturbedType DEF Crash, TypeOK, Work, Idle, Steps, Mishaps, LeftBehind
<1>26. CASE UNCHANGED vars
  BY <1>26 DEF vars, TypeOK, Work, Idle, Steps, Mishaps
<1> QED
  BY <1>1, <1>2, <1>3, <1>4, <1>5, <1>6, <1>7, <1>8, <1>9, <1>10, <1>11, <1>12, <1>13, <1>14, <1>15, <1>16, <1>17, <1>18, <1>19, <1>20, <1>21, <1>22, <1>23, <1>24, <1>25, <1>26 DEF Next, Creating, Deleting, Exporting, Restoring

-----------------------------------------------------------------------------
(* What goes together.                                                     *)

\* What a handler has done is still so when its next step comes.
LEMMA ShapeStep ==
  ASSUME TypeOK, Shape, [Next]_vars
  PROVE  Shape'
<1>1. ASSUME NEW k \in Keys, NEW h \in Hosts \cup {None}, CreatePrivate(k, h)
      PROVE  Shape'
  BY <1>1, NoneAssumption, FilesOfKey DEF CreatePrivate, Shape, TypeOK, Work, Idle, Steps, Deletion
<1>2. CASE CreatePublic
  BY <1>2, NoneAssumption, FilesOfKey DEF CreatePublic, Shape, TypeOK, Work, Idle, Steps, Deletion
<1>3. CASE CreateIndex
  BY <1>3, NoneAssumption, FilesOfKey DEF CreateIndex, Shape, TypeOK, Work, Idle, Steps, Deletion
<1>4. CASE CreateCommit
  BY <1>4, NoneAssumption, FilesOfKey DEF CreateCommit, Shape, TypeOK, Work, Idle, Steps, Deletion
<1>5. CASE CreateFails
  BY <1>5, NoneAssumption, FilesOfKey DEF CreateFails, Shape, TypeOK, Work, Idle, Steps, Deletion
<1>6. ASSUME NEW k \in Keys, NEW above \in SUBSET Hosts, Delete(k, above)
      PROVE  Shape'
  BY <1>6, NoneAssumption, FilesOfKey DEF Delete, Shape, TypeOK, Work, Idle, Steps, Deletion, Linked
<1>7. CASE DeletePrivate
  BY <1>7, NoneAssumption, FilesOfKey DEF DeletePrivate, Shape, TypeOK, Work, Idle, Steps, Deletion
<1>8. CASE DeletePublic
  BY <1>8, NoneAssumption, FilesOfKey DEF DeletePublic, Shape, TypeOK, Work, Idle, Steps, Deletion
<1>9. ASSUME NEW kept \in SUBSET Files, UnlinkFails(kept)
      PROVE  Shape'
  BY <1>9, NoneAssumption, FilesOfKey DEF UnlinkFails, Shape, TypeOK, Work, Idle, Steps, Deletion
<1>10. CASE DeleteIndex
  BY <1>10, NoneAssumption, FilesOfKey DEF DeleteIndex, Shape, TypeOK, Work, Idle, Steps, Deletion
<1>11. CASE DeleteCommit
  BY <1>11, NoneAssumption, FilesOfKey DEF DeleteCommit, Shape, TypeOK, Work, Idle, Steps, Deletion
<1>12. CASE DeleteFails
  BY <1>12, NoneAssumption, FilesOfKey DEF DeleteFails, Shape, TypeOK, Work, Idle, Steps, Deletion
<1>13. ASSUME NEW h \in Hosts, NEW k \in made \cup {None}, Save(h, k)
      PROVE  Shape'
  BY <1>13, NoneAssumption, FilesOfKey DEF Save, Shape, TypeOK, Work, Idle, Steps, Deletion
<1>14. ASSUME NEW h \in Hosts, NEW above \in SUBSET Hosts, DeleteHost(h, above)
      PROVE  Shape'
  BY <1>14, NoneAssumption, FilesOfKey DEF DeleteHost, Shape, TypeOK, Work, Idle, Steps, Deletion
<1>15. ASSUME NEW systems \in BOOLEAN, NEW keys \in BOOLEAN, ExportRows(systems, keys)
      PROVE  Shape'
  BY <1>15, NoneAssumption, FilesOfKey DEF ExportRows, Shape, TypeOK, Work, Idle, Steps, Deletion
<1>16. CASE ExportList
  BY <1>16, NoneAssumption, FilesOfKey DEF ExportList, Shape, TypeOK, Work, Idle, Steps, Deletion
<1>17. ASSUME NEW k \in Keys, ExportFiles(k)
      PROVE  Shape'
  BY <1>17, NoneAssumption, FilesOfKey DEF ExportFiles, Shape, TypeOK, Work, Idle, Steps, Deletion
<1>18. ASSUME NEW seen \in SUBSET Keys, ExportIndex(seen)
      PROVE  Shape'
  BY <1>18, NoneAssumption, FilesOfKey DEF ExportIndex, Shape, TypeOK, Work, Idle, Steps, Deletion
<1>19. CASE ExportDone
  BY <1>19, NoneAssumption, FilesOfKey DEF ExportDone, Shape, TypeOK, Work, Idle, Steps, Deletion
<1>20. CASE RestoreRows
  BY <1>20, NoneAssumption, FilesOfKey DEF RestoreRows, Shape, TypeOK, Work, Idle, Steps, Deletion
<1>21. ASSUME NEW k \in Keys, RestoreFiles(k)
      PROVE  Shape'
  BY <1>21, NoneAssumption, FilesOfKey DEF RestoreFiles, Shape, TypeOK, Work, Idle, Steps, Deletion
<1>22. CASE RestoreIndex
  BY <1>22, NoneAssumption, FilesOfKey DEF RestoreIndex, Shape, TypeOK, Work, Idle, Steps, Deletion
<1>23. CASE RestoreDone
  BY <1>23, NoneAssumption, FilesOfKey DEF RestoreDone, Shape, TypeOK, Work, Idle, Steps, Deletion
<1>24. CASE RestoreFails
  BY <1>24, NoneAssumption, FilesOfKey DEF RestoreFails, Shape, TypeOK, Work, Idle, Steps, Deletion
<1>25. ASSUME NEW torn \in BOOLEAN, Crash(torn)
      PROVE  Shape'
  BY <1>25, NoneAssumption, FilesOfKey DEF Crash, Shape, TypeOK, Work, Idle, Steps, Deletion
<1>26. CASE UNCHANGED vars
  BY <1>26 DEF vars, Shape, TypeOK, Work, Idle, Steps, Deletion
<1> QED
  BY <1>1, <1>2, <1>3, <1>4, <1>5, <1>6, <1>7, <1>8, <1>9, <1>10, <1>11, <1>12, <1>13, <1>14, <1>15, <1>16, <1>17, <1>18, <1>19, <1>20, <1>21, <1>22, <1>23, <1>24, <1>25, <1>26 DEF Next, Creating, Deleting, Exporting, Restoring

LEMMA KnownStep ==
  ASSUME TypeOK, Shape, Known, [Next]_vars
  PROVE  Known'
<1>1. ASSUME NEW k \in Keys, NEW h \in Hosts \cup {None}, CreatePrivate(k, h)
      PROVE  Known'
  BY <1>1, NoneAssumption DEF CreatePrivate, Known, TypeOK, Work, Idle, Steps, Create, Deletion, Disturbed
<1>2. CASE CreatePublic
  BY <1>2, NoneAssumption DEF CreatePublic, Known, TypeOK, Work, Idle, Steps, Create, Deletion, Disturbed
<1>3. CASE CreateIndex
  BY <1>3, NoneAssumption DEF CreateIndex, Known, TypeOK, Work, Idle, Steps, Create, Deletion, Disturbed
<1>4. CASE CreateCommit
  BY <1>4, NoneAssumption DEF CreateCommit, Known, TypeOK, Work, Idle, Steps, Create, Deletion, Disturbed
<1>5. CASE CreateFails
  BY <1>5, NoneAssumption DEF CreateFails, Known, TypeOK, Work, Idle, Steps, Create, Deletion, Disturbed
<1>6. ASSUME NEW k \in Keys, NEW above \in SUBSET Hosts, Delete(k, above)
      PROVE  Known'
  BY <1>6, NoneAssumption DEF Delete, Known, TypeOK, Work, Idle, Steps, Create, Deletion, Disturbed
<1>7. CASE DeletePrivate
  BY <1>7, NoneAssumption DEF DeletePrivate, Known, TypeOK, Work, Idle, Steps, Create, Deletion, Disturbed
<1>8. CASE DeletePublic
  BY <1>8, NoneAssumption DEF DeletePublic, Known, TypeOK, Work, Idle, Steps, Create, Deletion, Disturbed
<1>9. ASSUME NEW kept \in SUBSET Files, UnlinkFails(kept)
      PROVE  Known'
  BY <1>9, NoneAssumption DEF UnlinkFails, Known, TypeOK, Work, Idle, Steps, Create, Deletion, Disturbed
<1>10. CASE DeleteIndex
  BY <1>10, NoneAssumption DEF DeleteIndex, Known, TypeOK, Work, Idle, Steps, Create, Deletion, Disturbed
<1>11. CASE DeleteCommit
  BY <1>11, NoneAssumption DEF DeleteCommit, Known, TypeOK, Work, Idle, Steps, Create, Deletion, Disturbed
<1>12. CASE DeleteFails
  BY <1>12, NoneAssumption DEF DeleteFails, Known, TypeOK, Work, Idle, Steps, Create, Deletion, Disturbed
<1>13. ASSUME NEW h \in Hosts, NEW k \in made \cup {None}, Save(h, k)
      PROVE  Known'
  BY <1>13, NoneAssumption DEF Save, Known, TypeOK, Work, Idle, Steps, Create, Deletion, Disturbed
<1>14. ASSUME NEW h \in Hosts, NEW above \in SUBSET Hosts, DeleteHost(h, above)
      PROVE  Known'
  BY <1>14, NoneAssumption DEF DeleteHost, Known, TypeOK, Work, Idle, Steps, Create, Deletion, Disturbed
<1>15. ASSUME NEW systems \in BOOLEAN, NEW keys \in BOOLEAN, ExportRows(systems, keys)
      PROVE  Known'
  BY <1>15, NoneAssumption DEF ExportRows, Known, TypeOK, Work, Idle, Steps, Create, Deletion, Disturbed
<1>16. CASE ExportList
  BY <1>16, NoneAssumption DEF ExportList, Known, TypeOK, Work, Idle, Steps, Create, Deletion, Disturbed
<1>17. ASSUME NEW k \in Keys, ExportFiles(k)
      PROVE  Known'
  BY <1>17, NoneAssumption DEF ExportFiles, Known, TypeOK, Work, Idle, Steps, Create, Deletion, Disturbed, Copy, Archive
<1>18. ASSUME NEW seen \in SUBSET Keys, ExportIndex(seen)
      PROVE  Known'
  BY <1>18, NoneAssumption DEF ExportIndex, Known, TypeOK, Work, Idle, Steps, Create, Deletion, Disturbed, Copy, Archive
<1>19. CASE ExportDone
  BY <1>19, NoneAssumption DEF ExportDone, Known, TypeOK, Work, Idle, Steps, Create, Deletion, Disturbed
<1>20. CASE RestoreRows
  BY <1>20, NoneAssumption DEF RestoreRows, Known, TypeOK, Work, Idle, Steps, Create, Deletion, Disturbed
<1>21. ASSUME NEW k \in Keys, RestoreFiles(k)
      PROVE  Known'
  BY <1>21, NoneAssumption DEF RestoreFiles, Known, TypeOK, Work, Idle, Steps, Create, Deletion, Disturbed
<1>22. CASE RestoreIndex
  BY <1>22, NoneAssumption DEF RestoreIndex, Known, TypeOK, Work, Idle, Steps, Create, Deletion, Disturbed
<1>23. CASE RestoreDone
  BY <1>23, NoneAssumption DEF RestoreDone, Known, TypeOK, Work, Idle, Steps, Create, Deletion, Disturbed
<1>24. CASE RestoreFails
  BY <1>24, NoneAssumption DEF RestoreFails, Known, TypeOK, Work, Idle, Steps, Create, Deletion, Disturbed
<1>25. ASSUME NEW torn \in BOOLEAN, Crash(torn)
      PROVE  Known'
  BY <1>25, NoneAssumption DEF Crash, Known, TypeOK, Work, Idle, Steps, Create, Deletion, Disturbed
<1>26. CASE UNCHANGED vars
  BY <1>26 DEF vars, Known, TypeOK, Work, Idle, Steps, Create, Deletion, Disturbed
<1> QED
  BY <1>1, <1>2, <1>3, <1>4, <1>5, <1>6, <1>7, <1>8, <1>9, <1>10, <1>11, <1>12, <1>13, <1>14, <1>15, <1>16, <1>17, <1>18, <1>19, <1>20, <1>21, <1>22, <1>23, <1>24, <1>25, <1>26 DEF Next, Creating, Deleting, Exporting, Restoring

LEMMA NewStep ==
  ASSUME TypeOK, Shape, Known, NewIsNotGone, [Next]_vars
  PROVE  NewIsNotGone'
<1>1. ASSUME NEW k \in Keys, NEW h \in Hosts \cup {None}, CreatePrivate(k, h)
      PROVE  NewIsNotGone'
  BY <1>1 DEF CreatePrivate, NewIsNotGone, Known, TypeOK, Work, Idle, Steps, Create, Deletion
<1>2. CASE CreatePublic
  BY <1>2 DEF CreatePublic, NewIsNotGone, Known, TypeOK, Work, Idle, Steps, Create, Deletion
<1>3. CASE CreateIndex
  BY <1>3 DEF CreateIndex, NewIsNotGone, Known, TypeOK, Work, Idle, Steps, Create, Deletion
<1>4. CASE CreateCommit
  BY <1>4 DEF CreateCommit, NewIsNotGone, Known, TypeOK, Work, Idle, Steps, Create, Deletion
<1>5. CASE CreateFails
  BY <1>5 DEF CreateFails, NewIsNotGone, Known, TypeOK, Work, Idle, Steps, Create, Deletion
<1>6. ASSUME NEW k \in Keys, NEW above \in SUBSET Hosts, Delete(k, above)
      PROVE  NewIsNotGone'
  BY <1>6 DEF Delete, NewIsNotGone, Known, TypeOK, Work, Idle, Steps, Create, Deletion
<1>7. CASE DeletePrivate
  BY <1>7 DEF DeletePrivate, NewIsNotGone, Known, TypeOK, Work, Idle, Steps, Create, Deletion
<1>8. CASE DeletePublic
  BY <1>8 DEF DeletePublic, NewIsNotGone, Known, TypeOK, Work, Idle, Steps, Create, Deletion
<1>9. ASSUME NEW kept \in SUBSET Files, UnlinkFails(kept)
      PROVE  NewIsNotGone'
  BY <1>9 DEF UnlinkFails, NewIsNotGone, Known, TypeOK, Work, Idle, Steps, Create, Deletion
<1>10. CASE DeleteIndex
  BY <1>10 DEF DeleteIndex, NewIsNotGone, Known, TypeOK, Work, Idle, Steps, Create, Deletion
<1>11. CASE DeleteCommit
  BY <1>11 DEF DeleteCommit, NewIsNotGone, Known, TypeOK, Work, Idle, Steps, Create, Deletion
<1>12. CASE DeleteFails
  BY <1>12 DEF DeleteFails, NewIsNotGone, Known, TypeOK, Work, Idle, Steps, Create, Deletion
<1>13. ASSUME NEW h \in Hosts, NEW k \in made \cup {None}, Save(h, k)
      PROVE  NewIsNotGone'
  BY <1>13 DEF Save, NewIsNotGone, Known, TypeOK, Work, Idle, Steps, Create, Deletion
<1>14. ASSUME NEW h \in Hosts, NEW above \in SUBSET Hosts, DeleteHost(h, above)
      PROVE  NewIsNotGone'
  BY <1>14 DEF DeleteHost, NewIsNotGone, Known, TypeOK, Work, Idle, Steps, Create, Deletion
<1>15. ASSUME NEW systems \in BOOLEAN, NEW keys \in BOOLEAN, ExportRows(systems, keys)
      PROVE  NewIsNotGone'
  BY <1>15 DEF ExportRows, NewIsNotGone, Known, TypeOK, Work, Idle, Steps, Create, Deletion
<1>16. CASE ExportList
  BY <1>16 DEF ExportList, NewIsNotGone, Known, TypeOK, Work, Idle, Steps, Create, Deletion
<1>17. ASSUME NEW k \in Keys, ExportFiles(k)
      PROVE  NewIsNotGone'
  BY <1>17 DEF ExportFiles, NewIsNotGone, Known, TypeOK, Work, Idle, Steps, Create, Deletion
<1>18. ASSUME NEW seen \in SUBSET Keys, ExportIndex(seen)
      PROVE  NewIsNotGone'
  BY <1>18 DEF ExportIndex, NewIsNotGone, Known, TypeOK, Work, Idle, Steps, Create, Deletion
<1>19. CASE ExportDone
  BY <1>19 DEF ExportDone, NewIsNotGone, Known, TypeOK, Work, Idle, Steps, Create, Deletion
<1>20. CASE RestoreRows
  BY <1>20 DEF RestoreRows, NewIsNotGone, Known, TypeOK, Work, Idle, Steps, Create, Deletion
<1>21. ASSUME NEW k \in Keys, RestoreFiles(k)
      PROVE  NewIsNotGone'
  BY <1>21 DEF RestoreFiles, NewIsNotGone, Known, TypeOK, Work, Idle, Steps, Create, Deletion
<1>22. CASE RestoreIndex
  BY <1>22 DEF RestoreIndex, NewIsNotGone, Known, TypeOK, Work, Idle, Steps, Create, Deletion
<1>23. CASE RestoreDone
  BY <1>23 DEF RestoreDone, NewIsNotGone, Known, TypeOK, Work, Idle, Steps, Create, Deletion
<1>24. CASE RestoreFails
  BY <1>24 DEF RestoreFails, NewIsNotGone, Known, TypeOK, Work, Idle, Steps, Create, Deletion
<1>25. ASSUME NEW torn \in BOOLEAN, Crash(torn)
      PROVE  NewIsNotGone'
  BY <1>25 DEF Crash, NewIsNotGone, Known, TypeOK, Work, Idle, Steps, Create, Deletion
<1>26. CASE UNCHANGED vars
  BY <1>26 DEF vars, NewIsNotGone, Known, TypeOK, Work, Idle, Steps, Create, Deletion
<1> QED
  BY <1>1, <1>2, <1>3, <1>4, <1>5, <1>6, <1>7, <1>8, <1>9, <1>10, <1>11, <1>12, <1>13, <1>14, <1>15, <1>16, <1>17, <1>18, <1>19, <1>20, <1>21, <1>22, <1>23, <1>24, <1>25, <1>26 DEF Next, Creating, Deleting, Exporting, Restoring

\* A handler that writes beside an export leaves its mark on it.
LEMMA CopiedStep ==
  ASSUME TypeOK, Shape, Copied, [Next]_vars
  PROVE  Copied'
<1>1. ASSUME NEW k \in Keys, NEW h \in Hosts \cup {None}, CreatePrivate(k, h)
      PROVE  Copied'
  BY <1>1, NoneAssumption DEF CreatePrivate, Copied, TypeOK, Work, Idle, Steps, Disturbed, Copy, Archive
<1>2. CASE CreatePublic
  BY <1>2, NoneAssumption DEF CreatePublic, Copied, TypeOK, Work, Idle, Steps, Disturbed, Copy, Archive
<1>3. CASE CreateIndex
  BY <1>3, NoneAssumption DEF CreateIndex, Copied, TypeOK, Work, Idle, Steps, Disturbed, Copy, Archive
<1>4. CASE CreateCommit
  BY <1>4, NoneAssumption DEF CreateCommit, Copied, TypeOK, Work, Idle, Steps, Disturbed, Copy, Archive
<1>5. CASE CreateFails
  BY <1>5, NoneAssumption DEF CreateFails, Copied, TypeOK, Work, Idle, Steps, Disturbed, Copy, Archive
<1>6. ASSUME NEW k \in Keys, NEW above \in SUBSET Hosts, Delete(k, above)
      PROVE  Copied'
  BY <1>6, NoneAssumption DEF Delete, Copied, TypeOK, Work, Idle, Steps, Disturbed, Copy, Archive
<1>7. CASE DeletePrivate
  BY <1>7, NoneAssumption DEF DeletePrivate, Copied, TypeOK, Work, Idle, Steps, Disturbed, Copy, Archive
<1>8. CASE DeletePublic
  BY <1>8, NoneAssumption DEF DeletePublic, Copied, TypeOK, Work, Idle, Steps, Disturbed, Copy, Archive
<1>9. ASSUME NEW kept \in SUBSET Files, UnlinkFails(kept)
      PROVE  Copied'
  BY <1>9, NoneAssumption DEF UnlinkFails, Copied, TypeOK, Work, Idle, Steps, Disturbed, Copy, Archive
<1>10. CASE DeleteIndex
  BY <1>10, NoneAssumption DEF DeleteIndex, Copied, TypeOK, Work, Idle, Steps, Disturbed, Copy, Archive
<1>11. CASE DeleteCommit
  BY <1>11, NoneAssumption DEF DeleteCommit, Copied, TypeOK, Work, Idle, Steps, Disturbed, Copy, Archive
<1>12. CASE DeleteFails
  BY <1>12, NoneAssumption DEF DeleteFails, Copied, TypeOK, Work, Idle, Steps, Disturbed, Copy, Archive
<1>13. ASSUME NEW h \in Hosts, NEW k \in made \cup {None}, Save(h, k)
      PROVE  Copied'
  BY <1>13, NoneAssumption DEF Save, Copied, TypeOK, Work, Idle, Steps, Disturbed, Copy, Archive
<1>14. ASSUME NEW h \in Hosts, NEW above \in SUBSET Hosts, DeleteHost(h, above)
      PROVE  Copied'
  BY <1>14, NoneAssumption DEF DeleteHost, Copied, TypeOK, Work, Idle, Steps, Disturbed, Copy, Archive
<1>15. ASSUME NEW systems \in BOOLEAN, NEW keys \in BOOLEAN, ExportRows(systems, keys)
      PROVE  Copied'
  <2>1. copy' # None /\ copy'.made.clean => work = Idle
    BY <1>15 DEF ExportRows
  <2>2. copy'.made.host = host /\ copy'.at = "list" /\ copy'.made.files = {}
    BY <1>15 DEF ExportRows
  <2> QED
    BY <1>15, <2>1, <2>2 DEF ExportRows, Copied, Idle
<1>16. CASE ExportList
  BY <1>16, NoneAssumption DEF ExportList, Copied, TypeOK, Work, Idle, Steps, Disturbed, Copy, Archive, Files
<1>17. ASSUME NEW k \in Keys, ExportFiles(k)
      PROVE  Copied'
  <2> DEFINE F == FilesOf(k)
  <2>1. copy.made.files \cup copy.todo = files =>
          (copy.made.files \cup (F \cap copy.todo \cap files)) \cup (copy.todo \ F) = files
    OBVIOUS
  <2>2. copy' = [copy EXCEPT !.todo = @ \ F, !.made.files = @ \cup (F \cap copy.todo \cap files)]
    BY <1>17 DEF ExportFiles
  <2> HIDE DEF F
  <2>3. copy \in Copy
    BY <1>17 DEF ExportFiles, TypeOK
  <2>4. /\ copy'.made.files = copy.made.files \cup (F \cap copy.todo \cap files)
        /\ copy'.todo = copy.todo \ F
        /\ copy'.made.clean = copy.made.clean /\ copy'.made.keys = copy.made.keys
        /\ copy'.made.host = copy.made.host /\ copy'.made.index = copy.made.index
        /\ copy'.indexTodo = copy.indexTodo /\ copy'.at = copy.at
    BY <2>2, <2>3 DEF Copy, Archive
  <2>5. copy.made.clean => copy.at = "files"
    BY <1>17, <2>3 DEF ExportFiles, Copied, Copy
  <2> QED
    BY <1>17, <2>1, <2>4, <2>5 DEF ExportFiles, Copied
<1>18. ASSUME NEW seen \in SUBSET Keys, ExportIndex(seen)
      PROVE  Copied'
  BY <1>18, NoneAssumption DEF ExportIndex, Copied, TypeOK, Work, Idle, Steps, Disturbed, Copy, Archive, IndexBeingWritten
<1>19. CASE ExportDone
  BY <1>19, NoneAssumption DEF ExportDone, Copied, TypeOK, Work, Idle, Steps, Disturbed, Copy, Archive
<1>20. CASE RestoreRows
  BY <1>20, NoneAssumption DEF RestoreRows, Copied, TypeOK, Work, Idle, Steps, Disturbed, Copy, Archive
<1>21. ASSUME NEW k \in Keys, RestoreFiles(k)
      PROVE  Copied'
  BY <1>21, NoneAssumption DEF RestoreFiles, Copied, TypeOK, Work, Idle, Steps, Disturbed, Copy, Archive
<1>22. CASE RestoreIndex
  BY <1>22, NoneAssumption DEF RestoreIndex, Copied, TypeOK, Work, Idle, Steps, Disturbed, Copy, Archive
<1>23. CASE RestoreDone
  BY <1>23, NoneAssumption DEF RestoreDone, Copied, TypeOK, Work, Idle, Steps, Disturbed, Copy, Archive
<1>24. CASE RestoreFails
  BY <1>24, NoneAssumption DEF RestoreFails, Copied, TypeOK, Work, Idle, Steps, Disturbed, Copy, Archive
<1>25. ASSUME NEW torn \in BOOLEAN, Crash(torn)
      PROVE  Copied'
  BY <1>25, NoneAssumption DEF Crash, Copied, TypeOK, Work, Idle, Steps, Disturbed, Copy, Archive
<1>26. CASE UNCHANGED vars
  BY <1>26 DEF vars, Copied, TypeOK, Work, Idle, Steps, Disturbed, Copy, Archive
<1> QED
  BY <1>1, <1>2, <1>3, <1>4, <1>5, <1>6, <1>7, <1>8, <1>9, <1>10, <1>11, <1>12, <1>13, <1>14, <1>15, <1>16, <1>17, <1>18, <1>19, <1>20, <1>21, <1>22, <1>23, <1>24, <1>25, <1>26 DEF Next, Creating, Deleting, Exporting, Restoring

\* Keys, files and hosts stay together.
LEMMA UsableStep ==
  ASSUME TypeOK, Shape, Copied, UsableInv, [Next]_vars
  PROVE  UsableInv'
<1>1. ASSUME NEW k \in Keys, NEW h \in Hosts \cup {None}, CreatePrivate(k, h)
      PROVE  UsableInv'
  BY <1>1, NoneAssumption, FilesOfKey DEF CreatePrivate, UsableInv, FilesThere, FilesToCome, HostsListed, ArchiveUsable, TypeOK, Shape, Work, Idle, Steps, Deletion
<1>2. CASE CreatePublic
  BY <1>2, NoneAssumption, FilesOfKey DEF CreatePublic, UsableInv, FilesThere, FilesToCome, HostsListed, ArchiveUsable, TypeOK, Shape, Work, Idle, Steps, Deletion
<1>3. CASE CreateIndex
  BY <1>3, NoneAssumption, FilesOfKey DEF CreateIndex, UsableInv, FilesThere, FilesToCome, HostsListed, ArchiveUsable, TypeOK, Shape, Work, Idle, Steps, Deletion
<1>4. CASE CreateCommit
  BY <1>4, NoneAssumption, FilesOfKey DEF CreateCommit, UsableInv, FilesThere, FilesToCome, HostsListed, ArchiveUsable, TypeOK, Shape, Work, Idle, Steps, Deletion
<1>5. CASE CreateFails
  BY <1>5, NoneAssumption, FilesOfKey DEF CreateFails, UsableInv, FilesThere, FilesToCome, HostsListed, ArchiveUsable, TypeOK, Shape, Work, Idle, Steps, Deletion
<1>6. ASSUME NEW k \in Keys, NEW above \in SUBSET Hosts, Delete(k, above)
      PROVE  UsableInv'
  BY <1>6, NoneAssumption, FilesOfKey DEF Delete, UsableInv, FilesThere, FilesToCome, HostsListed, ArchiveUsable, TypeOK, Shape, Work, Idle, Steps, Deletion
<1>7. CASE DeletePrivate
  BY <1>7, NoneAssumption, FilesOfKey DEF DeletePrivate, UsableInv, FilesThere, FilesToCome, HostsListed, ArchiveUsable, TypeOK, Shape, Work, Idle, Steps, Deletion
<1>8. CASE DeletePublic
  BY <1>8, NoneAssumption, FilesOfKey DEF DeletePublic, UsableInv, FilesThere, FilesToCome, HostsListed, ArchiveUsable, TypeOK, Shape, Work, Idle, Steps, Deletion
<1>9. ASSUME NEW kept \in SUBSET Files, UnlinkFails(kept)
      PROVE  UsableInv'
  BY <1>9, NoneAssumption, FilesOfKey DEF UnlinkFails, UsableInv, FilesThere, FilesToCome, HostsListed, ArchiveUsable, TypeOK, Shape, Work, Idle, Steps, Deletion
<1>10. CASE DeleteIndex
  BY <1>10, NoneAssumption, FilesOfKey DEF DeleteIndex, UsableInv, FilesThere, FilesToCome, HostsListed, ArchiveUsable, TypeOK, Shape, Work, Idle, Steps, Deletion
<1>11. CASE DeleteCommit
  BY <1>11, NoneAssumption, FilesOfKey DEF DeleteCommit, UsableInv, FilesThere, FilesToCome, HostsListed, ArchiveUsable, TypeOK, Shape, Work, Idle, Steps, Deletion, Rows
<1>12. CASE DeleteFails
  BY <1>12, NoneAssumption, FilesOfKey DEF DeleteFails, UsableInv, FilesThere, FilesToCome, HostsListed, ArchiveUsable, TypeOK, Shape, Work, Idle, Steps, Deletion
<1>13. ASSUME NEW h \in Hosts, NEW k \in made \cup {None}, Save(h, k)
      PROVE  UsableInv'
  BY <1>13, NoneAssumption, FilesOfKey DEF Save, UsableInv, FilesThere, FilesToCome, HostsListed, ArchiveUsable, TypeOK, Shape, Work, Idle, Steps, Deletion, Rows
<1>14. ASSUME NEW h \in Hosts, NEW above \in SUBSET Hosts, DeleteHost(h, above)
      PROVE  UsableInv'
  BY <1>14, NoneAssumption, FilesOfKey DEF DeleteHost, UsableInv, FilesThere, FilesToCome, HostsListed, ArchiveUsable, TypeOK, Shape, Work, Idle, Steps, Deletion, Rows
<1>15. ASSUME NEW systems \in BOOLEAN, NEW keys \in BOOLEAN, ExportRows(systems, keys)
      PROVE  UsableInv'
  BY <1>15, NoneAssumption, FilesOfKey DEF ExportRows, UsableInv, FilesThere, FilesToCome, HostsListed, ArchiveUsable, TypeOK, Shape, Work, Idle, Steps, Deletion
<1>16. CASE ExportList
  BY <1>16, NoneAssumption, FilesOfKey DEF ExportList, UsableInv, FilesThere, FilesToCome, HostsListed, ArchiveUsable, TypeOK, Shape, Work, Idle, Steps, Deletion
<1>17. ASSUME NEW k \in Keys, ExportFiles(k)
      PROVE  UsableInv'
  BY <1>17, NoneAssumption, FilesOfKey DEF ExportFiles, UsableInv, FilesThere, FilesToCome, HostsListed, ArchiveUsable, TypeOK, Shape, Work, Idle, Steps, Deletion
<1>18. ASSUME NEW seen \in SUBSET Keys, ExportIndex(seen)
      PROVE  UsableInv'
  BY <1>18, NoneAssumption, FilesOfKey DEF ExportIndex, UsableInv, FilesThere, FilesToCome, HostsListed, ArchiveUsable, TypeOK, Shape, Work, Idle, Steps, Deletion
<1>19. CASE ExportDone
  BY <1>19, NoneAssumption, FilesOfKey DEF ExportDone, UsableInv, FilesThere, FilesToCome, HostsListed, ArchiveUsable, TypeOK, Shape, Work, Idle, Steps, Deletion, Copied, Copy, Archive
<1>20. CASE RestoreRows
  <2>1. mishaps' \subseteq {"creation"} =>
          /\ mishaps \subseteq {"creation"} /\ archive.clean
          /\ archive.keys => \A f \in files : f[2] \in archive.index
          /\ archive.systems => \A h \in Hosts :
               archive.host[h] \in Keys => archive.host[h] \in (IF archive.keys THEN Brought(archive) ELSE index)
    BY <1>20 DEF RestoreRows, Misfit
  <2>2. archive \in Archive /\ work = Idle
    BY <1>20 DEF RestoreRows, TypeOK
  <2>3. ASSUME mishaps' \subseteq {"creation"}, archive.keys
        PROVE  UsableInv'
    <3>1. \A k \in archive.index : FilesOf(k) \subseteq archive.files
      BY <1>20, <2>1, <2>3 DEF RestoreRows, UsableInv, ArchiveUsable
    <3>2. work'.todo = archive.files /\ work'.indexTodo /\ work'.index = archive.index /\ work'.at = "restore"
      BY <1>20, <2>3 DEF RestoreRows, Idle
    <3>3. FilesThere' /\ FilesToCome'
      BY <1>20, <2>1, <2>2, <2>3, <3>1, <3>2 DEF RestoreRows, UsableInv, FilesThere, FilesToCome, Idle
    <3>4. ASSUME NEW h \in Hosts, host'[h] \in Keys
          PROVE  host'[h] \in archive.index
      <4>1. CASE archive.systems
        BY <1>20, <2>1, <2>3, <3>4, <4>1 DEF RestoreRows, UsableInv, ArchiveUsable
      <4>2. CASE ~archive.systems
        <5>1. host[h] \in index /\ host' = host
          BY <1>20, <2>1, <2>2, <2>3, <3>4, <4>2 DEF RestoreRows, UsableInv, HostsListed, Idle
        <5>2. FilesOf(host[h]) \subseteq files
          BY <2>1, <2>2, <2>3, <5>1 DEF UsableInv, FilesThere, Idle
        <5>3. <<"private", host[h]>> \in files
          BY <5>1, <5>2, <3>4, FilesOfKey
        <5> QED
          BY <2>1, <2>3, <5>1, <5>3
      <4> QED
        BY <4>1, <4>2
    <3>5. HostsListed' /\ ArchiveUsable'
      BY <1>20, <2>1, <2>3, <3>2, <3>4 DEF RestoreRows, UsableInv, HostsListed, ArchiveUsable
    <3> QED
      BY <3>3, <3>5 DEF UsableInv
  <2>4. ASSUME mishaps' \subseteq {"creation"}, ~archive.keys
        PROVE  UsableInv'
    <3>1. work' = Idle /\ UNCHANGED <<index, files, archive>>
      BY <1>20, <2>4 DEF RestoreRows
    <3>2. \A h \in Hosts : host'[h] \in Keys => host'[h] \in index
      BY <1>20, <2>1, <2>2, <2>4 DEF RestoreRows, UsableInv, HostsListed, Idle
    <3> QED
      BY <2>1, <2>2, <2>4, <3>1, <3>2 DEF UsableInv, FilesThere, FilesToCome, HostsListed, ArchiveUsable, Idle
  <2> QED
    BY <2>3, <2>4, <2>2 DEF UsableInv, Archive
<1>21. ASSUME NEW k \in Keys, RestoreFiles(k)
      PROVE  UsableInv'
  BY <1>21, NoneAssumption, FilesOfKey DEF RestoreFiles, UsableInv, FilesThere, FilesToCome, HostsListed, ArchiveUsable, TypeOK, Shape, Work, Idle, Steps, Deletion
<1>22. CASE RestoreIndex
  BY <1>22, NoneAssumption, FilesOfKey DEF RestoreIndex, UsableInv, FilesThere, FilesToCome, HostsListed, ArchiveUsable, TypeOK, Shape, Work, Idle, Steps, Deletion
<1>23. CASE RestoreDone
  BY <1>23, NoneAssumption, FilesOfKey DEF RestoreDone, UsableInv, FilesThere, FilesToCome, HostsListed, ArchiveUsable, TypeOK, Shape, Work, Idle, Steps, Deletion
<1>24. CASE RestoreFails
  BY <1>24, NoneAssumption, FilesOfKey DEF RestoreFails, UsableInv, FilesThere, FilesToCome, HostsListed, ArchiveUsable, TypeOK, Shape, Work, Idle, Steps, Deletion
<1>25. ASSUME NEW torn \in BOOLEAN, Crash(torn)
      PROVE  UsableInv'
  BY <1>25, NoneAssumption, FilesOfKey DEF Crash, UsableInv, FilesThere, FilesToCome, HostsListed, ArchiveUsable, TypeOK, Shape, Work, Idle, Steps, Deletion, LeftBehind, IndexBeingWritten
<1>26. CASE UNCHANGED vars
  BY <1>26 DEF vars, UsableInv, FilesThere, FilesToCome, HostsListed, ArchiveUsable, TypeOK, Shape, Work, Idle, Steps, Deletion
<1> QED
  BY <1>1, <1>2, <1>3, <1>4, <1>5, <1>6, <1>7, <1>8, <1>9, <1>10, <1>11, <1>12, <1>13, <1>14, <1>15, <1>16, <1>17, <1>18, <1>19, <1>20, <1>21, <1>22, <1>23, <1>24, <1>25, <1>26 DEF Next, Creating, Deleting, Exporting, Restoring

\* No file is left without an entry.
LEMMA StrayStep ==
  ASSUME TypeOK, Shape, Copied, StrayInv, [Next]_vars
  PROVE  StrayInv'
<1>1. ASSUME NEW k \in Keys, NEW h \in Hosts \cup {None}, CreatePrivate(k, h)
      PROVE  StrayInv'
  BY <1>1, NoneAssumption, FilesOfKey DEF CreatePrivate, StrayInv, FilesListed, ArchiveListed, TypeOK, Shape, Work, Idle, Steps, Create, Deletion, Files
<1>2. CASE CreatePublic
  BY <1>2, NoneAssumption, FilesOfKey DEF CreatePublic, StrayInv, FilesListed, ArchiveListed, TypeOK, Shape, Work, Idle, Steps, Create, Deletion, Files
<1>3. CASE CreateIndex
  BY <1>3, NoneAssumption, FilesOfKey DEF CreateIndex, StrayInv, FilesListed, ArchiveListed, TypeOK, Shape, Work, Idle, Steps, Create, Deletion, Files
<1>4. CASE CreateCommit
  BY <1>4, NoneAssumption, FilesOfKey DEF CreateCommit, StrayInv, FilesListed, ArchiveListed, TypeOK, Shape, Work, Idle, Steps, Create, Deletion, Files
<1>5. CASE CreateFails
  BY <1>5, NoneAssumption, FilesOfKey DEF CreateFails, StrayInv, FilesListed, ArchiveListed, TypeOK, Shape, Work, Idle, Steps, Create, Deletion, Files
<1>6. ASSUME NEW k \in Keys, NEW above \in SUBSET Hosts, Delete(k, above)
      PROVE  StrayInv'
  BY <1>6, NoneAssumption, FilesOfKey DEF Delete, StrayInv, FilesListed, ArchiveListed, TypeOK, Shape, Work, Idle, Steps, Create, Deletion, Files
<1>7. CASE DeletePrivate
  BY <1>7, NoneAssumption, FilesOfKey DEF DeletePrivate, StrayInv, FilesListed, ArchiveListed, TypeOK, Shape, Work, Idle, Steps, Create, Deletion, Files
<1>8. CASE DeletePublic
  BY <1>8, NoneAssumption, FilesOfKey DEF DeletePublic, StrayInv, FilesListed, ArchiveListed, TypeOK, Shape, Work, Idle, Steps, Create, Deletion, Files
<1>9. ASSUME NEW kept \in SUBSET Files, UnlinkFails(kept)
      PROVE  StrayInv'
  BY <1>9, NoneAssumption, FilesOfKey DEF UnlinkFails, StrayInv, FilesListed, ArchiveListed, TypeOK, Shape, Work, Idle, Steps, Create, Deletion, Files
<1>10. CASE DeleteIndex
  BY <1>10, NoneAssumption, FilesOfKey DEF DeleteIndex, StrayInv, FilesListed, ArchiveListed, TypeOK, Shape, Work, Idle, Steps, Create, Deletion, Files
<1>11. CASE DeleteCommit
  BY <1>11, NoneAssumption, FilesOfKey DEF DeleteCommit, StrayInv, FilesListed, ArchiveListed, TypeOK, Shape, Work, Idle, Steps, Create, Deletion, Files, Rows
<1>12. CASE DeleteFails
  BY <1>12, NoneAssumption, FilesOfKey DEF DeleteFails, StrayInv, FilesListed, ArchiveListed, TypeOK, Shape, Work, Idle, Steps, Create, Deletion, Files
<1>13. ASSUME NEW h \in Hosts, NEW k \in made \cup {None}, Save(h, k)
      PROVE  StrayInv'
  BY <1>13, NoneAssumption, FilesOfKey DEF Save, StrayInv, FilesListed, ArchiveListed, TypeOK, Shape, Work, Idle, Steps, Create, Deletion, Files, Rows
<1>14. ASSUME NEW h \in Hosts, NEW above \in SUBSET Hosts, DeleteHost(h, above)
      PROVE  StrayInv'
  BY <1>14, NoneAssumption, FilesOfKey DEF DeleteHost, StrayInv, FilesListed, ArchiveListed, TypeOK, Shape, Work, Idle, Steps, Create, Deletion, Files, Rows
<1>15. ASSUME NEW systems \in BOOLEAN, NEW keys \in BOOLEAN, ExportRows(systems, keys)
      PROVE  StrayInv'
  BY <1>15, NoneAssumption, FilesOfKey DEF ExportRows, StrayInv, FilesListed, ArchiveListed, TypeOK, Shape, Work, Idle, Steps, Create, Deletion, Files
<1>16. CASE ExportList
  BY <1>16, NoneAssumption, FilesOfKey DEF ExportList, StrayInv, FilesListed, ArchiveListed, TypeOK, Shape, Work, Idle, Steps, Create, Deletion, Files
<1>17. ASSUME NEW k \in Keys, ExportFiles(k)
      PROVE  StrayInv'
  BY <1>17, NoneAssumption, FilesOfKey DEF ExportFiles, StrayInv, FilesListed, ArchiveListed, TypeOK, Shape, Work, Idle, Steps, Create, Deletion, Files
<1>18. ASSUME NEW seen \in SUBSET Keys, ExportIndex(seen)
      PROVE  StrayInv'
  BY <1>18, NoneAssumption, FilesOfKey DEF ExportIndex, StrayInv, FilesListed, ArchiveListed, TypeOK, Shape, Work, Idle, Steps, Create, Deletion, Files
<1>19. CASE ExportDone
  BY <1>19, NoneAssumption, FilesOfKey DEF ExportDone, StrayInv, FilesListed, ArchiveListed, TypeOK, Shape, Work, Idle, Steps, Create, Deletion, Files, Copied, Copy, Archive
<1>20. CASE RestoreRows
  BY <1>20, NoneAssumption, FilesOfKey DEF RestoreRows, StrayInv, FilesListed, ArchiveListed, TypeOK, Shape, Work, Idle, Steps, Create, Deletion, Files, Archive, Misfit, Brought
<1>21. ASSUME NEW k \in Keys, RestoreFiles(k)
      PROVE  StrayInv'
  BY <1>21, NoneAssumption, FilesOfKey DEF RestoreFiles, StrayInv, FilesListed, ArchiveListed, TypeOK, Shape, Work, Idle, Steps, Create, Deletion, Files
<1>22. CASE RestoreIndex
  BY <1>22, NoneAssumption, FilesOfKey DEF RestoreIndex, StrayInv, FilesListed, ArchiveListed, TypeOK, Shape, Work, Idle, Steps, Create, Deletion, Files
<1>23. CASE RestoreDone
  BY <1>23, NoneAssumption, FilesOfKey DEF RestoreDone, StrayInv, FilesListed, ArchiveListed, TypeOK, Shape, Work, Idle, Steps, Create, Deletion, Files
<1>24. CASE RestoreFails
  BY <1>24, NoneAssumption, FilesOfKey DEF RestoreFails, StrayInv, FilesListed, ArchiveListed, TypeOK, Shape, Work, Idle, Steps, Create, Deletion, Files
<1>25. ASSUME NEW torn \in BOOLEAN, Crash(torn)
      PROVE  StrayInv'
  BY <1>25, NoneAssumption, FilesOfKey DEF Crash, StrayInv, FilesListed, ArchiveListed, TypeOK, Shape, Work, Idle, Steps, Create, Deletion, Files, LeftBehind, IndexBeingWritten
<1>26. CASE UNCHANGED vars
  BY <1>26 DEF vars, StrayInv, FilesListed, ArchiveListed, TypeOK, Shape, Work, Idle, Steps, Create, Deletion, Files
<1> QED
  BY <1>1, <1>2, <1>3, <1>4, <1>5, <1>6, <1>7, <1>8, <1>9, <1>10, <1>11, <1>12, <1>13, <1>14, <1>15, <1>16, <1>17, <1>18, <1>19, <1>20, <1>21, <1>22, <1>23, <1>24, <1>25, <1>26 DEF Next, Creating, Deleting, Exporting, Restoring

\* What was deleted does not come back by itself.
LEMMA GoneStep ==
  ASSUME TypeOK, Shape, Known, NewIsNotGone, GoneInv, [Next]_vars
  PROVE  GoneInv'
<1>1. ASSUME NEW k \in Keys, NEW h \in Hosts \cup {None}, CreatePrivate(k, h)
      PROVE  GoneInv'
  BY <1>1, NoneAssumption, FilesOfKey DEF CreatePrivate, GoneInv, DeletedIsGone, TypeOK, Shape, Work, Idle, Steps, Deletion, Create, Files, Known
<1>2. CASE CreatePublic
  BY <1>2, NoneAssumption, FilesOfKey DEF CreatePublic, GoneInv, DeletedIsGone, TypeOK, Shape, Work, Idle, Steps, Deletion, Create, Files
<1>3. CASE CreateIndex
  BY <1>3, NoneAssumption, FilesOfKey DEF CreateIndex, GoneInv, DeletedIsGone, TypeOK, Shape, Work, Idle, Steps, Deletion, Create, Files, NewIsNotGone
<1>4. CASE CreateCommit
  BY <1>4, NoneAssumption, FilesOfKey DEF CreateCommit, GoneInv, DeletedIsGone, TypeOK, Shape, Work, Idle, Steps, Deletion, Create, Files
<1>5. CASE CreateFails
  BY <1>5, NoneAssumption, FilesOfKey DEF CreateFails, GoneInv, DeletedIsGone, TypeOK, Shape, Work, Idle, Steps, Deletion, Create, Files
<1>6. ASSUME NEW k \in Keys, NEW above \in SUBSET Hosts, Delete(k, above)
      PROVE  GoneInv'
  BY <1>6, NoneAssumption, FilesOfKey DEF Delete, GoneInv, DeletedIsGone, TypeOK, Shape, Work, Idle, Steps, Deletion, Create, Files
<1>7. CASE DeletePrivate
  BY <1>7, NoneAssumption, FilesOfKey DEF DeletePrivate, GoneInv, DeletedIsGone, TypeOK, Shape, Work, Idle, Steps, Deletion, Create, Files
<1>8. CASE DeletePublic
  BY <1>8, NoneAssumption, FilesOfKey DEF DeletePublic, GoneInv, DeletedIsGone, TypeOK, Shape, Work, Idle, Steps, Deletion, Create, Files
<1>9. ASSUME NEW kept \in SUBSET Files, UnlinkFails(kept)
      PROVE  GoneInv'
  BY <1>9, NoneAssumption, FilesOfKey DEF UnlinkFails, GoneInv, DeletedIsGone, TypeOK, Shape, Work, Idle, Steps, Deletion, Create, Files
<1>10. CASE DeleteIndex
  BY <1>10, NoneAssumption, FilesOfKey DEF DeleteIndex, GoneInv, DeletedIsGone, TypeOK, Shape, Work, Idle, Steps, Deletion, Create, Files
<1>11. CASE DeleteCommit
  BY <1>11, NoneAssumption, FilesOfKey DEF DeleteCommit, GoneInv, DeletedIsGone, TypeOK, Shape, Work, Idle, Steps, Deletion, Create, Files, Rows
<1>12. CASE DeleteFails
  BY <1>12, NoneAssumption, FilesOfKey DEF DeleteFails, GoneInv, DeletedIsGone, TypeOK, Shape, Work, Idle, Steps, Deletion, Create, Files
<1>13. ASSUME NEW h \in Hosts, NEW k \in made \cup {None}, Save(h, k)
      PROVE  GoneInv'
  BY <1>13, NoneAssumption, FilesOfKey DEF Save, GoneInv, DeletedIsGone, TypeOK, Shape, Work, Idle, Steps, Deletion, Create, Files, Rows
<1>14. ASSUME NEW h \in Hosts, NEW above \in SUBSET Hosts, DeleteHost(h, above)
      PROVE  GoneInv'
  BY <1>14, NoneAssumption, FilesOfKey DEF DeleteHost, GoneInv, DeletedIsGone, TypeOK, Shape, Work, Idle, Steps, Deletion, Create, Files, Rows
<1>15. ASSUME NEW systems \in BOOLEAN, NEW keys \in BOOLEAN, ExportRows(systems, keys)
      PROVE  GoneInv'
  BY <1>15, NoneAssumption, FilesOfKey DEF ExportRows, GoneInv, DeletedIsGone, TypeOK, Shape, Work, Idle, Steps, Deletion, Create, Files
<1>16. CASE ExportList
  BY <1>16, NoneAssumption, FilesOfKey DEF ExportList, GoneInv, DeletedIsGone, TypeOK, Shape, Work, Idle, Steps, Deletion, Create, Files
<1>17. ASSUME NEW k \in Keys, ExportFiles(k)
      PROVE  GoneInv'
  BY <1>17, NoneAssumption, FilesOfKey DEF ExportFiles, GoneInv, DeletedIsGone, TypeOK, Shape, Work, Idle, Steps, Deletion, Create, Files
<1>18. ASSUME NEW seen \in SUBSET Keys, ExportIndex(seen)
      PROVE  GoneInv'
  BY <1>18, NoneAssumption, FilesOfKey DEF ExportIndex, GoneInv, DeletedIsGone, TypeOK, Shape, Work, Idle, Steps, Deletion, Create, Files
<1>19. CASE ExportDone
  BY <1>19, NoneAssumption, FilesOfKey DEF ExportDone, GoneInv, DeletedIsGone, TypeOK, Shape, Work, Idle, Steps, Deletion, Create, Files
<1>20. CASE RestoreRows
  BY <1>20, NoneAssumption, FilesOfKey DEF RestoreRows, GoneInv, DeletedIsGone, TypeOK, Shape, Work, Idle, Steps, Deletion, Create, Files, Archive, Misfit, Brought, Known
<1>21. ASSUME NEW k \in Keys, RestoreFiles(k)
      PROVE  GoneInv'
  BY <1>21, NoneAssumption, FilesOfKey DEF RestoreFiles, GoneInv, DeletedIsGone, TypeOK, Shape, Work, Idle, Steps, Deletion, Create, Files
<1>22. CASE RestoreIndex
  BY <1>22, NoneAssumption, FilesOfKey DEF RestoreIndex, GoneInv, DeletedIsGone, TypeOK, Shape, Work, Idle, Steps, Deletion, Create, Files
<1>23. CASE RestoreDone
  BY <1>23, NoneAssumption, FilesOfKey DEF RestoreDone, GoneInv, DeletedIsGone, TypeOK, Shape, Work, Idle, Steps, Deletion, Create, Files
<1>24. CASE RestoreFails
  BY <1>24, NoneAssumption, FilesOfKey DEF RestoreFails, GoneInv, DeletedIsGone, TypeOK, Shape, Work, Idle, Steps, Deletion, Create, Files
<1>25. ASSUME NEW torn \in BOOLEAN, Crash(torn)
      PROVE  GoneInv'
  BY <1>25, NoneAssumption, FilesOfKey DEF Crash, GoneInv, DeletedIsGone, TypeOK, Shape, Work, Idle, Steps, Deletion, Create, Files
<1>26. CASE UNCHANGED vars
  BY <1>26 DEF vars, GoneInv, DeletedIsGone, TypeOK, Shape, Work, Idle, Steps, Deletion, Create, Files
<1> QED
  BY <1>1, <1>2, <1>3, <1>4, <1>5, <1>6, <1>7, <1>8, <1>9, <1>10, <1>11, <1>12, <1>13, <1>14, <1>15, <1>16, <1>17, <1>18, <1>19, <1>20, <1>21, <1>22, <1>23, <1>24, <1>25, <1>26 DEF Next, Creating, Deleting, Exporting, Restoring

-----------------------------------------------------------------------------
(* Theorems.                                                               *)

LEMMA InitInv == Init => IInv
<1> SUFFICES ASSUME Init PROVE IInv
  OBVIOUS
<1>1. TypeOK
  BY NoneAssumption DEF Init, TypeOK, Work, Idle, Steps, Rows, Mishaps
<1>2. Shape /\ Known /\ NewIsNotGone /\ Copied
  BY DEF Init, Idle, Shape, Known, NewIsNotGone, Copied, Create, Deletion
<1>3. UsableInv /\ StrayInv /\ GoneInv
  BY NoneAssumption DEF Init, Idle, UsableInv, FilesThere, FilesToCome, HostsListed, ArchiveUsable,
     StrayInv, FilesListed, ArchiveListed, GoneInv, DeletedIsGone
<1> QED
  BY <1>1, <1>2, <1>3 DEF IInv

LEMMA InvStep == IInv /\ [Next]_vars => IInv'
  BY TypeStep, ShapeStep, KnownStep, NewStep, CopiedStep, UsableStep, StrayStep, GoneStep
     DEF IInv

\* The types, for any set of keys and of hosts.
THEOREM TypeCorrect == Spec => []TypeOK
<1>1. IInv => TypeOK
  BY DEF IInv
<1> QED
  BY InitInv, InvStep, <1>1, PTL DEF Spec

\* generate_ssh_key_pair and remove_ssh_key, with any number of keys and hosts: a
\* creation that fails at any point, a crash in it, an export beside the handlers
\* and the restore of an archive that fits leave every listed key with its
\* files and every host with a listed key.
THEOREM KeysStayUsable == Spec => []Usable
<1>1. IInv => Usable
  BY DEF IInv, UsableInv, Usable, FilesThere, HostsListed, Idle
<1> QED
  BY InitInv, InvStep, <1>1, PTL DEF Spec

\* delete_ssh_key: wherever a deletion stops, the entry is there as long as a
\* file is.
THEOREM NoFileIsStray == Spec => []NoStrayFile
<1>1. IInv => NoStrayFile
  BY DEF IInv, StrayInv, FilesListed, NoStrayFile, Shape, TypeOK
<1> QED
  BY InitInv, InvStep, <1>1, PTL DEF Spec

\* remove_ssh_key: no failure or crash of a later request brings a deleted key
\* back, nor a host that uses it.
THEOREM DeletionIsFinal == Spec => []DeletedIsGone
<1>1. IInv => DeletedIsGone
  BY DEF IInv, GoneInv, DeletedIsGone
<1> QED
  BY InitInv, InvStep, <1>1, PTL DEF Spec

=============================================================================
