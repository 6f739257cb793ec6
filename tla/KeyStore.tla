------------------------------ MODULE KeyStore ------------------------------
(***************************************************************************)
(* The SSH keys of backend/ssh_key_manager.py, the hosts that use them     *)
(* (routers/ssh.py, routers/systems.py), and the backup of both            *)
(* (routers/backup.py).  A key is two files, an entry of the index file    *)
(* and the path in the rows of the hosts linked to it.  Each of the four   *)
(* is written by itself.                                                   *)
(*                                                                         *)
(* The handlers that change keys and hosts are `async def' without an      *)
(* await between their writes: one at a time (work), but a crash comes     *)
(* between any two of them.  export_backup is `def' and reads in a thread  *)
(* of its own while they go on (copy).                                     *)
(*                                                                         *)
(* Abstractions.  A key id is a uuid and never drawn twice.  A host is     *)
(* found by name, path or address, which all mean the same host here.      *)
(* What the ORM cascade of a deleted host takes along (HostTree) is any    *)
(* set of hosts.  One archive is made, and restored any number of times;   *)
(* it reads and writes the two files of a key in one step.  Entries        *)
(* without the later fields, which _load_index completes, do not occur.    *)
(***************************************************************************)
EXTENDS FiniteSets

CONSTANTS
  Keys,   \* key ids
  Hosts,  \* hosts
  None    \* no key, no host, no archive

ASSUME NoneAssumption ==
  /\ None \notin Keys /\ None \notin Hosts
  /\ Keys \cap {"absent", "unkeyed"} = {}

VARIABLES
  made,     \* the keys generated so far
  files,    \* the key files
  index,    \* the keys _load_index finds in keys_index.json
  address,  \* the host an entry was generated for
  host,     \* the rows of the hosts: "absent", "unkeyed" or the key of the path
  work,     \* the handler on the event loop that changes keys
  copy,     \* the export that is running in a thread
  archive,  \* the archive the last export made
  gone,     \* history: keys whose deletion was answered with success
  mishaps   \* history: what has happened that a write cannot undo

vars == <<made, files, index, address, host, work, copy, archive, gone, mishaps>>

Files == {"private", "public"} \X Keys
FilesOf(k) == {"private", "public"} \X {k}
Rows == [Hosts -> Keys \cup {"absent", "unkeyed"}]

Steps == {"idle", "createPublic", "createIndex", "createCommit",
          "deletePrivate", "deletePublic", "deleteIndex", "deleteCommit", "restore"}

Work == [at: Steps, key: Keys \cup {None}, host: Hosts \cup {None},
         taken: SUBSET Hosts, todo: SUBSET Files,
         index: SUBSET Keys, indexTodo: BOOLEAN]

Idle == [at |-> "idle", key |-> None, host |-> None,
         taken |-> {}, todo |-> {},
         index |-> {}, indexTodo |-> FALSE]

\* systems and keys are the parts an export was asked for; clean says that no
\* handler wrote while it read.
Archive == [systems: BOOLEAN, keys: BOOLEAN, host: Rows, files: SUBSET Files,
            index: SUBSET Keys, clean: BOOLEAN]
Copy == [made: Archive, todo: SUBSET Files, indexTodo: BOOLEAN, at: {"list", "files"}]

Mishaps == {"creation", "deletion", "torn", "stale", "raced", "older", "partial"}

TypeOK ==
  /\ made \subseteq Keys
  /\ files \subseteq Files
  /\ index \subseteq Keys
  /\ address \in [Keys -> Hosts \cup {None}]
  /\ host \in Rows
  /\ work \in Work
  /\ work.at \in Steps \ {"idle", "restore"} => work.key \in Keys
  /\ work.at = "createCommit" => work.host \in Hosts
  /\ copy \in Copy \cup {None}
  /\ archive \in Archive \cup {None}
  /\ gone \subseteq Keys
  /\ mishaps \subseteq Mishaps

Init ==
  /\ made = {} /\ files = {} /\ index = {}
  /\ address = [k \in Keys |-> None]
  /\ host = [h \in Hosts |-> "absent"]
  /\ work = Idle /\ copy = None /\ archive = None
  /\ gone = {} /\ mishaps = {}

-----------------------------------------------------------------------------
(* The index, and an export beside a handler that writes.                  *)

\* An index that is being overwritten may be read, or left behind, truncated.
\* _load_index answers a file it cannot parse with the empty list.
IndexBeingWritten ==
  \/ work.at \in {"createIndex", "deleteIndex"}
  \/ work.at = "restore" /\ work.indexTodo

\* What a write does to the export that is running.
Disturbed == IF copy = None THEN None ELSE [copy EXCEPT !.made.clean = FALSE]

-----------------------------------------------------------------------------
(* create_ssh_key: generate_ssh_key_pair, then the row of the host.  A key *)
(* that Paramiko cannot read is removed again at once and nothing changes. *)

CreatePrivate(k, h) ==
  /\ work = Idle
  /\ k \notin made
  /\ made' = made \cup {k}
  /\ files' = files \cup {<<"private", k>>}
  /\ address' = [address EXCEPT ![k] = h]
  /\ work' = [Idle EXCEPT !.at = "createPublic", !.key = k, !.host = h]
  /\ copy' = Disturbed
  /\ UNCHANGED <<index, host, archive, gone, mishaps>>

CreatePublic ==
  /\ work.at = "createPublic"
  /\ files' = files \cup {<<"public", work.key>>}
  /\ work' = [work EXCEPT !.at = "createIndex"]
  /\ copy' = Disturbed
  /\ UNCHANGED <<made, index, address, host, archive, gone, mishaps>>

\* Mutant: a key without a host has a row saved all the same.
CreateIndexAndSave ==
  /\ work.at = "createIndex"
  /\ index' = index \cup {work.key}
  /\ work' = [work EXCEPT !.at = "createCommit"]
  /\ copy' = Disturbed
  /\ UNCHANGED <<made, files, address, host, archive, gone, mishaps>>

\* A key without a host and user name has no row to save.
CreateIndex ==
  /\ work.at = "createIndex"
  /\ index' = index \cup {work.key}
  /\ work' = IF work.host = None THEN Idle ELSE [work EXCEPT !.at = "createCommit"]
  /\ copy' = Disturbed
  /\ UNCHANGED <<made, files, address, host, archive, gone, mishaps>>

\* The row of the host is found or inserted, and takes the path of the key.
CreateCommit ==
  /\ work.at = "createCommit"
  /\ host' = [host EXCEPT ![work.host] = work.key]
  /\ work' = Idle
  /\ copy' = Disturbed
  /\ UNCHANGED <<made, files, index, address, archive, gone, mishaps>>

\* The commit fails: 500, and the key stays.
CreateFails ==
  /\ work.at = "createCommit"
  /\ work' = Idle
  /\ UNCHANGED <<made, files, index, address, host, copy, archive, gone, mishaps>>

-----------------------------------------------------------------------------
(* remove_ssh_key: the rows go in a transaction that is committed last,    *)
(* after delete_ssh_key has removed the files and then the entry.          *)

\* Mutant: the host the key was generated for, whatever key it uses by now.
LinkedAtFirst(k) == {h \in Hosts : address[k] = h}

\* _systems_linked_to_key: by path, or by address for a row without a path.
Linked(k) ==
  {h \in Hosts : host[h] = k \/ (host[h] = "unkeyed" /\ address[k] = h)}

Delete(k, above) ==
  /\ work = Idle
  /\ k \in index
  /\ work' = [Idle EXCEPT !.at = "deletePrivate", !.key = k,
                          !.taken = IF Linked(k) = {} THEN {} ELSE Linked(k) \cup above]
  /\ UNCHANGED <<made, files, index, address, host, copy, archive, gone, mishaps>>

\* A file that is missing already is no failure.
DeletePrivate ==
  /\ work.at = "deletePrivate"
  /\ files' = files \ {<<"private", work.key>>}
  /\ work' = [work EXCEPT !.at = "deletePublic"]
  /\ copy' = Disturbed
  /\ UNCHANGED <<made, index, address, host, archive, gone, mishaps>>

DeletePublic ==
  /\ work.at = "deletePublic"
  /\ files' = files \ {<<"public", work.key>>}
  /\ work' = [work EXCEPT !.at = "deleteIndex"]
  /\ copy' = Disturbed
  /\ UNCHANGED <<made, index, address, host, archive, gone, mishaps>>

\* Mutant: the entry is dropped although a file could not be removed.
UnlinkForgets(kept) ==
  /\ work.at = "deletePrivate"
  /\ kept \cap files # {}
  /\ files' = files \ (FilesOf(work.key) \ kept)
  /\ index' = index \ {work.key}
  /\ mishaps' = mishaps \cup {"deletion"}
  /\ work' = Idle
  /\ copy' = Disturbed
  /\ UNCHANGED <<made, address, host, archive, gone>>

\* Some file cannot be removed: the others are, the transaction is rolled back
\* and the entry stays.
UnlinkFails(kept) ==
  /\ work.at = "deletePrivate"
  /\ kept \cap files # {}
  /\ files' = files \ (FilesOf(work.key) \ kept)
  /\ mishaps' = mishaps \cup {"deletion"}
  /\ work' = Idle
  /\ copy' = Disturbed
  /\ UNCHANGED <<made, index, address, host, archive, gone>>

DeleteIndex ==
  /\ work.at = "deleteIndex"
  /\ index' = index \ {work.key}
  /\ work' = [work EXCEPT !.at = "deleteCommit"]
  /\ copy' = Disturbed
  /\ UNCHANGED <<made, files, address, host, archive, gone, mishaps>>

DeleteCommit ==
  /\ work.at = "deleteCommit"
  /\ host' = [h \in Hosts |-> IF h \in work.taken THEN "absent" ELSE host[h]]
  /\ gone' = gone \cup {work.key}
  /\ work' = Idle
  /\ copy' = Disturbed
  /\ UNCHANGED <<made, files, index, address, archive, mishaps>>

\* Mutant: the failure of the commit is swallowed and success is answered.
DeleteSwallows ==
  /\ work.at = "deleteCommit"
  /\ gone' = gone \cup {work.key}
  /\ mishaps' = mishaps \cup {"deletion"}
  /\ work' = Idle
  /\ UNCHANGED <<made, files, index, address, host, copy, archive>>

\* The commit fails: 500, the hosts stay and the key is gone.
DeleteFails ==
  /\ work.at = "deleteCommit"
  /\ mishaps' = mishaps \cup {"deletion"}
  /\ work' = Idle
  /\ UNCHANGED <<made, files, index, address, host, copy, archive, gone>>

-----------------------------------------------------------------------------
(* The host page.                                                          *)

\* save_system takes the path as it comes.  The page offers the keys it has
\* loaded, which may have been deleted since.
Save(h, k) ==
  /\ work = Idle
  /\ host' = [host EXCEPT ![h] = IF k = None THEN "unkeyed" ELSE k]
  /\ mishaps' = IF k = None \/ k \in index THEN mishaps ELSE mishaps \cup {"stale"}
  /\ copy' = Disturbed
  /\ UNCHANGED <<made, files, index, address, work, archive, gone>>

\* delete_system leaves the key alone.
DeleteHost(h, above) ==
  /\ work = Idle
  /\ host[h] # "absent"
  /\ host' = [g \in Hosts |-> IF g \in above \cup {h} THEN "absent" ELSE host[g]]
  /\ copy' = Disturbed
  /\ UNCHANGED <<made, files, index, address, work, archive, gone, mishaps>>

-----------------------------------------------------------------------------
(* export_backup: _collect_data reads the rows, _build_zip lists the       *)
(* directory and then reads file after file.                               *)

ExportRows(systems, keys) ==
  /\ copy = None /\ archive = None
  /\ systems \/ keys
  /\ copy' = [made |-> [systems |-> systems, keys |-> keys, host |-> host,
                        files |-> {}, index |-> {}, clean |-> work = Idle],
              todo |-> {}, indexTodo |-> FALSE, at |-> "list"]
  /\ UNCHANGED <<made, files, index, address, host, work, archive, gone, mishaps>>

ExportList ==
  /\ copy # None
  /\ copy.at = "list"
  /\ copy' = [copy EXCEPT !.at = "files",
                          !.todo = IF copy.made.keys THEN files ELSE {},
                          !.indexTodo = copy.made.keys]
  /\ UNCHANGED <<made, files, index, address, host, work, archive, gone, mishaps>>

\* A file that has gone since it was listed is left out with a warning.
ExportFiles(k) ==
  /\ copy # None
  /\ FilesOf(k) \cap copy.todo # {}
  /\ copy' = [copy EXCEPT !.todo = @ \ FilesOf(k),
                          !.made.files = @ \cup (FilesOf(k) \cap copy.todo \cap files)]
  /\ UNCHANGED <<made, files, index, address, host, work, archive, gone, mishaps>>

ExportIndex(seen) ==
  /\ copy # None
  /\ copy.indexTodo
  /\ seen = index \/ (seen = {} /\ IndexBeingWritten)
  /\ copy' = [copy EXCEPT !.indexTodo = FALSE, !.made.index = seen]
  /\ UNCHANGED <<made, files, index, address, host, work, archive, gone, mishaps>>

ExportDone ==
  /\ copy # None
  /\ copy.at = "files" /\ copy.todo = {} /\ ~copy.indexTodo
  /\ archive' = copy.made
  /\ copy' = None
  /\ UNCHANGED <<made, files, index, address, host, work, gone, mishaps>>

-----------------------------------------------------------------------------
(* import_backup: the tables in one commit, then file after file.          *)

\* The keys an archive brings back.
Brought(a) == {k \in Keys : k \in a.index \/ FilesOf(k) \cap a.files # {}}

\* What does not fit together once the archive is restored: it was made while a
\* handler wrote; the store has keys that its index does not list; its hosts use
\* keys that are neither in it nor in the store.
Misfit(a) ==
  (IF a.clean THEN {} ELSE {"raced"})
  \cup (IF a.keys /\ \E f \in files : f[2] \notin a.index
        THEN {"older"} ELSE {})
  \cup (IF a.systems /\ \E h \in Hosts :
             a.host[h] \in Keys \ (IF a.keys THEN Brought(a) ELSE index)
        THEN {"partial"} ELSE {})

RestoreRows ==
  /\ work = Idle
  /\ archive # None
  /\ host' = IF archive.systems THEN archive.host ELSE host
  /\ work' = IF archive.keys
             THEN [Idle EXCEPT !.at = "restore", !.todo = archive.files, !.index = archive.index,
                                     !.indexTodo = TRUE]
             ELSE Idle
  /\ gone' = IF archive.keys THEN gone \ Brought(archive) ELSE gone
  /\ mishaps' = mishaps \cup Misfit(archive)
  /\ copy' = Disturbed
  /\ UNCHANGED <<made, files, index, address, archive>>

RestoreFiles(k) ==
  /\ work.at = "restore"
  /\ FilesOf(k) \cap work.todo # {}
  /\ files' = files \cup (FilesOf(k) \cap work.todo)
  /\ work' = [work EXCEPT !.todo = @ \ FilesOf(k)]
  /\ copy' = Disturbed
  /\ UNCHANGED <<made, index, address, host, archive, gone, mishaps>>

RestoreIndex ==
  /\ work.at = "restore"
  /\ work.indexTodo
  /\ index' = work.index
  /\ work' = [work EXCEPT !.indexTodo = FALSE]
  /\ copy' = Disturbed
  /\ UNCHANGED <<made, files, address, host, archive, gone, mishaps>>

RestoreDone ==
  /\ work.at = "restore" /\ work.todo = {} /\ ~work.indexTodo
  /\ work' = Idle
  /\ UNCHANGED <<made, files, index, address, host, copy, archive, gone, mishaps>>

\* A file cannot be written: 500, after the tables have been committed.
RestoreFails ==
  /\ work.at = "restore"
  /\ mishaps' = mishaps \cup {"partial"}
  /\ work' = Idle
  /\ UNCHANGED <<made, files, index, address, host, copy, archive, gone>>

-----------------------------------------------------------------------------
(* The process dies and is started again.  What is on disk stays.          *)

LeftBehind ==
  CASE work.at \in {"createPublic", "createIndex"} -> {"creation"}
    [] work.at \in {"deletePublic", "deleteIndex", "deleteCommit"} -> {"deletion"}
    [] work.at = "restore" -> {"partial"}
    [] OTHER -> {}

Crash(torn) ==
  /\ work # Idle \/ copy # None
  /\ ~torn \/ IndexBeingWritten
  /\ index' = IF torn THEN {} ELSE index
  /\ mishaps' = mishaps \cup LeftBehind \cup (IF torn THEN {"torn"} ELSE {})
  /\ work' = Idle
  /\ copy' = None
  /\ UNCHANGED <<made, files, address, host, archive, gone>>

Creating ==
  \/ \E k \in Keys, h \in Hosts \cup {None} : CreatePrivate(k, h)
  \/ CreatePublic \/ CreateIndex \/ CreateCommit \/ CreateFails

Deleting ==
  \/ \E k \in Keys, above \in SUBSET Hosts : Delete(k, above)
  \/ DeletePrivate \/ DeletePublic \/ DeleteIndex \/ DeleteCommit \/ DeleteFails
  \/ \E kept \in SUBSET Files : UnlinkFails(kept)

Exporting ==
  \/ \E systems, keys \in BOOLEAN : ExportRows(systems, keys)
  \/ ExportList \/ ExportDone
  \/ \E k \in Keys : ExportFiles(k)
  \/ \E seen \in SUBSET Keys : ExportIndex(seen)

Restoring ==
  \/ RestoreRows \/ RestoreIndex \/ RestoreDone \/ RestoreFails
  \/ \E k \in Keys : RestoreFiles(k)

Next ==
  \/ Creating \/ Deleting \/ Exporting \/ Restoring
  \/ \E h \in Hosts, k \in made \cup {None} : Save(h, k)
  \/ \E h \in Hosts, above \in SUBSET Hosts : DeleteHost(h, above)
  \/ \E torn \in BOOLEAN : Crash(torn)

Spec == Init /\ [][Next]_vars

-----------------------------------------------------------------------------
(* Properties.                                                             *)

\* Every listed key can be used, and every host uses a listed key: at rest, and
\* as long as no deletion was cut short, no index torn, no stale form saved and
\* no archive restored that does not fit the store.  A creation that is cut
\* short, and the restore of an archive that fits, leave it so.
\* (generate_ssh_key_pair writes the files before the entry and the entry
\* before the row; remove_ssh_key takes the rows, the files and the entry.)
Usable ==
  work = Idle /\ mishaps \subseteq {"creation"} =>
    /\ \A k \in index : FilesOf(k) \subseteq files
    /\ \A h \in Hosts : host[h] \in Keys => host[h] \in index

\* No key file is left that no entry leads to: a deletion that fails or crashes
\* half-way keeps the entry until the files are gone, so that it can be asked
\* for again.  (delete_ssh_key removes the files first.)
NoStrayFile ==
  mishaps \subseteq {"deletion", "stale"} /\ work.at # "restore" =>
    \A f \in files : f[2] \in index \/ f[2] = work.key

\* A key whose deletion was answered with success is gone for good: its files,
\* its entry and the hosts that use it, until an archive brings it back.  Crashes
\* and failures of other requests do not revive it.  (remove_ssh_key: `Unable to
\* delete SSH key definitively' is the only other answer.)
DeletedIsGone ==
  mishaps \cap {"stale", "raced", "partial"} = {} =>
    \A k \in gone : /\ FilesOf(k) \cap files = {}
                    /\ k \notin index
                    /\ \A h \in Hosts : host[h] # k

=============================================================================
