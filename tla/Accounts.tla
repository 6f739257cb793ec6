------------------------------ MODULE Accounts ------------------------------
(***************************************************************************)
(* The user accounts of backend/auth.py and routers/auth.py.  Every        *)
(* handler is `def': it runs in a worker thread, beside the others, and    *)
(* each of the functions it calls opens a session of its own, reads the    *)
(* row of an account, and commits what it has changed.                     *)
(*                                                                         *)
(* What a commit writes.  The ORM remembers the row as it was read (seen)  *)
(* and writes, by id, the columns whose value differs from it.  A column   *)
(* that was set to the value it was read with is not written.              *)
(*                                                                         *)
(* Abstractions.  A password is a value, and a hash is that value and      *)
(* whether it is of a format that a login replaces (old).  A lock is       *)
(* "held" until its time is over.  Tokens last for hours and nothing       *)
(* withdraws them: any account has one.  An id that SQLite hands out again *)
(* goes to the account of the same name.  The requests that are refused    *)
(* at once, and the lists, change nothing.  Restoring a backup, which writes *)
(* to these tables too, is left out.                                       *)
(***************************************************************************)
EXTENDS Integers

CONSTANTS
  Users,        \* the names
  Admin,        \* "admin"
  Passwords,
  Requests,     \* the threads that serve requests
  None,         \* no name, no password, nothing known
  MaxAttempts,  \* verify_user's max_attempts
  MaxFailed     \* bound: failed attempts a row counts

ASSUME AccountsAssumption ==
  /\ Admin \in Users
  /\ None \notin Users /\ None \notin Passwords
  /\ MaxAttempts \in Nat \ {0} /\ MaxFailed \in Nat /\ MaxFailed >= MaxAttempts

VARIABLES
  enabled,  \* auth_settings.enabled
  rows,     \* user_accounts
  request,  \* what each thread is at
  streak,   \* history: the failures in a row of an account, or -1 when its logins have overlapped
  meant     \* history: what was last set for an account, or None when changes have overlapped

vars == <<enabled, rows, request, streak, meant>>

Row == [here: BOOLEAN, password: Passwords \cup {None}, old: BOOLEAN,
        admin: BOOLEAN, active: BOOLEAN,
        failed: 0..MaxFailed, lock: {"none", "held", "over"}]

NoRow == [here |-> FALSE, password |-> None, old |-> FALSE, admin |-> FALSE,
          active |-> FALSE, failed |-> 0, lock |-> "none"]

Account(password, admin) ==
  [NoRow EXCEPT !.here = TRUE, !.password = password, !.admin = admin, !.active = TRUE]

LoginSteps == {"expired", "reread", "verify", "record"}
Steps == LoginSteps \cup {"idle", "change", "permitted", "update", "create",
                          "delete", "bootstrap", "enable", "disable"}

\* orphan: the row that was read has been deleted.  alone: no other login of the
\* account has been under way since this one began.
Request == [at: Steps, user: Users \cup {None},
            given: Passwords \cup {None}, new: Passwords \cup {None},
            admin: {"keep", "yes", "no"}, active: {"keep", "yes", "no"},
            seen: Row, orphan: BOOLEAN, alone: BOOLEAN]

Idle == [at |-> "idle", user |-> None, given |-> None, new |-> None,
         admin |-> "keep", active |-> "keep",
         seen |-> NoRow, orphan |-> FALSE, alone |-> FALSE]

Meant == [password: Passwords, admin: BOOLEAN, active: BOOLEAN]

\* What a request keeps of a row it has read: what verify_user looks at, what
\* record_failed_attempt adds to, and what update_user compares with.
SeenByLogin(row) == [NoRow EXCEPT !.password = row.password, !.old = row.old, !.failed = row.failed]
SeenByRecord(row) == [NoRow EXCEPT !.failed = row.failed]
SeenByUpdate(row, admin, active) ==
  [NoRow EXCEPT !.admin = row.admin /\ admin # "keep", !.active = row.active /\ active # "keep"]

MeantBy(row) == [password |-> row.password, admin |-> row.admin, active |-> row.active]

TypeOK ==
  /\ enabled \in BOOLEAN
  /\ rows \in [Users -> Row]
  /\ request \in [Requests -> Request]
  /\ streak \in [Users -> -1..MaxAttempts]
  /\ meant \in [Users -> Meant \cup {None}]
  /\ \A w \in Requests : request[w].at \notin {"idle", "permitted", "bootstrap", "enable", "disable"}
       => request[w].user \in Users
  /\ \A u \in Users : rows[u].here => rows[u].password \in Passwords

\* No account before authentication is enabled for the first time; accounts of
\* an earlier version have a password in the old format.  Where it is enabled by
\* default, the first start commits that before the first account: until a start
\* comes to the account, nobody can do anything (Restart).
Init ==
  /\ enabled \in BOOLEAN
  /\ \E here \in SUBSET Users, admins \in SUBSET Users, p \in Passwords, old \in BOOLEAN :
       /\ here # {} => Admin \in here \cap admins
       /\ rows = [u \in Users |-> IF u \in here
                                  THEN [Account(p, u \in admins) EXCEPT !.old = old]
                                  ELSE NoRow]
  /\ request = [w \in Requests |-> Idle]
  /\ streak = [u \in Users |-> 0]
  /\ meant = [u \in Users |-> IF rows[u].here THEN MeantBy(rows[u]) ELSE None]

-----------------------------------------------------------------------------
(* What requests have to do with each other.                               *)

InLogin(w, u) == request[w].user = u /\ request[w].at \in LoginSteps

\* A request that will write a password, a role or a state by what it has read.
Rewrites(w, u) ==
  /\ request[w].user = u
  /\ \/ request[w].at = "update"
     \/ request[w].at = "verify" /\ request[w].seen.old

\* A write by id reaches the row it read, unless that has been deleted; it may
\* then reach the row that was created since, or fail.
Reaches(w, hit) ==
  IF hit THEN rows[request[w].user].here
         ELSE request[w].orphan \/ ~rows[request[w].user].here

\* A failed write ends the request with an error.
Ends(w) == request' = [request EXCEPT ![w] = Idle]

Fails(w) ==
  /\ Reaches(w, FALSE)
  /\ Ends(w)
  /\ UNCHANGED <<enabled, rows, streak, meant>>

-----------------------------------------------------------------------------
(* verify_user, for login (new = None) and for change_password.            *)

\* Mutant: a lock is not looked at before the password is.
LoginWhenLocked(w, u, given, new) ==
  /\ request[w] = Idle
  /\ new # None => enabled \/ u = Admin
  /\ rows[u].here /\ rows[u].active
  /\ request' =
       [v \in Requests |->
          IF v = w
          THEN [Idle EXCEPT !.at = IF rows[u].lock = "over" THEN "expired" ELSE "verify",
                            !.user = u, !.given = given, !.new = new, !.seen = SeenByLogin(rows[u]),
                            !.alone = \A x \in Requests : ~InLogin(x, u)]
          ELSE IF InLogin(v, u) THEN [request[v] EXCEPT !.alone = FALSE] ELSE request[v]]
  /\ UNCHANGED <<enabled, rows, streak, meant>>

\* An account that is missing, inactive or locked is refused at once.
Login(w, u, given, new) ==
  /\ request[w] = Idle
  /\ new # None => enabled \/ u = Admin
  /\ rows[u].here /\ rows[u].active /\ rows[u].lock # "held"
  /\ request' =
       [v \in Requests |->
          IF v = w
          THEN [Idle EXCEPT !.at = IF rows[u].lock = "over" THEN "expired" ELSE "verify",
                            !.user = u, !.given = given, !.new = new, !.seen = SeenByLogin(rows[u]),
                            !.alone = \A x \in Requests : ~InLogin(x, u)]
          ELSE IF InLogin(v, u) THEN [request[v] EXCEPT !.alone = FALSE] ELSE request[v]]
  /\ UNCHANGED <<enabled, rows, streak, meant>>

\* is_account_locked.  get_user calls it, for every request with a token of u.
Look(w, u) ==
  /\ request[w] = Idle
  /\ rows[u].here /\ rows[u].lock = "over"
  /\ request' =
       [v \in Requests |->
          IF v = w
          THEN [Idle EXCEPT !.at = "expired", !.user = u, !.seen = SeenByRecord(rows[u]),
                            !.alone = \A x \in Requests : ~InLogin(x, u)]
          ELSE IF InLogin(v, u) THEN [request[v] EXCEPT !.alone = FALSE] ELSE request[v]]
  /\ UNCHANGED <<enabled, rows, streak, meant>>

\* Mutant: the lock is removed, but its failures stay counted.
ResetLockKeepsCount(w) ==
  /\ request[w].at = "expired"
  /\ Reaches(w, TRUE)
  /\ LET u == request[w].user IN
       /\ rows' = [rows EXCEPT ![u].lock = "none"]
       /\ streak' = [streak EXCEPT ![u] = IF request[w].alone THEN 0 ELSE -1]
  /\ request' = [request EXCEPT ![w] = IF @.given = None THEN Idle ELSE [@ EXCEPT !.at = "reread"]]
  /\ UNCHANGED <<enabled, meant>>

\* A lock whose time is over is removed, and committed, before a login looks at
\* the password.
ResetLock(w) ==
  /\ request[w].at = "expired"
  /\ Reaches(w, TRUE)
  /\ LET u == request[w].user IN
       /\ rows' = [rows EXCEPT ![u].lock = "none",
                               ![u].failed = IF request[w].seen.failed = 0 THEN @ ELSE 0]
       /\ streak' = [streak EXCEPT ![u] = IF request[w].alone THEN 0 ELSE -1]
  /\ request' = [request EXCEPT ![w] = IF @.given = None THEN Idle ELSE [@ EXCEPT !.at = "reread"]]
  /\ UNCHANGED <<enabled, meant>>

\* The commit has expired what was read: the row is read again.
Reread(w) ==
  /\ request[w].at = "reread"
  /\ Reaches(w, TRUE)
  /\ request' = [request EXCEPT
       ![w] = [@ EXCEPT !.at = "verify", !.seen = SeenByLogin(rows[request[w].user]), !.orphan = FALSE]]
  /\ UNCHANGED <<enabled, rows, streak, meant>>

\* The row of a login whose password is right.  A hash in the old format is replaced.
Accepted(row, r) ==
  [row EXCEPT !.failed = IF r.seen.failed = 0 THEN @ ELSE 0,
              !.password = IF r.seen.old THEN r.given ELSE @,
              !.old = IF r.seen.old THEN FALSE ELSE @]

Accept(w) ==
  /\ request[w].at = "verify"
  /\ request[w].given = request[w].seen.password
  /\ Reaches(w, TRUE)
  /\ LET u == request[w].user IN
       /\ rows' = [rows EXCEPT ![u] = Accepted(@, request[w])]
       /\ streak' = [streak EXCEPT ![u] = IF request[w].alone THEN 0 ELSE -1]
  /\ request' = [request EXCEPT
       ![w] = IF @.new = None THEN Idle
              ELSE [Idle EXCEPT !.at = "change", !.user = request[w].user, !.new = request[w].new]]
  /\ UNCHANGED <<enabled, meant>>

\* The password is wrong: record_failed_attempt reads the row again, by name.
Refuse(w) ==
  /\ request[w].at = "verify"
  /\ request[w].given # request[w].seen.password
  /\ request' = [request EXCEPT
       ![w] = IF rows[@.user].here
              THEN [@ EXCEPT !.at = "record", !.seen = SeenByRecord(rows[request[w].user]),
                             !.given = None, !.new = None, !.orphan = FALSE]
              ELSE Idle]
  /\ UNCHANGED <<enabled, rows, streak, meant>>

Record(w) ==
  /\ request[w].at = "record"
  /\ Reaches(w, TRUE)
  /\ request[w].seen.failed < MaxFailed
  /\ LET u == request[w].user  failed == request[w].seen.failed + 1 IN
       /\ rows' = [rows EXCEPT ![u].failed = failed,
                               ![u].lock = IF failed >= MaxAttempts THEN "held" ELSE @]
       /\ streak' = [streak EXCEPT ![u] = IF request[w].alone /\ @ # -1 THEN @ + 1 ELSE -1]
  /\ Ends(w)
  /\ UNCHANGED <<enabled, meant>>

LoginFails(w) == request[w].at \in LoginSteps /\ Fails(w)

TimeIsOver(u) ==
  /\ rows[u].lock = "held"
  /\ rows' = [rows EXCEPT ![u].lock = "over"]
  /\ UNCHANGED <<enabled, request, streak, meant>>

-----------------------------------------------------------------------------
(* The handlers of an administrator, and update_user.                      *)

\* require_admin.  While authentication is disabled everybody is "admin".
Permit(w) ==
  /\ request[w] = Idle
  /\ enabled => \E u \in Users : rows[u].here /\ rows[u].active /\ rows[u].admin
  /\ request' = [request EXCEPT ![w] = [Idle EXCEPT !.at = "permitted"]]
  /\ UNCHANGED <<enabled, rows, streak, meant>>

\* Mutant: the role of "admin" can be taken away.
BeginUpdateOfAnybody(w, u, new, admin, active) ==
  /\ request[w].at = "permitted"
  /\ enabled
  /\ rows[u].here
  /\ request' = [request EXCEPT ![w] =
       [Idle EXCEPT !.at = "update", !.user = u, !.new = new, !.admin = admin,
                    !.active = active, !.seen = SeenByUpdate(rows[u], admin, active)]]
  /\ UNCHANGED <<enabled, rows, streak, meant>>

\* update_existing_user and reset_user_password, up to the row they read.
BeginUpdate(w, u, new, admin, active) ==
  /\ request[w].at = "permitted"
  /\ enabled
  /\ ~(u = Admin /\ admin = "no")
  /\ rows[u].here
  /\ request' = [request EXCEPT ![w] =
       [Idle EXCEPT !.at = "update", !.user = u, !.new = new, !.admin = admin,
                    !.active = active, !.seen = SeenByUpdate(rows[u], admin, active)]]
  /\ UNCHANGED <<enabled, rows, streak, meant>>

\* change_password has verified the old password and comes to update_user.
BeginChange(w) ==
  /\ request[w].at = "change"
  /\ request' = [request EXCEPT ![w] = IF rows[@.user].here
                                       THEN [@ EXCEPT !.at = "update"]
                                       ELSE Idle]
  /\ UNCHANGED <<enabled, rows, streak, meant>>

\* Mutant: a column that the request does not name is set to its default.
WrittenOrDefault(now, seen, wanted) ==
  IF wanted = "yes" THEN (IF seen THEN now ELSE TRUE) ELSE FALSE

\* The value of a column after a commit that was to set it.
Written(now, seen, wanted) ==
  CASE wanted = "keep" -> now
    [] wanted = "yes"  -> IF seen THEN now ELSE TRUE
    [] wanted = "no"   -> IF seen THEN FALSE ELSE now

Wanted(now, wanted) == IF wanted = "keep" THEN now ELSE wanted = "yes"

Updated(row, r) ==
  [row EXCEPT !.password = IF r.new = None THEN @ ELSE r.new,
              !.old = IF r.new = None THEN @ ELSE FALSE,
              !.admin = Written(@, r.seen.admin, r.admin),
              !.active = Written(@, r.seen.active, r.active)]

Update(w) ==
  /\ request[w].at = "update"
  /\ Reaches(w, TRUE)
  /\ LET u == request[w].user  r == request[w] IN
       /\ rows' = [rows EXCEPT ![u] = Updated(@, r)]
       /\ meant' = [meant EXCEPT ![u] =
            IF @ = None \/ \E v \in Requests \ {w} : Rewrites(v, u) THEN None
            ELSE [password |-> IF r.new = None THEN @.password ELSE r.new,
                  admin |-> Wanted(@.admin, r.admin), active |-> Wanted(@.active, r.active)]]
  /\ Ends(w)
  /\ UNCHANGED <<enabled, streak>>

UpdateFails(w) == request[w].at = "update" /\ Fails(w)

BeginCreate(w, u, new, admin) ==
  /\ request[w].at = "permitted"
  /\ enabled
  /\ ~rows[u].here
  /\ request' = [request EXCEPT ![w] =
       [Idle EXCEPT !.at = "create", !.user = u, !.new = new, !.admin = admin]]
  /\ UNCHANGED <<enabled, rows, streak, meant>>

\* A new row, and what is under way that may write to it.
Insert(u, row) ==
  /\ rows' = [rows EXCEPT ![u] = row]
  /\ streak' = [streak EXCEPT ![u] = IF \E v \in Requests : InLogin(v, u) THEN -1 ELSE 0]
  /\ meant' = [meant EXCEPT ![u] = IF \E v \in Requests : Rewrites(v, u) THEN None ELSE MeantBy(row)]

\* A name that has been taken since violates the unique index.
Create(w) ==
  /\ request[w].at = "create"
  /\ IF rows[request[w].user].here
     THEN UNCHANGED <<rows, streak, meant>>
     ELSE Insert(request[w].user, Account(request[w].new, request[w].admin = "yes"))
  /\ Ends(w)
  /\ UNCHANGED enabled

BeginDelete(w, u) ==
  /\ request[w].at = "permitted"
  /\ enabled
  /\ u # Admin
  /\ rows[u].here
  /\ request' = [request EXCEPT ![w] = [Idle EXCEPT !.at = "delete", !.user = u]]
  /\ UNCHANGED <<enabled, rows, streak, meant>>

\* A row that is gone already is no failure.
Delete(w) ==
  /\ request[w].at = "delete"
  /\ Reaches(w, TRUE)
  /\ LET u == request[w].user IN
       /\ rows' = [rows EXCEPT ![u] = NoRow]
       /\ request' = [v \in Requests |->
            IF v = w THEN Idle
            ELSE IF request[v].user = u /\ request[v].at \in LoginSteps \cup {"update", "delete"}
                 THEN [request[v] EXCEPT !.orphan = TRUE] ELSE request[v]]
       /\ meant' = [meant EXCEPT ![u] = None]
  /\ UNCHANGED <<enabled, streak>>

DeleteMisses(w) == request[w].at = "delete" /\ Fails(w)

-----------------------------------------------------------------------------
(* update_auth_config, and the start of the process.                       *)

BeginToggle(w, on) ==
  /\ request[w].at = "permitted"
  /\ request' = [request EXCEPT ![w] =
       IF on = enabled THEN Idle
       ELSE [Idle EXCEPT !.at = IF ~on THEN "disable"
                                ELSE IF rows[Admin].here THEN "enable" ELSE "bootstrap"]]
  /\ UNCHANGED <<enabled, rows, streak, meant>>

\* init_default_admin.  Two of them: the second insert fails, and so does its request.
Bootstrap(w, password) ==
  /\ request[w].at = "bootstrap"
  /\ IF rows[Admin].here
     THEN Ends(w) /\ UNCHANGED <<rows, streak, meant>>
     ELSE /\ Insert(Admin, Account(password, TRUE))
          /\ request' = [request EXCEPT ![w].at = "enable"]
  /\ UNCHANGED enabled

Toggle(w) ==
  /\ request[w].at \in {"enable", "disable"}
  /\ enabled' = (request[w].at = "enable")
  /\ Ends(w)
  /\ UNCHANGED <<rows, streak, meant>>

\* The process stops, at any point of its requests, and starts again; or the
\* first start goes on.
Restart(password) ==
  /\ request' = [w \in Requests |-> Idle]
  /\ IF enabled /\ ~rows[Admin].here
     THEN Insert(Admin, Account(password, TRUE))
     ELSE UNCHANGED <<rows, streak, meant>>
  /\ UNCHANGED enabled

Next ==
  \/ \E w \in Requests, u \in Users, given \in Passwords, new \in Passwords \cup {None} :
       Login(w, u, given, new)
  \/ \E w \in Requests, u \in Users : Look(w, u)
  \/ \E w \in Requests, u \in Users, new \in Passwords \cup {None},
        admin, active \in {"keep", "yes", "no"} : BeginUpdate(w, u, new, admin, active)
  \/ \E w \in Requests, u \in Users, new \in Passwords, admin \in {"yes", "no"} :
       BeginCreate(w, u, new, admin)
  \/ \E w \in Requests, u \in Users : BeginDelete(w, u)
  \/ \E w \in Requests, on \in BOOLEAN : BeginToggle(w, on)
  \/ \E w \in Requests, password \in Passwords : Bootstrap(w, password)
  \/ \E w \in Requests :
       \/ ResetLock(w) \/ Reread(w) \/ Accept(w) \/ Refuse(w) \/ Record(w) \/ LoginFails(w)
       \/ Permit(w) \/ BeginChange(w) \/ Update(w) \/ UpdateFails(w)
       \/ Create(w) \/ Delete(w) \/ DeleteMisses(w) \/ Toggle(w)
  \/ \E u \in Users : TimeIsOver(u)
  \/ \E password \in Passwords : Restart(password)

Spec == Init /\ [][Next]_vars

-----------------------------------------------------------------------------
(* Properties.                                                             *)

\* Logins that follow one another count exactly (verify_user,
\* record_failed_attempt, is_account_locked): an account is locked from its
\* MaxAttempts-th failure in a row until somebody looks at it after its time,
\* and never before.  Logins of one account that overlap are excepted until the
\* next that succeeds alone, or looks at a lock alone: one of two failures may be
\* lost, and a success may leave the lock that a failure beside it has set.
LocksAfterMax ==
  \A u \in Users : rows[u].here /\ streak[u] # -1 =>
    (rows[u].lock # "none" <=> streak[u] = MaxAttempts)

\* An account has the password, the role and the state that were last set for it
\* (update_user, create_user), whatever logins, which may replace the hash by
\* one of the same password, and other handlers do to its row meanwhile.
\* Excepted are accounts of which two changes, or a change and a login that
\* replaces the hash, have overlapped.
RowsAsMeant ==
  \A u \in Users : rows[u].here /\ meant[u] # None => MeantBy(rows[u]) = meant[u]

\* Every step that leaves authentication enabled leaves an account "admin", and
\* it is an administrator's: whatever handlers are under way when authentication is
\* enabled or disabled, and wherever the process stops between them
\* (init_default_admin before set_auth_enabled, and the checks of the handlers).
AdminStays == [][enabled' => rows'[Admin].here /\ rows'[Admin].admin]_vars

=============================================================================
