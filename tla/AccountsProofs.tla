--------------------------- MODULE AccountsProofs ---------------------------
(***************************************************************************)
(* Theorems about Accounts, for any users, passwords and threads.          *)
(***************************************************************************)
EXTENDS Accounts, TLAPS

-----------------------------------------------------------------------------
(* Strengthenings.                                                         *)

Alone(w, u) == InLogin(w, u) /\ request[w].alone

\* A login that nothing has overlapped is the only one, and what it has read of
\* the count and of the lock is so still; or its row has been deleted, and the
\* one that took its place is new.
Only(w, u) == Alone(w, u) => \A v \in Requests : v # w => ~InLogin(v, u)
Knows(w, u) ==
  Alone(w, u) /\ rows[u].here =>
    IF request[w].orphan
    THEN /\ rows[u].lock = "none" /\ rows[u].failed = 0
         /\ request[w].at = "reread" \/ streak[u] = -1
    ELSE /\ request[w].at = "expired" => rows[u].lock = "over"
         /\ request[w].at # "expired" => rows[u].lock = "none"
         /\ request[w].at = "reread" => rows[u].failed = 0
         /\ request[w].at # "reread" => request[w].seen.failed = rows[u].failed

\* The row of a login is there, or the login has lost it.
Lost(w, u) == InLogin(w, u) /\ ~rows[u].here => request[w].orphan

\* The count of a row is that of its failures in a row.
Counts(u) == rows[u].here /\ streak[u] # -1 =>
  /\ rows[u].failed = streak[u]
  /\ rows[u].lock # "none" <=> streak[u] = MaxAttempts

CountInv ==
  /\ \A w \in Requests, u \in Users : Only(w, u) /\ Knows(w, u) /\ Lost(w, u)
  /\ \A u \in Users : Counts(u)

\* A request that will write by what it has read has read what is there still.
Fresh(w, u) ==
  Rewrites(w, u) /\ rows[u].here /\ meant[u] # None =>
    /\ request[w].at = "update" =>
         /\ request[w].admin # "keep" => request[w].seen.admin = rows[u].admin
         /\ request[w].active # "keep" => request[w].seen.active = rows[u].active
    /\ request[w].at = "verify" => request[w].seen.password = rows[u].password

MeantInv ==
  /\ \A w \in Requests, u \in Users : Fresh(w, u)
  /\ RowsAsMeant

\* What the handlers on their way may do to "admin".
AdminSafe ==
  /\ rows[Admin].here => rows[Admin].admin
  /\ \A w \in Requests :
       /\ request[w].at = "enable" => rows[Admin].here
       /\ request[w].at \in {"create", "delete"} => request[w].user # Admin
       /\ request[w].at \in {"change", "update"} /\ request[w].user = Admin
            => request[w].admin # "no"

\* The administrator's account is there when authentication is enabled.
AdminHere == enabled => rows[Admin].here /\ rows[Admin].admin

\* The first start has enabled authentication and not come to the account.
FirstStart ==
  /\ enabled /\ \A u \in Users : ~rows[u].here /\ rows[u].lock = "none"
  /\ \A w \in Requests : request[w] = Idle

\* The password of a login that goes on, and of an account to be created, is one.
HasPassword == \A w \in Requests :
  /\ request[w].at = "create" => request[w].new \in Passwords
  /\ request[w].at \in {"reread", "verify"} => request[w].given \in Passwords

\* A change of password names nothing else.
ChangeIsPassword == \A w \in Requests : request[w].at = "change" =>
  request[w].admin = "keep" /\ request[w].active = "keep"

-----------------------------------------------------------------------------
(* Types.                                                                  *)

LEMMA Shapes ==
  /\ NoRow \in Row /\ Idle \in Request
  /\ \A p \in Passwords, a \in BOOLEAN : Account(p, a) \in Row
  /\ \A row \in Row : SeenByLogin(row) \in Row /\ SeenByRecord(row) \in Row
  /\ \A row \in Row, a, b \in {"keep", "yes", "no"} : SeenByUpdate(row, a, b) \in Row
<1>1. NoRow \in Row
  BY AccountsAssumption DEF NoRow, Row
<1>2. Idle \in Request
  BY <1>1 DEF Idle, Request, Steps
<1>3. \A p \in Passwords, a \in BOOLEAN : Account(p, a) \in Row
  BY <1>1 DEF Account, Row
<1>4. \A row \in Row : SeenByLogin(row) \in Row /\ SeenByRecord(row) \in Row
  BY <1>1 DEF SeenByLogin, SeenByRecord, Row
<1>5. \A row \in Row, a, b \in {"keep", "yes", "no"} : SeenByUpdate(row, a, b) \in Row
  BY <1>1, ZenonT(30) DEF SeenByUpdate, Row
<1> QED
  BY <1>1, <1>2, <1>3, <1>4, <1>5

\* What the actions make of a request.
LEMMA RequestForms ==
  ASSUME NEW r \in Request
  PROVE  /\ [r EXCEPT !.alone = FALSE] \in Request /\ [r EXCEPT !.orphan = TRUE] \in Request
         /\ \A at \in Steps : [r EXCEPT !.at = at] \in Request
         /\ \A at \in Steps, row \in Row : [r EXCEPT !.at = at, !.seen = row, !.orphan = FALSE] \in Request
         /\ \A at \in Steps, row \in Row :
              [r EXCEPT !.at = at, !.seen = row, !.given = None, !.new = None, !.orphan = FALSE] \in Request
  BY DEF Request

LEMMA IdleForms ==
  /\ \A at \in Steps : [Idle EXCEPT !.at = at] \in Request
  /\ \A at \in Steps, u \in Users : [Idle EXCEPT !.at = at, !.user = u] \in Request
  /\ \A at \in Steps, u \in Users, row \in Row :
       [Idle EXCEPT !.at = at, !.user = u, !.seen = row] \in Request
  /\ \A at \in Steps, u \in Users, given \in Passwords, new \in Passwords \cup {None},
        row \in Row, alone \in BOOLEAN :
       [Idle EXCEPT !.at = at, !.user = u, !.given = given, !.new = new, !.seen = row,
                    !.alone = alone] \in Request
  BY Shapes, ZenonT(30) DEF Request

\* Requests keep their shape.
LEMMA RequestType ==
  ASSUME TypeOK, [Next]_vars
  PROVE  request' \in [Requests -> Request]
<1>1. ASSUME NEW w \in Requests, NEW u \in Users, NEW given \in Passwords,
             NEW new \in Passwords \cup {None}, Login(w, u, given, new)
      PROVE  request' \in [Requests -> Request]
  <2>1. /\ SeenByLogin(rows[u]) \in Row
        /\ (IF rows[u].lock = "over" THEN "expired" ELSE "verify") \in Steps
    BY Shapes DEF TypeOK, Steps, LoginSteps
  <2>2. ASSUME NEW v \in Requests
        PROVE  request'[v] \in Request
    <3>1. CASE v = w
      <4> DEFINE at == IF rows[u].lock = "over" THEN "expired" ELSE "verify"
                 row == SeenByLogin(rows[u])
      <4>1. \/ request'[w] = [Idle EXCEPT !.at = at, !.user = u, !.given = given, !.new = new,
                                          !.seen = row, !.alone = TRUE]
            \/ request'[w] = [Idle EXCEPT !.at = at, !.user = u, !.given = given, !.new = new,
                                          !.seen = row, !.alone = FALSE]
        BY <1>1 DEF Login
      <4>2. at \in Steps /\ row \in Row
        BY <2>1
      <4> HIDE DEF at, row
      <4> QED
        BY <1>1, <3>1, <4>1, <4>2, Shapes, ZenonT(30) DEF Request
    <3>2. CASE v # w
      BY <1>1, <3>2, RequestForms DEF Login, TypeOK
    <3> QED
      BY <3>1, <3>2
  <2> QED
    BY <1>1, <2>2 DEF Login
<1>2. ASSUME NEW w \in Requests, NEW u \in Users, Look(w, u)
      PROVE  request' \in [Requests -> Request]
  <2>1. SeenByRecord(rows[u]) \in Row /\ "expired" \in Steps
    BY Shapes DEF TypeOK, Steps, LoginSteps
  <2>2. ASSUME NEW v \in Requests
        PROVE  request'[v] \in Request
    <3>1. CASE v = w
      <4> DEFINE row == SeenByRecord(rows[u])
      <4>1. \/ request'[w] = [Idle EXCEPT !.at = "expired", !.user = u, !.seen = row, !.alone = TRUE]
            \/ request'[w] = [Idle EXCEPT !.at = "expired", !.user = u, !.seen = row, !.alone = FALSE]
        BY <1>2 DEF Look
      <4>2. "expired" \in Steps /\ row \in Row
        BY <2>1
      <4> HIDE DEF row
      <4> QED
        BY <1>2, <3>1, <4>1, <4>2, Shapes, ZenonT(30) DEF Request
    <3>2. CASE v # w
      BY <1>2, <3>2, RequestForms DEF Look, TypeOK
    <3> QED
      BY <3>1, <3>2
  <2> QED
    BY <1>2, <2>2 DEF Look
<1>3. ASSUME NEW w \in Requests, ResetLock(w)
      PROVE  request' \in [Requests -> Request]
  BY <1>3, Shapes DEF ResetLock, TypeOK, Request, Steps, LoginSteps, Idle
<1>4. ASSUME NEW w \in Requests, Reread(w)
      PROVE  request' \in [Requests -> Request]
  <2>1. request[w].user \in Users /\ "verify" \in Steps
    BY <1>4 DEF Reread, TypeOK, Steps, LoginSteps
  <2>2. SeenByLogin(rows[request[w].user]) \in Row
    BY <2>1, Shapes DEF TypeOK
  <2>3. request'[w] \in Request
    BY <1>4, <2>1, <2>2, RequestForms DEF Reread, TypeOK
  <2> QED
    BY <1>4, <2>3 DEF Reread, TypeOK
<1>5. ASSUME NEW w \in Requests, Accept(w)
      PROVE  request' \in [Requests -> Request]
  BY <1>5, Shapes DEF Accept, TypeOK, Request, Steps, LoginSteps, Idle
<1>6. ASSUME NEW w \in Requests, Refuse(w)
      PROVE  request' \in [Requests -> Request]
  <2>1. request[w].user \in Users /\ "record" \in Steps
    BY <1>6 DEF Refuse, TypeOK, Steps, LoginSteps
  <2>2. SeenByRecord(rows[request[w].user]) \in Row
    BY <2>1, Shapes DEF TypeOK
  <2>3. request'[w] \in Request
    BY <1>6, <2>1, <2>2, Shapes, RequestForms DEF Refuse, TypeOK
  <2> QED
    BY <1>6, <2>3 DEF Refuse, TypeOK
<1>7. ASSUME NEW w \in Requests, Record(w)
      PROVE  request' \in [Requests -> Request]
  BY <1>7, Shapes DEF Record, Ends, TypeOK, Request, Steps, LoginSteps, Idle
<1>8. ASSUME NEW w \in Requests, LoginFails(w)
      PROVE  request' \in [Requests -> Request]
  BY <1>8, Shapes DEF LoginFails, Fails, Ends, TypeOK, Request, Steps, LoginSteps, Idle
<1>9. ASSUME NEW u \in Users, TimeIsOver(u)
      PROVE  request' \in [Requests -> Request]
  BY <1>9, Shapes DEF TimeIsOver, TypeOK, Request, Steps, LoginSteps, Idle
<1>10. ASSUME NEW w \in Requests, Permit(w)
      PROVE  request' \in [Requests -> Request]
  BY <1>10, Shapes DEF Permit, TypeOK, Request, Steps, LoginSteps, Idle
<1>11. ASSUME NEW w \in Requests, NEW u \in Users, NEW new \in Passwords \cup {None},
             NEW admin \in {"keep", "yes", "no"}, NEW active \in {"keep", "yes", "no"}, BeginUpdate(w, u, new, admin, active)
      PROVE  request' \in [Requests -> Request]
  BY <1>11, Shapes, ZenonT(30) DEF BeginUpdate, TypeOK, Request, Steps, LoginSteps, Idle
<1>12. ASSUME NEW w \in Requests, BeginChange(w)
      PROVE  request' \in [Requests -> Request]
  BY <1>12, Shapes DEF BeginChange, TypeOK, Request, Steps, LoginSteps, Idle
<1>13. ASSUME NEW w \in Requests, Update(w)
      PROVE  request' \in [Requests -> Request]
  BY <1>13, Shapes DEF Update, Ends, TypeOK, Request, Steps, LoginSteps, Idle
<1>14. ASSUME NEW w \in Requests, UpdateFails(w)
      PROVE  request' \in [Requests -> Request]
  BY <1>14, Shapes DEF UpdateFails, Fails, Ends, TypeOK, Request, Steps, LoginSteps, Idle
<1>15. ASSUME NEW w \in Requests, NEW u \in Users, NEW new \in Passwords, NEW admin \in {"yes", "no"}, BeginCreate(w, u, new, admin)
      PROVE  request' \in [Requests -> Request]
  BY <1>15, Shapes DEF BeginCreate, TypeOK, Request, Steps, LoginSteps, Idle
<1>16. ASSUME NEW w \in Requests, Create(w)
      PROVE  request' \in [Requests -> Request]
  BY <1>16, Shapes DEF Create, Ends, Insert, TypeOK, Request, Steps, LoginSteps, Idle
<1>17. ASSUME NEW w \in Requests, NEW u \in Users, BeginDelete(w, u)
      PROVE  request' \in [Requests -> Request]
  BY <1>17, Shapes DEF BeginDelete, TypeOK, Request, Steps, LoginSteps, Idle
<1>18. ASSUME NEW w \in Requests, Delete(w)
      PROVE  request' \in [Requests -> Request]
  <2>1. \A v \in Requests : request'[v] \in Request
    BY <1>18, Shapes, RequestForms DEF Delete, TypeOK
  <2> QED
    BY <1>18, <2>1 DEF Delete
<1>19. ASSUME NEW w \in Requests, DeleteMisses(w)
      PROVE  request' \in [Requests -> Request]
  BY <1>19, Shapes DEF DeleteMisses, Fails, Ends, TypeOK, Request, Steps, LoginSteps, Idle
<1>20. ASSUME NEW w \in Requests, NEW on \in BOOLEAN, BeginToggle(w, on)
      PROVE  request' \in [Requests -> Request]
  BY <1>20, Shapes, ZenonT(30) DEF BeginToggle, TypeOK, Request, Steps, LoginSteps, Idle
<1>21. ASSUME NEW w \in Requests, NEW password \in Passwords, Bootstrap(w, password)
      PROVE  request' \in [Requests -> Request]
  <2>1. "enable" \in Steps
    BY DEF Steps
  <2>2. CASE rows[Admin].here
    BY <1>21, <2>2, Shapes DEF Bootstrap, Ends, TypeOK
  <2>3. CASE ~rows[Admin].here
    <3>1. [request[w] EXCEPT !.at = "enable"] \in Request
      BY <2>1, RequestForms DEF TypeOK
    <3>2. request' = [request EXCEPT ![w] = [request[w] EXCEPT !.at = "enable"]]
      BY <1>21, <2>3 DEF Bootstrap
    <3> QED
      BY <3>1, <3>2 DEF TypeOK
  <2> QED
    BY <2>2, <2>3
<1>22. ASSUME NEW w \in Requests, Toggle(w)
      PROVE  request' \in [Requests -> Request]
  BY <1>22, Shapes DEF Toggle, Ends, TypeOK, Request, Steps, LoginSteps, Idle
<1>23. ASSUME NEW password \in Passwords, Restart(password)
      PROVE  request' \in [Requests -> Request]
  BY <1>23, Shapes DEF Restart, Insert, TypeOK, Request, Steps, LoginSteps, Idle
<1>24. CASE UNCHANGED vars
  BY <1>24 DEF vars, TypeOK, Request, Steps, LoginSteps, Idle
<1> QED
  BY <1>1, <1>2, <1>3, <1>4, <1>5, <1>6, <1>7, <1>8, <1>9, <1>10, <1>11, <1>12, <1>13, <1>14, <1>15, <1>16, <1>17, <1>18, <1>19, <1>20, <1>21, <1>22, <1>23, <1>24 DEF Next

LEMMA UserType ==
  ASSUME TypeOK, [Next]_vars
  PROVE  \A q \in Requests : request'[q].at \notin {"idle", "permitted", "bootstrap", "enable", "disable"}
                         => request'[q].user \in Users
<1>1. ASSUME NEW w \in Requests, NEW u \in Users, NEW given \in Passwords,
             NEW new \in Passwords \cup {None}, Login(w, u, given, new)
      PROVE  \A q \in Requests : request'[q].at \notin {"idle", "permitted", "bootstrap", "enable", "disable"}
                         => request'[q].user \in Users
  <2>1. request'[w].user \in Users
    BY <1>1 DEF Login, Idle
  <2>2. \A v \in Requests : v # w => request'[v].user = request[v].user /\ request'[v].at = request[v].at
    BY <1>1, ZenonT(30) DEF Login, TypeOK, Request
  <2> QED
    BY <2>1, <2>2 DEF TypeOK
<1>2. ASSUME NEW w \in Requests, NEW u \in Users, Look(w, u)
      PROVE  \A q \in Requests : request'[q].at \notin {"idle", "permitted", "bootstrap", "enable", "disable"}
                         => request'[q].user \in Users
  <2>1. request'[w].user \in Users
    BY <1>2 DEF Look, Idle
  <2>2. \A v \in Requests : v # w => request'[v].user = request[v].user /\ request'[v].at = request[v].at
    BY <1>2, ZenonT(30) DEF Look, TypeOK, Request
  <2> QED
    BY <2>1, <2>2 DEF TypeOK
<1>3. ASSUME NEW w \in Requests, ResetLock(w)
      PROVE  \A q \in Requests : request'[q].at \notin {"idle", "permitted", "bootstrap", "enable", "disable"}
                         => request'[q].user \in Users
  BY <1>3 DEF ResetLock, TypeOK, Idle, Steps, LoginSteps
<1>4. ASSUME NEW w \in Requests, Reread(w)
      PROVE  \A q \in Requests : request'[q].at \notin {"idle", "permitted", "bootstrap", "enable", "disable"}
                         => request'[q].user \in Users
  BY <1>4 DEF Reread, TypeOK, Idle, Steps, LoginSteps
<1>5. ASSUME NEW w \in Requests, Accept(w)
      PROVE  \A q \in Requests : request'[q].at \notin {"idle", "permitted", "bootstrap", "enable", "disable"}
                         => request'[q].user \in Users
  BY <1>5 DEF Accept, TypeOK, Idle, Steps, LoginSteps
<1>6. ASSUME NEW w \in Requests, Refuse(w)
      PROVE  \A q \in Requests : request'[q].at \notin {"idle", "permitted", "bootstrap", "enable", "disable"}
                         => request'[q].user \in Users
  BY <1>6 DEF Refuse, TypeOK, Idle, Steps, LoginSteps
<1>7. ASSUME NEW w \in Requests, Record(w)
      PROVE  \A q \in Requests : request'[q].at \notin {"idle", "permitted", "bootstrap", "enable", "disable"}
                         => request'[q].user \in Users
  BY <1>7 DEF Record, Ends, TypeOK, Idle, Steps, LoginSteps
<1>8. ASSUME NEW w \in Requests, LoginFails(w)
      PROVE  \A q \in Requests : request'[q].at \notin {"idle", "permitted", "bootstrap", "enable", "disable"}
                         => request'[q].user \in Users
  BY <1>8 DEF LoginFails, Fails, Ends, TypeOK, Idle, Steps, LoginSteps
<1>9. ASSUME NEW u \in Users, TimeIsOver(u)
      PROVE  \A q \in Requests : request'[q].at \notin {"idle", "permitted", "bootstrap", "enable", "disable"}
                         => request'[q].user \in Users
  BY <1>9 DEF TimeIsOver, TypeOK, Idle, Steps, LoginSteps
<1>10. ASSUME NEW w \in Requests, Permit(w)
      PROVE  \A q \in Requests : request'[q].at \notin {"idle", "permitted", "bootstrap", "enable", "disable"}
                         => request'[q].user \in Users
  BY <1>10 DEF Permit, TypeOK, Idle, Steps, LoginSteps
<1>11. ASSUME NEW w \in Requests, NEW u \in Users, NEW new \in Passwords \cup {None},
             NEW admin \in {"keep", "yes", "no"}, NEW active \in {"keep", "yes", "no"}, BeginUpdate(w, u, new, admin, active)
      PROVE  \A q \in Requests : request'[q].at \notin {"idle", "permitted", "bootstrap", "enable", "disable"}
                         => request'[q].user \in Users
  BY <1>11 DEF BeginUpdate, TypeOK, Idle, Steps, LoginSteps
<1>12. ASSUME NEW w \in Requests, BeginChange(w)
      PROVE  \A q \in Requests : request'[q].at \notin {"idle", "permitted", "bootstrap", "enable", "disable"}
                         => request'[q].user \in Users
  BY <1>12 DEF BeginChange, TypeOK, Idle, Steps, LoginSteps
<1>13. ASSUME NEW w \in Requests, Update(w)
      PROVE  \A q \in Requests : request'[q].at \notin {"idle", "permitted", "bootstrap", "enable", "disable"}
                         => request'[q].user \in Users
  BY <1>13 DEF Update, Ends, TypeOK, Idle, Steps, LoginSteps
<1>14. ASSUME NEW w \in Requests, UpdateFails(w)
      PROVE  \A q \in Requests : request'[q].at \notin {"idle", "permitted", "bootstrap", "enable", "disable"}
                         => request'[q].user \in Users
  BY <1>14 DEF UpdateFails, Fails, Ends, TypeOK, Idle, Steps, LoginSteps
<1>15. ASSUME NEW w \in Requests, NEW u \in Users, NEW new \in Passwords, NEW admin \in {"yes", "no"}, BeginCreate(w, u, new, admin)
      PROVE  \A q \in Requests : request'[q].at \notin {"idle", "permitted", "bootstrap", "enable", "disable"}
                         => request'[q].user \in Users
  BY <1>15 DEF BeginCreate, TypeOK, Idle, Steps, LoginSteps
<1>16. ASSUME NEW w \in Requests, Create(w)
      PROVE  \A q \in Requests : request'[q].at \notin {"idle", "permitted", "bootstrap", "enable", "disable"}
                         => request'[q].user \in Users
  BY <1>16 DEF Create, Ends, Insert, TypeOK, Idle, Steps, LoginSteps
<1>17. ASSUME NEW w \in Requests, NEW u \in Users, BeginDelete(w, u)
      PROVE  \A q \in Requests : request'[q].at \notin {"idle", "permitted", "bootstrap", "enable", "disable"}
                         => request'[q].user \in Users
  BY <1>17 DEF BeginDelete, TypeOK, Idle, Steps, LoginSteps
<1>18. ASSUME NEW w \in Requests, Delete(w)
      PROVE  \A q \in Requests : request'[q].at \notin {"idle", "permitted", "bootstrap", "enable", "disable"}
                         => request'[q].user \in Users
  BY <1>18 DEF Delete, TypeOK, Idle, Steps, LoginSteps
<1>19. ASSUME NEW w \in Requests, DeleteMisses(w)
      PROVE  \A q \in Requests : request'[q].at \notin {"idle", "permitted", "bootstrap", "enable", "disable"}
                         => request'[q].user \in Users
  BY <1>19 DEF DeleteMisses, Fails, Ends, TypeOK, Idle, Steps, LoginSteps
<1>20. ASSUME NEW w \in Requests, NEW on \in BOOLEAN, BeginToggle(w, on)
      PROVE  \A q \in Requests : request'[q].at \notin {"idle", "permitted", "bootstrap", "enable", "disable"}
                         => request'[q].user \in Users
  BY <1>20 DEF BeginToggle, TypeOK, Idle, Steps, LoginSteps
<1>21. ASSUME NEW w \in Requests, NEW password \in Passwords, Bootstrap(w, password)
      PROVE  \A q \in Requests : request'[q].at \notin {"idle", "permitted", "bootstrap", "enable", "disable"}
                         => request'[q].user \in Users
  <2>1. CASE rows[Admin].here
    BY <1>21, <2>1 DEF Bootstrap, Ends, TypeOK, Idle
  <2>2. CASE ~rows[Admin].here
    BY <1>21, <2>2 DEF Bootstrap, TypeOK, Request
  <2> QED
    BY <2>1, <2>2
<1>22. ASSUME NEW w \in Requests, Toggle(w)
      PROVE  \A q \in Requests : request'[q].at \notin {"idle", "permitted", "bootstrap", "enable", "disable"}
                         => request'[q].user \in Users
  BY <1>22 DEF Toggle, Ends, TypeOK, Idle, Steps, LoginSteps
<1>23. ASSUME NEW password \in Passwords, Restart(password)
      PROVE  \A q \in Requests : request'[q].at \notin {"idle", "permitted", "bootstrap", "enable", "disable"}
                         => request'[q].user \in Users
  BY <1>23 DEF Restart, Insert, TypeOK, Idle, Steps, LoginSteps
<1>24. CASE UNCHANGED vars
  BY <1>24 DEF vars, TypeOK, Idle, Steps, LoginSteps
<1> QED
  BY <1>1, <1>2, <1>3, <1>4, <1>5, <1>6, <1>7, <1>8, <1>9, <1>10, <1>11, <1>12, <1>13, <1>14, <1>15, <1>16, <1>17, <1>18, <1>19, <1>20, <1>21, <1>22, <1>23, <1>24 DEF Next

LEMMA PasswordStep ==
  ASSUME TypeOK, HasPassword, [Next]_vars
  PROVE  HasPassword'
<1>1. ASSUME NEW w \in Requests, NEW u \in Users, NEW given \in Passwords,
             NEW new \in Passwords \cup {None}, Login(w, u, given, new)
      PROVE  HasPassword'
  <2>1. request'[w].given \in Passwords /\ request'[w].at # "create"
    BY <1>1 DEF Login, Idle
  <2>2. \A v \in Requests : v # w => /\ request'[v].given = request[v].given
                                    /\ request'[v].new = request[v].new /\ request'[v].at = request[v].at
    BY <1>1, ZenonT(30) DEF Login, TypeOK, Request
  <2> QED
    BY <2>1, <2>2 DEF HasPassword
<1>2. ASSUME NEW w \in Requests, NEW u \in Users, Look(w, u)
      PROVE  HasPassword'
  <2>1. request'[w].at = "expired"
    BY <1>2 DEF Look, Idle
  <2>2. \A v \in Requests : v # w => /\ request'[v].given = request[v].given
                                    /\ request'[v].new = request[v].new /\ request'[v].at = request[v].at
    BY <1>2, ZenonT(30) DEF Look, TypeOK, Request
  <2> QED
    BY <2>1, <2>2 DEF HasPassword
<1>3. ASSUME NEW w \in Requests, ResetLock(w)
      PROVE  HasPassword'
  BY <1>3 DEF ResetLock, HasPassword, TypeOK, Request, Idle, Steps, LoginSteps
<1>4. ASSUME NEW w \in Requests, Reread(w)
      PROVE  HasPassword'
  BY <1>4 DEF Reread, HasPassword, TypeOK, Request, Idle, Steps, LoginSteps
<1>5. ASSUME NEW w \in Requests, Accept(w)
      PROVE  HasPassword'
  BY <1>5 DEF Accept, HasPassword, TypeOK, Request, Idle, Steps, LoginSteps
<1>6. ASSUME NEW w \in Requests, Refuse(w)
      PROVE  HasPassword'
  BY <1>6 DEF Refuse, HasPassword, TypeOK, Request, Idle, Steps, LoginSteps
<1>7. ASSUME NEW w \in Requests, Record(w)
      PROVE  HasPassword'
  BY <1>7 DEF Record, Ends, HasPassword, TypeOK, Request, Idle, Steps, LoginSteps
<1>8. ASSUME NEW w \in Requests, LoginFails(w)
      PROVE  HasPassword'
  BY <1>8 DEF LoginFails, Fails, Ends, HasPassword, TypeOK, Request, Idle, Steps, LoginSteps
<1>9. ASSUME NEW u \in Users, TimeIsOver(u)
      PROVE  HasPassword'
  BY <1>9 DEF TimeIsOver, HasPassword, TypeOK, Request, Idle, Steps, LoginSteps
<1>10. ASSUME NEW w \in Requests, Permit(w)
      PROVE  HasPassword'
  BY <1>10 DEF Permit, HasPassword, TypeOK, Request, Idle, Steps, LoginSteps
<1>11. ASSUME NEW w \in Requests, NEW u \in Users, NEW new \in Passwords \cup {None},
             NEW admin \in {"keep", "yes", "no"}, NEW active \in {"keep", "yes", "no"}, BeginUpdate(w, u, new, admin, active)
      PROVE  HasPassword'
  BY <1>11 DEF BeginUpdate, HasPassword, TypeOK, Request, Idle, Steps, LoginSteps
<1>12. ASSUME NEW w \in Requests, BeginChange(w)
      PROVE  HasPassword'
  BY <1>12 DEF BeginChange, HasPassword, TypeOK, Request, Idle, Steps, LoginSteps
<1>13. ASSUME NEW w \in Requests, Update(w)
      PROVE  HasPassword'
  BY <1>13 DEF Update, Ends, HasPassword, TypeOK, Request, Idle, Steps, LoginSteps
<1>14. ASSUME NEW w \in Requests, UpdateFails(w)
      PROVE  HasPassword'
  BY <1>14 DEF UpdateFails, Fails, Ends, HasPassword, TypeOK, Request, Idle, Steps, LoginSteps
<1>15. ASSUME NEW w \in Requests, NEW u \in Users, NEW new \in Passwords, NEW admin \in {"yes", "no"}, BeginCreate(w, u, new, admin)
      PROVE  HasPassword'
  BY <1>15 DEF BeginCreate, HasPassword, TypeOK, Request, Idle, Steps, LoginSteps
<1>16. ASSUME NEW w \in Requests, Create(w)
      PROVE  HasPassword'
  BY <1>16 DEF Create, Ends, Insert, HasPassword, TypeOK, Request, Idle, Steps, LoginSteps
<1>17. ASSUME NEW w \in Requests, NEW u \in Users, BeginDelete(w, u)
      PROVE  HasPassword'
  BY <1>17 DEF BeginDelete, HasPassword, TypeOK, Request, Idle, Steps, LoginSteps
<1>18. ASSUME NEW w \in Requests, Delete(w)
      PROVE  HasPassword'
  BY <1>18 DEF Delete, HasPassword, TypeOK, Request, Idle, Steps, LoginSteps
<1>19. ASSUME NEW w \in Requests, DeleteMisses(w)
      PROVE  HasPassword'
  BY <1>19 DEF DeleteMisses, Fails, Ends, HasPassword, TypeOK, Request, Idle, Steps, LoginSteps
<1>20. ASSUME NEW w \in Requests, NEW on \in BOOLEAN, BeginToggle(w, on)
      PROVE  HasPassword'
  BY <1>20 DEF BeginToggle, HasPassword, TypeOK, Request, Idle, Steps, LoginSteps
<1>21. ASSUME NEW w \in Requests, NEW password \in Passwords, Bootstrap(w, password)
      PROVE  HasPassword'
  <2>1. CASE rows[Admin].here
    BY <1>21, <2>1 DEF Bootstrap, Ends, HasPassword, TypeOK, Idle
  <2>2. CASE ~rows[Admin].here
    BY <1>21, <2>2 DEF Bootstrap, HasPassword, TypeOK, Request
  <2> QED
    BY <2>1, <2>2
<1>22. ASSUME NEW w \in Requests, Toggle(w)
      PROVE  HasPassword'
  BY <1>22 DEF Toggle, Ends, HasPassword, TypeOK, Request, Idle, Steps, LoginSteps
<1>23. ASSUME NEW password \in Passwords, Restart(password)
      PROVE  HasPassword'
  BY <1>23 DEF Restart, Insert, HasPassword, TypeOK, Request, Idle, Steps, LoginSteps
<1>24. CASE UNCHANGED vars
  BY <1>24 DEF vars, HasPassword, TypeOK, Request, Idle, Steps, LoginSteps
<1> QED
  BY <1>1, <1>2, <1>3, <1>4, <1>5, <1>6, <1>7, <1>8, <1>9, <1>10, <1>11, <1>12, <1>13, <1>14, <1>15, <1>16, <1>17, <1>18, <1>19, <1>20, <1>21, <1>22, <1>23, <1>24 DEF Next

\* What a login that succeeds, and an update, make of a row.
LEMMA AcceptedRow ==
  ASSUME NEW row \in Row, NEW r \in Request, r.given \in Passwords
  PROVE  /\ Accepted(row, r) \in Row
         /\ Accepted(row, r).here = row.here
         /\ Accepted(row, r).password \in {row.password, r.given}
<1> DEFINE failed == IF r.seen.failed = 0 THEN row.failed ELSE 0
           password == IF r.seen.old THEN r.given ELSE row.password
           old == IF r.seen.old THEN FALSE ELSE row.old
<1>1. Accepted(row, r) = [row EXCEPT !.failed = failed, !.password = password, !.old = old]
  BY Zenon DEF Accepted
<1>2. failed \in 0..MaxFailed
  BY AccountsAssumption DEF Row
<1>3. password \in Passwords \cup {None} /\ password \in {row.password, r.given}
  BY DEF Row
<1>4. old \in BOOLEAN
  BY DEF Row
<1> HIDE DEF failed, password, old
<1> QED
  BY <1>1, <1>2, <1>3, <1>4 DEF Row

LEMMA UpdatedRow ==
  ASSUME NEW row \in Row, NEW r \in Request
  PROVE  /\ Updated(row, r) \in Row
         /\ Updated(row, r).here = row.here
         /\ Updated(row, r).failed = row.failed /\ Updated(row, r).lock = row.lock
         /\ Updated(row, r).password = IF r.new = None THEN row.password ELSE r.new
         /\ Updated(row, r).admin = Written(row.admin, r.seen.admin, r.admin)
         /\ Updated(row, r).active = Written(row.active, r.seen.active, r.active)
<1> DEFINE password == IF r.new = None THEN row.password ELSE r.new
           old == IF r.new = None THEN row.old ELSE FALSE
           admin == Written(row.admin, r.seen.admin, r.admin)
           active == Written(row.active, r.seen.active, r.active)
<1>1. Updated(row, r) = [row EXCEPT !.password = password, !.old = old, !.admin = admin, !.active = active]
  BY Zenon DEF Updated
<1>2. password \in Passwords \cup {None}
  BY DEF Row, Request
<1>3. old \in BOOLEAN
  BY DEF Row
<1>4. admin \in BOOLEAN /\ active \in BOOLEAN
  BY DEF Row, Request, Written
<1> HIDE DEF password, old, admin, active
<1>5. Updated(row, r) \in Row /\ Updated(row, r).here = row.here /\ Updated(row, r).password = password
  BY <1>1, <1>2, <1>3, <1>4 DEF Row
<1>6. /\ Updated(row, r).admin = admin /\ Updated(row, r).active = active
      /\ Updated(row, r).failed = row.failed /\ Updated(row, r).lock = row.lock
  BY <1>1 DEF Row
<1> QED
  BY <1>5, <1>6 DEF password, admin, active

LEMMA RowsType ==
  ASSUME TypeOK, HasPassword, [Next]_vars
  PROVE  rows' \in [Users -> Row] /\ \A v \in Users : rows'[v].here => rows'[v].password \in Passwords
<1>1. ASSUME NEW w \in Requests, NEW u \in Users, NEW given \in Passwords,
             NEW new \in Passwords \cup {None}, Login(w, u, given, new)
      PROVE  rows' \in [Users -> Row] /\ \A v \in Users : rows'[v].here => rows'[v].password \in Passwords
  BY <1>1, AccountsAssumption DEF Login, TypeOK, Request, Row, NoRow, Account
<1>2. ASSUME NEW w \in Requests, NEW u \in Users, Look(w, u)
      PROVE  rows' \in [Users -> Row] /\ \A v \in Users : rows'[v].here => rows'[v].password \in Passwords
  BY <1>2, AccountsAssumption DEF Look, TypeOK, Request, Row, NoRow, Account
<1>3. ASSUME NEW w \in Requests, ResetLock(w)
      PROVE  rows' \in [Users -> Row] /\ \A v \in Users : rows'[v].here => rows'[v].password \in Passwords
  <2> DEFINE u == request[w].user
             row == rows[u]
             lock == "none"
             failed == IF request[w].seen.failed = 0 THEN row.failed ELSE 0
  <2>1. u \in Users /\ request[w] \in Request /\ row \in Row /\ (row.here => row.password \in Passwords)
    BY <1>3 DEF ResetLock, TypeOK, HasPassword, Steps, LoginSteps
  <2>2. rows' = [rows EXCEPT ![u] = [row EXCEPT !.lock = lock, !.failed = failed]]
    BY <1>3, <2>1 DEF ResetLock, TypeOK
  <2>3. /\ lock \in {"none", "held", "over"}
        /\ failed \in 0..MaxFailed
    BY <1>3, <2>1, AccountsAssumption DEF ResetLock, Row, Request
  <2> HIDE DEF u, row, lock, failed
  <2>4. [row EXCEPT !.lock = lock, !.failed = failed] \in Row
    BY <2>1, <2>3 DEF Row
  <2>5. [row EXCEPT !.lock = lock, !.failed = failed].here = row.here
    BY <2>1 DEF Row
  <2>6. [row EXCEPT !.lock = lock, !.failed = failed].password = row.password
    BY <2>1 DEF Row
  <2> QED
    BY <2>1, <2>2, <2>3, <2>4, <2>5, <2>6 DEF TypeOK
<1>4. ASSUME NEW w \in Requests, Reread(w)
      PROVE  rows' \in [Users -> Row] /\ \A v \in Users : rows'[v].here => rows'[v].password \in Passwords
  BY <1>4, AccountsAssumption DEF Reread, TypeOK, Request, Row, NoRow, Account
<1>5. ASSUME NEW w \in Requests, Accept(w)
      PROVE  rows' \in [Users -> Row] /\ \A v \in Users : rows'[v].here => rows'[v].password \in Passwords
  <2> DEFINE u == request[w].user
             row == Accepted(rows[u], request[w])
  <2>1. /\ u \in Users /\ request[w] \in Request /\ request[w].given \in Passwords
        /\ rows[u] \in Row /\ (rows[u].here => rows[u].password \in Passwords)
    BY <1>5 DEF Accept, TypeOK, HasPassword, Steps, LoginSteps
  <2>2. rows' = [rows EXCEPT ![u] = row]
    BY <1>5 DEF Accept
  <2>3. row \in Row /\ (row.here => row.password \in Passwords)
    BY <2>1, AcceptedRow
  <2> HIDE DEF u, row
  <2> QED
    BY <2>1, <2>2, <2>3 DEF TypeOK
<1>6. ASSUME NEW w \in Requests, Refuse(w)
      PROVE  rows' \in [Users -> Row] /\ \A v \in Users : rows'[v].here => rows'[v].password \in Passwords
  BY <1>6, AccountsAssumption DEF Refuse, TypeOK, Request, Row, NoRow, Account
<1>7. ASSUME NEW w \in Requests, Record(w)
      PROVE  rows' \in [Users -> Row] /\ \A v \in Users : rows'[v].here => rows'[v].password \in Passwords
  <2> DEFINE u == request[w].user
             row == rows[u]
             failed == request[w].seen.failed + 1
             lock == IF failed >= MaxAttempts THEN "held" ELSE row.lock
  <2>1. u \in Users /\ request[w] \in Request /\ row \in Row /\ (row.here => row.password \in Passwords)
    BY <1>7 DEF Record, TypeOK, HasPassword, Steps, LoginSteps
  <2>2. rows' = [rows EXCEPT ![u] = [row EXCEPT !.failed = failed, !.lock = lock]]
    BY <1>7, <2>1 DEF Record, TypeOK
  <2>3. /\ failed \in 0..MaxFailed
        /\ lock \in {"none", "held", "over"}
    BY <1>7, <2>1, AccountsAssumption DEF Record, Row, Request
  <2> HIDE DEF u, row, failed, lock
  <2>4. [row EXCEPT !.failed = failed, !.lock = lock] \in Row
    BY <2>1, <2>3 DEF Row
  <2>5. [row EXCEPT !.failed = failed, !.lock = lock].here = row.here
    BY <2>1 DEF Row
  <2>6. [row EXCEPT !.failed = failed, !.lock = lock].password = row.password
    BY <2>1 DEF Row
  <2> QED
    BY <2>1, <2>2, <2>3, <2>4, <2>5, <2>6 DEF TypeOK
<1>8. ASSUME NEW w \in Requests, LoginFails(w)
      PROVE  rows' \in [Users -> Row] /\ \A v \in Users : rows'[v].here => rows'[v].password \in Passwords
  BY <1>8, AccountsAssumption DEF LoginFails, Fails, Ends, TypeOK, Request, Row, NoRow, Account
<1>9. ASSUME NEW u \in Users, TimeIsOver(u)
      PROVE  rows' \in [Users -> Row] /\ \A v \in Users : rows'[v].here => rows'[v].password \in Passwords
  BY <1>9, AccountsAssumption DEF TimeIsOver, TypeOK, Request, Row, NoRow, Account
<1>10. ASSUME NEW w \in Requests, Permit(w)
      PROVE  rows' \in [Users -> Row] /\ \A v \in Users : rows'[v].here => rows'[v].password \in Passwords
  BY <1>10, AccountsAssumption DEF Permit, TypeOK, Request, Row, NoRow, Account
<1>11. ASSUME NEW w \in Requests, NEW u \in Users, NEW new \in Passwords \cup {None},
             NEW admin \in {"keep", "yes", "no"}, NEW active \in {"keep", "yes", "no"}, BeginUpdate(w, u, new, admin, active)
      PROVE  rows' \in [Users -> Row] /\ \A v \in Users : rows'[v].here => rows'[v].password \in Passwords
  BY <1>11, AccountsAssumption DEF BeginUpdate, TypeOK, Request, Row, NoRow, Account
<1>12. ASSUME NEW w \in Requests, BeginChange(w)
      PROVE  rows' \in [Users -> Row] /\ \A v \in Users : rows'[v].here => rows'[v].password \in Passwords
  BY <1>12, AccountsAssumption DEF BeginChange, TypeOK, Request, Row, NoRow, Account
<1>13. ASSUME NEW w \in Requests, Update(w)
      PROVE  rows' \in [Users -> Row] /\ \A v \in Users : rows'[v].here => rows'[v].password \in Passwords
  <2> DEFINE u == request[w].user
             row == Updated(rows[u], request[w])
  <2>1. /\ u \in Users /\ request[w] \in Request
        /\ rows[u] \in Row /\ (rows[u].here => rows[u].password \in Passwords)
    BY <1>13 DEF Update, TypeOK, Steps, LoginSteps
  <2>2. rows' = [rows EXCEPT ![u] = row]
    BY <1>13 DEF Update
  <2>3. row \in Row /\ (row.here => row.password \in Passwords)
    BY <2>1, UpdatedRow DEF Request
  <2> HIDE DEF u, row
  <2> QED
    BY <2>1, <2>2, <2>3 DEF TypeOK
<1>14. ASSUME NEW w \in Requests, UpdateFails(w)
      PROVE  rows' \in [Users -> Row] /\ \A v \in Users : rows'[v].here => rows'[v].password \in Passwords
  BY <1>14, AccountsAssumption DEF UpdateFails, Fails, Ends, TypeOK, Request, Row, NoRow, Account
<1>15. ASSUME NEW w \in Requests, NEW u \in Users, NEW new \in Passwords, NEW admin \in {"yes", "no"}, BeginCreate(w, u, new, admin)
      PROVE  rows' \in [Users -> Row] /\ \A v \in Users : rows'[v].here => rows'[v].password \in Passwords
  BY <1>15, AccountsAssumption DEF BeginCreate, TypeOK, Request, Row, NoRow, Account
<1>16. ASSUME NEW w \in Requests, Create(w)
      PROVE  rows' \in [Users -> Row] /\ \A v \in Users : rows'[v].here => rows'[v].password \in Passwords
  <2>1. CASE rows' = rows
    BY <2>1 DEF TypeOK
  <2>2. CASE rows' # rows
    <3>1. rows' = [rows EXCEPT ![request[w].user] = Account(request[w].new, request[w].admin = "yes")]
      BY <1>16, <2>2 DEF Create, Insert
    <3>2. request[w].user \in Users /\ Account(request[w].new, request[w].admin = "yes") \in Row /\ Account(request[w].new, request[w].admin = "yes").password \in Passwords
      BY <1>16, Shapes, AccountsAssumption DEF Create, TypeOK, HasPassword, Steps, LoginSteps, Account, NoRow
    <3> QED
      BY <3>1, <3>2 DEF TypeOK
  <2> QED
    BY <2>1, <2>2
<1>17. ASSUME NEW w \in Requests, NEW u \in Users, BeginDelete(w, u)
      PROVE  rows' \in [Users -> Row] /\ \A v \in Users : rows'[v].here => rows'[v].password \in Passwords
  BY <1>17, AccountsAssumption DEF BeginDelete, TypeOK, Request, Row, NoRow, Account
<1>18. ASSUME NEW w \in Requests, Delete(w)
      PROVE  rows' \in [Users -> Row] /\ \A v \in Users : rows'[v].here => rows'[v].password \in Passwords
  BY <1>18, AccountsAssumption, SMTT(30) DEF Delete, TypeOK, Request, Row, NoRow, Account
<1>19. ASSUME NEW w \in Requests, DeleteMisses(w)
      PROVE  rows' \in [Users -> Row] /\ \A v \in Users : rows'[v].here => rows'[v].password \in Passwords
  BY <1>19, AccountsAssumption DEF DeleteMisses, Fails, Ends, TypeOK, Request, Row, NoRow, Account
<1>20. ASSUME NEW w \in Requests, NEW on \in BOOLEAN, BeginToggle(w, on)
      PROVE  rows' \in [Users -> Row] /\ \A v \in Users : rows'[v].here => rows'[v].password \in Passwords
  BY <1>20, AccountsAssumption DEF BeginToggle, TypeOK, Request, Row, NoRow, Account
<1>21. ASSUME NEW w \in Requests, NEW password \in Passwords, Bootstrap(w, password)
      PROVE  rows' \in [Users -> Row] /\ \A v \in Users : rows'[v].here => rows'[v].password \in Passwords
  <2>1. CASE rows' = rows
    BY <2>1 DEF TypeOK
  <2>2. CASE rows' # rows
    <3>1. rows' = [rows EXCEPT ![Admin] = Account(password, TRUE)]
      BY <1>21, <2>2 DEF Bootstrap, Insert
    <3>2. Admin \in Users /\ Account(password, TRUE) \in Row /\ Account(password, TRUE).password \in Passwords
      BY <1>21, Shapes, AccountsAssumption DEF Bootstrap, TypeOK, HasPassword, Steps, LoginSteps, Account, NoRow
    <3> QED
      BY <3>1, <3>2 DEF TypeOK
  <2> QED
    BY <2>1, <2>2
<1>22. ASSUME NEW w \in Requests, Toggle(w)
      PROVE  rows' \in [Users -> Row] /\ \A v \in Users : rows'[v].here => rows'[v].password \in Passwords
  BY <1>22, AccountsAssumption DEF Toggle, Ends, TypeOK, Request, Row, NoRow, Account
<1>23. ASSUME NEW password \in Passwords, Restart(password)
      PROVE  rows' \in [Users -> Row] /\ \A v \in Users : rows'[v].here => rows'[v].password \in Passwords
  <2>1. CASE rows' = rows
    BY <2>1 DEF TypeOK
  <2>2. CASE rows' # rows
    <3>1. rows' = [rows EXCEPT ![Admin] = Account(password, TRUE)]
      BY <1>23, <2>2 DEF Restart, Insert
    <3>2. Admin \in Users /\ Account(password, TRUE) \in Row /\ Account(password, TRUE).password \in Passwords
      BY <1>23, Shapes, AccountsAssumption DEF Restart, TypeOK, HasPassword, Steps, LoginSteps, Account, NoRow
    <3> QED
      BY <3>1, <3>2 DEF TypeOK
  <2> QED
    BY <2>1, <2>2
<1>24. CASE UNCHANGED vars
  BY <1>24 DEF vars, TypeOK, Request, Row, NoRow, Account
<1> QED
  BY <1>1, <1>2, <1>3, <1>4, <1>5, <1>6, <1>7, <1>8, <1>9, <1>10, <1>11, <1>12, <1>13, <1>14, <1>15, <1>16, <1>17, <1>18, <1>19, <1>20, <1>21, <1>22, <1>23, <1>24 DEF Next

LEMMA MeantType ==
  ASSUME TypeOK, HasPassword, [Next]_vars
  PROVE  meant' \in [Users -> Meant \cup {None}]
<1>1. ASSUME NEW w \in Requests, NEW u \in Users, NEW given \in Passwords,
             NEW new \in Passwords \cup {None}, Login(w, u, given, new)
      PROVE  meant' \in [Users -> Meant \cup {None}]
  BY <1>1, AccountsAssumption DEF Login, TypeOK
<1>2. ASSUME NEW w \in Requests, NEW u \in Users, Look(w, u)
      PROVE  meant' \in [Users -> Meant \cup {None}]
  BY <1>2, AccountsAssumption DEF Look, TypeOK
<1>3. ASSUME NEW w \in Requests, ResetLock(w)
      PROVE  meant' \in [Users -> Meant \cup {None}]
  BY <1>3, AccountsAssumption DEF ResetLock, TypeOK
<1>4. ASSUME NEW w \in Requests, Reread(w)
      PROVE  meant' \in [Users -> Meant \cup {None}]
  BY <1>4, AccountsAssumption DEF Reread, TypeOK
<1>5. ASSUME NEW w \in Requests, Accept(w)
      PROVE  meant' \in [Users -> Meant \cup {None}]
  BY <1>5, AccountsAssumption DEF Accept, TypeOK
<1>6. ASSUME NEW w \in Requests, Refuse(w)
      PROVE  meant' \in [Users -> Meant \cup {None}]
  BY <1>6, AccountsAssumption DEF Refuse, TypeOK
<1>7. ASSUME NEW w \in Requests, Record(w)
      PROVE  meant' \in [Users -> Meant \cup {None}]
  BY <1>7, AccountsAssumption DEF Record, Ends, TypeOK
<1>8. ASSUME NEW w \in Requests, LoginFails(w)
      PROVE  meant' \in [Users -> Meant \cup {None}]
  BY <1>8, AccountsAssumption DEF LoginFails, Fails, Ends, TypeOK
<1>9. ASSUME NEW u \in Users, TimeIsOver(u)
      PROVE  meant' \in [Users -> Meant \cup {None}]
  BY <1>9, AccountsAssumption DEF TimeIsOver, TypeOK
<1>10. ASSUME NEW w \in Requests, Permit(w)
      PROVE  meant' \in [Users -> Meant \cup {None}]
  BY <1>10, AccountsAssumption DEF Permit, TypeOK
<1>11. ASSUME NEW w \in Requests, NEW u \in Users, NEW new \in Passwords \cup {None},
             NEW admin \in {"keep", "yes", "no"}, NEW active \in {"keep", "yes", "no"}, BeginUpdate(w, u, new, admin, active)
      PROVE  meant' \in [Users -> Meant \cup {None}]
  BY <1>11, AccountsAssumption DEF BeginUpdate, TypeOK
<1>12. ASSUME NEW w \in Requests, BeginChange(w)
      PROVE  meant' \in [Users -> Meant \cup {None}]
  BY <1>12, AccountsAssumption DEF BeginChange, TypeOK
<1>13. ASSUME NEW w \in Requests, Update(w)
      PROVE  meant' \in [Users -> Meant \cup {None}]
  <2> DEFINE u == request[w].user
             m == [password |-> IF request[w].new = None THEN meant[u].password ELSE request[w].new,
                   admin |-> Wanted(meant[u].admin, request[w].admin),
                   active |-> Wanted(meant[u].active, request[w].active)]
  <2>1. u \in Users /\ request[w] \in Request
    BY <1>13 DEF Update, TypeOK, Steps, LoginSteps
  <2>2. meant[u] # None => m \in Meant
    BY <2>1 DEF TypeOK, Meant, Wanted, Request
  <2>3. meant' = [meant EXCEPT ![u] = None] \/ (meant[u] # None /\ meant' = [meant EXCEPT ![u] = m])
    BY <1>13, <2>1 DEF Update, TypeOK
  <2> HIDE DEF m, u
  <2> QED
    BY <2>1, <2>2, <2>3 DEF TypeOK
<1>14. ASSUME NEW w \in Requests, UpdateFails(w)
      PROVE  meant' \in [Users -> Meant \cup {None}]
  BY <1>14, AccountsAssumption DEF UpdateFails, Fails, Ends, TypeOK
<1>15. ASSUME NEW w \in Requests, NEW u \in Users, NEW new \in Passwords, NEW admin \in {"yes", "no"}, BeginCreate(w, u, new, admin)
      PROVE  meant' \in [Users -> Meant \cup {None}]
  BY <1>15, AccountsAssumption DEF BeginCreate, TypeOK
<1>16. ASSUME NEW w \in Requests, Create(w)
      PROVE  meant' \in [Users -> Meant \cup {None}]
  <2>1. request[w].user \in Users /\ MeantBy(Account(request[w].new, request[w].admin = "yes")) \in Meant
    BY <1>16, Shapes, AccountsAssumption DEF Create, TypeOK, HasPassword, Steps, LoginSteps, Account, NoRow, MeantBy, Meant
  <2>2. \/ meant' = meant \/ meant' = [meant EXCEPT ![request[w].user] = None]
        \/ meant' = [meant EXCEPT ![request[w].user] = MeantBy(Account(request[w].new, request[w].admin = "yes"))]
    BY <1>16 DEF Create, Insert
  <2> QED
    BY <2>1, <2>2 DEF TypeOK
<1>17. ASSUME NEW w \in Requests, NEW u \in Users, BeginDelete(w, u)
      PROVE  meant' \in [Users -> Meant \cup {None}]
  BY <1>17, AccountsAssumption DEF BeginDelete, TypeOK
<1>18. ASSUME NEW w \in Requests, Delete(w)
      PROVE  meant' \in [Users -> Meant \cup {None}]
  BY <1>18, AccountsAssumption DEF Delete, TypeOK
<1>19. ASSUME NEW w \in Requests, DeleteMisses(w)
      PROVE  meant' \in [Users -> Meant \cup {None}]
  BY <1>19, AccountsAssumption DEF DeleteMisses, Fails, Ends, TypeOK
<1>20. ASSUME NEW w \in Requests, NEW on \in BOOLEAN, BeginToggle(w, on)
      PROVE  meant' \in [Users -> Meant \cup {None}]
  BY <1>20, AccountsAssumption DEF BeginToggle, TypeOK
<1>21. ASSUME NEW w \in Requests, NEW password \in Passwords, Bootstrap(w, password)
      PROVE  meant' \in [Users -> Meant \cup {None}]
  <2>1. Admin \in Users /\ MeantBy(Account(password, TRUE)) \in Meant
    BY <1>21, Shapes, AccountsAssumption DEF Bootstrap, TypeOK, HasPassword, Steps, LoginSteps, Account, NoRow, MeantBy, Meant
  <2>2. \/ meant' = meant \/ meant' = [meant EXCEPT ![Admin] = None]
        \/ meant' = [meant EXCEPT ![Admin] = MeantBy(Account(password, TRUE))]
    BY <1>21 DEF Bootstrap, Insert
  <2> QED
    BY <2>1, <2>2 DEF TypeOK
<1>22. ASSUME NEW w \in Requests, Toggle(w)
      PROVE  meant' \in [Users -> Meant \cup {None}]
  BY <1>22, AccountsAssumption DEF Toggle, Ends, TypeOK
<1>23. ASSUME NEW password \in Passwords, Restart(password)
      PROVE  meant' \in [Users -> Meant \cup {None}]
  <2>1. Admin \in Users /\ MeantBy(Account(password, TRUE)) \in Meant
    BY <1>23, Shapes, AccountsAssumption DEF Restart, TypeOK, HasPassword, Steps, LoginSteps, Account, NoRow, MeantBy, Meant
  <2>2. \/ meant' = meant \/ meant' = [meant EXCEPT ![Admin] = None]
        \/ meant' = [meant EXCEPT ![Admin] = MeantBy(Account(password, TRUE))]
    BY <1>23 DEF Restart, Insert
  <2> QED
    BY <2>1, <2>2 DEF TypeOK
<1>24. CASE UNCHANGED vars
  BY <1>24 DEF vars, TypeOK
<1> QED
  BY <1>1, <1>2, <1>3, <1>4, <1>5, <1>6, <1>7, <1>8, <1>9, <1>10, <1>11, <1>12, <1>13, <1>14, <1>15, <1>16, <1>17, <1>18, <1>19, <1>20, <1>21, <1>22, <1>23, <1>24 DEF Next

-----------------------------------------------------------------------------
(* Logins.                                                                 *)

\* What a login that begins does to the requests.
Begins(w, u) ==
  /\ request[w].at = "idle" /\ rows[u].here /\ rows[u].lock # "held"
  /\ request'[w].user = u /\ ~request'[w].orphan
  /\ request'[w].at = IF rows[u].lock = "over" THEN "expired" ELSE "verify"
  /\ request'[w].seen = SeenByLogin(rows[u])
  /\ request'[w].alone => \A v \in Requests : ~InLogin(v, u)
  /\ \A v \in Requests \ {w} :
       /\ request'[v].user = request[v].user /\ request'[v].at = request[v].at
       /\ request'[v].seen = request[v].seen /\ request'[v].orphan = request[v].orphan
       /\ request'[v].admin = request[v].admin /\ request'[v].active = request[v].active
       /\ request'[v].alone => request[v].alone /\ ~InLogin(v, u)
  /\ UNCHANGED <<enabled, rows, streak, meant>>

LEMMA LoginEffect ==
  ASSUME TypeOK, NEW w \in Requests, NEW u \in Users, NEW given, NEW new, Login(w, u, given, new)
  PROVE  Begins(w, u)
<1>1. /\ request[w] = Idle
      /\ rows[u].here /\ rows[u].lock # "held"
      /\ UNCHANGED <<enabled, rows, streak, meant>>
  BY DEF Login
<1>2. request[w].at = "idle"
  BY <1>1 DEF Idle
<1>3. /\ request'[w].user = u /\ ~request'[w].orphan
      /\ request'[w].at = IF rows[u].lock = "over" THEN "expired" ELSE "verify"
      /\ request'[w].seen = SeenByLogin(rows[u])
  BY DEF Login, Idle
<1>4. request'[w].alone => \A v \in Requests : ~InLogin(v, u)
  BY DEF Login, Idle
<1>5. ASSUME NEW v \in Requests \ {w}
      PROVE  request'[v] = IF InLogin(v, u) THEN [request[v] EXCEPT !.alone = FALSE] ELSE request[v]
  BY <1>5 DEF Login
<1>6. \A v \in Requests : request[v] \in Request
  BY DEF TypeOK
<1> QED
  BY <1>1, <1>2, <1>3, <1>4, <1>5, <1>6, ZenonT(30) DEF Request, Begins

\* What a look at a lock that is over changes.
Looks(w, u) ==
  /\ request[w].at = "idle" /\ rows[u].here /\ rows[u].lock = "over"
  /\ request'[w].user = u /\ ~request'[w].orphan /\ request'[w].at = "expired"
  /\ request'[w].seen.failed = rows[u].failed
  /\ request'[w].alone => \A v \in Requests : ~InLogin(v, u)
  /\ \A v \in Requests \ {w} :
       /\ request'[v].user = request[v].user /\ request'[v].at = request[v].at
       /\ request'[v].seen = request[v].seen /\ request'[v].orphan = request[v].orphan
       /\ request'[v].admin = request[v].admin /\ request'[v].active = request[v].active
       /\ request'[v].alone => request[v].alone /\ ~InLogin(v, u)
  /\ UNCHANGED <<enabled, rows, streak, meant>>

LEMMA LookEffect ==
  ASSUME TypeOK, NEW w \in Requests, NEW u \in Users, Look(w, u)
  PROVE  Looks(w, u)
<1>1. /\ request[w] = Idle
      /\ rows[u].here /\ rows[u].lock = "over"
      /\ UNCHANGED <<enabled, rows, streak, meant>>
  BY DEF Look
<1>2. request[w].at = "idle"
  BY <1>1 DEF Idle
<1>3. /\ request'[w].user = u /\ ~request'[w].orphan /\ request'[w].at = "expired"
      /\ request'[w].seen = SeenByRecord(rows[u])
  BY DEF Look, Idle
<1>4. request'[w].seen.failed = rows[u].failed
  BY <1>3 DEF SeenByRecord, NoRow
<1>5. request'[w].alone => \A v \in Requests : ~InLogin(v, u)
  BY DEF Look, Idle
<1>6. ASSUME NEW v \in Requests \ {w}
      PROVE  request'[v] = IF InLogin(v, u) THEN [request[v] EXCEPT !.alone = FALSE] ELSE request[v]
  BY <1>6 DEF Look
<1>7. \A v \in Requests : request[v] \in Request
  BY DEF TypeOK
<1> QED
  BY <1>1, <1>2, <1>3, <1>4, <1>5, <1>6, <1>7, ZenonT(30) DEF Request, Looks

\* What a login that succeeds changes.
LEMMA AcceptEffect ==
  ASSUME TypeOK, NEW w \in Requests, Accept(w)
  PROVE  /\ request[w].user \in Users /\ InLogin(w, request[w].user)
         /\ request[w].at = "verify" /\ request[w].given = request[w].seen.password
         /\ \A x \in Users :
              /\ rows'[x].here = rows[x].here /\ rows'[x].lock = rows[x].lock
              /\ rows'[x].admin = rows[x].admin /\ rows'[x].active = rows[x].active
              /\ x # request[w].user => rows'[x] = rows[x] /\ streak'[x] = streak[x]
         /\ rows'[request[w].user].failed = IF request[w].seen.failed = 0 THEN rows[request[w].user].failed ELSE 0
         /\ rows'[request[w].user].password =
              IF request[w].seen.old THEN request[w].given ELSE rows[request[w].user].password
         /\ streak'[request[w].user] = IF request[w].alone THEN 0 ELSE -1
         /\ meant' = meant /\ enabled' = enabled
         /\ \A v \in Requests : v # w => request'[v] = request[v]
         /\ request'[w].at \in {"idle", "change"} /\ request'[w].admin = "keep"
<1> DEFINE u == request[w].user
           seen == request[w].seen
           row == Accepted(rows[u], request[w])
<1>1. u \in Users /\ InLogin(w, u)
  BY DEF Accept, TypeOK, InLogin, LoginSteps
<1>2. rows' = [rows EXCEPT ![u] = row]
  BY Zenon DEF Accept
<1>3. streak' = [streak EXCEPT ![u] = IF request[w].alone THEN 0 ELSE -1]
  BY Zenon DEF Accept
<1>4. rows'[u] = row /\ \A x \in Users : x # u => rows'[x] = rows[x]
  BY <1>1, <1>2, Zenon DEF TypeOK
<1>5. streak'[u] = (IF request[w].alone THEN 0 ELSE -1) /\ \A x \in Users : x # u => streak'[x] = streak[x]
  BY <1>1, <1>3, Zenon DEF TypeOK
<1>6. rows[u] \in Row
  BY <1>1 DEF TypeOK
<1>7. /\ row.here = rows[u].here /\ row.lock = rows[u].lock
      /\ row.admin = rows[u].admin /\ row.active = rows[u].active
      /\ row.failed = IF seen.failed = 0 THEN rows[u].failed ELSE 0
      /\ row.password = IF seen.old THEN request[w].given ELSE rows[u].password
  BY <1>6 DEF Row, Accepted
<1>8. \A v \in Requests : v # w => request'[v] = request[v]
  BY DEF Accept, TypeOK
<1>9. request'[w].at \in {"idle", "change"} /\ request'[w].admin = "keep"
  BY DEF Accept, TypeOK, Idle
<1>10. request[w].at = "verify" /\ request[w].given = seen.password /\ meant' = meant /\ enabled' = enabled
  BY DEF Accept
<1> HIDE DEF row
<1> QED
  BY <1>1, <1>4, <1>5, <1>7, <1>8, <1>9, <1>10

LEMMA BootstrapEffect ==
  ASSUME TypeOK, NEW w \in Requests, NEW password \in Passwords, Bootstrap(w, password)
  PROVE  /\ request[w].at = "bootstrap" /\ request'[w].at \in {"idle", "enable"}
         /\ \A v \in Requests \ {w} : request'[v] = request[v]
         /\ \/ UNCHANGED <<rows, streak, meant>> /\ rows[Admin].here
            \/ ~rows[Admin].here /\ Insert(Admin, Account(password, TRUE))
<1>1. request[w].at = "bootstrap" /\ \A v \in Requests : request[v] \in Request
  BY DEF Bootstrap, TypeOK
<1>2. CASE rows[Admin].here
  BY <1>1, <1>2 DEF Bootstrap, Ends, TypeOK, Idle
<1>3. CASE ~rows[Admin].here
  BY <1>1, <1>3, ZenonT(30) DEF Bootstrap, TypeOK, Request
<1> QED
  BY <1>2, <1>3

LEMMA LostStep ==
  ASSUME TypeOK, NEW v \in Requests, NEW x \in Users, Lost(v, x), [Next]_vars
  PROVE  Lost(v, x)'
<1>1. ASSUME NEW w \in Requests, NEW u \in Users, NEW given \in Passwords,
             NEW new \in Passwords \cup {None}, Login(w, u, given, new)
      PROVE  Lost(v, x)'
  <2>1. Begins(w, u)
    BY <1>1, LoginEffect
  <2>2. CASE v = w
    BY <1>1, <2>1, <2>2 DEF Begins, Lost, InLogin, LoginSteps
  <2>3. CASE v # w
    BY <1>1, <2>1, <2>3 DEF Begins, Lost, InLogin, LoginSteps
  <2> QED
    BY <2>2, <2>3
<1>2. ASSUME NEW w \in Requests, NEW u \in Users, Look(w, u)
      PROVE  Lost(v, x)'
  <2>1. Looks(w, u)
    BY <1>2, LookEffect
  <2>2. CASE v = w
    BY <1>2, <2>1, <2>2 DEF Looks, Lost, InLogin, LoginSteps
  <2>3. CASE v # w
    BY <1>2, <2>1, <2>3 DEF Looks, Lost, InLogin, LoginSteps
  <2> QED
    BY <2>2, <2>3
<1>3. ASSUME NEW w \in Requests, ResetLock(w)
      PROVE  Lost(v, x)'
  <2>1. CASE v = w
    BY <1>3, <2>1 DEF ResetLock, Lost, TypeOK, Request, Row, Idle, Steps, LoginSteps, InLogin, Alone
  <2>2. CASE v # w
    BY <1>3, <2>2 DEF ResetLock, Lost, TypeOK, Request, Row, Idle, Steps, LoginSteps, InLogin, Alone
  <2> QED
    BY <2>1, <2>2
<1>4. ASSUME NEW w \in Requests, Reread(w)
      PROVE  Lost(v, x)'
  <2>1. CASE v = w
    <3>1. request'[v].user = request[v].user /\ request'[v].orphan = FALSE /\ rows[request[v].user].here
      BY <1>4, <2>1 DEF Reread, Reaches, TypeOK, Request
    <3>2. rows' = rows
      BY <1>4 DEF Reread
    <3> QED
      BY <3>1, <3>2 DEF Lost, InLogin
  <2>2. CASE v # w
    BY <1>4, <2>2 DEF Reread, Lost, TypeOK, Request, Row, Idle, Steps, LoginSteps, InLogin, Alone
  <2> QED
    BY <2>1, <2>2
<1>5. ASSUME NEW w \in Requests, Accept(w)
      PROVE  Lost(v, x)'
  <2>1. CASE v = w
    BY <1>5, <2>1 DEF Accept, Lost, TypeOK, Request, Row, Idle, Steps, LoginSteps, InLogin, Alone
  <2>2. CASE v # w
    BY <1>5, <2>2, AcceptEffect DEF Lost, InLogin
  <2> QED
    BY <2>1, <2>2
<1>6. ASSUME NEW w \in Requests, Refuse(w)
      PROVE  Lost(v, x)'
  <2>1. CASE v = w
    BY <1>6, <2>1 DEF Refuse, Lost, TypeOK, Request, Row, Idle, Steps, LoginSteps, InLogin, Alone
  <2>2. CASE v # w
    BY <1>6, <2>2 DEF Refuse, Lost, TypeOK, Request, Row, Idle, Steps, LoginSteps, InLogin, Alone
  <2> QED
    BY <2>1, <2>2
<1>7. ASSUME NEW w \in Requests, Record(w)
      PROVE  Lost(v, x)'
  BY <1>7 DEF Record, Ends, Lost, TypeOK, Request, Row, Idle, Steps, LoginSteps, InLogin, Alone
<1>8. ASSUME NEW w \in Requests, LoginFails(w)
      PROVE  Lost(v, x)'
  BY <1>8 DEF LoginFails, Fails, Ends, Lost, TypeOK, Request, Row, Idle, Steps, LoginSteps, InLogin, Alone
<1>9. ASSUME NEW u \in Users, TimeIsOver(u)
      PROVE  Lost(v, x)'
  BY <1>9 DEF TimeIsOver, Lost, TypeOK, Request, Row, Idle, Steps, LoginSteps, InLogin, Alone
<1>10. ASSUME NEW w \in Requests, Permit(w)
      PROVE  Lost(v, x)'
  BY <1>10 DEF Permit, Lost, TypeOK, Request, Row, Idle, Steps, LoginSteps, InLogin, Alone
<1>11. ASSUME NEW w \in Requests, NEW u \in Users, NEW new \in Passwords \cup {None},
             NEW admin \in {"keep", "yes", "no"}, NEW active \in {"keep", "yes", "no"}, BeginUpdate(w, u, new, admin, active)
      PROVE  Lost(v, x)'
  BY <1>11 DEF BeginUpdate, Lost, TypeOK, Request, Row, Idle, Steps, LoginSteps, InLogin, Alone
<1>12. ASSUME NEW w \in Requests, BeginChange(w)
      PROVE  Lost(v, x)'
  BY <1>12 DEF BeginChange, Lost, TypeOK, Request, Row, Idle, Steps, LoginSteps, InLogin, Alone
<1>13. ASSUME NEW w \in Requests, Update(w)
      PROVE  Lost(v, x)'
  <2>1. CASE v = w
    BY <1>13, <2>1 DEF Update, Ends, Lost, TypeOK, Request, Row, Idle, Steps, LoginSteps, InLogin, Alone
  <2>2. CASE v # w
    <3>1. request'[v] = request[v]
      BY <1>13, <2>2 DEF Update, Ends, TypeOK
    <3>2. CASE x # request[w].user
      BY <1>13, <3>1, <3>2 DEF Update, TypeOK, Lost, InLogin
    <3>3. CASE x = request[w].user
      <4>1. rows'[x] = Updated(rows[x], request[w]) /\ request[w] \in Request /\ rows[x] \in Row
        BY <1>13, <3>3 DEF Update, TypeOK
      <4> QED
        BY <3>1, <4>1, UpdatedRow DEF Lost, InLogin
    <3> QED
      BY <3>2, <3>3
  <2> QED
    BY <2>1, <2>2
<1>14. ASSUME NEW w \in Requests, UpdateFails(w)
      PROVE  Lost(v, x)'
  BY <1>14 DEF UpdateFails, Fails, Ends, Lost, TypeOK, Request, Row, Idle, Steps, LoginSteps, InLogin, Alone
<1>15. ASSUME NEW w \in Requests, NEW u \in Users, NEW new \in Passwords, NEW admin \in {"yes", "no"}, BeginCreate(w, u, new, admin)
      PROVE  Lost(v, x)'
  BY <1>15 DEF BeginCreate, Lost, TypeOK, Request, Row, Idle, Steps, LoginSteps, InLogin, Alone
<1>16. ASSUME NEW w \in Requests, Create(w)
      PROVE  Lost(v, x)'
  BY <1>16 DEF Create, Ends, Insert, Lost, TypeOK, Request, Row, Idle, Steps, LoginSteps, InLogin, Alone
<1>17. ASSUME NEW w \in Requests, NEW u \in Users, BeginDelete(w, u)
      PROVE  Lost(v, x)'
  BY <1>17 DEF BeginDelete, Lost, TypeOK, Request, Row, Idle, Steps, LoginSteps, InLogin, Alone
<1>18. ASSUME NEW w \in Requests, Delete(w)
      PROVE  Lost(v, x)'
  BY <1>18 DEF Delete, Lost, TypeOK, Request, Row, Idle, Steps, LoginSteps, InLogin, Alone
<1>19. ASSUME NEW w \in Requests, DeleteMisses(w)
      PROVE  Lost(v, x)'
  BY <1>19 DEF DeleteMisses, Fails, Ends, Lost, TypeOK, Request, Row, Idle, Steps, LoginSteps, InLogin, Alone
<1>20. ASSUME NEW w \in Requests, NEW on \in BOOLEAN, BeginToggle(w, on)
      PROVE  Lost(v, x)'
  <2>1. CASE v = w
    BY <1>20, <2>1 DEF BeginToggle, Lost, TypeOK, Request, Row, Idle, Steps, LoginSteps, InLogin, Alone
  <2>2. CASE v # w
    BY <1>20, <2>2 DEF BeginToggle, Lost, TypeOK, Request, Row, Idle, Steps, LoginSteps, InLogin, Alone
  <2> QED
    BY <2>1, <2>2
<1>21. ASSUME NEW w \in Requests, NEW password \in Passwords, Bootstrap(w, password)
      PROVE  Lost(v, x)'
  <2>1. CASE v = w
    BY <1>21, <2>1, BootstrapEffect DEF Lost, InLogin, LoginSteps, Account, NoRow
  <2>2. CASE v # w
    BY <1>21, <2>2, BootstrapEffect, AccountsAssumption DEF Lost, Insert, TypeOK, InLogin, LoginSteps, Account, NoRow
  <2> QED
    BY <2>1, <2>2
<1>22. ASSUME NEW w \in Requests, Toggle(w)
      PROVE  Lost(v, x)'
  BY <1>22 DEF Toggle, Ends, Lost, TypeOK, Request, Row, Idle, Steps, LoginSteps, InLogin, Alone
<1>23. ASSUME NEW password \in Passwords, Restart(password)
      PROVE  Lost(v, x)'
  BY <1>23 DEF Restart, Insert, Lost, TypeOK, Request, Row, Idle, Steps, LoginSteps, InLogin, Alone
<1>24. CASE UNCHANGED vars
  BY <1>24 DEF vars, Lost, TypeOK, Request, Row, Idle, Steps, LoginSteps, InLogin, Alone
<1> QED
  BY <1>1, <1>2, <1>3, <1>4, <1>5, <1>6, <1>7, <1>8, <1>9, <1>10, <1>11, <1>12, <1>13, <1>14, <1>15, <1>16, <1>17, <1>18, <1>19, <1>20, <1>21, <1>22, <1>23, <1>24 DEF Next

LEMMA OnlyStep ==
  ASSUME TypeOK, NEW v \in Requests, NEW x \in Users, Only(v, x), [Next]_vars
  PROVE  Only(v, x)'
<1>1. ASSUME NEW w \in Requests, NEW u \in Users, NEW given \in Passwords,
             NEW new \in Passwords \cup {None}, Login(w, u, given, new)
      PROVE  Only(v, x)'
  <2>1. Begins(w, u)
    BY <1>1, LoginEffect
  <2>2. CASE v = w
    BY <1>1, <2>1, <2>2 DEF Begins, Only, Alone, InLogin, LoginSteps
  <2>3. CASE v # w
    BY <1>1, <2>1, <2>3 DEF Begins, Only, Alone, InLogin, LoginSteps
  <2> QED
    BY <2>2, <2>3
<1>2. ASSUME NEW w \in Requests, NEW u \in Users, Look(w, u)
      PROVE  Only(v, x)'
  <2>1. Looks(w, u)
    BY <1>2, LookEffect
  <2>2. CASE v = w
    BY <1>2, <2>1, <2>2 DEF Looks, Only, Alone, InLogin, LoginSteps
  <2>3. CASE v # w
    BY <1>2, <2>1, <2>3 DEF Looks, Only, Alone, InLogin, LoginSteps
  <2> QED
    BY <2>2, <2>3
<1>3. ASSUME NEW w \in Requests, ResetLock(w)
      PROVE  Only(v, x)'
  <2>1. CASE v = w
    BY <1>3, <2>1 DEF ResetLock, Only, TypeOK, Request, Row, Idle, Steps, LoginSteps, InLogin, Alone
  <2>2. CASE v # w
    BY <1>3, <2>2 DEF ResetLock, Only, TypeOK, Request, Row, Idle, Steps, LoginSteps, InLogin, Alone
  <2> QED
    BY <2>1, <2>2
<1>4. ASSUME NEW w \in Requests, Reread(w)
      PROVE  Only(v, x)'
  <2>1. CASE v = w
    BY <1>4, <2>1 DEF Reread, Only, TypeOK, Request, Row, Idle, Steps, LoginSteps, InLogin, Alone
  <2>2. CASE v # w
    BY <1>4, <2>2 DEF Reread, Only, TypeOK, Request, Row, Idle, Steps, LoginSteps, InLogin, Alone
  <2> QED
    BY <2>1, <2>2
<1>5. ASSUME NEW w \in Requests, Accept(w)
      PROVE  Only(v, x)'
  <2>1. CASE v = w
    BY <1>5, <2>1 DEF Accept, Only, TypeOK, Request, Row, Idle, Steps, LoginSteps, InLogin, Alone
  <2>2. CASE v # w
    BY <1>5, <2>2 DEF Accept, Only, TypeOK, Request, Row, Idle, Steps, LoginSteps, InLogin, Alone
  <2> QED
    BY <2>1, <2>2
<1>6. ASSUME NEW w \in Requests, Refuse(w)
      PROVE  Only(v, x)'
  <2>1. CASE v = w
    BY <1>6, <2>1 DEF Refuse, Only, TypeOK, Request, Row, Idle, Steps, LoginSteps, InLogin, Alone
  <2>2. CASE v # w
    BY <1>6, <2>2 DEF Refuse, Only, TypeOK, Request, Row, Idle, Steps, LoginSteps, InLogin, Alone
  <2> QED
    BY <2>1, <2>2
<1>7. ASSUME NEW w \in Requests, Record(w)
      PROVE  Only(v, x)'
  BY <1>7 DEF Record, Ends, Only, TypeOK, Request, Row, Idle, Steps, LoginSteps, InLogin, Alone
<1>8. ASSUME NEW w \in Requests, LoginFails(w)
      PROVE  Only(v, x)'
  BY <1>8 DEF LoginFails, Fails, Ends, Only, TypeOK, Request, Row, Idle, Steps, LoginSteps, InLogin, Alone
<1>9. ASSUME NEW u \in Users, TimeIsOver(u)
      PROVE  Only(v, x)'
  BY <1>9 DEF TimeIsOver, Only, TypeOK, Request, Row, Idle, Steps, LoginSteps, InLogin, Alone
<1>10. ASSUME NEW w \in Requests, Permit(w)
      PROVE  Only(v, x)'
  BY <1>10 DEF Permit, Only, TypeOK, Request, Row, Idle, Steps, LoginSteps, InLogin, Alone
<1>11. ASSUME NEW w \in Requests, NEW u \in Users, NEW new \in Passwords \cup {None},
             NEW admin \in {"keep", "yes", "no"}, NEW active \in {"keep", "yes", "no"}, BeginUpdate(w, u, new, admin, active)
      PROVE  Only(v, x)'
  BY <1>11 DEF BeginUpdate, Only, TypeOK, Request, Row, Idle, Steps, LoginSteps, InLogin, Alone
<1>12. ASSUME NEW w \in Requests, BeginChange(w)
      PROVE  Only(v, x)'
  BY <1>12 DEF BeginChange, Only, TypeOK, Request, Row, Idle, Steps, LoginSteps, InLogin, Alone
<1>13. ASSUME NEW w \in Requests, Update(w)
      PROVE  Only(v, x)'
  <2>1. CASE v = w
    BY <1>13, <2>1 DEF Update, Ends, Only, TypeOK, Request, Row, Idle, Steps, LoginSteps, InLogin, Alone
  <2>2. CASE v # w
    BY <1>13, <2>2 DEF Update, Ends, Only, TypeOK, Request, Row, Idle, Steps, LoginSteps, InLogin, Alone
  <2> QED
    BY <2>1, <2>2
<1>14. ASSUME NEW w \in Requests, UpdateFails(w)
      PROVE  Only(v, x)'
  BY <1>14 DEF UpdateFails, Fails, Ends, Only, TypeOK, Request, Row, Idle, Steps, LoginSteps, InLogin, Alone
<1>15. ASSUME NEW w \in Requests, NEW u \in Users, NEW new \in Passwords, NEW admin \in {"yes", "no"}, BeginCreate(w, u, new, admin)
      PROVE  Only(v, x)'
  BY <1>15 DEF BeginCreate, Only, TypeOK, Request, Row, Idle, Steps, LoginSteps, InLogin, Alone
<1>16. ASSUME NEW w \in Requests, Create(w)
      PROVE  Only(v, x)'
  BY <1>16 DEF Create, Ends, Insert, Only, TypeOK, Request, Row, Idle, Steps, LoginSteps, InLogin, Alone
<1>17. ASSUME NEW w \in Requests, NEW u \in Users, BeginDelete(w, u)
      PROVE  Only(v, x)'
  BY <1>17 DEF BeginDelete, Only, TypeOK, Request, Row, Idle, Steps, LoginSteps, InLogin, Alone
<1>18. ASSUME NEW w \in Requests, Delete(w)
      PROVE  Only(v, x)'
  BY <1>18 DEF Delete, Only, TypeOK, Request, Row, Idle, Steps, LoginSteps, InLogin, Alone
<1>19. ASSUME NEW w \in Requests, DeleteMisses(w)
      PROVE  Only(v, x)'
  BY <1>19 DEF DeleteMisses, Fails, Ends, Only, TypeOK, Request, Row, Idle, Steps, LoginSteps, InLogin, Alone
<1>20. ASSUME NEW w \in Requests, NEW on \in BOOLEAN, BeginToggle(w, on)
      PROVE  Only(v, x)'
  <2>1. CASE v = w
    BY <1>20, <2>1 DEF BeginToggle, Only, TypeOK, Request, Row, Idle, Steps, LoginSteps, InLogin, Alone
  <2>2. CASE v # w
    BY <1>20, <2>2 DEF BeginToggle, Only, TypeOK, Request, Row, Idle, Steps, LoginSteps, InLogin, Alone
  <2> QED
    BY <2>1, <2>2
<1>21. ASSUME NEW w \in Requests, NEW password \in Passwords, Bootstrap(w, password)
      PROVE  Only(v, x)'
  <2>1. CASE v = w
    BY <1>21, <2>1, BootstrapEffect DEF Only, Alone, Alone, InLogin, LoginSteps
  <2>2. CASE v # w
    BY <1>21, <2>2, BootstrapEffect, AccountsAssumption DEF Only, Alone, Insert, TypeOK, Alone, InLogin, LoginSteps
  <2> QED
    BY <2>1, <2>2
<1>22. ASSUME NEW w \in Requests, Toggle(w)
      PROVE  Only(v, x)'
  BY <1>22 DEF Toggle, Ends, Only, TypeOK, Request, Row, Idle, Steps, LoginSteps, InLogin, Alone
<1>23. ASSUME NEW password \in Passwords, Restart(password)
      PROVE  Only(v, x)'
  BY <1>23 DEF Restart, Insert, Only, TypeOK, Request, Row, Idle, Steps, LoginSteps, InLogin, Alone
<1>24. CASE UNCHANGED vars
  BY <1>24 DEF vars, Only, TypeOK, Request, Row, Idle, Steps, LoginSteps, InLogin, Alone
<1> QED
  BY <1>1, <1>2, <1>3, <1>4, <1>5, <1>6, <1>7, <1>8, <1>9, <1>10, <1>11, <1>12, <1>13, <1>14, <1>15, <1>16, <1>17, <1>18, <1>19, <1>20, <1>21, <1>22, <1>23, <1>24 DEF Next

LEMMA KnowsStep ==
  ASSUME TypeOK, NEW v \in Requests, NEW x \in Users, Only(v, x), Knows(v, x), Lost(v, x), [Next]_vars
  PROVE  Knows(v, x)'
<1>1. ASSUME NEW w \in Requests, NEW u \in Users, NEW given \in Passwords,
             NEW new \in Passwords \cup {None}, Login(w, u, given, new)
      PROVE  Knows(v, x)'
  <2>1. Begins(w, u)
    BY <1>1, LoginEffect
  <2>2. CASE v = w
    <3>1. request'[w].seen.failed = rows[u].failed /\ rows' = rows
      BY <2>1 DEF Begins, SeenByLogin, NoRow
    <3>2. rows[u].lock \in {"none", "held", "over"}
      BY <1>1 DEF TypeOK, Row
    <3> QED
      BY <2>1, <2>2, <3>1, <3>2 DEF Begins, Knows, Alone, InLogin
  <2>3. CASE v # w
    BY <1>1, <2>1, <2>3 DEF Begins, Knows, Alone, SeenByLogin, NoRow, InLogin, LoginSteps, TypeOK, Row
  <2> QED
    BY <2>2, <2>3
<1>2. ASSUME NEW w \in Requests, NEW u \in Users, Look(w, u)
      PROVE  Knows(v, x)'
  <2>1. Looks(w, u)
    BY <1>2, LookEffect
  <2>2. CASE v = w
    BY <2>1, <2>2 DEF Looks, Knows, Alone, InLogin
  <2>3. CASE v # w
    BY <1>2, <2>1, <2>3 DEF Looks, Knows, Alone, InLogin, LoginSteps, TypeOK, Row
  <2> QED
    BY <2>2, <2>3
<1>3. ASSUME NEW w \in Requests, ResetLock(w)
      PROVE  Knows(v, x)'
  <2>1. CASE v = w
    BY <1>3, <2>1 DEF ResetLock, Knows, Only, Lost, NoRow, Account, SeenByLogin, SeenByRecord, Reaches, TypeOK, Request, Row, Idle, Steps, LoginSteps, InLogin, Alone
  <2>2. CASE v # w
    BY <1>3, <2>2 DEF ResetLock, Knows, Only, Lost, NoRow, Account, SeenByLogin, SeenByRecord, Reaches, TypeOK, Request, Row, Idle, Steps, LoginSteps, InLogin, Alone
  <2> QED
    BY <2>1, <2>2
<1>4. ASSUME NEW w \in Requests, Reread(w)
      PROVE  Knows(v, x)'
  <2>1. CASE v = w
    BY <1>4, <2>1, SMTT(30) DEF Reread, Knows, Only, Lost, NoRow, Account, SeenByLogin, SeenByRecord, Reaches, TypeOK, Request, Row, Idle, Steps, LoginSteps, InLogin, Alone
  <2>2. CASE v # w
    BY <1>4, <2>2 DEF Reread, Knows, Only, Lost, NoRow, Account, SeenByLogin, SeenByRecord, Reaches, TypeOK, Request, Row, Idle, Steps, LoginSteps, InLogin, Alone
  <2> QED
    BY <2>1, <2>2
<1>5. ASSUME NEW w \in Requests, Accept(w)
      PROVE  Knows(v, x)'
  <2>1. CASE v = w
    BY <1>5, <2>1 DEF Accept, Knows, Only, Lost, NoRow, Account, SeenByLogin, SeenByRecord, Reaches, TypeOK, Request, Row, Idle, Steps, LoginSteps, InLogin, Alone
  <2>2. CASE v # w
    BY <1>5, <2>2, ZenonT(30) DEF Accept, Knows, Only, Lost, NoRow, Account, SeenByLogin, SeenByRecord, Reaches, TypeOK, Request, Row, Idle, Steps, LoginSteps, InLogin, Alone
  <2> QED
    BY <2>1, <2>2
<1>6. ASSUME NEW w \in Requests, Refuse(w)
      PROVE  Knows(v, x)'
  <2>1. CASE v = w
    BY <1>6, <2>1 DEF Refuse, Knows, Only, Lost, NoRow, Account, SeenByLogin, SeenByRecord, Reaches, TypeOK, Request, Row, Idle, Steps, LoginSteps, InLogin, Alone
  <2>2. CASE v # w
    BY <1>6, <2>2 DEF Refuse, Knows, Only, Lost, NoRow, Account, SeenByLogin, SeenByRecord, Reaches, TypeOK, Request, Row, Idle, Steps, LoginSteps, InLogin, Alone
  <2> QED
    BY <2>1, <2>2
<1>7. ASSUME NEW w \in Requests, Record(w)
      PROVE  Knows(v, x)'
  BY <1>7 DEF Record, Ends, Knows, Only, Lost, NoRow, Account, SeenByLogin, SeenByRecord, Reaches, TypeOK, Request, Row, Idle, Steps, LoginSteps, InLogin, Alone
<1>8. ASSUME NEW w \in Requests, LoginFails(w)
      PROVE  Knows(v, x)'
  BY <1>8 DEF LoginFails, Fails, Ends, Knows, Only, Lost, NoRow, Account, SeenByLogin, SeenByRecord, Reaches, TypeOK, Request, Row, Idle, Steps, LoginSteps, InLogin, Alone
<1>9. ASSUME NEW u \in Users, TimeIsOver(u)
      PROVE  Knows(v, x)'
  BY <1>9 DEF TimeIsOver, Knows, Only, Lost, NoRow, Account, SeenByLogin, SeenByRecord, Reaches, TypeOK, Request, Row, Idle, Steps, LoginSteps, InLogin, Alone
<1>10. ASSUME NEW w \in Requests, Permit(w)
      PROVE  Knows(v, x)'
  BY <1>10 DEF Permit, Knows, Only, Lost, NoRow, Account, SeenByLogin, SeenByRecord, Reaches, TypeOK, Request, Row, Idle, Steps, LoginSteps, InLogin, Alone
<1>11. ASSUME NEW w \in Requests, NEW u \in Users, NEW new \in Passwords \cup {None},
             NEW admin \in {"keep", "yes", "no"}, NEW active \in {"keep", "yes", "no"}, BeginUpdate(w, u, new, admin, active)
      PROVE  Knows(v, x)'
  BY <1>11 DEF BeginUpdate, Knows, Only, Lost, NoRow, Account, SeenByLogin, SeenByRecord, Reaches, TypeOK, Request, Row, Idle, Steps, LoginSteps, InLogin, Alone
<1>12. ASSUME NEW w \in Requests, BeginChange(w)
      PROVE  Knows(v, x)'
  BY <1>12 DEF BeginChange, Knows, Only, Lost, NoRow, Account, SeenByLogin, SeenByRecord, Reaches, TypeOK, Request, Row, Idle, Steps, LoginSteps, InLogin, Alone
<1>13. ASSUME NEW w \in Requests, Update(w)
      PROVE  Knows(v, x)'
  <2>1. /\ rows'[x].here = rows[x].here /\ rows'[x].lock = rows[x].lock
        /\ rows'[x].failed = rows[x].failed /\ streak'[x] = streak[x]
    <3>1. rows[x] \in Row /\ streak' = streak
      BY <1>13 DEF Update, TypeOK
    <3>2. CASE x # request[w].user
      BY <1>13, <3>1, <3>2 DEF Update, TypeOK
    <3>3. CASE x = request[w].user
      <4>1. rows'[x] = Updated(rows[x], request[w]) /\ request[w] \in Request
        BY <1>13, <3>3 DEF Update, TypeOK
      <4> QED
        BY <3>1, <4>1, UpdatedRow
    <3> QED
      BY <3>2, <3>3
  <2>2. CASE v = w
    BY <1>13, <2>2 DEF Update, Ends, Knows, Alone, InLogin, LoginSteps, TypeOK, Idle
  <2>3. CASE v # w
    <3>1. request'[v] = request[v]
      BY <1>13, <2>3 DEF Update, Ends, TypeOK
    <3> QED
      BY <2>1, <3>1 DEF Knows, Alone, InLogin
  <2> QED
    BY <2>2, <2>3
<1>14. ASSUME NEW w \in Requests, UpdateFails(w)
      PROVE  Knows(v, x)'
  BY <1>14 DEF UpdateFails, Fails, Ends, Knows, Only, Lost, NoRow, Account, SeenByLogin, SeenByRecord, Reaches, TypeOK, Request, Row, Idle, Steps, LoginSteps, InLogin, Alone
<1>15. ASSUME NEW w \in Requests, NEW u \in Users, NEW new \in Passwords, NEW admin \in {"yes", "no"}, BeginCreate(w, u, new, admin)
      PROVE  Knows(v, x)'
  BY <1>15 DEF BeginCreate, Knows, Only, Lost, NoRow, Account, SeenByLogin, SeenByRecord, Reaches, TypeOK, Request, Row, Idle, Steps, LoginSteps, InLogin, Alone
<1>16. ASSUME NEW w \in Requests, Create(w)
      PROVE  Knows(v, x)'
  <2>1. v # w /\ InLogin(v, x)' => request'[v] = request[v] /\ InLogin(v, x)
    BY <1>16 DEF Create, Ends, InLogin, TypeOK
  <2>2. ~InLogin(w, x)'
    BY <1>16 DEF Create, Ends, InLogin, TypeOK, Idle, LoginSteps
  <2>3. CASE rows[x].here
    BY <1>16, <2>1, <2>2, <2>3 DEF Create, Insert, Knows, Alone, InLogin, TypeOK, LoginSteps
  <2>4. CASE ~rows[x].here
    <3> SUFFICES ASSUME Alone(v, x)', rows'[x].here
                 PROVE  Knows(v, x)'
      BY DEF Knows
    <3>1. v # w /\ InLogin(v, x) /\ request'[v] = request[v] /\ request[v].orphan
      BY <2>1, <2>2, <2>4 DEF Alone, Lost
    <3>2. x = request[w].user /\ Insert(x, Account(request[w].new, request[w].admin = "yes"))
      BY <1>16, <2>4 DEF Create, TypeOK, Insert
    <3>3. streak'[x] = -1 /\ rows'[x] = Account(request[w].new, request[w].admin = "yes")
      BY <3>1, <3>2 DEF Insert, TypeOK
    <3>4. rows'[x].lock = "none" /\ rows'[x].failed = 0
      BY <3>3 DEF Account, NoRow
    <3> QED
      BY <3>1, <3>3, <3>4 DEF Knows
  <2> QED
    BY <2>3, <2>4
<1>17. ASSUME NEW w \in Requests, NEW u \in Users, BeginDelete(w, u)
      PROVE  Knows(v, x)'
  BY <1>17 DEF BeginDelete, Knows, Only, Lost, NoRow, Account, SeenByLogin, SeenByRecord, Reaches, TypeOK, Request, Row, Idle, Steps, LoginSteps, InLogin, Alone
<1>18. ASSUME NEW w \in Requests, Delete(w)
      PROVE  Knows(v, x)'
  BY <1>18 DEF Delete, Knows, Only, Lost, NoRow, Account, SeenByLogin, SeenByRecord, Reaches, TypeOK, Request, Row, Idle, Steps, LoginSteps, InLogin, Alone
<1>19. ASSUME NEW w \in Requests, DeleteMisses(w)
      PROVE  Knows(v, x)'
  BY <1>19 DEF DeleteMisses, Fails, Ends, Knows, Only, Lost, NoRow, Account, SeenByLogin, SeenByRecord, Reaches, TypeOK, Request, Row, Idle, Steps, LoginSteps, InLogin, Alone
<1>20. ASSUME NEW w \in Requests, NEW on \in BOOLEAN, BeginToggle(w, on)
      PROVE  Knows(v, x)'
  <2>1. CASE v = w
    BY <1>20, <2>1 DEF BeginToggle, Knows, Only, Lost, NoRow, Account, SeenByLogin, SeenByRecord, Reaches, TypeOK, Request, Row, Idle, Steps, LoginSteps, InLogin, Alone
  <2>2. CASE v # w
    BY <1>20, <2>2 DEF BeginToggle, Knows, Only, Lost, NoRow, Account, SeenByLogin, SeenByRecord, Reaches, TypeOK, Request, Row, Idle, Steps, LoginSteps, InLogin, Alone
  <2> QED
    BY <2>1, <2>2
<1>21. ASSUME NEW w \in Requests, NEW password \in Passwords, Bootstrap(w, password)
      PROVE  Knows(v, x)'
  <2>1. v # w /\ InLogin(v, x)' => request'[v] = request[v] /\ InLogin(v, x)
    BY <1>21, BootstrapEffect DEF InLogin
  <2>2. ~InLogin(w, x)'
    BY <1>21, BootstrapEffect DEF InLogin, LoginSteps
  <2>3. CASE UNCHANGED <<rows, streak>>
    BY <1>21, <2>1, <2>2, <2>3 DEF Knows, Alone, InLogin
  <2>4. CASE ~rows[Admin].here /\ Insert(Admin, Account(password, TRUE))
    <3> SUFFICES ASSUME Alone(v, x)', rows'[x].here
                 PROVE  Knows(v, x)'
      BY DEF Knows
    <3>1. v # w /\ InLogin(v, x) /\ request'[v] = request[v]
      BY <2>1, <2>2 DEF Alone
    <3>2. CASE x # Admin
      BY <2>4, <3>1, <3>2, AccountsAssumption DEF Insert, TypeOK, Knows, Alone, InLogin
    <3>3. CASE x = Admin
      <4>1. streak'[x] = -1 /\ rows'[x] = Account(password, TRUE) /\ request[v].orphan
        BY <2>4, <3>1, <3>3 DEF Insert, TypeOK, Lost
      <4>2. rows'[x].lock = "none" /\ rows'[x].failed = 0
        BY <4>1 DEF Account, NoRow
      <4> QED
        BY <3>1, <4>1, <4>2 DEF Knows
    <3> QED
      BY <3>2, <3>3
  <2> QED
    BY <1>21, <2>3, <2>4, BootstrapEffect
<1>22. ASSUME NEW w \in Requests, Toggle(w)
      PROVE  Knows(v, x)'
  BY <1>22 DEF Toggle, Ends, Knows, Only, Lost, NoRow, Account, SeenByLogin, SeenByRecord, Reaches, TypeOK, Request, Row, Idle, Steps, LoginSteps, InLogin, Alone
<1>23. ASSUME NEW password \in Passwords, Restart(password)
      PROVE  Knows(v, x)'
  BY <1>23 DEF Restart, Insert, Knows, Only, Lost, NoRow, Account, SeenByLogin, SeenByRecord, Reaches, TypeOK, Request, Row, Idle, Steps, LoginSteps, InLogin, Alone
<1>24. CASE UNCHANGED vars
  BY <1>24 DEF vars, Knows, Only, Lost, NoRow, Account, SeenByLogin, SeenByRecord, Reaches, TypeOK, Request, Row, Idle, Steps, LoginSteps, InLogin, Alone
<1> QED
  BY <1>1, <1>2, <1>3, <1>4, <1>5, <1>6, <1>7, <1>8, <1>9, <1>10, <1>11, <1>12, <1>13, <1>14, <1>15, <1>16, <1>17, <1>18, <1>19, <1>20, <1>21, <1>22, <1>23, <1>24 DEF Next

LEMMA InsertCounts ==
  ASSUME TypeOK, NEW x \in Users, Counts(x), NEW u, NEW password, NEW admin,
         Insert(u, Account(password, admin))
  PROVE  Counts(x)'
<1>1. CASE x = u
  <2>1. rows'[x] = Account(password, admin) /\ streak'[x] \in {-1, 0}
    BY <1>1 DEF Insert, TypeOK
  <2>2. rows'[x].failed = 0 /\ rows'[x].lock = "none"
    BY <2>1 DEF Account, NoRow
  <2> QED
    BY <2>1, <2>2, AccountsAssumption DEF Counts
<1>2. CASE x # u
  BY <1>2 DEF Insert, TypeOK, Counts
<1> QED
  BY <1>1, <1>2

\* A login that nothing overlaps sees the count as it is.
LEMMA CountsStep ==
  ASSUME TypeOK, NEW x \in Users, Counts(x), \A w \in Requests : Only(w, x) /\ Knows(w, x), [Next]_vars
  PROVE  Counts(x)'
<1>1. ASSUME NEW w \in Requests, NEW u \in Users, NEW given \in Passwords,
             NEW new \in Passwords \cup {None}, Login(w, u, given, new)
      PROVE  Counts(x)'
  BY <1>1, AccountsAssumption DEF Login, Counts, Knows, TypeOK, Request, Row, Idle, Steps, LoginSteps, InLogin, Alone
<1>2. ASSUME NEW w \in Requests, NEW u \in Users, Look(w, u)
      PROVE  Counts(x)'
  BY <1>2, AccountsAssumption DEF Look, Counts, Knows, TypeOK, Request, Row, Idle, Steps, LoginSteps, InLogin, Alone
<1>3. ASSUME NEW w \in Requests, ResetLock(w)
      PROVE  Counts(x)'
  BY <1>3, AccountsAssumption DEF ResetLock, Counts, Knows, TypeOK, Request, Row, Idle, Steps, LoginSteps, InLogin, Alone
<1>4. ASSUME NEW w \in Requests, Reread(w)
      PROVE  Counts(x)'
  BY <1>4, AccountsAssumption DEF Reread, Counts, Knows, TypeOK, Request, Row, Idle, Steps, LoginSteps, InLogin, Alone
<1>5. ASSUME NEW w \in Requests, Accept(w)
      PROVE  Counts(x)'
  <2>1. CASE x # request[w].user
    BY <1>5, <2>1, AcceptEffect DEF Counts
  <2>2. CASE x = request[w].user /\ request[w].alone
    <3>1. rows[x].here => rows[x].lock = "none" /\ (request[w].seen.failed = 0 => rows[x].failed = 0)
      BY <1>5, <2>2, AcceptEffect DEF Knows, Alone
    <3> QED
      BY <1>5, <2>2, <3>1, AcceptEffect, AccountsAssumption DEF Counts
  <2>3. CASE x = request[w].user /\ ~request[w].alone
    BY <1>5, <2>3, AcceptEffect DEF Counts
  <2> QED
    BY <2>1, <2>2, <2>3
<1>6. ASSUME NEW w \in Requests, Refuse(w)
      PROVE  Counts(x)'
  BY <1>6, AccountsAssumption DEF Refuse, Counts, Knows, TypeOK, Request, Row, Idle, Steps, LoginSteps, InLogin, Alone
<1>7. ASSUME NEW w \in Requests, Record(w)
      PROVE  Counts(x)'
  BY <1>7, AccountsAssumption DEF Record, Ends, Counts, Knows, TypeOK, Request, Row, Idle, Steps, LoginSteps, InLogin, Alone
<1>8. ASSUME NEW w \in Requests, LoginFails(w)
      PROVE  Counts(x)'
  BY <1>8, AccountsAssumption DEF LoginFails, Fails, Ends, Counts, Knows, TypeOK, Request, Row, Idle, Steps, LoginSteps, InLogin, Alone
<1>9. ASSUME NEW u \in Users, TimeIsOver(u)
      PROVE  Counts(x)'
  BY <1>9, AccountsAssumption DEF TimeIsOver, Counts, Knows, TypeOK, Request, Row, Idle, Steps, LoginSteps, InLogin, Alone
<1>10. ASSUME NEW w \in Requests, Permit(w)
      PROVE  Counts(x)'
  BY <1>10, AccountsAssumption DEF Permit, Counts, Knows, TypeOK, Request, Row, Idle, Steps, LoginSteps, InLogin, Alone
<1>11. ASSUME NEW w \in Requests, NEW u \in Users, NEW new \in Passwords \cup {None},
             NEW admin \in {"keep", "yes", "no"}, NEW active \in {"keep", "yes", "no"}, BeginUpdate(w, u, new, admin, active)
      PROVE  Counts(x)'
  BY <1>11, AccountsAssumption DEF BeginUpdate, Counts, Knows, TypeOK, Request, Row, Idle, Steps, LoginSteps, InLogin, Alone
<1>12. ASSUME NEW w \in Requests, BeginChange(w)
      PROVE  Counts(x)'
  BY <1>12, AccountsAssumption DEF BeginChange, Counts, Knows, TypeOK, Request, Row, Idle, Steps, LoginSteps, InLogin, Alone
<1>13. ASSUME NEW w \in Requests, Update(w)
      PROVE  Counts(x)'
  <2>1. /\ rows'[x].here = rows[x].here /\ rows'[x].lock = rows[x].lock
        /\ rows'[x].failed = rows[x].failed /\ streak'[x] = streak[x]
    <3>1. rows[x] \in Row /\ streak' = streak
      BY <1>13 DEF Update, TypeOK
    <3>2. CASE x # request[w].user
      BY <1>13, <3>1, <3>2 DEF Update, TypeOK
    <3>3. CASE x = request[w].user
      <4>1. rows'[x] = Updated(rows[x], request[w]) /\ request[w] \in Request
        BY <1>13, <3>3 DEF Update, TypeOK
      <4> QED
        BY <3>1, <4>1, UpdatedRow
    <3> QED
      BY <3>2, <3>3
  <2> QED
    BY <2>1 DEF Counts
<1>14. ASSUME NEW w \in Requests, UpdateFails(w)
      PROVE  Counts(x)'
  BY <1>14, AccountsAssumption DEF UpdateFails, Fails, Ends, Counts, Knows, TypeOK, Request, Row, Idle, Steps, LoginSteps, InLogin, Alone
<1>15. ASSUME NEW w \in Requests, NEW u \in Users, NEW new \in Passwords, NEW admin \in {"yes", "no"}, BeginCreate(w, u, new, admin)
      PROVE  Counts(x)'
  BY <1>15, AccountsAssumption DEF BeginCreate, Counts, Knows, TypeOK, Request, Row, Idle, Steps, LoginSteps, InLogin, Alone
<1>16. ASSUME NEW w \in Requests, Create(w)
      PROVE  Counts(x)'
  <2>1. CASE UNCHANGED <<rows, streak>>
    BY <2>1 DEF Counts
  <2>2. CASE Insert(request[w].user, Account(request[w].new, request[w].admin = "yes"))
    BY <2>2, InsertCounts
  <2> QED
    BY <1>16, <2>1, <2>2 DEF Create
<1>17. ASSUME NEW w \in Requests, NEW u \in Users, BeginDelete(w, u)
      PROVE  Counts(x)'
  BY <1>17, AccountsAssumption DEF BeginDelete, Counts, Knows, TypeOK, Request, Row, Idle, Steps, LoginSteps, InLogin, Alone
<1>18. ASSUME NEW w \in Requests, Delete(w)
      PROVE  Counts(x)'
  BY <1>18, AccountsAssumption DEF Delete, Counts, Knows, TypeOK, Request, Row, Idle, Steps, LoginSteps, InLogin, Alone, NoRow
<1>19. ASSUME NEW w \in Requests, DeleteMisses(w)
      PROVE  Counts(x)'
  BY <1>19, AccountsAssumption DEF DeleteMisses, Fails, Ends, Counts, Knows, TypeOK, Request, Row, Idle, Steps, LoginSteps, InLogin, Alone
<1>20. ASSUME NEW w \in Requests, NEW on \in BOOLEAN, BeginToggle(w, on)
      PROVE  Counts(x)'
  BY <1>20, AccountsAssumption DEF BeginToggle, Counts, Knows, TypeOK, Request, Row, Idle, Steps, LoginSteps, InLogin, Alone
<1>21. ASSUME NEW w \in Requests, NEW password \in Passwords, Bootstrap(w, password)
      PROVE  Counts(x)'
  <2> QED
    BY <1>21, BootstrapEffect, InsertCounts DEF Counts
<1>22. ASSUME NEW w \in Requests, Toggle(w)
      PROVE  Counts(x)'
  BY <1>22, AccountsAssumption DEF Toggle, Ends, Counts, Knows, TypeOK, Request, Row, Idle, Steps, LoginSteps, InLogin, Alone
<1>23. ASSUME NEW password \in Passwords, Restart(password)
      PROVE  Counts(x)'
  <2> QED
    BY <1>23, InsertCounts DEF Restart, Counts
<1>24. CASE UNCHANGED vars
  BY <1>24 DEF vars, Counts, Knows, TypeOK, Request, Row, Idle, Steps, LoginSteps, InLogin, Alone
<1> QED
  BY <1>1, <1>2, <1>3, <1>4, <1>5, <1>6, <1>7, <1>8, <1>9, <1>10, <1>11, <1>12, <1>13, <1>14, <1>15, <1>16, <1>17, <1>18, <1>19, <1>20, <1>21, <1>22, <1>23, <1>24 DEF Next

LEMMA InsertStreak ==
  ASSUME TypeOK, NEW u, NEW row, Insert(u, row)
  PROVE  streak' \in [Users -> -1..MaxAttempts]
<1>1. -1 \in -1..MaxAttempts /\ 0 \in -1..MaxAttempts
  BY AccountsAssumption
<1>2. streak' = [streak EXCEPT ![u] = -1] \/ streak' = [streak EXCEPT ![u] = 0]
  BY DEF Insert
<1> QED
  BY <1>1, <1>2 DEF TypeOK

LEMMA StreakType ==
  ASSUME TypeOK, CountInv, [Next]_vars
  PROVE  streak' \in [Users -> -1..MaxAttempts]
<1>1. ASSUME NEW w \in Requests, NEW u \in Users, NEW given \in Passwords,
             NEW new \in Passwords \cup {None}, Login(w, u, given, new)
      PROVE  streak' \in [Users -> -1..MaxAttempts]
  BY <1>1, AccountsAssumption DEF Login, TypeOK
<1>2. ASSUME NEW w \in Requests, NEW u \in Users, Look(w, u)
      PROVE  streak' \in [Users -> -1..MaxAttempts]
  BY <1>2, AccountsAssumption DEF Look, TypeOK
<1>3. ASSUME NEW w \in Requests, ResetLock(w)
      PROVE  streak' \in [Users -> -1..MaxAttempts]
  BY <1>3, AccountsAssumption DEF ResetLock, TypeOK, Reaches
<1>4. ASSUME NEW w \in Requests, Reread(w)
      PROVE  streak' \in [Users -> -1..MaxAttempts]
  BY <1>4, AccountsAssumption DEF Reread, TypeOK
<1>5. ASSUME NEW w \in Requests, Accept(w)
      PROVE  streak' \in [Users -> -1..MaxAttempts]
  BY <1>5, AccountsAssumption DEF Accept, TypeOK
<1>6. ASSUME NEW w \in Requests, Refuse(w)
      PROVE  streak' \in [Users -> -1..MaxAttempts]
  BY <1>6, AccountsAssumption DEF Refuse, TypeOK
<1>7. ASSUME NEW w \in Requests, Record(w)
      PROVE  streak' \in [Users -> -1..MaxAttempts]
  <2> DEFINE u == request[w].user
  <2>1. u \in Users /\ InLogin(w, u) /\ rows[u].here
    BY <1>7 DEF Record, TypeOK, Reaches, InLogin, LoginSteps, Steps
  <2>2. CASE ~(request[w].alone /\ streak[u] # -1)
    BY <1>7, <2>1, <2>2, AccountsAssumption DEF Record, TypeOK
  <2>3. CASE request[w].alone /\ streak[u] # -1
    <3>1. Knows(w, u) /\ Counts(u) /\ Alone(w, u)
      BY <2>1, <2>3 DEF CountInv, Alone
    <3>2. ~request[w].orphan /\ rows[u].lock = "none" /\ streak[u] # MaxAttempts
      BY <1>7, <2>1, <2>3, <3>1 DEF Knows, Counts, Record
    <3>3. streak[u] + 1 \in -1..MaxAttempts
      BY <2>1, <3>2, AccountsAssumption DEF TypeOK
    <3> QED
      BY <1>7, <2>1, <2>3, <3>3 DEF Record, TypeOK
  <2> QED
    BY <2>2, <2>3
<1>8. ASSUME NEW w \in Requests, LoginFails(w)
      PROVE  streak' \in [Users -> -1..MaxAttempts]
  BY <1>8, AccountsAssumption DEF LoginFails, Fails, Ends, TypeOK
<1>9. ASSUME NEW u \in Users, TimeIsOver(u)
      PROVE  streak' \in [Users -> -1..MaxAttempts]
  BY <1>9, AccountsAssumption DEF TimeIsOver, TypeOK
<1>10. ASSUME NEW w \in Requests, Permit(w)
      PROVE  streak' \in [Users -> -1..MaxAttempts]
  BY <1>10, AccountsAssumption DEF Permit, TypeOK
<1>11. ASSUME NEW w \in Requests, NEW u \in Users, NEW new \in Passwords \cup {None},
             NEW admin \in {"keep", "yes", "no"}, NEW active \in {"keep", "yes", "no"}, BeginUpdate(w, u, new, admin, active)
      PROVE  streak' \in [Users -> -1..MaxAttempts]
  BY <1>11, AccountsAssumption DEF BeginUpdate, TypeOK
<1>12. ASSUME NEW w \in Requests, BeginChange(w)
      PROVE  streak' \in [Users -> -1..MaxAttempts]
  BY <1>12, AccountsAssumption DEF BeginChange, TypeOK
<1>13. ASSUME NEW w \in Requests, Update(w)
      PROVE  streak' \in [Users -> -1..MaxAttempts]
  BY <1>13, AccountsAssumption DEF Update, Ends, TypeOK
<1>14. ASSUME NEW w \in Requests, UpdateFails(w)
      PROVE  streak' \in [Users -> -1..MaxAttempts]
  BY <1>14, AccountsAssumption DEF UpdateFails, Fails, Ends, TypeOK
<1>15. ASSUME NEW w \in Requests, NEW u \in Users, NEW new \in Passwords, NEW admin \in {"yes", "no"}, BeginCreate(w, u, new, admin)
      PROVE  streak' \in [Users -> -1..MaxAttempts]
  BY <1>15, AccountsAssumption DEF BeginCreate, TypeOK
<1>16. ASSUME NEW w \in Requests, Create(w)
      PROVE  streak' \in [Users -> -1..MaxAttempts]
  <2> QED
    BY <1>16, AccountsAssumption, InsertStreak DEF Create, TypeOK
<1>17. ASSUME NEW w \in Requests, NEW u \in Users, BeginDelete(w, u)
      PROVE  streak' \in [Users -> -1..MaxAttempts]
  BY <1>17, AccountsAssumption DEF BeginDelete, TypeOK
<1>18. ASSUME NEW w \in Requests, Delete(w)
      PROVE  streak' \in [Users -> -1..MaxAttempts]
  BY <1>18, AccountsAssumption DEF Delete, TypeOK
<1>19. ASSUME NEW w \in Requests, DeleteMisses(w)
      PROVE  streak' \in [Users -> -1..MaxAttempts]
  BY <1>19, AccountsAssumption DEF DeleteMisses, Fails, Ends, TypeOK
<1>20. ASSUME NEW w \in Requests, NEW on \in BOOLEAN, BeginToggle(w, on)
      PROVE  streak' \in [Users -> -1..MaxAttempts]
  BY <1>20, AccountsAssumption DEF BeginToggle, TypeOK
<1>21. ASSUME NEW w \in Requests, NEW password \in Passwords, Bootstrap(w, password)
      PROVE  streak' \in [Users -> -1..MaxAttempts]
  <2> QED
    BY <1>21, AccountsAssumption, InsertStreak DEF Bootstrap, TypeOK
<1>22. ASSUME NEW w \in Requests, Toggle(w)
      PROVE  streak' \in [Users -> -1..MaxAttempts]
  BY <1>22, AccountsAssumption DEF Toggle, Ends, TypeOK
<1>23. ASSUME NEW password \in Passwords, Restart(password)
      PROVE  streak' \in [Users -> -1..MaxAttempts]
  <2> QED
    BY <1>23, AccountsAssumption, InsertStreak DEF Restart, TypeOK
<1>24. CASE UNCHANGED vars
  BY <1>24 DEF vars, TypeOK
<1> QED
  BY <1>1, <1>2, <1>3, <1>4, <1>5, <1>6, <1>7, <1>8, <1>9, <1>10, <1>11, <1>12, <1>13, <1>14, <1>15, <1>16, <1>17, <1>18, <1>19, <1>20, <1>21, <1>22, <1>23, <1>24 DEF Next

-----------------------------------------------------------------------------
(* What accounts are meant to be.                                          *)

LEMMA InsertMeant ==
  ASSUME TypeOK, RowsAsMeant, NEW x \in Users, NEW u, NEW row, Insert(u, row),
         rows'[x].here, meant'[x] # None
  PROVE  MeantBy(rows'[x]) = meant'[x]
<1>1. CASE x = u
  BY <1>1 DEF Insert, TypeOK
<1>2. CASE x # u
  BY <1>2 DEF Insert, TypeOK, RowsAsMeant
<1> QED
  BY <1>1, <1>2

LEMMA FreshStep ==
  ASSUME TypeOK, NEW v \in Requests, NEW x \in Users, HasPassword, ChangeIsPassword,
         \A q \in Requests : Fresh(q, x), [Next]_vars
  PROVE  Fresh(v, x)'
<1>1. ASSUME NEW w \in Requests, NEW u \in Users, NEW given \in Passwords,
             NEW new \in Passwords \cup {None}, Login(w, u, given, new)
      PROVE  Fresh(v, x)'
  <2>1. Begins(w, u)
    BY <1>1, LoginEffect
  <2>2. CASE v = w
    <3>1. request'[w].seen.password = rows[u].password /\ rows' = rows
      BY <2>1 DEF Begins, SeenByLogin, NoRow
    <3> QED
      BY <2>1, <2>2, <3>1 DEF Begins, Fresh, Rewrites
  <2>3. CASE v # w
    BY <1>1, <2>1, <2>3 DEF Begins, Fresh, Rewrites, SeenByLogin, NoRow, TypeOK, Row
  <2> QED
    BY <2>2, <2>3
<1>2. ASSUME NEW w \in Requests, NEW u \in Users, Look(w, u)
      PROVE  Fresh(v, x)'
  <2>1. Looks(w, u)
    BY <1>2, LookEffect
  <2>2. CASE v = w
    BY <2>1, <2>2 DEF Looks, Fresh, Rewrites
  <2>3. CASE v # w
    BY <2>1, <2>3 DEF Looks, Fresh, Rewrites
  <2> QED
    BY <2>2, <2>3
<1>3. ASSUME NEW w \in Requests, ResetLock(w)
      PROVE  Fresh(v, x)'
  <2>1. CASE v = w
    BY <1>3, AccountsAssumption, <2>1 DEF ResetLock, Fresh, HasPassword, ChangeIsPassword, NoRow, SeenByLogin, SeenByUpdate, SeenByRecord, TypeOK, Request, Row, Idle, Steps, Rewrites
  <2>2. CASE v # w
    BY <1>3, AccountsAssumption, <2>2 DEF ResetLock, Fresh, HasPassword, ChangeIsPassword, NoRow, SeenByLogin, SeenByUpdate, SeenByRecord, TypeOK, Request, Row, Idle, Steps, Rewrites
  <2> QED
    BY <2>1, <2>2
<1>4. ASSUME NEW w \in Requests, Reread(w)
      PROVE  Fresh(v, x)'
  <2>1. CASE v = w
    BY <1>4, AccountsAssumption, <2>1, SMTT(30) DEF Reread, Fresh, HasPassword, ChangeIsPassword, NoRow, SeenByLogin, SeenByUpdate, SeenByRecord, TypeOK, Request, Row, Idle, Steps, Rewrites
  <2>2. CASE v # w
    BY <1>4, AccountsAssumption, <2>2, ZenonT(30) DEF Reread, Fresh, HasPassword, ChangeIsPassword, NoRow, SeenByLogin, SeenByUpdate, SeenByRecord, TypeOK, Request, Row, Idle, Steps, Rewrites
  <2> QED
    BY <2>1, <2>2
<1>5. ASSUME NEW w \in Requests, Accept(w)
      PROVE  Fresh(v, x)'
  <2>1. CASE v = w
    BY <1>5, <2>1, AcceptEffect DEF Fresh, Rewrites
  <2>2. CASE v # w
    <3>1. request'[v] = request[v] /\ meant' = meant
      BY <1>5, <2>2, AcceptEffect
    <3>2. CASE x # request[w].user
      BY <1>5, <3>1, <3>2, AcceptEffect DEF Fresh, Rewrites
    <3>3. CASE x = request[w].user
      <4>1. rows'[x].here = rows[x].here /\ rows'[x].admin = rows[x].admin /\ rows'[x].active = rows[x].active
        BY <1>5, <3>3, AcceptEffect
      <4>2. rows[x].here /\ meant[x] # None /\ request[w].seen.old => request[w].given = rows[x].password
        <5>1. Fresh(w, x)
          BY <1>5
        <5> QED
          BY <1>5, <3>3, <5>1, AcceptEffect DEF Fresh, Rewrites
      <4>3. rows[x].here /\ meant[x] # None => rows'[x].password = rows[x].password
        BY <1>5, <3>3, <4>2, AcceptEffect
      <4> QED
        BY <3>1, <4>1, <4>3 DEF Fresh, Rewrites
    <3> QED
      BY <3>2, <3>3
  <2> QED
    BY <2>1, <2>2
<1>6. ASSUME NEW w \in Requests, Refuse(w)
      PROVE  Fresh(v, x)'
  <2>1. CASE v = w
    BY <1>6, AccountsAssumption, <2>1 DEF Refuse, Fresh, HasPassword, ChangeIsPassword, NoRow, SeenByLogin, SeenByUpdate, SeenByRecord, TypeOK, Request, Row, Idle, Steps, Rewrites
  <2>2. CASE v # w
    BY <1>6, AccountsAssumption, <2>2 DEF Refuse, Fresh, HasPassword, ChangeIsPassword, NoRow, SeenByLogin, SeenByUpdate, SeenByRecord, TypeOK, Request, Row, Idle, Steps, Rewrites
  <2> QED
    BY <2>1, <2>2
<1>7. ASSUME NEW w \in Requests, Record(w)
      PROVE  Fresh(v, x)'
  BY <1>7, AccountsAssumption DEF Record, Ends, Fresh, HasPassword, ChangeIsPassword, NoRow, SeenByLogin, SeenByUpdate, SeenByRecord, TypeOK, Request, Row, Idle, Steps, Rewrites
<1>8. ASSUME NEW w \in Requests, LoginFails(w)
      PROVE  Fresh(v, x)'
  BY <1>8, AccountsAssumption DEF LoginFails, Fails, Ends, Fresh, HasPassword, ChangeIsPassword, NoRow, SeenByLogin, SeenByUpdate, SeenByRecord, TypeOK, Request, Row, Idle, Steps, Rewrites
<1>9. ASSUME NEW u \in Users, TimeIsOver(u)
      PROVE  Fresh(v, x)'
  BY <1>9, AccountsAssumption DEF TimeIsOver, Fresh, HasPassword, ChangeIsPassword, NoRow, SeenByLogin, SeenByUpdate, SeenByRecord, TypeOK, Request, Row, Idle, Steps, Rewrites
<1>10. ASSUME NEW w \in Requests, Permit(w)
      PROVE  Fresh(v, x)'
  BY <1>10, AccountsAssumption DEF Permit, Fresh, HasPassword, ChangeIsPassword, NoRow, SeenByLogin, SeenByUpdate, SeenByRecord, TypeOK, Request, Row, Idle, Steps, Rewrites
<1>11. ASSUME NEW w \in Requests, NEW u \in Users, NEW new \in Passwords \cup {None},
             NEW admin \in {"keep", "yes", "no"}, NEW active \in {"keep", "yes", "no"}, BeginUpdate(w, u, new, admin, active)
      PROVE  Fresh(v, x)'
  <2>1. CASE v = w
    BY <1>11, AccountsAssumption, <2>1 DEF BeginUpdate, Fresh, HasPassword, ChangeIsPassword, NoRow, SeenByLogin, SeenByUpdate, SeenByRecord, TypeOK, Request, Row, Idle, Steps, Rewrites
  <2>2. CASE v # w
    BY <1>11, AccountsAssumption, <2>2 DEF BeginUpdate, Fresh, HasPassword, ChangeIsPassword, NoRow, SeenByLogin, SeenByUpdate, SeenByRecord, TypeOK, Request, Row, Idle, Steps, Rewrites
  <2> QED
    BY <2>1, <2>2
<1>12. ASSUME NEW w \in Requests, BeginChange(w)
      PROVE  Fresh(v, x)'
  <2>1. rows' = rows /\ meant' = meant
    BY <1>12 DEF BeginChange
  <2>2. CASE v = w
    <3>1. \/ request'[v].at = "idle"
          \/ /\ request'[v].at = "update"
             /\ request'[v].admin = "keep" /\ request'[v].active = "keep"
      BY <1>12, <2>2 DEF BeginChange, TypeOK, Request, Idle, ChangeIsPassword
    <3> QED
      BY <3>1 DEF Fresh, Rewrites
  <2>3. CASE v # w
    BY <1>12, <2>1, <2>3 DEF BeginChange, TypeOK, Fresh, Rewrites
  <2> QED
    BY <2>2, <2>3
<1>13. ASSUME NEW w \in Requests, Update(w)
      PROVE  Fresh(v, x)'
  <2>1. CASE v = w
    BY <1>13, <2>1 DEF Update, Ends, Fresh, Rewrites, Idle, TypeOK
  <2>2. CASE v # w
    <3>1. request'[v] = request[v]
      BY <1>13, <2>2 DEF Update, Ends, TypeOK
    <3>2. CASE x = request[w].user
      <4>1. Rewrites(v, x) => meant'[x] = None
        BY <1>13, <2>2, <3>2 DEF Update, TypeOK
      <4> QED
        BY <3>1, <4>1 DEF Fresh, Rewrites
    <3>3. CASE x # request[w].user
      <4>1. rows'[x] = rows[x] /\ meant'[x] = meant[x]
        BY <1>13, <3>3 DEF Update, TypeOK
      <4> QED
        BY <3>1, <4>1 DEF Fresh, Rewrites
    <3> QED
      BY <3>2, <3>3
  <2> QED
    BY <2>1, <2>2
<1>14. ASSUME NEW w \in Requests, UpdateFails(w)
      PROVE  Fresh(v, x)'
  BY <1>14, AccountsAssumption DEF UpdateFails, Fails, Ends, Fresh, HasPassword, ChangeIsPassword, NoRow, SeenByLogin, SeenByUpdate, SeenByRecord, TypeOK, Request, Row, Idle, Steps, Rewrites
<1>15. ASSUME NEW w \in Requests, NEW u \in Users, NEW new \in Passwords, NEW admin \in {"yes", "no"}, BeginCreate(w, u, new, admin)
      PROVE  Fresh(v, x)'
  BY <1>15, AccountsAssumption DEF BeginCreate, Fresh, HasPassword, ChangeIsPassword, NoRow, SeenByLogin, SeenByUpdate, SeenByRecord, TypeOK, Request, Row, Idle, Steps, Rewrites
<1>16. ASSUME NEW w \in Requests, Create(w)
      PROVE  Fresh(v, x)'
  <2>1. v # w /\ Rewrites(v, x)' => request'[v] = request[v] /\ Rewrites(v, x)
    BY <1>16 DEF Create, Ends, TypeOK, Rewrites
  <2>2. ~Rewrites(w, x)'
    BY <1>16 DEF Create, Ends, Idle, TypeOK, Rewrites
  <2>3. CASE UNCHANGED <<rows, meant>>
    BY <2>1, <2>2, <2>3 DEF Fresh, Rewrites
  <2>4. CASE Insert(request[w].user, Account(request[w].new, request[w].admin = "yes"))
    <3>1. CASE x # request[w].user
      BY <2>1, <2>2, <2>4, <3>1 DEF Insert, TypeOK, Fresh, Rewrites
    <3>2. CASE x = request[w].user
      <4>1. v # w /\ Rewrites(v, x) => meant'[x] = None
        BY <2>4, <3>2 DEF Insert, TypeOK
      <4> QED
        BY <2>1, <2>2, <4>1 DEF Fresh
    <3> QED
      BY <3>1, <3>2
  <2> QED
    BY <1>16, <2>3, <2>4 DEF Create
<1>17. ASSUME NEW w \in Requests, NEW u \in Users, BeginDelete(w, u)
      PROVE  Fresh(v, x)'
  BY <1>17, AccountsAssumption DEF BeginDelete, Fresh, HasPassword, ChangeIsPassword, NoRow, SeenByLogin, SeenByUpdate, SeenByRecord, TypeOK, Request, Row, Idle, Steps, Rewrites
<1>18. ASSUME NEW w \in Requests, Delete(w)
      PROVE  Fresh(v, x)'
  <2>1. CASE x = request[w].user
    BY <1>18, <2>1 DEF Delete, TypeOK, NoRow, Fresh
  <2>2. CASE x # request[w].user
    <3>1. rows'[x] = rows[x] /\ meant'[x] = meant[x]
      BY <1>18, <2>2 DEF Delete, TypeOK
    <3>2. Rewrites(v, x)' => request'[v] = request[v]
      BY <1>18, <2>2 DEF Delete, TypeOK, Request, Rewrites, Idle
    <3> QED
      BY <3>1, <3>2 DEF Fresh, Rewrites
  <2> QED
    BY <2>1, <2>2
<1>19. ASSUME NEW w \in Requests, DeleteMisses(w)
      PROVE  Fresh(v, x)'
  BY <1>19, AccountsAssumption DEF DeleteMisses, Fails, Ends, Fresh, HasPassword, ChangeIsPassword, NoRow, SeenByLogin, SeenByUpdate, SeenByRecord, TypeOK, Request, Row, Idle, Steps, Rewrites
<1>20. ASSUME NEW w \in Requests, NEW on \in BOOLEAN, BeginToggle(w, on)
      PROVE  Fresh(v, x)'
  <2>1. CASE v = w
    BY <1>20, AccountsAssumption, <2>1 DEF BeginToggle, Fresh, HasPassword, ChangeIsPassword, NoRow, SeenByLogin, SeenByUpdate, SeenByRecord, TypeOK, Request, Row, Idle, Steps, Rewrites
  <2>2. CASE v # w
    BY <1>20, AccountsAssumption, <2>2 DEF BeginToggle, Fresh, HasPassword, ChangeIsPassword, NoRow, SeenByLogin, SeenByUpdate, SeenByRecord, TypeOK, Request, Row, Idle, Steps, Rewrites
  <2> QED
    BY <2>1, <2>2
<1>21. ASSUME NEW w \in Requests, NEW password \in Passwords, Bootstrap(w, password)
      PROVE  Fresh(v, x)'
  <2>1. v # w /\ Rewrites(v, x)' => request'[v] = request[v] /\ Rewrites(v, x)
    BY <1>21, BootstrapEffect DEF TypeOK, Rewrites
  <2>2. ~Rewrites(w, x)'
    BY <1>21, BootstrapEffect DEF Rewrites
  <2>3. CASE UNCHANGED <<rows, meant>>
    BY <2>1, <2>2, <2>3 DEF Fresh, Rewrites
  <2>4. CASE Insert(Admin, Account(password, TRUE))
    <3>1. CASE x # Admin
      BY <2>1, <2>2, <2>4, <3>1 DEF Insert, TypeOK, Fresh, Rewrites
    <3>2. CASE x = Admin
      <4>1. v # w /\ Rewrites(v, x) => meant'[x] = None
        BY <2>4, <3>2 DEF Insert, TypeOK
      <4> QED
        BY <2>1, <2>2, <4>1 DEF Fresh
    <3> QED
      BY <3>1, <3>2
  <2> QED
    BY <1>21, <2>3, <2>4, BootstrapEffect
<1>22. ASSUME NEW w \in Requests, Toggle(w)
      PROVE  Fresh(v, x)'
  BY <1>22, AccountsAssumption DEF Toggle, Ends, Fresh, HasPassword, ChangeIsPassword, NoRow, SeenByLogin, SeenByUpdate, SeenByRecord, TypeOK, Request, Row, Idle, Steps, Rewrites
<1>23. ASSUME NEW password \in Passwords, Restart(password)
      PROVE  Fresh(v, x)'
  BY <1>23, AccountsAssumption DEF Restart, Insert, Fresh, HasPassword, ChangeIsPassword, NoRow, SeenByLogin, SeenByUpdate, SeenByRecord, TypeOK, Request, Row, Idle, Steps, Rewrites
<1>24. CASE UNCHANGED vars
  BY <1>24 DEF vars, Fresh, HasPassword, ChangeIsPassword, NoRow, SeenByLogin, SeenByUpdate, SeenByRecord, TypeOK, Request, Row, Idle, Steps, Rewrites
<1> QED
  BY <1>1, <1>2, <1>3, <1>4, <1>5, <1>6, <1>7, <1>8, <1>9, <1>10, <1>11, <1>12, <1>13, <1>14, <1>15, <1>16, <1>17, <1>18, <1>19, <1>20, <1>21, <1>22, <1>23, <1>24 DEF Next

LEMMA MeantStep ==
  ASSUME TypeOK, NEW x \in Users, RowsAsMeant, \A w \in Requests : Fresh(w, x), [Next]_vars
  PROVE  rows'[x].here /\ meant'[x] # None => MeantBy(rows'[x]) = meant'[x]
<1>1. ASSUME NEW w \in Requests, NEW u \in Users, NEW given \in Passwords,
             NEW new \in Passwords \cup {None}, Login(w, u, given, new)
      PROVE  rows'[x].here /\ meant'[x] # None => MeantBy(rows'[x]) = meant'[x]
  BY <1>1, AccountsAssumption DEF Login, RowsAsMeant, MeantBy, TypeOK, Row, Meant, Request
<1>2. ASSUME NEW w \in Requests, NEW u \in Users, Look(w, u)
      PROVE  rows'[x].here /\ meant'[x] # None => MeantBy(rows'[x]) = meant'[x]
  BY <1>2, AccountsAssumption DEF Look, RowsAsMeant, MeantBy, TypeOK, Row, Meant, Request
<1>3. ASSUME NEW w \in Requests, ResetLock(w)
      PROVE  rows'[x].here /\ meant'[x] # None => MeantBy(rows'[x]) = meant'[x]
  BY <1>3, AccountsAssumption DEF ResetLock, RowsAsMeant, MeantBy, TypeOK, Row, Meant, Request
<1>4. ASSUME NEW w \in Requests, Reread(w)
      PROVE  rows'[x].here /\ meant'[x] # None => MeantBy(rows'[x]) = meant'[x]
  BY <1>4, AccountsAssumption DEF Reread, RowsAsMeant, MeantBy, TypeOK, Row, Meant, Request
<1>5. ASSUME NEW w \in Requests, Accept(w)
      PROVE  rows'[x].here /\ meant'[x] # None => MeantBy(rows'[x]) = meant'[x]
  <2> SUFFICES ASSUME rows'[x].here, meant'[x] # None
               PROVE  MeantBy(rows'[x]) = meant'[x]
    OBVIOUS
  <2>1. rows[x].here /\ meant'[x] = meant[x] /\ MeantBy(rows[x]) = meant[x]
    BY <1>5, AcceptEffect DEF RowsAsMeant
  <2>2. rows'[x].admin = rows[x].admin /\ rows'[x].active = rows[x].active
    BY <1>5, AcceptEffect
  <2>3. rows'[x].password = rows[x].password
    <3>1. CASE x # request[w].user
      BY <1>5, <3>1, AcceptEffect
    <3>2. CASE x = request[w].user
      <4>1. request[w].seen.old => request[w].given = rows[x].password
        BY <1>5, <2>1, <3>2, AcceptEffect DEF Fresh, Rewrites
      <4> QED
        BY <1>5, <3>2, <4>1, AcceptEffect
    <3> QED
      BY <3>1, <3>2
  <2> QED
    BY <2>1, <2>2, <2>3 DEF MeantBy
<1>6. ASSUME NEW w \in Requests, Refuse(w)
      PROVE  rows'[x].here /\ meant'[x] # None => MeantBy(rows'[x]) = meant'[x]
  BY <1>6, AccountsAssumption DEF Refuse, RowsAsMeant, MeantBy, TypeOK, Row, Meant, Request
<1>7. ASSUME NEW w \in Requests, Record(w)
      PROVE  rows'[x].here /\ meant'[x] # None => MeantBy(rows'[x]) = meant'[x]
  BY <1>7, AccountsAssumption DEF Record, Ends, RowsAsMeant, MeantBy, TypeOK, Row, Meant, Request
<1>8. ASSUME NEW w \in Requests, LoginFails(w)
      PROVE  rows'[x].here /\ meant'[x] # None => MeantBy(rows'[x]) = meant'[x]
  BY <1>8, AccountsAssumption DEF LoginFails, Fails, Ends, RowsAsMeant, MeantBy, TypeOK, Row, Meant, Request
<1>9. ASSUME NEW u \in Users, TimeIsOver(u)
      PROVE  rows'[x].here /\ meant'[x] # None => MeantBy(rows'[x]) = meant'[x]
  BY <1>9, AccountsAssumption DEF TimeIsOver, RowsAsMeant, MeantBy, TypeOK, Row, Meant, Request
<1>10. ASSUME NEW w \in Requests, Permit(w)
      PROVE  rows'[x].here /\ meant'[x] # None => MeantBy(rows'[x]) = meant'[x]
  BY <1>10, AccountsAssumption DEF Permit, RowsAsMeant, MeantBy, TypeOK, Row, Meant, Request
<1>11. ASSUME NEW w \in Requests, NEW u \in Users, NEW new \in Passwords \cup {None},
             NEW admin \in {"keep", "yes", "no"}, NEW active \in {"keep", "yes", "no"}, BeginUpdate(w, u, new, admin, active)
      PROVE  rows'[x].here /\ meant'[x] # None => MeantBy(rows'[x]) = meant'[x]
  BY <1>11, AccountsAssumption DEF BeginUpdate, RowsAsMeant, MeantBy, TypeOK, Row, Meant, Request
<1>12. ASSUME NEW w \in Requests, BeginChange(w)
      PROVE  rows'[x].here /\ meant'[x] # None => MeantBy(rows'[x]) = meant'[x]
  BY <1>12, AccountsAssumption DEF BeginChange, RowsAsMeant, MeantBy, TypeOK, Row, Meant, Request
<1>13. ASSUME NEW w \in Requests, Update(w)
      PROVE  rows'[x].here /\ meant'[x] # None => MeantBy(rows'[x]) = meant'[x]
  <2> SUFFICES ASSUME rows'[x].here, meant'[x] # None
               PROVE  MeantBy(rows'[x]) = meant'[x]
    OBVIOUS
  <2>1. CASE x # request[w].user
    BY <1>13, <2>1 DEF Update, TypeOK, RowsAsMeant
  <2>2. CASE x = request[w].user
    <3> DEFINE r == request[w]
    <3>1. /\ r \in Request /\ rows[x] \in Row /\ rows[x].here
          /\ r.at = "update" /\ meant[x] # None
      BY <1>13, <2>2 DEF Update, Reaches, TypeOK
    <3>2. /\ rows'[x].password = IF r.new = None THEN rows[x].password ELSE r.new
          /\ rows'[x].admin = Written(rows[x].admin, r.seen.admin, r.admin)
          /\ rows'[x].active = Written(rows[x].active, r.seen.active, r.active)
      <4>1. rows'[x] = Updated(rows[x], r)
        BY <1>13, <2>2, <3>1 DEF Update, TypeOK
      <4> QED
        BY <3>1, <4>1, UpdatedRow
    <3>3. meant'[x] = [password |-> IF r.new = None THEN meant[x].password ELSE r.new,
                       admin |-> Wanted(meant[x].admin, r.admin),
                       active |-> Wanted(meant[x].active, r.active)]
      BY <1>13, <2>2, <3>1 DEF Update, TypeOK
    <3>4. meant[x] = MeantBy(rows[x]) /\ Fresh(w, x) /\ Rewrites(w, x)
      BY <1>13, <2>2, <3>1 DEF RowsAsMeant, Rewrites
    <3>5. /\ r.admin # "keep" => r.seen.admin = rows[x].admin
          /\ r.active # "keep" => r.seen.active = rows[x].active
      BY <3>1, <3>4 DEF Fresh
    <3>6. /\ meant[x].password = rows[x].password
          /\ meant[x].admin = rows[x].admin /\ meant[x].active = rows[x].active
      BY <3>4 DEF MeantBy
    <3> HIDE DEF r
    <3>7. /\ rows'[x].admin = Wanted(rows[x].admin, r.admin)
          /\ rows'[x].active = Wanted(rows[x].active, r.active)
      BY <3>1, <3>2, <3>5 DEF Written, Wanted, Request, Row
    <3> QED
      BY <3>2, <3>3, <3>6, <3>7 DEF MeantBy
  <2> QED
    BY <2>1, <2>2
<1>14. ASSUME NEW w \in Requests, UpdateFails(w)
      PROVE  rows'[x].here /\ meant'[x] # None => MeantBy(rows'[x]) = meant'[x]
  BY <1>14, AccountsAssumption DEF UpdateFails, Fails, Ends, RowsAsMeant, MeantBy, TypeOK, Row, Meant, Request
<1>15. ASSUME NEW w \in Requests, NEW u \in Users, NEW new \in Passwords, NEW admin \in {"yes", "no"}, BeginCreate(w, u, new, admin)
      PROVE  rows'[x].here /\ meant'[x] # None => MeantBy(rows'[x]) = meant'[x]
  BY <1>15, AccountsAssumption DEF BeginCreate, RowsAsMeant, MeantBy, TypeOK, Row, Meant, Request
<1>16. ASSUME NEW w \in Requests, Create(w)
      PROVE  rows'[x].here /\ meant'[x] # None => MeantBy(rows'[x]) = meant'[x]
  BY <1>16, AccountsAssumption, SMTT(30) DEF Create, Ends, Insert, RowsAsMeant, MeantBy, TypeOK, Row, Meant, Request
<1>17. ASSUME NEW w \in Requests, NEW u \in Users, BeginDelete(w, u)
      PROVE  rows'[x].here /\ meant'[x] # None => MeantBy(rows'[x]) = meant'[x]
  BY <1>17, AccountsAssumption DEF BeginDelete, RowsAsMeant, MeantBy, TypeOK, Row, Meant, Request
<1>18. ASSUME NEW w \in Requests, Delete(w)
      PROVE  rows'[x].here /\ meant'[x] # None => MeantBy(rows'[x]) = meant'[x]
  BY <1>18, AccountsAssumption DEF Delete, RowsAsMeant, MeantBy, TypeOK, Row, Meant, Request
<1>19. ASSUME NEW w \in Requests, DeleteMisses(w)
      PROVE  rows'[x].here /\ meant'[x] # None => MeantBy(rows'[x]) = meant'[x]
  BY <1>19, AccountsAssumption DEF DeleteMisses, Fails, Ends, RowsAsMeant, MeantBy, TypeOK, Row, Meant, Request
<1>20. ASSUME NEW w \in Requests, NEW on \in BOOLEAN, BeginToggle(w, on)
      PROVE  rows'[x].here /\ meant'[x] # None => MeantBy(rows'[x]) = meant'[x]
  BY <1>20, AccountsAssumption DEF BeginToggle, RowsAsMeant, MeantBy, TypeOK, Row, Meant, Request
<1>21. ASSUME NEW w \in Requests, NEW password \in Passwords, Bootstrap(w, password)
      PROVE  rows'[x].here /\ meant'[x] # None => MeantBy(rows'[x]) = meant'[x]
  <2> QED
    BY <1>21, BootstrapEffect, InsertMeant DEF RowsAsMeant
<1>22. ASSUME NEW w \in Requests, Toggle(w)
      PROVE  rows'[x].here /\ meant'[x] # None => MeantBy(rows'[x]) = meant'[x]
  BY <1>22, AccountsAssumption DEF Toggle, Ends, RowsAsMeant, MeantBy, TypeOK, Row, Meant, Request
<1>23. ASSUME NEW password \in Passwords, Restart(password)
      PROVE  rows'[x].here /\ meant'[x] # None => MeantBy(rows'[x]) = meant'[x]
  <2> QED
    BY <1>23, InsertMeant DEF Restart, RowsAsMeant
<1>24. CASE UNCHANGED vars
  BY <1>24 DEF vars, RowsAsMeant, MeantBy, TypeOK, Row, Meant, Request
<1> QED
  BY <1>1, <1>2, <1>3, <1>4, <1>5, <1>6, <1>7, <1>8, <1>9, <1>10, <1>11, <1>12, <1>13, <1>14, <1>15, <1>16, <1>17, <1>18, <1>19, <1>20, <1>21, <1>22, <1>23, <1>24 DEF Next

-----------------------------------------------------------------------------
(* The administrator.                                                      *)

LEMMA EnabledType ==
  ASSUME TypeOK, [Next]_vars
  PROVE  enabled' \in BOOLEAN
<1>1. ASSUME NEW w \in Requests, NEW u \in Users, NEW given \in Passwords,
             NEW new \in Passwords \cup {None}, Login(w, u, given, new)
      PROVE  enabled' \in BOOLEAN
  BY <1>1 DEF Login, TypeOK
<1>2. ASSUME NEW w \in Requests, NEW u \in Users, Look(w, u)
      PROVE  enabled' \in BOOLEAN
  BY <1>2 DEF Look, TypeOK
<1>3. ASSUME NEW w \in Requests, ResetLock(w)
      PROVE  enabled' \in BOOLEAN
  BY <1>3 DEF ResetLock, TypeOK
<1>4. ASSUME NEW w \in Requests, Reread(w)
      PROVE  enabled' \in BOOLEAN
  BY <1>4 DEF Reread, TypeOK
<1>5. ASSUME NEW w \in Requests, Accept(w)
      PROVE  enabled' \in BOOLEAN
  BY <1>5 DEF Accept, TypeOK
<1>6. ASSUME NEW w \in Requests, Refuse(w)
      PROVE  enabled' \in BOOLEAN
  BY <1>6 DEF Refuse, TypeOK
<1>7. ASSUME NEW w \in Requests, Record(w)
      PROVE  enabled' \in BOOLEAN
  BY <1>7 DEF Record, Ends, TypeOK
<1>8. ASSUME NEW w \in Requests, LoginFails(w)
      PROVE  enabled' \in BOOLEAN
  BY <1>8 DEF LoginFails, Fails, Ends, TypeOK
<1>9. ASSUME NEW u \in Users, TimeIsOver(u)
      PROVE  enabled' \in BOOLEAN
  BY <1>9 DEF TimeIsOver, TypeOK
<1>10. ASSUME NEW w \in Requests, Permit(w)
      PROVE  enabled' \in BOOLEAN
  BY <1>10 DEF Permit, TypeOK
<1>11. ASSUME NEW w \in Requests, NEW u \in Users, NEW new \in Passwords \cup {None},
             NEW admin \in {"keep", "yes", "no"}, NEW active \in {"keep", "yes", "no"}, BeginUpdate(w, u, new, admin, active)
      PROVE  enabled' \in BOOLEAN
  BY <1>11 DEF BeginUpdate, TypeOK
<1>12. ASSUME NEW w \in Requests, BeginChange(w)
      PROVE  enabled' \in BOOLEAN
  BY <1>12 DEF BeginChange, TypeOK
<1>13. ASSUME NEW w \in Requests, Update(w)
      PROVE  enabled' \in BOOLEAN
  BY <1>13 DEF Update, Ends, TypeOK
<1>14. ASSUME NEW w \in Requests, UpdateFails(w)
      PROVE  enabled' \in BOOLEAN
  BY <1>14 DEF UpdateFails, Fails, Ends, TypeOK
<1>15. ASSUME NEW w \in Requests, NEW u \in Users, NEW new \in Passwords, NEW admin \in {"yes", "no"}, BeginCreate(w, u, new, admin)
      PROVE  enabled' \in BOOLEAN
  BY <1>15 DEF BeginCreate, TypeOK
<1>16. ASSUME NEW w \in Requests, Create(w)
      PROVE  enabled' \in BOOLEAN
  BY <1>16 DEF Create, Ends, Insert, TypeOK
<1>17. ASSUME NEW w \in Requests, NEW u \in Users, BeginDelete(w, u)
      PROVE  enabled' \in BOOLEAN
  BY <1>17 DEF BeginDelete, TypeOK
<1>18. ASSUME NEW w \in Requests, Delete(w)
      PROVE  enabled' \in BOOLEAN
  BY <1>18 DEF Delete, TypeOK
<1>19. ASSUME NEW w \in Requests, DeleteMisses(w)
      PROVE  enabled' \in BOOLEAN
  BY <1>19 DEF DeleteMisses, Fails, Ends, TypeOK
<1>20. ASSUME NEW w \in Requests, NEW on \in BOOLEAN, BeginToggle(w, on)
      PROVE  enabled' \in BOOLEAN
  BY <1>20 DEF BeginToggle, TypeOK
<1>21. ASSUME NEW w \in Requests, NEW password \in Passwords, Bootstrap(w, password)
      PROVE  enabled' \in BOOLEAN
  BY <1>21 DEF Bootstrap, Ends, Insert, TypeOK
<1>22. ASSUME NEW w \in Requests, Toggle(w)
      PROVE  enabled' \in BOOLEAN
  BY <1>22 DEF Toggle, Ends, TypeOK
<1>23. ASSUME NEW password \in Passwords, Restart(password)
      PROVE  enabled' \in BOOLEAN
  BY <1>23 DEF Restart, Insert, TypeOK
<1>24. CASE UNCHANGED vars
  BY <1>24 DEF vars, TypeOK
<1> QED
  BY <1>1, <1>2, <1>3, <1>4, <1>5, <1>6, <1>7, <1>8, <1>9, <1>10, <1>11, <1>12, <1>13, <1>14, <1>15, <1>16, <1>17, <1>18, <1>19, <1>20, <1>21, <1>22, <1>23, <1>24 DEF Next

LEMMA ChangeStep ==
  ASSUME TypeOK, ChangeIsPassword, [Next]_vars
  PROVE  ChangeIsPassword'
<1>1. ASSUME NEW w \in Requests, NEW u \in Users, NEW given \in Passwords,
             NEW new \in Passwords \cup {None}, Login(w, u, given, new)
      PROVE  ChangeIsPassword'
  <2>1. Begins(w, u)
    BY <1>1, LoginEffect
  <2>2. request'[w].at \notin {"change", "enable", "create", "delete", "update"}
    BY <2>1 DEF Begins
  <2> QED
    BY <2>1, <2>2 DEF Begins, ChangeIsPassword
<1>2. ASSUME NEW w \in Requests, NEW u \in Users, Look(w, u)
      PROVE  ChangeIsPassword'
  BY <1>2 DEF Look, ChangeIsPassword, TypeOK, Request, Idle
<1>3. ASSUME NEW w \in Requests, ResetLock(w)
      PROVE  ChangeIsPassword'
  BY <1>3 DEF ResetLock, ChangeIsPassword, TypeOK, Request, Idle
<1>4. ASSUME NEW w \in Requests, Reread(w)
      PROVE  ChangeIsPassword'
  BY <1>4 DEF Reread, ChangeIsPassword, TypeOK, Request, Idle
<1>5. ASSUME NEW w \in Requests, Accept(w)
      PROVE  ChangeIsPassword'
  BY <1>5 DEF Accept, ChangeIsPassword, TypeOK, Request, Idle
<1>6. ASSUME NEW w \in Requests, Refuse(w)
      PROVE  ChangeIsPassword'
  BY <1>6 DEF Refuse, ChangeIsPassword, TypeOK, Request, Idle
<1>7. ASSUME NEW w \in Requests, Record(w)
      PROVE  ChangeIsPassword'
  BY <1>7 DEF Record, Ends, ChangeIsPassword, TypeOK, Request, Idle
<1>8. ASSUME NEW w \in Requests, LoginFails(w)
      PROVE  ChangeIsPassword'
  BY <1>8 DEF LoginFails, Fails, Ends, ChangeIsPassword, TypeOK, Request, Idle
<1>9. ASSUME NEW u \in Users, TimeIsOver(u)
      PROVE  ChangeIsPassword'
  BY <1>9 DEF TimeIsOver, ChangeIsPassword, TypeOK, Request, Idle
<1>10. ASSUME NEW w \in Requests, Permit(w)
      PROVE  ChangeIsPassword'
  BY <1>10 DEF Permit, ChangeIsPassword, TypeOK, Request, Idle
<1>11. ASSUME NEW w \in Requests, NEW u \in Users, NEW new \in Passwords \cup {None},
             NEW admin \in {"keep", "yes", "no"}, NEW active \in {"keep", "yes", "no"}, BeginUpdate(w, u, new, admin, active)
      PROVE  ChangeIsPassword'
  BY <1>11 DEF BeginUpdate, ChangeIsPassword, TypeOK, Request, Idle
<1>12. ASSUME NEW w \in Requests, BeginChange(w)
      PROVE  ChangeIsPassword'
  BY <1>12 DEF BeginChange, ChangeIsPassword, TypeOK, Request, Idle
<1>13. ASSUME NEW w \in Requests, Update(w)
      PROVE  ChangeIsPassword'
  BY <1>13 DEF Update, Ends, ChangeIsPassword, TypeOK, Request, Idle
<1>14. ASSUME NEW w \in Requests, UpdateFails(w)
      PROVE  ChangeIsPassword'
  BY <1>14 DEF UpdateFails, Fails, Ends, ChangeIsPassword, TypeOK, Request, Idle
<1>15. ASSUME NEW w \in Requests, NEW u \in Users, NEW new \in Passwords, NEW admin \in {"yes", "no"}, BeginCreate(w, u, new, admin)
      PROVE  ChangeIsPassword'
  BY <1>15 DEF BeginCreate, ChangeIsPassword, TypeOK, Request, Idle
<1>16. ASSUME NEW w \in Requests, Create(w)
      PROVE  ChangeIsPassword'
  BY <1>16 DEF Create, Ends, Insert, ChangeIsPassword, TypeOK, Request, Idle
<1>17. ASSUME NEW w \in Requests, NEW u \in Users, BeginDelete(w, u)
      PROVE  ChangeIsPassword'
  BY <1>17 DEF BeginDelete, ChangeIsPassword, TypeOK, Request, Idle
<1>18. ASSUME NEW w \in Requests, Delete(w)
      PROVE  ChangeIsPassword'
  BY <1>18 DEF Delete, ChangeIsPassword, TypeOK, Request, Idle
<1>19. ASSUME NEW w \in Requests, DeleteMisses(w)
      PROVE  ChangeIsPassword'
  BY <1>19 DEF DeleteMisses, Fails, Ends, ChangeIsPassword, TypeOK, Request, Idle
<1>20. ASSUME NEW w \in Requests, NEW on \in BOOLEAN, BeginToggle(w, on)
      PROVE  ChangeIsPassword'
  BY <1>20 DEF BeginToggle, ChangeIsPassword, TypeOK, Request, Idle
<1>21. ASSUME NEW w \in Requests, NEW password \in Passwords, Bootstrap(w, password)
      PROVE  ChangeIsPassword'
  <2> QED
    BY <1>21, BootstrapEffect DEF ChangeIsPassword
<1>22. ASSUME NEW w \in Requests, Toggle(w)
      PROVE  ChangeIsPassword'
  BY <1>22 DEF Toggle, Ends, ChangeIsPassword, TypeOK, Request, Idle
<1>23. ASSUME NEW password \in Passwords, Restart(password)
      PROVE  ChangeIsPassword'
  BY <1>23 DEF Restart, Insert, ChangeIsPassword, TypeOK, Request, Idle
<1>24. CASE UNCHANGED vars
  BY <1>24 DEF vars, ChangeIsPassword, TypeOK, Request, Idle
<1> QED
  BY <1>1, <1>2, <1>3, <1>4, <1>5, <1>6, <1>7, <1>8, <1>9, <1>10, <1>11, <1>12, <1>13, <1>14, <1>15, <1>16, <1>17, <1>18, <1>19, <1>20, <1>21, <1>22, <1>23, <1>24 DEF Next

\* The account "admin", once it is there, stays an administrator's.
LEMMA AdminStep ==
  ASSUME TypeOK, ChangeIsPassword, AdminSafe, AdminHere, [Next]_vars
  PROVE  AdminSafe' /\ AdminHere'
<1>1. ASSUME NEW w \in Requests, NEW u \in Users, NEW given \in Passwords,
             NEW new \in Passwords \cup {None}, Login(w, u, given, new)
      PROVE  AdminSafe' /\ AdminHere'
  <2>1. Begins(w, u)
    BY <1>1, LoginEffect
  <2>2. request'[w].at \notin {"change", "enable", "create", "delete", "update"}
    BY <2>1 DEF Begins
  <2> QED
    BY <2>1, <2>2 DEF Begins, AdminSafe, AdminHere
<1>2. ASSUME NEW w \in Requests, NEW u \in Users, Look(w, u)
      PROVE  AdminSafe' /\ AdminHere'
  <2>1. Looks(w, u)
    BY <1>2, LookEffect
  <2>2. request'[w].at \notin {"change", "enable", "create", "delete", "update"}
    BY <2>1 DEF Looks
  <2> QED
    BY <2>1, <2>2 DEF Looks, AdminSafe, AdminHere
<1>3. ASSUME NEW w \in Requests, ResetLock(w)
      PROVE  AdminSafe' /\ AdminHere'
  BY <1>3, AccountsAssumption, SMTT(30) DEF ResetLock, AdminSafe, AdminHere, ChangeIsPassword, TypeOK, Request, Row, Idle, Steps, LoginSteps, NoRow, Account
<1>4. ASSUME NEW w \in Requests, Reread(w)
      PROVE  AdminSafe' /\ AdminHere'
  BY <1>4, AccountsAssumption DEF Reread, AdminSafe, AdminHere, ChangeIsPassword, TypeOK, Request, Row, Idle, Steps, LoginSteps, NoRow, Account
<1>5. ASSUME NEW w \in Requests, Accept(w)
      PROVE  AdminSafe' /\ AdminHere'
  <2>1. rows'[Admin].here = rows[Admin].here /\ rows'[Admin].admin = rows[Admin].admin
    BY <1>5, AccountsAssumption, AcceptEffect
  <2>2. enabled' = enabled /\ \A v \in Requests \ {w} : request'[v] = request[v]
    BY <1>5 DEF Accept, TypeOK
  <2>3. request'[w].at \in {"idle", "change"} /\ request'[w].admin = "keep"
    BY <1>5 DEF Accept, TypeOK, Idle
  <2> QED
    BY <2>1, <2>2, <2>3 DEF AdminSafe, AdminHere
<1>6. ASSUME NEW w \in Requests, Refuse(w)
      PROVE  AdminSafe' /\ AdminHere'
  BY <1>6, AccountsAssumption DEF Refuse, AdminSafe, AdminHere, ChangeIsPassword, TypeOK, Request, Row, Idle, Steps, LoginSteps, NoRow, Account
<1>7. ASSUME NEW w \in Requests, Record(w)
      PROVE  AdminSafe' /\ AdminHere'
  BY <1>7, AccountsAssumption, SMTT(30) DEF Record, Ends, AdminSafe, AdminHere, ChangeIsPassword, TypeOK, Request, Row, Idle, Steps, LoginSteps, NoRow, Account
<1>8. ASSUME NEW w \in Requests, LoginFails(w)
      PROVE  AdminSafe' /\ AdminHere'
  BY <1>8, AccountsAssumption DEF LoginFails, Fails, Ends, AdminSafe, AdminHere, ChangeIsPassword, TypeOK, Request, Row, Idle, Steps, LoginSteps, NoRow, Account
<1>9. ASSUME NEW u \in Users, TimeIsOver(u)
      PROVE  AdminSafe' /\ AdminHere'
  BY <1>9, AccountsAssumption DEF TimeIsOver, AdminSafe, AdminHere, ChangeIsPassword, TypeOK, Request, Row, Idle, Steps, LoginSteps, NoRow, Account
<1>10. ASSUME NEW w \in Requests, Permit(w)
      PROVE  AdminSafe' /\ AdminHere'
  BY <1>10, AccountsAssumption DEF Permit, AdminSafe, AdminHere, ChangeIsPassword, TypeOK, Request, Row, Idle, Steps, LoginSteps, NoRow, Account
<1>11. ASSUME NEW w \in Requests, NEW u \in Users, NEW new \in Passwords \cup {None},
             NEW admin \in {"keep", "yes", "no"}, NEW active \in {"keep", "yes", "no"}, BeginUpdate(w, u, new, admin, active)
      PROVE  AdminSafe' /\ AdminHere'
  BY <1>11, AccountsAssumption DEF BeginUpdate, AdminSafe, AdminHere, ChangeIsPassword, TypeOK, Request, Row, Idle, Steps, LoginSteps, NoRow, Account
<1>12. ASSUME NEW w \in Requests, BeginChange(w)
      PROVE  AdminSafe' /\ AdminHere'
  BY <1>12, AccountsAssumption DEF BeginChange, AdminSafe, AdminHere, ChangeIsPassword, TypeOK, Request, Row, Idle, Steps, LoginSteps, NoRow, Account
<1>13. ASSUME NEW w \in Requests, Update(w)
      PROVE  AdminSafe' /\ AdminHere'
  <2>1. rows'[Admin].here = rows[Admin].here /\ (rows[Admin].here => rows'[Admin].admin)
    <3>1. CASE request[w].user # Admin
      BY <1>13, <3>1, AccountsAssumption DEF Update, TypeOK, AdminSafe
    <3>2. CASE request[w].user = Admin
      <4>1. rows'[Admin] = Updated(rows[Admin], request[w]) /\ request[w] \in Request /\ rows[Admin] \in Row
        BY <1>13, <3>2, AccountsAssumption DEF Update, TypeOK
      <4>2. request[w].at = "update"
        BY <1>13 DEF Update
      <4>3. /\ rows'[Admin].here = rows[Admin].here
            /\ rows'[Admin].admin = Written(rows[Admin].admin, request[w].seen.admin, request[w].admin)
        BY <4>1, UpdatedRow
      <4> QED
        BY <3>2, <4>1, <4>2, <4>3 DEF AdminSafe, Written, Request, Row
    <3> QED
      BY <3>1, <3>2
  <2>2. enabled' = enabled /\ \A v \in Requests : request'[v] \in {request[v], Idle}
    BY <1>13 DEF Update, Ends, TypeOK
  <2>3. \A v \in Requests : request'[v] = request[v] \/ request'[v].at = "idle"
    BY <2>2 DEF Idle
  <2> QED
    BY <2>1, <2>2, <2>3 DEF AdminSafe, AdminHere
<1>14. ASSUME NEW w \in Requests, UpdateFails(w)
      PROVE  AdminSafe' /\ AdminHere'
  BY <1>14, AccountsAssumption DEF UpdateFails, Fails, Ends, AdminSafe, AdminHere, ChangeIsPassword, TypeOK, Request, Row, Idle, Steps, LoginSteps, NoRow, Account
<1>15. ASSUME NEW w \in Requests, NEW u \in Users, NEW new \in Passwords, NEW admin \in {"yes", "no"}, BeginCreate(w, u, new, admin)
      PROVE  AdminSafe' /\ AdminHere'
  BY <1>15, AccountsAssumption DEF BeginCreate, AdminSafe, AdminHere, ChangeIsPassword, TypeOK, Request, Row, Idle, Steps, LoginSteps, NoRow, Account
<1>16. ASSUME NEW w \in Requests, Create(w)
      PROVE  AdminSafe' /\ AdminHere'
  BY <1>16, AccountsAssumption DEF Create, Ends, Insert, AdminSafe, AdminHere, ChangeIsPassword, TypeOK, Request, Row, Idle, Steps, LoginSteps, NoRow, Account
<1>17. ASSUME NEW w \in Requests, NEW u \in Users, BeginDelete(w, u)
      PROVE  AdminSafe' /\ AdminHere'
  BY <1>17, AccountsAssumption DEF BeginDelete, AdminSafe, AdminHere, ChangeIsPassword, TypeOK, Request, Row, Idle, Steps, LoginSteps, NoRow, Account
<1>18. ASSUME NEW w \in Requests, Delete(w)
      PROVE  AdminSafe' /\ AdminHere'
  BY <1>18, AccountsAssumption DEF Delete, AdminSafe, AdminHere, ChangeIsPassword, TypeOK, Request, Row, Idle, Steps, LoginSteps, NoRow, Account
<1>19. ASSUME NEW w \in Requests, DeleteMisses(w)
      PROVE  AdminSafe' /\ AdminHere'
  BY <1>19, AccountsAssumption DEF DeleteMisses, Fails, Ends, AdminSafe, AdminHere, ChangeIsPassword, TypeOK, Request, Row, Idle, Steps, LoginSteps, NoRow, Account
<1>20. ASSUME NEW w \in Requests, NEW on \in BOOLEAN, BeginToggle(w, on)
      PROVE  AdminSafe' /\ AdminHere'
  BY <1>20, AccountsAssumption DEF BeginToggle, AdminSafe, AdminHere, ChangeIsPassword, TypeOK, Request, Row, Idle, Steps, LoginSteps, NoRow, Account
<1>21. ASSUME NEW w \in Requests, NEW password \in Passwords, Bootstrap(w, password)
      PROVE  AdminSafe' /\ AdminHere'
  <2>1. rows'[Admin].here /\ rows'[Admin].admin
    <3>1. CASE rows[Admin].here
      BY <1>21, <3>1, BootstrapEffect DEF AdminSafe
    <3>2. CASE ~rows[Admin].here
      <4>1. rows'[Admin] = Account(password, TRUE)
        BY <1>21, <3>2, BootstrapEffect, AccountsAssumption, ZenonT(30) DEF Insert, TypeOK
      <4> QED
        BY <4>1 DEF Account, NoRow
    <3> QED
      BY <3>1, <3>2
  <2>2. enabled' = enabled
    BY <1>21 DEF Bootstrap
  <2> QED
    BY <1>21, <2>1, <2>2, BootstrapEffect DEF AdminSafe, AdminHere
<1>22. ASSUME NEW w \in Requests, Toggle(w)
      PROVE  AdminSafe' /\ AdminHere'
  BY <1>22, AccountsAssumption DEF Toggle, Ends, AdminSafe, AdminHere, ChangeIsPassword, TypeOK, Request, Row, Idle, Steps, LoginSteps, NoRow, Account
<1>23. ASSUME NEW password \in Passwords, Restart(password)
      PROVE  AdminSafe' /\ AdminHere'
  BY <1>23, AccountsAssumption DEF Restart, Insert, AdminSafe, AdminHere, ChangeIsPassword, TypeOK, Request, Row, Idle, Steps, LoginSteps, NoRow, Account
<1>24. CASE UNCHANGED vars
  BY <1>24 DEF vars, AdminSafe, AdminHere, ChangeIsPassword, TypeOK, Request, Row, Idle, Steps, LoginSteps, NoRow, Account
<1> QED
  BY <1>1, <1>2, <1>3, <1>4, <1>5, <1>6, <1>7, <1>8, <1>9, <1>10, <1>11, <1>12, <1>13, <1>14, <1>15, <1>16, <1>17, <1>18, <1>19, <1>20, <1>21, <1>22, <1>23, <1>24 DEF Next

\* The first start comes to the account before anything else happens.
LEMMA FirstStep ==
  ASSUME TypeOK, FirstStart, [Next]_vars
  PROVE  (AdminSafe' /\ AdminHere') \/ UNCHANGED vars
<1>1. \A w \in Requests : request[w].at = "idle"
  BY DEF FirstStart, Idle
<1>2. ASSUME NEW password \in Passwords, Restart(password)
      PROVE  AdminSafe' /\ AdminHere'
  <2>1. rows'[Admin] = Account(password, TRUE)
    BY <1>2, AccountsAssumption, Zenon DEF Restart, Insert, FirstStart, TypeOK
  <2>2. \A w \in Requests : request'[w].at = "idle"
    BY <1>2 DEF Restart, Idle
  <2> QED
    BY <2>1, <2>2 DEF Account, NoRow, AdminSafe, AdminHere
<1>3. ASSUME NEW w \in Requests
      PROVE  /\ ~ResetLock(w) /\ ~Reread(w) /\ ~Accept(w) /\ ~Refuse(w) /\ ~Record(w)
             /\ ~LoginFails(w) /\ ~Permit(w) /\ ~BeginChange(w) /\ ~Update(w) /\ ~UpdateFails(w)
             /\ ~Create(w) /\ ~Delete(w) /\ ~DeleteMisses(w) /\ ~Toggle(w)
  BY <1>1 DEF FirstStart, ResetLock, Reread, Accept, Refuse, Record, LoginFails, LoginSteps, Permit,
              BeginChange, Update, UpdateFails, Create, Delete, DeleteMisses, Toggle
<1>4. ASSUME NEW w \in Requests, NEW u \in Users
      PROVE  /\ ~Look(w, u) /\ ~BeginDelete(w, u)
             /\ \A given, new : ~Login(w, u, given, new)
             /\ \A new, admin, active : ~BeginUpdate(w, u, new, admin, active)
             /\ \A new, admin : ~BeginCreate(w, u, new, admin)
  BY <1>1 DEF FirstStart, Look, BeginDelete, Login, BeginUpdate, BeginCreate
<1>5. ASSUME NEW w \in Requests
      PROVE  /\ \A on : ~BeginToggle(w, on)
             /\ \A password : ~Bootstrap(w, password)
  BY <1>1 DEF BeginToggle, Bootstrap
<1>6. ASSUME NEW u \in Users PROVE ~TimeIsOver(u)
  BY DEF FirstStart, TimeIsOver
<1> QED
  BY <1>2, <1>3, <1>4, <1>5, <1>6 DEF Next

-----------------------------------------------------------------------------
(* The theorems.                                                           *)

IInv ==
  /\ TypeOK /\ HasPassword /\ ChangeIsPassword
  /\ CountInv /\ MeantInv
  /\ FirstStart \/ (AdminSafe /\ AdminHere)

LEMMA InitIInv == Init => IInv
<1> SUFFICES ASSUME Init
             PROVE  IInv
  OBVIOUS
<1>1. PICK here \in SUBSET Users, admins \in SUBSET Users, p \in Passwords, old \in BOOLEAN :
        /\ here # {} => Admin \in here \cap admins
        /\ rows = [u \in Users |-> IF u \in here
                                   THEN [Account(p, u \in admins) EXCEPT !.old = old]
                                   ELSE NoRow]
  BY DEF Init
<1>2. ASSUME NEW u \in Users
      PROVE  /\ rows[u] \in Row
             /\ rows[u].here => rows[u].password \in Passwords
             /\ rows[u].failed = 0 /\ rows[u].lock = "none"
  <2>1. CASE u \in here
    <3>1. rows[u] = [Account(p, u \in admins) EXCEPT !.old = old]
      BY <1>1, <2>1
    <3>2. Account(p, u \in admins) \in Row
      <4>1. (u \in admins) \in BOOLEAN
        OBVIOUS
      <4> QED
        BY <1>1, <4>1, Shapes, Zenon
    <3>3. /\ Account(p, u \in admins).failed = 0 /\ Account(p, u \in admins).lock = "none"
          /\ Account(p, u \in admins).password = p
      BY DEF Account, NoRow
    <3> QED
      BY <1>1, <3>1, <3>2, <3>3 DEF Row
  <2>2. CASE u \notin here
    BY <1>1, <2>2, Shapes DEF NoRow
  <2> QED
    BY <2>1, <2>2
<1>3. \/ \A u \in Users : ~rows[u].here
      \/ rows[Admin].here /\ rows[Admin].admin
  <2>1. CASE here = {}
    BY <1>1, <2>1 DEF NoRow
  <2>2. CASE here # {}
    BY <1>1, <2>2, AccountsAssumption DEF Account, NoRow
  <2> QED
    BY <2>1, <2>2
<1>4. enabled \/ AdminHere
  BY DEF AdminHere
<1>5. \A w \in Requests : request[w] = Idle /\ request[w].at = "idle"
  BY DEF Init, Idle
<1>6. TypeOK
  <2>1. rows \in [Users -> Row]
    BY <1>1, <1>2
  <2>2. meant \in [Users -> Meant \cup {None}]
    BY <1>2 DEF Init, MeantBy, Meant, Row
  <2>3. streak \in [Users -> -1..MaxAttempts]
    BY AccountsAssumption DEF Init
  <2> QED
    BY <1>2, <1>5, <2>1, <2>2, <2>3, Shapes DEF Init, TypeOK
<1>7. CountInv
  BY <1>2, <1>5, AccountsAssumption DEF Init, CountInv, Only, Knows, Lost, Counts, Alone, InLogin, LoginSteps
<1>8. MeantInv
  BY <1>5 DEF Init, MeantInv, Fresh, Rewrites, RowsAsMeant
<1> QED
  BY <1>2, <1>3, <1>4, <1>5, <1>6, <1>7, <1>8, AccountsAssumption
     DEF IInv, HasPassword, ChangeIsPassword, AdminSafe, AdminHere, FirstStart

LEMMA NextIInv == IInv /\ [Next]_vars => IInv'
<1> SUFFICES ASSUME IInv, [Next]_vars
             PROVE  IInv'
  OBVIOUS
<1> USE DEF IInv
<1>1. TypeOK'
  <2> QED
    BY EnabledType, RequestType, UserType, RowsType, MeantType, StreakType DEF TypeOK
<1>2. HasPassword' /\ ChangeIsPassword'
  BY PasswordStep, ChangeStep
<1>3. CountInv'
  <2>1. ASSUME NEW w \in Requests, NEW u \in Users
        PROVE  Only(w, u)' /\ Knows(w, u)' /\ Lost(w, u)'
    BY OnlyStep, KnowsStep, LostStep DEF CountInv
  <2>2. ASSUME NEW u \in Users
        PROVE  Counts(u)'
    BY CountsStep DEF CountInv
  <2> QED
    BY <2>1, <2>2 DEF CountInv
<1>4. MeantInv'
  <2>1. ASSUME NEW w \in Requests, NEW u \in Users
        PROVE  Fresh(w, u)'
    BY FreshStep DEF MeantInv
  <2>2. ASSUME NEW u \in Users
        PROVE  rows'[u].here /\ meant'[u] # None => MeantBy(rows'[u]) = meant'[u]
    BY MeantStep DEF MeantInv
  <2>3. RowsAsMeant'
    BY <2>2 DEF RowsAsMeant, MeantBy
  <2> QED
    BY <2>1, <2>3 DEF MeantInv
<1>5. FirstStart' \/ (AdminSafe /\ AdminHere)'
  <2>1. CASE FirstStart /\ UNCHANGED vars
    BY <2>1 DEF FirstStart, vars
  <2> QED
    BY <2>1, AdminStep, FirstStep
<1> QED
  BY <1>1, <1>2, <1>3, <1>4, <1>5

LEMMA SpecIInv == Spec => []IInv
  BY InitIInv, NextIInv, PTL DEF Spec

\* Rows, requests and histories keep the values the code gives them; an account
\* that a handler has locked counts no further failure.
THEOREM TypeCorrect == Spec => []TypeOK
  BY SpecIInv, PTL DEF IInv

\* Logins that do not overlap lock an account at its MaxAttempts-th failure in a
\* row, and never before.
THEOREM LockIsExact == Spec => []LocksAfterMax
<1>1. IInv => LocksAfterMax
  BY DEF IInv, CountInv, Counts, LocksAfterMax
<1> QED
  BY <1>1, SpecIInv, PTL

\* Accounts are what was last set for them.
THEOREM AccountsAsMeant == Spec => []RowsAsMeant
  BY SpecIInv, PTL DEF IInv, MeantInv

\* Whatever step leaves authentication enabled leaves the account "admin", and it
\* is an administrator's.
THEOREM AdministratorStays == Spec => AdminStays
<1>1. IInv /\ [Next]_vars => [enabled' => rows'[Admin].here /\ rows'[Admin].admin]_vars
  BY AdminStep, FirstStep DEF IInv, AdminHere
<1> QED
  BY <1>1, SpecIInv, PTL DEF Spec, AdminStays

=============================================================================
