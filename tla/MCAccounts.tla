----------------------------- MODULE MCAccounts -----------------------------
EXTENDS Accounts, FiniteSets, TLC
Symmetry == Permutations(Requests) \cup Permutations(Passwords)

Touched(u) ==
  \/ rows[u].failed > 0 \/ rows[u].lock # "none" \/ streak[u] = -1
  \/ \E w \in Requests : InLogin(w, u)
Changed(u) == rows[u].here /\ meant[u] # [password |-> rows[Admin].password, admin |-> u = Admin, active |-> TRUE]
Columns(r) == {r.new} \cup {r.admin} \cup {r.active}

\* Accounts have nothing to do with each other but for the rights of their
\* administrators, and neither have the columns of an update: behaviours in which
\* the administrator fails to log in, two accounts have been changed, changes of
\* one have overlapped, or an update sets more than one column, are not followed
\* further.
OneAtATime ==
  /\ ~Touched(Admin)
  /\ ~(Changed(Admin) /\ \E u \in Users \ {Admin} : Touched(u) \/ Changed(u))
  /\ \A u \in Users : rows[u].here => meant[u] # None
  /\ \A w \in Requests : request[w].at = "update" =>
       Cardinality(Columns(request[w]) \ {None, "keep"}) <= 1
=============================================================================
