------------------------------ MODULE MCMemory ------------------------------
(* Instances of Memory for TLC.                                            *)
EXTENDS Memory, TLC

CONSTANTS f1, f2, likes, web, w1, w2, MaxClock

Turn(a, p, r, h) == [asked |-> a, preferred |-> p, result |-> r, host |-> h]

\* A result on the host, alone or in a turn that asks to remember it, and a
\* preference, stated or asked to be remembered.
MCTurns ==
  {Turn({}, {}, {f}, web) : f \in {f1, f2}}
    \cup {Turn({f}, {}, {f}, web) : f \in {f1, f2}}
    \cup {Turn({likes}, {}, {}, NoHost), Turn({}, {likes}, {}, NoHost)}

Touched(w) ==
  IF work[w] = Idle THEN {}
  ELSE IF work[w].at = "recalled" THEN DOMAIN work[w].seen
  ELSE {Head(work[w].todo).key}

\* The clock, how often a row was used and how far the table overflows are
\* bounded; two threads are busy at once only with the same row, since what
\* they do to two rows commutes, and that row is a stated preference.
Bounded ==
  /\ clock <= MaxClock
  /\ \A k \in DOMAIN rows : rows[k].count <= UsedOften
  /\ Cardinality(DOMAIN rows) <= MaxRecords + 1
  /\ work[w1] # Idle /\ work[w2] # Idle => 
       Touched(w1) \cap Touched(w2) = {Preference(likes, NoHost).key}

Symmetry == Permutations({w1, w2}) \cup Permutations({f1, f2})
=============================================================================
