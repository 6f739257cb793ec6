------------------------------ MODULE MCKeyStore ------------------------------
EXTENDS KeyStore, Integers, TLC
CONSTANT MaxMishaps
Symmetry == Permutations(Keys) \cup Permutations(Hosts)
\* Mishaps are never forgotten.  After one that excuses all three properties, or
\* after two, a behaviour is not followed further.
FewMishaps ==
  /\ Cardinality(mishaps) <= MaxMishaps
  /\ mishaps \cap {"raced", "partial"} = {}
=============================================================================
