----------------------------- MODULE MCChatRuns -----------------------------
(* ChatRuns for TLC: run and approval ids are interchangeable uuids.       *)
EXTENDS ChatRuns, TLC

Symmetry == Permutations(Runs) \cup Permutations(Approvals)

=============================================================================
