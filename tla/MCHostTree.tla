---------------------------- MODULE MCHostTree ----------------------------
(* HostTree for TLC: host ids are interchangeable uuids.                   *)
EXTENDS HostTree, TLC

Symmetry == Permutations(Systems)

=============================================================================
