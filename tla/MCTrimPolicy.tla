---------------------------- MODULE MCTrimPolicy ----------------------------
(* TrimPolicy for TLC: two nodes, two partitions, LSNs up to 2. *)
EXTENDS TrimPolicy, TLC

CONSTANTS n1, n2

MC_PlainNodeId == {n1, n2}
MC_Symmetry == Permutations(MC_PlainNodeId)
MC_PartitionId == {0, 1}

=============================================================================
