------------------------------ MODULE MCLogTrim ------------------------------
(* LogTrim for TLC: two leaders, two nodes, one partition, LSNs up to 2,   *)
(* after the model reproduced the unit tests of safe_trim_points.  The     *)
(* leaders run without a snapshot repository: they trim in the             *)
(* PersistedLsn mode until a processor reports an archived LSN, and in the *)
(* ArchivedLsn mode from then on.                                          *)
EXTENDS LogTrim, TrimPolicyTests

CONSTANTS l1, l2

MC_Leaders == {l1, l2}
MC_PlainNodeId == {1, 2}
MC_PartitionId == {0}

MC_Init == TrimInit /\ ~snapshots_repository_configured
MC_Spec == MC_Init /\ [][TrimNext]_trim_vars /\ TrimFairness

=============================================================================
