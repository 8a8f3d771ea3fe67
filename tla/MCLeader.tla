------------------------------ MODULE MCLeader ------------------------------
(* Leader for TLC: the logs and the partition table change three times each. *)
EXTENDS Leader

MC_MaxVersion == 3

=============================================================================
