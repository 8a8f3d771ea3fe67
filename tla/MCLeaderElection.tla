-------------------------- MODULE MCLeaderElection --------------------------
(* LeaderElection for TLC: node 0 has the smallest id and no admin role,   *)
(* nodes 1 and 2 run cluster controllers.                                   *)
EXTENDS LeaderElection

MC_Nodes == 0..2
MC_AdminNodes == 1..2

=============================================================================
