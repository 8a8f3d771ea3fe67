------------------------- MODULE MCTrimPolicyComment -------------------------
(* The model of MCTrimPolicy, held against the unit tests of the code      *)
(* before it is held against the comment on safe_trim_points.              *)
EXTENDS MCTrimPolicy, TrimPolicyTests

=============================================================================
