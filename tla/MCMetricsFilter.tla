--------------------------- MODULE MCMetricsFilter ---------------------------
(* MetricsFilter for TLC: every text of up to six lines. *)
EXTENDS MetricsFilter

MC_MaxLines == 6

=============================================================================
