------------------------------ MODULE MCLoglet ------------------------------
(* Loglet for TLC: one reader, four payloads in batches of at most two. *)
EXTENDS Loglet

CONSTANTS r1

MC_Readers == {r1}

=============================================================================
