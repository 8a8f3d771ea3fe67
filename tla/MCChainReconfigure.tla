------------------------- MODULE MCChainReconfigure -------------------------
(***************************************************************************)
(* ChainReconfigure for TLC: two commands, two admin nodes, a chain that   *)
(* starts with a local or a replicated segment, or with one whose params   *)
(* cannot be read, and one command line for every way through              *)
(* inner_reconfigure.                                                      *)
(***************************************************************************)
EXTENDS ChainReconfigure, TLC

CONSTANTS c1, c2, a1, a2, OtherLog

MC_Clients == {c1, c2}
MC_Admins == {a1, a2}

Default ==
    [log_id |-> <<LogId>>, provider |-> None, segment_index |-> None, min_version |-> 1,
     replication |-> None, nodeset |-> {}, sequencer |-> None]

\* one command line for every way through inner_reconfigure
CommandLine ==
    <<Default,
      [Default EXCEPT !.provider = "Replicated", !.replication = 2, !.nodeset = {1, 2},
                      !.sequencer = <<1, 1>>],
      [Default EXCEPT !.provider = "Replicated", !.sequencer = <<2, 1>>],
      [Default EXCEPT !.provider = "Local", !.nodeset = {1}],
      [Default EXCEPT !.segment_index = 0, !.min_version = 2],
      [Default EXCEPT !.log_id = <<OtherLog, LogId>>]>>

MC_Options == {CommandLine[i] : i \in DOMAIN CommandLine}

\* The commands are alike: of two assignments that differ by who runs which
\* command line, one is checked.
MC_CommandLines ==
    LET Pairs == {p \in (DOMAIN CommandLine) \X (DOMAIN CommandLine) : p[1] <= p[2]}
    IN  {[c \in MC_Clients |-> CommandLine[IF c = c1 THEN p[1] ELSE p[2]]] : p \in Pairs}

\* the admin nodes are alike
MC_Symmetry == Permutations(MC_Admins)

MC_InitialConfigs ==
    {[kind |-> "Local", params |-> [loglet_id |-> <<LogId, 0>>]],
     [kind |-> "Replicated",
      params |-> [loglet_id |-> <<LogId, 0>>, nodeset |-> {1}, replication |-> 1,
                  sequencer |-> <<1, 1>>]],
     \* params that do not deserialize
     [kind |-> "Replicated", params |-> [loglet_id |-> <<LogId, 0>>]]}

=============================================================================
