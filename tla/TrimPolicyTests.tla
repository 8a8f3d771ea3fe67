--------------------------- MODULE TrimPolicyTests ---------------------------
(***************************************************************************)
(* The unit tests of safe_trim_points (mod tests of state.rs), with the    *)
(* tests' own inputs and expected outputs.  They tie the operators of      *)
(* TrimPolicy to the code: an operator that departs from the function the  *)
(* tests pin down fails here.                                              *)
(***************************************************************************)
EXTENDS TrimPolicy

\* struct ProcessorStatus and its Into<PartitionProcessorStatus>; the run mode
\* plays no part in the policy
ProcessorStatus(applied, persisted, archived) ==
    [last_applied_log_lsn |-> applied, last_persisted_log_lsn |-> persisted,
     last_archived_log_lsn |-> archived]

alive_node(partitions) == Alive(partitions)
suspect_node == Suspect
dead_node == Dead

\* a BTreeMap literal with keys 0 .. Len - 1, written as the sequence of its values
Map0(values) == [k \in 0..(Len(values) - 1) |-> values[k + 1]]
\* a map literal with the keys 1 .. Len, adding the entries of `more`
Nodes(values, more) ==
    [n \in DOMAIN values \cup DOMAIN more |-> IF n \in DOMAIN more THEN more[n] ELSE values[n]]
State(nodes) == [nodes |-> nodes]

no_safe_trim_points ==
    LET n1_partitions == Map0(<<ProcessorStatus(10, None, None)>>)
        cluster_state_1 == State(<<alive_node(n1_partitions)>>)
    IN  safe_trim_points(cluster_state_1, Map0(<<INVALID>>), FALSE) = Empty

safe_trim_points_no_snapshots ==
    LET n1_partitions == Map0(<<ProcessorStatus(10, None, None), ProcessorStatus(10, 5, None),
                                ProcessorStatus(10, 5, None)>>)
        n2_partitions == Map0(<<ProcessorStatus(10, None, None), ProcessorStatus(10, None, None),
                                ProcessorStatus(10, 5, None)>>)
        nodes == <<alive_node(n1_partitions), alive_node(n2_partitions)>>
        current_trim_points == Map0(<<INVALID, INVALID, INVALID>>)
        trimmed(more) == safe_trim_points(State(Nodes(nodes, more)), current_trim_points, FALSE)
    IN  /\ trimmed(Empty) = [log_id \in {2} |-> <<5, 2>>]
        /\ trimmed([n \in {3} |-> dead_node]) = Empty
        /\ trimmed([n \in {3} |-> suspect_node]) = Empty

safe_trim_points_with_snapshots ==
    LET n1_partitions == Map0(<<ProcessorStatus(10, None, None), ProcessorStatus(18, None, None),
                                ProcessorStatus(30, None, 30), ProcessorStatus(40, None, 40)>>)
        n2_partitions == Map0(<<ProcessorStatus(10, None, None), ProcessorStatus(20, None, 10),
                                ProcessorStatus(10, None, None), ProcessorStatus(35, None, None)>>)
        nodes == <<alive_node(n1_partitions), alive_node(n2_partitions)>>
        current_trim_points == Map0(<<INVALID, INVALID, INVALID, 10>>)
        trimmed(more) == safe_trim_points(State(Nodes(nodes, more)), current_trim_points, FALSE)
    IN  /\ trimmed(Empty) = [log_id \in {1} |-> <<10, 1>>]
        /\ trimmed([n \in {3, 4} |-> IF n = 3 THEN suspect_node ELSE dead_node])
              = [log_id \in {1} |-> <<10, 1>>]

-----------------------------------------------------------------------------

\* safe_trim_points returns what the code's own unit tests expect of it: nothing
\* when no LSN is reported, the least persisted LSN without snapshots and
\* nothing once a node is dead or suspect, the highest archived LSN with
\* snapshots whatever the other nodes' state, unless a processor lags behind it.
UnitTestsAgree ==
    /\ no_safe_trim_points
    /\ safe_trim_points_no_snapshots
    /\ safe_trim_points_with_snapshots

\* The tests have no behaviour: TLC evaluates them once, before the run of a
\* module that extends this one.
ASSUME UnitTestsAgree

=============================================================================
