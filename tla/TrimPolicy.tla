------------------------------ MODULE TrimPolicy ------------------------------
(***************************************************************************)
(* The safe-trim-point policy of the cluster controller's leader           *)
(* (crates/admin/src/cluster_controller/service/state.rs): the pure        *)
(* function `safe_trim_points`, the helpers it is built from, and one      *)
(* round of `trim_logs_inner` applying its result to the logs.             *)
(*                                                                         *)
(* The policy reads a ClusterState snapshot.  Of a snapshot it uses only   *)
(* the `nodes` map, of an alive node only its `partitions`, and of a       *)
(* processor status only the three optional LSNs; the other fields         *)
(* (versions, heartbeat times, run modes) are left out.  The code keys the *)
(* per-partition statuses by generational node id; a snapshot holds one    *)
(* state per plain node id, so the plain id is the key here.               *)
(*                                                                         *)
(* This module checks the policy over every snapshot within the bounds.    *)
(* The round is taken in one step here; module LogTrim takes it call by    *)
(* call against a changing cluster.                                        *)
(***************************************************************************)
EXTENDS SequenceNumber, Sequences, FiniteSets, FiniteSetsExt

CONSTANTS
    PlainNodeId,    \* the nodes a snapshot may mention
    PartitionId,    \* the partitions; partition p is stored in log LogId_from(p)
    None            \* Option::None of an LSN a processor has not reported

ASSUME PartitionId \subseteq Nat

VARIABLES
    cluster_state,                      \* the snapshot the refresher last published
    trim_points,                        \* the trim point of every log, as Bifrost holds it
    snapshots_repository_configured     \* Leader field, fixed when the leader is built

vars == <<cluster_state, trim_points, snapshots_repository_configured>>

-----------------------------------------------------------------------------
(* Data *)

Lsn    == SequenceNumbers
LsnOpt == Lsn \cup {None}

\* LogId::from(PartitionId): the same integer, widened
LogId_from(partition_id) == partition_id
LogId == {LogId_from(p) : p \in PartitionId}

PartitionProcessorStatus ==
    [last_applied_log_lsn : LsnOpt, last_persisted_log_lsn : LsnOpt,
     last_archived_log_lsn : LsnOpt]

Dead    == [kind |-> "Dead"]
Suspect == [kind |-> "Suspect"]
Alive(partitions) == [kind |-> "Alive", partitions |-> partitions]

\* f is a map from some of S to T (a BTreeMap<S, T>)
IsMap(f, S, T) == DOMAIN f \subseteq S /\ \A x \in DOMAIN f : f[x] \in T
Empty == [x \in {} |-> INVALID]

IsNodeState(node_state) ==
    \/ node_state \in {Dead, Suspect}
    \/ /\ node_state = Alive(node_state.partitions)
       /\ IsMap(node_state.partitions, PartitionId, PartitionProcessorStatus)

\* Option<Lsn>::unwrap_or(Lsn::INVALID)
unwrap_or_invalid(lsn) == IF lsn = None THEN INVALID ELSE lsn

-----------------------------------------------------------------------------
(* safe_trim_points and its helpers *)

alive_nodes(cs) == {n \in DOMAIN cs.nodes : cs.nodes[n].kind = "Alive"}

suspect_or_dead_nodes(cs) ==
    {n \in DOMAIN cs.nodes : cs.nodes[n].kind \in {"Suspect", "Dead"}}

\* partition -> (node -> status), over the partitions some alive node reports
partition_statuses(cs) ==
    LET reporters(p) == {n \in alive_nodes(cs) : p \in DOMAIN cs.nodes[n].partitions}
    IN  [p \in UNION {DOMAIN cs.nodes[n].partitions : n \in alive_nodes(cs)} |->
            [n \in reporters(p) |-> cs.nodes[n].partitions[p]]]

LsnsOf(processor_status, field) ==
    {unwrap_or_invalid(processor_status[n][field]) : n \in DOMAIN processor_status}

\* partition -> the highest archived LSN reported for it, INVALID when none is
archived_lsns(cs) ==
    LET statuses == partition_statuses(cs)
    IN  [p \in DOMAIN statuses |-> Max(LsnsOf(statuses[p], "last_archived_log_lsn"))]

any_partitions_report_archived_lsn(cs) ==
    LET statuses == partition_statuses(cs)
    IN  \E p \in DOMAIN archived_lsns(cs) \cap DOMAIN statuses : \E n \in DOMAIN statuses[p] :
            LET archived_lsn == statuses[p][n].last_archived_log_lsn
            IN  archived_lsn # None /\ archived_lsn > INVALID

safe_trim_point_mode(cs, snapshots_configured) ==
    IF snapshots_configured \/ any_partitions_report_archived_lsn(cs)
    THEN "ArchivedLsn" ELSE "PersistedLsn"

is_trimming_suspended_AnyMode(mode, cs) == suspect_or_dead_nodes(cs) # {}

\* SafeTrimPointMode::is_trimming_suspended
is_trimming_suspended(mode, cs) ==
    /\ mode = "PersistedLsn"
    /\ suspect_or_dead_nodes(cs) # {}

archived_trim_point_NoApplierGuard(processor_status, current_trim_point) ==
    LET archived_lsn == Max(LsnsOf(processor_status, "last_archived_log_lsn"))
    IN  IF archived_lsn > current_trim_point THEN archived_lsn ELSE None

archived_trim_point_NotStrict(processor_status, current_trim_point) ==
    LET archived_lsn == Max(LsnsOf(processor_status, "last_archived_log_lsn"))
    IN  IF /\ archived_lsn >= current_trim_point
           /\ archived_lsn <= Min(LsnsOf(processor_status, "last_applied_log_lsn"))
        THEN archived_lsn ELSE None

archived_trim_point_StrictApplier(processor_status, current_trim_point) ==
    LET archived_lsn == Max(LsnsOf(processor_status, "last_archived_log_lsn"))
    IN  IF /\ archived_lsn > current_trim_point
           /\ archived_lsn < Min(LsnsOf(processor_status, "last_applied_log_lsn"))
        THEN archived_lsn ELSE None

\* The body of the ArchivedLsn arm's loop: the LSN to trim one log to, or None.
archived_trim_point(processor_status, current_trim_point) ==
    LET min_applied_lsn == Min(LsnsOf(processor_status, "last_applied_log_lsn"))
        archived_lsn    == Max(LsnsOf(processor_status, "last_archived_log_lsn"))
    IN  IF archived_lsn > current_trim_point /\ archived_lsn <= min_applied_lsn
        THEN archived_lsn ELSE None

persisted_trim_point_Max(processor_status, current_trim_point) ==
    LET max_persisted_lsn == Max(LsnsOf(processor_status, "last_persisted_log_lsn"))
    IN  IF max_persisted_lsn > current_trim_point THEN max_persisted_lsn ELSE None

\* The body of the PersistedLsn arm's loop.
persisted_trim_point(processor_status, current_trim_point) ==
    LET min_persisted_lsn == Min(LsnsOf(processor_status, "last_persisted_log_lsn"))
    IN  IF min_persisted_lsn > current_trim_point THEN min_persisted_lsn ELSE None

\* log -> <<new trim point, partition>>, for the logs that need trimming only
safe_trim_points(cs, current_trim_points, snapshots_configured) ==
    LET mode     == safe_trim_point_mode(cs, snapshots_configured)
        statuses == partition_statuses(cs)
        current(p) == IF LogId_from(p) \in DOMAIN current_trim_points
                      THEN current_trim_points[LogId_from(p)] ELSE INVALID
        trim_point(p) == IF mode = "ArchivedLsn"
                         THEN archived_trim_point(statuses[p], current(p))
                         ELSE persisted_trim_point(statuses[p], current(p))
        to_trim == IF is_trimming_suspended(mode, cs) THEN {}
                   ELSE {p \in DOMAIN statuses : trim_point(p) # None}
    IN  [log_id \in {LogId_from(p) : p \in to_trim} |-> <<trim_point(log_id), log_id>>]

\* get_trim_points: the current trim point of the log of every reported partition
get_trim_points(cs, bifrost_trim_points) ==
    [log_id \in {LogId_from(p) : p \in DOMAIN partition_statuses(cs)} |->
        bifrost_trim_points[log_id]]

-----------------------------------------------------------------------------
(* The snapshot the leader reads.  The refresher (not part of this         *)
(* repository's sources) publishes a new snapshot after each round of      *)
(* heartbeats; between two reads of the leader any number of them may have *)
(* been published, so a step here changes one thing the snapshot says.     *)

SetNode(n, node_state) ==
    cluster_state' = [cluster_state EXCEPT !.nodes =
        [m \in DOMAIN @ \cup {n} |-> IF m = n THEN node_state ELSE @[m]]]

Report(n, p, status) ==
    SetNode(n, Alive([q \in DOMAIN cluster_state.nodes[n].partitions \cup {p} |->
        IF q = p THEN status ELSE cluster_state.nodes[n].partitions[q]]))

Reports(n) == cluster_state.nodes[n].partitions

\* A node answers the refresher for the first time, or again after a restart:
\* it is alive and runs no processor yet.
NodeAlive(n) ==
    /\ n \notin alive_nodes(cluster_state)
    /\ SetNode(n, Alive(Empty))
    /\ UNCHANGED <<trim_points, snapshots_repository_configured>>

\* A node stops answering: the snapshot lists it as suspect, then as dead.
NodeSuspectOrDead(n) ==
    /\ n \in DOMAIN cluster_state.nodes
    /\ \/ cluster_state.nodes[n].kind = "Alive"   /\ SetNode(n, Suspect)
       \/ cluster_state.nodes[n].kind # "Dead"    /\ SetNode(n, Dead)
    /\ UNCHANGED <<trim_points, snapshots_repository_configured>>

\* A processor of partition p starts on n; it has no LSN to report yet.
ProcessorStarts(n, p) ==
    /\ n \in alive_nodes(cluster_state)
    /\ p \notin DOMAIN Reports(n)
    /\ Report(n, p, [last_applied_log_lsn |-> None, last_persisted_log_lsn |-> None,
                     last_archived_log_lsn |-> None])
    /\ UNCHANGED <<trim_points, snapshots_repository_configured>>

\* A processor reports progress: it has applied one more record, or has
\* persisted or archived one more of the records it has applied.
ProcessorAdvances(n, p, field) ==
    /\ n \in alive_nodes(cluster_state)
    /\ p \in DOMAIN Reports(n)
    /\ LET reached == unwrap_or_invalid(Reports(n)[p][field])
       IN  /\ reached < MAX
           /\ field # "last_applied_log_lsn" =>
                 reached < unwrap_or_invalid(Reports(n)[p].last_applied_log_lsn)
           /\ Report(n, p, [Reports(n)[p] EXCEPT ![field] = reached + 1])
    /\ UNCHANGED <<trim_points, snapshots_repository_configured>>

-----------------------------------------------------------------------------
(* trim_logs / trim_logs_inner, one round in one step.  The loop trims the *)
(* logs in the order of the BTreeMap, ascending log id, and `?` leaves it  *)
(* at the first trim that fails: the logs below `failed_at` are trimmed.   *)
(* An error of get_trim_points is the round that trims nothing.  trim_logs *)
(* logs the error and returns.                                             *)

TrimLogs_OnlyTrimmed ==
    LET new_trim_points == safe_trim_points(cluster_state,
            get_trim_points(cluster_state, trim_points), snapshots_repository_configured)
    IN  /\ new_trim_points # Empty
        /\ trim_points' = [log_id \in DOMAIN new_trim_points |-> new_trim_points[log_id][1]]
        /\ UNCHANGED <<cluster_state, snapshots_repository_configured>>

TrimLogs ==
    LET current_trim_points == get_trim_points(cluster_state, trim_points)
        new_trim_points == safe_trim_points(cluster_state, current_trim_points,
                                            snapshots_repository_configured)
    IN  /\ new_trim_points # Empty
        /\ \E failed_at \in DOMAIN new_trim_points \cup {Max(LogId) + 1} :
              trim_points' = [log_id \in LogId |->
                  IF log_id \in DOMAIN new_trim_points /\ log_id < failed_at
                  THEN new_trim_points[log_id][1] ELSE trim_points[log_id]]
        /\ UNCHANGED <<cluster_state, snapshots_repository_configured>>

-----------------------------------------------------------------------------

Init ==
    /\ cluster_state = [nodes |-> Empty]
    /\ trim_points = [log_id \in LogId |-> INVALID]
    /\ snapshots_repository_configured \in BOOLEAN

\* the refresher publishes a snapshot that differs in one thing
Refresh ==
    \/ \E n \in PlainNodeId : NodeAlive(n)
    \/ \E n \in PlainNodeId : NodeSuspectOrDead(n)
    \/ \E n \in PlainNodeId, p \in PartitionId : ProcessorStarts(n, p)
    \/ \E n \in PlainNodeId, p \in PartitionId :
          \E field \in {"last_applied_log_lsn", "last_persisted_log_lsn",
                        "last_archived_log_lsn"} : ProcessorAdvances(n, p, field)

Next == Refresh \/ TrimLogs

Spec == Init /\ [][Next]_vars

-----------------------------------------------------------------------------
(* Properties *)

TypeOK ==
    /\ DOMAIN cluster_state = {"nodes"}
    /\ DOMAIN cluster_state.nodes \subseteq PlainNodeId
    /\ \A n \in DOMAIN cluster_state.nodes : IsNodeState(cluster_state.nodes[n])
    /\ trim_points \in [LogId -> Lsn]
    /\ snapshots_repository_configured \in BOOLEAN

\* What the leader would trim now.
Offered ==
    safe_trim_points(cluster_state, get_trim_points(cluster_state, trim_points),
                     snapshots_repository_configured)

ReportedBy(p) == partition_statuses(cluster_state)[p]

\* Section 4.2 of the specification, steps 2 to 5: what the cluster, as it is
\* now, lets a leader trim of the log of p.  With snapshots (a repository, or
\* an archived LSN reported for any partition) it is the highest archived LSN
\* of p, once every alive processor of p has applied it; without, the least
\* persisted LSN of p while no node is suspect or dead.
Trimmable(p) ==
    LET statuses == partition_statuses(cluster_state)
        reached(q, field) == LsnsOf(statuses[q], field)
        archived_lsn(q) == Max(reached(q, "last_archived_log_lsn"))
        current == trim_points[LogId_from(p)]
    IN  /\ p \in DOMAIN statuses
        /\ IF \/ snapshots_repository_configured
              \/ \E q \in DOMAIN statuses : archived_lsn(q) > INVALID
           THEN /\ archived_lsn(p) > current
                /\ archived_lsn(p) <= Min(reached(p, "last_applied_log_lsn"))
           ELSE /\ suspect_or_dead_nodes(cluster_state) = {}
                /\ Min(reached(p, "last_persisted_log_lsn")) > current

\* safe_trim_points offers the logs that Section 4.2 makes trimmable, all of
\* them and no other, in every cluster state: the policy is as bold as it is
\* meant to be, and a guard that is too strict (a suspension that outlives the
\* PersistedLsn mode, a slow-applier guard that is off by one) leaves a log
\* untrimmed that no safety property misses.
OffersWhatIsTrimmable ==
    DOMAIN Offered = {LogId_from(p) : p \in {q \in PartitionId : Trimmable(q)}}

\* Without snapshots (no repository configured, no processor reporting an
\* archived LSN) a record may be trimmed only when every known node has it on
\* disk: safe_trim_points offers nothing while any node is dead or suspect, and
\* never more than the least persisted LSN of the nodes reporting the partition.
PersistedModeSafe ==
    (/\ ~snapshots_repository_configured
     /\ \A n \in alive_nodes(cluster_state) : \A p \in DOMAIN Reports(n) :
           unwrap_or_invalid(Reports(n)[p].last_archived_log_lsn) = INVALID)
    => /\ suspect_or_dead_nodes(cluster_state) # {} => Offered = Empty
       /\ \A log_id \in DOMAIN Offered : \A n \in DOMAIN ReportedBy(log_id) :
             Offered[log_id][1] <= unwrap_or_invalid(ReportedBy(log_id)[n].last_persisted_log_lsn)

\* With snapshots, safe_trim_points never offers to trim a record that some
\* alive processor of the partition has yet to apply, and never one that no
\* reported snapshot covers: whatever the mode, a trim point above the least
\* persisted LSN is at most the highest archived LSN.
ArchivedModeSafe ==
    \A log_id \in DOMAIN Offered :
        LET lsn == Offered[log_id][1]
            ps  == ReportedBy(log_id)
        IN  /\ \A n \in DOMAIN ps : lsn <= unwrap_or_invalid(ps[n].last_applied_log_lsn)
            /\ \/ \A n \in DOMAIN ps : lsn <= unwrap_or_invalid(ps[n].last_persisted_log_lsn)
               \/ \E n \in DOMAIN ps : lsn <= unwrap_or_invalid(ps[n].last_archived_log_lsn)

\* A round of trim_logs_inner settles the logs it trims: a log it has just
\* trimmed is not offered again for the same snapshot, and no trim point ever
\* moves back.  (safe_trim_points offers only LSNs strictly above the current
\* trim point, whether or not the round's later trims fail.)
TrimRoundSettles ==
    [][\A log_id \in LogId :
          /\ trim_points'[log_id] >= trim_points[log_id]
          /\ trim_points'[log_id] # trim_points[log_id] => log_id \notin DOMAIN Offered']_vars

\* The comment above safe_trim_points: "The presence of any dead or suspect
\* nodes in the cluster state struct will prevent logs from being trimmed if
\* archived LSN is *not* reported for all known partitions."
DeadNodesBlockUnlessAllArchived ==
    (/\ suspect_or_dead_nodes(cluster_state) # {}
     /\ \E p \in DOMAIN archived_lsns(cluster_state) : archived_lsns(cluster_state)[p] = INVALID)
    => Offered = Empty

=============================================================================
