------------------------------- MODULE LogTrim -------------------------------
(***************************************************************************)
(* Leader::trim_logs of the cluster controller                             *)
(* (crates/admin/src/cluster_controller/service/state.rs), call by call.   *)
(* A round takes the cluster state once, reads the trim point of the log   *)
(* of every reported partition, one call to Bifrost each, runs             *)
(* safe_trim_points on what it read, and trims the logs it names, one call *)
(* each.  Between two calls the refresher publishes new snapshots and the  *)
(* round of another controller that leads goes on: module LeaderElection   *)
(* shows that two controllers can lead at once.                            *)
(*                                                                         *)
(* The cluster and the policy are those of module TrimPolicy.  Bifrost is  *)
(* not in the source: a log is its trim point, "the largest LSN strictly   *)
(* below all retained records" (section 3 of the specification), and a     *)
(* trim removes records and brings none back.                              *)
(***************************************************************************)
EXTENDS TrimPolicy, SequencesExt

CONSTANTS
    Leaders         \* the controllers that lead, each with a round of its own

ASSUME PlainNodeId \subseteq Nat

VARIABLES
    round,          \* round[l]: where trim_logs_inner of l stands, None between rounds
    durable         \* history: the highest LSN of a partition ever reported
                    \* persisted or archived

trim_vars == <<cluster_state, trim_points, snapshots_repository_configured, round, durable>>

-----------------------------------------------------------------------------
(* What a round keeps of its snapshot *)

\* the Vec of get_trim_points: the partitions of every alive node, in the order
\* of the two BTreeMaps; a partition is listed once for each node that runs it
partition_ids(cs) ==
    LET nodes == SetToSortSeq(alive_nodes(cs), <)
    IN  FlattenSeq([i \in DOMAIN nodes |->
            SetToSortSeq(DOMAIN cs.nodes[nodes[i]].partitions, <)])

\* safe_trim_points of the snapshot, for whatever the reads will return
policy(cs) ==
    [current_trim_points \in [{LogId_from(p) : p \in DOMAIN partition_statuses(cs)} -> Lsn] |->
        safe_trim_points(cs, current_trim_points, snapshots_repository_configured)]

GetTrimPoints(safe, ids, read) ==
    [await |-> "get_trim_point", safe_trim_points |-> safe, partition_ids |-> ids,
     trim_points |-> read]

\* the for loop of trim_logs_inner before a trim; Ok(()) when nothing is left
Trim_KeepsEmpty(new_trim_points) ==
    [await |-> "trim", new_trim_points |-> new_trim_points]

Trim(new_trim_points) ==
    IF new_trim_points = Empty THEN None
    ELSE [await |-> "trim", new_trim_points |-> new_trim_points]

\* the for loop of get_trim_points before a read; after the last one the policy
\* runs on what was read
Reading(r) ==
    IF r.partition_ids = <<>> THEN Trim(r.safe_trim_points[r.trim_points]) ELSE r

Awaits(l, call) == round[l] # None /\ round[l].await = call

\* HashMap::insert
insert(map, key, value) ==
    [k \in DOMAIN map \cup {key} |-> IF k = key THEN value ELSE map[k]]

\* Bifrost's trim point of a log after trim(trim_point): the records up to
\* trim_point are removed, and those removed before stay so
trimmed(current, trim_point) == Max({current, trim_point})

-----------------------------------------------------------------------------
(* The round *)

\* trim_logs up to the first await: the snapshot, and the partitions to read
trim_logs_inner(l) ==
    /\ round[l] = None
    /\ round' = [round EXCEPT ![l] = Reading(GetTrimPoints(policy(cluster_state),
                                                partition_ids(cluster_state), Empty))]
    /\ UNCHANGED <<cluster_state, trim_points, snapshots_repository_configured, durable>>

\* bifrost.get_trim_point(log_id) returns
get_trim_point(l) ==
    /\ Awaits(l, "get_trim_point")
    /\ LET log_id == LogId_from(Head(round[l].partition_ids))
       IN  round' = [round EXCEPT ![l] = Reading(GetTrimPoints(@.safe_trim_points,
                        Tail(@.partition_ids), insert(@.trim_points, log_id, trim_points[log_id])))]
    /\ UNCHANGED <<cluster_state, trim_points, snapshots_repository_configured, durable>>

trim_point_Exclusive(entry) == next(entry[1])

\* (trim_point, partition_id) of an entry of new_trim_points
trim_point(entry) == entry[1]

\* the trim points once Bifrost has done the trim l waits for, that of the
\* first log of the map
Trimmed(l) ==
    LET new_trim_points == round[l].new_trim_points
        log_id == Min(DOMAIN new_trim_points)
    IN  [trim_points EXCEPT ![log_id] = trimmed(@, trim_point(new_trim_points[log_id]))]

\* bifrost.admin().trim(log_id, trim_point) returns
trim(l) ==
    /\ Awaits(l, "trim")
    /\ trim_points' = Trimmed(l)
    /\ LET rest == DOMAIN round[l].new_trim_points \ {Min(DOMAIN round[l].new_trim_points)}
       IN  round' = [round EXCEPT ![l] = Trim(Restrict(@.new_trim_points, rest))]
    /\ UNCHANGED <<cluster_state, snapshots_repository_configured, durable>>

\* Either call returns an error: `?` ends the round, trim_logs logs the error.
\* The error of a trim does not say whether Bifrost has done it.
call_fails(l) ==
    /\ round[l] # None
    /\ round' = [round EXCEPT ![l] = None]
    /\ \/ UNCHANGED trim_points
       \/ Awaits(l, "trim") /\ trim_points' = Trimmed(l)
    /\ UNCHANGED <<cluster_state, snapshots_repository_configured, durable>>

-----------------------------------------------------------------------------
(* The cluster *)

Publish ==
    /\ Refresh
    /\ LET statuses == partition_statuses(cluster_state')
           Reported(p) == IF p \notin DOMAIN statuses THEN {}
                          ELSE LsnsOf(statuses[p], "last_persisted_log_lsn")
                                  \cup LsnsOf(statuses[p], "last_archived_log_lsn")
       IN  durable' = [p \in PartitionId |-> Max({durable[p]} \cup Reported(p))]
    /\ UNCHANGED round

-----------------------------------------------------------------------------

TrimInit ==
    /\ Init
    /\ round = [l \in Leaders |-> None]
    /\ durable = [p \in PartitionId |-> INVALID]

Round(l) == get_trim_point(l) \/ trim(l) \/ call_fails(l)

TrimNext ==
    \/ Publish
    \/ \E l \in Leaders : trim_logs_inner(l) \/ Round(l)

TrimSpec == TrimInit /\ [][TrimNext]_trim_vars

\* The trim timer of a leader fires again (log_trim_check_interval), and
\* Bifrost answers every call; nothing says that it answers with an error.
TrimFairness ==
    \A l \in Leaders : /\ WF_trim_vars(trim_logs_inner(l))
                       /\ WF_trim_vars(get_trim_point(l))
                       /\ WF_trim_vars(trim(l))

-----------------------------------------------------------------------------
(* Properties *)

IsRound(r) ==
    \/ r = None
    \/ /\ r.await = "get_trim_point"
       /\ DOMAIN r = {"await", "safe_trim_points", "partition_ids", "trim_points"}
       /\ r.partition_ids \in Seq(PartitionId) \ {<<>>}
       /\ IsMap(r.trim_points, LogId, Lsn)
       /\ \A current \in DOMAIN r.safe_trim_points :
             IsMap(r.safe_trim_points[current], LogId, Lsn \X PartitionId)
    \/ /\ r.await = "trim"
       /\ DOMAIN r = {"await", "new_trim_points"}
       /\ r.new_trim_points # Empty
       /\ IsMap(r.new_trim_points, LogId, Lsn \X PartitionId)

LogTrimTypeOK ==
    /\ TypeOK
    /\ \A l \in Leaders : IsRound(round[l])
    /\ durable \in [PartitionId -> Lsn]

\* No record is trimmed that no processor has ever persisted or archived,
\* however old the snapshot of the round that trims it and whatever happened to
\* the nodes since: safe_trim_points offers persisted and archived LSNs of its
\* snapshot only, and a round never trims further than its snapshot offered.
TrimmedWasDurable ==
    \A p \in PartitionId : trim_points[LogId_from(p)] <= durable[p]

\* A slow applier holds off the trimming of its log for as long as it lags,
\* and no longer (the ArchivedLsn arm of safe_trim_points: "a slow applier may
\* hold off trimming indefinitely"): once Bifrost's calls stop failing, a log
\* does not stay trimmable for ever, whatever rounds were under way, with
\* whatever snapshot, when it became so.  A round that ends with nothing to
\* trim leaves the state a failed call leaves; a step counts as a failure
\* when no call that returns could have taken it.
TrimmableIsTrimmed ==
    LET Fails(l) == call_fails(l) /\ ~(get_trim_point(l) \/ trim(l))
    IN  <>[][\A l \in Leaders : ~Fails(l)]_trim_vars
            => \A p \in PartitionId : []<>~Trimmable(p)

\* Section 4.2 of the specification: "without snapshots, a trimmed record must
\* have been durably persisted on every active processor".  It is stated of
\* the step that trims, against the cluster as it is then.
TrimmedIsPersistedByAll ==
    [][\A log_id \in LogId :
          (/\ trim_points'[log_id] # trim_points[log_id]
           /\ safe_trim_point_mode(cluster_state, snapshots_repository_configured)
                 = "PersistedLsn"
           /\ log_id \in DOMAIN partition_statuses(cluster_state))
          => \A lsn \in LsnsOf(partition_statuses(cluster_state)[log_id],
                               "last_persisted_log_lsn") : trim_points'[log_id] <= lsn]_trim_vars

=============================================================================
