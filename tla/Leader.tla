-------------------------------- MODULE Leader --------------------------------
(***************************************************************************)
(* The control loop of one cluster controller: ClusterControllerState and  *)
(* Leader of crates/admin/src/cluster_controller/service/state.rs, driven  *)
(* by the service loop that owns them.                                     *)
(*                                                                         *)
(* The service waits for the first of: a new observed cluster state        *)
(* (update, then on_observed_cluster_state), a new configuration           *)
(* (reconfigure), and state.run(), whose LeaderEvent it hands to           *)
(* on_leader_event before it waits again.  An error of any of them is      *)
(* logged and the loop goes on.  The handlers are not atomic: the metadata *)
(* is a registry of the whole process that another task updates while one  *)
(* runs, and on_logs_update reads it once for the logs controller and once *)
(* more for the scheduler; no await is needed for the two reads to differ. *)
(*                                                                         *)
(* The logs controller and the scheduler are kept as what they were last   *)
(* given: the versions of the logs and of the partition table, and whether *)
(* they processed the latest observed cluster state.  Time is kept as      *)
(* whether an interval's next tick is due.  Whether this controller is the *)
(* designated leader is an input here; module LeaderElection computes it.  *)
(***************************************************************************)
EXTENDS Integers

CONSTANTS
    MaxVersion,     \* bound: the metadata versions run from 0 to MaxVersion
    None

ASSUME MaxVersion \in Nat

VARIABLES
    state,                      \* ClusterControllerState: Follower or a Leader record
    handler,                    \* the step of on_leader_event the loop is at, or None
    logs_version,               \* Metadata: version of the logs
    partition_table_version,    \* Metadata: version of the partition table
    configuration,              \* the admin options in force
    failed                      \* a component of the leader refused the cluster state
                                \* or the logs since the leader was started

vars == <<state, handler, logs_version, partition_table_version, configuration, failed>>

-----------------------------------------------------------------------------
(* Data *)

Version == 0..MaxVersion
Configuration == [log_trim_interval : {None, "Some"}]
LeaderEvent == {"TrimLogs", "LogsUpdate", "PartitionTableUpdate"}
Interval == {"Due", "Waiting"}      \* the next tick completes now, or after some time
Result == {"Ok", "LogsControllerErr", "SchedulerErr"}

Follower == [kind |-> "Follower"]

LeaderState ==
    [kind : {"Leader"},
     logs_watcher : BOOLEAN, partition_table_watcher : BOOLEAN,     \* has_changed
     find_logs_tail_interval : Interval,
     log_trim_check_interval : Interval \cup {None},
     logs_controller : [logs : Version \cup {None}, partition_table : Version \cup {None},
                        async_operations : BOOLEAN, observed : BOOLEAN],
     scheduler : [logs : Version \cup {None}, observed : BOOLEAN]]

\* A new interval ticks at once; trimming is off without log_trim_interval.
create_log_trim_interval_Option(options) == options.log_trim_interval

create_log_trim_interval(options) ==
    IF options.log_trim_interval = None THEN None ELSE "Due"

-----------------------------------------------------------------------------
(* ClusterControllerState and Leader, as functions of the state they change *)

\* The leader context: new components and new intervals.
leader_context(has_changed) ==
    [kind |-> "Leader",
     logs_watcher |-> has_changed, partition_table_watcher |-> has_changed,
     find_logs_tail_interval |-> "Due",
     log_trim_check_interval |-> create_log_trim_interval(configuration),
     logs_controller |-> [logs |-> None, partition_table |-> None,
                          async_operations |-> FALSE, observed |-> FALSE],
     scheduler |-> [logs |-> None, observed |-> FALSE]]

from_service_NotMarked == leader_context(FALSE)

\* Both watchers are marked changed although nothing has changed since they
\* were made.
from_service == leader_context(TRUE)

\* The arms of update's match; `started` says whether from_service succeeds.
update(s, is_leader, started) ==
    CASE is_leader /\ s = Follower -> IF started THEN from_service ELSE s
      [] ~is_leader /\ s # Follower -> Follower
      [] OTHER -> s

update_fails(s, is_leader, started) == is_leader /\ s = Follower /\ ~started

\* The logs controller first, the scheduler only if that worked.
leader_on_observed_cluster_state(leader, result) ==
    [leader EXCEPT !.logs_controller.observed = result # "LogsControllerErr",
                   !.scheduler.observed = result = "Ok"]

on_observed_cluster_state(s, result) ==
    IF s = Follower THEN s ELSE leader_on_observed_cluster_state(s, result)

leader_reconfigure(leader, options) ==
    [leader EXCEPT !.log_trim_check_interval = create_log_trim_interval(options)]

reconfigure(s, options) ==
    IF s = Follower THEN s ELSE leader_reconfigure(s, options)

-----------------------------------------------------------------------------
(* The service loop at its select: handler = None *)

Selecting == handler = None
Leading == state # Follower

\* A new observed cluster state: update, and if that returns no error,
\* on_observed_cluster_state.
ClusterStateRefreshed(is_leader, started, result) ==
    /\ Selecting
    /\ IF update_fails(state, is_leader, started)
       THEN UNCHANGED <<state, failed>>
       ELSE LET updated == update(state, is_leader, started)
            IN  /\ state' = on_observed_cluster_state(updated, result)
                /\ failed' = /\ updated # Follower
                             /\ (result # "Ok" \/ (state # Follower /\ failed))
    /\ UNCHANGED <<handler, logs_version, partition_table_version, configuration>>

ConfigurationChanged(options) ==
    /\ Selecting
    /\ configuration' = options
    /\ state' = reconfigure(state, options)
    /\ UNCHANGED <<handler, logs_version, partition_table_version, failed>>

(* Leader::run: the arms of its select.  A follower's run never returns. *)

FindLogsTailTick ==
    /\ Selecting /\ Leading
    /\ state.find_logs_tail_interval = "Due"
    /\ state' = [state EXCEPT !.find_logs_tail_interval = "Waiting",
                              !.logs_controller.async_operations = TRUE]
    /\ UNCHANGED <<handler, logs_version, partition_table_version, configuration, failed>>

LogTrimCheckTick ==
    /\ Selecting /\ Leading
    /\ state.log_trim_check_interval = "Due"
    /\ state' = [state EXCEPT !.log_trim_check_interval = "Waiting"]
    /\ handler' = "TrimLogs"
    /\ UNCHANGED <<logs_version, partition_table_version, configuration, failed>>

\* An operation of the logs controller ends.  When it wrote the logs, the
\* leader's own watcher sees the change.  With Ok the select is entered again;
\* with Err, `result?` returns from run and the service, which logs the error,
\* calls run again: the loop is at its select either way, and no component has
\* been given anything.
RunAsyncOperations(result) ==
    /\ Selecting /\ Leading
    /\ state.logs_controller.async_operations
    /\ \/ /\ result = "WroteLogs"
          /\ logs_version < MaxVersion
          /\ logs_version' = logs_version + 1
          /\ state' = [state EXCEPT !.logs_controller.async_operations = FALSE,
                                    !.logs_watcher = TRUE]
       \/ /\ result \in {"Ok", "Err"}
          /\ state' = [state EXCEPT !.logs_controller.async_operations = FALSE]
          /\ UNCHANGED logs_version
    /\ UNCHANGED <<handler, partition_table_version, configuration, failed>>

LogsWatcherChanged_NotSeen ==
    /\ Selecting /\ Leading
    /\ state.logs_watcher
    /\ handler' = "LogsUpdate"
    /\ UNCHANGED <<state, logs_version, partition_table_version, configuration, failed>>

\* changed() returns once for all the changes there were.
LogsWatcherChanged ==
    /\ Selecting /\ Leading
    /\ state.logs_watcher
    /\ state' = [state EXCEPT !.logs_watcher = FALSE]
    /\ handler' = "LogsUpdate"
    /\ UNCHANGED <<logs_version, partition_table_version, configuration, failed>>

PartitionTableWatcherChanged ==
    /\ Selecting /\ Leading
    /\ state.partition_table_watcher
    /\ state' = [state EXCEPT !.partition_table_watcher = FALSE]
    /\ handler' = "PartitionTableUpdate"
    /\ UNCHANGED <<logs_version, partition_table_version, configuration, failed>>

-----------------------------------------------------------------------------
(* on_leader_event: the handlers, step by step *)

\* trim_logs: module TrimPolicy has the round itself; its error is swallowed.
trim_logs ==
    /\ handler = "TrimLogs"
    /\ handler' = None
    /\ UNCHANGED <<state, logs_version, partition_table_version, configuration, failed>>

\* on_logs_update, first half: the logs controller is given the logs as they
\* are now.
on_logs_update(ok) ==
    /\ handler = "LogsUpdate"
    /\ IF ok
       THEN /\ state' = [state EXCEPT !.logs_controller.logs = logs_version]
            /\ handler' = "LogsUpdate.scheduler"
            /\ UNCHANGED failed
       ELSE /\ handler' = None
            /\ failed' = TRUE
            /\ UNCHANGED state
    /\ UNCHANGED <<logs_version, partition_table_version, configuration>>

\* on_logs_update, second half: the scheduler is given the logs as they are
\* by now.
on_logs_update_scheduler(ok) ==
    /\ handler = "LogsUpdate.scheduler"
    /\ handler' = None
    /\ IF ok
       THEN /\ state' = [state EXCEPT !.scheduler.logs = logs_version]
            /\ UNCHANGED failed
       ELSE /\ failed' = TRUE
            /\ UNCHANGED state
    /\ UNCHANGED <<logs_version, partition_table_version, configuration>>

on_partition_table_update ==
    /\ handler = "PartitionTableUpdate"
    /\ handler' = None
    /\ state' = [state EXCEPT !.logs_controller.partition_table = partition_table_version]
    /\ UNCHANGED <<logs_version, partition_table_version, configuration, failed>>

-----------------------------------------------------------------------------
(* The rest of the node: the metadata, the clock, the process *)

Notified(watcher) ==
    IF Leading THEN state' = [state EXCEPT ![watcher] = TRUE] ELSE UNCHANGED state

LogsMetadataUpdated ==
    /\ logs_version < MaxVersion
    /\ logs_version' = logs_version + 1
    /\ Notified("logs_watcher")
    /\ UNCHANGED <<handler, partition_table_version, configuration, failed>>

PartitionTableUpdated ==
    /\ partition_table_version < MaxVersion
    /\ partition_table_version' = partition_table_version + 1
    /\ Notified("partition_table_watcher")
    /\ UNCHANGED <<handler, logs_version, configuration, failed>>

IntervalElapses(interval) ==
    /\ Leading
    /\ state[interval] = "Waiting"
    /\ state' = [state EXCEPT ![interval] = "Due"]
    /\ UNCHANGED <<handler, logs_version, partition_table_version, configuration, failed>>

\* The process stops, wherever the loop is, and starts again as a follower.
Restart ==
    /\ Leading
    /\ state' = Follower
    /\ handler' = None
    /\ failed' = FALSE
    /\ UNCHANGED <<logs_version, partition_table_version, configuration>>

-----------------------------------------------------------------------------

Init ==
    /\ state = Follower
    /\ handler = None
    /\ logs_version = 0
    /\ partition_table_version = 0
    /\ configuration \in Configuration
    /\ failed = FALSE

Run ==
    \/ FindLogsTailTick
    \/ LogTrimCheckTick
    \/ \E result \in {"WroteLogs", "Ok", "Err"} : RunAsyncOperations(result)
    \/ LogsWatcherChanged
    \/ PartitionTableWatcherChanged

OnLeaderEvent ==
    \/ trim_logs
    \/ \E ok \in BOOLEAN : on_logs_update(ok)
    \/ \E ok \in BOOLEAN : on_logs_update_scheduler(ok)
    \/ on_partition_table_update

Environment ==
    \/ LogsMetadataUpdated
    \/ PartitionTableUpdated
    \/ \E interval \in {"find_logs_tail_interval", "log_trim_check_interval"} :
            IntervalElapses(interval)
    \/ Restart

Next ==
    \/ \E is_leader, started \in BOOLEAN, result \in Result :
            ClusterStateRefreshed(is_leader, started, result)
    \/ \E options \in Configuration : ConfigurationChanged(options)
    \/ Run
    \/ OnLeaderEvent
    \/ Environment

Spec == Init /\ [][Next]_vars

\* select! picks at random among the arms that are ready, so an arm that is
\* ready again and again is taken; a handler, once called, runs to its end.
Fairness ==
    /\ SF_vars(LogsWatcherChanged)
    /\ SF_vars(PartitionTableWatcherChanged)
    /\ WF_vars(on_logs_update(TRUE))
    /\ WF_vars(on_logs_update_scheduler(TRUE))
    /\ WF_vars(on_partition_table_update)
    /\ WF_vars(trim_logs)

FairSpec == Spec /\ Fairness

-----------------------------------------------------------------------------
(* Properties *)

TypeOK ==
    /\ state \in {Follower} \cup LeaderState
    /\ handler \in LeaderEvent \cup {"LogsUpdate.scheduler", None}
    /\ logs_version \in Version
    /\ partition_table_version \in Version
    /\ configuration \in Configuration
    /\ failed \in BOOLEAN

\* Nothing to do: the loop waits and neither watcher has a change to report.
Idle == Selecting /\ ~state.logs_watcher /\ ~state.partition_table_watcher

\* Both components work on the metadata and the cluster state as they are.
Synced ==
    /\ state.logs_controller.logs = logs_version
    /\ state.scheduler.logs = logs_version
    /\ state.logs_controller.partition_table = partition_table_version
    /\ state.logs_controller.observed
    /\ state.scheduler.observed

\* A leader that has nothing to do has given its logs controller and its
\* scheduler the current logs and partition table, whatever changed while it
\* was being started or was busy in a handler: from_service marks both watchers
\* changed, run consumes a change before the handler reads the metadata, and a
\* change during the handler marks the watcher again.  (Handlers that return an
\* error are the exception, see HandlerErrorsAreRetried.)
SyncedWhenIdle == (Leading /\ Idle /\ ~failed) => Synced

\* A controller that stays leader gets there: however the timers, the
\* configuration and the cluster state keep the loop busy, the changes of the
\* metadata are handled and the leader is idle and synced again and again.
EventuallySynced == []<>(~Leading \/ failed \/ (Idle /\ Synced))

\* Section 7 of the specification: a transient failure is retried "on the next
\* control-loop tick" and a watch channel's reader never misses "the most
\* recent" value.  on_logs_update returns the error of the logs controller or
\* of the scheduler after run has consumed the watcher's change.
HandlerErrorsAreRetried ==
    (Leading /\ Idle) => /\ state.logs_controller.logs = logs_version
                         /\ state.scheduler.logs = logs_version

=============================================================================
