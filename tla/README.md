# TLA+ models of the restate cluster controller

This directory holds TLA+ specifications of the control code in this
repository, the TLC configurations that check them, and `PROJECT.json`, which
lists every run, maps every definition to the source lines it models and names
the hazards the models are aimed at. The models are written from the source
under `src/`; where the source calls code that is not in this repository
(the service loop, the logs controller, the scheduler, the cluster state
refresher, the handler of `SealAndExtendChain`, the metadata store) they follow `spec.md` and say so in `PROJECT.json`
(`spec_modelled`).

Run a check with `tlc -workers 2 -config <cfg> <module>`.

## 1. Inventory

| Part | Source | State | Operations | Talks to |
|---|---|---|---|---|
| Sequence numbers | `crates/bifrost/src/loglet/mod.rs` 49-71 | a `u64` | `next`, `prev`, `+`, all saturating | everything that holds an LSN or an offset |
| Loglet contract (C1) | `crates/bifrost/src/loglet/mod.rs` 73-191 | records, tail, seal flag, trim point (by contract; no implementation in the source) | `append`, `append_batch`, `find_tail`, `seal`, `trim`, `get_trim_point`, `read`, `read_opt`, read stream | the trim round, chain reconfiguration |
| Trim policy (C2) | `state.rs` 351-519 | none (pure) | `safe_trim_points`, `SafeTrimPointMode::is_trimming_suspended` | reads a `ClusterState` snapshot and the trim points |
| Trim round | `state.rs` 286-349 | the snapshot, the trim points read so far and the trims still to issue, while a round lasts; the trim points of the logs (in bifrost) | `trim_logs`, `trim_logs_inner`, `get_trim_points` | trim policy, bifrost, cluster state watcher, the round of another leader |
| Leader state machine (C6) | `state.rs` 41-127 | `Follower` or `Leader(context)` | `update`, and the dispatch of `run`, `on_leader_event`, `on_observed_cluster_state`, `reconfigure` | observed cluster state, nodes configuration |
| Control loop (C7) | `state.rs` 129-292, 521-531 | two metadata watchers, two intervals, logs controller, scheduler, snapshot flag | `from_service`, `run` (five select arms), `on_leader_event`, `on_logs_update`, `on_partition_table_update`, `on_observed_cluster_state`, `reconfigure` | metadata, logs controller, scheduler, trim round |
| Observed state aggregator (C3), logs controller (C4), scheduler (C5), service loop | not in the source | | | called by the control loop |
| Chain reconfiguration client (C8) | `tools/restatectl/src/commands/log/reconfigure.rs` | its copy of the logs, the log ids left, the nodes not yet tried | `reconfigure`, `inner_reconfigure`, `replicated_loglet_params` | logs metadata, the `SealAndExtendChain` handler of an admin node |
| `SealAndExtendChain` handler | not in the source (section 4.8, step 5, and the message of section 6) | per call: the request, the logs it read, the response it built | read, seal the tail and compare-and-swap the chain, or answer without a sealed segment | metadata store, loglets, restatectl |
| Metadata store client | `crates/metadata-store/src/local/grpc/client.rs` | none (a connection) | `get`, `get_version`, `put`, `delete`, status to error | the versioned metadata store |
| Metadata store | not in the source (section 6) | a versioned value per key | serve `get`, `get_version`, `put`, `delete` under a precondition | its clients |
| Service metrics filter | `crates/admin/src/rest_api/service_metrics.rs` | `MetricGroup` while one text is filtered | `on_next_line`, `on_group_end`, `filter_metrics` | none |
| Outbox table test | `crates/partition-store/tests/outbox_table_test/mod.rs` | an outbox of one partition | add, get next, truncate | partition store |

What makes the code hard, and what the models are aimed at (`hazards` in
`PROJECT.json` has each with its line):

* the trim policy decides from a snapshot what may be deleted for good, with
  a mode switch, a suspension rule and two comparisons per arm that must not
  be off by one;
* every controller elects by itself from a view of its own: views differ
  while nodes crash, restart under a new generation and heartbeats are lost;
* the control loop is a select over watchers and timers whose handlers are not
  atomic: metadata changes while a handler runs, a handler can fail half way,
  and a new leader must not miss the change that came while it was built;
* a trim round acts, one call at a time, on a snapshot and on trim points
  that age while it runs, next to the round of another leader;
* clients retry against metadata that moves (chain reconfiguration, metadata
  store).

## 2. Modules

| Module | Models | Checked by |
|---|---|---|
| `SequenceNumber` | the LSN and offset algebra; `MAX` is a constant standing for `u64::MAX` | used by `TrimPolicy` and `Loglet` |
| `Loglet` | the contract of trait `LogletBase` and of `LogletReadStream` | `MCLoglet.cfg`, `MCLogletEmpty.cfg` |
| `TrimPolicy` | `safe_trim_points`, `get_trim_points`, and `trim_logs` as one round | `MCTrimPolicy.cfg`, `MCTrimPolicyComment.cfg` |
| `TrimPolicyTests` | the three unit tests of `safe_trim_points`, with their inputs and expected outputs, as an assumption TLC evaluates | `MCLogTrim.cfg`, `MCTrimPolicyComment.cfg` |
| `LogTrim` | `trim_logs` call by call, for several leaders, over the cluster of `TrimPolicy` | `MCLogTrim.cfg`, `MCLogTrimStale.cfg` |
| `LeaderElection` | `ClusterControllerState::update` on several nodes | `MCLeaderElection.cfg`, `MCLeaderElectionUnique.cfg` |
| `Leader` | the control loop of one controller, with its leader context | `MCLeader.cfg`, `MCLeaderErrors.cfg` |
| `MetricsFilter` | `filter_metrics` and the `MetricGroup` state machine | `MCMetricsFilter.cfg`, `MCMetricsFilterLeading.cfg` |
| `MetadataStore` | `LocalMetadataStoreClient` and the versioned store behind it | `MCMetadataStore.cfg`, and as part of `ChainReconfigure` |
| `VirtualLog` | what a log promises whatever its chain looks like (the abstract specification) | implemented by `ChainReconfigure` |
| `ChainReconfigure` | restatectl `reconfigure`, the admin nodes' handler, the store (an instance of `MetadataStore`) and the loglets of the segments | `MCChainReconfigure.cfg`, `MCChainLogletId.cfg` |
| `MCLoglet`, `MCMetricsFilter`, `MCTrimPolicy`, `MCTrimPolicyComment`, `MCLogTrim`, `MCLeaderElection`, `MCLeader`, `MCMetadataStore`, `MCChainReconfigure` | the constants of the runs | |

### Loglet

The source holds the trait and no provider, so the module is the loglet the
doc comments describe, with every freedom they leave. The trait says what a
call returns. That accepted appends wait in a buffer and that a batch becomes
durable in one step (`Durable`) is the module's reading of the rules at lines
75-80, and `Committed` has its guard from the doc comment of `seal` (lines
162-166); the figures of the doc comment are not a source of any definition.
That a loglet starts empty is section 4.1 of the specification. `log` is the sequence of
durable records and the tail is `Len(log) + 1`; trimmed records stay in `log`
and `trim_point` decides what can be read. A payload is the running number of
its append, which makes the order of the calls visible in the log. An
`append` or `append_batch` puts a batch into `buffer` ("loglets are allowed to
buffer writes internally"); `Committed` makes the oldest batch durable as a
whole and `Refused` answers it with `AppendError::Sealed`. `seal` sets
`sealed`; the first `find_tail` after it records `sealed_tail`. Between the two
a buffered append may still commit (appends "SHOULD NOT succeed" then), after
the second none may ("MUST NOT"). `trimmed(t)` is the trim point after
`trim(t)`: an offset at or beyond the tail counts as `tail - 1` (lines
152-160), and a `trim` at or below the trim point changes nothing. The doc
comment of `trim` does not say the second; it follows from the one of
`get_trim_point` (lines 147-150), the slot before the first readable record:
`trim` removes records and brings none back, so the first readable record
never moves down. A read stream has its first offset,
its read pointer and its last offset; `poll_next` yields `read_opt` of the
pointer, which is the next available record when the pointer was trimmed away.
`delivered` is history: what each stream has yielded. Operations that return
an `OperationError` change nothing and are not steps.

### TrimPolicy

The policy is a set of operators with the names of the code's locals:
`partition_statuses`, `archived_lsns`, `suspect_or_dead_nodes`,
`any_partitions_report_archived_lsn`, `safe_trim_point_mode`,
`is_trimming_suspended`, then one operator per arm (`archived_trim_point`,
`persisted_trim_point`) that returns the new trim point of a log or `None`, and
`safe_trim_points`, which maps every log that needs action to the pair the code
returns. A `ClusterState` is the record `[nodes |-> ...]`; a node is `Dead`,
`Suspect` or `Alive(partitions)`; an optional LSN is an LSN or `None`.

The state machine around the policy exists to reach every snapshot: nodes come
up and go suspect or dead, processors start on a node with no LSN reported,
and their applied, persisted and archived LSNs move one at a time (persisted
and archived never ahead of applied, data model invariants 5 and 6). `TrimLogs`
is the leader's round: it reads the trim points of the reported partitions,
applies the policy and trims; since the code returns at the first trim that
fails, the round trims any prefix of the offered logs.

### LogTrim

`LogTrim` extends `TrimPolicy` and takes the round apart at its awaits.
`round[l]` is `None` between two rounds of leader `l`, and otherwise says which
call the round waits for:

| `round[l]` | Code | Fields |
|---|---|---|
| `await = "get_trim_point"` | the loop of `get_trim_points` (342-346) | `partition_ids`, the rest of the `Vec`; `trim_points`, the `HashMap` read so far; `safe_trim_points`, the policy of the snapshot |
| `await = "trim"` | the loop of `trim_logs_inner` (313-320) | `new_trim_points`, the entries still to trim |

`trim_logs_inner(l)` takes the snapshot (line 300) and lists the partitions of
every alive node, node by node, so a partition that runs on two nodes is read
twice and the later read wins (`insert`). `get_trim_point(l)` is one read;
after the last one the policy runs on what was read and the round goes on to
trim, or ends when nothing is offered. `trim(l)` trims the first log of the
map; `call_fails(l)` is either call returning an error, which ends the round
(`?`, and `trim_logs` only logs it). Of the snapshot a round keeps what it
still uses: `safe_trim_points` as a function of the trim points the reads may
return (`policy`), which is the snapshot as far as the rest of the round can
tell. A `trim` that fails may have been done all the same: `call_fails(l)` at
a `trim` leaves the trim point or moves it as `trim(l)` would.

Bifrost is not in the source. It is the variable `trim_points`, and `trimmed`
is what the model takes `Bifrost::trim` to do: the trim point of a log is "the
largest LSN strictly below all retained records" (section 3 of the
specification), and a trim deletes records, so a trim below the trim point
changes nothing. No property of the run checks that a trim point does not move
back: in this module it would check the assumption.

`Publish` is a step of the cluster of `TrimPolicy`; it also records in
`durable`, a history variable, the highest LSN any processor of a partition
has ever reported persisted or archived. Node ids are numbers, for the order
of the `BTreeMap`.

### LeaderElection

`generation[n]` and `running[n]` are the truth about a node, `observed[c]` is
what controller `c` last saw of every node (the generation it saw alive, or
`None`), `nodes_config[c]` is the nodes configuration of `c`'s process, which
is what line 52 reads, and `state[c]` is `"Follower"` or `"Leader"`.
`maybe_leader` and `is_leader` are lines 51-71, over a nodes configuration and
a view; `update(c)` has one disjunct per arm of the match. A heartbeat
(`Observes`) changes one node in one controller's view and runs `update` in the
same step, as the service does for every snapshot the refresher publishes;
views that change node by node include every snapshot a refresher can publish,
and some it would publish in one piece. The nodes configuration of a
controller lags: a restart changes the true generation and that of the
restarted node's own process, and every other controller learns it at one of
its later heartbeats or not yet. Only `update` reads the copy, so a copy that
catches up just before an `update` stands for one that caught up at any time
since the `update` before.

### Leader

`state` is `Follower` or a record with the fields of `struct Leader`: the two
watchers as their changed flag, the two intervals as `"Due"` or `"Waiting"`
(`None` for a disabled trim interval), and of the logs controller and the
scheduler the versions of the metadata they were last given. `handler` is the
step of `on_leader_event` the loop is at, `None` while the service is at its
select. The arms of `Leader::run` are the actions `FindLogsTailTick`,
`LogTrimCheckTick`, `RunAsyncOperations`, `LogsWatcherChanged` and
`PartitionTableWatcherChanged`. `RunAsyncOperations` has the three outcomes of
the logs controller's operation: it wrote new logs, it ended without, or it
ended with an error, which `result?` at line 234 returns from `run`; the
operation is over either way, and the caller of `run` keeps the leader.
`on_logs_update` is two steps although no await stands between its two reads
of the logs (lines 265 and 269): the metadata is a registry of the process
that another task updates while this one runs (section 5 of the
specification), so the two reads can differ. The metadata, the clock and
restarts of the process are the environment. `failed` records that a component
of the leader refused the cluster state or the logs since the leader was
started: the properties of the passing run speak of leaders whose components
did not.

### MetricsFilter

`input` is the Prometheus text as its lines, each one of five texts: a
`# TYPE` line of a metric with the retained prefix, one of another metric, one
without a name (fewer than three parts), a sample, and the empty line. These
are the cases `starts_with("# TYPE ")`, `parts.len() >= 3`, the prefix test and
`trim().is_empty()` tell apart. `position` counts the lines the loop has
taken, `state` is the `MetricGroup`, `result` the lines of the output. The
three branches of the loop's body are the actions `TypeLine`, `BlankLine` and
`OtherLine`. `Filtered` is the reference: the groups of the text, the wanted
ones among them, joined by one empty line.

### MetadataStore

`kv[k]` is the versioned value under a key, `rpc[c]` the call of caller `c`:
its request, the status it ended with (`Pending` while on its way), the
payload of the response, and `applied`, a history field that records whether
the store did the write. `get`, `get_version`, `put` and `delete` start a
call; `Serve` is the store taking it in one step (the precondition is
tested, the write done, the answer built); `ServeMalformed` is a `GetResponse`
that `try_into` refuses; `Fails` is the transport ending the call with a
status of its own, before the store served it or after, which is how a reply
gets lost. `Returned(c)` is the `Result` the method returns: `get_result`,
`get_version_result` and `write_result` are the `map_err` lines of the four
methods over `map_status_to_read_error` and `map_status_to_write_error`.

### VirtualLog and ChainReconfigure

`VirtualLog` is two variables, the records of a log by LSN and the chain as
index and base LSN of its segments, and two actions: a record is appended at
the tail, and a segment is added at the end of the chain with the next index
and the tail as its base.

`ChainReconfigure` is the system that is to behave so:

| Variable | Stands for |
|---|---|
| `kv`, `rpc` | the metadata store and the handlers' calls (`Store == INSTANCE MetadataStore`); the logs are the value under `bifrost_config`, a chain of `{index, base_lsn, config{kind, params}}` |
| `loglets[i]` | records and seal of the loglet of segment `i` (what reconfiguration needs of `Loglet`); a provider yields a loglet for `(log_id, segment_index, params)` (section 6), so two segments never share one, whatever their params say |
| `appended` | how many records were appended; the n-th carries the payload n |
| `opts[c]` | the `ReconfigureOpts` of command `c` |
| `ctl[c]` | the command: `phase`, its copy of the `logs` (line 63), the log ids `todo`, the `request`, the admin nodes `untried`, the node it waits for, and `reconfigured`, how many logs it reported as reconfigured |
| `srv[h]` | for every pair `h` of an admin node and a command: the request the node is handling for the command, whether it is reading or writing, and the response it built; an admin node serves the calls of several commands at once |
| `faults` | calls that timed out, found no one, or failed at the store |

The command is `get_logs` (or `get_logs_fails`), then for every log id
`inner_reconfigure`, which builds the request with the operators `chain_of`,
`tail_index`, `next_loglet_id`, `provider`, `params` and
`replicated_loglet_params` (a `bail!` or `?` is `None` and ends this log id;
`deserialize_from` fails on params of the tail without a nodeset, line 183),
then `try_each`: `Begin(a, c)` is the call reaching node `a`, `Unreachable` and
`TimeOut` are the call failing, with the handler going on after a timeout.
The handler is `Begin` (it reads the logs through the store client), then
`Refuse` (the read failed, or the version is below `min_version`),
`Schedule` (it answers with the next index and without a sealed segment, and
leaves the chain as it is: `sealed_segment` is optional in the message of
section 6) or `SealAndExtend` (the tail loglet is sealed and the longer chain
written with `MatchesVersion` of the version read) followed by `Finish`, which
answers by the result of the write. `Reconfigured` is the command taking an
answer (lines 144-175): without a sealed segment the log is "scheduled for
reconfiguration" and the command goes on, with one the log is reported as
reconfigured. The `?` of line 165 comes after that report and changes only
what else is printed. `AppendRecord(i)` is an appender holding segment `i`; a
sealed loglet refuses.

The refinement mapping takes the chain's `index` and `base_lsn` for
`segments`, and for `records` the function `Records`, which resolves every LSN
below the tail to the loglet record at `lsn - base_lsn + 1` of the segment that
serves it. `ImplementsVirtualLog` is `VirtualLog`'s specification under this
mapping. Sealing, reading, refused writes and everything the commands do are
stuttering steps of the log; the accepted write of a handler is
`SealAndExtend`.

## 3. Runs

| Run | Config | Result | What it shows |
|---|---|---|---|
| `trim_policy` | `MCTrimPolicy.cfg` | passes | see below |
| `log_trim` | `MCLogTrim.cfg` | passes | see below |
| `loglet` | `MCLoglet.cfg` | passes | see below |
| `metadata_store` | `MCMetadataStore.cfg` | passes | see below |
| `chain_reconfigure` | `MCChainReconfigure.cfg` | passes | see below |
| `chain_loglet_id` | `MCChainLogletId.cfg` | violation expected | one command whose first call timed out extends the chain twice, with the same loglet id |
| `metrics_filter` | `MCMetricsFilter.cfg` | passes | see below |
| `metrics_leading` | `MCMetricsFilterLeading.cfg` | violation expected | a wanted metric family at the start of the text is dropped |
| `leader_election` | `MCLeaderElection.cfg` | passes | see below |
| `election_unique` | `MCLeaderElectionUnique.cfg` | violation expected | P6 of the specification fails for a view without an alive admin node |
| `leader_loop` | `MCLeader.cfg` | passes | see below |
| `leader_errors` | `MCLeaderErrors.cfg` | violation expected | a failed `on_logs_update` is not retried |

**trim_policy** (two nodes, two partitions, LSNs 0..2, symmetric in the nodes).

* `PersistedModeSafe`: without snapshots, whatever is offered for a log is at
  most the persisted LSN of every alive node reporting the partition, and
  nothing is offered while a node is dead or suspect (P2, P4).
* `ArchivedModeSafe`: with snapshots, whatever is offered is an archived LSN
  some alive node reported and at most the applied LSN of every alive reporter
  (P3).
* `OffersWhatIsTrimmable`: the logs `safe_trim_points` offers are the logs
  that section 4.2 of the specification makes trimmable, all of them and no
  other. `Trimmable(p)` is written from the specification's steps 2 to 5 and
  not from the operators of the policy. The two properties above bound the
  policy from above; this one also from below: a suspension that applies in
  `ArchivedLsn` mode too, or a slow-applier guard that asks for an applied LSN
  strictly above the archived one, breaks none of them and leaves logs
  untrimmed.
* `TrimRoundSettles`: a step never moves a trim point back, and a log trimmed
  by a round is not offered again in the state the round leaves (P1 across a
  round, with partial failure).

Two nodes are needed for minimum and maximum to differ, two partitions for
one partition's archived LSN to change the mode for the other, and LSNs up to 2
for a value strictly between INVALID and the largest.

**log_trim** (two leaders, nodes 1 and 2, one partition, LSNs 0..2, no
snapshot repository configured).

* `TrimmedWasDurable`: no trim point exceeds the highest LSN ever reported
  persisted or archived for the partition, however old the round's snapshot
  is and whether the nodes of the snapshot still run.
* `TrimmableIsTrimmed`: once the calls to Bifrost stop failing, no log stays
  trimmable for ever. `Trimmable(p)` is the rule of section 4.2 of the
  specification (module `TrimPolicy`), against the cluster and the trim
  point as they are. The property is the other side of the slow-applier
  guard (`state.rs:486`): a
  processor that lags holds the trim off, and the trim follows when it has
  caught up, from the round of either leader, whatever stale rounds are
  under way, and whether or not a trim that failed was done. A last read that
  finds nothing to trim leaves the state a
  failed call leaves, so the property counts a step as a failure only if no
  call that returns could have taken it. It does not say that a processor
  catches up, nor that a partition without snapshots is trimmed once another
  partition reports an archived LSN: the mode is chosen for the cluster
  (step 2 of section 4.2), and such a log is not trimmable by the rule.

Two leaders give a round another round to race with; two nodes make the
duplicate read, the least persisted LSN and a processor that starts during a
round; LSNs up to 2 let one round trim to 2 between another round's read of 0
and its trim to 1. Without a repository the leaders trim in the `PersistedLsn`
mode until a processor reports an archived LSN and in the `ArchivedLsn` mode
from then on, so both arms of the policy are part of the run; with a
repository only the second arm is used, which adds no round. The module's
`TrimInit` leaves the flag open. The unit tests of `safe_trim_points`
(`TrimPolicyTests`) are evaluated at the start of the run.

**loglet** (offsets 0..5, four payloads in batches of one or two, one read
stream with any first and last offset).

* `RecordsInCallOrder`: the log holds the payloads in the order of the calls.
* `AppendReadRoundTrip` (P8): a record that becomes durable can be read at its
  offset, also after a `trim(MAX)` on the loglet while it was shorter.
* `ReadersSeeTheLog`: a stream yields records of the log in offset order and
  passes over a record only if it was trimmed.

Four payloads give two batches, or a batch and single appends, on either side
of a seal, and a reader a record to skip between two it reads; `MAX = 5` keeps
`trim(MAX)` at or beyond the tail of a full log. A second read stream adds
nothing, since streams do not see each other. The run shows that the rules of
the trait fit together, for a loglet that keeps them; that a sealed tail stays
and that a trim point does not move back are rules the module is built from,
and no property restates them.

**metrics_filter** (every text of up to six lines; deadlock is not checked,
since the loop ends with the text).

* `FilterKeepsWantedGroups`: after every line the result is the reference
  filter of the lines taken so far, over the groups that stand between two
  empty lines.

Six lines hold an unwanted first group, a wanted group with a line before its
`# TYPE` line, and a third group for the state to leak into.

**leader_election** (node 0 without the admin role, controllers on nodes 1 and
2, two generations per node, three crashes, two lost heartbeats).

* `LeaderIsDesignated`: a controller that leads is designated by its own
  current view and nodes configuration.
* `EventuallyOneLeader`: the controllers settle for good on the running admin
  node with the smallest id as the only leader, also after restarts that a
  controller's nodes configuration learnt late.

Node 0 makes the role filter matter, two generations let the old leader
come back and take over again while the other controller still holds its old
generation, and the bounds on crashes and lost heartbeats are what lets a
behaviour settle.

**leader_loop** (metadata versions 0..3).

* `SyncedWhenIdle`: a leader that never returned an error and has nothing to
  do has given its logs controller and scheduler the current logs and
  partition table and the latest cluster state.
* `EventuallySynced`: a controller that stays leader is idle and synced again
  and again.

Three changes of each kind let one arrive before, one during and one after
the handler of a change, in the same behaviour.

**metadata_store** (two callers, one key, one value, versions 1..3).

* `WriteResultIsTrue`: `Ok` from `put` or `delete` means the store applied the
  write, `WriteError::FailedPrecondition` means it did not; `Network` and
  `Internal` leave it open. The handler of `ChainReconfigure` and every caller
  that reads again after `FailedPrecondition` rely on it.

Two callers let one write between the other's request and its answer; two
versions are enough for `MatchesVersion` to hold and to fail.

**chain_reconfigure** (two commands, two admin nodes that each serve both,
chains of up to four segments, two appends, one fault, symmetric in the admin
nodes; deadlock is not checked, since commands end).

* `ImplementsVirtualLog`: the refinement of section 2. Records stay at their
  LSN, the next record goes to the tail, and the chain only grows at its end,
  by a segment that begins at the tail, whatever two handlers that read the
  same logs, lost answers and refused writes do.
* `ReportedIsExtended`: when a command reports a log as reconfigured
  (`reconfigure.rs:152`), the chain holds the segment of the index the
  command prints, with the provider and params it asked for. It relates what
  three actors hold: the command's request, the response of the handler it
  waits for, and the chain in the store after the writes of every other
  handler. An answer without a sealed segment, a write the store refused and
  the late answer of a call that timed out must not count.
* `TypeOK` also says that a command that is done has no log id left, unless
  it never got the logs: a log id that fails does not stop the loop (line 66).

The command lines are the default (everything inherited from the tail), a
change to `Replicated` with all params, one with the sequencer only (inherits
from a replicated tail, fails on a local one), `Local` with a nodeset (fails
either way), `--segment-index 0 --min-version 2` (refused until the chain was
extended once), and an unknown log id before the known one (the loop goes
on). The first segment is local, replicated, or replicated with params that
do not deserialize. Every unordered pair of
command lines is run (`MC_CommandLines`); the commands are alike, so the other
order adds nothing. Two admin nodes are what `try_each` needs for a second
try, one fault is enough for a call to be applied and retried, and two appends
put records on both sides of a seal. The bound of four segments is never
reached by a handler that would go on (two commands, one log id accepted each,
one retry). The run has no liveness property, so the symmetry in the admin
nodes is sound.

Three configurations are kept in the directory for findings and are not among
the runs of `PROJECT.json`; each checks one property, which TLC finds
violated: `MCTrimPolicyComment.cfg` (module `MCTrimPolicyComment`,
`DeadNodesBlockUnlessAllArchived`, finding 1), `MCLogletEmpty.cfg` (module
`MCLoglet`, `EmptyAsDocumented`, finding 4) and `MCLogTrimStale.cfg` (module
`MCLogTrim`, `TrimmedIsPersistedByAll`, finding 7).

Every property has a mutant in `PROJECT.json`: an operator, defined before the
one it replaces, with the change a plausible bug would make. TLC finds the
property violated with the mutant in place.

## 4. Fairness

* `LeaderElection`: weak fairness of `Heartbeat(c, n)` with a nodes
  configuration that has caught up, for every controller and node. The
  refresher pings every node at every interval and an answer is not lost
  forever; the metadata of a process is brought up to date in the background,
  and a version that was written reaches every running process; a leader
  whose start failed is started again by the next snapshot. Crashes, restarts and lost heartbeats have no fairness, and are
  bounded.
* `Leader`: strong fairness of the two watcher arms of `run`, weak fairness of
  the handler steps that succeed. `tokio::select!` polls its ready arms in
  random order, so an arm that is ready again and again is taken, although the
  other arms and the service loop disable it in between; a handler that was
  called runs to its end. The timers, the configuration and the cluster state
  need no fairness.
* `ChainReconfigure` is checked for safety only. That a command ends is the
  shape of its loops once every call returns, and whether a call returns is
  not in the source.
* `LogTrim`: weak fairness of `trim_logs_inner(l)`, of `get_trim_point(l)`
  and of `trim(l)`: the trim timer of a leader fires again
  (`log_trim_check_interval`), and Bifrost answers a call. The second is an
  assumption about code that is not in the source: the round has no timeout,
  and a call that never returns holds the leader's loop (a hazard
  `PROJECT.json` lists without a property). That Bifrost answers with an error
  (`call_fails`) has no fairness, and neither has the cluster.
  `TrimmableIsTrimmed` takes it as its premise that the errors stop.
* `MetadataStore` on its own is checked for safety only.

## 5. Findings

1. `state.rs:373`: the doc comment of `safe_trim_points` says dead or suspect
   nodes prevent trimming unless an archived LSN is reported for all known
   partitions. The code switches to the archived mode when any partition
   reports one and then never suspends. The unit tests side with the code.
2. `state.rs:69`: with no alive admin node in the view every controller
   assumes leadership, so equal views do not give a unique leader (P6).
3. `state.rs:265`: `run` consumes the watcher's change before the handler runs;
   an error in `on_logs_update` leaves the components without the current logs
   until the logs change again (section 7 of the specification promises a
   retry).

4. `loglet/mod.rs:92`: "a log is empty when `trim_point.next() ==
   tail.prev()`" (also invariant 1 of the specification). With the tail as the
   first unwritten offset and the trim point as the slot before the first
   readable record, as the same comment's figures and methods define them, the
   test holds for a loglet with one record and no trim, and fails for a loglet
   whose records are all trimmed. The test that fits is `trim_point + 1 ==
   tail`.

5. `service_metrics.rs:71`: `filter_metrics` starts in `NotMatching`, so the
   lines before the first empty line are dropped whatever they are. The
   Prometheus text starts with its first family: when that family has the
   retained prefix, the endpoint does not show it (section 6 of the
   specification has every such family emitted). The specification also has an
   undecided group wait for "a decisive sample line"; in the code only a later
   `# TYPE` line decides, and the reference follows the code in that.

6. `reconfigure.rs:131`: the request carries the `min_version` of the command
   line (default 1), never the version of the logs the command read, and
   `try_each` sends the same request to the next admin node after a call that
   failed. Section 4.8 calls the operation "idempotent under retry because the
   precondition rejects stale sealer attempts"; a lower bound on the version
   rejects nothing that comes later. With the handler of step 5, a command
   whose first call timed out is applied twice (the run's counterexample), and
   so are two commands that read the same logs; the second new segment carries
   the loglet id computed for the first, `(log, tail + 1)` of a tail that has
   moved (step 2). A command with `--segment-index` below the tail does the
   same on its own, and takes provider and inherited params from the tail
   (line 85), not from the segment it names. The log itself stays
   consistent (`ImplementsVirtualLog`): what breaks is the tie between a
   segment and its loglet. The handler would have to hold
   `extension.segment_index` against the tail it read.

7. `state.rs:300`: section 4.2 of the specification justifies the least
   persisted LSN by "without snapshots, a trimmed record must have been
   durably persisted on every active processor". The policy guarantees it of
   its snapshot (`PersistedModeSafe`). The round takes the snapshot once and
   trims several awaits later: a processor that starts on a second node in
   between is active when the log is trimmed and has persisted nothing
   (`TrimmedIsPersistedByAll`, nine steps). What still holds of a stale round
   is `TrimmedWasDurable`. The round does not look at the cluster state again
   before a trim.

## 6. Not modelled

* Loglet providers (in-memory, local, replicated): none is in the source.
* Wall-clock time: an interval is due or waiting, durations are not compared.
* Logging, tracing and the wording of errors.
* The internals of the logs controller, the scheduler and bifrost, which are
  not in the source. The metadata store and the `SealAndExtendChain` handler
  are modelled from the specification, as far as it describes them.
* In `ChainReconfigure`: what the command prints, but for the report of a
  reconfigured log; log id ranges (a command line is a list of ids); and a
  loglet's buffering, trimming and readers (module `Loglet` has them for one
  loglet).
* In `LogTrim`: the tail of a log (a trim beyond it is cut to the tail; the
  policy offers applied LSNs at most), and leaders with different snapshot
  flags. The lag of a
  processor (`state.rs:486`) has no bound in the code, so no run claims that
  a log becomes trimmable; `TrimmableIsTrimmed` is about the logs that are.
* The outbox table test
  (`crates/partition-store/tests/outbox_table_test/mod.rs`): one fixed
  sequence of calls against an `OutboxTable` whose code is not in the source.
  It has one behaviour, no input to vary and nothing that runs beside it; a
  model of the table would be written from the test's assertions and then
  held against them.
