---------------------------- MODULE LeaderElection ----------------------------
(***************************************************************************)
(* Which cluster controllers lead: ClusterControllerState::update of       *)
(* crates/admin/src/cluster_controller/service/state.rs, run by the        *)
(* controller of every admin node, each against its own observed cluster   *)
(* state.  There is no vote and no lease: a controller leads exactly when  *)
(* the alive admin node with the smallest id, as it sees the cluster, is   *)
(* itself.                                                                 *)
(*                                                                         *)
(* Of the leader only its existence is kept here (module Leader models     *)
(* what it does).  update reads the nodes configuration of its own node's  *)
(* metadata, which learns of a restart some time after it happened; since  *)
(* nothing else reads it here, the copy catches up just before an update.  *)
(* A controller's observed state changes one node at a time and `update`   *)
(* runs after every change, as the service does for every snapshot that    *)
(* the refresher publishes.                                                *)
(***************************************************************************)
EXTENDS Integers, FiniteSets

CONSTANTS
    Nodes,              \* plain node ids of the nodes configuration
    AdminNodes,         \* those with the admin role: each runs a cluster controller
    MaxGeneration,      \* bound: no node starts more often than this
    MaxCrashes,         \* bound: crashes in a behaviour
    MaxLostHeartbeats,  \* bound: heartbeats of running nodes that go unanswered
    None

ASSUME /\ Nodes \subseteq Nat /\ AdminNodes \subseteq Nodes
       /\ MaxGeneration \in Nat \ {0} /\ MaxCrashes \in Nat /\ MaxLostHeartbeats \in Nat

VARIABLES
    generation,     \* generation[n]: the generation of n's latest start
    running,        \* running[n]: n's process is up
    observed,       \* observed[c][n]: the generation of n that c saw alive, or None
    nodes_config,   \* nodes_config[c][n]: the generation of n in c's nodes configuration
    state,          \* state[c]: "Follower" or "Leader" (ClusterControllerState)
    crashes,        \* crashes so far
    lost            \* heartbeats lost so far

vars == <<generation, running, observed, nodes_config, state, crashes, lost>>

-----------------------------------------------------------------------------
(* A GenerationalNodeId is <<plain id, generation>>. *)

\* NodeConfig::current_generation, in the nodes configuration `config`
current_generation(config, n) == <<n, config[n]>>
my_node_id(c) == <<c, generation[c]>>

\* ObservedClusterState::is_node_alive
is_node_alive(view, id) == view[id[1]] = id[2]

\* derive(Ord) on GenerationalNodeId: by plain id, then by generation
Before(a, b) == a[1] < b[1] \/ (a[1] = b[1] /\ a[2] <= b[2])

\* the first in id order of the nodes of `among` that the view holds alive
FirstAlive(among, config, view) ==
    LET alive == {current_generation(config, n) : n \in {m \in among :
                        is_node_alive(view, current_generation(config, m))}}
    IN  IF alive = {} THEN None ELSE CHOOSE id \in alive : \A other \in alive : Before(id, other)

maybe_leader_AnyRole(config, view) == FirstAlive(Nodes, config, view)

\* get_admin_nodes, filtered by is_node_alive, sorted, the first
maybe_leader(config, view) == FirstAlive(AdminNodes, config, view)

\* "If no other node was found to take leadership, we assume leadership"
is_leader(c, config, view) == maybe_leader(config, view) \in {None, my_node_id(c)}

\* is_leader of c as update computes it at the end of a step
IsLeader(c) == is_leader(c, nodes_config'[c], observed'[c])

-----
(* ClusterControllerState::update, on the view observed'[c].  The arms of  *)
(* its match are the disjuncts.  Leader::from_service may fail (it reads   *)
(* the metadata store): update then returns the error and the controller   *)
(* is still a follower.                                                    *)

SwitchTo(c, new_state) == state' = [state EXCEPT ![c] = new_state]

update_NeverSteppingDown(c) ==
    \/ /\ IsLeader(c) /\ state[c] = "Follower"
       /\ SwitchTo(c, "Leader")
    \/ /\ ~(IsLeader(c) /\ state[c] = "Follower")
       /\ UNCHANGED state

update(c) ==
    \/ /\ IsLeader(c) /\ state[c] = "Follower"
       /\ SwitchTo(c, "Leader")
    \/ /\ ~IsLeader(c) /\ state[c] = "Leader"
       /\ SwitchTo(c, "Follower")
    \/ /\ IsLeader(c) <=> state[c] = "Leader"
       /\ UNCHANGED state

update_fails_HalfStarted(c) ==
    /\ IsLeader(c) /\ state[c] = "Follower"
    /\ SwitchTo(c, "Starting")

update_fails(c) ==
    /\ IsLeader(c) /\ state[c] = "Follower"
    /\ UNCHANGED state

-----------------------------------------------------------------------------
(* The cluster, and what the refresher of a controller learns of it. *)

Controllers == {c \in AdminNodes : running[c]}

\* c's snapshot says `seen` of n; c's nodes configuration is as it was, or has
\* caught up with the store
Observes(c, n, seen) ==
    /\ c \in Controllers
    /\ observed' = [observed EXCEPT ![c][n] = seen]
    /\ nodes_config' \in {nodes_config, [nodes_config EXCEPT ![c] = generation]}

Reached(n) == IF running[n] THEN generation[n] ELSE None

\* c's refresher reaches n, or finds it down: the snapshot says what n is now.
Heartbeat(c, n) ==
    /\ Observes(c, n, Reached(n))
    /\ update(c)
    /\ UNCHANGED <<generation, running, crashes, lost>>

\* The same, with the new leader failing to start.
HeartbeatAndFailedStart(c, n) ==
    /\ Observes(c, n, Reached(n))
    /\ update_fails(c)
    /\ UNCHANGED <<generation, running, crashes, lost>>

\* c's refresher gets no answer from a running node: the snapshot lists n as
\* suspect or dead.
HeartbeatLost(c, n) ==
    /\ running[n]
    /\ lost < MaxLostHeartbeats
    /\ lost' = lost + 1
    /\ Observes(c, n, None)
    /\ update(c)
    /\ UNCHANGED <<generation, running, crashes>>

Forget(n) ==
    IF n \in AdminNodes
    THEN /\ state' = [state EXCEPT ![n] = "Follower"]
         /\ observed' = [observed EXCEPT ![n] = [m \in Nodes |-> None]]
    ELSE UNCHANGED <<state, observed>>

\* A node stops.  Its controller, if it has one, is gone with it.
NodeCrashes(n) ==
    /\ running[n] /\ crashes < MaxCrashes
    /\ running' = [running EXCEPT ![n] = FALSE]
    /\ crashes' = crashes + 1
    /\ Forget(n)
    /\ UNCHANGED <<generation, nodes_config, lost>>

\* A node starts again, with the next generation, which it writes to the
\* nodes configuration it has read; its controller starts as a follower that
\* has observed nothing.
NodeRestarts(n) ==
    /\ ~running[n] /\ generation[n] < MaxGeneration
    /\ running' = [running EXCEPT ![n] = TRUE]
    /\ generation' = [generation EXCEPT ![n] = @ + 1]
    /\ nodes_config' = IF n \in AdminNodes THEN [nodes_config EXCEPT ![n] = generation']
                       ELSE nodes_config
    /\ Forget(n)
    /\ UNCHANGED <<crashes, lost>>

-----------------------------------------------------------------------------

Init ==
    /\ generation = [n \in Nodes |-> 1]
    /\ running = [n \in Nodes |-> TRUE]
    /\ observed = [c \in AdminNodes |-> [n \in Nodes |-> None]]
    /\ nodes_config = [c \in AdminNodes |-> generation]
    /\ state = [c \in AdminNodes |-> "Follower"]
    /\ crashes = 0
    /\ lost = 0

Next ==
    \/ \E c \in AdminNodes, n \in Nodes : Heartbeat(c, n)
    \/ \E c \in AdminNodes, n \in Nodes : HeartbeatAndFailedStart(c, n)
    \/ \E c \in AdminNodes, n \in Nodes : HeartbeatLost(c, n)
    \/ \E n \in Nodes : NodeCrashes(n)
    \/ \E n \in Nodes : NodeRestarts(n)

Spec == Init /\ [][Next]_vars

\* The refresher pings every node at every interval, and a node that runs
\* answers in the end; a leader that failed to start is started again at the
\* next snapshot; a node's metadata catches up with the store in the end.
Fairness ==
    \A c \in AdminNodes, n \in Nodes :
        WF_vars(Heartbeat(c, n) /\ nodes_config'[c] = generation)

FairSpec == Spec /\ Fairness

-----------------------------------------------------------------------------
(* Properties *)

TypeOK ==
    /\ generation \in [Nodes -> 1..MaxGeneration]
    /\ running \in [Nodes -> BOOLEAN]
    /\ observed \in [AdminNodes -> [Nodes -> (1..MaxGeneration) \cup {None}]]
    /\ nodes_config \in [AdminNodes -> [Nodes -> 1..MaxGeneration]]
    /\ state \in [AdminNodes -> {"Follower", "Leader"}]
    /\ crashes \in 0..MaxCrashes
    /\ lost \in 0..MaxLostHeartbeats

\* A controller leads only while its own observed state designates it: update
\* steps down in the same iteration in which the observed state, or the nodes
\* configuration it is held against, first names another node, so a leader
\* never outlives the view that made it one.
LeaderIsDesignated ==
    \A c \in Controllers : state[c] = "Leader" => is_leader(c, nodes_config[c], observed[c])

\* Once nodes stop crashing and heartbeats stop being lost, the controllers
\* settle on one leader: the running admin node with the smallest id leads and
\* every other running controller follows, whatever leaders the changing views
\* produced on the way (update needs no agreement round, only fresh views).
Settled ==
    \A c \in Controllers :
        state[c] = "Leader" <=> \A other \in Controllers : c <= other

EventuallyOneLeader == <>[]Settled

\* P6 of the specification: "Among any set of nodes observing the same
\* ClusterState, the predicted leader is unique", here for controllers that
\* hold the same nodes configuration too.
UniqueLeaderPerView ==
    \A c1, c2 \in Controllers :
        (c1 # c2 /\ observed[c1] = observed[c2] /\ nodes_config[c1] = nodes_config[c2])
            => ~(state[c1] = "Leader" /\ state[c2] = "Leader")

=============================================================================
