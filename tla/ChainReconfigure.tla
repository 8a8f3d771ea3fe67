--------------------------- MODULE ChainReconfigure ---------------------------
(***************************************************************************)
(* Chain reconfiguration, end to end: the restatectl command               *)
(* (tools/restatectl/src/commands/log/reconfigure.rs), the admin nodes     *)
(* that serve its SealAndExtendChain request, the metadata store that      *)
(* holds the chain (module MetadataStore), and the loglets of the          *)
(* segments.                                                               *)
(*                                                                         *)
(* The command is modelled from the source.  The handler of an admin node  *)
(* is step 5 of section 4.8 of the specification: it reads the logs, holds *)
(* them against min_version, seals the tail loglet and writes the longer   *)
(* chain back with a compare-and-swap on the version it read.  try_each is *)
(* section 4.8, step 4: one admin node after another until one answers.    *)
(* The logs metadata holds one log, LogId; a command may name other ids.   *)
(* A loglet is reduced to what reconfiguration needs of module Loglet: its *)
(* records and its seal.  The loglet provider of section 6 yields a loglet *)
(* for (log_id, segment_index, params): each segment has its own, found by *)
(* its index.                                                              *)
(***************************************************************************)
EXTENDS Integers, Sequences, FiniteSets

CONSTANTS
    Clients,        \* the restatectl commands that are run
    Admins,         \* the nodes with Role::Admin
    Options,        \* the command lines (ReconfigureOpts) a command may have
    CommandLines,   \* who runs what: the functions from Clients to Options to check
    InitialConfigs, \* the configs the first segment may have
    LogId,          \* the log of the logs metadata
    MaxSegments,    \* bound: segments of the chain
    MaxAppends,     \* bound: records appended to the log
    MaxFaults,      \* bound: calls that time out or find no one, store calls that fail
    None

VARIABLES
    kv,             \* the metadata store
    rpc,            \* rpc[h]: the store call of handler h
    loglets,        \* loglets[i]: records and seal of the loglet of segment i
    appended,       \* records appended so far
    opts,           \* opts[c]: the command line of c
    ctl,            \* ctl[c]: where command c stands
    srv,            \* srv[h]: the request handler h is serving, or None
    faults          \* faults so far

vars == <<kv, rpc, loglets, appended, opts, ctl, srv, faults>>

ASSUME CommandLines \subseteq [Clients -> Options]

LogsKey == "bifrost_config"
ProviderKind == {"Replicated", "Local", "InMemory"}

\* a command line: log_id is required, min_version is a NonZeroU32
ReconfigureOpts(o) ==
    /\ DOMAIN o = {"log_id", "provider", "segment_index", "min_version", "replication",
                   "nodeset", "sequencer"}
    /\ o.log_id # <<>>
    /\ o.provider = None \/ o.provider \in ProviderKind
    /\ o.segment_index = None \/ o.segment_index \in Nat
    /\ o.min_version \in Nat \ {0}

ASSUME \A o \in Options : ReconfigureOpts(o)

SegmentIndexes == 0..(MaxSegments - 1)

\* what a field of replicated params may be: given on a command line or initial
Given(field) ==
    {o[field] : o \in Options} \cup
    {config.params[field] : config \in {i \in InitialConfigs : field \in DOMAIN i.params}}

Params ==
    LET LogletIds == {LogId} \X (0..MaxSegments)
    IN  [loglet_id : LogletIds] \cup
        [loglet_id : LogletIds, nodeset : Given("nodeset") \ {{}},
         replication : Given("replication") \ {None}, sequencer : Given("sequencer") \ {None}]

Segments ==
    [index : SegmentIndexes, base_lsn : 1..(MaxAppends + 1),
     config : [kind : ProviderKind, params : Params]]

\* <<a, c>>: the handler on admin node a of a call of command c
Handlers == Admins \X Clients

Store == INSTANCE MetadataStore
            WITH Keys <- {LogsKey}, Values <- Seq(Segments), Callers <- Handlers,
                 MaxVersion <- MaxSegments

tail(chain) == chain[Len(chain)]

-----------------------------------------------------------------------------
(* restatectl: what inner_reconfigure computes from the command line and   *)
(* its copy of the logs.  A failure (bail!, `?`) is None.                  *)

\* Logs::chain
chain_of(logs, log_id) == IF log_id = LogId THEN logs.value ELSE None

tail_index(o, chain) == IF o.segment_index # None THEN o.segment_index ELSE tail(chain).index

next_loglet_id(o, chain, log_id) == <<log_id, tail_index(o, chain) + 1>>

provider(o, chain) == IF o.provider # None THEN o.provider ELSE tail(chain).config.kind

\* ReplicatedLogletParams::deserialize_from: params of another shape are refused
deserialize_from(p) == IF "nodeset" \in DOMAIN p THEN p ELSE None

\* a field of the command line, or of the tail's params if the tail is replicated
replicated_loglet_params(o, loglet_id, tail_segment) ==
    LET last_params == deserialize_from(tail_segment.config.params)
        inherits == tail_segment.config.kind = "Replicated"
        nodeset == IF o.nodeset # {} THEN o.nodeset
                   ELSE IF inherits THEN last_params.nodeset ELSE None
        replication == IF o.replication # None THEN o.replication
                       ELSE IF inherits THEN last_params.replication ELSE None
        sequencer == IF o.sequencer # None THEN o.sequencer
                     ELSE IF inherits THEN last_params.sequencer ELSE None
    IN  IF \/ inherits /\ last_params = None
           \/ nodeset = None \/ replication = None \/ sequencer = None THEN None
        ELSE [loglet_id |-> loglet_id, nodeset |-> nodeset,
              replication |-> replication, sequencer |-> sequencer]

\* "we can always go to replicated loglet, but never back to anything else"
params(o, chain, log_id) ==
    LET loglet_id == next_loglet_id(o, chain, log_id)
    IN  CASE provider(o, chain) = "Replicated" ->
                replicated_loglet_params(o, loglet_id, tail(chain))
          [] provider(o, chain) # "Replicated" /\ tail(chain).config.kind = "Replicated" -> None
          [] OTHER -> IF o.sequencer # None \/ o.nodeset # {} THEN None
                      ELSE [loglet_id |-> loglet_id]

\* the SealAndExtendChainRequest of c for log_id
request(o, logs, log_id) ==
    LET chain == chain_of(logs, log_id)
    IN  IF chain = None \/ params(o, chain, log_id) = None THEN None
        ELSE [log_id |-> log_id, min_version |-> o.min_version,
              extension |-> [provider |-> provider(o, chain),
                             segment_index |-> tail_index(o, chain),
                             params |-> params(o, chain, log_id)]]

-----------------------------------------------------------------------------
(* restatectl: the steps of a command *)

Step(c, state) == ctl' = [ctl EXCEPT ![c] = state]

\* inner_reconfigure has returned, having printed "Log reconfiguration" or not,
\* with `call` under way
Returns(c, reconfigured, call) ==
    [ctl[c] EXCEPT !.todo = Tail(@), !.request = None, !.untried = {}, !.call = call,
                   !.phase = IF Tail(ctl[c].todo) = <<>> THEN "done" ELSE "loop",
                   !.reconfigured = IF reconfigured THEN @ + 1 ELSE @]

Continue_KeepsCall(c, reconfigured) == Returns(c, reconfigured, ctl[c].call)

\* the loop of reconfigure takes the next log id
Continue(c, reconfigured) == Returns(c, reconfigured, None)

\* try_each: the call to a has failed; the next node is tried, if there is one
Failed(c, a) ==
    IF ctl[c].untried \ {a} = {} THEN Continue(c, FALSE)
    ELSE [ctl[c] EXCEPT !.untried = @ \ {a}, !.call = None]

get_logs(c) ==
    /\ ctl[c].phase = "get_logs"
    /\ Step(c, [ctl[c] EXCEPT !.logs = kv[LogsKey], !.phase = "loop"])
    /\ UNCHANGED <<kv, rpc, loglets, appended, opts, srv, faults>>

get_logs_fails(c) ==
    /\ ctl[c].phase = "get_logs"
    /\ Step(c, [ctl[c] EXCEPT !.phase = "done"])
    /\ UNCHANGED <<kv, rpc, loglets, appended, opts, srv, faults>>

\* inner_reconfigure up to the request, which is sent or is not to be had
inner_reconfigure(c) ==
    /\ ctl[c].phase = "loop"
    /\ LET req == request(opts[c], ctl[c].logs, Head(ctl[c].todo))
       IN  Step(c, IF req = None THEN Continue(c, FALSE)
                   ELSE [ctl[c] EXCEPT !.phase = "try_each", !.request = req,
                                       !.untried = Admins])
    /\ UNCHANGED <<kv, rpc, loglets, appended, opts, srv, faults>>

Fault == faults < MaxFaults /\ faults' = faults + 1

\* no connection to a
Unreachable(c, a) ==
    /\ ctl[c].phase = "try_each" /\ ctl[c].call = None /\ a \in ctl[c].untried
    /\ Fault
    /\ Step(c, Failed(c, a))
    /\ UNCHANGED <<kv, rpc, loglets, appended, opts, srv>>

\* the call ends without an answer; its handler goes on
TimeOut(c) ==
    /\ ctl[c].phase = "try_each" /\ ctl[c].call # None
    /\ Fault
    /\ Step(c, Failed(c, ctl[c].call))
    /\ UNCHANGED <<kv, rpc, loglets, appended, opts, srv>>

-----------------------------------------------------------------------------
(* The admin node: SealAndExtendChain *)

Handling(h, phase) == srv[h] # None /\ srv[h].phase = phase

\* The call of c reaches a, whose handler begins by reading the logs.  An admin
\* node serves the calls of several commands at once.
Begin(a, c) ==
    /\ ctl[c].phase = "try_each" /\ ctl[c].call = None /\ a \in ctl[c].untried
    /\ srv[<<a, c>>] = None
    /\ Step(c, [ctl[c] EXCEPT !.call = a])
    /\ srv' = [srv EXCEPT ![<<a, c>>] = [request |-> ctl[c].request, phase |-> "reading",
                                         response |-> None]]
    /\ Store!get(<<a, c>>, LogsKey)
    /\ UNCHANGED <<loglets, appended, opts, faults>>

\* the logs as the handler read them, if they allow the request
Readable(h) ==
    /\ Store!Returned(h).kind = "Ok" /\ Store!Returned(h).value # None
    /\ Store!Returned(h).value.version >= srv[h].request.min_version

base_lsn_SkipsOne(tail_segment) == tail_segment.base_lsn + Len(loglets[tail_segment.index].log) + 1

\* the LSN of the sealed tail: where the next segment begins
base_lsn(tail_segment) == tail_segment.base_lsn + Len(loglets[tail_segment.index].log)

precondition(version) == Store!MatchesVersion(version)

\* the logs with the chain extended by the segment the request asks for
extended(logs, extension) ==
    [version |-> logs.version + 1,
     value |-> Append(logs.value,
                  [index |-> tail(logs.value).index + 1,
                   base_lsn |-> base_lsn(tail(logs.value)),
                   config |-> [kind |-> extension.provider, params |-> extension.params]])]

\* SealAndExtendChainResponse; the tail offset of the sealed segment is left out
Response(new_segment_index, sealed_segment) ==
    [new_segment_index |-> new_segment_index, sealed_segment |-> sealed_segment]

SealAndExtend(h) ==
    /\ Handling(h, "reading") /\ Store!Completed(h) /\ Readable(h)
    /\ LET logs == Store!Returned(h).value
           sealed_segment == tail(logs.value)
       IN  /\ Len(logs.value) < MaxSegments
           /\ loglets' = [loglets EXCEPT ![sealed_segment.index].sealed = TRUE]
           /\ rpc' = [rpc EXCEPT ![h] = Store!InFlight(Store!Request("put", LogsKey,
                            extended(logs, srv[h].request.extension),
                            precondition(logs.version)))]
           /\ srv' = [srv EXCEPT ![h].phase = "writing",
                                 ![h].response = Response(sealed_segment.index + 1,
                                                          sealed_segment.config)]
    /\ UNCHANGED <<kv, appended, opts, ctl, faults>>

Reconfigured_CountsScheduled(c, response) == Continue(c, TRUE)

\* The answer is printed: "Log reconfiguration" with the new segment index, or
\* "Log scheduled for reconfiguration" when it names no sealed segment.  The
\* `?` on the sealed segment's params comes after the print.
Reconfigured(c, response) == Continue(c, response.sealed_segment # None)

\* the handler ends, with a response or with an error (None); its answer
\* reaches the command if the command still waits
Reply(h, response) ==
    LET a == h[1]
        c == h[2]
    IN  /\ ctl' = IF ctl[c].call # a THEN ctl
                  ELSE [ctl EXCEPT ![c] = IF response = None THEN Failed(c, a)
                                          ELSE Reconfigured(c, response)]
        /\ srv' = [srv EXCEPT ![h] = None]
        /\ rpc' = [rpc EXCEPT ![h] = None]
        /\ UNCHANGED <<kv, loglets, appended, opts, faults>>

\* the logs could not be read, or have not reached min_version
Refuse(h) ==
    /\ Handling(h, "reading") /\ Store!Completed(h) /\ ~Readable(h)
    /\ Reply(h, None)

\* sealed_segment is optional (section 6): the leader answers that the log is
\* to be reconfigured, and has not extended the chain
Schedule(h) ==
    /\ Handling(h, "reading") /\ Store!Completed(h) /\ Readable(h)
    /\ Reply(h, Response(tail(Store!Returned(h).value.value).index + 1, None))

Finish(h) ==
    /\ Handling(h, "writing") /\ Store!Completed(h)
    /\ Reply(h, IF Store!Returned(h).kind = "Ok" THEN srv[h].response ELSE None)

-----------------------------------------------------------------------------
(* The store, and the appenders of the log *)

StoreServes(h) ==
    /\ Store!Serve(h)
    /\ UNCHANGED <<loglets, appended, opts, ctl, srv, faults>>

StoreFails(h) ==
    /\ Fault
    /\ Store!Fails(h, "Unavailable")
    /\ UNCHANGED <<loglets, appended, opts, ctl, srv>>

Chain == kv[LogsKey].value

\* An appender writes to the loglet of the segment it holds for the tail (the
\* loglet of its log id and segment index); a sealed loglet refuses.
AppendRecord(i) ==
    /\ appended < MaxAppends
    /\ \E s \in DOMAIN Chain : Chain[s].index = i
    /\ ~loglets[i].sealed
    /\ loglets' = [loglets EXCEPT ![i].log = Append(@, appended + 1)]
    /\ appended' = appended + 1
    /\ UNCHANGED <<kv, rpc, opts, ctl, srv, faults>>

-----------------------------------------------------------------------------

Init ==
    /\ \E config \in InitialConfigs :
        kv = [k \in {LogsKey} |-> [version |-> 1,
                value |-> <<[index |-> 0, base_lsn |-> 1, config |-> config]>>]]
    /\ rpc = [h \in Handlers |-> None]
    /\ loglets = [i \in SegmentIndexes |-> [log |-> <<>>, sealed |-> FALSE]]
    /\ appended = 0
    /\ opts \in CommandLines
    /\ ctl = [c \in Clients |-> [phase |-> "get_logs", logs |-> None, todo |-> opts[c].log_id,
                                 request |-> None, untried |-> {}, call |-> None,
                                 reconfigured |-> 0]]
    /\ srv = [h \in Handlers |-> None]
    /\ faults = 0

Next ==
    \/ \E c \in Clients :
        \/ get_logs(c) \/ get_logs_fails(c) \/ inner_reconfigure(c) \/ TimeOut(c)
        \/ \E a \in Admins : Unreachable(c, a) \/ Begin(a, c)
    \/ \E h \in Handlers :
        \/ SealAndExtend(h) \/ Schedule(h) \/ Refuse(h) \/ Finish(h)
        \/ StoreServes(h) \/ StoreFails(h)
    \/ \E i \in SegmentIndexes : AppendRecord(i)

Spec == Init /\ [][Next]_vars

-----------------------------------------------------------------------------
(* The log the chain stands for *)

\* the segment that serves lsn: the last one that begins at or before it
segment_of(lsn) ==
    Chain[CHOOSE s \in DOMAIN Chain :
            /\ Chain[s].base_lsn <= lsn
            /\ \A t \in DOMAIN Chain : Chain[t].base_lsn <= lsn => t <= s]

\* chain-wide LSN = segment base + loglet offset
Resolve(lsn) ==
    LET segment == segment_of(lsn)
        log == loglets[segment.index].log
        offset == lsn - segment.base_lsn + 1
    IN  IF offset <= Len(log) THEN log[offset] ELSE None

tail_lsn == tail(Chain).base_lsn + Len(loglets[tail(Chain).index].log)

Records == [lsn \in 1..(tail_lsn - 1) |-> Resolve(lsn)]

VL == INSTANCE VirtualLog
        WITH records <- Records,
             segments <- [s \in DOMAIN Chain |->
                            [index |-> Chain[s].index, base_lsn |-> Chain[s].base_lsn]]

-----------------------------------------------------------------------------
(* Properties *)

TypeOK ==
    /\ Store!StoreTypeOK
    /\ \A i \in SegmentIndexes : loglets[i].log \in Seq(1..MaxAppends)
                              /\ loglets[i].sealed \in BOOLEAN
    /\ appended \in 0..MaxAppends
    /\ faults \in 0..MaxFaults
    /\ opts \in [Clients -> Options]
    /\ \A c \in Clients :
        /\ ctl[c].phase \in {"get_logs", "loop", "try_each", "done"}
        /\ ctl[c].untried \subseteq Admins
        /\ ctl[c].call \in Admins \cup {None}
        /\ ctl[c].reconfigured \in 0..Len(opts[c].log_id)
        /\ ctl[c].phase = "try_each" <=> ctl[c].request # None
        /\ ctl[c].call # None => ctl[c].call \in ctl[c].untried
        /\ ctl[c].phase = "done" => ctl[c].logs = None \/ ctl[c].todo = <<>>
    /\ \A h \in Handlers : srv[h] = None <=> rpc[h] = None

\* Section 4.8, step 5, and invariants 2 to 4 of the specification: whatever
\* commands, handlers, lost answers and store failures do, the log behaves as
\* one log whose chain is extended in one step.  A record stays at its LSN, the
\* next record goes to the tail, a segment is added at the end of the chain,
\* with the next index and the tail as its base LSN, and no segment is changed
\* once it is in the chain (the handler's seal before its write, base_lsn, and
\* the compare-and-swap of two handlers that read the same logs).
ImplementsVirtualLog == VL!Spec

\* What a command prints is true.  When it prints "Log reconfiguration" with
\* a new segment index, the chain holds the segment of that index, with the
\* provider and the params the command asked for: also when the answer is that
\* of a second admin node after the first timed out, when another command's
\* handler wrote first, and never for an answer that names no sealed segment
\* (try_each, the `let Some(sealed_segment) else` of inner_reconfigure, and the
\* handler's answer after a write that was refused).
ReportedIsExtended ==
    [][\A c \in Clients : ctl'[c].reconfigured > ctl[c].reconfigured =>
            LET extension == ctl[c].request.extension
                response == srv[<<ctl[c].call, c>>].response
            IN  /\ response # None
                /\ \E s \in DOMAIN Chain' :
                    /\ Chain'[s].index = response.new_segment_index
                    /\ Chain'[s].config = [kind |-> extension.provider,
                                           params |-> extension.params]]_vars

\* Section 4.8, step 2, and the loglet a segment is a handle to: the params of
\* segment i name loglet (log_id, i), so that no two segments share a loglet.
LogletIdIsOfSegment ==
    \A s \in DOMAIN Chain : Chain[s].config.params.loglet_id = <<LogId, Chain[s].index>>

=============================================================================
