---------------------------- MODULE MetadataStore ----------------------------
(***************************************************************************)
(* The client of the metadata store, LocalMetadataStoreClient of           *)
(* crates/metadata-store/src/local/grpc/client.rs, and the store it talks  *)
(* to.  Each method is a call over gRPC and the mapping of what comes back *)
(* to a Result.  The store is not in the source: it is the versioned       *)
(* key/value store of section 6 of the specification, which serves a call  *)
(* in one step.  A call can end with a status of its own at any time,      *)
(* before the store has served it or after.                                *)
(***************************************************************************)
EXTENDS Integers

CONSTANTS
    Keys,
    Values,
    Callers,        \* who holds a client; each has one call in flight at most
    MaxVersion,     \* bound: versions of a value
    None

VARIABLES
    kv,             \* kv[k]: the VersionedValue stored under k, or None
    rpc             \* rpc[c]: the call of c in flight, or None

store_vars == <<kv, rpc>>

Versions == 1..MaxVersion
VersionedValue == [version : Versions, value : Values]

NoPrecondition == [kind |-> "None"]
DoesNotExist == [kind |-> "DoesNotExist"]
MatchesVersion(v) == [kind |-> "MatchesVersion", version |-> v]
Precondition == {NoPrecondition, DoesNotExist} \cup {MatchesVersion(v) : v \in Versions}

\* tonic::Code: Ok, the two codes the client tells apart, and two of the others
Code == {"Ok", "Unavailable", "FailedPrecondition", "Internal", "DeadlineExceeded"}

Ok(value) == [kind |-> "Ok", value |-> value]
Err(error) == [kind |-> "Err", error |-> error]

-----------------------------------------------------------------------------
(* The client *)

Request(method, key, value, precondition) ==
    [method |-> method, key |-> key, value |-> value, precondition |-> precondition]

\* a call on its way: `applied` records whether the store has done the write
InFlight(request) ==
    [request |-> request, code |-> "Pending", payload |-> None, applied |-> FALSE]

Call(c, request) ==
    /\ rpc[c] = None
    /\ rpc' = [rpc EXCEPT ![c] = InFlight(request)]
    /\ UNCHANGED kv

get(c, key) == Call(c, Request("get", key, None, NoPrecondition))
get_version(c, key) == Call(c, Request("get_version", key, None, NoPrecondition))
put(c, key, value, precondition) == Call(c, Request("put", key, value, precondition))
delete(c, key, precondition) == Call(c, Request("delete", key, None, precondition))

map_status_to_read_error(code) == IF code = "Unavailable" THEN "Network" ELSE "Internal"

map_status_to_write_error_InDoubtAsRefused(code) ==
    IF code \in {"Unavailable", "FailedPrecondition"} THEN "FailedPrecondition" ELSE "Internal"

map_status_to_write_error(code) ==
    CASE code = "Unavailable" -> "Network"
      [] code = "FailedPrecondition" -> "FailedPrecondition"
      [] OTHER -> "Internal"

get_result_Unconverted(call) ==
    IF call.code # "Ok" THEN Err(map_status_to_read_error(call.code)) ELSE Ok(call.payload)

\* get: a response that does not convert is an error of its own
get_result(call) ==
    CASE call.code # "Ok" -> Err(map_status_to_read_error(call.code))
      [] call.payload # None /\ "version" \notin DOMAIN call.payload -> Err("Internal")
      [] OTHER -> Ok(call.payload)

get_version_result(call) ==
    IF call.code # "Ok" THEN Err(map_status_to_read_error(call.code)) ELSE Ok(call.payload)

\* put and delete
write_result(call) ==
    IF call.code # "Ok" THEN Err(map_status_to_write_error(call.code)) ELSE Ok(None)

Writes(call) == call.request.method \in {"put", "delete"}
Completed(c) == rpc[c] # None /\ rpc[c].code # "Pending"

\* what the method of c's call returns
Returned(c) ==
    CASE rpc[c].request.method = "get" -> get_result(rpc[c])
      [] rpc[c].request.method = "get_version" -> get_version_result(rpc[c])
      [] OTHER -> write_result(rpc[c])

Return(c) ==
    /\ Completed(c)
    /\ rpc' = [rpc EXCEPT ![c] = None]
    /\ UNCHANGED kv

-----------------------------------------------------------------------------
(* The store and the transport *)

Holds(precondition, key) ==
    \/ precondition.kind = "None"
    \/ precondition.kind = "DoesNotExist" /\ kv[key] = None
    \/ precondition.kind = "MatchesVersion" /\ kv[key] # None
                                            /\ kv[key].version = precondition.version

Accepted(request) == Holds(request.precondition, request.key)

Effect(request) ==
    CASE request.method = "put" -> [kv EXCEPT ![request.key] = request.value]
      [] request.method = "delete" -> [kv EXCEPT ![request.key] = None]
      [] OTHER -> kv

Answer(request) ==
    CASE request.method = "get" -> kv[request.key]
      [] request.method = "get_version" /\ kv[request.key] # None -> kv[request.key].version
      [] OTHER -> None

Pending(c) == rpc[c] # None /\ rpc[c].code = "Pending"

Serve(c) ==
    /\ Pending(c)
    /\ LET request == rpc[c].request
           accepted == Accepted(request)
       IN  /\ kv' = IF accepted THEN Effect(request) ELSE kv
           /\ rpc' = [rpc EXCEPT ![c] = [request |-> request,
                        code |-> IF accepted THEN "Ok" ELSE "FailedPrecondition",
                        payload |-> Answer(request),
                        applied |-> accepted /\ Writes(rpc[c])]]

\* a GetResponse that try_into refuses: a value without its version
ServeMalformed(c) ==
    /\ Pending(c) /\ rpc[c].request.method = "get" /\ kv[rpc[c].request.key] # None
    /\ rpc' = [rpc EXCEPT ![c].code = "Ok",
                          ![c].payload = [value |-> kv[rpc[c].request.key].value]]
    /\ UNCHANGED kv

\* The call ends with a status of the transport or of the server, whether the
\* store has served it or not.
Fails(c, code) ==
    /\ rpc[c] # None /\ rpc[c].code \in {"Pending", "Ok", "FailedPrecondition"}
    /\ rpc' = [rpc EXCEPT ![c].code = code, ![c].payload = None]
    /\ UNCHANGED kv

-----------------------------------------------------------------------------

StoreInit ==
    /\ kv = [k \in Keys |-> None]
    /\ rpc = [c \in Callers |-> None]

StoreNext ==
    \/ \E c \in Callers, k \in Keys :
        \/ get(c, k) \/ get_version(c, k)
        \/ \E p \in Precondition :
            \/ delete(c, k, p)
            \/ \E v \in VersionedValue : put(c, k, v, p)
    \/ \E c \in Callers :
        \/ Serve(c) \/ ServeMalformed(c) \/ Return(c)
        \/ \E code \in Code \ {"Ok", "FailedPrecondition"} : Fails(c, code)

StoreSpec == StoreInit /\ [][StoreNext]_store_vars

-----------------------------------------------------------------------------
(* Properties *)

\* Option<T>
Optional(x, T) == x = None \/ x \in T

\* the results of the methods: Option<VersionedValue>, Option<Version>, ()
IsResult(method, result) ==
    \/ result \in {Err(e) : e \in {"Network", "Internal", "FailedPrecondition"}}
    \/ /\ result.kind = "Ok"
       /\ CASE method = "get" -> Optional(result.value, VersionedValue)
            [] method = "get_version" -> Optional(result.value, Versions)
            [] OTHER -> result.value = None

StoreTypeOK ==
    /\ \A k \in Keys : Optional(kv[k], VersionedValue)
    /\ \A c \in Callers : rpc[c] # None =>
        /\ rpc[c].request.method \in {"get", "get_version", "put", "delete"}
        /\ rpc[c].request.key \in Keys
        /\ Optional(rpc[c].request.value, VersionedValue)
        /\ rpc[c].request.precondition \in Precondition
        /\ rpc[c].code \in Code \cup {"Pending"}
        /\ rpc[c].applied \in BOOLEAN
        /\ Completed(c) => IsResult(rpc[c].request.method, Returned(c))

\* What a caller may conclude from the result of put and delete, whatever
\* happened to the call on its way: Ok says the store applied the write, and
\* WriteError::FailedPrecondition says it did not; every other error leaves it
\* open (a reply that was lost after the write, map_status_to_write_error).
\* Callers that read again and retry on FailedPrecondition rely on it.
WriteResultIsTrue ==
    \A c \in Callers : (Completed(c) /\ Writes(rpc[c])) =>
        /\ Returned(c).kind = "Ok" => rpc[c].applied
        /\ Returned(c) = Err("FailedPrecondition") => ~rpc[c].applied

=============================================================================
