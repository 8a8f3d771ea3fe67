------------------------------- MODULE Loglet -------------------------------
(***************************************************************************)
(* The contract of a loglet: trait LogletBase of                           *)
(* crates/bifrost/src/loglet/mod.rs, as its doc comments state it.  The    *)
(* source has no provider; this is the most permissive loglet the          *)
(* contract allows, the one every provider has to implement.  The methods  *)
(* are the trait's; the buffer and the step that makes a batch durable are *)
(* this module's reading of the rules of lines 75-80 and of seal's doc     *)
(* comment, the first state is section 4.1 of the specification.           *)
(*                                                                         *)
(* A payload is the number of the append that brought it, counted over all *)
(* calls: the order of the calls can be read off the log.  Trimmed records *)
(* stay in `log`; what a reader can reach is decided by `trim_point`.      *)
(* Operations fail (OperationError) without a trace, so failures are not   *)
(* steps; AppendError::Sealed is, since it is the contract's own.          *)
(***************************************************************************)
EXTENDS SequenceNumber, Sequences

CONSTANTS
    Readers,        \* the read streams that may be created
    MaxAppends,     \* bound: payloads handed to append and append_batch
    MaxBatch,       \* bound: payloads of one append_batch
    None

VARIABLES
    log,            \* log[o]: the record durably committed at offset o
    buffer,         \* batches accepted and not yet durable, in the order of the calls
    appends,        \* payloads handed in so far
    trim_point,     \* Option<Offset>: None until the first trim that removes a slot
    sealed,         \* a seal() has succeeded
    sealed_tail,    \* the offset of the first TailState::Sealed response, or None
    stream,         \* stream[r]: None, or r's first offset, read pointer and last offset
    delivered       \* delivered[r]: the records r has yielded (history)

vars == <<log, buffer, appends, trim_point, sealed, sealed_tail, stream, delivered>>

Offsets == INVALID..MAX
Record(o) == [offset |-> o, payload |-> log[o]]

-----------------------------------------------------------------------------

\* "The tail is *the first unwritten position* in the loglet."
tail == Len(log) + 1
find_tail_response == [sealed |-> sealed, offset |-> tail]

\* the default implementation: the upper layers call find_tail
last_known_unsealed_tail == None

get_trim_point == trim_point

\* "the slot before the first readable record"
first_readable == IF trim_point = None THEN OLDEST ELSE trim_point + 1

trim_target_Prev(t) == IF t < tail THEN t ELSE prev(tail)

\* a trim point at or beyond the tail "is equivalent to trim(find_tail() - 1)"
trim_target(t) == IF t < tail THEN t ELSE tail - 1

trimmed_InvalidIsAnOffset(t) ==
    IF trim_point # None /\ trim_target(t) <= trim_point THEN trim_point ELSE trim_target(t)

\* The trim point after trim(t): INVALID trims nothing.  A prefix that is
\* trimmed already stays so: the trim point is the slot before the first
\* readable record (get_trim_point), and a trim makes no record readable.
trimmed(t) ==
    IF trim_target(t) = INVALID \/ (trim_point # None /\ trim_target(t) <= trim_point)
    THEN trim_point
    ELSE trim_target(t)

\* "the record at `from`, or the next available record if `from` isn't defined"
read_opt(from) ==
    LET o == IF from < first_readable THEN first_readable ELSE from
    IN  IF o < tail THEN Record(o) ELSE None

is_terminated(r) == stream[r].to # None /\ stream[r].read_pointer > stream[r].to

-----------------------------------------------------------------------------

\* append_batch accepts the payloads; the call returns when Committed or Refused
\* answers it.
append_batch(n) ==
    /\ appends + n <= MaxAppends
    /\ buffer' = Append(buffer, [i \in 1..n |-> appends + i])
    /\ appends' = appends + n
    /\ UNCHANGED <<log, trim_point, sealed, sealed_tail, stream, delivered>>

append == append_batch(1)

\* the batch is durable, all of it at once; `rest` is left in the buffer
Durable(batch, rest) ==
    /\ buffer # <<>>
    /\ log' = log \o batch
    /\ buffer' = rest
    /\ UNCHANGED <<appends, trim_point, sealed, sealed_tail, stream, delivered>>

Committed_AnyCall ==
    sealed_tail = None /\ Durable(buffer[Len(buffer)], SubSeq(buffer, 1, Len(buffer) - 1))

\* The oldest batch is durable, and its call returns the offset of its first
\* record.  After a seal this SHOULD NOT happen; after the first Sealed
\* response it MUST NOT.
Committed == sealed_tail = None /\ Durable(Head(buffer), Tail(buffer))

\* AppendError::Sealed
Refused ==
    /\ buffer # <<>> /\ sealed
    /\ buffer' = Tail(buffer)
    /\ UNCHANGED <<log, appends, trim_point, sealed, sealed_tail, stream, delivered>>

\* find_tail changes the loglet once: its first Sealed response fixes the tail.
find_tail ==
    /\ find_tail_response.sealed /\ sealed_tail = None
    /\ sealed_tail' = find_tail_response.offset
    /\ UNCHANGED <<log, buffer, appends, trim_point, sealed, stream, delivered>>

trim(t) ==
    /\ trim_point' = trimmed(t)
    /\ UNCHANGED <<log, buffer, appends, sealed, sealed_tail, stream, delivered>>

seal ==
    /\ sealed' = TRUE
    /\ UNCHANGED <<log, buffer, appends, trim_point, sealed_tail, stream, delivered>>

create_read_stream(r, from, to) ==
    /\ stream[r] = None
    /\ stream' = [stream EXCEPT ![r] = [from |-> from, read_pointer |-> from, to |-> to]]
    /\ UNCHANGED <<log, buffer, appends, trim_point, sealed, sealed_tail, delivered>>

Yield(r, record, pointer) ==
    /\ stream[r] # None /\ ~is_terminated(r)
    /\ record # None
    /\ stream[r].to # None => record.offset <= stream[r].to
    /\ delivered' = [delivered EXCEPT ![r] = Append(@, record)]
    /\ stream' = [stream EXCEPT ![r].read_pointer = pointer]
    /\ UNCHANGED <<log, buffer, appends, trim_point, sealed, sealed_tail>>

poll_next_SkipsOne(r) ==
    LET record == read_opt(stream[r].read_pointer)
    IN  Yield(r, record, IF record = None THEN INVALID ELSE add(record.offset, 2))

\* The stream yields the record at its read pointer, which then "points to the
\* next offset to be read".
poll_next(r) ==
    LET record == read_opt(stream[r].read_pointer)
    IN  Yield(r, record, IF record = None THEN INVALID ELSE next(record.offset))

-----------------------------------------------------------------------------

Init ==
    /\ log = <<>> /\ buffer = <<>> /\ appends = 0
    /\ trim_point = None
    /\ sealed = FALSE /\ sealed_tail = None
    /\ stream = [r \in Readers |-> None]
    /\ delivered = [r \in Readers |-> <<>>]

Next ==
    \/ append
    \/ \E n \in 2..MaxBatch : append_batch(n)
    \/ Committed \/ Refused
    \/ find_tail \/ seal
    \/ \E t \in Offsets : trim(t)
    \/ \E r \in Readers, from \in Offsets, to \in Offsets \cup {None} :
            create_read_stream(r, from, to)
    \/ \E r \in Readers : poll_next(r)

Spec == Init /\ [][Next]_vars

-----------------------------------------------------------------------------
(* Properties *)

Payloads == 1..MaxAppends

TypeOK ==
    /\ log \in Seq(Payloads) /\ tail <= MAX
    /\ buffer \in Seq(Seq(Payloads))
    /\ appends \in 0..MaxAppends
    /\ trim_point \in (OLDEST..MAX) \cup {None}
    /\ sealed \in BOOLEAN
    /\ sealed_tail \in (OLDEST..MAX) \cup {None}
    /\ \A r \in Readers :
        /\ stream[r] = None \/ stream[r] \in [from : Offsets, read_pointer : Offsets,
                                             to : Offsets \cup {None}]
        /\ delivered[r] \in Seq([offset : OLDEST..MAX, payload : Payloads])

\* "The order of records follows the order of append calls": whatever was
\* buffered, refused at a seal or committed after it, the log holds the
\* payloads in the order in which they were handed in, none of them twice.
RecordsInCallOrder == \A i, j \in DOMAIN log : i < j => log[i] < log[j]

\* P8, append-read round trip: a record that becomes durable can be read at its
\* offset, also when trim was called with an offset beyond the tail before the
\* append (trim, "equivalent to trim(find_tail() - 1)": such a trim must not
\* reach the records that follow it).
AppendReadRoundTrip ==
    [][\A o \in (Len(log) + 1)..Len(log') : read_opt(o)' = [offset |-> o, payload |-> log'[o]]]_vars

\* A read stream yields records of the log in strict offset order, from its
\* first offset to its last, and passes over a record only if that record was
\* trimmed: a trim that overtakes a reader costs it the trimmed records and
\* nothing else (read, "the next available record if `from` isn't defined").
ReadersSeeTheLog ==
    \A r \in Readers : \A i \in DOMAIN delivered[r] :
        LET record == delivered[r][i]
            before == IF i > 1 THEN delivered[r][i - 1].offset
                      ELSE IF stream[r].from = INVALID THEN INVALID ELSE stream[r].from - 1
        IN  /\ record = Record(record.offset)
            /\ before < record.offset
            /\ \A o \in (before + 1)..(record.offset - 1) :
                    trim_point # None /\ o <= trim_point
            /\ stream[r].to # None => record.offset <= stream[r].to

\* "An empty loglet.  A log is empty when trim_point.next() == tail.prev()"
\* (the trait's doc comment, and invariant 1 of the specification), a trim
\* point of None read as INVALID.
LogletIsEmpty == first_readable = tail

EmptyAsDocumented ==
    LogletIsEmpty <=> next(IF trim_point = None THEN INVALID ELSE trim_point) = prev(tail)

=============================================================================
