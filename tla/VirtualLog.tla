----------------------------- MODULE VirtualLog -----------------------------
(***************************************************************************)
(* What a log promises whatever its chain of segments looks like: records  *)
(* are appended at the tail and stay where they are, and a new segment     *)
(* starts at the tail, in one step, with the next segment index.  The nth  *)
(* record appended carries the payload n.                                  *)
(***************************************************************************)
EXTENDS Integers, Sequences

VARIABLES
    records,        \* records[lsn]: the payload at lsn
    segments        \* the chain: index and base_lsn of every segment

vars == <<records, segments>>

tail_lsn == Len(records) + 1
tail_segment == segments[Len(segments)]

Init ==
    /\ records = <<>>
    /\ segments = <<[index |-> 0, base_lsn |-> 1]>>

AppendRecord ==
    /\ records' = Append(records, tail_lsn)
    /\ UNCHANGED segments

SealAndExtend ==
    /\ segments' = Append(segments, [index |-> tail_segment.index + 1, base_lsn |-> tail_lsn])
    /\ UNCHANGED records

Next == AppendRecord \/ SealAndExtend

Spec == Init /\ [][Next]_vars

=============================================================================
