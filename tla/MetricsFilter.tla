---------------------------- MODULE MetricsFilter ----------------------------
(***************************************************************************)
(* The filter of the admin service's metrics endpoint                      *)
(* (crates/admin/src/rest_api/service_metrics.rs): filter_metrics and the  *)
(* MetricGroup state machine it drives, one line of the Prometheus text at *)
(* a time.                                                                 *)
(*                                                                         *)
(* A line is one of five texts, one for each way the loop can treat a      *)
(* line.  The result is the sequence of its lines: the '\n' pushed before  *)
(* a group is the empty line between two groups.                           *)
(***************************************************************************)
EXTENDS Integers, Sequences, SequencesExt

CONSTANTS
    MaxLines,       \* bound: lines of an input
    None            \* Option::None of `is_match`

Wanted   == "# TYPE restate_services_a counter"
Unwanted == "# TYPE restate_b counter"
Short    == "# TYPE "
Sample   == "restate_services_a 1"
Blank    == ""
Line     == {Wanted, Unwanted, Short, Sample, Blank}

VARIABLES
    input,          \* the lines of prometheus.render()
    position,       \* lines the loop has taken
    state,          \* the MetricGroup
    result          \* the lines of the filtered text

vars == <<input, position, state, result>>

-----------------------------------------------------------------------------
(* What the loop asks of a line. *)

starts_with_type(line) == line \in {Wanted, Unwanted, Short}
is_empty(line) == line = Blank

\* Some(the metric's name has a retained prefix), None without a third part
in_matching_group(line) == IF line = Short THEN None ELSE line = Wanted

-----------------------------------------------------------------------------
(* enum MetricGroup *)

Matching(items)      == [kind |-> "Matching", items |-> items]
MaybeMatching(items) == [kind |-> "MaybeMatching", items |-> items]
NotMatching          == [kind |-> "NotMatching"]

on_next_line_NotPushed(self, line, is_match) ==
    CASE self.kind = "Matching" -> Matching(Append(self.items, line))
      [] self.kind = "MaybeMatching" /\ is_match = TRUE -> Matching(self.items)
      [] self.kind = "MaybeMatching" /\ is_match = FALSE -> NotMatching
      [] self.kind = "MaybeMatching" /\ is_match = None -> MaybeMatching(Append(self.items, line))
      [] self.kind = "NotMatching" -> self

on_next_line(self, line, is_match) ==
    CASE self.kind = "Matching" -> Matching(Append(self.items, line))
      [] self.kind = "MaybeMatching" /\ is_match = TRUE -> Matching(Append(self.items, line))
      [] self.kind = "MaybeMatching" /\ is_match = FALSE -> NotMatching
      [] self.kind = "MaybeMatching" /\ is_match = None -> MaybeMatching(Append(self.items, line))
      [] self.kind = "NotMatching" -> self

\* on_group_end, what it leaves in the buffer
flushed(self, buffer) ==
    IF self.kind = "Matching"
    THEN (IF buffer # <<>> THEN Append(buffer, Blank) ELSE buffer) \o self.items
    ELSE buffer

on_group_end_SameGroup(self) == self

\* on_group_end, the state it returns
on_group_end(self) == MaybeMatching(<<>>)

-----------------------------------------------------------------------------
(* filter_metrics: the three branches of the loop's body. *)

line == input[position + 1]

Take == position < Len(input) /\ position' = position + 1 /\ UNCHANGED input

TypeLine ==
    /\ Take /\ starts_with_type(line)
    /\ state' = on_next_line(state, line, in_matching_group(line))
    /\ UNCHANGED result

BlankLine ==
    /\ Take /\ ~starts_with_type(line) /\ is_empty(line)
    /\ result' = flushed(state, result)
    /\ state' = on_group_end(state)

OtherLine ==
    /\ Take /\ ~starts_with_type(line) /\ ~is_empty(line)
    /\ state' = on_next_line(state, line, None)
    /\ UNCHANGED result

Init ==
    /\ input \in BoundedSeq(Line, MaxLines)
    /\ position = 0
    /\ state = NotMatching
    /\ result = <<>>

Next == TypeLine \/ BlankLine \/ OtherLine

Spec == Init /\ [][Next]_vars

-----------------------------------------------------------------------------
(* The filter the endpoint is meant to be: the text is a sequence of       *)
(* groups, the runs of lines between empty lines; a group is wanted when   *)
(* the first of its # TYPE lines that names a metric names one with a      *)
(* retained prefix; the wanted groups are kept whole and in order, with    *)
(* one empty line between two of them.                                     *)

Decides(l) == starts_with_type(l) /\ in_matching_group(l) # None

\* the groups of `lines` that an empty line ends, as <<first, last>>
Groups(lines) ==
    {g \in (1..Len(lines)) \X (1..Len(lines)) :
        /\ g[1] <= g[2] /\ g[2] < Len(lines)
        /\ \A i \in g[1]..g[2] : ~is_empty(lines[i])
        /\ is_empty(lines[g[2] + 1])
        /\ g[1] > 1 => is_empty(lines[g[1] - 1])}

IsWanted(lines, g) ==
    LET first == SelectInSubSeq(lines, g[1], g[2], Decides)
    IN  first # 0 /\ in_matching_group(lines[first]) = TRUE

Joined(lines, groups) ==
    LET ordered == SetToSortSeq(groups, LAMBDA g, h : g[1] < h[1])
    IN  FlattenSeq([k \in DOMAIN ordered |->
            (IF k = 1 THEN <<>> ELSE <<Blank>>) \o SubSeq(lines, ordered[k][1], ordered[k][2])])

Filtered(lines, groups) == Joined(lines, {g \in groups : IsWanted(lines, g)})

\* the groups that also follow an empty line
Enclosed(lines) == {g \in Groups(lines) : g[1] > 1}

Taken == SubSeq(input, 1, position)

-----------------------------------------------------------------------------
(* Properties *)

TypeOK ==
    /\ input \in BoundedSeq(Line, MaxLines)
    /\ position \in 0..Len(input)
    /\ result \in Seq(Line)
    /\ \/ state = NotMatching
       \/ /\ state \in {Matching(state.items), MaybeMatching(state.items)}
          /\ state.items \in Seq(Line \ {Blank})
          /\ state.kind = "Matching" => state.items # <<>>

\* After every line, the result is the wanted groups among those that an empty
\* line has ended and an empty line precedes, whole, in order, one empty line
\* apart: the three states of MetricGroup, the buffering of a group whose
\* # TYPE line is still to come or names no metric, and the flush at the end
\* of a group add up to the filter, for every group but one at the very start.
FilterKeepsWantedGroups == result = Filtered(Taken, Enclosed(Taken))

\* Section 6 of the specification: the endpoint's text is "filtered to metric
\* families whose name begins with a configured prefix", every such family
\* emitted with its # TYPE line and its samples.
EveryWantedGroupIsKept == result = Filtered(Taken, Groups(Taken))

=============================================================================
