--------------------------- MODULE SequenceNumber ---------------------------
(***************************************************************************)
(* The algebra shared by log sequence numbers (Lsn) and loglet offsets     *)
(* (LogletOffset): the `SequenceNumber` trait as `LogletOffset`            *)
(* implements it in crates/bifrost/src/loglet/mod.rs.                      *)
(*                                                                         *)
(* The code's numbers are u64.  MAX stands for u64::MAX: every operation   *)
(* that could pass it saturates there, so a model with a small MAX meets   *)
(* the same boundary cases as the code does at 2^64 - 1.                   *)
(***************************************************************************)
EXTENDS Integers

CONSTANT MAX        \* the largest sequence number (u64::MAX in the code)

ASSUME MAX \in Nat /\ MAX >= 2

INVALID == 0        \* "never written / never trimmed"
OLDEST  == 1        \* the first valid position

SequenceNumbers == INVALID..MAX

\* u64::saturating_add
saturating_add(a, b) == IF a + b > MAX THEN MAX ELSE a + b

\* impl Add<usize> for LogletOffset
add(offset, rhs) == saturating_add(offset, rhs)

\* SequenceNumber::next: saturates to MAX
next(seq) == saturating_add(seq, 1)

\* SequenceNumber::prev: saturates to OLDEST, INVALID included
prev(seq) == IF seq - 1 < OLDEST THEN OLDEST ELSE seq - 1

=============================================================================
