------------------------------- MODULE Seq16 -------------------------------
(***************************************************************************)
(* The wraparound-safe sequence arithmetic of jam-protocol/src/seq.rs.     *)
(* The code computes on u16 (Half = 32768); Half is a parameter so that    *)
(* TLC can run round the ring in a few steps.                              *)
(***************************************************************************)
EXTENDS Integers

CONSTANT Half   \* half the sequence space; 32768 for u16

ASSUME HalfAssumption == Half \in Nat \ {0}

SeqSpace == 2 * Half

\* The values of a u16 sequence field.
Seqs == 0 .. SeqSpace - 1

\* Fault: an addition that does not wrap.
add_unwrapped(a, b) == a + b

\* u16::wrapping_sub and u16::wrapping_add.
wrapping_sub(a, b) == (a - b) % SeqSpace
wrapping_add(a, b) == (a + b) % SeqSpace

\* `x as i16`: the two's complement reading of a u16.
as_i16(x) == IF x < Half THEN x ELSE x - SeqSpace

diff(a, b) == as_i16(wrapping_sub(a, b))

\* Fault: the numbers compared as they are.
newer_plain(a, b) == a > b

newer_than(a, b) == diff(a, b) > 0

\* Fault: the counter does not wrap.
wire_unwrapped(n) == n

\* The number SeqGen stamps on the n-th packet of a sender (it starts at 0 and
\* adds one, wrapping, for each packet).
Wire(n) == n % SeqSpace
=============================================================================
