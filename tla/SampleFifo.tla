----------------------------- MODULE SampleFifo -----------------------------
(***************************************************************************)
(* SampleFifo of jam-audio/src/accum.rs: a queue of samples as a ring of   *)
(* CAP cells, with the copies of push and pop split where they wrap.  A    *)
(* fifo is a record; one thread uses it.  It stages decoded samples        *)
(* (playout.rs) and bridges hardware buffers and codec frames (engine.rs). *)
(***************************************************************************)
EXTENDS Integers, Sequences

CONSTANTS
    Samples,    \* sample values
    CAP         \* capacity

ASSUME FifoAssumption == CAP \in Nat \ {0} /\ 0 \in Samples

Cells == 0 .. CAP - 1
Fifos == [buf : [Cells -> Samples], head : Cells, len : 0 .. CAP]

least(a, b) == IF a <= b THEN a ELSE b

\* SampleFifo::new.
new_fifo == [buf |-> [k \in Cells |-> 0], head |-> 0, len |-> 0]

\* How many of the oldest samples must go for n new ones.
overflow(f, n) == IF f.len + n > CAP THEN f.len + n - CAP ELSE 0

\* Fault: the part of a block that wraps is written one cell off.
written_off_by_one(buf, tail, samples) ==
    LET first == least(CAP - tail, Len(samples))
    IN  [k \in Cells |->
            IF k \in tail .. tail + first - 1 THEN samples[k - tail + 1]
            ELSE IF k < Len(samples) - first - 1 THEN samples[first + k + 1]
            ELSE buf[k]]

\* The ring with samples copied to tail and, past its end, to its start.
written(buf, tail, samples) ==
    LET first == least(CAP - tail, Len(samples))
    IN  [k \in Cells |->
            IF k \in tail .. tail + first - 1 THEN samples[k - tail + 1]
            ELSE IF k < Len(samples) - first THEN samples[first + k + 1]
            ELSE buf[k]]

\* A block that fills the ring alone: its newest samples replace everything.
push_giant(samples) ==
    [buf |-> [k \in Cells |-> samples[Len(samples) - CAP + k + 1]], head |-> 0, len |-> CAP]

push(f, samples) ==
    LET gone == overflow(f, Len(samples))
        start == (f.head + gone) % CAP
        tail == (start + (f.len - gone)) % CAP
    IN  IF Len(samples) >= CAP THEN push_giant(samples)
        ELSE [buf |-> written(f.buf, tail, samples), head |-> start,
              len |-> f.len - gone + Len(samples)]

\* The two copies of pop: the cells from head on, and the rest from 0 on.
popped(f, n) ==
    LET first == least(CAP - f.head, n)
    IN  [i \in 1 .. n |->
            IF i <= first THEN f.buf[f.head + i - 1] ELSE f.buf[i - first - 1]]

\* Fault: the read position is moved without wrapping.
pop_unwrapped(f, n) == [f EXCEPT !.head = @ + n, !.len = @ - n]

\* What is left; of a fifo with fewer than n samples, all.
pop(f, n) ==
    IF f.len < n THEN f ELSE [f EXCEPT !.head = (@ + n) % CAP, !.len = @ - n]

\* The queue that the ring stands for, the oldest sample first.
contents(f) == [i \in 1 .. f.len |-> f.buf[(f.head + i - 1) % CAP]]
=============================================================================
