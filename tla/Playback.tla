------------------------------ MODULE Playback ------------------------------
(***************************************************************************)
(* What the output callback of jam-core/src/engine.rs promises the device: *)
(* the samples of the pipeline in order, none twice and none left out.     *)
(* The k-th sample of the pipeline has the value k, counted modulo M.      *)
(***************************************************************************)
EXTENDS Integers, Sequences

CONSTANTS M, F      \* F: samples in a frame

VARIABLES
    queue,  \* samples the pipeline has made and the device has not had
    data,   \* what this callback has written to the device so far
    next    \* value of the pipeline's next sample

Init == queue = <<>> /\ data = <<>> /\ next = 0

Frame ==
    /\ queue' = queue \o [i \in 1 .. F |-> (next + i - 1) % M]
    /\ next' = (next + F) % M
    /\ data' = data

Hand(n) ==
    /\ n <= Len(queue)
    /\ data' = data \o SubSeq(queue, 1, n)
    /\ queue' = SubSeq(queue, n + 1, Len(queue))
    /\ next' = next

Return == data' = <<>> /\ UNCHANGED <<queue, next>>

\* The streams are dropped, and made anew when the session is started again.
Restart == queue' = <<>> /\ data' = <<>> /\ next' = 0

Next == Frame \/ (\E n \in 1 .. F : Hand(n)) \/ Return \/ Restart

Spec == Init /\ [][Next]_<<queue, data, next>>
=============================================================================
