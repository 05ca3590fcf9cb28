------------------------------- MODULE Bridge -------------------------------
(***************************************************************************)
(* The two audio callbacks of jam-core/src/engine.rs.  The device calls    *)
(* them with blocks of its own size; the pipeline works in frames of F     *)
(* samples.  The input callback feeds the capture ring; the output         *)
(* callback makes frames until a fifo holds what the device needs, and     *)
(* hands that out.  Channels and sample formats are left out, and so is    *)
(* what a captured sample is: the ring is the number of samples it holds.  *)
(*                                                                         *)
(* Both devices run at one rate and take turns, but for a few hiccups: a   *)
(* callback out of turn, as a stall or a drift of the clocks brings about. *)
(* While the output callback runs, only the capture ring is shared.        *)
(***************************************************************************)
EXTENDS SampleFifo

CONSTANTS
    M,              \* the pipeline's samples are numbered modulo M
    F,              \* params.frame_samples
    CAPTURE,        \* capacity of the capture ring (a quarter of a second)
    HwBuffers,      \* buffer sizes a user asks for (--buffer)
    DeviceMin,      \* the device's smallest buffer ...
    DeviceMax,      \* ... and its largest
    MaxHiccups      \* bound: callbacks out of turn

ASSUME BridgeAssumption ==
    /\ M \in Nat \ {0} /\ Samples = 0 .. M - 1
    /\ F \in Nat \ {0} /\ CAPTURE \in Nat /\ MaxHiccups \in Nat
    /\ HwBuffers \subseteq Nat \ {0}
    /\ DeviceMin \in Nat \ {0} /\ DeviceMax \in Nat /\ DeviceMin <= DeviceMax
    \* The fifo takes a frame more than a block lacks (engine.rs 350-355).
    /\ DeviceMax + F <= CAP

VARIABLES
    hw,         \* audio.hw_buffer
    capture,    \* samples in the capture ring
    pending,    \* the output callback's fifo
    needed,     \* samples the device asked for; 0 between callbacks
    data,       \* samples handed out in this callback
    \* History: the number of the next sample, whose turn it is, periods begun
    \* since the last hiccup, hiccups left, and whether a sample of this period
    \* was dropped or silence put in its place.
    next, turn, calm, hiccups, gap

bridge == <<hw, capture, pending, needed, data, next, turn, calm, hiccups, gap>>

most(a, b) == IF a >= b THEN a ELSE b

\* negotiate: the size asked for, within the device's range.
negotiated(size) == least(most(size, DeviceMin), DeviceMax)
block == negotiated(hw)

\* Fault: the bound does not know the device's buffer.
drift_cap_frames == 4 * F

\* The bound on the samples kept against a drift of the clocks.
drift_cap == most(4 * F, 2 * hw)

BridgeInit ==
    /\ hw \in HwBuffers
    /\ capture = 0 /\ pending = new_fifo /\ needed = 0 /\ data = <<>>
    /\ next = 0 /\ turn = "in" /\ calm = 0 /\ hiccups = MaxHiccups /\ gap = FALSE

\* A callback begins in turn, the input callback a period with it, or out of
\* turn: the input callback even while the output callback runs.
InTurn(who, other) ==
    /\ needed = 0 /\ turn = who /\ turn' = other
    /\ calm' = IF who = "in" THEN least(calm + 1, F + 1) ELSE calm
    /\ UNCHANGED hiccups
Hiccup ==
    /\ hiccups > 0 /\ hiccups' = hiccups - 1
    /\ calm' = 0 /\ UNCHANGED turn

\* A block is captured; a full ring takes no more.
Input ==
    /\ InTurn("in", "out") \/ Hiccup
    /\ capture' = least(CAPTURE, capture + block)
    /\ gap' = (capture + block > CAPTURE)
    /\ UNCHANGED <<hw, pending, needed, data, next>>

OutputBegin ==
    /\ needed = 0
    /\ InTurn("out", "in") \/ Hiccup
    /\ needed' = block
    /\ UNCHANGED <<hw, capture, pending, data, next, gap>>

\* The next frame, its samples numbered on from the last.
frame_buf == [i \in 1 .. F |-> (next + i - 1) % M]

\* One frame: what is too old is dropped, then F captured samples or silence go
\* through the pipeline.
bounded == least(capture, drift_cap)
Fill ==
    /\ needed > 0 /\ data = <<>> /\ pending.len < needed
    /\ capture' = IF bounded >= F THEN bounded - F ELSE bounded
    /\ gap' = (gap \/ capture > drift_cap \/ bounded < F)
    /\ pending' = push(pending, frame_buf)
    /\ next' = (next + F) % M
    /\ UNCHANGED <<hw, needed, data, turn, calm, hiccups>>

take == least(needed - Len(data), F)
Drain ==
    /\ needed > 0 /\ (data # <<>> \/ pending.len >= needed) /\ Len(data) < needed
    /\ data' = data \o popped(pending, take)
    /\ pending' = pop(pending, take)
    /\ UNCHANGED <<hw, capture, needed, next, turn, calm, hiccups, gap>>

OutputEnd ==
    /\ needed > 0 /\ Len(data) = needed
    /\ needed' = 0 /\ data' = <<>>
    /\ UNCHANGED <<hw, capture, pending, next, turn, calm, hiccups, gap>>

BridgeNext == Input \/ OutputBegin \/ Fill \/ Drain \/ OutputEnd

BridgeSpec == BridgeInit /\ [][BridgeNext]_bridge

-----------------------------------------------------------------------------
(* Properties.                                                             *)

BridgeTypeOK ==
    /\ hw \in HwBuffers /\ capture \in 0 .. CAPTURE
    /\ pending \in Fifos
    /\ needed \in {0, block}
    /\ data \in Seq(Samples) /\ Len(data) <= needed
    /\ next \in Samples
    /\ turn \in {"in", "out"} /\ calm \in 0 .. F + 1 /\ hiccups \in 0 .. MaxHiccups
    /\ gap \in BOOLEAN

\* Two devices that take turns are heard without a gap after at most F periods,
\* whatever the buffer size and wherever a hiccup has left the capture ring: no
\* callback starves and nothing is dropped (engine.rs 408-432).
SteadyIsHeard == calm > F => ~gap

Device == INSTANCE Playback WITH queue <- contents(pending)

\* The device gets the samples of the pipeline in order, none twice and none left
\* out, at every position of the ring (engine.rs 363-383, accum.rs 32-82).
InOrder == Device!Spec
=============================================================================
