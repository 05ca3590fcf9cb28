------------------------------- MODULE Playout -------------------------------
(***************************************************************************)
(* The receive chain of one stream: StreamPlayout (jam-core/src/playout.rs)*)
(* with PlayoutController and the jitter buffer of jam-audio/src/jitter.rs,*)
(* run by the callback in process_frame (pipeline.rs), while the network   *)
(* pushes and the control thread joins and removes the peer.               *)
(*                                                                         *)
(* A callback tick, a push and a control action are one step each; module  *)
(* JitterBuffer takes push and pop apart.  A slot of the ring is the       *)
(* sequence number it stores.  Samples are counted in parts of a frame     *)
(* (FRAME parts, 120 samples in the code), which is what the resampled path*)
(* needs to decide how many packets a tick takes.                          *)
(***************************************************************************)
EXTENDS Seq16

CONSTANTS
    SLOTS,              \* ring size (64 in the code)
    FRAME,              \* parts of a frame
    MinTarget, MaxTarget,  \* min_frames, max_frames (2 and 20)
    DriftDeadband,      \* deadband with drift correction (3); 1 without
    ResetAfterMisses,   \* reset_after_misses (200)
    FirstSeq,           \* the first sender's first sequence number
    LastSeq,            \* bound: where the sender stops unless all is calm
    StrayNumbers,       \* numbers that packets of an earlier sender can have
    Window,             \* how old a repeated or reordered packet may be
    MaxAhead,           \* bound: how far the sender gets ahead of the reader
    MaxJoins,           \* bound: restarts of the sender and joins
    MaxStrays           \* bound: packets of an earlier sender that still arrive

ASSUME PlayoutAssumption ==
    /\ {SLOTS, ResetAfterMisses} \subseteq Nat \ {0} /\ FRAME \in Nat \ {0, 1}
    /\ {MinTarget, MaxTarget, DriftDeadband, Window, MaxAhead, MaxJoins, MaxStrays}
          \subseteq Nat
    /\ MinTarget <= MaxTarget
    /\ FirstSeq \in Seqs /\ LastSeq \in Seqs /\ StrayNumbers \subseteq Seqs

\* The packets between the oldest that may still arrive and the sender's next are
\* fewer than half of the sequence numbers, whose order is told.
ASSUME RoomAssumption ==
    MaxAhead + MaxTarget + ResetAfterMisses + Window + 8 < Half

\* Ticks of regular arrivals after which the stream is expected to sound: two
\* outage limits, what was buffered, and a priming.
CalmTicks == 2 * ResetAfterMisses + MaxAhead + MaxTarget

VARIABLES
    drift,        \* params.drift_correction
    jb,           \* the jitter buffer
    pc,           \* the playout: controller, insert_pending and staging length
    active, last_active,   \* the stream's flag, and the callback's copy of it
    sseq,         \* the sender's next sequence number
    sent,         \* how many packets it has sent, as far as they may still arrive
    joins, strays,         \* what is left of the bounds
    foreign,      \* history: since its last reset the buffer has taken a packet
                  \* of an earlier sender
    calm          \* 0, or ticks since arrivals became regular

vars == <<drift, jb, pc, active, last_active, sseq, sent, joins, strays, foreign, calm>>

EMPTY == -1

Buffers ==
    [slots : [0 .. SLOTS - 1 -> Seqs \cup {EMPTY}], next : Seqs, newest : Seqs,
     started : BOOLEAN]

Controls ==
    [primed : BOOLEAN, misses : 0 .. ResetAfterMisses - 1,
     target : MinTarget .. MaxTarget, pending : {"None", "DropOne", "InsertOne"},
     insert : BOOLEAN, staging : 0 .. FRAME, fresh : BOOLEAN]

TypeOK ==
    /\ drift \in BOOLEAN /\ jb \in Buffers /\ pc \in Controls
    /\ active \in BOOLEAN /\ last_active \in BOOLEAN
    /\ sseq \in Seqs /\ sent \in 0 .. Window
    /\ joins \in 0 .. MaxJoins /\ strays \in 0 .. MaxStrays
    /\ foreign \in BOOLEAN /\ calm \in 0 .. CalmTicks

-----------------------------------------------------------------------------
(* The jitter buffer, an operation at a time.                              *)

Idx(s) == s % SLOTS

new_buffer ==
    [slots |-> [i \in 0 .. SLOTS - 1 |-> EMPTY], next |-> 0, newest |-> 0,
     started |-> FALSE]

depth(b) == IF b.started THEN diff(b.newest, b.next) + 1 ELSE 0

stored(b, s) == b.slots[Idx(s)] = s

push(b, s) ==
    IF ~b.started
    THEN [b EXCEPT !.slots[Idx(s)] = s, !.next = s, !.newest = s, !.started = TRUE]
    ELSE IF newer_than(b.next, s) THEN b
    ELSE [b EXCEPT !.slots[Idx(s)] = s,
                   !.newest = IF newer_than(s, @) THEN s ELSE @]

\* pop_next and skip_next: the position moves on, whatever the slot holds.
advance(b) ==
    IF ~b.started THEN b
    ELSE [b EXCEPT !.slots[Idx(b.next)] = IF stored(b, b.next) THEN EMPTY ELSE @,
                   !.next = wrapping_add(@, 1)]

hits(b) == b.started /\ stored(b, b.next)

reset(b) == [b EXCEPT !.slots = new_buffer.slots, !.started = FALSE]

-----------------------------------------------------------------------------
(* PlayoutController and StreamPlayout.                                    *)

new_playout ==
    [primed |-> FALSE, misses |-> 0, target |-> MinTarget, pending |-> "None",
     insert |-> FALSE, staging |-> 0, fresh |-> TRUE]

deadband == IF drift THEN DriftDeadband ELSE 1

\* Fault: primes only at a depth that is exactly the target.
pre_pop_exactly(p, b) ==
    IF ~p.primed /\ b.started /\ depth(b) = p.target
    THEN [p EXCEPT !.primed = TRUE, !.misses = 0] ELSE p

pre_pop(p, b) ==
    IF ~p.primed /\ b.started /\ depth(b) >= p.target
    THEN [p EXCEPT !.primed = TRUE, !.misses = 0] ELSE p

\* Fault: the buffer is never made deeper.
observe_depth_only_drops(p, d) ==
    IF p.pending # "None" \/ ~p.primed THEN p
    ELSE [p EXCEPT !.pending = IF d > p.target + deadband THEN "DropOne" ELSE "None"]

observe_depth(p, d) ==
    IF p.pending # "None" \/ ~p.primed THEN p
    ELSE [p EXCEPT !.pending = IF d > p.target + deadband THEN "DropOne"
                               ELSE IF d < p.target - deadband THEN "InsertOne"
                               ELSE "None"]

\* post_pop declares an outage.
outage(p, hit) == ~hit /\ p.misses + 1 >= ResetAfterMisses

\* What is in hand during a tick: buffer, playout and the outcome of the last
\* pull.  ok says that a stored frame decodes; target, what post_pop makes of the
\* target.
pull(x, ok, target) ==
    LET inserts == x.pc.insert
        b == IF inserts THEN x.jb ELSE advance(x.jb)
        hit == ~inserts /\ hits(x.jb) /\ ok
        p == [x.pc EXCEPT !.insert = FALSE]
    IN  IF outage(p, hit)
        THEN [jb |-> reset(b), outcome |-> "outage",
              pc |-> [p EXCEPT !.primed = FALSE, !.misses = 0, !.pending = "None"]]
        ELSE [jb |-> b, outcome |-> IF hit THEN "frame" ELSE "concealed",
              pc |-> observe_depth(
                        [p EXCEPT !.misses = IF hit THEN 0 ELSE @ + 1, !.target = target],
                        depth(b))]

\* Fault: taking the adjustment does not clear it.
apply_step_adjustment_kept(x) ==
    [x EXCEPT !.jb = IF x.pc.pending = "DropOne" THEN advance(@) ELSE @,
              !.pc.insert = (x.pc.pending = "InsertOne") \/ @]

\* At a quiet moment the pending correction is taken.
apply_step_adjustment(x) ==
    [x EXCEPT !.jb = IF x.pc.pending = "DropOne" THEN advance(@) ELSE @,
              !.pc.insert = (x.pc.pending = "InsertOne") \/ @,
              !.pc.pending = "None"]

reset_stream(p) ==
    [p EXCEPT !.primed = FALSE, !.misses = 0, !.pending = "None", !.insert = FALSE,
              !.staging = 0, !.fresh = TRUE]

\* Decoding outcomes, re-evaluated targets (a period of post_pop may end at any
\* frame, and any jitter be found), low energy, and resampled lengths; in calm
\* times every frame decodes, the target stands, all is quiet and the sender's
\* clock agrees.  A fresh resampler keeps back its first samples.
Decodes == IF calm > 0 THEN {TRUE} ELSE BOOLEAN
Targets(p) == IF calm > 0 THEN {p.target} ELSE {p.target} \cup MinTarget .. MaxTarget
Quiets == IF calm > 0 THEN {TRUE} ELSE BOOLEAN
Lengths(fresh) ==
    IF fresh THEN {FRAME - 1}
    ELSE IF calm > 0 THEN {FRAME} ELSE {FRAME - 1, FRAME, FRAME + 1}

pulls(x) == {pull(x, ok, t) : ok \in Decodes, t \in Targets(x.pc)}

\* A frame pulled on the resampled path goes through the resampler into staging.
staged(x) ==
    UNION {IF y.outcome = "outage" THEN {[y EXCEPT !.pc = reset_stream(@)]}
           ELSE {[y EXCEPT !.pc.staging = @ + n, !.pc.fresh = FALSE] :
                     n \in Lengths(y.pc.fresh)} : y \in pulls(x)}

short(x) == x.outcome # "outage" /\ x.pc.staging < FRAME

\* The loop fills staging up to a frame, which takes at most two packets.
filled(x) ==
    LET more(S) == UNION {IF short(y) THEN staged(y) ELSE {y} : y \in S}
    IN  {IF y.outcome = "outage" THEN y ELSE [y EXCEPT !.pc.staging = @ - FRAME] :
            y \in more(more({x}))}

\* The states a tick can leave behind.
ticks(b, p) ==
    LET x == [jb |-> b, pc |-> pre_pop(p, b), outcome |-> "none"]
        sounding == IF drift THEN filled(x) ELSE pulls(x)
    IN  IF ~x.pc.primed THEN {x}
        ELSE {IF y.outcome # "outage" /\ quiet THEN apply_step_adjustment(y) ELSE y :
                 y \in sounding, quiet \in Quiets}

-----------------------------------------------------------------------------
Init ==
    /\ drift \in BOOLEAN
    /\ jb = new_buffer /\ pc = new_playout
    /\ active = FALSE /\ last_active = FALSE
    /\ sseq = FirstSeq /\ sent = 0
    /\ joins = MaxJoins /\ strays = MaxStrays
    /\ foreign = FALSE /\ calm = 0

\* The callback sees the stream alive for the first time: it starts afresh.
callback_pc == IF active /\ ~last_active THEN reset_stream(pc) ELSE pc

\* A tick of the callback on buffer b.
Callback(b) ==
    /\ last_active' = active
    /\ IF active THEN \E y \in ticks(b, callback_pc) : jb' = y.jb /\ pc' = y.pc
       ELSE jb' = b /\ pc' = pc

Tick ==
    /\ calm = 0
    /\ Callback(jb)
    /\ foreign' = (foreign /\ jb'.started)
    /\ UNCHANGED <<drift, active, sseq, sent, joins, strays, calm>>

\* The sender numbers a packet.
Numbered ==
    /\ sseq' = wrapping_add(sseq, 1)
    /\ sent' = IF sent < Window THEN sent + 1 ELSE sent

\* Room for another packet within the bound.
Within(n) == sseq # LastSeq /\ (jb.started => diff(sseq, jb.next) < n)

Arrive ==
    /\ calm = 0 /\ active /\ Within(MaxAhead)
    /\ jb' = push(jb, sseq)
    /\ Numbered
    /\ UNCHANGED <<drift, pc, active, last_active, joins, strays, foreign, calm>>

\* A packet is lost.
Lose ==
    /\ calm = 0 /\ active /\ Within(MaxAhead - 1)
    /\ Numbered
    /\ UNCHANGED <<drift, jb, pc, active, last_active, joins, strays, foreign, calm>>

\* A packet of before arrives late, again, or as the redundant copy in a later
\* one; after a reset it may be the first to arrive.
ArriveAgain ==
    /\ calm = 0 /\ active
    /\ \E d \in 1 .. sent : jb' = push(jb, wrapping_sub(sseq, d))
    /\ UNCHANGED <<drift, pc, active, last_active, sseq, sent, joins, strays, foreign, calm>>

\* A packet of an earlier sender arrives.
Stray ==
    /\ calm = 0 /\ strays > 0 /\ joins < MaxJoins
    /\ strays' = strays - 1
    /\ \E s \in StrayNumbers : jb' = push(jb, s)
    /\ foreign' = (foreign \/ jb' # jb)
    /\ UNCHANGED <<drift, pc, active, last_active, sseq, sent, joins, calm>>

\* The sender starts again at once; its repeated HELLO resets nothing here.
SenderRestart ==
    /\ calm = 0 /\ joins > 0 /\ active
    /\ joins' = joins - 1
    /\ sseq' = 0 /\ sent' = 0
    /\ foreign' = jb.started
    /\ UNCHANGED <<drift, jb, pc, active, last_active, strays, calm>>

\* ClientJoined, or StartAudio of a client.
Join ==
    /\ calm = 0 /\ ~active /\ joins > 0
    /\ joins' = joins - 1
    /\ active' = TRUE
    /\ jb' = reset(jb)
    /\ \/ sseq' = 0 /\ sent' = 0
       \/ UNCHANGED <<sseq, sent>>
    /\ foreign' = FALSE
    /\ UNCHANGED <<drift, pc, last_active, strays, calm>>

\* ClientLeft, or a client that loses its host.
Leave ==
    /\ calm = 0 /\ active
    /\ active' = FALSE
    /\ jb' = reset(jb)
    /\ foreign' = FALSE
    /\ UNCHANGED <<drift, pc, last_active, sseq, sent, joins, strays, calm>>

\* From now on every packet arrives, one before each tick, and all is quiet.
Calm ==
    /\ calm = 0 /\ active
    /\ calm' = 1
    /\ UNCHANGED <<drift, jb, pc, active, last_active, sseq, sent, joins, strays, foreign>>

CalmTick ==
    /\ calm > 0
    /\ calm' = IF calm < CalmTicks THEN calm + 1 ELSE calm
    /\ Callback(push(jb, sseq))
    /\ Numbered
    /\ foreign' = (foreign /\ jb'.started)
    /\ UNCHANGED <<drift, active, joins, strays>>

Next ==
    \/ Tick \/ Arrive \/ Lose \/ ArriveAgain \/ Stray
    \/ SenderRestart \/ Join \/ Leave \/ Calm \/ CalmTick

Spec == Init /\ [][Next]_vars

-----------------------------------------------------------------------------
(* Properties.                                                             *)

\* The buffer waits for an earlier sender's sequence numbers: nothing moves its
\* position while it is not primed, and outages are counted only when it is.
Stranded == foreign /\ ~pc.primed

\* Whatever happened before (losses, outages, restarts, corrections taken on
\* depths that no longer hold, ring overruns), once packets arrive regularly the
\* stream sounds again, without concealment, within CalmTicks; only a stranded
\* buffer does not.
CalmIsHeard ==
    calm = CalmTicks => (pc.primed /\ pc.misses = 0) \/ Stranded

\* ... and the corrections neither overshoot for good nor oscillate: the depth
\* is and stays within the deadband around the target (observe_depth).
CalmInBand ==
    calm = CalmTicks => depth(jb) - pc.target \in -deadband .. deadband \/ Stranded

\* The read position is ahead of the newest packet by no more than the frames
\* concealed in a row and one drop that was latched before: depth never gets
\* near the other end of the sequence space.
LeadIsConcealed == jb.started /\ ~foreign => depth(jb) >= -(pc.misses + 1)
=============================================================================
