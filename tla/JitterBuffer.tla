---------------------------- MODULE JitterBuffer ----------------------------
(***************************************************************************)
(* The lock-free ring of jam-audio/src/jitter.rs at the granularity of its *)
(* atomic accesses: the network receive thread runs push, the audio        *)
(* callback runs pop_next, skip_next and reset, and the control thread     *)
(* runs reset as well (jam-core/src/control.rs).  Accesses are interleaved *)
(* (sequential consistency); the acquire/release fences of the code are    *)
(* what makes that reading fair for the slots.                             *)
(*                                                                         *)
(* A packet is its absolute number n in the sender's stream; what it       *)
(* carries on the wire is Wire(n).  A slot's data is two cells, the header *)
(* (len and timestamp) and the payload bytes, each holding the number of   *)
(* the packet it was written from, so that a mixture shows.  An oversize   *)
(* packet is refused before any shared access and is the same as a lost    *)
(* one.                                                                    *)
(***************************************************************************)
EXTENDS Seq16

CONSTANTS
    SLOTS,       \* ring size (64 in the code)
    FirstFrame,  \* the first packet number that can arrive
    LastFrame,   \* bound: the last packet number that can arrive
    Window,      \* how far behind the newest arrival a packet may arrive
    MaxAhead,    \* how far ahead of the read position a packet may arrive
    Target,      \* depth at which playout starts (2 to 20 in the code)
    ResetAfterMisses  \* concealed frames in a row that reset the stream (about
                      \* half a second's worth in the code)

ASSUME RingAssumption ==
    /\ SLOTS \in Nat \ {0}
    /\ SeqSpace % SLOTS = 0

ASSUME FramesAssumption ==
    /\ FirstFrame \in Nat
    /\ LastFrame \in Nat
    /\ FirstFrame <= LastFrame
    /\ LastFrame - FirstFrame < SeqSpace

ASSUME PolicyAssumption == Target \in Nat /\ ResetAfterMisses \in Nat \ {0}

ASSUME NetworkAssumption == Window \in Nat /\ MaxAhead \in Nat

Frames == FirstFrame .. LastFrame
NoFrame == -1
Slots == 0 .. SLOTS - 1

Idx(s) == s % SLOTS
SlotOf(n) == Idx(Wire(n))

VARIABLES
    \* Shared memory.
    state,       \* slot -> "EMPTY" | "WRITING" | "WRITTEN"
    seq,         \* slot -> the stored sequence number
    head,        \* slot -> packet whose len and timestamp are stored
    body,        \* slot -> packet whose payload bytes are stored
    next_seq, newest_seq, started,
    \* The writer: program counter and the packet being pushed.
    wpc, w,
    \* The reader: program counter, operation, locals of pop_next/take/skip_next
    \* and the loop index of reset; then the playout controller's state.
    rpc, op, expect, got_head, got_body, hit, ri, primed, misses,
    \* The control thread inside reset: program counter and loop index.
    cpc, ci,
    \* History: the newest packet that arrived, the absolute read position, the
    \* absolute number the running pop expects, the packets a push reported
    \* Stored whose slot no reset has wiped since, whether the expected packet
    \* was one of them when the pop began, and whether the writer was ever a full
    \* ring ahead of the reader.
    hi, next_n, exp_n, stored, was_stored, lapped

shared == <<state, seq, head, body, next_seq, newest_seq, started>>
writer == <<wpc, w>>
locals == <<expect, got_head, got_body, hit, ri>>
policy == <<primed, misses>>
reader == <<rpc, op, locals, policy>>
control == <<cpc, ci>>
history == <<hi, next_n, exp_n, stored, was_stored, lapped>>
vars == <<shared, writer, reader, control, history>>

WriterPC == {"idle", "check_started", "init_next", "init_newest", "init_started",
             "check_late", "newest", "check_dup", "claim", "seq", "head", "body",
             "publish"}
ReaderPC == {"idle", "load_next", "check_state", "check_seq", "copy_head",
             "copy_body", "recheck_state", "recheck_seq", "clear", "advance",
             "reset"}

TypeOK ==
    /\ state \in [Slots -> {"EMPTY", "WRITING", "WRITTEN"}]
    /\ seq \in [Slots -> Seqs]
    /\ head \in [Slots -> Frames \cup {NoFrame}]
    /\ body \in [Slots -> Frames \cup {NoFrame}]
    /\ next_seq \in Seqs
    /\ newest_seq \in Seqs
    /\ started \in BOOLEAN
    /\ wpc \in WriterPC
    /\ w \in Frames
    /\ rpc \in ReaderPC
    /\ op \in {"pop", "skip"}
    /\ expect \in Seqs
    /\ got_head \in Frames \cup {NoFrame}
    /\ got_body \in Frames \cup {NoFrame}
    /\ hit \in BOOLEAN
    /\ ri \in 0 .. SLOTS
    /\ primed \in BOOLEAN
    /\ misses \in 0 .. ResetAfterMisses
    /\ cpc \in {"idle", "reset"}
    /\ ci \in 0 .. SLOTS
    /\ hi \in Frames
    /\ next_n \in Nat
    /\ exp_n \in Nat
    /\ stored \in SUBSET Frames
    /\ was_stored \in BOOLEAN
    /\ lapped \in BOOLEAN

\* JitterBuffer::new.
Init ==
    /\ state = [i \in Slots |-> "EMPTY"]
    /\ seq = [i \in Slots |-> 0]
    /\ head = [i \in Slots |-> NoFrame]
    /\ body = [i \in Slots |-> NoFrame]
    /\ next_seq = 0
    /\ newest_seq = 0
    /\ started = FALSE
    /\ wpc = "idle" /\ w = FirstFrame
    /\ rpc = "idle" /\ op = "pop" /\ expect = 0 /\ hit = FALSE /\ ri = 0
    /\ got_head = NoFrame /\ got_body = NoFrame
    /\ primed = FALSE /\ misses = 0
    /\ cpc = "idle" /\ ci = 0
    /\ hi = FirstFrame
    /\ next_n = 0 /\ exp_n = 0 /\ stored = {} /\ was_stored = FALSE /\ lapped = FALSE

-----------------------------------------------------------------------------
(* push, on the network receive thread.                                    *)

\* Packet n arrives: packets are lost (numbers never chosen), duplicated and
\* reordered, but none is more than Window behind the newest arrival, and while
\* the reader plays none is MaxAhead or more ahead of it.
PushBegin(n) ==
    /\ wpc = "idle"
    /\ n >= hi - Window
    /\ started => n < next_n + MaxAhead
    /\ hi' = IF n > hi THEN n ELSE hi
    /\ lapped' = (lapped \/ (started /\ n >= next_n + SLOTS))
    /\ w' = n
    /\ wpc' = "check_started"
    /\ UNCHANGED <<shared, reader, control, next_n, exp_n, stored, was_stored>>

\* Fault: every push establishes the read position.
PushAlwaysInits ==
    /\ wpc = "check_started"
    /\ wpc' = "init_next"
    /\ UNCHANGED <<shared, w, reader, control, history>>

PushCheckStarted ==
    /\ wpc = "check_started"
    /\ wpc' = IF started THEN "check_late" ELSE "init_next"
    /\ UNCHANGED <<shared, w, reader, control, history>>

PushInitNext ==
    /\ wpc = "init_next"
    /\ next_seq' = Wire(w)
    /\ next_n' = w
    /\ wpc' = "init_newest"
    /\ UNCHANGED <<state, seq, head, body, newest_seq, started, w, reader,
                   control, hi, exp_n, stored, was_stored, lapped>>

PushInitNewest ==
    /\ wpc = "init_newest"
    /\ newest_seq' = Wire(w)
    /\ wpc' = "init_started"
    /\ UNCHANGED <<state, seq, head, body, next_seq, started, w, reader,
                   control, history>>

PushInitStarted ==
    /\ wpc = "init_started"
    /\ started' = TRUE
    /\ wpc' = "check_dup"
    /\ UNCHANGED <<state, seq, head, body, next_seq, newest_seq, w, reader,
                   control, history>>

\* A late packet is counted and refused.
PushCheckLate ==
    /\ wpc = "check_late"
    /\ wpc' = IF newer_than(next_seq, Wire(w)) THEN "idle" ELSE "newest"
    /\ UNCHANGED <<shared, w, reader, control, history>>

PushUpdateNewest ==
    /\ wpc = "newest"
    /\ newest_seq' = IF newer_than(Wire(w), newest_seq) THEN Wire(w) ELSE newest_seq
    /\ wpc' = "check_dup"
    /\ UNCHANGED <<state, seq, head, body, next_seq, started, w, reader,
                   control, history>>

\* Fault: duplicates are written again.
PushRewritesDuplicate ==
    /\ wpc = "check_dup"
    /\ wpc' = "claim"
    /\ UNCHANGED <<shared, w, reader, control, history>>

\* The writer alone writes seq, so its two loads are one step.
PushCheckDuplicate ==
    /\ wpc = "check_dup"
    /\ wpc' = IF state[SlotOf(w)] = "WRITTEN" /\ seq[SlotOf(w)] = Wire(w)
              THEN "idle" ELSE "claim"
    /\ UNCHANGED <<shared, w, reader, control, history>>

PushClaim ==
    /\ wpc = "claim"
    /\ state' = [state EXCEPT ![SlotOf(w)] = "WRITING"]
    /\ wpc' = "seq"
    /\ UNCHANGED <<seq, head, body, next_seq, newest_seq, started, w, reader,
                   control, history>>

PushSeq ==
    /\ wpc = "seq"
    /\ seq' = [seq EXCEPT ![SlotOf(w)] = Wire(w)]
    /\ wpc' = "head"
    /\ UNCHANGED <<state, head, body, next_seq, newest_seq, started, w, reader,
                   control, history>>

PushHead ==
    /\ wpc = "head"
    /\ head' = [head EXCEPT ![SlotOf(w)] = w]
    /\ wpc' = "body"
    /\ UNCHANGED <<state, seq, body, next_seq, newest_seq, started, w, reader,
                   control, history>>

PushBody ==
    /\ wpc = "body"
    /\ body' = [body EXCEPT ![SlotOf(w)] = w]
    /\ wpc' = "publish"
    /\ UNCHANGED <<state, seq, head, next_seq, newest_seq, started, w, reader,
                   control, history>>

PushPublish ==
    /\ wpc = "publish"
    /\ state' = [state EXCEPT ![SlotOf(w)] = "WRITTEN"]
    /\ stored' = stored \cup {w}
    /\ wpc' = "idle"
    /\ UNCHANGED <<seq, head, body, next_seq, newest_seq, started, w, reader,
                   control, hi, next_n, exp_n, was_stored, lapped>>

PushStep ==
    \/ PushCheckStarted \/ PushInitNext \/ PushInitNewest \/ PushInitStarted
    \/ PushCheckLate \/ PushUpdateNewest \/ PushCheckDuplicate \/ PushClaim
    \/ PushSeq \/ PushHead \/ PushBody \/ PushPublish

-----------------------------------------------------------------------------
(* The audio callback: the playout loop of jam-core/src/playout.rs around  *)
(* pop_next with take, skip_next and reset.                                *)

\* JitterBuffer::depth.
depth == IF started THEN diff(newest_seq, next_seq) + 1 ELSE 0

\* pre_pop: the callback stays silent until the buffer is deep enough.
Prime ==
    /\ rpc = "idle"
    /\ ~primed
    /\ started
    /\ depth >= Target
    /\ primed' = TRUE
    /\ misses' = 0
    /\ UNCHANGED <<shared, writer, rpc, op, locals, control, history>>

\* A tick that inserts a concealed frame, or pops from a buffer that is not
\* started: no shared access, and it counts as a miss.
Conceal ==
    /\ rpc = "idle"
    /\ primed
    /\ misses < ResetAfterMisses
    /\ misses' = misses + 1
    /\ UNCHANGED <<shared, writer, rpc, op, locals, primed, control, history>>

\* pop_next and skip_next return at once when the stream is not started.
PopBegin(o) ==
    /\ rpc = "idle"
    /\ primed
    /\ misses < ResetAfterMisses
    /\ next_n <= LastFrame
    /\ started
    /\ op' = o
    /\ rpc' = "load_next"
    /\ UNCHANGED <<shared, writer, locals, policy, control, history>>

PopLoadNext ==
    /\ rpc = "load_next"
    /\ expect' = next_seq
    /\ exp_n' = next_n
    /\ was_stored' = (next_n \in stored)
    /\ hit' = FALSE
    /\ got_head' = NoFrame
    /\ got_body' = NoFrame
    /\ rpc' = "check_state"
    /\ UNCHANGED <<shared, writer, op, ri, policy, control, hi, next_n, stored,
                   lapped>>

PopCheckState ==
    /\ rpc = "check_state"
    /\ rpc' = IF state[Idx(expect)] = "WRITTEN" THEN "check_seq" ELSE "advance"
    /\ UNCHANGED <<shared, writer, op, locals, policy, control, history>>

\* take goes on to copy; skip_next only marks the slot.
PopCheckSeq ==
    /\ rpc = "check_seq"
    /\ rpc' = IF seq[Idx(expect)] # expect THEN "advance"
              ELSE IF op = "pop" THEN "copy_head" ELSE "clear"
    /\ UNCHANGED <<shared, writer, op, locals, policy, control, history>>

PopCopyHead ==
    /\ rpc = "copy_head"
    /\ got_head' = head[Idx(expect)]
    /\ rpc' = "copy_body"
    /\ UNCHANGED <<shared, writer, op, expect, got_body, hit, ri, policy, control,
                   history>>

PopCopyBody ==
    /\ rpc = "copy_body"
    /\ got_body' = body[Idx(expect)]
    /\ rpc' = "recheck_state"
    /\ UNCHANGED <<shared, writer, op, expect, got_head, hit, ri, policy, control,
                   history>>

PopRecheckState ==
    /\ rpc = "recheck_state"
    /\ rpc' = IF state[Idx(expect)] = "WRITTEN" THEN "recheck_seq" ELSE "advance"
    /\ UNCHANGED <<shared, writer, op, locals, policy, control, history>>

\* Fault: after the copy only the state is looked at again.
PopTrustsState ==
    /\ rpc = "recheck_seq"
    /\ rpc' = "clear"
    /\ UNCHANGED <<shared, writer, op, locals, policy, control, history>>

PopRecheckSeq ==
    /\ rpc = "recheck_seq"
    /\ rpc' = IF seq[Idx(expect)] = expect THEN "clear" ELSE "advance"
    /\ UNCHANGED <<shared, writer, op, locals, policy, control, history>>

\* Fault: the slot after the one just played is marked.
PopClearsNext ==
    /\ rpc = "clear"
    /\ state' = [state EXCEPT ![Idx(expect + 1)] = "EMPTY"]
    /\ hit' = TRUE
    /\ rpc' = "advance"
    /\ UNCHANGED <<seq, head, body, next_seq, newest_seq, started, writer, op,
                   expect, got_head, got_body, ri, policy, control, history>>

PopClear ==
    /\ rpc = "clear"
    /\ state' = [state EXCEPT ![Idx(expect)] = "EMPTY"]
    /\ hit' = TRUE
    /\ rpc' = "advance"
    /\ UNCHANGED <<seq, head, body, next_seq, newest_seq, started, writer, op,
                   expect, got_head, got_body, ri, policy, control, history>>

\* The position moves by one, hit or miss, and post_pop counts a popped frame
\* that is missing or does not decode.
PopAdvance ==
    /\ rpc = "advance"
    /\ next_seq' = wrapping_add(expect, 1)
    /\ next_n' = exp_n + 1
    /\ \/ op = "skip" /\ misses' = misses
       \/ op = "pop" /\ hit /\ misses' = 0
       \/ op = "pop" /\ misses' = misses + 1
    /\ rpc' = "idle"
    /\ UNCHANGED <<state, seq, head, body, newest_seq, started, writer, op, locals,
                   primed, control, hi, exp_n, stored, was_stored, lapped>>

\* reset, called by the playout after a prolonged outage.
ResetBegin ==
    /\ rpc = "idle"
    /\ misses = ResetAfterMisses
    /\ primed' = FALSE
    /\ misses' = 0
    /\ ri' = 0
    /\ rpc' = "reset"
    /\ UNCHANGED <<shared, writer, op, expect, got_head, got_body, hit, control,
                   history>>

\* Wipes slot i; its packets are no longer owed to the listener.
WipeSlot(i) ==
    /\ state' = [state EXCEPT ![i] = "EMPTY"]
    /\ stored' = {n \in stored : SlotOf(n) # i}
    /\ UNCHANGED <<seq, head, body, next_seq, newest_seq, started, hi, next_n,
                   exp_n, was_stored, lapped>>

ResetSlot ==
    /\ rpc = "reset"
    /\ ri < SLOTS
    /\ WipeSlot(ri)
    /\ ri' = ri + 1
    /\ UNCHANGED <<writer, rpc, op, expect, got_head, got_body, hit, policy,
                   control>>

ResetStarted ==
    /\ rpc = "reset"
    /\ ri = SLOTS
    /\ started' = FALSE
    /\ rpc' = "idle"
    /\ UNCHANGED <<state, seq, head, body, next_seq, newest_seq, writer, op, locals,
                   policy, control, history>>

PopStep ==
    \/ PopLoadNext \/ PopCheckState \/ PopCheckSeq \/ PopCopyHead \/ PopCopyBody
    \/ PopRecheckState \/ PopRecheckSeq \/ PopClear \/ PopAdvance
    \/ ResetSlot \/ ResetStarted

-----------------------------------------------------------------------------
(* reset, on the control thread, when a slot changes hands, the host goes  *)
(* away or the client rejoins.                                             *)

ControlResetBegin ==
    /\ cpc = "idle"
    /\ ci' = 0
    /\ cpc' = "reset"
    /\ UNCHANGED <<shared, writer, reader, history>>

ControlResetSlot ==
    /\ cpc = "reset"
    /\ ci < SLOTS
    /\ WipeSlot(ci)
    /\ ci' = ci + 1
    /\ UNCHANGED <<writer, reader, cpc>>

ControlResetStarted ==
    /\ cpc = "reset"
    /\ ci = SLOTS
    /\ started' = FALSE
    /\ cpc' = "idle"
    /\ UNCHANGED <<state, seq, head, body, next_seq, newest_seq, writer, reader,
                   ci, history>>

ControlStep == ControlResetBegin \/ ControlResetSlot \/ ControlResetStarted

-----------------------------------------------------------------------------
\* One writer and one reader, as the module documentation of jitter.rs has it.
Next ==
    \/ \E n \in Frames : PushBegin(n)
    \/ PushStep
    \/ Prime \/ Conceal
    \/ \E o \in {"pop", "skip"} : PopBegin(o)
    \/ ResetBegin
    \/ PopStep

Spec == Init /\ [][Next]_vars

\* The buffer as jam-core uses it: the control thread resets it too.
SharedNext == Next \/ ControlStep

SharedSpec == Init /\ [][SharedNext]_vars

-----------------------------------------------------------------------------
(* Properties.                                                             *)

\* A frame that pop_next returns, as the callback sees it.
Played == rpc = "advance" /\ op = "pop" /\ hit

\* A frame the callback plays for position n is packet n, whole: header and
\* payload come from one push (take's re-check, jitter.rs 273-283).
PoppedIntact == Played => got_head = exp_n /\ got_body = exp_n

\* The same for a packet whose push had returned Stored before the pop began:
\* whatever overwrites the slot during the copy, the re-check never lets a
\* mixture or another packet through.
StoredFramePlayedIntact == was_stored => PoppedIntact

\* The packet that a push is about to overwrite is at least a full ring older
\* than the incoming one (the claim at jitter.rs 163-164).
OverwritesOnlyOlder ==
    wpc = "claim" /\ state[SlotOf(w)] = "WRITTEN" => head[SlotOf(w)] + SLOTS <= w

\* A push that refuses its packet as Late is right: the read position has gone
\* past that packet, on either side of a sequence wraparound.
LateMeansPassed ==
    [][PushCheckLate /\ wpc' = "idle" => w < next_n]_vars

\* A pop that conceals a packet does so because the packet had not been stored
\* when the pop began: nothing but its own pop, a skip at its position or a
\* reset takes a stored packet away, as long as no packet has arrived a full ring
\* ahead of the reader (when one has, push may overwrite, and take and skip_next,
\* which look at the slot only before they mark it, may discard the newer packet).
NoStoredFrameConcealed ==
    rpc = "advance" /\ op = "pop" /\ ~hit => ~was_stored \/ lapped

\* A pop or skip moves the read position that the reader and the writer agree on
\* by exactly one (jitter.rs 211-212), and never a position that a push has
\* established since the operation read it.
PositionMovesByOne == [][PopAdvance => next_n' = next_n + 1]_vars
=============================================================================
