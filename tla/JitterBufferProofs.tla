------------------------- MODULE JitterBufferProofs -------------------------
(***************************************************************************)
(* Proofs about one writer and one reader on the jitter buffer, for every  *)
(* ring size, sequence space, stream and playout policy.                   *)
(***************************************************************************)
EXTENDS JitterBuffer, Seq16Theorems

-----------------------------------------------------------------------------
(* The inductive invariant.                                                *)

\* The reader is between its load of next_seq and its store of it.
MidOp == rpc \in {"check_state", "check_seq", "copy_head", "copy_body",
                  "recheck_state", "recheck_seq", "clear", "advance"}

InOp == MidOp \/ rpc = "load_next"

\* The read position and its absolute number agree; only a push that found the
\* buffer not started moves it apart from the reader, and the buffer stays
\* started while the reader is inside an operation.
PositionInv ==
    /\ next_seq = Wire(next_n)
    /\ MidOp => expect = Wire(exp_n) /\ exp_n = next_n
    /\ InOp => started /\ next_n <= LastFrame
    /\ wpc \in {"init_next", "init_newest", "init_started"} => ~started
    /\ started \/ wpc \in {"init_newest", "init_started", "check_late"} =>
           next_n \in FirstFrame .. LastFrame + 1

\* How far a push has got with its slot.
WriterInv ==
    /\ w <= hi
    /\ wpc # "idle" => w >= hi - Window
    /\ wpc = "claim" =>
           ~(state[SlotOf(w)] = "WRITTEN" /\ seq[SlotOf(w)] = Wire(w))
    /\ wpc \in {"seq", "head", "body", "publish"} => state[SlotOf(w)] # "WRITTEN"
    /\ wpc \in {"head", "body", "publish"} => seq[SlotOf(w)] = Wire(w)
    /\ wpc \in {"body", "publish"} => head[SlotOf(w)] = w
    /\ wpc = "publish" => body[SlotOf(w)] = w

\* A WRITTEN slot holds one packet, and the packet belongs there.
SlotInv ==
    \A i \in Slots : state[i] = "WRITTEN" =>
        /\ head[i] \in Frames
        /\ body[i] = head[i]
        /\ seq[i] = Wire(head[i])
        /\ SlotOf(head[i]) = i
        /\ head[i] <= hi

\* No push puts an older packet where a stored one was.
StoredInv ==
    \A n \in stored :
        /\ n <= hi
        /\ state[SlotOf(n)] = "WRITTEN" => head[SlotOf(n)] >= n

\* The expected packet is in its slot.
Intact == state[SlotOf(exp_n)] = "WRITTEN" /\ head[SlotOf(exp_n)] = exp_n

\* A packet a full ring newer has taken the slot: the expected one cannot come
\* back, since nothing that old arrives any more.
Lapped == hi >= exp_n + SLOTS /\ ~Intact

\* What the reader knows while it copies a packet that had been stored before.
ReaderInv ==
    MidOp /\ op = "pop" /\ was_stored =>
        /\ exp_n \in stored
        /\ rpc \in {"check_seq", "copy_head", "copy_body"} => Intact \/ Lapped
        /\ rpc = "copy_body" => got_head = exp_n \/ Lapped
        /\ rpc = "recheck_state" => (got_head = exp_n /\ got_body = exp_n) \/ Lapped
        /\ rpc = "recheck_seq" => \/ got_head = exp_n /\ got_body = exp_n
                                  \/ Lapped /\ seq[SlotOf(exp_n)] # expect
        /\ rpc = "clear" \/ (rpc = "advance" /\ hit) =>
               got_head = exp_n /\ got_body = exp_n
        /\ rpc \notin {"clear", "advance"} => ~hit

\* The playout pops only below its limit of misses.
MissesInv == InOp => misses < ResetAfterMisses

IInv == /\ TypeOK /\ MissesInv /\ PositionInv /\ WriterInv /\ SlotInv
        /\ StoredInv /\ ReaderInv

-----------------------------------------------------------------------------
(* What keeps a stored packet until its pop.                               *)

\* Packet n is whole in its slot.
Held(n) == state[SlotOf(n)] = "WRITTEN" /\ head[SlotOf(n)] = n

\* A packet a full ring newer than n has arrived, so nothing as old as n will.
Outrun(n) == hi >= n + SLOTS

\* The running pop has marked n's slot and has not moved the position yet.
Taken(n) == rpc = "advance" /\ hit /\ n = exp_n

\* As long as the reader plays and is not lapped, a push in progress is less than
\* a ring ahead of it; a push that establishes the position puts it at its own
\* packet.
AheadInv ==
    /\ wpc # "idle" /\ started /\ ~lapped => w < next_n + SLOTS
    /\ wpc \in {"init_newest", "init_started"} => next_n = w
    /\ started /\ ~lapped => \A n \in stored : n < next_n + SLOTS

\* A stored packet that a finished or unfinished reset has left behind is in its
\* slot, or too old to be expected by the position the next push establishes.
LeftByResetInv ==
    \A n \in stored :
        ~started \/ (rpc = "reset" /\ SlotOf(n) < ri) => Held(n) \/ Outrun(n)

\* Every stored packet that the reader has not passed is in its slot.
OwedInv ==
    started /\ ~lapped =>
        \A n \in stored : n >= next_n => Held(n) \/ Taken(n)

\* A pop that found its packet stored ends in a hit.
HitInv ==
    MidOp /\ was_stored =>
        /\ exp_n \in stored
        /\ rpc = "advance" => hit \/ lapped

KeptInv == AheadInv /\ LeftByResetInv /\ OwedInv /\ HitInv

-----------------------------------------------------------------------------
(* The slots of packets.                                                   *)

\* Sequence numbers and packets have slots.
LEMMA SlotTypes ==
  /\ \A x \in Seqs : Idx(x) \in Slots
  /\ \A n \in Int : SlotOf(n) \in Slots /\ Wire(n) \in Seqs
  /\ SLOTS \in Nat \ {0} /\ SeqSpace \in Nat \ {0}
  /\ Frames \subseteq Nat /\ Seqs \subseteq Nat
<1>1. \A x \in Seqs : Idx(x) \in Slots
  <2> TAKE x \in Seqs
  <2>1. x \in Int
    BY SeqSpaceType DEF Seqs
  <2>2. QED
    BY <2>1, RingAssumption, ModRange DEF Idx, Slots
<1>2. \A n \in Int : SlotOf(n) \in Slots /\ Wire(n) \in Seqs
  BY <1>1, SeqTypes DEF SlotOf
<1>3. QED
  BY <1>1, <1>2, RingAssumption, SeqSpaceType, FramesAssumption DEF Frames, Seqs

\* Two packets in one slot are at least a ring apart.
LEMMA SameSlot ==
  ASSUME NEW a \in Int, NEW b \in Int, SlotOf(a) = SlotOf(b), a # b
  PROVE  a >= b + SLOTS \/ b >= a + SLOTS
<1>1. SLOTS \in Nat \ {0} /\ SeqSpace \in Nat \ {0} /\ SeqSpace % SLOTS = 0
  BY RingAssumption, SeqSpaceType
<1>2. a % SLOTS = b % SLOTS
  BY <1>1, ModOfMod DEF SlotOf, Idx, Wire
<1>3. a - b >= SLOTS \/ b - a >= SLOTS
  BY <1>1, <1>2, SameResidue
<1>4. QED
  BY <1>1, <1>3

\* Within the frames of a stream the sequence number determines the packet.
LEMMA FramesInjective ==
  ASSUME NEW a \in Frames, NEW b \in Frames, Wire(a) = Wire(b)
  PROVE  a = b
<1>1. a \in Int /\ b \in Int /\ a - b < SeqSpace /\ b - a < SeqSpace
  BY FramesAssumption, SeqSpaceType DEF Frames
<1>2. QED
  BY <1>1, WireInjective

-----------------------------------------------------------------------------
(* Type correctness.                                                       *)

\* Each step keeps the types.
LEMMA TypeStep == TypeOK /\ MissesInv /\ [Next]_vars => TypeOK' /\ MissesInv'
<1> SUFFICES ASSUME TypeOK, MissesInv, [Next]_vars
             PROVE  TypeOK' /\ MissesInv'
  OBVIOUS
<1> USE SlotTypes DEF TypeOK, MissesInv, InOp, MidOp, WriterPC, ReaderPC, shared,
        writer, reader, locals, policy, control, history
<1>0. Wire(w) \in Seqs /\ SlotOf(w) \in Slots /\ Idx(expect) \in Slots
  OBVIOUS
<1>1. ASSUME NEW n \in Frames, PushBegin(n) PROVE TypeOK' /\ MissesInv'
  BY <1>1 DEF PushBegin
<1>2. CASE PushCheckStarted
  BY <1>2, <1>0 DEF PushCheckStarted
<1>3. CASE PushInitNext
  BY <1>3, <1>0 DEF PushInitNext
<1>4. CASE PushInitNewest
  BY <1>4, <1>0 DEF PushInitNewest
<1>5. CASE PushInitStarted
  BY <1>5, <1>0 DEF PushInitStarted
<1>6. CASE PushCheckLate
  BY <1>6, <1>0 DEF PushCheckLate
<1>7. CASE PushUpdateNewest
  BY <1>7, <1>0 DEF PushUpdateNewest
<1>8. CASE PushCheckDuplicate
  BY <1>8, <1>0 DEF PushCheckDuplicate
<1>9. CASE PushClaim
  BY <1>9, <1>0 DEF PushClaim
<1>10. CASE PushSeq
  BY <1>10, <1>0 DEF PushSeq
<1>11. CASE PushHead
  BY <1>11, <1>0 DEF PushHead
<1>12. CASE PushBody
  BY <1>12, <1>0 DEF PushBody
<1>13. CASE PushPublish
  BY <1>13, <1>0 DEF PushPublish
<1>14. CASE Prime
  BY <1>14, <1>0, PolicyAssumption DEF Prime
<1>15. CASE Conceal
  BY <1>15, <1>0, PolicyAssumption DEF Conceal
<1>16. CASE PopLoadNext
  <2>1. hit' \in BOOLEAN /\ rpc' \in ReaderPC
    BY <1>16 DEF PopLoadNext
  <2>2. TypeOK'
    BY <1>16, <1>0, <2>1 DEF PopLoadNext
  <2>3. MissesInv'
    BY <1>16, <1>0 DEF PopLoadNext
  <2>4. QED
    BY <2>2, <2>3
<1>17. CASE PopCheckState
  BY <1>17, <1>0 DEF PopCheckState
<1>18. CASE PopCheckSeq
  BY <1>18, <1>0 DEF PopCheckSeq
<1>19. CASE PopCopyHead
  BY <1>19, <1>0 DEF PopCopyHead
<1>20. CASE PopCopyBody
  BY <1>20, <1>0 DEF PopCopyBody
<1>21. CASE PopRecheckState
  BY <1>21, <1>0 DEF PopRecheckState
<1>22. CASE PopRecheckSeq
  BY <1>22, <1>0 DEF PopRecheckSeq
<1>23. CASE PopClear
  BY <1>23, <1>0 DEF PopClear
<1>24. CASE PopAdvance
  <2>1. wrapping_add(expect, 1) \in Seqs
    <3>1. expect + 1 \in Int
      BY SlotTypes
    <3>2. QED
      BY <3>1, SeqSpaceType, ModRange DEF wrapping_add, Seqs
  <2>2. QED
    BY <1>24, <2>1, PolicyAssumption DEF PopAdvance
<1>25. CASE ResetBegin
  <2>1. primed' \in BOOLEAN /\ rpc' \in ReaderPC
    BY <1>25 DEF ResetBegin
  <2>2. TypeOK'
    BY <1>25, <1>0, <2>1, PolicyAssumption, RingAssumption DEF ResetBegin
  <2>3. MissesInv'
    BY <1>25, <1>0, PolicyAssumption, RingAssumption DEF ResetBegin
  <2>4. QED
    BY <2>2, <2>3
<1>26. CASE ResetSlot
  <2>1. stored' \in SUBSET Frames
    BY <1>26 DEF ResetSlot, WipeSlot
  <2>2. ri' \in 0 .. SLOTS
    BY <1>26 DEF ResetSlot
  <2>3. state' \in [Slots -> {"EMPTY", "WRITING", "WRITTEN"}]
    BY <1>26 DEF ResetSlot, WipeSlot
  <2>4. TypeOK'
    BY <1>26, <1>0, <2>1, <2>2, <2>3 DEF ResetSlot, WipeSlot
  <2>5. MissesInv'
    BY <1>26, <1>0 DEF ResetSlot, WipeSlot
  <2>6. QED
    BY <2>4, <2>5
<1>27. CASE ResetStarted
  <2>1. started' \in BOOLEAN /\ rpc' \in ReaderPC
    BY <1>27 DEF ResetStarted
  <2>2. TypeOK'
    BY <1>27, <1>0, <2>1 DEF ResetStarted
  <2>3. MissesInv'
    BY <1>27, <1>0 DEF ResetStarted
  <2>4. QED
    BY <2>2, <2>3
<1>28. ASSUME NEW o \in {"pop", "skip"}, PopBegin(o) PROVE TypeOK' /\ MissesInv'
  BY <1>28 DEF PopBegin
<1>29. CASE UNCHANGED vars
  BY <1>29 DEF vars
<1>30. QED
  BY <1>1, <1>2, <1>3, <1>4, <1>5, <1>6, <1>7, <1>8, <1>9, <1>10, <1>11, <1>12, <1>13, <1>14, <1>15, <1>16, <1>17, <1>18, <1>19, <1>20, <1>21, <1>22, <1>23, <1>24, <1>25, <1>26, <1>27, <1>28, <1>29 DEF Next, PushStep, PopStep

\* The buffer starts well typed.
LEMMA TypeInit == Init => TypeOK /\ MissesInv
<1> SUFFICES ASSUME Init PROVE TypeOK /\ MissesInv
  OBVIOUS
<1>1. FirstFrame \in Frames /\ 0 \in Seqs /\ 0 \in 0 .. SLOTS
      /\ 0 \in 0 .. ResetAfterMisses
  BY FramesAssumption, PolicyAssumption, RingAssumption, SeqSpaceType DEF Frames, Seqs
<1>2. started \in BOOLEAN /\ hit \in BOOLEAN /\ primed \in BOOLEAN
      /\ was_stored \in BOOLEAN
  BY DEF Init
<1>3. TypeOK
  BY <1>1, <1>2 DEF Init, TypeOK, WriterPC, ReaderPC
<1>4. MissesInv
  BY DEF Init, MissesInv, InOp, MidOp
<1>5. QED
  BY <1>3, <1>4

\* Every variable keeps its type, and the count of misses its bound.
THEOREM TypeCorrect == Spec => [](TypeOK /\ MissesInv)
BY TypeInit, TypeStep, PTL DEF Spec

-----------------------------------------------------------------------------
(* Each part of the invariant is kept by each step.                        *)

\* Reader and writer keep agreeing on the read position.
LEMMA PositionStep == TypeOK /\ MissesInv /\ PositionInv /\ [Next]_vars => PositionInv'
<1> SUFFICES ASSUME TypeOK /\ MissesInv /\ PositionInv, [Next]_vars PROVE PositionInv'
  OBVIOUS
<1> USE FramesAssumption DEF TypeOK, PositionInv, InOp, MidOp, Frames, shared, writer, reader, locals, policy,
        control, history
<1>1. ASSUME NEW n \in Frames, PushBegin(n) PROVE PositionInv'
  BY <1>1 DEF PushBegin
<1>2. CASE PushCheckStarted
  BY <1>2 DEF PushCheckStarted
<1>3. CASE PushInitNext
  BY <1>3 DEF PushInitNext
<1>4. CASE PushInitNewest
  BY <1>4 DEF PushInitNewest
<1>5. CASE PushInitStarted
  BY <1>5 DEF PushInitStarted
<1>6. CASE PushCheckLate
  BY <1>6 DEF PushCheckLate
<1>7. CASE PushUpdateNewest
  BY <1>7 DEF PushUpdateNewest
<1>8. CASE PushCheckDuplicate
  BY <1>8 DEF PushCheckDuplicate
<1>9. CASE PushClaim
  BY <1>9 DEF PushClaim
<1>10. CASE PushSeq
  BY <1>10 DEF PushSeq
<1>11. CASE PushHead
  BY <1>11 DEF PushHead
<1>12. CASE PushBody
  BY <1>12 DEF PushBody
<1>13. CASE PushPublish
  BY <1>13 DEF PushPublish
<1>14. CASE Prime
  BY <1>14 DEF Prime
<1>15. CASE Conceal
  BY <1>15 DEF Conceal
<1>16. CASE PopLoadNext
  BY <1>16 DEF PopLoadNext
<1>17. CASE PopCheckState
  BY <1>17 DEF PopCheckState
<1>18. CASE PopCheckSeq
  BY <1>18 DEF PopCheckSeq
<1>19. CASE PopCopyHead
  BY <1>19 DEF PopCopyHead
<1>20. CASE PopCopyBody
  BY <1>20 DEF PopCopyBody
<1>21. CASE PopRecheckState
  BY <1>21 DEF PopRecheckState
<1>22. CASE PopRecheckSeq
  BY <1>22 DEF PopRecheckSeq
<1>23. CASE PopClear
  BY <1>23 DEF PopClear
<1>24. CASE PopAdvance
  <2>1. next_seq' = Wire(next_n')
    BY <1>24, WireSucc DEF PopAdvance
  <2>2. next_n' \in FirstFrame .. LastFrame + 1
    BY <1>24 DEF PopAdvance
  <2>3. QED
    BY <1>24, <2>1, <2>2 DEF PopAdvance
<1>25. CASE ResetBegin
  BY <1>25 DEF ResetBegin
<1>26. CASE ResetSlot
  BY <1>26 DEF ResetSlot, WipeSlot
<1>27. CASE ResetStarted
  BY <1>27 DEF ResetStarted
<1>28. ASSUME NEW o \in {"pop", "skip"}, PopBegin(o) PROVE PositionInv'
  BY <1>28 DEF PopBegin
<1>29. CASE UNCHANGED vars
  BY <1>29 DEF vars
<1>30. QED
  BY <1>1, <1>2, <1>3, <1>4, <1>5, <1>6, <1>7, <1>8, <1>9, <1>10, <1>11,
     <1>12, <1>13, <1>14, <1>15, <1>16, <1>17, <1>18, <1>19, <1>20, <1>21,
     <1>22, <1>23, <1>24, <1>25, <1>26, <1>27, <1>28, <1>29
     DEF Next, PushStep, PopStep

\* A push stays in step with its slot.
LEMMA WriterStep == TypeOK /\ WriterInv /\ [Next]_vars => WriterInv'
<1> SUFFICES ASSUME TypeOK /\ WriterInv, [Next]_vars PROVE WriterInv'
  OBVIOUS
<1> USE SlotTypes, FramesAssumption DEF TypeOK, WriterInv, shared, writer, reader, locals, policy,
        control, history
<1>0. SlotOf(w) \in Slots /\ hi \in Int /\ w \in Int /\ Window \in Int
  BY NetworkAssumption
<1>1. ASSUME NEW n \in Frames, PushBegin(n) PROVE WriterInv'
  <2>1. hi \in Int /\ n \in Int /\ Window \in Nat
    BY NetworkAssumption
  <2>2. w' <= hi' /\ w' >= hi' - Window
    BY <1>1, <2>1 DEF PushBegin
  <2>3. QED
    BY <1>1, <2>2 DEF PushBegin
<1>2. CASE PushCheckStarted
  BY <1>2 DEF PushCheckStarted
<1>3. CASE PushInitNext
  BY <1>3 DEF PushInitNext
<1>4. CASE PushInitNewest
  BY <1>4 DEF PushInitNewest
<1>5. CASE PushInitStarted
  BY <1>5 DEF PushInitStarted
<1>6. CASE PushCheckLate
  BY <1>6 DEF PushCheckLate
<1>7. CASE PushUpdateNewest
  BY <1>7 DEF PushUpdateNewest
<1>8. CASE PushCheckDuplicate
  BY <1>8 DEF PushCheckDuplicate
<1>9. CASE PushClaim
  BY <1>9 DEF PushClaim
<1>10. CASE PushSeq
  BY <1>10 DEF PushSeq
<1>11. CASE PushHead
  BY <1>11 DEF PushHead
<1>12. CASE PushBody
  BY <1>12 DEF PushBody
<1>13. CASE PushPublish
  BY <1>13 DEF PushPublish
<1>14. CASE Prime
  BY <1>14 DEF Prime
<1>15. CASE Conceal
  BY <1>15 DEF Conceal
<1>16. CASE PopLoadNext
  BY <1>16 DEF PopLoadNext
<1>17. CASE PopCheckState
  BY <1>17 DEF PopCheckState
<1>18. CASE PopCheckSeq
  BY <1>18 DEF PopCheckSeq
<1>19. CASE PopCopyHead
  BY <1>19 DEF PopCopyHead
<1>20. CASE PopCopyBody
  BY <1>20 DEF PopCopyBody
<1>21. CASE PopRecheckState
  BY <1>21 DEF PopRecheckState
<1>22. CASE PopRecheckSeq
  BY <1>22 DEF PopRecheckSeq
<1>23. CASE PopClear
  BY <1>23 DEF PopClear
<1>24. CASE PopAdvance
  BY <1>24 DEF PopAdvance
<1>25. CASE ResetBegin
  BY <1>25 DEF ResetBegin
<1>26. CASE ResetSlot
  BY <1>26 DEF ResetSlot, WipeSlot
<1>27. CASE ResetStarted
  BY <1>27 DEF ResetStarted
<1>28. ASSUME NEW o \in {"pop", "skip"}, PopBegin(o) PROVE WriterInv'
  BY <1>28 DEF PopBegin
<1>29. CASE UNCHANGED vars
  BY <1>29 DEF vars
<1>30. QED
  BY <1>1, <1>2, <1>3, <1>4, <1>5, <1>6, <1>7, <1>8, <1>9, <1>10, <1>11,
     <1>12, <1>13, <1>14, <1>15, <1>16, <1>17, <1>18, <1>19, <1>20, <1>21,
     <1>22, <1>23, <1>24, <1>25, <1>26, <1>27, <1>28, <1>29
     DEF Next, PushStep, PopStep

\* A written slot keeps holding one packet, its own.
LEMMA SlotStep == TypeOK /\ WriterInv /\ SlotInv /\ [Next]_vars => SlotInv'
<1> SUFFICES ASSUME TypeOK /\ WriterInv /\ SlotInv, [Next]_vars PROVE SlotInv'
  OBVIOUS
<1> USE SlotTypes, FramesAssumption DEF TypeOK, WriterInv, SlotInv, shared, writer, reader, locals, policy,
        control, history
<1>0. SlotOf(w) \in Slots /\ hi \in Int /\ w \in Int
  OBVIOUS
<1>1. ASSUME NEW n \in Frames, PushBegin(n) PROVE SlotInv'
  <2>1. hi' \in Int /\ hi' >= hi
    BY <1>1 DEF PushBegin
  <2>2. UNCHANGED <<state, seq, head, body>>
    BY <1>1 DEF PushBegin
  <2>3. ASSUME NEW i \in Slots, state[i] = "WRITTEN" PROVE head[i] <= hi'
    <3>1. head[i] \in Frames /\ head[i] <= hi
      BY <2>3
    <3>2. head[i] \in Int
      BY <3>1 DEF Frames
    <3>3. QED
      BY <1>0, <2>1, <3>1, <3>2
  <2>4. QED
    BY <2>2, <2>3
<1>2. CASE PushCheckStarted
  BY <1>2 DEF PushCheckStarted
<1>3. CASE PushInitNext
  BY <1>3 DEF PushInitNext
<1>4. CASE PushInitNewest
  BY <1>4 DEF PushInitNewest
<1>5. CASE PushInitStarted
  BY <1>5 DEF PushInitStarted
<1>6. CASE PushCheckLate
  BY <1>6 DEF PushCheckLate
<1>7. CASE PushUpdateNewest
  BY <1>7 DEF PushUpdateNewest
<1>8. CASE PushCheckDuplicate
  BY <1>8 DEF PushCheckDuplicate
<1>9. CASE PushClaim
  BY <1>9 DEF PushClaim
<1>10. CASE PushSeq
  BY <1>10 DEF PushSeq
<1>11. CASE PushHead
  BY <1>11 DEF PushHead
<1>12. CASE PushBody
  BY <1>12 DEF PushBody
<1>13. CASE PushPublish
  BY <1>13 DEF PushPublish
<1>14. CASE Prime
  BY <1>14 DEF Prime
<1>15. CASE Conceal
  BY <1>15 DEF Conceal
<1>16. CASE PopLoadNext
  BY <1>16 DEF PopLoadNext
<1>17. CASE PopCheckState
  BY <1>17 DEF PopCheckState
<1>18. CASE PopCheckSeq
  BY <1>18 DEF PopCheckSeq
<1>19. CASE PopCopyHead
  BY <1>19 DEF PopCopyHead
<1>20. CASE PopCopyBody
  BY <1>20 DEF PopCopyBody
<1>21. CASE PopRecheckState
  BY <1>21 DEF PopRecheckState
<1>22. CASE PopRecheckSeq
  BY <1>22 DEF PopRecheckSeq
<1>23. CASE PopClear
  BY <1>23 DEF PopClear
<1>24. CASE PopAdvance
  BY <1>24 DEF PopAdvance
<1>25. CASE ResetBegin
  BY <1>25 DEF ResetBegin
<1>26. CASE ResetSlot
  BY <1>26 DEF ResetSlot, WipeSlot
<1>27. CASE ResetStarted
  BY <1>27 DEF ResetStarted
<1>28. ASSUME NEW o \in {"pop", "skip"}, PopBegin(o) PROVE SlotInv'
  BY <1>28 DEF PopBegin
<1>29. CASE UNCHANGED vars
  BY <1>29 DEF vars
<1>30. QED
  BY <1>1, <1>2, <1>3, <1>4, <1>5, <1>6, <1>7, <1>8, <1>9, <1>10, <1>11,
     <1>12, <1>13, <1>14, <1>15, <1>16, <1>17, <1>18, <1>19, <1>20, <1>21,
     <1>22, <1>23, <1>24, <1>25, <1>26, <1>27, <1>28, <1>29
     DEF Next, PushStep, PopStep

\* No push puts an older packet where a stored one was.
LEMMA StoredStep == Window < SLOTS /\ TypeOK /\ WriterInv /\ SlotInv /\ StoredInv /\ [Next]_vars => StoredInv'
<1> SUFFICES ASSUME Window < SLOTS /\ TypeOK /\ WriterInv /\ SlotInv /\ StoredInv, [Next]_vars PROVE StoredInv'
  OBVIOUS
<1> USE SlotTypes, FramesAssumption DEF TypeOK, StoredInv, shared, writer, reader, locals, policy,
        control, history
<1>0. SlotOf(w) \in Slots /\ hi \in Int /\ w \in Int /\ Window \in Int
       /\ \A n \in stored : n \in Int /\ SlotOf(n) \in Slots
  BY NetworkAssumption
<1>1. ASSUME NEW n \in Frames, PushBegin(n) PROVE StoredInv'
  <2>1. hi' \in Int /\ hi' >= hi
    BY <1>1 DEF PushBegin
  <2>2. QED
    BY <1>1, <2>1 DEF PushBegin
<1>2. CASE PushCheckStarted
  BY <1>2 DEF PushCheckStarted
<1>3. CASE PushInitNext
  BY <1>3 DEF PushInitNext
<1>4. CASE PushInitNewest
  BY <1>4 DEF PushInitNewest
<1>5. CASE PushInitStarted
  BY <1>5 DEF PushInitStarted
<1>6. CASE PushCheckLate
  BY <1>6 DEF PushCheckLate
<1>7. CASE PushUpdateNewest
  BY <1>7 DEF PushUpdateNewest
<1>8. CASE PushCheckDuplicate
  BY <1>8 DEF PushCheckDuplicate
<1>9. CASE PushClaim
  BY <1>9 DEF PushClaim
<1>10. CASE PushSeq
  BY <1>10 DEF PushSeq
<1>11. CASE PushHead
  <2>1. state[SlotOf(w)] # "WRITTEN"
    BY <1>11 DEF PushHead, WriterInv
  <2>2. QED
    BY <1>11, <1>0, <2>1 DEF PushHead
<1>12. CASE PushBody
  BY <1>12 DEF PushBody
<1>13. CASE PushPublish
  <2> SUFFICES ASSUME NEW n \in stored'
               PROVE  n <= hi /\ (state'[SlotOf(n)] = "WRITTEN" => head[SlotOf(n)] >= n)
    BY <1>13 DEF PushPublish
  <2>1. w <= hi /\ w >= hi - Window /\ head[SlotOf(w)] = w
    BY <1>13 DEF PushPublish, WriterInv
  <2>2. CASE n = w
    BY <1>0, <2>1, <2>2
  <2>3. CASE n # w
    <3>1. n \in stored /\ n <= hi /\ n \in Int
      BY <1>13, <1>0, <2>3 DEF PushPublish
    <3>2. CASE SlotOf(n) = SlotOf(w)
      <4>1. n >= w + SLOTS \/ w >= n + SLOTS
        BY <1>0, <2>3, <3>1, <3>2, SameSlot
      <4>2. w >= n
        BY <1>0, <2>1, <3>1, <4>1
      <4>3. QED
        BY <2>1, <3>1, <3>2, <4>2
    <3>3. CASE SlotOf(n) # SlotOf(w)
      BY <1>13, <1>0, <3>1, <3>3 DEF PushPublish
    <3>4. QED
      BY <3>2, <3>3
  <2>4. QED
    BY <2>2, <2>3
<1>14. CASE Prime
  BY <1>14 DEF Prime
<1>15. CASE Conceal
  BY <1>15 DEF Conceal
<1>16. CASE PopLoadNext
  BY <1>16 DEF PopLoadNext
<1>17. CASE PopCheckState
  BY <1>17 DEF PopCheckState
<1>18. CASE PopCheckSeq
  BY <1>18 DEF PopCheckSeq
<1>19. CASE PopCopyHead
  BY <1>19 DEF PopCopyHead
<1>20. CASE PopCopyBody
  BY <1>20 DEF PopCopyBody
<1>21. CASE PopRecheckState
  BY <1>21 DEF PopRecheckState
<1>22. CASE PopRecheckSeq
  BY <1>22 DEF PopRecheckSeq
<1>23. CASE PopClear
  BY <1>23 DEF PopClear
<1>24. CASE PopAdvance
  BY <1>24 DEF PopAdvance
<1>25. CASE ResetBegin
  BY <1>25 DEF ResetBegin
<1>26. CASE ResetSlot
  BY <1>26 DEF ResetSlot, WipeSlot
<1>27. CASE ResetStarted
  BY <1>27 DEF ResetStarted
<1>28. ASSUME NEW o \in {"pop", "skip"}, PopBegin(o) PROVE StoredInv'
  BY <1>28 DEF PopBegin
<1>29. CASE UNCHANGED vars
  BY <1>29 DEF vars
<1>30. QED
  BY <1>1, <1>2, <1>3, <1>4, <1>5, <1>6, <1>7, <1>8, <1>9, <1>10, <1>11,
     <1>12, <1>13, <1>14, <1>15, <1>16, <1>17, <1>18, <1>19, <1>20, <1>21,
     <1>22, <1>23, <1>24, <1>25, <1>26, <1>27, <1>28, <1>29
     DEF Next, PushStep, PopStep

\* While a packet that had been stored is being copied, a push either leaves it
\* in its slot or laps it, and once lapped it never comes back.
LEMMA PushKeepsCopy ==
  ASSUME Window < SLOTS, IInv, exp_n \in stored, expect = Wire(exp_n),
         (\E n \in Frames : PushBegin(n)) \/ PushStep
  PROVE  /\ Intact => Intact' \/ Lapped'
         /\ Lapped => Lapped'
         /\ Lapped /\ seq[SlotOf(exp_n)] # expect => seq'[SlotOf(exp_n)] # expect
<1> DEFINE s == SlotOf(exp_n)
<1>1. /\ exp_n \in Frames /\ exp_n \in Int /\ exp_n <= hi /\ s \in Slots
      /\ hi \in Int /\ w \in Int /\ w \in Frames /\ SlotOf(w) \in Slots
      /\ Window \in Int /\ SLOTS \in Int
  BY SlotTypes, NetworkAssumption DEF IInv, TypeOK, StoredInv
<1>2. exp_n' = exp_n /\ hi' \in Int /\ hi' >= hi
  <2>1. CASE \E n \in Frames : PushBegin(n)
    BY <1>1, <2>1, FramesAssumption DEF PushBegin, Frames
  <2>2. CASE PushStep
    BY <1>1, <2>2 DEF PushStep, PushCheckStarted, PushInitNext, PushInitNewest,
       PushInitStarted, PushCheckLate, PushUpdateNewest, PushCheckDuplicate,
       PushClaim, PushSeq, PushHead, PushBody, PushPublish, history
  <2>3. QED
    BY <2>1, <2>2
<1>3. s' = s
  BY <1>2
<1>4. wpc # "idle" => w <= hi /\ w >= hi - Window
  BY DEF IInv, WriterInv
<1>5. Lapped /\ wpc # "idle" => w # exp_n /\ Wire(w) # expect
  <2> SUFFICES ASSUME Lapped, wpc # "idle" PROVE w # exp_n /\ Wire(w) # expect
    OBVIOUS
  <2>1. w # exp_n
    BY <1>1, <1>4 DEF Lapped
  <2>2. QED
    BY <1>1, <2>1, FramesInjective
<1>6. CASE UNCHANGED <<state, seq, head>>
  BY <1>1, <1>2, <1>3, <1>6 DEF Intact, Lapped
<1>7. CASE PushClaim
  <2>1. state' = [state EXCEPT ![SlotOf(w)] = "WRITING"] /\ UNCHANGED <<seq, head, hi>>
    BY <1>7 DEF PushClaim, history
  <2>2. state \in [Slots -> {"EMPTY", "WRITING", "WRITTEN"}]
    BY DEF IInv, TypeOK
  <2>3. CASE SlotOf(w) # s
    <3>1. state'[s] = state[s]
      BY <1>1, <2>1, <2>2, <2>3
    <3>2. QED
      BY <1>2, <1>3, <2>1, <3>1 DEF Intact, Lapped
  <2>4. CASE SlotOf(w) = s
    <3>1. state'[s] # "WRITTEN"
      BY <1>1, <2>1, <2>2, <2>4
    <3>2. ~Intact'
      BY <1>2, <1>3, <3>1 DEF Intact
    <3>3. Intact => hi >= exp_n + SLOTS
      <4> SUFFICES ASSUME Intact PROVE hi >= exp_n + SLOTS
        OBVIOUS
      <4>1. seq[s] = Wire(exp_n)
        BY <1>1 DEF IInv, SlotInv, Intact
      <4>2. seq[s] # Wire(w)
        BY <1>7, <2>4 DEF IInv, WriterInv, Intact, PushClaim
      <4>3. w # exp_n
        BY <4>1, <4>2
      <4>4. w >= exp_n + SLOTS \/ exp_n >= w + SLOTS
        BY <1>1, <2>4, <4>3, SameSlot
      <4>5. w <= hi /\ w >= hi - Window
        BY <1>4, <1>7 DEF PushClaim
      <4>6. QED
        BY <1>1, <4>4, <4>5
    <3>4. QED
      BY <1>1, <1>2, <1>3, <2>1, <3>2, <3>3 DEF Lapped
  <2>5. QED
    BY <2>3, <2>4
<1>8. CASE PushSeq
  <2>1. seq' = [seq EXCEPT ![SlotOf(w)] = Wire(w)] /\ UNCHANGED <<state, head, hi>>
    BY <1>8 DEF PushSeq, history
  <2>2. seq \in [Slots -> Seqs]
    BY DEF IInv, TypeOK
  <2>3. (Intact => Intact') /\ (Lapped => Lapped')
    BY <1>2, <1>3, <2>1 DEF Intact, Lapped
  <2>4. Lapped => Wire(w) # expect
    BY <1>5, <1>8 DEF PushSeq
  <2>5. Lapped /\ seq[s] # expect => seq'[s] # expect
    BY <1>1, <2>1, <2>2, <2>4
  <2>6. QED
    BY <2>3, <2>5
<1>9. CASE PushHead
  <2>1. head' = [head EXCEPT ![SlotOf(w)] = w] /\ UNCHANGED <<state, seq, hi>>
    BY <1>9 DEF PushHead, history
  <2>2. head \in [Slots -> Frames \cup {NoFrame}]
    BY DEF IInv, TypeOK
  <2>3. CASE SlotOf(w) # s
    <3>1. head'[s] = head[s]
      BY <1>1, <2>1, <2>2, <2>3
    <3>2. QED
      BY <1>2, <1>3, <2>1, <3>1 DEF Intact, Lapped
  <2>4. CASE SlotOf(w) = s
    <3>1. state[s] # "WRITTEN"
      BY <1>9, <2>4 DEF IInv, WriterInv, PushHead
    <3>2. ~Intact /\ ~Intact'
      BY <1>2, <1>3, <2>1, <3>1 DEF Intact
    <3>3. QED
      BY <1>2, <1>3, <2>1, <3>2 DEF Lapped
  <2>5. QED
    BY <2>3, <2>4
<1>10. CASE PushPublish
  <2>1. state' = [state EXCEPT ![SlotOf(w)] = "WRITTEN"] /\ UNCHANGED <<seq, head, hi>>
    BY <1>10 DEF PushPublish
  <2>2. state \in [Slots -> {"EMPTY", "WRITING", "WRITTEN"}]
    BY DEF IInv, TypeOK
  <2>3. CASE SlotOf(w) # s
    <3>1. state'[s] = state[s]
      BY <1>1, <2>1, <2>2, <2>3
    <3>2. QED
      BY <1>2, <1>3, <2>1, <3>1 DEF Intact, Lapped
  <2>4. CASE SlotOf(w) = s
    <3>1. state[s] # "WRITTEN" /\ head[s] = w
      BY <1>10, <2>4 DEF IInv, WriterInv, PushPublish
    <3>2. Lapped => head[s] # exp_n
      BY <1>5, <1>10, <3>1 DEF PushPublish
    <3>3. Lapped => Lapped'
      BY <1>2, <1>3, <2>1, <3>2 DEF Lapped, Intact
    <3>4. QED
      BY <2>1, <1>3, <3>1, <3>3 DEF Intact
  <2>5. QED
    BY <2>3, <2>4
<1>11. QED
  <2>1. CASE \E n \in Frames : PushBegin(n)
    BY <1>6, <2>1 DEF PushBegin, shared
  <2>2. CASE PushStep
    BY <1>6, <1>7, <1>8, <1>9, <1>10, <2>2 DEF PushStep, PushCheckStarted,
       PushInitNext, PushInitNewest, PushInitStarted, PushCheckLate,
       PushUpdateNewest, PushCheckDuplicate, PushBody, shared
  <2>3. QED
    BY <2>1, <2>2

\* The reader's knowledge survives the writer's steps.
LEMMA ReaderKeptByPush ==
  ASSUME Window < SLOTS, IInv, (\E n \in Frames : PushBegin(n)) \/ PushStep
  PROVE  ReaderInv'
<1>1. UNCHANGED <<rpc, op, expect, got_head, got_body, hit, exp_n, was_stored>>
  <2>1. CASE \E n \in Frames : PushBegin(n)
    BY <2>1 DEF PushBegin, reader, locals
  <2>2. CASE PushStep
    BY <2>2 DEF PushStep, PushCheckStarted, PushInitNext, PushInitNewest,
       PushInitStarted, PushCheckLate, PushUpdateNewest, PushCheckDuplicate,
       PushClaim, PushSeq, PushHead, PushBody, PushPublish, reader, locals, history
  <2>3. QED
    BY <2>1, <2>2
<1>2. stored \subseteq stored'
  <2>1. CASE \E n \in Frames : PushBegin(n)
    BY <2>1 DEF PushBegin
  <2>2. CASE PushStep
    BY <2>2 DEF PushStep, PushCheckStarted, PushInitNext, PushInitNewest,
       PushInitStarted, PushCheckLate, PushUpdateNewest, PushCheckDuplicate,
       PushClaim, PushSeq, PushHead, PushBody, PushPublish, history
  <2>3. QED
    BY <2>1, <2>2
<1>3. SUFFICES ASSUME MidOp', op' = "pop", was_stored'
               PROVE  /\ exp_n' \in stored'
                      /\ rpc' \in {"check_seq", "copy_head", "copy_body"} =>
                             Intact' \/ Lapped'
                      /\ rpc' = "copy_body" => got_head' = exp_n' \/ Lapped'
                      /\ rpc' = "recheck_state" =>
                             (got_head' = exp_n' /\ got_body' = exp_n') \/ Lapped'
                      /\ rpc' = "recheck_seq" =>
                             \/ got_head' = exp_n' /\ got_body' = exp_n'
                             \/ Lapped' /\ seq'[SlotOf(exp_n')] # expect'
                      /\ rpc' = "clear" \/ (rpc' = "advance" /\ hit') =>
                             got_head' = exp_n' /\ got_body' = exp_n'
                      /\ rpc' \notin {"clear", "advance"} => ~hit'
  BY DEF ReaderInv
<1>4. MidOp /\ op = "pop" /\ was_stored
  BY <1>1, <1>3 DEF MidOp
<1>5. /\ exp_n \in stored
      /\ rpc \in {"check_seq", "copy_head", "copy_body"} => Intact \/ Lapped
      /\ rpc = "copy_body" => got_head = exp_n \/ Lapped
      /\ rpc = "recheck_state" => (got_head = exp_n /\ got_body = exp_n) \/ Lapped
      /\ rpc = "recheck_seq" => \/ got_head = exp_n /\ got_body = exp_n
                                \/ Lapped /\ seq[SlotOf(exp_n)] # expect
      /\ rpc = "clear" \/ (rpc = "advance" /\ hit) =>
             got_head = exp_n /\ got_body = exp_n
      /\ rpc \notin {"clear", "advance"} => ~hit
  BY <1>4 DEF IInv, ReaderInv
<1>6. expect = Wire(exp_n)
  BY <1>4 DEF IInv, PositionInv
<1>7. /\ Intact => Intact' \/ Lapped'
      /\ Lapped => Lapped'
      /\ Lapped /\ seq[SlotOf(exp_n)] # expect => seq'[SlotOf(exp_n)] # expect
  BY <1>5, <1>6, PushKeepsCopy
<1> HIDE DEF Intact, Lapped, MidOp
<1>8. QED
  BY <1>1, <1>2, <1>5, <1>7

\* The reader's own steps build its knowledge up.
LEMMA ReaderKeptByPop ==
  ASSUME Window < SLOTS, IInv,
         Prime \/ Conceal \/ (\E o \in {"pop", "skip"} : PopBegin(o)) \/ ResetBegin \/ PopStep
  PROVE  ReaderInv'
<1> DEFINE s == SlotOf(exp_n)
<1>1. MidOp => Idx(expect) = s
  BY DEF IInv, PositionInv, SlotOf
<1>2. exp_n \in stored => /\ exp_n \in Frames /\ exp_n \in Int /\ exp_n <= hi
                          /\ s \in Slots
  BY SlotTypes, FramesAssumption DEF IInv, TypeOK, StoredInv, Frames
<1>3. hi \in Int /\ SLOTS \in Int
  BY SlotTypes, FramesAssumption DEF IInv, TypeOK, Frames
<1>4. CASE Prime \/ Conceal \/ ResetBegin \/ ResetSlot \/ ResetStarted \/ PopAdvance
           \/ \E o \in {"pop", "skip"} : PopBegin(o)
  BY <1>4 DEF Prime, Conceal, ResetBegin, ResetSlot, ResetStarted, PopAdvance,
     PopBegin, ReaderInv, MidOp
<1>5. CASE PopLoadNext
  <2>1. rpc' = "check_state" /\ exp_n' = next_n /\ stored' = stored /\ hit' = FALSE
        /\ (was_stored' <=> next_n \in stored)
    BY <1>5 DEF PopLoadNext
  <2>2. QED
    BY <2>1 DEF ReaderInv, MidOp
<1>6. CASE PopCheckState
  <2>1. UNCHANGED <<op, expect, got_head, got_body, hit, exp_n, stored, was_stored,
                    state, seq, head, body, hi>>
    BY <1>6 DEF PopCheckState, locals, shared, history
  <2>2. MidOp /\ rpc = "check_state"
    BY <1>6 DEF PopCheckState, MidOp
  <2>3. exp_n \in stored /\ state[s] = "WRITTEN" => Intact \/ Lapped
    <3> SUFFICES ASSUME exp_n \in stored, state[s] = "WRITTEN", ~Intact PROVE Lapped
      OBVIOUS
    <3>1. head[s] >= exp_n /\ head[s] # exp_n
      BY DEF IInv, StoredInv, Intact
    <3>2. head[s] \in Frames /\ SlotOf(head[s]) = s /\ head[s] <= hi
      BY <1>2 DEF IInv, SlotInv
    <3>3. head[s] \in Int
      BY <3>2, FramesAssumption DEF Frames
    <3>4. head[s] >= exp_n + SLOTS \/ exp_n >= head[s] + SLOTS
      BY <1>2, <3>1, <3>2, <3>3, SameSlot
    <3>5. QED
      BY <1>2, <1>3, <3>1, <3>2, <3>3, <3>4, SlotTypes DEF Lapped
  <2>4. Intact' <=> Intact
    BY <2>1 DEF Intact
  <2>5. Lapped' <=> Lapped
    BY <2>1, <2>4 DEF Lapped
  <2>6. rpc' = IF state[s] = "WRITTEN" THEN "check_seq" ELSE "advance"
    BY <1>1, <1>6, <2>2 DEF PopCheckState
  <2>7. op = "pop" /\ was_stored => exp_n \in stored /\ ~hit
    BY <2>2 DEF IInv, ReaderInv
  <2> HIDE DEF Intact, Lapped, s
  <2>8. QED
    BY <2>1, <2>3, <2>4, <2>5, <2>6, <2>7 DEF ReaderInv
<1>7. CASE PopCheckSeq
  <2>1. UNCHANGED <<op, expect, got_head, got_body, hit, exp_n, stored, was_stored,
                    state, seq, head, body, hi>>
    BY <1>7 DEF PopCheckSeq, locals, shared, history
  <2>2. MidOp /\ rpc = "check_seq"
    BY <1>7 DEF PopCheckSeq, MidOp
  <2>3. (Intact' <=> Intact) /\ (Lapped' <=> Lapped)
    BY <2>1 DEF Intact, Lapped
  <2>4. op = "pop" => rpc' \in {"copy_head", "advance"}
    BY <1>7 DEF PopCheckSeq
  <2>5. op = "pop" /\ was_stored => exp_n \in stored /\ ~hit /\ (Intact \/ Lapped)
    BY <2>2 DEF IInv, ReaderInv
  <2> HIDE DEF Intact, Lapped
  <2>6. QED
    BY <2>1, <2>3, <2>4, <2>5 DEF ReaderInv
<1>8. CASE PopCopyHead
  <2>1. UNCHANGED <<op, expect, got_body, hit, exp_n, stored, was_stored,
                    state, seq, head, body, hi>>
    BY <1>8 DEF PopCopyHead, shared, history
  <2>2. MidOp /\ rpc = "copy_head" /\ rpc' = "copy_body"
    BY <1>8 DEF PopCopyHead, MidOp
  <2>3. (Intact' <=> Intact) /\ (Lapped' <=> Lapped)
    BY <2>1 DEF Intact, Lapped
  <2>4. Intact => got_head' = exp_n
    BY <1>1, <1>8, <2>2 DEF PopCopyHead, Intact
  <2>5. op = "pop" /\ was_stored => exp_n \in stored /\ ~hit /\ (Intact \/ Lapped)
    BY <2>2 DEF IInv, ReaderInv
  <2> HIDE DEF Intact, Lapped
  <2>6. QED
    BY <2>1, <2>2, <2>3, <2>4, <2>5 DEF ReaderInv
<1>9. CASE PopCopyBody
  <2>1. UNCHANGED <<op, expect, got_head, hit, exp_n, stored, was_stored,
                    state, seq, head, body, hi>>
    BY <1>9 DEF PopCopyBody, shared, history
  <2>2. MidOp /\ rpc = "copy_body" /\ rpc' = "recheck_state"
    BY <1>9 DEF PopCopyBody, MidOp
  <2>3. (Intact' <=> Intact) /\ (Lapped' <=> Lapped)
    BY <2>1 DEF Intact, Lapped
  <2>4. exp_n \in stored /\ Intact => got_body' = exp_n
    <3>1. exp_n \in stored /\ Intact => body[s] = exp_n
      BY <1>2 DEF IInv, SlotInv, Intact
    <3>2. QED
      BY <1>1, <1>9, <2>2, <3>1 DEF PopCopyBody
  <2>5. op = "pop" /\ was_stored => /\ exp_n \in stored /\ ~hit
                                    /\ Intact \/ Lapped
                                    /\ got_head = exp_n \/ Lapped
    BY <2>2 DEF IInv, ReaderInv
  <2> HIDE DEF Intact, Lapped
  <2>6. QED
    BY <2>1, <2>2, <2>3, <2>4, <2>5 DEF ReaderInv
<1>10. CASE PopRecheckState
  <2>1. UNCHANGED <<op, expect, got_head, got_body, hit, exp_n, stored, was_stored,
                    state, seq, head, body, hi>>
    BY <1>10 DEF PopRecheckState, locals, shared, history
  <2>2. MidOp /\ rpc = "recheck_state"
    BY <1>10 DEF PopRecheckState, MidOp
  <2>3. (Intact' <=> Intact) /\ (Lapped' <=> Lapped)
    BY <2>1 DEF Intact, Lapped
  <2>4. rpc' = IF state[s] = "WRITTEN" THEN "recheck_seq" ELSE "advance"
    BY <1>1, <1>10, <2>2 DEF PopRecheckState
  <2>5. exp_n \in stored /\ Lapped /\ state[s] = "WRITTEN" => seq[s] # expect
    <3> SUFFICES ASSUME exp_n \in stored, Lapped, state[s] = "WRITTEN", seq[s] = expect
                 PROVE  FALSE
      OBVIOUS
    <3>1. head[s] \in Frames /\ seq[s] = Wire(head[s])
      BY <1>2 DEF IInv, SlotInv
    <3>2. expect = Wire(exp_n)
      BY <2>2 DEF IInv, PositionInv
    <3>3. head[s] = exp_n
      BY <1>2, <3>1, <3>2, FramesInjective
    <3>4. QED
      BY <3>3 DEF Lapped, Intact
  <2>6. op = "pop" /\ was_stored =>
            /\ exp_n \in stored /\ ~hit
            /\ (got_head = exp_n /\ got_body = exp_n) \/ Lapped
    BY <2>2 DEF IInv, ReaderInv
  <2> HIDE DEF Intact, Lapped
  <2>7. QED
    BY <2>1, <2>3, <2>4, <2>5, <2>6 DEF ReaderInv
<1>11. CASE PopRecheckSeq
  <2>1. UNCHANGED <<op, expect, got_head, got_body, hit, exp_n, stored, was_stored>>
    BY <1>11 DEF PopRecheckSeq, locals, shared, history
  <2>2. MidOp /\ rpc = "recheck_seq"
    BY <1>11 DEF PopRecheckSeq, MidOp
  <2>3. rpc' = IF seq[s] = expect THEN "clear" ELSE "advance"
    BY <1>1, <1>11, <2>2 DEF PopRecheckSeq
  <2>4. op = "pop" /\ was_stored =>
            /\ exp_n \in stored /\ ~hit
            /\ seq[s] = expect => got_head = exp_n /\ got_body = exp_n
    BY <2>2 DEF IInv, ReaderInv
  <2>5. QED
    BY <2>1, <2>3, <2>4 DEF ReaderInv
<1>12. CASE PopClear
  <2>1. UNCHANGED <<op, got_head, got_body, exp_n, stored, was_stored>>
    BY <1>12 DEF PopClear, history
  <2>2. MidOp /\ rpc = "clear" /\ rpc' = "advance"
    BY <1>12 DEF PopClear, MidOp
  <2>3. op = "pop" /\ was_stored =>
            exp_n \in stored /\ got_head = exp_n /\ got_body = exp_n
    BY <2>2 DEF IInv, ReaderInv
  <2>4. QED
    BY <2>1, <2>2, <2>3 DEF ReaderInv
<1>13. QED
  BY <1>4, <1>5, <1>6, <1>7, <1>8, <1>9, <1>10, <1>11, <1>12 DEF PopStep

\* The invariant holds initially and every step keeps it.
LEMMA Inductive ==
  ASSUME Window < SLOTS
  PROVE  /\ Init => IInv
         /\ IInv /\ [Next]_vars => IInv'
<1>1. Init => IInv
  <2> SUFFICES ASSUME Init PROVE IInv
    OBVIOUS
  <2>1. TypeOK /\ MissesInv
    BY TypeInit
  <2>2. PositionInv
    <3>1. Wire(0) = 0
      <4>1. SeqSpace * 0 + 0 = 0 /\ 0 \in 0 .. SeqSpace - 1
        BY SeqSpaceType
      <4>2. (SeqSpace * 0 + 0) % SeqSpace = 0
        BY <4>1, SeqSpaceType, ModUnique
      <4>3. QED
        BY <4>1, <4>2 DEF Wire
    <3>2. QED
      BY <3>1 DEF Init, PositionInv, InOp, MidOp
  <2>3. WriterInv
    BY FramesAssumption DEF Init, WriterInv
  <2>4. SlotInv
    BY DEF Init, SlotInv
  <2>5. StoredInv
    BY DEF Init, StoredInv
  <2>6. ReaderInv
    BY DEF Init, ReaderInv, MidOp
  <2>7. QED
    BY <2>1, <2>2, <2>3, <2>4, <2>5, <2>6 DEF IInv
<1>2. IInv /\ [Next]_vars => IInv'
  <2> SUFFICES ASSUME IInv, [Next]_vars PROVE IInv'
    OBVIOUS
  <2>1. TypeOK' /\ MissesInv' /\ PositionInv' /\ WriterInv' /\ SlotInv' /\ StoredInv'
    BY TypeStep, PositionStep, WriterStep, SlotStep, StoredStep DEF IInv
  <2>2. ReaderInv'
    <3>1. CASE (\E n \in Frames : PushBegin(n)) \/ PushStep
      BY <3>1, ReaderKeptByPush
    <3>2. CASE Prime \/ Conceal \/ (\E o \in {"pop", "skip"} : PopBegin(o))
               \/ ResetBegin \/ PopStep
      BY <3>2, ReaderKeptByPop
    <3>3. CASE UNCHANGED vars
      BY <3>3 DEF vars, shared, reader, locals, history, IInv, ReaderInv, MidOp,
         Intact, Lapped
    <3>4. QED
      BY <3>1, <3>2, <3>3 DEF Next
  <2>3. QED
    BY <2>1, <2>2 DEF IInv
<1>3. QED
  BY <1>1, <1>2

-----------------------------------------------------------------------------
(* The theorems.                                                           *)

\* With one writer and one reader, and no packet delayed by a full ring, a frame
\* that was stored before its pop began is played whole or concealed, never
\* mixed with what overwrites its slot: take's re-check does its work.
THEOREM StoredFramesIntact ==
  ASSUME Window < SLOTS
  PROVE  Spec => []StoredFramePlayedIntact
<1>1. IInv => StoredFramePlayedIntact
  BY DEF IInv, ReaderInv, MidOp, StoredFramePlayedIntact, PoppedIntact, Played
<1>2. QED
  BY <1>1, Inductive, PTL DEF Spec

\* Under the same conditions a push only ever overwrites packets at least a full
\* ring older, as the comment at jitter.rs 163-164 has it.
THEOREM OverwritesOlder ==
  ASSUME Window < SLOTS
  PROVE  Spec => []OverwritesOnlyOlder
<1>1. IInv => OverwritesOnlyOlder
  <2> SUFFICES ASSUME IInv, wpc = "claim", state[SlotOf(w)] = "WRITTEN"
               PROVE  head[SlotOf(w)] + SLOTS <= w
    BY DEF OverwritesOnlyOlder
  <2> DEFINE h == head[SlotOf(w)]
  <2>1. w \in Int /\ SlotOf(w) \in Slots /\ hi \in Int /\ SLOTS \in Int /\ Window \in Int
    BY SlotTypes, FramesAssumption, NetworkAssumption DEF IInv, TypeOK, Frames
  <2>2. h \in Frames /\ SlotOf(h) = SlotOf(w) /\ h <= hi /\ seq[SlotOf(w)] = Wire(h)
    BY <2>1 DEF IInv, SlotInv
  <2>3. h \in Int
    BY <2>2, FramesAssumption DEF Frames
  <2>4. w >= hi - Window /\ seq[SlotOf(w)] # Wire(w)
    BY DEF IInv, WriterInv
  <2>5. h # w
    BY <2>2, <2>4
  <2> HIDE DEF h
  <2>6. h >= w + SLOTS \/ w >= h + SLOTS
    BY <2>1, <2>2, <2>3, <2>5, SameSlot
  <2>7. h + SLOTS <= w
    BY <2>1, <2>2, <2>3, <2>4, <2>6
  <2>8. QED
    BY <2>7 DEF h
<1>2. QED
  BY <1>1, Inductive, PTL DEF Spec

\* With one writer and one reader the position moves by exactly one per pop or
\* skip, whatever the network does.
THEOREM PositionByOne ==
  ASSUME Window < SLOTS
  PROVE  Spec => PositionMovesByOne
<1>1. IInv => [PopAdvance => next_n' = next_n + 1]_vars
  BY DEF IInv, PositionInv, MidOp, PopAdvance
<1>2. QED
  BY <1>1, Inductive, PTL DEF Spec, PositionMovesByOne

\* A packet is refused as late only when the reader has passed it, wraparound
\* included, as long as the stream spans less than half the sequence space.
THEOREM LateIsPassed ==
  ASSUME Window < SLOTS, LastFrame + 1 - FirstFrame < Half
  PROVE  Spec => LateMeansPassed
<1>1. IInv => [PushCheckLate /\ wpc' = "idle" => w < next_n]_vars
  <2> SUFFICES ASSUME IInv, PushCheckLate, wpc' = "idle" PROVE w < next_n
    OBVIOUS
  <2>1. next_n \in FirstFrame .. LastFrame + 1 /\ next_seq = Wire(next_n)
    BY DEF IInv, PositionInv, PushCheckLate
  <2>2. w \in FirstFrame .. LastFrame
    BY DEF IInv, TypeOK, Frames
  <2>3. w \in Int /\ next_n \in Int /\ next_n - w < Half /\ w - next_n < Half
    BY <2>1, <2>2, FramesAssumption, HalfAssumption
  <2>4. newer_than(Wire(next_n), Wire(w))
    BY <2>1 DEF PushCheckLate
  <2>5. QED
    BY <2>3, <2>4, DiffIsDistance
<1>2. QED
  BY <1>1, Inductive, PTL DEF Spec, LateMeansPassed

-----------------------------------------------------------------------------
(* Stored packets are kept for their pops.                                 *)

\* Numbers, for the arithmetic of the following lemmas.
LEMMA Numbers ==
  ASSUME IInv
  PROVE  /\ w \in Int /\ hi \in Int /\ next_n \in Int /\ exp_n \in Int
         /\ SLOTS \in Int /\ SLOTS > 0 /\ Window \in Int /\ ri \in Int
         /\ \A n \in stored : n \in Int /\ n \in Frames /\ SlotOf(n) \in Slots /\ n <= hi
         /\ SlotOf(w) \in Slots
         /\ \A i \in Slots : i \in Int /\ i < SLOTS
<1>1. w \in Frames /\ hi \in Frames /\ next_n \in Nat /\ exp_n \in Nat
      /\ ri \in 0 .. SLOTS /\ stored \in SUBSET Frames
  BY DEF IInv, TypeOK
<1>2. \A n \in stored : n <= hi
  BY DEF IInv, StoredInv
<1>3. SLOTS \in Nat \ {0} /\ Window \in Nat
  BY SlotTypes, NetworkAssumption
<1>4. w \in Int /\ hi \in Int /\ \A n \in stored : n \in Int /\ n \in Frames
  BY <1>1, SlotTypes
<1>5. SlotOf(w) \in Slots /\ \A n \in stored : SlotOf(n) \in Slots
  BY <1>4, SlotTypes
<1>6. QED
  BY <1>1, <1>2, <1>3, <1>4, <1>5 DEF Slots

\* A push stays less than a ring ahead of a reader it has not lapped.
LEMMA AheadStep == Window < SLOTS /\ IInv /\ AheadInv /\ [Next]_vars => AheadInv'
<1> SUFFICES ASSUME Window < SLOTS, IInv, AheadInv, [Next]_vars PROVE AheadInv'
  OBVIOUS
<1>0. /\ w \in Int /\ hi \in Int /\ next_n \in Int /\ SLOTS \in Int /\ SLOTS > 0
      /\ Window \in Int /\ \A n \in stored : n \in Int /\ n <= hi
  BY Numbers
<1>p. /\ wpc \in {"init_next", "init_newest", "init_started"} => ~started
      /\ MidOp => started /\ exp_n = next_n
      /\ wpc # "idle" => w >= hi - Window
  BY DEF IInv, PositionInv, WriterInv, InOp
<1> USE DEF AheadInv
<1>1. ASSUME NEW n \in Frames, PushBegin(n) PROVE AheadInv'
  <2>1. n \in Int
    BY SlotTypes
  <2>2. w' = n /\ wpc' = "check_started" /\ started' = started /\ next_n' = next_n
        /\ stored' = stored /\ lapped' = (lapped \/ (started /\ n >= next_n + SLOTS))
    BY <1>1 DEF PushBegin, shared
  <2>3. started' /\ ~lapped' => started /\ ~lapped /\ n < next_n + SLOTS
    <3>1. ~lapped' => ~lapped /\ ~(started /\ n >= next_n + SLOTS)
      BY <2>2
    <3>2. ~(n >= next_n + SLOTS) => n < next_n + SLOTS
      BY <2>1, <1>0
    <3>3. QED
      BY <3>1, <3>2, <2>2
  <2>4. QED
    BY <2>2, <2>3
<1>2. CASE PushInitNext
  BY <1>2, <1>p DEF PushInitNext, control, reader, locals, policy
<1>3. CASE PushInitStarted
  <2>1. w' = w /\ next_n' = next_n /\ next_n = w /\ stored' = stored
        /\ wpc' = "check_dup" /\ w >= hi - Window
    BY <1>3, <1>p DEF PushInitStarted, history
  <2>2. w < w + SLOTS
    BY <1>0
  <2>3. \A n \in stored : n < w + SLOTS
    BY <1>0, <2>1
  <2>4. QED
    BY <2>1, <2>2, <2>3
<1>4. CASE PushPublish
  <2>1. w' = w /\ next_n' = next_n /\ stored' = stored \cup {w} /\ wpc' = "idle"
        /\ started' = started /\ lapped' = lapped /\ wpc = "publish"
    BY <1>4 DEF PushPublish
  <2>2. QED
    BY <2>1
<1>5. CASE PopAdvance
  <2>1. MidOp
    BY <1>5 DEF PopAdvance, MidOp
  <2>2. /\ started /\ next_n' = next_n + 1 /\ w' = w /\ wpc' = wpc /\ stored' = stored
        /\ started' = started /\ lapped' = lapped
    BY <1>5, <1>p, <2>1 DEF PopAdvance, writer
  <2>3. wpc' \notin {"init_newest", "init_started"}
    BY <2>2, <1>p
  <2>4. w < next_n + SLOTS => w < next_n + 1 + SLOTS
    BY <1>0
  <2>5. \A n \in stored : n < next_n + SLOTS => n < next_n + 1 + SLOTS
    BY <1>0
  <2>6. QED
    BY <2>2, <2>3, <2>4, <2>5
<1>6. CASE ResetSlot
  BY <1>6 DEF ResetSlot, WipeSlot, writer
<1>7. CASE ResetStarted
  BY <1>7 DEF ResetStarted, writer, history
<1>8. ASSUME UNCHANGED <<w, started, lapped, stored, next_n>>,
             wpc' # "idle" => wpc # "idle",
             wpc' \in {"init_newest", "init_started"} => wpc \in {"init_newest", "init_started"}
      PROVE  AheadInv'
  BY <1>8
<1>9. CASE PushCheckStarted
  BY <1>8, <1>9 DEF PushCheckStarted, shared, history
<1>10. CASE PushInitNewest
  BY <1>8, <1>10 DEF PushInitNewest, history
<1>11. CASE PushCheckLate \/ PushCheckDuplicate
  BY <1>8, <1>11 DEF PushCheckLate, PushCheckDuplicate, shared, history
<1>12. CASE PushUpdateNewest \/ PushClaim \/ PushSeq \/ PushHead \/ PushBody
  BY <1>8, <1>12 DEF PushUpdateNewest, PushClaim, PushSeq, PushHead, PushBody, history
<1>13. CASE Prime \/ Conceal \/ ResetBegin \/ \E o \in {"pop", "skip"} : PopBegin(o)
  BY <1>8, <1>13 DEF Prime, Conceal, ResetBegin, PopBegin, shared, writer, history
<1>14. CASE \/ PopCheckState \/ PopCheckSeq \/ PopCopyHead \/ PopCopyBody
            \/ PopRecheckState \/ PopRecheckSeq
  BY <1>8, <1>14 DEF PopCheckState, PopCheckSeq, PopCopyHead, PopCopyBody,
     PopRecheckState, PopRecheckSeq, shared, writer, history
<1>15. CASE PopLoadNext \/ PopClear
  BY <1>8, <1>15 DEF PopLoadNext, PopClear, shared, writer, history
<1>16. CASE UNCHANGED vars
  BY <1>8, <1>16 DEF vars, shared, writer, history
<1>17. QED
  BY <1>1, <1>2, <1>3, <1>4, <1>5, <1>6, <1>7, <1>9, <1>10, <1>11, <1>12, <1>13,
     <1>14, <1>15, <1>16 DEF Next, PushStep, PopStep

\* The claim of a push takes no packet that it has not outrun, and none that an
\* unlapped reader still expects.
LEMMA ClaimSpares ==
  ASSUME Window < SLOTS, IInv, AheadInv, PushClaim,
         NEW n \in stored, Held(n), SlotOf(n) = SlotOf(w)
  PROVE  Outrun(n) /\ (started /\ ~lapped => n < next_n)
<1>1. /\ w \in Int /\ hi \in Int /\ next_n \in Int /\ SLOTS \in Int
      /\ Window \in Int /\ n \in Int /\ n <= hi /\ SlotOf(n) \in Slots
  BY Numbers
<1>2. wpc = "claim" /\ w <= hi /\ w >= hi - Window
      /\ ~(state[SlotOf(w)] = "WRITTEN" /\ seq[SlotOf(w)] = Wire(w))
  BY DEF IInv, WriterInv, PushClaim
<1>3. seq[SlotOf(n)] = Wire(n)
  BY <1>1 DEF IInv, SlotInv, Held
<1>4. n # w
  BY <1>2, <1>3 DEF Held
<1>5. n >= w + SLOTS \/ w >= n + SLOTS
  BY <1>1, <1>4, SameSlot
<1>6. w >= n + SLOTS
  BY <1>1, <1>2, <1>5
<1>7. started /\ ~lapped => w < next_n + SLOTS
  BY <1>2 DEF AheadInv
<1>8. QED
  BY <1>1, <1>2, <1>6, <1>7 DEF Outrun

\* The steps that leave every slot, packet number and history as they are.
Quiet == UNCHANGED <<state, head, started, stored, next_n, hi, lapped>>

\* Most steps of the writer and the reader are quiet.
LEMMA QuietSteps ==
  ASSUME \/ PushCheckStarted \/ PushInitNewest \/ PushCheckLate \/ PushUpdateNewest
         \/ PushCheckDuplicate \/ PushSeq \/ PushBody \/ Prime \/ Conceal
         \/ \E o \in {"pop", "skip"} : PopBegin(o)
         \/ PopCheckState \/ PopCheckSeq \/ PopCopyHead \/ PopCopyBody
         \/ PopRecheckState \/ PopRecheckSeq \/ PopLoadNext \/ ResetBegin
         \/ UNCHANGED vars
  PROVE  Quiet
<1> USE DEF Quiet, shared, history
<1>1. CASE \/ PushCheckStarted \/ PushInitNewest \/ PushCheckLate \/ PushUpdateNewest
           \/ PushCheckDuplicate \/ PushSeq \/ PushBody
  BY <1>1 DEF PushCheckStarted, PushInitNewest, PushCheckLate, PushUpdateNewest,
     PushCheckDuplicate, PushSeq, PushBody
<1>2. CASE Prime \/ Conceal \/ ResetBegin \/ \E o \in {"pop", "skip"} : PopBegin(o)
  BY <1>2 DEF Prime, Conceal, ResetBegin, PopBegin
<1>3. CASE \/ PopCheckState \/ PopCheckSeq \/ PopCopyHead \/ PopCopyBody
           \/ PopRecheckState \/ PopRecheckSeq \/ PopLoadNext
  BY <1>3 DEF PopCheckState, PopCheckSeq, PopCopyHead, PopCopyBody,
     PopRecheckState, PopRecheckSeq, PopLoadNext
<1>4. CASE UNCHANGED vars
  BY <1>4 DEF vars
<1>5. QED
  BY <1>1, <1>2, <1>3, <1>4

\* A push's header store and publication leave every held packet held.
LEMMA StoreKeepsHeld ==
  ASSUME IInv, NEW n \in Frames, Held(n), PushHead \/ PushPublish
  PROVE  Held(n)'
<1>1. w \in Int /\ SlotOf(w) \in Slots /\ SlotOf(n) \in Slots
  BY Numbers, SlotTypes
<1>2. state[SlotOf(w)] # "WRITTEN"
  BY DEF IInv, WriterInv, PushHead, PushPublish
<1>3. SlotOf(n) # SlotOf(w)
  BY <1>2 DEF Held
<1>4. SlotOf(n)' = SlotOf(n) /\ SlotOf(w)' = SlotOf(w)
  BY DEF SlotOf, Idx, Wire, PushHead, PushPublish
<1>5. CASE PushHead
  <2>1. head'[SlotOf(n)] = head[SlotOf(n)] /\ state' = state
    BY <1>1, <1>3, <1>5 DEF PushHead, IInv, TypeOK
  <2>2. QED
    BY <2>1 DEF Held
<1>6. CASE PushPublish
  <2>1. state'[SlotOf(n)] = state[SlotOf(n)] /\ head' = head
    BY <1>1, <1>3, <1>6 DEF PushPublish, IInv, TypeOK
  <2>2. QED
    BY <2>1 DEF Held
<1>7. QED
  BY <1>5, <1>6

\* A published packet is held.
LEMMA PublishedIsHeld ==
  ASSUME IInv, PushPublish
  PROVE  Held(w)'
<1>1. w \in Int /\ SlotOf(w) \in Slots
  BY Numbers
<1>2. head[SlotOf(w)] = w
  BY DEF IInv, WriterInv, PushPublish
<1>3. state'[SlotOf(w)] = "WRITTEN" /\ head' = head /\ w' = w
  BY <1>1 DEF PushPublish, IInv, TypeOK
<1>4. QED
  BY <1>2, <1>3 DEF Held, SlotOf

\* The claim of a push leaves the packets of the other slots held.
LEMMA ClaimElsewhere ==
  ASSUME IInv, PushClaim, NEW n \in Frames, Held(n), SlotOf(n) # SlotOf(w)
  PROVE  Held(n)'
<1>1. w \in Int /\ SlotOf(w) \in Slots /\ SlotOf(n) \in Slots
  BY Numbers, SlotTypes
<1>2. state'[SlotOf(n)] = state[SlotOf(n)] /\ head' = head
  BY <1>1 DEF PushClaim, IInv, TypeOK
<1>3. QED
  BY <1>2 DEF Held

\* What a reset leaves in its slot stays there until the next stream outruns it.
LEMMA LeftStep ==
  Window < SLOTS /\ IInv /\ AheadInv /\ LeftByResetInv /\ [Next]_vars => LeftByResetInv'
<1> SUFFICES ASSUME Window < SLOTS, IInv, AheadInv, LeftByResetInv, [Next]_vars,
                    NEW n \in stored',
                    ~started' \/ (rpc' = "reset" /\ SlotOf(n) < ri')
             PROVE  Held(n)' \/ Outrun(n)'
  BY DEF LeftByResetInv, SlotOf, Idx, Wire
<1>0. /\ w \in Int /\ hi \in Int /\ SLOTS \in Int /\ ri \in Int /\ SlotOf(w) \in Slots
      /\ \A m \in stored : m \in Int /\ m \in Frames /\ SlotOf(m) \in Slots
      /\ \A i \in Slots : i \in Int /\ i < SLOTS /\ i >= 0
  BY Numbers DEF Slots
<1>p. MidOp => started
  BY DEF IInv, PositionInv, InOp
<1>q. ASSUME n \in stored, ~started \/ (rpc = "reset" /\ SlotOf(n) < ri)
      PROVE  Held(n) \/ Outrun(n)
  BY <1>q DEF LeftByResetInv
<1>1. ASSUME NEW m \in Frames, PushBegin(m) PROVE Held(n)' \/ Outrun(n)'
  <2>1. hi' \in Int /\ hi' >= hi
    BY <1>0, <1>1, SlotTypes DEF PushBegin
  <2>2. Held(n) \/ Outrun(n)
    BY <1>1, <1>q DEF PushBegin, shared, reader, locals
  <2>3. Outrun(n) => Outrun(n)'
    BY <1>0, <1>1, <2>1 DEF Outrun, PushBegin
  <2>4. Held(n) => Held(n)'
    BY <1>1 DEF Held, SlotOf, Idx, Wire, PushBegin, shared
  <2>5. QED
    BY <2>2, <2>3, <2>4
<1>2. CASE PushInitNext \/ PushInitStarted
  BY <1>2, <1>q DEF PushInitNext, PushInitStarted, reader, locals, history, Held, Outrun,
     SlotOf, Idx, Wire
<1>3. CASE PushClaim
  <2>1. n \in stored /\ (Held(n) \/ Outrun(n))
    BY <1>3, <1>q DEF PushClaim, reader, locals, history
  <2>2. Outrun(n) => Outrun(n)'
    BY <1>3 DEF Outrun, PushClaim, history
  <2>3. CASE Held(n) /\ SlotOf(n) = SlotOf(w)
    BY <1>3, <2>1, <2>2, <2>3, ClaimSpares
  <2>4. CASE Held(n) /\ SlotOf(n) # SlotOf(w)
    BY <1>0, <1>3, <2>1, <2>4, ClaimElsewhere
  <2>5. QED
    BY <2>1, <2>2, <2>3, <2>4
<1>4. CASE PushHead
  <2>1. n \in stored /\ (Held(n) \/ Outrun(n))
    BY <1>4, <1>q DEF PushHead, reader, locals, history
  <2>2. Outrun(n) => Outrun(n)'
    BY <1>4 DEF Outrun, PushHead, history
  <2>3. QED
    BY <1>0, <1>4, <2>1, <2>2, StoreKeepsHeld
<1>5. CASE PushPublish
  <2>1. stored' = stored \cup {w} /\ started' = started /\ rpc' = rpc /\ ri' = ri
        /\ hi' = hi
    BY <1>5 DEF PushPublish, reader, locals
  <2>2. CASE n = w
    <3>1. w' = w
      BY <1>5 DEF PushPublish
    <3>2. Held(w)'
      BY <1>5, PublishedIsHeld
    <3>3. QED
      BY <2>2, <3>1, <3>2 DEF Held, SlotOf, Idx, Wire
  <2>3. CASE n \in stored
    <3>1. Held(n) \/ Outrun(n)
      BY <1>q, <2>1, <2>3
    <3>2. Outrun(n) => Outrun(n)'
      BY <2>1 DEF Outrun
    <3>3. QED
      BY <1>0, <1>5, <2>3, <3>1, <3>2, StoreKeepsHeld
  <2>4. QED
    BY <2>1, <2>2, <2>3
<1>6. CASE PopClear \/ PopAdvance
  BY <1>6, <1>p DEF PopClear, PopAdvance, MidOp
<1>7. CASE ResetSlot
  <2>1. /\ rpc = "reset" /\ ri < SLOTS /\ ri' = ri + 1 /\ rpc' = rpc
        /\ state' = [state EXCEPT ![ri] = "EMPTY"] /\ head' = head /\ hi' = hi
        /\ started' = started /\ n \in stored /\ SlotOf(n) # ri
    BY <1>7 DEF ResetSlot, WipeSlot
  <2> DEFINE s == SlotOf(n)
  <2>2. s \in Int /\ s \in Slots
    BY <1>0, <2>1
  <2>3. s # ri
    BY <2>1
  <2> HIDE DEF s
  <2>4. s < ri + 1 => s < ri
    BY <1>0, <2>2, <2>3
  <2>5. ~started \/ s < ri
    BY <2>1, <2>4 DEF s
  <2>6. Held(n) \/ Outrun(n)
    BY <1>q, <2>1, <2>5 DEF s
  <2>7. state'[SlotOf(n)] = state[SlotOf(n)]
    BY <2>1, <2>2 DEF IInv, TypeOK, s
  <2>8. QED
    BY <2>1, <2>6, <2>7 DEF Held, Outrun
<1>8. CASE ResetStarted
  <2>1. rpc = "reset" /\ ri = SLOTS /\ n \in stored
    BY <1>8 DEF ResetStarted, history
  <2>2. Held(n) \/ Outrun(n)
    BY <1>0, <1>q, <2>1
  <2>3. QED
    BY <1>8, <2>2 DEF ResetStarted, history, Held, Outrun, SlotOf, Idx, Wire
<1>9. ASSUME Quiet, rpc' = "reset" => rpc = "reset" /\ ri' = ri
      PROVE  Held(n)' \/ Outrun(n)'
  <2>1. n \in stored /\ (Held(n) \/ Outrun(n))
    BY <1>9, <1>q DEF Quiet
  <2>2. QED
    BY <1>9, <2>1 DEF Quiet, Held, Outrun, SlotOf, Idx, Wire
<1>10. CASE \/ PushCheckStarted \/ PushInitNewest \/ PushCheckLate \/ PushUpdateNewest
            \/ PushCheckDuplicate \/ PushSeq \/ PushBody
  <2>1. rpc' = rpc /\ ri' = ri
    BY <1>10 DEF PushCheckStarted, PushInitNewest, PushCheckLate, PushUpdateNewest,
       PushCheckDuplicate, PushSeq, PushBody, reader, locals
  <2>2. QED
    BY <1>9, <1>10, <2>1, QuietSteps
<1>11. CASE \/ PopCheckState \/ PopCheckSeq \/ PopCopyHead \/ PopCopyBody
            \/ PopRecheckState \/ PopRecheckSeq \/ PopLoadNext
  <2>1. rpc' # "reset"
    BY <1>11 DEF PopCheckState, PopCheckSeq, PopCopyHead, PopCopyBody,
       PopRecheckState, PopRecheckSeq, PopLoadNext
  <2>2. QED
    BY <1>9, <1>11, <2>1, QuietSteps
<1>12. CASE Prime \/ Conceal \/ \E o \in {"pop", "skip"} : PopBegin(o)
  <2>1. rpc' # "reset"
    BY <1>12 DEF Prime, Conceal, PopBegin
  <2>2. QED
    BY <1>9, <1>12, <2>1, QuietSteps
<1>13. CASE ResetBegin
  <2>1. Quiet
    BY <1>13, QuietSteps
  <2>2. n \in stored
    BY <2>1 DEF Quiet
  <2>3. ~(SlotOf(n) < 0)
    <3> DEFINE s == SlotOf(n)
    <3>1. s \in Int /\ s >= 0
      BY <1>0, <2>2
    <3> HIDE DEF s
    <3>2. ~(s < 0)
      BY <3>1
    <3>3. QED
      BY <3>2 DEF s
  <2>4. ri' = 0
    BY <1>13 DEF ResetBegin
  <2>5. ~started
    BY <2>1, <2>3, <2>4 DEF Quiet
  <2>6. QED
    BY <1>q, <2>1, <2>2, <2>5 DEF Quiet, Held, Outrun, SlotOf, Idx, Wire
<1>14. CASE UNCHANGED vars
  BY <1>9, <1>14, QuietSteps DEF vars, reader, locals
<1>15. QED
  BY <1>1, <1>2, <1>3, <1>4, <1>5, <1>6, <1>7, <1>8, <1>10, <1>11, <1>12, <1>13,
     <1>14 DEF Next, PushStep, PopStep

\* No stored packet that an unlapped reader has not passed leaves its slot before
\* its own pop marks it.
LEMMA OwedStep ==
  Window < SLOTS /\ IInv /\ AheadInv /\ LeftByResetInv /\ OwedInv /\ [Next]_vars
      => OwedInv'
<1> SUFFICES ASSUME Window < SLOTS, IInv, AheadInv, LeftByResetInv, OwedInv,
                    [Next]_vars, started', ~lapped',
                    NEW n \in stored', n >= next_n'
             PROVE  Held(n)' \/ Taken(n)'
  BY DEF OwedInv
<1>0. /\ w \in Int /\ hi \in Int /\ next_n \in Int /\ SLOTS \in Int /\ SLOTS > 0
      /\ Window \in Int /\ exp_n \in Int /\ SlotOf(w) \in Slots
      /\ \A m \in stored : m \in Int /\ m \in Frames /\ SlotOf(m) \in Slots
  BY Numbers
<1>p. /\ wpc \in {"init_next", "init_newest", "init_started"} => ~started
      /\ MidOp => started /\ exp_n = next_n /\ expect = Wire(exp_n)
      /\ wpc # "idle" => w >= hi - Window
  BY DEF IInv, PositionInv, WriterInv, InOp
<1>q. ASSUME n \in stored, started, ~lapped, n >= next_n
      PROVE  Held(n) \/ Taken(n)
  BY <1>q DEF OwedInv
<1>1. ASSUME NEW m \in Frames, PushBegin(m) PROVE Held(n)' \/ Taken(n)'
  <2>1. n \in stored /\ started /\ ~lapped /\ n >= next_n
    BY <1>1 DEF PushBegin, shared
  <2>2. Held(n) \/ Taken(n)
    BY <1>q, <2>1
  <2>3. QED
    BY <1>1, <2>2 DEF PushBegin, shared, reader, locals, Held, Taken, SlotOf, Idx, Wire
<1>2. CASE PushInitNext
  BY <1>2, <1>p DEF PushInitNext
<1>3. CASE PushInitStarted
  <2>1. n \in stored /\ n >= next_n /\ next_n = w /\ w >= hi - Window /\ ~started
    BY <1>3, <1>p DEF PushInitStarted, history, AheadInv
  <2>2. Held(n) \/ Outrun(n)
    BY <2>1 DEF LeftByResetInv
  <2>3. ~Outrun(n)
    BY <1>0, <2>1 DEF Outrun
  <2>4. Held(n)
    BY <2>2, <2>3
  <2>5. QED
    BY <1>3, <2>4 DEF PushInitStarted, Held, SlotOf, Idx, Wire
<1>4. CASE PushClaim
  <2>1. n \in stored /\ started /\ ~lapped /\ n >= next_n
    BY <1>4 DEF PushClaim, history
  <2>2. Held(n) \/ Taken(n)
    BY <1>q, <2>1
  <2>3. Taken(n) => Taken(n)'
    BY <1>4 DEF Taken, PushClaim, reader, locals, history
  <2>4. ASSUME Held(n) PROVE SlotOf(n) # SlotOf(w)
    <3>1. SUFFICES ASSUME SlotOf(n) = SlotOf(w) PROVE FALSE
      OBVIOUS
    <3>2. n < next_n
      BY <1>4, <2>1, <2>4, <3>1, ClaimSpares
    <3>3. QED
      BY <1>0, <2>1, <3>2
  <2>5. Held(n) => Held(n)'
    BY <1>0, <1>4, <2>1, <2>4, ClaimElsewhere
  <2>6. QED
    BY <2>2, <2>3, <2>5
<1>5. CASE PushHead
  <2>1. n \in stored /\ started /\ ~lapped /\ n >= next_n
    BY <1>5 DEF PushHead, history
  <2>2. Held(n) \/ Taken(n)
    BY <1>q, <2>1
  <2>3. Taken(n) => Taken(n)'
    BY <1>5 DEF Taken, PushHead, reader, locals, history
  <2>4. QED
    BY <1>0, <1>5, <2>1, <2>2, <2>3, StoreKeepsHeld
<1>6. CASE PushPublish
  <2>1. stored' = stored \cup {w} /\ started /\ ~lapped /\ n >= next_n
    BY <1>6 DEF PushPublish
  <2>2. CASE n = w
    <3>1. w' = w
      BY <1>6 DEF PushPublish
    <3>2. Held(w)'
      BY <1>6, PublishedIsHeld
    <3>3. QED
      BY <2>2, <3>1, <3>2 DEF Held, SlotOf, Idx, Wire
  <2>3. CASE n \in stored
    <3>1. Held(n) \/ Taken(n)
      BY <1>q, <2>1, <2>3
    <3>2. Taken(n) => Taken(n)'
      BY <1>6 DEF Taken, PushPublish, reader, locals
    <3>3. QED
      BY <1>0, <1>6, <2>3, <3>1, <3>2, StoreKeepsHeld
  <2>4. QED
    BY <2>1, <2>2, <2>3
<1>7. CASE PopClear
  <2>1. /\ n \in stored /\ started /\ ~lapped /\ n >= next_n /\ rpc = "clear"
        /\ exp_n = next_n /\ expect = Wire(exp_n)
    <3>1. MidOp
      BY <1>7 DEF PopClear, MidOp
    <3>2. started' = started /\ lapped' = lapped /\ next_n' = next_n /\ stored' = stored
          /\ rpc = "clear"
      BY <1>7 DEF PopClear, history
    <3>3. n \in stored /\ n >= next_n
      BY <3>2
    <3>4. QED
      BY <1>p, <3>1, <3>2, <3>3
  <2>2. CASE n = exp_n
    <3>1. rpc' = "advance" /\ hit' = TRUE /\ exp_n' = exp_n
      BY <1>7 DEF PopClear, history
    <3>2. QED
      BY <2>2, <3>1 DEF Taken
  <2>3. CASE n # exp_n
    <3>1. Held(n)
      BY <1>q, <2>1 DEF Taken
    <3>2. n < next_n + SLOTS
      BY <2>1 DEF AheadInv
    <3>3. SlotOf(n) # SlotOf(exp_n)
      <4>1. SUFFICES ASSUME SlotOf(n) = SlotOf(exp_n) PROVE FALSE
        OBVIOUS
      <4>2. n >= exp_n + SLOTS \/ exp_n >= n + SLOTS
        BY <1>0, <2>1, <2>3, <4>1, SameSlot
      <4>3. QED
        BY <1>0, <2>1, <3>2, <4>2
    <3>4. SlotOf(n) \in Slots /\ SlotOf(exp_n) \in Slots
      BY <1>0, <2>1, SlotTypes
    <3>5. state' = [state EXCEPT ![SlotOf(exp_n)] = "EMPTY"] /\ head' = head
      BY <1>7, <2>1 DEF PopClear, SlotOf
    <3>6. state'[SlotOf(n)] = state[SlotOf(n)]
      BY <3>3, <3>4, <3>5 DEF IInv, TypeOK
    <3>7. QED
      BY <3>1, <3>5, <3>6 DEF Held, SlotOf, Idx, Wire
  <2>4. QED
    BY <2>2, <2>3
<1>8. CASE PopAdvance
  <2>1. /\ n \in stored /\ started /\ ~lapped /\ n >= next_n + 1 /\ exp_n = next_n
    BY <1>8, <1>p DEF PopAdvance, MidOp
  <2>2. n >= next_n /\ n # exp_n
    BY <1>0, <2>1
  <2>3. Held(n)
    BY <1>q, <2>1, <2>2 DEF Taken
  <2>4. QED
    BY <1>8, <2>3 DEF PopAdvance, Held, SlotOf, Idx, Wire
<1>9. CASE ResetSlot
  <2>1. /\ rpc = "reset" /\ state' = [state EXCEPT ![ri] = "EMPTY"] /\ head' = head
        /\ started /\ ~lapped /\ n \in stored /\ SlotOf(n) # ri /\ n >= next_n
    BY <1>9 DEF ResetSlot, WipeSlot
  <2>2. Held(n)
    BY <1>q, <2>1 DEF Taken
  <2>3. state'[SlotOf(n)] = state[SlotOf(n)]
    BY <1>0, <2>1 DEF IInv, TypeOK
  <2>4. QED
    BY <2>1, <2>2, <2>3 DEF Held
<1>10. CASE ResetStarted
  BY <1>10 DEF ResetStarted
<1>11. ASSUME Quiet, Taken(n) => Taken(n)' PROVE Held(n)' \/ Taken(n)'
  <2>1. Held(n) \/ Taken(n)
    BY <1>11, <1>q DEF Quiet
  <2>2. Held(n) => Held(n)'
    BY <1>11 DEF Quiet, Held, SlotOf, Idx, Wire
  <2>3. QED
    BY <1>11, <2>1, <2>2
<1>12. CASE \/ PushCheckStarted \/ PushInitNewest \/ PushCheckLate \/ PushUpdateNewest
            \/ PushCheckDuplicate \/ PushSeq \/ PushBody
  <2>1. rpc' = rpc /\ hit' = hit /\ exp_n' = exp_n
    BY <1>12 DEF PushCheckStarted, PushInitNewest, PushCheckLate, PushUpdateNewest,
       PushCheckDuplicate, PushSeq, PushBody, reader, locals, history
  <2>2. QED
    BY <1>11, <1>12, <2>1, QuietSteps DEF Taken
<1>13. CASE \/ PopCheckState \/ PopCheckSeq \/ PopCopyHead \/ PopCopyBody
            \/ PopRecheckState \/ PopRecheckSeq \/ PopLoadNext
  <2>1. rpc # "advance"
    BY <1>13 DEF PopCheckState, PopCheckSeq, PopCopyHead, PopCopyBody,
       PopRecheckState, PopRecheckSeq, PopLoadNext
  <2>2. QED
    BY <1>11, <1>13, <2>1, QuietSteps DEF Taken
<1>14. CASE Prime \/ Conceal \/ ResetBegin \/ \E o \in {"pop", "skip"} : PopBegin(o)
  <2>1. rpc # "advance"
    BY <1>14 DEF Prime, Conceal, ResetBegin, PopBegin
  <2>2. QED
    BY <1>11, <1>14, <2>1, QuietSteps DEF Taken
<1>15. CASE UNCHANGED vars
  BY <1>11, <1>15, QuietSteps DEF vars, reader, locals, history, Taken
<1>16. QED
  BY <1>1, <1>2, <1>3, <1>4, <1>5, <1>6, <1>7, <1>8, <1>9, <1>10, <1>12, <1>13,
     <1>14, <1>15 DEF Next, PushStep, PopStep

\* A pop that expects a stored packet finds it at each of its looks at the slot.
LEMMA HitStep ==
  Window < SLOTS /\ IInv /\ OwedInv /\ HitInv /\ [Next]_vars => HitInv'
<1> SUFFICES ASSUME IInv, OwedInv, HitInv, [Next]_vars, MidOp', was_stored'
             PROVE  /\ exp_n' \in stored'
                    /\ rpc' = "advance" => hit' \/ lapped'
  BY DEF HitInv
<1>1. CASE PopLoadNext
  BY <1>1 DEF PopLoadNext
<1>2. ASSUME MidOp, was_stored, stored' = stored, exp_n' = exp_n,
             rpc' = "advance" => hit' \/ lapped'
      PROVE  exp_n' \in stored' /\ (rpc' = "advance" => hit' \/ lapped')
  BY <1>2 DEF HitInv
<1>3. ASSUME MidOp, was_stored, rpc # "advance", ~lapped
      PROVE  /\ state[Idx(expect)] = "WRITTEN"
             /\ seq[Idx(expect)] = expect
  <2>1. exp_n \in stored /\ started /\ exp_n = next_n /\ expect = Wire(exp_n)
    BY <1>3 DEF HitInv, IInv, PositionInv, InOp
  <2>2. exp_n >= next_n
    BY <2>1, Numbers
  <2>3. Held(exp_n)
    BY <1>3, <2>1, <2>2 DEF OwedInv, Taken
  <2>4. SlotOf(exp_n) \in Slots
    BY <2>1, Numbers
  <2>5. seq[SlotOf(exp_n)] = Wire(exp_n)
    BY <2>3, <2>4 DEF IInv, SlotInv, Held
  <2>6. QED
    BY <2>1, <2>3, <2>5 DEF Held, SlotOf
<1>4. CASE PopCheckState
  BY <1>2, <1>3, <1>4 DEF PopCheckState, MidOp, locals, history
<1>5. CASE PopCheckSeq
  BY <1>2, <1>3, <1>5 DEF PopCheckSeq, MidOp, locals, history
<1>6. CASE PopCopyHead \/ PopCopyBody
  BY <1>2, <1>6 DEF PopCopyHead, PopCopyBody, MidOp, history
<1>7. CASE PopRecheckState
  BY <1>2, <1>3, <1>7 DEF PopRecheckState, MidOp, locals, history
<1>8. CASE PopRecheckSeq
  BY <1>2, <1>3, <1>8 DEF PopRecheckSeq, MidOp, locals, history
<1>9. CASE PopClear
  BY <1>2, <1>9 DEF PopClear, MidOp, history
<1>10. CASE Prime \/ Conceal \/ ResetBegin \/ \E o \in {"pop", "skip"} : PopBegin(o)
  BY <1>10 DEF Prime, Conceal, ResetBegin, PopBegin, MidOp
<1>11. CASE PopAdvance \/ ResetSlot \/ ResetStarted
  BY <1>11 DEF PopAdvance, ResetSlot, ResetStarted, MidOp
<1>12. ASSUME rpc' = rpc, hit' = hit, was_stored' = was_stored, exp_n' = exp_n,
              stored \subseteq stored', lapped => lapped'
       PROVE  exp_n' \in stored' /\ (rpc' = "advance" => hit' \/ lapped')
  BY <1>12 DEF HitInv, MidOp
<1>13. ASSUME NEW n \in Frames, PushBegin(n)
       PROVE  exp_n' \in stored' /\ (rpc' = "advance" => hit' \/ lapped')
  <2>1. lapped => lapped'
    BY <1>13 DEF PushBegin
  <2>2. QED
    BY <1>12, <1>13, <2>1 DEF PushBegin, reader, locals
<1>14. CASE PushInitNext \/ PushPublish
  BY <1>12, <1>14 DEF PushInitNext, PushPublish, reader, locals
<1>15. CASE \/ PushCheckStarted \/ PushInitNewest \/ PushInitStarted \/ PushCheckLate
            \/ PushUpdateNewest \/ PushCheckDuplicate
  BY <1>12, <1>15 DEF PushCheckStarted, PushInitNewest, PushInitStarted,
     PushCheckLate, PushUpdateNewest, PushCheckDuplicate, reader, locals, history
<1>16. CASE PushClaim \/ PushSeq \/ PushHead \/ PushBody
  BY <1>12, <1>16 DEF PushClaim, PushSeq, PushHead, PushBody, reader, locals, history
<1>17. CASE UNCHANGED vars
  BY <1>12, <1>17 DEF vars, reader, locals, history
<1>18. QED
  BY <1>1, <1>4, <1>5, <1>6, <1>7, <1>8, <1>9, <1>10, <1>11, <1>13, <1>14, <1>15,
     <1>16, <1>17 DEF Next, PushStep, PopStep

\* The first stored packet is still to come.
LEMMA KeptInit == Init => KeptInv
BY DEF Init, KeptInv, AheadInv, LeftByResetInv, OwedInv, HitInv, MidOp

\* When the network delays a packet by less than a full ring, a pop conceals a
\* packet that had been stored only if a packet a full ring ahead of the reader
\* has arrived: pushes, duplicates, resets and the wraparound lose none.
THEOREM StoredFramesPlay ==
  ASSUME Window < SLOTS
  PROVE  Spec => []NoStoredFrameConcealed
<1>1. Spec => []IInv
  BY Inductive, PTL DEF Spec
<1>2. IInv /\ KeptInv /\ [Next]_vars => KeptInv'
  BY AheadStep, LeftStep, OwedStep, HitStep DEF KeptInv
<1>3. KeptInv => NoStoredFrameConcealed
  BY DEF KeptInv, HitInv, NoStoredFrameConcealed, MidOp
<1>4. QED
  BY <1>1, <1>2, <1>3, KeptInit, PTL DEF Spec
=============================================================================
