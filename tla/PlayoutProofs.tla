--------------------------- MODULE PlayoutProofs ---------------------------
(***************************************************************************)
(* How far the read position of a stream gets ahead of its sender, for     *)
(* every size of ring and sequence space, and all limits of the policy.    *)
(***************************************************************************)
EXTENDS Playout, Seq16Theorems

USE HalfAssumption, PlayoutAssumption

-----------------------------------------------------------------------------
(* Positions on the ring of sequence numbers, counted from one of them.    *)

\* A number is its distance further on than any other, and that one so far back.
LEMMA Reached ==
    ASSUME NEW a \in Seqs, NEW b \in Seqs
    PROVE  /\ diff(a, b) \in Int /\ -Half <= diff(a, b) /\ diff(a, b) < Half
           /\ a = Wire(b + diff(a, b)) /\ b = Wire(a - diff(a, b)) /\ a = Wire(a)
<1>1. diff(a, b) \in -Half .. Half - 1
  BY SeqTypes
<1>2. /\ a \in Int /\ b \in Int /\ 0 <= a /\ a < SeqSpace /\ 0 <= b /\ b < SeqSpace
      /\ SeqSpace \in Nat \ {0} /\ SeqSpace = 2 * Half
  BY SeqSpaceType DEF Seqs
<1>3. \A q \in Int, r \in 0 .. SeqSpace - 1 : (SeqSpace * q + r) % SeqSpace = r
  BY <1>2, ModUnique
<1>4. \A r \in 0 .. SeqSpace - 1 :
         Wire(r) = r /\ Wire(r + SeqSpace) = r /\ Wire(r - SeqSpace) = r
  <2> SUFFICES ASSUME NEW r \in 0 .. SeqSpace - 1
               PROVE  Wire(r) = r /\ Wire(r + SeqSpace) = r /\ Wire(r - SeqSpace) = r
    OBVIOUS
  <2>1. SeqSpace * 0 + r = r /\ SeqSpace * 1 + r = r + SeqSpace /\ SeqSpace * (-1) + r = r - SeqSpace
    BY <1>2
  <2>2. 0 \in Int /\ 1 \in Int /\ -1 \in Int
    OBVIOUS
  <2>3. /\ (SeqSpace * 0 + r) % SeqSpace = r /\ (SeqSpace * 1 + r) % SeqSpace = r
        /\ (SeqSpace * (-1) + r) % SeqSpace = r
    BY <1>3, <2>2
  <2> QED
    BY <2>1, <2>3 DEF Wire
<1>5. diff(a, b) \in {a - b, a - b + SeqSpace, a - b - SeqSpace}
  <2>1. wrapping_sub(a, b) \in {a - b, a - b + SeqSpace}
    <3>1. CASE a >= b
      <4>1. Wire(a - b) = a - b
        BY <1>2, <1>4, <3>1
      <4> QED
        BY <4>1 DEF Wire, wrapping_sub
    <3>2. CASE a < b
      <4>1. a - b + SeqSpace \in 0 .. SeqSpace - 1
        BY <1>2, <3>2
      <4>2. PICK r \in 0 .. SeqSpace - 1 : r = a - b + SeqSpace
        BY <4>1
      <4>3. Wire(r - SeqSpace) = r
        BY <1>4
      <4>4. r - SeqSpace = a - b
        BY <1>2, <4>2
      <4> QED
        BY <4>2, <4>3, <4>4 DEF Wire, wrapping_sub
    <3> QED
      BY <1>2, <3>1, <3>2
  <2> QED
    BY <1>2, <2>1 DEF diff, as_i16
<1>6. b + diff(a, b) \in {a, a + SeqSpace, a - SeqSpace}
  BY <1>2, <1>5
<1>7. a - diff(a, b) \in {b, b + SeqSpace, b - SeqSpace}
  BY <1>2, <1>5
<1>8. a \in 0 .. SeqSpace - 1 /\ b \in 0 .. SeqSpace - 1
  BY DEF Seqs
<1> QED
  BY <1>1, <1>4, <1>6, <1>7, <1>8

\* Two positions, compared.
LEMMA Compared ==
    ASSUME NEW a \in Seqs, NEW c \in Seqs, NEW b \in Seqs,
           diff(a, b) - diff(c, b) < Half, diff(c, b) - diff(a, b) < Half
    PROVE  newer_than(a, c) <=> diff(a, b) > diff(c, b)
<1>1. PICK x \in Int : x = diff(a, b) /\ a = Wire(b + x)
  BY Reached
<1>2. PICK y \in Int : y = diff(c, b) /\ c = Wire(b + y)
  BY Reached
<1>3. b \in Int /\ Half \in Int
  BY SeqSpaceType DEF Seqs
<1>4. b + x \in Int /\ b + y \in Int /\ (b + x) - (b + y) < Half /\ (b + y) - (b + x) < Half
  BY <1>1, <1>2, <1>3
<1>5. newer_than(a, c) <=> b + x > b + y
  BY <1>1, <1>2, <1>4, DiffIsDistance
<1> QED
  BY <1>1, <1>2, <1>3, <1>5

\* A number as seen from itself.
LEMMA Here ==
    ASSUME NEW b \in Seqs
    PROVE  diff(b, b) = 0
<1>1. b \in Int /\ b - b < Half /\ b = Wire(b)
  BY Reached DEF Seqs
<1> QED
  BY <1>1, DiffIsDistance

\* The next number is one further, and from the next position one nearer.
LEMMA OneFurther ==
    ASSUME NEW a \in Seqs, NEW b \in Seqs, diff(a, b) + 1 < Half
    PROVE  wrapping_add(a, 1) \in Seqs /\ diff(wrapping_add(a, 1), b) = diff(a, b) + 1
<1>1. PICK x \in Int : x = diff(a, b) /\ a = Wire(b + x) /\ -Half <= x
  BY Reached
<1>2. b \in Int /\ b = Wire(b)
  BY Reached DEF Seqs
<1>3. wrapping_add(a, 1) = Wire(b + x + 1)
  BY <1>1, <1>2, WireSucc
<1>4. b + x + 1 \in Int /\ (b + x + 1) - b < Half /\ b - (b + x + 1) < Half
      /\ (b + x + 1) - b = x + 1
  BY <1>1, <1>2
<1>5. diff(Wire(b + x + 1), Wire(b)) = (b + x + 1) - b
  BY <1>2, <1>4, DiffIsDistance
<1>6. Wire(b + x + 1) \in Seqs
  BY <1>4, SeqTypes
<1> QED
  BY <1>1, <1>2, <1>3, <1>4, <1>5, <1>6

LEMMA OneNearer ==
    ASSUME NEW a \in Seqs, NEW b \in Seqs, -Half < diff(a, b) - 1
    PROVE  wrapping_add(b, 1) \in Seqs /\ diff(a, wrapping_add(b, 1)) = diff(a, b) - 1
<1>1. PICK x \in Int : x = diff(a, b) /\ a = Wire(b + x) /\ x < Half
  BY Reached
<1>2. b \in Int /\ b = Wire(b)
  BY Reached DEF Seqs
<1>3. wrapping_add(b, 1) = Wire(b + 1)
  BY <1>2, WireSucc
<1>4. b + x \in Int /\ b + 1 \in Int /\ (b + x) - (b + 1) < Half /\ (b + 1) - (b + x) < Half
      /\ (b + x) - (b + 1) = x - 1
  BY <1>1, <1>2
<1>5. diff(Wire(b + x), Wire(b + 1)) = (b + x) - (b + 1)
  BY <1>4, DiffIsDistance
<1>6. Wire(b + 1) \in Seqs
  BY <1>4, SeqTypes
<1> QED
  BY <1>1, <1>3, <1>4, <1>5, <1>6

\* A number of before.
LEMMA SomeBack ==
    ASSUME NEW a \in Seqs, NEW b \in Seqs, NEW d \in Nat,
           -Half < diff(a, b) - d
    PROVE  wrapping_sub(a, d) \in Seqs /\ diff(wrapping_sub(a, d), b) = diff(a, b) - d
<1>1. PICK x \in Int : x = diff(a, b) /\ b = Wire(a - x) /\ x < Half
  BY Reached
<1>2. a \in Int
  BY DEF Seqs
<1>3. wrapping_sub(a, d) = Wire(a - d)
  BY DEF wrapping_sub, Wire
<1>4. a - d \in Int /\ a - x \in Int /\ (a - d) - (a - x) < Half /\ (a - x) - (a - d) < Half
      /\ (a - d) - (a - x) = x - d
  BY <1>1, <1>2
<1>5. diff(Wire(a - d), Wire(a - x)) = (a - d) - (a - x)
  BY <1>4, DiffIsDistance
<1>6. Wire(a - d) \in Seqs
  BY <1>4, SeqTypes
<1> QED
  BY <1>1, <1>3, <1>4, <1>5, <1>6

-----------------------------------------------------------------------------
(* The buffer.                                                             *)

Places == 0 .. SLOTS - 1

\* Where a packet is, seen from the read position.
at(b, s) == diff(s, b.next)

\* Packets are in the slots of their numbers, and none is in a buffer at rest.
SlotsFit(b) ==
    /\ \A i \in Places : b.slots[i] # EMPTY => i = Idx(b.slots[i])
    /\ ~b.started => \A i \in Places : b.slots[i] = EMPTY

\* The packets stored are neither passed nor newer than the newest, and that is
\* one of before s, the sender's next.
Tracks(b, s) ==
    /\ at(b, b.newest) < at(b, s)
    /\ \A i \in Places : b.slots[i] # EMPTY =>
          0 <= at(b, b.slots[i]) /\ at(b, b.slots[i]) <= at(b, b.newest)

LEMMA PlaceOf ==
    ASSUME NEW s \in Seqs
    PROVE  Idx(s) \in Places
<1>1. s \in Int /\ SLOTS \in Nat \ {0}
  BY DEF Seqs
<1> QED
  BY <1>1, ModRange DEF Idx, Places

\* A field of a buffer.
LEMMA BufferType ==
    ASSUME NEW b \in Buffers
    PROVE  /\ b.next \in Seqs /\ b.newest \in Seqs /\ b.started \in BOOLEAN
           /\ b.slots \in [Places -> Seqs \cup {EMPTY}]
           /\ DOMAIN b = {"slots", "next", "newest", "started"}
           /\ \A i \in Places : b.slots[i] # EMPTY => b.slots[i] \in Seqs
  BY DEF Buffers, Places

LEMMA NewBuffer ==
    /\ new_buffer \in Buffers /\ SlotsFit(new_buffer) /\ ~new_buffer.started
<1>1. 0 \in Seqs
  BY SeqSpaceType DEF Seqs
<1> QED
  BY <1>1 DEF new_buffer, Buffers, SlotsFit, Places

LEMMA ResetBuffer ==
    ASSUME NEW b \in Buffers
    PROVE  reset(b) \in Buffers /\ SlotsFit(reset(b)) /\ ~reset(b).started
<1>1. reset(b) = [b EXCEPT !.slots = new_buffer.slots, !.started = FALSE]
  BY DEF reset
<1>2. new_buffer.slots \in [Places -> Seqs \cup {EMPTY}]
      /\ \A i \in Places : new_buffer.slots[i] = EMPTY
  BY DEF new_buffer, Places
<1> HIDE DEF new_buffer
<1> QED
  BY <1>1, <1>2 DEF Buffers, SlotsFit, Places

\* The fields after a push, and after the read position has moved on.
LEMMA PushFields ==
    ASSUME NEW b \in Buffers, NEW s \in Seqs
    PROVE  /\ push(b, s) \in Buffers
           /\ push(b, s).started
           /\ ~b.started => /\ push(b, s).slots = [b.slots EXCEPT ![Idx(s)] = s]
                            /\ push(b, s).next = s /\ push(b, s).newest = s
           /\ b.started /\ newer_than(b.next, s) => push(b, s) = b
           /\ b.started /\ ~newer_than(b.next, s) =>
                 /\ push(b, s).slots = [b.slots EXCEPT ![Idx(s)] = s]
                 /\ push(b, s).next = b.next
                 /\ push(b, s).newest = IF newer_than(s, b.newest) THEN s ELSE b.newest
<1>1. /\ b.next \in Seqs /\ b.newest \in Seqs /\ b.started \in BOOLEAN
      /\ b.slots \in [Places -> Seqs \cup {EMPTY}] /\ Idx(s) \in Places
  BY BufferType, PlaceOf
<1>2. [b.slots EXCEPT ![Idx(s)] = s] \in [Places -> Seqs \cup {EMPTY}]
  BY <1>1
<1>3. CASE ~b.started
  <2>1. push(b, s) = [b EXCEPT !.slots[Idx(s)] = s, !.next = s, !.newest = s, !.started = TRUE]
    BY <1>3 DEF push
  <2> QED
    BY <1>1, <1>2, <1>3, <2>1 DEF Buffers, Places
<1>4. CASE b.started /\ newer_than(b.next, s)
  BY <1>4 DEF push
<1>5. CASE b.started /\ ~newer_than(b.next, s)
  <2>1. push(b, s) = [b EXCEPT !.slots[Idx(s)] = s,
                               !.newest = IF newer_than(s, @) THEN s ELSE @]
    BY <1>5 DEF push
  <2> QED
    BY <1>1, <1>2, <1>5, <2>1 DEF Buffers, Places
<1> QED
  BY <1>1, <1>3, <1>4, <1>5

LEMMA AdvanceFields ==
    ASSUME NEW b \in Buffers
    PROVE  /\ advance(b) \in Buffers
           /\ ~b.started => advance(b) = b
           /\ b.started =>
                 /\ advance(b).started /\ advance(b).newest = b.newest
                 /\ advance(b).next = wrapping_add(b.next, 1)
                 /\ advance(b).slots =
                       [b.slots EXCEPT ![Idx(b.next)] = IF stored(b, b.next) THEN EMPTY ELSE @]
<1>1. /\ b.next \in Seqs /\ b.newest \in Seqs /\ b.started \in BOOLEAN
      /\ b.slots \in [Places -> Seqs \cup {EMPTY}] /\ Idx(b.next) \in Places
  BY BufferType, PlaceOf
<1>2. wrapping_add(b.next, 1) \in Seqs
  <2>1. wrapping_add(b.next, 1) = Wire(b.next + 1) /\ b.next + 1 \in Int
    BY <1>1 DEF wrapping_add, Wire, Seqs
  <2> QED
    BY <2>1, SeqTypes
<1>3. [b.slots EXCEPT ![Idx(b.next)] = IF stored(b, b.next) THEN EMPTY ELSE @]
         \in [Places -> Seqs \cup {EMPTY}]
  BY <1>1
<1>4. CASE ~b.started
  BY <1>4 DEF advance
<1>5. CASE b.started
  <2>1. advance(b) =
           [b EXCEPT !.slots[Idx(b.next)] = IF stored(b, b.next) THEN EMPTY ELSE @,
                     !.next = wrapping_add(@, 1)]
    BY <1>5 DEF advance
  <2> QED
    BY <1>1, <1>2, <1>3, <1>5, <2>1 DEF Buffers, Places
<1> QED
  BY <1>1, <1>4, <1>5

\* A push, and a move, leave every packet in its slot.
LEMMA PushFits ==
    ASSUME NEW b \in Buffers, NEW s \in Seqs, SlotsFit(b)
    PROVE  push(b, s) \in Buffers /\ SlotsFit(push(b, s)) /\ push(b, s).started
<1>1. b.slots \in [Places -> Seqs \cup {EMPTY}] /\ Idx(s) \in Places
  BY BufferType, PlaceOf
<1>2. push(b, s) = b \/ push(b, s).slots = [b.slots EXCEPT ![Idx(s)] = s]
  BY PushFields
<1>3. \A i \in Places : push(b, s).slots[i] # EMPTY => i = Idx(push(b, s).slots[i])
  BY <1>1, <1>2 DEF SlotsFit
<1> QED
  BY <1>3, PushFields DEF SlotsFit

LEMMA AdvanceFits ==
    ASSUME NEW b \in Buffers, SlotsFit(b)
    PROVE  advance(b) \in Buffers /\ SlotsFit(advance(b)) /\ advance(b).started = b.started
<1>1. b.slots \in [Places -> Seqs \cup {EMPTY}] /\ Idx(b.next) \in Places
      /\ b.started \in BOOLEAN /\ advance(b) \in Buffers
  BY BufferType, PlaceOf, AdvanceFields
<1>2. CASE ~b.started
  BY <1>1, <1>2, AdvanceFields
<1>3. CASE b.started
  <2>1. /\ advance(b).slots =
              [b.slots EXCEPT ![Idx(b.next)] = IF stored(b, b.next) THEN EMPTY ELSE @]
        /\ advance(b).started
    BY <1>3, AdvanceFields
  <2>2. \A i \in Places : advance(b).slots[i] # EMPTY => i = Idx(advance(b).slots[i])
    BY <1>1, <2>1 DEF SlotsFit
  <2> QED
    BY <1>1, <1>3, <2>1, <2>2 DEF SlotsFit
<1> QED
  BY <1>1, <1>2, <1>3

\* A packet that may still arrive.
LEMMA PushTracks ==
    ASSUME NEW b \in Buffers, b.started, NEW s \in Seqs, Tracks(b, s),
           NEW t \in Seqs, NEW u \in Seqs, -Half < at(b, t),
           at(b, t) < at(b, u), at(b, s) <= at(b, u),
           at(b, t) - at(b, b.newest) < Half, at(b, b.newest) - at(b, t) < Half
    PROVE  LET c == push(b, t)
           IN  /\ c.next = b.next /\ Tracks(c, u)
               /\ at(b, b.newest) <= at(c, c.newest)
               /\ 0 <= at(b, t) /\ at(b, b.newest) < at(b, t) => at(c, c.newest) = at(b, t)
<1> DEFINE c == push(b, t)
<1>1. /\ b.next \in Seqs /\ b.newest \in Seqs /\ Idx(t) \in Places
      /\ b.slots \in [Places -> Seqs \cup {EMPTY}]
  BY BufferType, PlaceOf
<1>2. PICK n \in Int : n = at(b, b.newest) /\ n < Half
  BY <1>1, Reached DEF at
<1>3. PICK k \in Int : k = at(b, t) /\ -Half < k /\ k < Half
  BY <1>1, Reached DEF at
<1>4. PICK l \in Int, m \in Int : l = at(b, u) /\ m = at(b, s) /\ n < m
  BY <1>1, <1>2, Reached DEF at, Tracks
<1>5. newer_than(b.next, t) <=> k < 0
  <2>1. diff(b.next, b.next) = 0
    BY <1>1, Here
  <2>2. 0 - k < Half /\ k - 0 < Half
    BY <1>3
  <2>3. newer_than(b.next, t) <=> diff(b.next, b.next) > diff(t, b.next)
    BY <1>1, <1>3, <2>1, <2>2, Compared DEF at
  <2> QED
    BY <1>3, <2>1, <2>3 DEF at
<1>6. newer_than(t, b.newest) <=> k > n
  BY <1>1, <1>2, <1>3, Compared DEF at
<1>7. CASE k < 0
  <2>1. c = b
    BY <1>5, <1>7, PushFields
  <2> QED
    BY <1>2, <1>3, <1>4, <1>7, <2>1 DEF Tracks
<1>8. CASE 0 <= k
  <2>1. /\ c.slots = [b.slots EXCEPT ![Idx(t)] = t] /\ c.next = b.next
        /\ c.newest = IF newer_than(t, b.newest) THEN t ELSE b.newest
    BY <1>3, <1>5, <1>8, PushFields
  <2> HIDE DEF c
  <2>2. \A x : at(c, x) = at(b, x)
    BY <2>1 DEF at
  <2>3. at(c, c.newest) = IF k > n THEN k ELSE n
    BY <1>2, <1>3, <1>6, <2>1, <2>2
  <2>4. ASSUME NEW i \in Places, c.slots[i] # EMPTY
        PROVE  0 <= at(c, c.slots[i]) /\ at(c, c.slots[i]) <= at(c, c.newest)
    <3>1. CASE i = Idx(t)
      <4>1. at(c, c.slots[i]) = k
        BY <1>1, <1>3, <2>1, <2>2, <3>1
      <4> QED
        BY <1>2, <1>3, <1>8, <2>3, <4>1
    <3>2. CASE i # Idx(t)
      <4>1. c.slots[i] = b.slots[i]
        BY <1>1, <2>1, <3>2
      <4>2. b.slots[i] \in Seqs /\ 0 <= at(b, b.slots[i]) /\ at(b, b.slots[i]) <= n
        BY <1>1, <1>2, <2>4, <4>1 DEF Tracks
      <4>3. at(b, b.slots[i]) \in Int
        BY <1>1, <4>2, Reached DEF at
      <4> QED
        BY <1>2, <1>3, <2>2, <2>3, <4>1, <4>2, <4>3
    <3> QED
      BY <3>1, <3>2
  <2>5. at(c, c.newest) < at(c, u)
    BY <1>2, <1>3, <1>4, <2>2, <2>3
  <2>6. at(b, b.newest) <= at(c, c.newest)
        /\ (0 <= at(b, t) /\ at(b, b.newest) < at(b, t) => at(c, c.newest) = at(b, t))
    BY <1>2, <1>3, <2>3
  <2> QED
    BY <2>1, <2>4, <2>5, <2>6 DEF Tracks, c
<1> QED
  BY <1>3, <1>7, <1>8

\* The sender's next packet.
LEMMA PushNext ==
    ASSUME NEW b \in Buffers, b.started, NEW s \in Seqs, Tracks(b, s), at(b, s) + 1 < Half,
           at(b, s) - at(b, b.newest) < Half
    PROVE  LET c == push(b, s)
               u == wrapping_add(s, 1)
           IN  /\ Tracks(c, u) /\ u \in Seqs /\ at(c, u) = at(b, s) + 1
               /\ at(b, b.newest) <= at(c, c.newest)
               /\ 0 <= at(b, s) => at(c, c.newest) = at(b, s)
<1> DEFINE u == wrapping_add(s, 1)
<1>1. b.next \in Seqs /\ b.newest \in Seqs
  BY BufferType
<1>2. at(b, s) \in Int /\ at(b, b.newest) \in Int /\ -Half <= at(b, b.newest)
      /\ at(b, b.newest) < at(b, s)
  BY <1>1, Reached DEF at, Tracks
<1>3. u \in Seqs /\ at(b, u) = at(b, s) + 1
  BY <1>1, OneFurther DEF at
<1> HIDE DEF u
<1>4. /\ -Half < at(b, s) /\ at(b, s) < at(b, u) /\ at(b, s) <= at(b, u)
      /\ at(b, b.newest) - at(b, s) < Half
  BY <1>2, <1>3
<1>5. LET c == push(b, s)
      IN  /\ c.next = b.next /\ Tracks(c, u)
          /\ at(b, b.newest) <= at(c, c.newest)
          /\ 0 <= at(b, s) /\ at(b, b.newest) < at(b, s) => at(c, c.newest) = at(b, s)
  BY <1>3, <1>4, PushTracks
<1>6. at(push(b, s), u) = at(b, u)
  BY <1>5 DEF at
<1> QED
  BY <1>2, <1>3, <1>5, <1>6 DEF u

\* One of before.
LEMMA PushOld ==
    ASSUME NEW b \in Buffers, b.started, NEW s \in Seqs, Tracks(b, s),
           NEW d \in Nat \ {0}, d < Half, -Half < at(b, s) - d,
           at(b, s) - at(b, b.newest) < Half
    PROVE  LET c == push(b, wrapping_sub(s, d))
           IN  /\ wrapping_sub(s, d) \in Seqs
               /\ Tracks(c, s) /\ at(c, s) = at(b, s)
               /\ at(b, b.newest) <= at(c, c.newest)
<1> DEFINE t == wrapping_sub(s, d)
<1>1. b.next \in Seqs /\ b.newest \in Seqs
  BY BufferType
<1>2. at(b, s) \in Int /\ at(b, b.newest) \in Int /\ at(b, b.newest) < at(b, s)
  BY <1>1, Reached DEF at, Tracks
<1>3. t \in Seqs /\ at(b, t) = at(b, s) - d
  BY <1>1, SomeBack DEF at
<1> HIDE DEF t
<1>4. /\ -Half < at(b, t) /\ at(b, t) < at(b, s) /\ at(b, s) <= at(b, s)
      /\ at(b, b.newest) - at(b, t) < Half /\ at(b, t) - at(b, b.newest) < Half
  BY <1>2, <1>3
<1>5. LET c == push(b, t)
      IN  c.next = b.next /\ Tracks(c, s) /\ at(b, b.newest) <= at(c, c.newest)
  BY <1>3, <1>4, PushTracks
<1>6. at(push(b, t), s) = at(b, s)
  BY <1>5 DEF at
<1> QED
  BY <1>3, <1>5, <1>6 DEF t

\* The first packet after a reset.
LEMMA PushFirst ==
    ASSUME NEW b \in Buffers, ~b.started, SlotsFit(b), NEW s \in Seqs, 1 < Half
    PROVE  LET c == push(b, s)
               u == wrapping_add(s, 1)
           IN  Tracks(c, u) /\ u \in Seqs /\ at(c, c.newest) = 0 /\ at(c, u) = 1
<1> DEFINE c == push(b, s)
           u == wrapping_add(s, 1)
<1>1. /\ c.slots = [b.slots EXCEPT ![Idx(s)] = s] /\ c.next = s /\ c.newest = s
  BY PushFields
<1>2. b.slots \in [Places -> Seqs \cup {EMPTY}] /\ \A i \in Places : b.slots[i] = EMPTY
  BY BufferType DEF SlotsFit
<1>3. diff(s, s) = 0
  BY Here
<1>4. u \in Seqs /\ diff(u, s) = 1
  <2>1. diff(s, s) + 1 < Half
    BY <1>3
  <2>2. u \in Seqs /\ diff(u, s) = diff(s, s) + 1
    BY <2>1, OneFurther
  <2> QED
    BY <1>3, <2>2
<1> HIDE DEF c, u
<1>5. at(c, c.newest) = 0 /\ at(c, u) = 1
  BY <1>1, <1>3, <1>4 DEF at
<1>6. \A i \in Places : c.slots[i] # EMPTY => c.slots[i] = s
  BY <1>1, <1>2
<1>7. at(c, s) = 0
  BY <1>1, <1>3 DEF at
<1> QED
  BY <1>4, <1>5, <1>6, <1>7 DEF Tracks, c, u

\* The first after a reset is one that the sender sent d packets ago.
LEMMA PushLateFirst ==
    ASSUME NEW b \in Buffers, ~b.started, SlotsFit(b), NEW s \in Seqs,
           NEW d \in Nat \ {0}, d < Half
    PROVE  LET c == push(b, wrapping_sub(s, d))
           IN  Tracks(c, s) /\ at(c, c.newest) = 0 /\ at(c, s) = d
<1> DEFINE t == wrapping_sub(s, d)
           c == push(b, t)
<1>1. s \in Int /\ s = Wire(s) /\ t = Wire(s - d) /\ s - d \in Int
  BY Reached DEF Seqs, wrapping_sub, Wire
<1>2. t \in Seqs
  BY <1>1, SeqTypes
<1>3. diff(s, t) = d
  <2>1. s - (s - d) < Half /\ (s - d) - s < Half /\ s - (s - d) = d
    BY <1>1
  <2>2. diff(Wire(s), Wire(s - d)) = s - (s - d)
    BY <1>1, <2>1, DiffIsDistance
  <2> QED
    BY <1>1, <2>1, <2>2
<1> HIDE DEF t
<1>4. c.slots = [b.slots EXCEPT ![Idx(t)] = t] /\ c.next = t /\ c.newest = t
  BY <1>2, PushFields
<1>5. b.slots \in [Places -> Seqs \cup {EMPTY}] /\ \A i \in Places : b.slots[i] = EMPTY
  BY BufferType DEF SlotsFit
<1> HIDE DEF c
<1>6. at(c, t) = 0 /\ at(c, s) = d
  BY <1>2, <1>3, <1>4, Here DEF at
<1>7. \A i \in Places : c.slots[i] # EMPTY => c.slots[i] = t
  BY <1>4, <1>5
<1>8. at(c, c.newest) = 0
  BY <1>4, <1>6
<1>9. Tracks(c, s)
  BY <1>6, <1>7, <1>8 DEF Tracks
<1> QED
  BY <1>6, <1>8, <1>9 DEF c, t

\* The read position moves on: what is at it is played or given up.
LEMMA AdvanceTracks ==
    ASSUME NEW b \in Buffers, b.started, SlotsFit(b), NEW s \in Seqs, Tracks(b, s),
           1 < Half, -Half < at(b, b.newest) - 1
    PROVE  LET c == advance(b)
           IN  /\ Tracks(c, s)
               /\ at(c, c.newest) = at(b, b.newest) - 1
               /\ at(c, s) = at(b, s) - 1
               /\ hits(b) => 0 <= at(b, b.newest)
<1> DEFINE c == advance(b)
<1>1. /\ b.next \in Seqs /\ b.newest \in Seqs /\ Idx(b.next) \in Places
      /\ b.slots \in [Places -> Seqs \cup {EMPTY}]
  BY BufferType, PlaceOf
<1>2. /\ c.newest = b.newest /\ c.next = wrapping_add(b.next, 1)
      /\ c.slots = [b.slots EXCEPT ![Idx(b.next)] = IF stored(b, b.next) THEN EMPTY ELSE @]
  BY AdvanceFields
<1>3. at(b, b.newest) \in Int /\ at(b, s) \in Int /\ at(b, b.newest) < at(b, s)
  BY <1>1, Reached DEF at, Tracks
<1> HIDE DEF c
<1>4. \A x \in Seqs : -Half < at(b, x) - 1 => at(c, x) = at(b, x) - 1
  BY <1>1, <1>2, OneNearer DEF at
<1>5. at(c, c.newest) = at(b, b.newest) - 1
  BY <1>1, <1>2, <1>4
<1>6. at(c, s) = at(b, s) - 1
  <2>1. -Half < at(b, s) - 1
    BY <1>3
  <2> QED
    BY <1>4, <2>1
<1>7. ASSUME NEW i \in Places, c.slots[i] # EMPTY
      PROVE  0 <= at(c, c.slots[i]) /\ at(c, c.slots[i]) <= at(c, c.newest)
  <2>1. c.slots[i] = b.slots[i] /\ b.slots[i] \in Seqs
    BY <1>1, <1>2, <1>7
  <2>2. PICK x \in Seqs : x = b.slots[i]
    BY <2>1
  <2>3. at(b, x) \in Int /\ 0 <= at(b, x) /\ at(b, x) <= at(b, b.newest) /\ i = Idx(x)
    BY <1>1, <1>7, <2>1, <2>2, Reached DEF Tracks, SlotsFit, at
  <2>4. at(b, x) # 0
    <3> SUFFICES ASSUME at(b, x) = 0 PROVE FALSE
      OBVIOUS
    <3>1. x = Wire(b.next + 0) /\ b.next = Wire(b.next) /\ b.next \in Int
      BY <1>1, Reached DEF at, Seqs
    <3>2. b.next + 0 = b.next
      BY <3>1
    <3>3. x = b.next
      BY <3>1, <3>2
    <3>4. c.slots[i] = EMPTY
      BY <1>1, <1>2, <2>2, <2>3, <3>3 DEF stored
    <3> QED
      BY <1>7, <3>4
  <2>5. at(c, x) = at(b, x) - 1
    <3>1. -Half < at(b, x) - 1
      BY <2>3, <2>4
    <3> QED
      BY <1>4, <3>1
  <2> QED
    BY <1>3, <1>5, <2>1, <2>2, <2>3, <2>4, <2>5
<1>8. hits(b) => 0 <= at(b, b.newest)
  <2> SUFFICES ASSUME hits(b) PROVE 0 <= at(b, b.newest)
    OBVIOUS
  <2>1. b.slots[Idx(b.next)] = b.next /\ b.next # EMPTY
    BY <1>1 DEF hits, stored, EMPTY, Seqs
  <2>2. at(b, b.next) = 0
    BY <1>1, Here DEF at
  <2> QED
    BY <1>1, <2>1, <2>2 DEF Tracks
<1>9. at(c, c.newest) < at(c, s)
  BY <1>3, <1>5, <1>6
<1> QED
  BY <1>5, <1>6, <1>7, <1>8, <1>9 DEF Tracks, c

-----------------------------------------------------------------------------
(* A pull of the callback.                                                 *)

Pendings == {"None", "DropOne", "InsertOne"}

\* A playout whose staging may be more than a frame, within a tick.
Playouts ==
    [primed : BOOLEAN, misses : 0 .. ResetAfterMisses - 1,
     target : MinTarget .. MaxTarget, pending : Pendings,
     insert : BOOLEAN, staging : Nat, fresh : BOOLEAN]

\* The newest packet is no further behind the read position than the frames that
\* were concealed in a row and one that was dropped; a drop that waits was latched
\* when there was something to drop.
Playing(b, p, s) ==
    /\ Tracks(b, s)
    /\ -(p.misses + 2) <= at(b, b.newest)
    /\ p.pending = "DropOne" => -(p.misses + 1) <= at(b, b.newest)

one(P) == IF P THEN 1 ELSE 0

\* How far the sender is ahead, or will be when frames are inserted.
debt(b, p, s) == at(b, s) + one(p.pending = "InsertOne") + one(p.insert)

\* The sender is not far ahead, or nothing of the last was lost.
Near(b, s) == at(b, s) <= MaxTarget \/ at(b, b.newest) = at(b, s) - 1

LEMMA DepthType ==
    ASSUME NEW b \in Buffers
    PROVE  depth(b) \in Int /\ (b.started => depth(b) = at(b, b.newest) + 1)
<1>1. b.next \in Seqs /\ b.newest \in Seqs
  BY BufferType
<1>2. diff(b.newest, b.next) \in Int
  BY <1>1, Reached
<1> QED
  BY <1>2 DEF depth, at

\* What post_pop and observe_depth make of a pull: y of x, with buffer b taken from
\* and hit telling whether there was a frame.
Pulled(x, y, b, hit, t) ==
    /\ y.pc \in Playouts
    /\ y.pc.staging = x.pc.staging /\ y.pc.fresh = x.pc.fresh
    /\ y.pc.insert = FALSE
    /\ \/ y.outcome = "outage" /\ y.jb = reset(b)
       \/ /\ y.outcome \in {"frame", "concealed"}
          /\ y.jb = b
          /\ y.pc.misses = IF hit THEN 0 ELSE x.pc.misses + 1
          /\ y.pc.primed = x.pc.primed
          /\ \/ y.pc.pending = x.pc.pending
             \/ y.pc.pending = "None"
             \/ y.pc.pending = "DropOne" /\ depth(b) > t + deadband
             \/ y.pc.pending = "InsertOne" /\ depth(b) < t - deadband

LEMMA PullFields ==
    ASSUME NEW x, x.jb \in Buffers, x.pc \in Playouts, NEW ok \in BOOLEAN,
           NEW t \in MinTarget .. MaxTarget
    PROVE  Pulled(x, pull(x, ok, t), IF x.pc.insert THEN x.jb ELSE advance(x.jb),
                  ~x.pc.insert /\ hits(x.jb) /\ ok, t)
<1> DEFINE b == IF x.pc.insert THEN x.jb ELSE advance(x.jb)
           hit == ~x.pc.insert /\ hits(x.jb) /\ ok
           p == [x.pc EXCEPT !.insert = FALSE]
           y == pull(x, ok, t)
<1>1. /\ p \in Playouts /\ p.staging = x.pc.staging /\ p.fresh = x.pc.fresh
      /\ p.insert = FALSE /\ p.misses = x.pc.misses /\ p.primed = x.pc.primed
      /\ p.pending = x.pc.pending
  BY DEF Playouts
<1>2. hit \in BOOLEAN
  BY DEF hits, stored
<1>3. y = IF outage(p, hit)
          THEN [jb |-> reset(b), outcome |-> "outage",
                pc |-> [p EXCEPT !.primed = FALSE, !.misses = 0, !.pending = "None"]]
          ELSE [jb |-> b, outcome |-> IF hit THEN "frame" ELSE "concealed",
                pc |-> observe_depth(
                          [p EXCEPT !.misses = IF hit THEN 0 ELSE @ + 1, !.target = t],
                          depth(b))]
  BY DEF pull
<1> HIDE DEF b, hit, p, y
<1>4. ASSUME outage(p, hit) PROVE Pulled(x, y, b, hit, t)
  <2>1. y.jb = reset(b) /\ y.outcome = "outage"
        /\ y.pc = [p EXCEPT !.primed = FALSE, !.misses = 0, !.pending = "None"]
    BY <1>3, <1>4
  <2>2. y.pc \in Playouts /\ y.pc.staging = p.staging /\ y.pc.fresh = p.fresh
        /\ y.pc.insert = p.insert
    <3>1. 0 \in 0 .. ResetAfterMisses - 1
      OBVIOUS
    <3> QED
      BY <1>1, <2>1, <3>1 DEF Playouts, Pendings
  <2> QED
    BY <1>1, <2>1, <2>2 DEF Pulled
<1>5. ASSUME ~outage(p, hit) PROVE Pulled(x, y, b, hit, t)
  <2> DEFINE q == [p EXCEPT !.misses = IF hit THEN 0 ELSE @ + 1, !.target = t]
  <2>1. y.jb = b /\ y.outcome \in {"frame", "concealed"} /\ y.pc = observe_depth(q, depth(b))
    BY <1>3, <1>5
  <2>2. /\ q \in Playouts /\ q.staging = p.staging /\ q.fresh = p.fresh /\ q.insert = p.insert
        /\ q.misses = (IF hit THEN 0 ELSE p.misses + 1) /\ q.primed = p.primed
        /\ q.pending = p.pending /\ q.target = t
    <3>1. (IF hit THEN 0 ELSE p.misses + 1) \in 0 .. ResetAfterMisses - 1
      <4>1. p.misses \in 0 .. ResetAfterMisses - 1 /\ (~hit => ~(p.misses + 1 >= ResetAfterMisses))
        BY <1>1, <1>5 DEF Playouts, outage
      <4> QED
        BY <1>2, <4>1
    <3> QED
      BY <1>1, <3>1 DEF Playouts
  <2> HIDE DEF q
  <2>3. \/ y.pc = q
        \/ y.pc = [q EXCEPT !.pending = IF depth(b) > q.target + deadband THEN "DropOne"
                                        ELSE IF depth(b) < q.target - deadband THEN "InsertOne"
                                        ELSE "None"]
    BY <2>1 DEF observe_depth
  <2>4. /\ y.pc \in Playouts /\ y.pc.staging = q.staging /\ y.pc.fresh = q.fresh
        /\ y.pc.insert = q.insert /\ y.pc.misses = q.misses /\ y.pc.primed = q.primed
        /\ \/ y.pc.pending = q.pending
           \/ y.pc.pending = "None"
           \/ y.pc.pending = "DropOne" /\ depth(b) > t + deadband
           \/ y.pc.pending = "InsertOne" /\ depth(b) < t - deadband
    BY <2>2, <2>3 DEF Playouts, Pendings
  <2> QED
    BY <1>1, <2>1, <2>2, <2>4 DEF Pulled
<1>6. Pulled(x, y, b, hit, t)
  BY <1>4, <1>5
<1> QED
  BY <1>6 DEF y, b, hit

\* The types that a pull keeps.
LEMMA PullFits ==
    ASSUME NEW x, x.jb \in Buffers, SlotsFit(x.jb), x.pc \in Playouts, NEW ok \in BOOLEAN,
           NEW t \in MinTarget .. MaxTarget
    PROVE  LET y == pull(x, ok, t)
           IN  /\ y.jb \in Buffers /\ SlotsFit(y.jb) /\ y.pc \in Playouts
               /\ y.pc.staging = x.pc.staging /\ y.pc.fresh = x.pc.fresh
               /\ y.outcome = "outage" => ~y.jb.started
               /\ y.outcome # "outage" => y.jb.started = x.jb.started
               /\ y.outcome \in {"outage", "frame", "concealed"}
<1> DEFINE b == IF x.pc.insert THEN x.jb ELSE advance(x.jb)
           hit == ~x.pc.insert /\ hits(x.jb) /\ ok
           y == pull(x, ok, t)
<1>1. b \in Buffers /\ SlotsFit(b) /\ b.started = x.jb.started
  BY AdvanceFits
<1>2. reset(b) \in Buffers /\ SlotsFit(reset(b)) /\ ~reset(b).started
  BY <1>1, ResetBuffer
<1> HIDE DEF y, b, hit
<1>3. Pulled(x, y, b, hit, t)
  BY PullFields, Zenon DEF y, b, hit
<1>4. /\ y.pc \in Playouts /\ y.pc.staging = x.pc.staging /\ y.pc.fresh = x.pc.fresh
      /\ (y.outcome = "outage" /\ y.jb = reset(b))
            \/ (y.outcome \in {"frame", "concealed"} /\ y.jb = b)
  BY <1>3 DEF Pulled
<1>5. CASE y.outcome = "outage" /\ y.jb = reset(b)
  BY <1>2, <1>4, <1>5 DEF y
<1>6. CASE y.outcome \in {"frame", "concealed"} /\ y.jb = b
  BY <1>1, <1>4, <1>6 DEF y
<1> QED
  BY <1>4, <1>5, <1>6

\* A pull that plays or conceals a frame.
LEMMA PullPlays ==
    ASSUME NEW x, x.jb \in Buffers, SlotsFit(x.jb), x.pc \in Playouts, NEW ok \in BOOLEAN,
           NEW t \in MinTarget .. MaxTarget, x.jb.started, NEW s \in Seqs,
           Playing(x.jb, x.pc, s), pull(x, ok, t).outcome # "outage"
    PROVE  LET y == pull(x, ok, t)
           IN  /\ Playing(y.jb, y.pc, s)
               /\ at(y.jb, s) <= at(x.jb, s)
               /\ Near(x.jb, s) =>
                     /\ Near(y.jb, s)
                     /\ \/ debt(y.jb, y.pc, s) <= debt(x.jb, x.pc, s) - 1
                        \/ debt(y.jb, y.pc, s) <= MaxTarget + 2
<1> DEFINE b == IF x.pc.insert THEN x.jb ELSE advance(x.jb)
           hit == ~x.pc.insert /\ hits(x.jb) /\ ok
           y == pull(x, ok, t)
           n == at(x.jb, x.jb.newest)
           l == at(x.jb, s)
           m == x.pc.misses
<1>1. /\ y.pc.insert = FALSE /\ y.jb = b
      /\ y.pc.misses = (IF hit THEN 0 ELSE m + 1)
      /\ \/ y.pc.pending = x.pc.pending
         \/ y.pc.pending = "None"
         \/ y.pc.pending = "DropOne" /\ depth(b) > t + deadband
         \/ y.pc.pending = "InsertOne" /\ depth(b) < t - deadband
  <2> HIDE DEF y, b, hit
  <2>1. Pulled(x, y, b, hit, t)
    BY PullFields, Zenon DEF y, b, hit
  <2>2. y.outcome # "outage"
    BY DEF y
  <2> QED
    BY <2>1, <2>2 DEF Pulled, m
<1>2. /\ n \in Int /\ l \in Int /\ n < l /\ m \in Nat /\ m + 1 <= ResetAfterMisses
      /\ -(m + 2) <= n /\ (x.pc.pending = "DropOne" => -(m + 1) <= n)
      /\ x.pc.insert \in BOOLEAN
  BY BufferType, Reached DEF at, Playing, Tracks, Playouts
<1>3. /\ t \in Nat /\ t <= MaxTarget /\ deadband \in Nat /\ MaxTarget \in Nat
      /\ ResetAfterMisses + 8 < Half
  BY RoomAssumption DEF deadband
<1>4. /\ b \in Buffers /\ b.started /\ SlotsFit(b)
  BY AdvanceFits
<1>5. /\ Tracks(b, s)
      /\ at(b, b.newest) = (IF x.pc.insert THEN n ELSE n - 1)
      /\ at(b, s) = (IF x.pc.insert THEN l ELSE l - 1)
      /\ hit => 0 <= n
  <2>1. CASE x.pc.insert
    BY <2>1 DEF Playing
  <2>2. CASE ~x.pc.insert
    <3>1. 1 < Half /\ -Half < n - 1
      BY <1>2, <1>3
    <3>2. /\ Tracks(advance(x.jb), s)
          /\ at(advance(x.jb), advance(x.jb).newest) = n - 1
          /\ at(advance(x.jb), s) = l - 1
          /\ hits(x.jb) => 0 <= n
      BY <3>1, AdvanceTracks DEF Playing
    <3> QED
      BY <2>2, <3>2
  <2> QED
    BY <2>1, <2>2, <1>2
<1>6. depth(b) = at(b, b.newest) + 1
  BY <1>4, DepthType
<1> HIDE DEF y, b, hit, n, l, m
<1>7. hit \in BOOLEAN /\ (hit => ~x.pc.insert)
  BY DEF hit, hits, stored
<1>8. PICK k \in Int : k = at(b, b.newest)
  BY <1>2, <1>5
<1>9. PICK v \in Nat : v = y.pc.misses
  BY <1>1, <1>2, <1>7
<1>10. -(v + 1) <= k \/ (-(v + 2) <= k /\ y.pc.pending # "DropOne")
  <2>1. CASE hit
    BY <1>1, <1>2, <1>5, <1>7, <1>8, <1>9, <2>1
  <2>2. CASE ~hit
    <3>1. v = m + 1 /\ n - 1 <= k /\ k <= n
      BY <1>1, <1>2, <1>5, <1>8, <1>9, <2>2
    <3>2. -(v + 2) <= k
      BY <1>2, <3>1
    <3>3. x.pc.pending = "DropOne" => -(v + 1) <= k
      BY <1>2, <3>1
    <3>4. y.pc.pending = "DropOne" => x.pc.pending = "DropOne" \/ depth(b) > t + deadband
      BY <1>1
    <3>5. depth(b) > t + deadband => 0 <= k
      BY <1>3, <1>6, <1>8
    <3> QED
      BY <1>9, <3>2, <3>3, <3>4, <3>5
  <2> QED
    BY <2>1, <2>2
<1>11. Playing(y.jb, y.pc, s)
  BY <1>1, <1>5, <1>8, <1>9, <1>10 DEF Playing
<1>12. at(y.jb, s) <= l
  BY <1>1, <1>2, <1>5
<1>13. ASSUME Near(x.jb, s)
       PROVE  /\ Near(y.jb, s)
              /\ \/ debt(y.jb, y.pc, s) <= debt(x.jb, x.pc, s) - 1
                 \/ debt(y.jb, y.pc, s) <= MaxTarget + 2
  <2>1. l <= MaxTarget \/ n = l - 1
    BY <1>13 DEF Near, l, n
  <2>2. PICK w \in Int : w = at(b, s)
    BY <1>2, <1>5
  <2>3. w <= MaxTarget \/ k = w - 1
    BY <1>2, <1>3, <1>5, <1>8, <2>1, <2>2
  <2>4. Near(y.jb, s)
    BY <1>1, <1>8, <2>2, <2>3 DEF Near
  <2>5. one(y.pc.insert) = 0
    BY <1>1 DEF one
  <2>6. w = l - 1 + one(x.pc.insert)
    BY <1>2, <1>5, <2>2 DEF one
  <2>7. \A P : one(P) \in {0, 1}
    BY DEF one
  <2>8. CASE y.pc.pending = x.pc.pending
    <3>1. PICK a \in Int, c \in Int : a = one(x.pc.pending = "InsertOne") /\ c = one(x.pc.insert)
      BY <2>7
    <3>2. debt(y.jb, y.pc, s) = w + a + 0 /\ debt(x.jb, x.pc, s) = l + a + c
      BY <1>1, <2>2, <2>5, <2>8, <3>1 DEF debt, l
    <3>3. w = l - 1 + c
      BY <2>6, <3>1
    <3>4. PICK e \in Int : e = w + a + 0 /\ e <= l + a + c - 1
      BY <1>2, <3>1, <3>3
    <3>5. debt(y.jb, y.pc, s) = e /\ e <= debt(x.jb, x.pc, s) - 1
      BY <1>2, <2>2, <3>1, <3>2, <3>4
    <3> QED
      BY <2>4, <3>5, Zenon
  <2>9. CASE y.pc.pending \in {"None", "DropOne"}
    <3>1. PICK a \in {0, 1}, c \in Int : a = one(x.pc.pending = "InsertOne") /\ c = one(x.pc.insert)
      BY <2>7
    <3>2. one(y.pc.pending = "InsertOne") = 0
      BY <2>9 DEF one
    <3>3. debt(y.jb, y.pc, s) = w + 0 + 0 /\ debt(x.jb, x.pc, s) = l + a + c
      BY <1>1, <2>2, <2>5, <3>1, <3>2 DEF debt, l
    <3> QED
      BY <1>2, <2>2, <2>4, <2>6, <3>1, <3>3
  <2>10. CASE y.pc.pending = "InsertOne" /\ depth(b) < t - deadband
    <3>1. w <= MaxTarget
      BY <1>3, <1>6, <1>8, <2>2, <2>3, <2>10
    <3>2. one(y.pc.pending = "InsertOne") = 1
      BY <2>10 DEF one
    <3>3. debt(y.jb, y.pc, s) = w + 1 + 0
      BY <1>1, <2>2, <2>5, <3>2 DEF debt
    <3> QED
      BY <1>3, <2>2, <2>4, <3>1, <3>3
  <2> QED
    BY <1>1, <2>8, <2>9, <2>10
<1> QED
  BY <1>11, <1>12, <1>13 DEF y, l

\* The correction is taken.
LEMMA AdjustKeeps ==
    ASSUME NEW x, DOMAIN x = {"jb", "pc", "outcome"}, x = [jb |-> x.jb, pc |-> x.pc, outcome |-> x.outcome],
           x.jb \in Buffers, SlotsFit(x.jb), x.pc \in Playouts
    PROVE  LET y == apply_step_adjustment(x)
           IN  /\ y.jb \in Buffers /\ SlotsFit(y.jb) /\ y.pc \in Playouts
               /\ y.pc.staging = x.pc.staging
               /\ y.jb.started = x.jb.started /\ y.outcome = x.outcome
               /\ y.pc.misses = x.pc.misses /\ y.pc.pending = "None"
               /\ y.pc.insert = (x.pc.pending = "InsertOne" \/ x.pc.insert)
               /\ y.jb = IF x.pc.pending = "DropOne" THEN advance(x.jb) ELSE x.jb
<1> DEFINE y == apply_step_adjustment(x)
           b == IF x.pc.pending = "DropOne" THEN advance(x.jb) ELSE x.jb
           i == (x.pc.pending = "InsertOne") \/ x.pc.insert
           q == [x.pc EXCEPT !.insert = i, !.pending = "None"]
<1>1. b \in Buffers /\ SlotsFit(b) /\ b.started = x.jb.started
  BY AdvanceFits
<1>2. i \in BOOLEAN
  BY DEF Playouts
<1> HIDE DEF i
<1>3. q \in Playouts /\ q.staging = x.pc.staging /\ q.misses = x.pc.misses
      /\ q.pending = "None" /\ q.insert = i
  BY <1>2 DEF Playouts, Pendings
<1>4. y.jb = b /\ y.pc = q /\ y.outcome = x.outcome
  BY DEF apply_step_adjustment, Playouts, i
<1> HIDE DEF b, q, y
<1>5. y.jb \in Buffers /\ SlotsFit(y.jb) /\ y.pc \in Playouts
      /\ y.pc.staging = x.pc.staging
      /\ y.jb.started = x.jb.started /\ y.outcome = x.outcome
      /\ y.pc.misses = x.pc.misses /\ y.pc.pending = "None" /\ y.pc.insert = i /\ y.jb = b
  BY <1>1, <1>3, <1>4
<1> QED
  BY <1>5 DEF y, b, i

\* A correction shortens what the sender is ahead, or will.
LEMMA AdjustPlays ==
    ASSUME NEW x, DOMAIN x = {"jb", "pc", "outcome"}, x = [jb |-> x.jb, pc |-> x.pc, outcome |-> x.outcome],
           x.jb \in Buffers, SlotsFit(x.jb), x.pc \in Playouts, x.jb.started, NEW s \in Seqs,
           Playing(x.jb, x.pc, s)
    PROVE  LET y == apply_step_adjustment(x)
           IN  /\ Playing(y.jb, y.pc, s)
               /\ at(y.jb, s) <= at(x.jb, s)
               /\ Near(x.jb, s) => Near(y.jb, s)
               /\ debt(y.jb, y.pc, s) <= debt(x.jb, x.pc, s)
<1> DEFINE y == apply_step_adjustment(x)
<1>1. /\ y.pc.misses = x.pc.misses /\ y.pc.pending = "None"
      /\ y.pc.insert = (x.pc.pending = "InsertOne" \/ x.pc.insert)
      /\ y.jb = IF x.pc.pending = "DropOne" THEN advance(x.jb) ELSE x.jb
  BY AdjustKeeps
<1> HIDE DEF y
<1>2. /\ x.pc.misses \in Nat /\ x.pc.misses + 1 <= ResetAfterMisses
      /\ x.pc.pending \in Pendings /\ x.pc.insert \in BOOLEAN
  BY DEF Playouts
<1>3. PICK m \in Nat, n \in Int, l \in Int :
         m = x.pc.misses /\ n = at(x.jb, x.jb.newest) /\ l = at(x.jb, s)
  BY <1>2, BufferType, Reached DEF at
<1>4. -(m + 2) <= n /\ (x.pc.pending = "DropOne" => -(m + 1) <= n) /\ n < l
  BY <1>3 DEF Playing, Tracks
<1>5. ResetAfterMisses + 8 < Half /\ MaxTarget \in Nat
  BY RoomAssumption
<1>6. PICK a \in {0, 1}, c \in {0, 1} : a = one(x.pc.pending = "InsertOne") /\ c = one(x.pc.insert)
  BY DEF one
<1>7. debt(x.jb, x.pc, s) = l + a + c
  BY <1>3, <1>6 DEF debt
<1>8. one(y.pc.pending = "InsertOne") = 0
  BY <1>1 DEF one
<1>9. CASE x.pc.pending = "DropOne"
  <2>1. 1 < Half /\ -Half < at(x.jb, x.jb.newest) - 1
    BY <1>2, <1>3, <1>4, <1>5
  <2>2. /\ Tracks(y.jb, s) /\ at(y.jb, y.jb.newest) = n - 1 /\ at(y.jb, s) = l - 1
    BY <1>1, <1>3, <1>9, <2>1, AdvanceTracks DEF Playing
  <2>3. one(y.pc.insert) = c
    BY <1>1, <1>2, <1>6, <1>9 DEF one
  <2>4. debt(y.jb, y.pc, s) = l - 1 + 0 + c
    BY <1>8, <2>2, <2>3 DEF debt
  <2>5. debt(y.jb, y.pc, s) <= debt(x.jb, x.pc, s)
    BY <1>3, <1>6, <1>7, <2>4
  <2>6. Playing(y.jb, y.pc, s)
    BY <1>1, <1>3, <1>4, <1>9, <2>2 DEF Playing
  <2>7. Near(x.jb, s) => Near(y.jb, s)
    BY <1>3, <1>5, <2>2 DEF Near
  <2>8. at(y.jb, s) <= at(x.jb, s)
    BY <1>3, <2>2
  <2> QED
    BY <2>5, <2>6, <2>7, <2>8 DEF y
<1>10. CASE x.pc.pending # "DropOne"
  <2>1. y.jb = x.jb
    BY <1>1, <1>10
  <2>2. one(y.pc.insert) <= a + c /\ one(y.pc.insert) \in {0, 1}
    BY <1>1, <1>2, <1>6 DEF one
  <2>3. debt(y.jb, y.pc, s) = l + 0 + one(y.pc.insert)
    BY <1>3, <1>8, <2>1 DEF debt
  <2>4. debt(y.jb, y.pc, s) <= debt(x.jb, x.pc, s)
    BY <1>3, <1>6, <1>7, <2>2, <2>3
  <2>5. Playing(y.jb, y.pc, s)
    BY <1>1, <2>1 DEF Playing
  <2>6. at(y.jb, s) <= at(x.jb, s)
    BY <1>3, <2>1
  <2> QED
    BY <2>1, <2>4, <2>5, <2>6 DEF y
<1> QED
  BY <1>9, <1>10

-----------------------------------------------------------------------------
(* A tick of the callback.                                                 *)

Hands == [jb : Buffers, pc : Playouts, outcome : {"none", "outage", "frame", "concealed"}]

\* What the sender's lead and the corrections under way come to, from x to y.
Goes(x, y, s, k) ==
    y.jb.started =>
        /\ x.jb.started
        /\ Playing(x.jb, x.pc, s) =>
              /\ Playing(y.jb, y.pc, s)
              /\ at(y.jb, s) <= at(x.jb, s)
              /\ Near(x.jb, s) =>
                    /\ Near(y.jb, s)
                    /\ \/ debt(y.jb, y.pc, s) <= debt(x.jb, x.pc, s) - k
                       \/ debt(y.jb, y.pc, s) <= MaxTarget + 2

LEMMA DebtType ==
    ASSUME NEW b \in Buffers, NEW p, NEW s \in Seqs
    PROVE  at(b, s) \in Int /\ debt(b, p, s) \in Int /\ at(b, s) <= debt(b, p, s)
<1>1. at(b, s) \in Int
  BY BufferType, Reached DEF at
<1>2. \A P : one(P) \in {0, 1}
  BY DEF one
<1>3. PICK a \in {0, 1}, c \in {0, 1} : a = one(p.pending = "InsertOne") /\ c = one(p.insert)
  BY <1>2
<1>4. debt(b, p, s) = at(b, s) + a + c
  BY <1>3 DEF debt
<1> QED
  BY <1>1, <1>3, <1>4

LEMMA GoesOn ==
    ASSUME NEW x, NEW y, NEW z, x.jb \in Buffers, y.jb \in Buffers, z.jb \in Buffers,
           NEW s \in Seqs, NEW j \in Nat, NEW k \in Nat, Goes(x, y, s, j), Goes(y, z, s, k)
    PROVE  Goes(x, z, s, j + k)
<1> SUFFICES ASSUME z.jb.started
             PROVE  /\ x.jb.started
                    /\ Playing(x.jb, x.pc, s) =>
                          /\ Playing(z.jb, z.pc, s)
                          /\ at(z.jb, s) <= at(x.jb, s)
                          /\ Near(x.jb, s) =>
                                /\ Near(z.jb, s)
                                /\ \/ debt(z.jb, z.pc, s) <= debt(x.jb, x.pc, s) - (j + k)
                                   \/ debt(z.jb, z.pc, s) <= MaxTarget + 2
  BY DEF Goes
<1>1. y.jb.started /\ x.jb.started
  BY DEF Goes
<1>2. PICK a \in Int, b \in Int, c \in Int :
         a = at(x.jb, s) /\ b = at(y.jb, s) /\ c = at(z.jb, s)
  BY DebtType
<1>3. PICK d \in Int, e \in Int, f \in Int :
         /\ d = debt(x.jb, x.pc, s) /\ e = debt(y.jb, y.pc, s) /\ f = debt(z.jb, z.pc, s)
  BY DebtType
<1>4. ASSUME Playing(x.jb, x.pc, s)
      PROVE  /\ Playing(y.jb, y.pc, s) /\ Playing(z.jb, z.pc, s)
             /\ b <= a /\ c <= b
             /\ Near(x.jb, s) => /\ Near(y.jb, s) /\ (e <= d - j \/ e <= MaxTarget + 2)
                                 /\ Near(z.jb, s) /\ (f <= e - k \/ f <= MaxTarget + 2)
  <2>1. /\ Playing(y.jb, y.pc, s) /\ b <= a
        /\ Near(x.jb, s) => Near(y.jb, s) /\ (e <= d - j \/ e <= MaxTarget + 2)
    BY <1>1, <1>2, <1>3, <1>4, Zenon DEF Goes
  <2>2. /\ Playing(z.jb, z.pc, s) /\ c <= b
        /\ Near(y.jb, s) => Near(z.jb, s) /\ (f <= e - k \/ f <= MaxTarget + 2)
    BY <1>2, <1>3, <2>1, Zenon DEF Goes
  <2> QED
    BY <2>1, <2>2
<1>5. MaxTarget \in Nat
  OBVIOUS
<1>6. (e <= d - j \/ e <= MaxTarget + 2) /\ (f <= e - k \/ f <= MaxTarget + 2)
         => f <= d - (j + k) \/ f <= MaxTarget + 2
  BY <1>3, <1>5
<1>7. b <= a /\ c <= b => c <= a
  BY <1>2
<1> QED
  BY <1>1, <1>2, <1>3, <1>4, <1>6, <1>7, Zenon

\* A pull, as a step of what is in hand.
LEMMA PullGoes ==
    ASSUME NEW x \in Hands, SlotsFit(x.jb), NEW y \in pulls(x)
    PROVE  /\ y \in Hands /\ SlotsFit(y.jb)
           /\ y.pc.staging = x.pc.staging /\ y.pc.fresh = x.pc.fresh
           /\ y.outcome # "none"
           /\ y.outcome = "outage" => ~y.jb.started
           /\ \A s \in Seqs : Goes(x, y, s, 1)
<1>1. x.jb \in Buffers /\ x.pc \in Playouts
  BY DEF Hands
<1>2. PICK ok \in BOOLEAN, t \in MinTarget .. MaxTarget : y = pull(x, ok, t)
  <2>1. Decodes \subseteq BOOLEAN
    BY DEF Decodes
  <2>2. Targets(x.pc) \subseteq MinTarget .. MaxTarget
    BY <1>1 DEF Targets, Playouts
  <2> QED
    BY <2>1, <2>2 DEF pulls
<1>3. /\ y.jb \in Buffers /\ SlotsFit(y.jb) /\ y.pc \in Playouts
      /\ y.pc.staging = x.pc.staging /\ y.pc.fresh = x.pc.fresh
      /\ y.outcome = "outage" => ~y.jb.started
      /\ y.outcome # "outage" => y.jb.started = x.jb.started
      /\ y.outcome \in {"outage", "frame", "concealed"}
  BY <1>1, <1>2, PullFits
<1>4. y = [jb |-> y.jb, pc |-> y.pc, outcome |-> y.outcome]
  <2>1. \A f, g, h : LET r == [jb |-> f, outcome |-> g, pc |-> h]
                     IN  r = [jb |-> r.jb, pc |-> r.pc, outcome |-> r.outcome]
    OBVIOUS
  <2>2. \E f, g, h : y = [jb |-> f, outcome |-> g, pc |-> h]
    BY <1>2 DEF pull
  <2> QED
    BY <2>1, <2>2
<1>5. y \in Hands
  BY <1>3, <1>4 DEF Hands
<1>6. ASSUME NEW s \in Seqs PROVE Goes(x, y, s, 1)
  <2> SUFFICES ASSUME y.jb.started
               PROVE  /\ x.jb.started
                      /\ Playing(x.jb, x.pc, s) =>
                            /\ Playing(y.jb, y.pc, s)
                            /\ at(y.jb, s) <= at(x.jb, s)
                            /\ Near(x.jb, s) =>
                                  /\ Near(y.jb, s)
                                  /\ \/ debt(y.jb, y.pc, s) <= debt(x.jb, x.pc, s) - 1
                                     \/ debt(y.jb, y.pc, s) <= MaxTarget + 2
    BY DEF Goes
  <2>1. y.outcome # "outage" /\ x.jb.started
    BY <1>3
  <2> QED
    BY <1>1, <1>2, <2>1, PullPlays, Zenon
<1> QED
  BY <1>3, <1>5, <1>6

\* Staging and priming do not move the buffer.
LEMMA GoesAlike ==
    ASSUME NEW x, NEW y, NEW z, NEW s, NEW k, Goes(x, y, s, k), z.jb = y.jb,
           z.pc.misses = y.pc.misses, z.pc.pending = y.pc.pending, z.pc.insert = y.pc.insert
    PROVE  Goes(x, z, s, k)
<1>1. debt(z.jb, z.pc, s) = debt(y.jb, y.pc, s)
  BY DEF debt
<1>2. Playing(y.jb, y.pc, s) => Playing(z.jb, z.pc, s)
  BY DEF Playing
<1> QED
  BY <1>1, <1>2, Zenon DEF Goes

LEMMA GoesNowhere ==
    ASSUME NEW x, x.jb \in Buffers, NEW s \in Seqs
    PROVE  Goes(x, x, s, 0)
<1>1. PICK a \in Int, d \in Int : a = at(x.jb, s) /\ d = debt(x.jb, x.pc, s)
  BY DebtType
<1>2. a <= a /\ d <= d - 0
  BY <1>1
<1> QED
  BY <1>1, <1>2, Zenon DEF Goes

\* The playout of a stream that starts afresh.
LEMMA ResetStream ==
    ASSUME NEW p \in Playouts
    PROVE  LET q == reset_stream(p)
           IN  /\ q \in Playouts /\ q.misses = 0 /\ q.pending = "None" /\ q.insert = FALSE
               /\ q.staging = 0 /\ q.primed = FALSE /\ q.fresh = TRUE
<1> DEFINE q == reset_stream(p)
<1>1. q = [p EXCEPT !.primed = FALSE, !.misses = 0, !.pending = "None", !.insert = FALSE,
                    !.staging = 0, !.fresh = TRUE]
  BY DEF reset_stream
<1> HIDE DEF q
<1>2. 0 \in 0 .. ResetAfterMisses - 1
  OBVIOUS
<1>3. /\ q \in Playouts /\ q.misses = 0 /\ q.pending = "None" /\ q.insert = FALSE
      /\ q.staging = 0 /\ q.primed = FALSE /\ q.fresh = TRUE
  BY <1>1, <1>2 DEF Playouts, Pendings
<1> QED
  BY <1>3 DEF q

\* A frame more in staging.
LEMMA Staged ==
    ASSUME NEW x \in Hands, SlotsFit(x.jb), NEW z \in staged(x)
    PROVE  /\ z \in Hands /\ SlotsFit(z.jb) /\ z.outcome # "none"
           /\ z.outcome = "outage" => ~z.jb.started /\ z.pc.staging = 0
           /\ z.outcome # "outage" =>
                 /\ \E n \in Lengths(x.pc.fresh) : z.pc.staging = x.pc.staging + n
                 /\ z.pc.fresh = FALSE
           /\ \A s \in Seqs : Goes(x, z, s, 1)
<1>1. PICK y \in pulls(x) :
         z \in IF y.outcome = "outage" THEN {[y EXCEPT !.pc = reset_stream(@)]}
               ELSE {[y EXCEPT !.pc.staging = @ + n, !.pc.fresh = FALSE] :
                        n \in Lengths(y.pc.fresh)}
  BY DEF staged
<1>2. /\ y \in Hands /\ SlotsFit(y.jb)
      /\ y.pc.staging = x.pc.staging /\ y.pc.fresh = x.pc.fresh
      /\ y.outcome # "none"
      /\ y.outcome = "outage" => ~y.jb.started
      /\ \A s \in Seqs : Goes(x, y, s, 1)
  BY PullGoes
<1>3. CASE y.outcome = "outage"
  <2>1. z = [y EXCEPT !.pc = reset_stream(@)]
    BY <1>1, <1>3
  <2>2. PICK q \in Playouts : q = reset_stream(y.pc) /\ q.staging = 0
    BY <1>2, ResetStream DEF Hands
  <2>3. z.jb = y.jb /\ z.outcome = y.outcome /\ z.pc = q /\ z \in Hands
    BY <1>2, <2>1, <2>2 DEF Hands
  <2>4. \A s \in Seqs : Goes(x, z, s, 1)
    BY <1>2, <1>3, <2>3 DEF Goes
  <2> QED
    BY <1>2, <1>3, <2>2, <2>3, <2>4
<1>4. CASE y.outcome # "outage"
  <2>1. PICK n \in Lengths(x.pc.fresh) : z = [y EXCEPT !.pc.staging = @ + n, !.pc.fresh = FALSE]
    BY <1>1, <1>2, <1>4
  <2>2. n \in Nat
    BY <2>1 DEF Lengths
  <2>3. /\ z.jb = y.jb /\ z.outcome = y.outcome
        /\ z.pc = [y.pc EXCEPT !.staging = @ + n, !.fresh = FALSE]
    BY <1>2, <2>1 DEF Hands
  <2>4. PICK p \in Playouts : p = y.pc
    BY <1>2 DEF Hands
  <2>5. PICK q : q = [p EXCEPT !.staging = @ + n, !.fresh = FALSE]
    OBVIOUS
  <2>6. /\ q \in Playouts /\ q.staging = p.staging + n /\ q.fresh = FALSE
        /\ q.misses = p.misses /\ q.pending = p.pending /\ q.insert = p.insert
    <3>1. PICK k \in Nat : k = p.staging + n
      BY <2>2 DEF Playouts
    <3>2. q = [p EXCEPT !.staging = k, !.fresh = FALSE]
      BY <2>5, <3>1
    <3>3. /\ q \in Playouts /\ q.staging = k /\ q.fresh = FALSE
          /\ q.misses = p.misses /\ q.pending = p.pending /\ q.insert = p.insert
      BY <3>2 DEF Playouts
    <3> QED
      BY <3>1, <3>3
  <2>7. z \in Hands
    BY <1>2, <2>1, <2>3, <2>4, <2>5, <2>6 DEF Hands
  <2>8. \A s \in Seqs : Goes(x, z, s, 1)
    BY <1>2, <2>3, <2>4, <2>5, <2>6, GoesAlike
  <2>9. z.pc.staging = x.pc.staging + n /\ z.pc.fresh = FALSE
    BY <1>2, <2>3, <2>4, <2>5, <2>6
  <2> QED
    BY <1>2, <1>4, <2>1, <2>3, <2>7, <2>8, <2>9
<1> QED
  BY <1>3, <1>4

\* What went further went far enough.
LEMMA GoesLess ==
    ASSUME NEW x, NEW y, x.jb \in Buffers, y.jb \in Buffers, NEW s \in Seqs, Goes(x, y, s, 2)
    PROVE  Goes(x, y, s, 1)
<1>1. PICK d \in Int, e \in Int : d = debt(x.jb, x.pc, s) /\ e = debt(y.jb, y.pc, s)
  BY DebtType
<1>2. e <= d - 2 => e <= d - 1
  BY <1>1
<1> QED
  BY <1>1, <1>2, Zenon DEF Goes

\* A frame of staging is played.
Played(y) == IF y.outcome = "outage" THEN y ELSE [y EXCEPT !.pc.staging = @ - FRAME]

LEMMA PlayedFields ==
    ASSUME NEW y \in Hands, y.outcome # "outage", FRAME <= y.pc.staging
    PROVE  /\ Played(y) \in Hands /\ Played(y).jb = y.jb /\ Played(y).outcome = y.outcome
           /\ Played(y).pc.staging = y.pc.staging - FRAME
           /\ Played(y).pc.misses = y.pc.misses /\ Played(y).pc.pending = y.pc.pending
           /\ Played(y).pc.insert = y.pc.insert
<1> DEFINE z == Played(y)
<1>1. z = [y EXCEPT !.pc.staging = @ - FRAME]
  BY DEF Played
<1> HIDE DEF z
<1>2. PICK p \in Playouts : p = y.pc
  BY DEF Hands
<1>3. PICK k \in Nat : k = p.staging - FRAME
  BY <1>2 DEF Playouts
<1>4. PICK q : q = [p EXCEPT !.staging = k]
  OBVIOUS
<1>5. /\ q \in Playouts /\ q.staging = k
      /\ q.misses = p.misses /\ q.pending = p.pending /\ q.insert = p.insert
  BY <1>4 DEF Playouts
<1>6. z.jb = y.jb /\ z.outcome = y.outcome /\ z.pc = q
  BY <1>1, <1>2, <1>3, <1>4 DEF Hands
<1>7. z \in Hands
  BY <1>1, <1>5, <1>6 DEF Hands
<1>8. /\ z \in Hands /\ z.jb = y.jb /\ z.outcome = y.outcome
      /\ z.pc.staging = y.pc.staging - FRAME
      /\ z.pc.misses = y.pc.misses /\ z.pc.pending = y.pc.pending /\ z.pc.insert = y.pc.insert
  BY <1>2, <1>3, <1>5, <1>6, <1>7
<1> QED
  BY <1>8 DEF z

\* What the loop makes of staging: with a frame there, none is pulled.
LEMMA Filled ==
    ASSUME NEW x \in Hands, SlotsFit(x.jb), x.outcome = "none", x.pc.staging \in 0 .. FRAME,
           NEW z \in filled(x)
    PROVE  /\ z \in Hands /\ SlotsFit(z.jb) /\ z.pc.staging \in 0 .. FRAME
           /\ z.outcome = "outage" => ~z.jb.started
           /\ IF x.pc.staging = FRAME
              THEN z.pc.staging = 0 /\ \A s \in Seqs : Goes(x, z, s, 0)
              ELSE /\ calm > 0 => z.pc.staging < FRAME
                   /\ \A s \in Seqs : Goes(x, z, s, 1)
<1> DEFINE More(y) == IF short(y) THEN staged(y) ELSE {y}
<1>0. PICK v \in More(x) : \E w \in More(v) : z = Played(w)
  BY DEF filled, Played
<1>1. PICK w \in More(v) : v \in More(x) /\ z = Played(w)
  BY <1>0
<1>2. FRAME \in Nat /\ 2 <= FRAME
  OBVIOUS
<1>3. PICK a \in Nat : a = x.pc.staging /\ a <= FRAME
  BY <1>2
<1>4. x.jb \in Buffers
  BY DEF Hands
<1>5. CASE a = FRAME
  <2>1. ~short(x) /\ FRAME <= x.pc.staging /\ x.outcome # "outage"
    BY <1>2, <1>3, <1>5 DEF short
  <2>2. z = Played(x)
    BY <1>1, <2>1
  <2>3. z \in Hands /\ z.jb = x.jb /\ z.outcome = x.outcome
        /\ z.pc.staging = x.pc.staging - FRAME
        /\ z.pc.misses = x.pc.misses /\ z.pc.pending = x.pc.pending /\ z.pc.insert = x.pc.insert
    BY <2>1, <2>2, PlayedFields
  <2>4. \A s \in Seqs : Goes(x, z, s, 0)
    BY <1>4, <2>3, GoesNowhere, GoesAlike
  <2>5. z.pc.staging = 0 /\ 0 \in 0 .. FRAME
    <3>1. z.pc.staging = a - FRAME
      BY <1>3, <2>3, Zenon
    <3>3. a - FRAME = 0
      BY <1>2, <1>5
    <3>2. 0 \in 0 .. FRAME
      BY <1>2
    <3> QED
      BY <3>1, <3>2, <3>3
  <2> QED
    BY <1>3, <1>5, <2>1, <2>3, <2>4, <2>5
<1>6. CASE a < FRAME
  <2>1. short(x) /\ v \in staged(x)
    BY <1>1, <1>3, <1>6 DEF short
  <2>2. /\ v \in Hands /\ SlotsFit(v.jb) /\ v.outcome # "none"
        /\ v.outcome = "outage" => ~v.jb.started /\ v.pc.staging = 0
        /\ v.outcome # "outage" =>
              /\ \E n \in Lengths(x.pc.fresh) : v.pc.staging = x.pc.staging + n
              /\ v.pc.fresh = FALSE
        /\ \A s \in Seqs : Goes(x, v, s, 1)
    BY <2>1, Staged
  <2>3. /\ z \in Hands /\ SlotsFit(z.jb) /\ z.pc.staging \in 0 .. FRAME
        /\ z.outcome = "outage" => ~z.jb.started
        /\ calm > 0 => z.pc.staging < FRAME
        /\ \A s \in Seqs : Goes(x, z, s, 1)
    <3>1. CASE v.outcome = "outage"
      <4>1. z = v
        BY <1>1, <3>1 DEF short, Played
      <4>2. 0 \in 0 .. FRAME /\ 0 < FRAME
        BY <1>2
      <4> QED
        BY <2>2, <3>1, <4>1, <4>2
    <3>2. CASE v.outcome # "outage" /\ ~short(v)
      <4>1. z = Played(v)
        BY <1>1, <3>2
      <4>2. PICK n \in Lengths(x.pc.fresh) : v.pc.staging = a + n
        BY <1>3, <2>2, <3>2
      <4>3. n \in Nat /\ n <= FRAME + 1 /\ (calm > 0 => n <= FRAME)
        BY <1>2, <4>2 DEF Lengths
      <4>4. FRAME <= v.pc.staging
        BY <1>2, <3>2, <4>2, <4>3 DEF short
      <4>5. z \in Hands /\ z.jb = v.jb /\ z.outcome = v.outcome
            /\ z.pc.staging = v.pc.staging - FRAME
            /\ z.pc.misses = v.pc.misses /\ z.pc.pending = v.pc.pending
            /\ z.pc.insert = v.pc.insert
        BY <2>2, <3>2, <4>1, <4>4, PlayedFields
      <4>6. z.pc.staging \in 0 .. FRAME /\ (calm > 0 => z.pc.staging < FRAME)
        BY <1>2, <1>6, <4>2, <4>3, <4>4, <4>5
      <4>7. \A s \in Seqs : Goes(x, z, s, 1)
        BY <2>2, <4>5, GoesAlike
      <4> QED
        BY <2>2, <3>2, <4>5, <4>6, <4>7
    <3>3. CASE short(v)
      <4>1. w \in staged(v) /\ v.outcome # "outage" /\ v.pc.staging < FRAME
        BY <1>1, <3>3 DEF short
      <4>2. /\ w \in Hands /\ SlotsFit(w.jb)
            /\ w.outcome = "outage" => ~w.jb.started /\ w.pc.staging = 0
            /\ w.outcome # "outage" =>
                  \E n \in Lengths(v.pc.fresh) : w.pc.staging = v.pc.staging + n
            /\ \A s \in Seqs : Goes(v, w, s, 1)
        BY <2>2, <4>1, Staged
      <4>3. v.pc.staging = FRAME - 1 /\ v.pc.fresh = FALSE
        <5>1. PICK n \in Lengths(x.pc.fresh) : v.pc.staging = a + n
          BY <1>3, <2>2, <4>1
        <5>2. n \in Nat /\ FRAME - 1 <= n
          BY <1>2, <5>1 DEF Lengths
        <5> QED
          BY <1>2, <2>2, <4>1, <5>1, <5>2
      <4>4. \A s \in Seqs : Goes(x, w, s, 1)
        <5> SUFFICES ASSUME NEW s \in Seqs PROVE Goes(x, w, s, 1)
          OBVIOUS
        <5>1. x.jb \in Buffers /\ v.jb \in Buffers /\ w.jb \in Buffers
          BY <1>4, <2>2, <4>2 DEF Hands
        <5>2. Goes(x, v, s, 1) /\ Goes(v, w, s, 1)
          BY <2>2, <4>2
        <5>3. Goes(x, w, s, 1 + 1)
          BY <5>1, <5>2, GoesOn
        <5> QED
          BY <5>1, <5>3, GoesLess
      <4>5. CASE w.outcome = "outage"
        <5>1. z = w /\ 0 \in 0 .. FRAME /\ 0 < FRAME
          BY <1>1, <1>2, <4>5 DEF Played
        <5> QED
          BY <4>2, <4>4, <4>5, <5>1
      <4>6. CASE w.outcome # "outage"
        <5>1. PICK n \in Lengths(FALSE) : w.pc.staging = FRAME - 1 + n
          BY <4>2, <4>3, <4>6
        <5>2. n \in Nat /\ FRAME - 1 <= n /\ n <= FRAME + 1 /\ (calm > 0 => n = FRAME)
          BY <1>2, <5>1 DEF Lengths
        <5>3. FRAME <= w.pc.staging
          BY <1>2, <5>1, <5>2
        <5>4. z \in Hands /\ z.jb = w.jb /\ z.outcome = w.outcome
              /\ z.pc.staging = w.pc.staging - FRAME
              /\ z.pc.misses = w.pc.misses /\ z.pc.pending = w.pc.pending
              /\ z.pc.insert = w.pc.insert
          BY <1>1, <4>2, <4>6, <5>3, PlayedFields
        <5>5. z.pc.staging \in 0 .. FRAME /\ (calm > 0 => z.pc.staging < FRAME)
          BY <1>2, <5>1, <5>2, <5>4
        <5>6. \A s \in Seqs : Goes(x, z, s, 1)
          BY <4>4, <5>4, GoesAlike
        <5> QED
          BY <4>2, <4>6, <5>4, <5>5, <5>6
      <4> QED
        BY <4>5, <4>6
    <3> QED
      BY <3>1, <3>2, <3>3
  <2> QED
    BY <1>3, <1>6, <2>3
<1> QED
  BY <1>2, <1>3, <1>5, <1>6

\* How far the sender is ahead, or will be, with the frame that is in staging.
total(b, p, s) == debt(b, p, s) + one(p.staging = FRAME)

\* Priming counts the misses again, with something in the buffer.
LEMMA PrePop ==
    ASSUME NEW b \in Buffers, NEW p \in Playouts
    PROVE  LET q == pre_pop(p, b)
           IN  /\ q \in Playouts
               /\ q.staging = p.staging /\ q.pending = p.pending /\ q.insert = p.insert
               /\ q.target = p.target
               /\ q.misses = p.misses \/ (q.misses = 0 /\ b.started /\ depth(b) >= p.target)
               /\ ~q.primed /\ b.started => ~(depth(b) >= p.target)
<1> DEFINE q == pre_pop(p, b)
<1>1. 0 \in 0 .. ResetAfterMisses - 1
  OBVIOUS
<1>2. CASE ~p.primed /\ b.started /\ depth(b) >= p.target
  <2>1. q = [p EXCEPT !.primed = TRUE, !.misses = 0]
    BY <1>2 DEF pre_pop
  <2> HIDE DEF q
  <2>2. /\ q \in Playouts /\ q.primed = TRUE /\ q.misses = 0
        /\ q.staging = p.staging /\ q.pending = p.pending /\ q.insert = p.insert
        /\ q.target = p.target
    BY <1>1, <2>1 DEF Playouts
  <2> QED
    BY <1>2, <2>2 DEF q
<1>3. CASE ~(~p.primed /\ b.started /\ depth(b) >= p.target)
  BY <1>3 DEF pre_pop, Playouts
<1> QED
  BY <1>2, <1>3

\* The sender's lead over a tick.
LEMMA Ticks ==
    ASSUME NEW b \in Buffers, SlotsFit(b), NEW p \in Playouts, p.staging \in 0 .. FRAME,
           NEW y \in ticks(b, p)
    PROVE  /\ y.jb \in Buffers /\ SlotsFit(y.jb)
           /\ y.pc \in Playouts /\ y.pc.staging \in 0 .. FRAME
           /\ y.jb.started => b.started
           /\ \A s \in Seqs : y.jb.started /\ Playing(b, p, s) =>
                 /\ Playing(y.jb, y.pc, s)
                 /\ at(y.jb, s) <= at(b, s)
                 /\ calm > 0 /\ Near(b, s) =>
                       \/ total(y.jb, y.pc, s) <= total(b, p, s) - 1
                       \/ total(y.jb, y.pc, s) <= MaxTarget + 3
<1>1. PICK q : q = pre_pop(p, b)
  OBVIOUS
<1>2. /\ q \in Playouts
      /\ q.staging = p.staging /\ q.pending = p.pending /\ q.insert = p.insert
      /\ q.target = p.target
      /\ q.misses = p.misses \/ (q.misses = 0 /\ b.started /\ depth(b) >= p.target)
      /\ ~q.primed /\ b.started => ~(depth(b) >= p.target)
  BY <1>1, PrePop
<1>3. PICK x : x = [jb |-> b, pc |-> q, outcome |-> "none"]
  OBVIOUS
<1>4. x \in Hands /\ x.jb = b /\ x.pc = q /\ x.outcome = "none"
  BY <1>2, <1>3 DEF Hands
<1>5. FRAME \in Nat /\ 2 <= FRAME /\ MaxTarget \in Nat /\ p.target \in Nat
      /\ p.target <= MaxTarget /\ p.misses \in Nat
  BY DEF Playouts
<1>6. ASSUME NEW s \in Seqs, b.started, Playing(b, p, s)
      PROVE  Playing(x.jb, x.pc, s)
  <2>1. PICK n \in Int : n = at(b, b.newest)
    BY BufferType, Reached DEF at
  <2>2. depth(b) = n + 1
    BY <1>6, <2>1, DepthType
  <2>3. PICK m \in Nat : m = q.misses
    BY <1>2 DEF Playouts
  <2>4. -(m + 2) <= n /\ (q.pending = "DropOne" => -(m + 1) <= n) /\ Tracks(b, s)
    <3>1. CASE q.misses = p.misses
      BY <1>2, <1>6, <2>1, <2>3, <3>1 DEF Playing
    <3>2. CASE q.misses = 0 /\ depth(b) >= p.target
      <4>1. m = 0 /\ -1 <= n
        BY <1>5, <2>1, <2>2, <2>3, <3>2
      <4> QED
        BY <1>6, <2>1, <4>1 DEF Playing
    <3> QED
      BY <1>2, <3>1, <3>2
  <2> QED
    BY <1>4, <2>1, <2>3, <2>4 DEF Playing
<1>7. \A s : debt(x.jb, x.pc, s) = debt(b, p, s)
  BY <1>2, <1>4 DEF debt
<1>8. CASE ~q.primed
  <2>1. y = x
    BY <1>1, <1>3, <1>4, <1>8 DEF ticks
  <2>2. ASSUME NEW s \in Seqs, b.started, Near(b, s)
        PROVE  total(y.jb, y.pc, s) <= MaxTarget + 3
    <3>1. PICK n \in Int, l \in Int : n = at(b, b.newest) /\ l = at(b, s)
      BY BufferType, Reached DEF at
    <3>2. depth(b) = n + 1
      BY <2>2, <3>1, DepthType
    <3>3. n + 1 < p.target
      BY <1>2, <1>5, <1>8, <2>2, <3>1, <3>2
    <3>4. l <= MaxTarget
      BY <1>5, <2>2, <3>1, <3>3 DEF Near
    <3>5. PICK i \in {0, 1}, j \in {0, 1}, k \in {0, 1} :
             /\ i = one(y.pc.pending = "InsertOne") /\ j = one(y.pc.insert)
             /\ k = one(y.pc.staging = FRAME)
      BY DEF one
    <3>6. total(y.jb, y.pc, s) = l + i + j + k
      BY <1>4, <2>1, <3>1, <3>5 DEF total, debt
    <3> QED
      BY <1>5, <3>1, <3>4, <3>5, <3>6
  <2>3. at(b, b.next) \in Int /\ \A s \in Seqs : at(b, s) <= at(b, s)
    BY DebtType, BufferType
  <2> QED
    BY <1>2, <1>4, <1>6, <2>1, <2>2, <2>3
<1>9. CASE q.primed
  <2>1. PICK z \in IF drift THEN filled(x) ELSE pulls(x) : y = z \/ y = apply_step_adjustment(z)
    BY <1>1, <1>3, <1>4, <1>9 DEF ticks
  <2>2. /\ z \in Hands /\ SlotsFit(z.jb) /\ z.pc.staging \in 0 .. FRAME
        /\ z.jb.started => b.started
        /\ IF drift /\ p.staging = FRAME
           THEN z.pc.staging = 0 /\ \A s \in Seqs : Goes(x, z, s, 0)
           ELSE /\ calm > 0 => z.pc.staging = p.staging \/ z.pc.staging < FRAME
                /\ \A s \in Seqs : Goes(x, z, s, 1)
    <3>1. CASE drift
      <4>1. z \in filled(x) /\ SlotsFit(x.jb) /\ x.pc.staging = p.staging
        BY <1>2, <1>4, <2>1, <3>1
      <4>2. /\ z \in Hands /\ SlotsFit(z.jb) /\ z.pc.staging \in 0 .. FRAME
            /\ IF p.staging = FRAME
               THEN z.pc.staging = 0 /\ \A s \in Seqs : Goes(x, z, s, 0)
               ELSE /\ calm > 0 => z.pc.staging < FRAME
                    /\ \A s \in Seqs : Goes(x, z, s, 1)
        BY <1>4, <4>1, Filled
      <4>3. \E k : Goes(x, z, 0, k)
        <5>1. 0 \in Seqs
          BY SeqSpaceType DEF Seqs
        <5> QED
          BY <4>2, <5>1
      <4>4. z.jb.started => b.started
        BY <1>4, <4>3 DEF Goes
      <4> QED
        BY <3>1, <4>2, <4>4
    <3>2. CASE ~drift
      <4>1. z \in pulls(x) /\ SlotsFit(x.jb) /\ x.pc.staging = p.staging
        BY <1>2, <1>4, <2>1, <3>2
      <4>2. /\ z \in Hands /\ SlotsFit(z.jb) /\ z.pc.staging = p.staging
            /\ \A s \in Seqs : Goes(x, z, s, 1)
        BY <1>4, <4>1, PullGoes
      <4>3. 0 \in Seqs
        BY SeqSpaceType DEF Seqs
      <4>4. z.jb.started => b.started
        BY <1>4, <4>2, <4>3 DEF Goes
      <4> QED
        BY <3>2, <4>2, <4>4
    <3> QED
      BY <3>1, <3>2
  <2>3. /\ z.jb \in Buffers /\ z.pc \in Playouts /\ z = [jb |-> z.jb, pc |-> z.pc, outcome |-> z.outcome]
        /\ DOMAIN z = {"jb", "pc", "outcome"}
    BY <2>2 DEF Hands
  <2>4. /\ y.jb \in Buffers /\ SlotsFit(y.jb) /\ y.pc \in Playouts
        /\ y.pc.staging = z.pc.staging /\ y.jb.started = z.jb.started
    <3>1. CASE y = z
      BY <2>2, <2>3, <3>1
    <3>2. CASE y = apply_step_adjustment(z)
      BY <2>2, <2>3, <3>2, AdjustKeeps
    <3> QED
      BY <2>1, <3>1, <3>2
  <2>5. ASSUME NEW s \in Seqs, y.jb.started, Playing(b, p, s)
        PROVE  /\ Playing(y.jb, y.pc, s)
               /\ at(y.jb, s) <= at(b, s)
               /\ calm > 0 /\ Near(b, s) =>
                     \/ total(y.jb, y.pc, s) <= total(b, p, s) - 1
                     \/ total(y.jb, y.pc, s) <= MaxTarget + 3
    <3>1. PICK d \in Int, l \in Int : d = debt(b, p, s) /\ l = at(b, s)
      BY DebtType
    <3>2. PICK e \in Int, m \in Int : e = debt(z.jb, z.pc, s) /\ m = at(z.jb, s)
      BY <2>3, DebtType
    <3>3. PICK f \in Int, n \in Int : f = debt(y.jb, y.pc, s) /\ n = at(y.jb, s)
      BY <2>4, DebtType
    <3>4. z.jb.started /\ b.started /\ Playing(x.jb, x.pc, s)
      BY <1>6, <2>2, <2>4, <2>5
    <3>5. /\ Playing(y.jb, y.pc, s) /\ n <= m /\ f <= e
          \/ ~Playing(z.jb, z.pc, s)
      <4>1. CASE y = z
        <5>1. f = e /\ n = m
          BY <3>2, <3>3, <4>1
        <5>2. f <= e /\ n <= m
          BY <3>2, <5>1
        <5> QED
          BY <4>1, <5>2
      <4>2. CASE y = apply_step_adjustment(z)
        BY <2>2, <2>3, <3>2, <3>3, <3>4, <4>2, AdjustPlays
      <4> QED
        BY <2>1, <4>1, <4>2
    <3>6. PICK k \in {0, 1} : /\ Goes(x, z, s, k)
                              /\ k = 0 => drift /\ p.staging = FRAME /\ z.pc.staging = 0
                              /\ k = 1 /\ calm > 0 => z.pc.staging = p.staging \/ z.pc.staging < FRAME
      BY <2>2
    <3>7. /\ Playing(z.jb, z.pc, s) /\ m <= l
          /\ Near(b, s) => e <= d - k \/ e <= MaxTarget + 2
      BY <1>4, <1>7, <3>1, <3>2, <3>4, <3>6, Zenon DEF Goes
    <3>8. ASSUME calm > 0, Near(b, s)
          PROVE  \/ total(y.jb, y.pc, s) <= total(b, p, s) - 1
                 \/ total(y.jb, y.pc, s) <= MaxTarget + 3
      <4>1. PICK i \in {0, 1}, j \in {0, 1} :
               i = one(p.staging = FRAME) /\ j = one(z.pc.staging = FRAME)
        BY DEF one
      <4>2. total(b, p, s) = d + i /\ total(y.jb, y.pc, s) = f + j
        BY <2>4, <3>1, <3>3, <4>1 DEF total
      <4>3. (k = 0 => i = 1 /\ j = 0) /\ (k = 1 => j <= i)
        <5>1. k = 0 => i = 1 /\ j = 0
          BY <1>5, <3>6, <4>1 DEF one
        <5>2. z.pc.staging < FRAME => z.pc.staging # FRAME
          BY <1>5, <2>2
        <5>3. k = 1 => i = j \/ j = 0
          BY <3>6, <3>8, <4>1, <5>2 DEF one
        <5> QED
          BY <4>1, <5>1, <5>3
      <4>4. f <= e /\ (e <= d - k \/ e <= MaxTarget + 2)
        BY <3>5, <3>7, <3>8
      <4>5. f + j <= d + i - 1 \/ f + j <= MaxTarget + 3
        BY <1>5, <3>1, <3>2, <3>3, <3>6, <4>1, <4>3, <4>4
      <4> QED
        BY <4>2, <4>5
    <3>9. n <= l
      BY <3>1, <3>2, <3>3, <3>5, <3>7
    <3> QED
      BY <3>1, <3>3, <3>5, <3>7, <3>8, <3>9
  <2> QED
    BY <2>2, <2>4, <2>5
<1> QED
  BY <1>8, <1>9

\* The callback on buffer b, which may have taken a packet just before.
LEMMA Called ==
    ASSUME NEW b \in Buffers, SlotsFit(b), pc \in Playouts, pc.staging \in 0 .. FRAME,
           NEW y \in ticks(b, callback_pc)
    PROVE  /\ y.jb \in Buffers /\ SlotsFit(y.jb)
           /\ y.pc \in Playouts /\ y.pc.staging \in 0 .. FRAME
           /\ y.jb.started => b.started
           /\ \A s \in Seqs :
                 y.jb.started /\ Playing(b, pc, s) /\ (~last_active => 0 <= at(b, b.newest)) =>
                    /\ Playing(y.jb, y.pc, s)
                    /\ at(y.jb, s) <= at(b, s)
                    /\ calm > 0 /\ Near(b, s) =>
                          \/ total(y.jb, y.pc, s) <= total(b, pc, s) - 1
                          \/ total(y.jb, y.pc, s) <= MaxTarget + 3
<1>1. PICK p : p = callback_pc
  OBVIOUS
<1>2. p = pc \/ (p = reset_stream(pc) /\ ~last_active)
  BY <1>1 DEF callback_pc
<1>3. FRAME \in Nat /\ 2 <= FRAME /\ MaxTarget \in Nat
  OBVIOUS
<1>4. LET q == reset_stream(pc)
      IN  /\ q \in Playouts /\ q.misses = 0 /\ q.pending = "None" /\ q.insert = FALSE
          /\ q.staging = 0
  BY ResetStream
<1>5. p \in Playouts /\ p.staging \in 0 .. FRAME
  <2>1. 0 \in 0 .. FRAME
    BY <1>3
  <2> QED
    BY <1>2, <1>4, <2>1
<1>6. /\ y.jb \in Buffers /\ SlotsFit(y.jb)
      /\ y.pc \in Playouts /\ y.pc.staging \in 0 .. FRAME
      /\ y.jb.started => b.started
      /\ \A s \in Seqs : y.jb.started /\ Playing(b, p, s) =>
            /\ Playing(y.jb, y.pc, s)
            /\ at(y.jb, s) <= at(b, s)
            /\ calm > 0 /\ Near(b, s) =>
                  \/ total(y.jb, y.pc, s) <= total(b, p, s) - 1
                  \/ total(y.jb, y.pc, s) <= MaxTarget + 3
  BY <1>1, <1>5, Ticks
<1>7. ASSUME NEW s \in Seqs, Playing(b, pc, s), ~last_active => 0 <= at(b, b.newest)
      PROVE  Playing(b, p, s) /\ total(b, p, s) <= total(b, pc, s)
  <2>1. PICK l \in Int, n \in Int : l = at(b, s) /\ n = at(b, b.newest)
    BY BufferType, Reached DEF at
  <2>2. PICK i \in {0, 1}, j \in {0, 1}, k \in {0, 1} :
           /\ i = one(pc.pending = "InsertOne") /\ j = one(pc.insert)
           /\ k = one(pc.staging = FRAME)
    BY DEF one
  <2>3. total(b, pc, s) = l + i + j + k
    BY <2>1, <2>2 DEF total, debt
  <2>4. CASE p = pc
    BY <1>7, <2>1, <2>2, <2>3, <2>4
  <2>5. CASE p = reset_stream(pc) /\ ~last_active
    <3>1. p.misses = 0 /\ p.pending = "None" /\ p.insert = FALSE /\ p.staging = 0
      BY <1>4, <2>5
    <3>2. /\ one(p.pending = "InsertOne") = 0 /\ one(p.insert) = 0
          /\ one(p.staging = FRAME) = 0
      BY <1>3, <3>1 DEF one
    <3>3. total(b, p, s) = l + 0 + 0 + 0
      BY <2>1, <3>2 DEF total, debt
    <3>4. 0 <= n /\ Tracks(b, s)
      BY <1>7, <2>1, <2>5 DEF Playing
    <3>5. Playing(b, p, s)
      BY <2>1, <3>1, <3>4 DEF Playing
    <3> QED
      BY <2>1, <2>2, <2>3, <3>3, <3>5
  <2> QED
    BY <1>2, <2>4, <2>5
<1>8. ASSUME NEW s \in Seqs, y.jb.started, Playing(b, pc, s),
             ~last_active => 0 <= at(b, b.newest)
      PROVE  /\ Playing(y.jb, y.pc, s)
             /\ at(y.jb, s) <= at(b, s)
             /\ calm > 0 /\ Near(b, s) =>
                   \/ total(y.jb, y.pc, s) <= total(b, pc, s) - 1
                   \/ total(y.jb, y.pc, s) <= MaxTarget + 3
  <2>1. Playing(b, p, s) /\ total(b, p, s) <= total(b, pc, s)
    BY <1>7, <1>8
  <2>2. \A f, g : debt(f, g, s) \in Int => total(f, g, s) \in Int
    BY DEF total, one
  <2>3. PICK t \in Int, u \in Int, v \in Int :
           /\ t = total(b, p, s) /\ u = total(b, pc, s) /\ v = total(y.jb, y.pc, s)
    BY <1>6, <2>2, DebtType
  <2>4. /\ Playing(y.jb, y.pc, s)
        /\ at(y.jb, s) <= at(b, s)
        /\ calm > 0 /\ Near(b, s) => v <= t - 1 \/ v <= MaxTarget + 3
    BY <1>6, <1>8, <2>1, <2>3
  <2>5. t <= u
    BY <2>1, <2>3
  <2>6. v <= t - 1 => v <= u - 1
    BY <2>3, <2>5
  <2> QED
    BY <2>3, <2>4, <2>6
<1> QED
  BY <1>6, <1>8

\* The sender's next number.
LEMMA NextSeq ==
    ASSUME NEW s \in Seqs
    PROVE  wrapping_add(s, 1) \in Seqs
<1>1. wrapping_add(s, 1) = Wire(s + 1) /\ s + 1 \in Int
  BY SeqSpaceType DEF wrapping_add, Wire, Seqs
<1> QED
  BY <1>1, SeqTypes

\* The bound of the lead.
Most == MaxAhead + MaxTarget + Window + 4

\* What is between the newest packet and the sender's next.
LEMMA Bounds ==
    ASSUME NEW b \in Buffers, NEW p \in Playouts, NEW s \in Seqs, Playing(b, p, s),
           at(b, s) <= Most
    PROVE  /\ at(b, s) \in Int /\ at(b, b.newest) \in Int
           /\ at(b, b.newest) < at(b, s)
           /\ at(b, s) + 2 < Half
           /\ at(b, s) - at(b, b.newest) + 2 < Half
           /\ \A d \in 0 .. Window : d < Half /\ -Half < at(b, s) - d
           /\ 1 < Half
<1>1. PICK l \in Int, n \in Int : l = at(b, s) /\ n = at(b, b.newest)
  BY BufferType, Reached DEF at
<1>2. PICK m \in Nat : m = p.misses /\ m + 1 <= ResetAfterMisses
  BY DEF Playouts
<1>3. n < l /\ -(m + 2) <= n
  BY <1>1, <1>2 DEF Playing, Tracks
<1>4. /\ MaxAhead \in Nat /\ MaxTarget \in Nat /\ ResetAfterMisses \in Nat /\ Window \in Nat
      /\ Half \in Nat /\ MaxAhead + MaxTarget + ResetAfterMisses + Window + 8 < Half
      /\ l <= MaxAhead + MaxTarget + Window + 4
  BY <1>1, RoomAssumption, SeqSpaceType DEF Most
<1>5. l + 2 < Half /\ l - n + 2 < Half /\ 1 < Half
  BY <1>1, <1>2, <1>3, <1>4
<1>6. ASSUME NEW d \in 0 .. Window PROVE d < Half /\ -Half < l - d
  <2>1. d \in Nat /\ d <= Window
    BY <1>4
  <2> QED
    BY <1>1, <1>2, <1>3, <1>4, <2>1
<1> QED
  BY <1>1, <1>3, <1>5, <1>6

\* The sender's next packet arrives.
LEMMA NextArrives ==
    ASSUME NEW b \in Buffers, SlotsFit(b), NEW p \in Playouts, NEW s \in Seqs,
           b.started => Playing(b, p, s) /\ at(b, s) <= Most
    PROVE  LET c == push(b, s)
               u == wrapping_add(s, 1)
           IN  /\ c \in Buffers /\ SlotsFit(c) /\ c.started /\ u \in Seqs
               /\ Playing(c, p, u) /\ Near(c, u)
               /\ at(c, u) = IF b.started THEN at(b, s) + 1 ELSE 1
               /\ IF b.started THEN at(b, b.newest) <= at(c, c.newest) ELSE at(c, c.newest) = 0
<1>1. PICK c \in Buffers, u \in Seqs : c = push(b, s) /\ u = wrapping_add(s, 1)
  BY PushFits, NextSeq
<1>2. SlotsFit(c) /\ c.started
  BY <1>1, PushFits
<1>3. PICK m \in Nat : m = p.misses
  BY DEF Playouts
<1>4. MaxTarget \in Nat /\ 1 < Half
  BY RoomAssumption
<1>5. CASE b.started
  <2>1. PICK l \in Int, n \in Int : l = at(b, s) /\ n = at(b, b.newest)
    BY BufferType, Reached DEF at
  <2>2. n < l /\ l + 2 < Half /\ l - n + 2 < Half
    BY <1>5, <2>1, Bounds
  <2>3. Tracks(b, s) /\ at(b, s) + 1 < Half /\ at(b, s) - at(b, b.newest) < Half
    BY <1>5, <2>1, <2>2 DEF Playing
  <2>4. /\ Tracks(c, u) /\ at(c, u) = at(b, s) + 1
        /\ at(b, b.newest) <= at(c, c.newest)
        /\ 0 <= at(b, s) => at(c, c.newest) = at(b, s)
    BY <1>1, <1>5, <2>3, PushNext
  <2>5. PICK k \in Int : k = at(c, c.newest)
    BY BufferType, Reached DEF at
  <2>6. n <= k /\ (0 <= l => k = l) /\ at(c, u) = l + 1
    BY <2>1, <2>4, <2>5
  <2>7. Near(c, u)
    BY <1>4, <2>1, <2>5, <2>6 DEF Near
  <2>8. Playing(c, p, u)
    <3>1. -(m + 2) <= n /\ (p.pending = "DropOne" => -(m + 1) <= n)
      BY <1>3, <1>5, <2>1 DEF Playing
    <3>2. -(m + 2) <= k /\ (p.pending = "DropOne" => -(m + 1) <= k)
      BY <1>3, <2>1, <2>5, <2>6, <3>1
    <3> QED
      BY <1>3, <2>4, <2>5, <3>2 DEF Playing
  <2> QED
    BY <1>1, <1>2, <1>5, <2>4, <2>7, <2>8
<1>6. CASE ~b.started
  <2>1. Tracks(c, u) /\ at(c, c.newest) = 0 /\ at(c, u) = 1
    BY <1>1, <1>4, <1>6, PushFirst
  <2>2. Near(c, u)
    BY <2>1 DEF Near
  <2>3. Playing(c, p, u)
    BY <1>3, <2>1 DEF Playing
  <2> QED
    BY <1>1, <1>2, <1>6, <2>1, <2>2, <2>3
<1> QED
  BY <1>5, <1>6, BufferType

-----------------------------------------------------------------------------
(* The invariant.                                                          *)

\* A stream that is not active takes nothing of its own sender.
RestInv ==
    /\ calm > 0 => active
    /\ jb.started /\ ~active => foreign

\* What the buffer holds is its sender's: the newest packet is no further behind
\* the read position than the misses in a row and one drop, and not behind it when
\* the callback is about to start afresh.
OwnInv ==
    jb.started /\ ~foreign =>
        /\ Playing(jb, pc, sseq)
        /\ ~last_active => 0 <= at(jb, jb.newest)

\* The sender gets ahead by its bound; from calm on each of its packets is made up
\* for by a tick.
AheadInv ==
    jb.started /\ ~foreign =>
        IF calm = 0 THEN at(jb, sseq) <= MaxAhead + Window + 1 ELSE total(jb, pc, sseq) <= Most

IInv == TypeOK /\ SlotsFit(jb) /\ RestInv /\ OwnInv /\ AheadInv

LEMMA ControlType ==
    \A p : p \in Controls <=> p \in Playouts /\ p.staging \in 0 .. FRAME
  BY DEF Controls, Playouts, Pendings

\* What the invariant says of the sender's lead.
LEMMA LeadBound ==
    ASSUME TypeOK, OwnInv, AheadInv, jb.started, ~foreign
    PROVE  Playing(jb, pc, sseq) /\ at(jb, sseq) <= Most
<1>1. Playing(jb, pc, sseq)
  BY DEF OwnInv
<1>2. jb \in Buffers /\ sseq \in Seqs
  BY DEF TypeOK
<1>3. PICK l \in Int, d \in Int : l = at(jb, sseq) /\ d = debt(jb, pc, sseq) /\ l <= d
  BY <1>2, DebtType
<1>4. MaxAhead \in Nat /\ Window \in Nat /\ MaxTarget \in Nat
  OBVIOUS
<1>5. CASE calm = 0
  BY <1>1, <1>3, <1>4, <1>5 DEF AheadInv, Most
<1>6. CASE calm # 0
  <2>1. PICK k \in {0, 1} : k = one(pc.staging = FRAME)
    BY DEF one
  <2>2. d + k <= Most
    BY <1>3, <1>6, <2>1 DEF AheadInv, total
  <2> QED
    BY <1>1, <1>3, <1>4, <2>1, <2>2 DEF Most
<1> QED
  BY <1>5, <1>6

LEMMA InitInvariant == Init => IInv
<1> SUFFICES ASSUME Init PROVE IInv
  OBVIOUS
<1>1. new_playout \in Controls
  <2>1. 0 \in 0 .. ResetAfterMisses - 1 /\ 0 \in 0 .. FRAME /\ MinTarget \in MinTarget .. MaxTarget
    OBVIOUS
  <2> QED
    BY <2>1 DEF new_playout, Controls
<1>2. /\ MaxJoins \in 0 .. MaxJoins /\ MaxStrays \in 0 .. MaxStrays /\ 0 \in 0 .. CalmTicks
      /\ 0 \in 0 .. Window
  BY DEF CalmTicks
<1>3. jb \in Buffers /\ SlotsFit(jb) /\ ~jb.started
  BY NewBuffer DEF Init
<1>4. TypeOK
  BY <1>1, <1>2, <1>3 DEF Init, TypeOK
<1> QED
  BY <1>3, <1>4 DEF Init, IInv, RestInv, OwnInv, AheadInv

-----------------------------------------------------------------------------
(* The steps.                                                              *)

\* The invariant of the next state.
LEMMA NextLead ==
    /\ OwnInv' <=> (jb'.started /\ ~foreign' =>
                      /\ Playing(jb', pc', sseq')
                      /\ ~last_active' => 0 <= at(jb', jb'.newest))
    /\ AheadInv' <=> (jb'.started /\ ~foreign' =>
                        IF calm' = 0 THEN at(jb', sseq') <= MaxAhead + Window + 1
                        ELSE total(jb', pc', sseq') <= Most)
    /\ SlotsFit(jb)' <=> SlotsFit(jb')
<1>1. OwnInv' <=> (jb'.started /\ ~foreign' =>
                      /\ Playing(jb', pc', sseq')
                      /\ ~last_active' => 0 <= at(jb', jb'.newest))
  BY DEF OwnInv, Playing, Tracks, at
<1>2. AheadInv' <=> (jb'.started /\ ~foreign' =>
                        IF calm' = 0 THEN at(jb', sseq') <= MaxAhead + Window + 1
                        ELSE total(jb', pc', sseq') <= Most)
  BY DEF AheadInv, at, total, debt
<1>3. SlotsFit(jb)' <=> SlotsFit(jb')
  BY DEF SlotsFit
<1> QED
  BY <1>1, <1>2, <1>3

\* A tick of the callback.
LEMMA TickInvariant ==
    ASSUME IInv, Tick
    PROVE  IInv'
<1>1. /\ jb \in Buffers /\ SlotsFit(jb) /\ sseq \in Seqs /\ active \in BOOLEAN
      /\ foreign \in BOOLEAN /\ pc \in Playouts /\ pc.staging \in 0 .. FRAME
  BY ControlType DEF IInv, TypeOK
<1>2. /\ calm = 0 /\ calm' = 0 /\ last_active' = active /\ active' = active /\ sseq' = sseq
      /\ foreign' = (foreign /\ jb'.started)
      /\ IF active THEN \E y \in ticks(jb, callback_pc) : jb' = y.jb /\ pc' = y.pc
         ELSE jb' = jb /\ pc' = pc
  BY DEF Tick, Callback
<1>3. CASE ~active
  <2>1. TypeOK' /\ SlotsFit(jb)'
    <3>1. foreign' \in BOOLEAN
      BY <1>1, <1>2, <1>3 DEF Buffers
    <3> QED
      BY <1>1, <1>2, <1>3, <3>1 DEF IInv, TypeOK, Tick
  <2>2. jb'.started => foreign'
    BY <1>1, <1>2, <1>3 DEF IInv, RestInv
  <2> QED
    BY <1>2, <1>3, <2>1, <2>2 DEF IInv, RestInv, OwnInv, AheadInv
<1>4. CASE active
  <2>1. PICK y \in ticks(jb, callback_pc) : jb' = y.jb /\ pc' = y.pc
    BY <1>2, <1>4
  <2>2. /\ y.jb \in Buffers /\ SlotsFit(y.jb)
        /\ y.pc \in Playouts /\ y.pc.staging \in 0 .. FRAME
        /\ y.jb.started => jb.started
        /\ y.jb.started /\ Playing(jb, pc, sseq) /\ (~last_active => 0 <= at(jb, jb.newest)) =>
              /\ Playing(y.jb, y.pc, sseq)
              /\ at(y.jb, sseq) <= at(jb, sseq)
    BY <1>1, Called
  <2>3. TypeOK'
    <3>1. foreign' \in BOOLEAN
      BY <1>1, <1>2, <2>1, <2>2 DEF Buffers
    <3>2. y.pc \in Controls
      BY <2>2, ControlType
    <3> QED
      BY <1>2, <2>1, <2>2, <3>1, <3>2 DEF IInv, TypeOK, Tick
  <2>4. SlotsFit(jb)'
    BY <2>1, <2>2, NextLead
  <2>5. ASSUME jb'.started, ~foreign'
        PROVE  /\ Playing(jb', pc', sseq') /\ at(jb', sseq') <= MaxAhead + Window + 1
    <3>1. jb.started /\ ~foreign
      BY <1>2, <2>1, <2>2, <2>5
    <3>2. /\ Playing(jb, pc, sseq) /\ (~last_active => 0 <= at(jb, jb.newest))
          /\ at(jb, sseq) <= MaxAhead + Window + 1
      BY <1>2, <3>1 DEF IInv, OwnInv, AheadInv
    <3>3. Playing(y.jb, y.pc, sseq) /\ at(y.jb, sseq) <= at(jb, sseq)
      BY <2>1, <2>2, <2>5, <3>2
    <3>4. PICK l \in Int, k \in Int : l = at(jb, sseq) /\ k = at(y.jb, sseq)
      BY <1>1, <2>2, DebtType
    <3>5. k <= MaxAhead + Window + 1
      BY <3>2, <3>3, <3>4
    <3> QED
      BY <1>2, <2>1, <3>3, <3>4, <3>5
  <2>6. last_active' /\ active' /\ calm' = 0
    BY <1>2, <1>4
  <2>7. RestInv' /\ OwnInv' /\ AheadInv'
    BY <2>5, <2>6, NextLead DEF RestInv
  <2> QED
    BY <2>3, <2>4, <2>7 DEF IInv
<1> QED
  BY <1>3, <1>4

\* What the invariant gives each step.
LEMMA Types ==
    ASSUME IInv
    PROVE  /\ jb \in Buffers /\ SlotsFit(jb) /\ sseq \in Seqs
           /\ active \in BOOLEAN /\ last_active \in BOOLEAN /\ foreign \in BOOLEAN
           /\ pc \in Controls /\ pc \in Playouts /\ pc.staging \in 0 .. FRAME
           /\ jb.started \in BOOLEAN
           /\ jb.started /\ ~foreign =>
                 /\ Playing(jb, pc, sseq) /\ at(jb, sseq) <= Most
                 /\ ~last_active => 0 <= at(jb, jb.newest)
  BY ControlType, LeadBound, BufferType DEF IInv, TypeOK, OwnInv

\* What numbering a packet leaves.
LEMMA NumberedType ==
    ASSUME IInv, Numbered
    PROVE  sseq' = wrapping_add(sseq, 1) /\ sseq' \in Seqs /\ sent' \in 0 .. Window
<1>1. Window \in Nat /\ sent \in 0 .. Window
  BY DEF IInv, TypeOK
<1>2. sent' \in 0 .. Window
  BY <1>1 DEF Numbered
<1> QED
  BY <1>2, Types, NextSeq DEF Numbered

LEMMA ArriveInvariant ==
    ASSUME IInv, Arrive
    PROVE  IInv'
<1>1. /\ calm = 0 /\ calm' = 0 /\ active /\ active' = active /\ pc' = pc
      /\ last_active' = last_active /\ foreign' = foreign
      /\ jb.started => at(jb, sseq) < MaxAhead
      /\ jb' = push(jb, sseq) /\ sseq' = wrapping_add(sseq, 1) /\ sent' \in 0 .. Window
  BY NumberedType DEF Arrive, Within, at
<1>2. PICK b \in Buffers, s \in Seqs, p \in Playouts : b = jb /\ s = sseq /\ p = pc
  BY Types
<1>3. jb' \in Buffers /\ SlotsFit(jb') /\ sseq' \in Seqs
  BY <1>1, <1>2, Types, PushFits, NextSeq
<1>4. TypeOK'
  BY <1>1, <1>3, Types DEF IInv, TypeOK, Arrive
<1>5. ASSUME ~foreign
      PROVE  /\ Playing(jb', pc', sseq') /\ at(jb', sseq') <= MaxAhead + Window + 1
             /\ ~last_active => 0 <= at(jb', jb'.newest)
  <2>1. SlotsFit(b) /\ (b.started => Playing(b, p, s) /\ at(b, s) <= Most)
    BY <1>2, <1>5, Types
  <2>2. LET c == push(b, s)
            u == wrapping_add(s, 1)
        IN  /\ Playing(c, p, u)
            /\ at(c, u) = IF b.started THEN at(b, s) + 1 ELSE 1
            /\ IF b.started THEN at(b, b.newest) <= at(c, c.newest) ELSE at(c, c.newest) = 0
    BY <2>1, NextArrives
  <2>3. PICK l \in Int, n \in Int, k \in Int :
           l = at(b, s) /\ n = at(b, b.newest) /\ k = at(jb', jb'.newest)
    BY <1>3, BufferType, Reached DEF at
  <2>4. MaxAhead \in Nat /\ Window \in Nat
    OBVIOUS
  <2>5. CASE b.started
    <3>1. l < MaxAhead /\ at(jb', sseq') = l + 1 /\ n <= k
      BY <1>1, <1>2, <2>2, <2>3, <2>5
    <3>2. ~last_active => 0 <= n
      BY <1>2, <1>5, <2>3, <2>5, Types
    <3> QED
      BY <1>1, <1>2, <2>2, <2>3, <2>4, <3>1, <3>2
  <2>6. CASE ~b.started
    <3>1. at(jb', sseq') = 1 /\ k = 0
      BY <1>1, <1>2, <2>2, <2>3, <2>6
    <3> QED
      BY <1>1, <1>2, <2>2, <2>3, <2>4, <3>1
  <2> QED
    BY <2>5, <2>6
<1>6. OwnInv' /\ AheadInv' /\ SlotsFit(jb)'
  BY <1>1, <1>3, <1>5, NextLead
<1> QED
  BY <1>1, <1>4, <1>6 DEF IInv, RestInv

LEMMA LoseInvariant ==
    ASSUME IInv, Lose
    PROVE  IInv'
<1>1. /\ calm = 0 /\ calm' = 0 /\ active /\ active' = active /\ pc' = pc /\ jb' = jb
      /\ last_active' = last_active /\ foreign' = foreign
      /\ jb.started => at(jb, sseq) < MaxAhead - 1
      /\ sseq' = wrapping_add(sseq, 1) /\ sent' \in 0 .. Window
  BY NumberedType DEF Lose, Within, at
<1>2. PICK b \in Buffers, s \in Seqs, p \in Playouts : b = jb /\ s = sseq /\ p = pc
  BY Types
<1>3. sseq' \in Seqs
  BY <1>1, <1>2, NextSeq
<1>4. TypeOK'
  BY <1>1, <1>3, Types DEF IInv, TypeOK, Lose
<1>5. ASSUME jb.started, ~foreign
      PROVE  Playing(jb', pc', sseq') /\ at(jb', sseq') <= MaxAhead + Window + 1
  <2>1. Playing(b, p, s) /\ at(b, s) <= Most
    BY <1>2, <1>5, Types
  <2>2. PICK l \in Int, n \in Int : l = at(b, s) /\ n = at(b, b.newest)
    BY BufferType, Reached DEF at
  <2>3. l + 2 < Half /\ n < l
    BY <2>1, <2>2, Bounds
  <2>4. diff(s, b.next) + 1 < Half /\ b.next \in Seqs
    BY <2>2, <2>3, BufferType DEF at
  <2>5. at(jb', sseq') = l + 1
    BY <1>1, <1>2, <2>2, <2>4, OneFurther DEF at
  <2>6. at(b, b.newest) < at(jb', sseq') /\ at(jb', sseq') <= MaxAhead + Window + 1
    <3>1. l < MaxAhead - 1 /\ MaxAhead \in Nat /\ Window \in Nat
      BY <1>1, <1>2, <1>5, <2>2
    <3> QED
      BY <2>2, <2>3, <2>5, <3>1
  <2>7. Playing(jb', pc', sseq')
    BY <1>1, <1>2, <2>1, <2>6 DEF Playing, Tracks
  <2> QED
    BY <2>6, <2>7
<1>6. OwnInv' /\ AheadInv' /\ SlotsFit(jb)'
  BY <1>1, <1>5, Types, NextLead
<1> QED
  BY <1>1, <1>4, <1>6 DEF IInv, RestInv

LEMMA ArriveAgainInvariant ==
    ASSUME IInv, ArriveAgain
    PROVE  IInv'
<1>1. PICK d \in 1 .. sent : jb' = push(jb, wrapping_sub(sseq, d))
  BY DEF ArriveAgain
<1>2. /\ calm = 0 /\ calm' = 0 /\ active /\ active' = active /\ pc' = pc /\ sseq' = sseq
      /\ last_active' = last_active /\ foreign' = foreign
  BY DEF ArriveAgain
<1>3. PICK b \in Buffers, s \in Seqs, p \in Playouts : b = jb /\ s = sseq /\ p = pc
  BY Types
<1>4. d \in Nat \ {0} /\ d \in 0 .. Window /\ Window \in Nat
  BY DEF IInv, TypeOK
<1>5. PICK t \in Seqs : t = wrapping_sub(s, d)
  <2>1. wrapping_sub(s, d) = Wire(s - d) /\ s - d \in Int
    BY <1>4 DEF wrapping_sub, Wire, Seqs
  <2> QED
    BY <2>1, SeqTypes
<1>6. PICK c \in Buffers : c = push(b, t) /\ SlotsFit(c) /\ c = jb'
  BY <1>1, <1>3, <1>5, Types, PushFits
<1>7. TypeOK'
  BY <1>2, <1>6, Types DEF IInv, TypeOK, ArriveAgain
<1>8. ASSUME ~foreign
      PROVE  /\ Playing(jb', pc', sseq') /\ at(jb', sseq') <= MaxAhead + Window + 1
             /\ ~last_active => 0 <= at(jb', jb'.newest)
  <2>1. CASE b.started
    <3>1. b.started /\ Playing(b, p, s) /\ at(b, s) <= Most
      BY <1>3, <1>8, <2>1, Types
    <3>2. /\ d < Half /\ -Half < at(b, s) - d /\ at(b, s) - at(b, b.newest) < Half
      BY <1>4, <3>1, Bounds
    <3>3. Tracks(b, s)
      BY <3>1 DEF Playing
    <3>4. Tracks(c, s) /\ at(c, s) = at(b, s) /\ at(b, b.newest) <= at(c, c.newest)
      <4>1. LET e == push(b, wrapping_sub(s, d))
            IN  /\ Tracks(e, s) /\ at(e, s) = at(b, s)
                /\ at(b, b.newest) <= at(e, e.newest)
        BY <1>4, <3>1, <3>2, <3>3, PushOld
      <4> QED
        BY <1>5, <1>6, <4>1
    <3>5. PICK n \in Int, k \in Int : n = at(b, b.newest) /\ k = at(c, c.newest)
      BY BufferType, Reached DEF at
    <3>6. PICK m \in Nat : m = p.misses
      BY DEF Playouts
    <3>7. -(m + 2) <= n /\ (p.pending = "DropOne" => -(m + 1) <= n)
      BY <3>1, <3>5, <3>6 DEF Playing
    <3>8. -(m + 2) <= k /\ (p.pending = "DropOne" => -(m + 1) <= k)
      BY <3>4, <3>5, <3>6, <3>7
    <3>9. Playing(c, p, s)
      BY <3>4, <3>5, <3>6, <3>8 DEF Playing
    <3>10. ~last_active => 0 <= k
      <4>1. ~last_active => 0 <= n
        BY <1>2, <1>3, <1>8, <2>1, <3>5, Types
      <4> QED
        BY <3>4, <3>5, <4>1
    <3>11. at(c, s) <= MaxAhead + Window + 1
      BY <1>2, <1>3, <1>8, <2>1, <3>4 DEF IInv, AheadInv
    <3> QED
      BY <1>2, <1>3, <1>6, <3>5, <3>9, <3>10, <3>11
  <2>2. CASE ~b.started
    <3>1. Window + 1 < Half /\ MaxAhead \in Nat
      BY RoomAssumption
    <3>2. d < Half /\ SlotsFit(b)
      BY <1>3, <1>4, <3>1, Types
    <3>3. LET e == push(b, wrapping_sub(s, d))
          IN  Tracks(e, s) /\ at(e, e.newest) = 0 /\ at(e, s) = d
      BY <1>4, <2>2, <3>2, PushLateFirst
    <3>4. Tracks(c, s) /\ at(c, c.newest) = 0 /\ at(c, s) = d
      BY <1>5, <1>6, <3>3
    <3>5. PICK m \in Nat : m = p.misses
      BY DEF Playouts
    <3>6. Playing(c, p, s)
      BY <3>4, <3>5 DEF Playing
    <3>7. at(c, s) <= MaxAhead + Window + 1
      BY <1>4, <3>1, <3>4
    <3> QED
      BY <1>2, <1>3, <1>6, <3>4, <3>6, <3>7
  <2> QED
    BY <1>3, <2>1, <2>2, BufferType
<1>9. OwnInv' /\ AheadInv' /\ SlotsFit(jb)'
  BY <1>2, <1>6, <1>8, NextLead
<1> QED
  BY <1>2, <1>7, <1>9 DEF IInv, RestInv

\* The buffer takes a packet of an earlier sender, or passes it over.
LEMMA StrayInvariant ==
    ASSUME IInv, Stray
    PROVE  IInv'
<1>1. PICK t \in Seqs : jb' = push(jb, t)
  BY DEF Stray
<1>2. /\ calm = 0 /\ calm' = 0 /\ active' = active /\ pc' = pc /\ sseq' = sseq
      /\ last_active' = last_active /\ foreign' = (foreign \/ jb' # jb)
      /\ strays' = strays - 1 /\ strays > 0
  BY DEF Stray
<1>3. jb' \in Buffers /\ SlotsFit(jb')
  BY <1>1, Types, PushFits
<1>4. strays' \in 0 .. MaxStrays
  BY <1>2 DEF IInv, TypeOK
<1>5. foreign' \in BOOLEAN
  BY <1>2, Types
<1>6. TypeOK'
  BY <1>2, <1>3, <1>4, <1>5, Types DEF IInv, TypeOK, Stray
<1>7. CASE jb' = jb
  <2>1. foreign' = foreign
    BY <1>2, <1>7, Types
  <2> QED
    BY <1>2, <1>6, <1>7, <2>1, Types, NextLead DEF IInv, RestInv, OwnInv, AheadInv
<1>8. CASE jb' # jb
  <2>1. foreign'
    BY <1>2, <1>8
  <2>2. OwnInv' /\ AheadInv' /\ SlotsFit(jb)'
    BY <1>3, <2>1, NextLead
  <2>3. RestInv'
    BY <1>2, <2>1 DEF IInv, RestInv
  <2> QED
    BY <1>6, <2>2, <2>3 DEF IInv
<1> QED
  BY <1>7, <1>8

LEMMA SenderRestartInvariant ==
    ASSUME IInv, SenderRestart
    PROVE  IInv'
<1>1. /\ calm = 0 /\ calm' = 0 /\ active /\ active' = active /\ pc' = pc /\ jb' = jb
      /\ last_active' = last_active /\ foreign' = jb.started /\ sseq' = 0
      /\ joins' = joins - 1 /\ joins > 0
  BY DEF SenderRestart
<1>2. 0 \in Seqs /\ 0 \in 0 .. Window
  BY SeqSpaceType DEF Seqs
<1>3. joins' \in 0 .. MaxJoins
  BY <1>1 DEF IInv, TypeOK
<1>4. TypeOK'
  BY <1>1, <1>2, <1>3, Types DEF IInv, TypeOK, SenderRestart
<1>5. OwnInv' /\ AheadInv' /\ SlotsFit(jb)'
  BY <1>1, Types, NextLead
<1> QED
  BY <1>1, <1>4, <1>5 DEF IInv, RestInv

LEMMA JoinInvariant ==
    ASSUME IInv, Join
    PROVE  IInv'
<1>1. /\ calm = 0 /\ calm' = 0 /\ active' = TRUE /\ pc' = pc /\ jb' = reset(jb)
      /\ last_active' = last_active /\ foreign' = FALSE /\ sseq' \in {0, sseq}
      /\ sent' \in {0, sent} /\ joins' = joins - 1 /\ joins > 0
  BY DEF Join
<1>2. sseq' \in Seqs /\ sent' \in 0 .. Window
  <2>1. Window \in Nat /\ sent \in 0 .. Window
    BY DEF IInv, TypeOK
  <2> QED
    BY <1>1, <2>1, SeqSpaceType, Types DEF Seqs
<1>3. joins' \in 0 .. MaxJoins
  BY <1>1 DEF IInv, TypeOK
<1>4. jb' \in Buffers /\ SlotsFit(jb') /\ ~jb'.started
  BY <1>1, Types, ResetBuffer
<1>5. TypeOK'
  BY <1>1, <1>2, <1>3, <1>4, Types DEF IInv, TypeOK, Join
<1>6. OwnInv' /\ AheadInv' /\ SlotsFit(jb)'
  BY <1>4, NextLead
<1> QED
  BY <1>1, <1>5, <1>6 DEF IInv, RestInv

LEMMA LeaveInvariant ==
    ASSUME IInv, Leave
    PROVE  IInv'
<1>1. /\ calm = 0 /\ calm' = 0 /\ active' = FALSE /\ jb' = reset(jb) /\ foreign' = FALSE
  BY DEF Leave
<1>2. jb' \in Buffers /\ SlotsFit(jb') /\ ~jb'.started
  BY <1>1, Types, ResetBuffer
<1>3. TypeOK'
  BY <1>1, <1>2, Types DEF IInv, TypeOK, Leave
<1>4. OwnInv' /\ AheadInv' /\ SlotsFit(jb)'
  BY <1>2, NextLead
<1> QED
  BY <1>1, <1>2, <1>3, <1>4 DEF IInv, RestInv

LEMMA CalmInvariant ==
    ASSUME IInv, Calm
    PROVE  IInv'
<1>1. /\ calm = 0 /\ calm' = 1 /\ active /\ active' = active /\ pc' = pc /\ jb' = jb
      /\ last_active' = last_active /\ foreign' = foreign /\ sseq' = sseq
  BY DEF Calm
<1>2. 1 \in 0 .. CalmTicks
  <2>1. /\ ResetAfterMisses \in Nat \ {0} /\ MaxAhead \in Nat /\ Window \in Nat /\ MaxTarget \in Nat
    OBVIOUS
  <2> QED
    BY <2>1 DEF CalmTicks
<1>3. TypeOK'
  BY <1>1, <1>2, Types DEF IInv, TypeOK, Calm
<1>4. ASSUME jb.started, ~foreign
      PROVE  total(jb, pc, sseq) <= Most
  <2>1. PICK l \in Int : l = at(jb, sseq)
    BY Types, DebtType
  <2>2. l <= MaxAhead + Window + 1 /\ MaxAhead \in Nat /\ Window \in Nat /\ MaxTarget \in Nat
    BY <1>1, <1>4, <2>1 DEF IInv, AheadInv
  <2>3. PICK i \in {0, 1}, j \in {0, 1}, k \in {0, 1} :
           /\ i = one(pc.pending = "InsertOne") /\ j = one(pc.insert)
           /\ k = one(pc.staging = FRAME)
    BY DEF one
  <2>4. total(jb, pc, sseq) = l + i + j + k
    BY <2>1, <2>3 DEF total, debt
  <2> QED
    BY <2>1, <2>2, <2>3, <2>4 DEF Most
<1>5. OwnInv' /\ AheadInv' /\ SlotsFit(jb)'
  BY <1>1, <1>4, Types, NextLead
<1> QED
  BY <1>1, <1>3, <1>5 DEF IInv, RestInv

\* In calm times a packet, then a tick.
LEMMA CalmTickInvariant ==
    ASSUME IInv, CalmTick
    PROVE  IInv'
<1>1. PICK b \in Buffers, s \in Seqs, p \in Playouts :
         b = jb /\ s = sseq /\ p = pc /\ SlotsFit(b)
  BY Types
<1>2. PICK c \in Buffers, u \in Seqs :
         c = push(b, s) /\ u = wrapping_add(s, 1) /\ SlotsFit(c) /\ c.started
  BY <1>1, PushFits, NextSeq
<1>3. active
  BY DEF CalmTick, IInv, RestInv
<1>4. /\ calm > 0 /\ calm' = (IF calm < CalmTicks THEN calm + 1 ELSE calm)
      /\ last_active' = active /\ active' = active /\ sseq' = u /\ sent' \in 0 .. Window
      /\ foreign' = (foreign /\ jb'.started)
      /\ \E y \in ticks(c, callback_pc) : jb' = y.jb /\ pc' = y.pc
  BY <1>1, <1>2, <1>3, NumberedType DEF CalmTick, Callback
<1>5. PICK y \in ticks(c, callback_pc) : jb' = y.jb /\ pc' = y.pc
  BY <1>4
<1>6. pc.staging \in 0 .. FRAME /\ pc \in Playouts
  BY Types
<1>7. /\ y.jb \in Buffers /\ SlotsFit(y.jb)
      /\ y.pc \in Playouts /\ y.pc.staging \in 0 .. FRAME
      /\ y.jb.started /\ Playing(c, pc, u) /\ (~last_active => 0 <= at(c, c.newest)) =>
            /\ Playing(y.jb, y.pc, u)
            /\ at(y.jb, u) <= at(c, u)
            /\ calm > 0 /\ Near(c, u) =>
                  \/ total(y.jb, y.pc, u) <= total(c, pc, u) - 1
                  \/ total(y.jb, y.pc, u) <= MaxTarget + 3
  BY <1>2, <1>6, Called
<1>8. calm \in Nat /\ calm <= CalmTicks /\ CalmTicks \in Nat
  <2>1. /\ ResetAfterMisses \in Nat /\ MaxAhead \in Nat /\ Window \in Nat /\ MaxTarget \in Nat
    OBVIOUS
  <2>2. CalmTicks \in Nat
    BY <2>1 DEF CalmTicks
  <2> QED
    BY <2>2 DEF IInv, TypeOK
<1>9. calm' \in 0 .. CalmTicks /\ calm' # 0
  BY <1>4, <1>8
<1>10. TypeOK'
  <2>1. foreign' \in BOOLEAN
    BY <1>4, <1>5, <1>7, Types DEF Buffers
  <2>2. y.pc \in Controls
    BY <1>7, ControlType
  <2> QED
    BY <1>4, <1>5, <1>7, <1>9, <2>1, <2>2, Types DEF IInv, TypeOK, CalmTick
<1>11. ASSUME jb'.started, ~foreign'
       PROVE  Playing(jb', pc', sseq') /\ total(jb', pc', sseq') <= Most
  <2>1. ~foreign
    BY <1>4, <1>11, Types
  <2>2. b.started => /\ Playing(b, p, s) /\ at(b, s) <= Most
                     /\ ~last_active => 0 <= at(b, b.newest)
    BY <1>1, <2>1, Types
  <2>3. /\ Playing(c, p, u) /\ Near(c, u)
        /\ at(c, u) = IF b.started THEN at(b, s) + 1 ELSE 1
        /\ IF b.started THEN at(b, b.newest) <= at(c, c.newest) ELSE at(c, c.newest) = 0
    BY <1>1, <1>2, <2>2, NextArrives
  <2>4. ~last_active => 0 <= at(c, c.newest)
    <3>1. PICK n \in Int, k \in Int : n = at(b, b.newest) /\ k = at(c, c.newest)
      BY BufferType, Reached DEF at
    <3>2. CASE b.started
      <4>1. n <= k /\ (~last_active => 0 <= n)
        BY <2>2, <2>3, <3>1, <3>2
      <4> QED
        BY <3>1, <4>1
    <3>3. CASE ~b.started
      BY <2>3, <3>3
    <3> QED
      BY <3>2, <3>3
  <2>5. /\ Playing(y.jb, y.pc, u)
        /\ \/ total(y.jb, y.pc, u) <= total(c, p, u) - 1
           \/ total(y.jb, y.pc, u) <= MaxTarget + 3
    BY <1>1, <1>4, <1>5, <1>7, <1>11, <2>3, <2>4
  <2>6. PICK i \in {0, 1}, j \in {0, 1}, k \in {0, 1} :
           /\ i = one(p.pending = "InsertOne") /\ j = one(p.insert)
           /\ k = one(p.staging = FRAME)
    BY DEF one
  <2>7. PICK l \in Int : l = at(b, s)
    BY DebtType
  <2>8. MaxAhead \in Nat /\ Window \in Nat /\ MaxTarget \in Nat
    OBVIOUS
  <2>9. total(c, p, u) <= Most + 1
    <3>1. CASE b.started
      <4>1. total(c, p, u) = l + 1 + i + j + k
        BY <2>3, <2>6, <2>7, <3>1 DEF total, debt
      <4>2. l + i + j + k <= Most
        BY <1>1, <1>4, <2>1, <2>6, <2>7, <3>1 DEF IInv, AheadInv, total, debt
      <4> QED
        BY <2>6, <2>7, <2>8, <4>1, <4>2 DEF Most
    <3>2. CASE ~b.started
      <4>1. total(c, p, u) = 1 + i + j + k
        BY <2>3, <2>6, <3>2 DEF total, debt
      <4> QED
        BY <2>6, <2>8, <4>1 DEF Most
    <3> QED
      BY <3>1, <3>2
  <2>10. \A f \in Buffers : total(f, p, u) \in Int /\ total(f, y.pc, u) \in Int
    <3> SUFFICES ASSUME NEW f \in Buffers
                 PROVE  total(f, p, u) \in Int /\ total(f, y.pc, u) \in Int
      OBVIOUS
    <3>1. debt(f, p, u) \in Int /\ debt(f, y.pc, u) \in Int
      BY DebtType
    <3> QED
      BY <3>1 DEF total, one
  <2>11. PICK t \in Int, v \in Int : t = total(c, p, u) /\ v = total(y.jb, y.pc, u)
    BY <1>7, <2>10
  <2>12. v <= Most
    BY <2>5, <2>8, <2>9, <2>11 DEF Most
  <2> QED
    BY <1>4, <1>5, <2>5, <2>11, <2>12
<1>12. OwnInv' /\ AheadInv' /\ SlotsFit(jb)'
  BY <1>3, <1>4, <1>5, <1>7, <1>9, <1>11, NextLead
<1> QED
  BY <1>3, <1>4, <1>10, <1>12 DEF IInv, RestInv

-----------------------------------------------------------------------------
(* The theorems.                                                           *)

\* The callback's ticks, arrivals in any order, losses, repetitions, packets of an
\* earlier sender, restarts, joins and leaves keep the invariant.
THEOREM Invariant == Spec => []IInv
<1>1. Init => IInv
  BY InitInvariant
<1>2. IInv /\ [Next]_vars => IInv'
  <2> SUFFICES ASSUME IInv, [Next]_vars PROVE IInv'
    OBVIOUS
  <2>1. CASE Tick
    BY <2>1, TickInvariant
  <2>2. CASE Arrive
    BY <2>2, ArriveInvariant
  <2>3. CASE Lose
    BY <2>3, LoseInvariant
  <2>4. CASE ArriveAgain
    BY <2>4, ArriveAgainInvariant
  <2>5. CASE Stray
    BY <2>5, StrayInvariant
  <2>6. CASE SenderRestart
    BY <2>6, SenderRestartInvariant
  <2>7. CASE Join
    BY <2>7, JoinInvariant
  <2>8. CASE Leave
    BY <2>8, LeaveInvariant
  <2>9. CASE Calm
    BY <2>9, CalmInvariant
  <2>10. CASE CalmTick
    BY <2>10, CalmTickInvariant
  <2>11. CASE UNCHANGED vars
    BY <2>11 DEF vars, IInv, TypeOK, RestInv, OwnInv, AheadInv, SlotsFit, Playing, Tracks,
       at, total, debt
  <2> QED
    BY <2>1, <2>2, <2>3, <2>4, <2>5, <2>6, <2>7, <2>8, <2>9, <2>10, <2>11 DEF Next
<1> QED
  BY <1>1, <1>2, PTL DEF Spec

\* Every tick leaves a playout within its types: the misses below the limit, the
\* target between its bounds, and no more than a frame in staging.
THEOREM TypeCorrect == Spec => []TypeOK
<1>1. IInv => TypeOK
  BY DEF IInv
<1> QED
  BY <1>1, Invariant, PTL

\* pop_next and skip_next move the read position whatever has arrived; it gets ahead
\* of the newest packet by no more than the frames concealed in a row and one drop.
THEOREM LeadAlwaysConcealed == Spec => []LeadIsConcealed
<1>1. IInv => LeadIsConcealed
  <2> SUFFICES ASSUME IInv, jb.started, ~foreign
               PROVE  depth(jb) >= -(pc.misses + 1)
    BY DEF LeadIsConcealed
  <2>1. PICK n \in Int : n = at(jb, jb.newest)
    BY Types, BufferType, Reached DEF at
  <2>2. PICK m \in Nat : m = pc.misses
    BY Types DEF Playouts
  <2>3. depth(jb) = n + 1
    BY <2>1, Types, DepthType
  <2>4. -(m + 2) <= n
    BY <2>1, <2>2, Types DEF Playing
  <2> QED
    BY <2>1, <2>2, <2>3, <2>4
<1> QED
  BY <1>1, Invariant, PTL
=============================================================================
