---------------------------- MODULE EngineProofs ----------------------------
(***************************************************************************)
(* The datagrams a session sends, its end, its clients' departures and its *)
(* sound, for every number of clients, size of rings and bound on frames.  *)
(***************************************************************************)
EXTENDS Engine, PacketProofs

USE FifoAssumption

-----------------------------------------------------------------------------
(* The ring of SampleFifo is a queue: push appends, pop takes away, and    *)
(* popped is what pop takes.                                               *)

\* A position of the ring, at most one turn ahead.
LEMMA Wrapped ==
    ASSUME NEW a \in 0 .. 2 * CAP - 1
    PROVE  /\ a < CAP => a % CAP = a
           /\ ~(a < CAP) => a % CAP = a - CAP
<1>1. CASE a < CAP
  BY <1>1
<1>2. CASE a >= CAP
  <2>1. (a - CAP) \in 0 .. CAP - 1
    BY <1>2
  <2>2. a % CAP = (a - CAP) % CAP
    BY <2>1
  <2> QED
    BY <1>2, <2>1, <2>2
<1> QED
  BY <1>1, <1>2

\* A fifo's queue has len samples.
LEMMA ContentsType ==
    ASSUME NEW f \in Fifos
    PROVE  contents(f) \in Seq(Samples) /\ Len(contents(f)) = f.len
<1>1. f.len \in Nat /\ f.head \in Cells /\ f.buf \in [Cells -> Samples]
  BY DEF Fifos, Cells
<1>2. \A i \in 1 .. f.len : (f.head + i - 1) % CAP \in Cells
  BY <1>1 DEF Cells
<1>3. contents(f) \in [1 .. f.len -> Samples]
  BY <1>1, <1>2 DEF contents
<1>4. contents(f) \in Seq(Samples)
  BY <1>1, <1>3, SeqDef, Zenon
<1>5. DOMAIN contents(f) = 1 .. f.len
  BY DEF contents
<1> QED
  BY <1>1, <1>4, <1>5, LenProperties

\* The new fifo is empty.
LEMMA NewEmpty == new_fifo \in Fifos /\ contents(new_fifo) = <<>>
  BY DEF new_fifo, Fifos, contents, Cells

\* The two ends of a queue, cell by cell.
LEMMA FrontOf ==
    ASSUME NEW s \in Seq(Samples), NEW n \in 0 .. Len(s)
    PROVE  SubSeq(s, 1, n) = [i \in 1 .. n |-> s[i]]
  OBVIOUS

LEMMA TailOf ==
    ASSUME NEW s \in Seq(Samples), NEW n \in 0 .. Len(s)
    PROVE  SubSeq(s, n + 1, Len(s)) = [i \in 1 .. Len(s) - n |-> s[n + i]]
  OBVIOUS

\* popped reads the oldest n samples, also where they wrap.
LEMMA PoppedIsFront ==
    ASSUME NEW f \in Fifos, NEW n \in 0 .. f.len
    PROVE  popped(f, n) = SubSeq(contents(f), 1, n)
<1>1. f.len \in 0 .. CAP /\ f.head \in 0 .. CAP - 1 /\ n \in Nat /\ n <= f.len
  BY DEF Fifos, Cells
<1>2. ASSUME NEW i \in 1 .. n
      PROVE  popped(f, n)[i] = contents(f)[i]
  <2>1. (f.head + i - 1) % CAP = IF f.head + i - 1 < CAP THEN f.head + i - 1
                                 ELSE f.head + i - 1 - CAP
    <3>1. f.head + i - 1 \in 0 .. 2 * CAP - 1
      BY <1>1
    <3> QED
      BY <1>1, <3>1, Wrapped
  <2>2. contents(f)[i] = f.buf[(f.head + i - 1) % CAP]
    BY <1>1 DEF contents
  <2>3. popped(f, n)[i] = IF i <= least(CAP - f.head, n) THEN f.buf[f.head + i - 1]
                          ELSE f.buf[i - least(CAP - f.head, n) - 1]
    BY DEF popped
  <2> QED
    BY <1>1, <2>1, <2>2, <2>3 DEF least
<1>3. popped(f, n) = [i \in 1 .. n |-> popped(f, n)[i]]
  BY DEF popped
<1>4. SubSeq(contents(f), 1, n) = [i \in 1 .. n |-> contents(f)[i]]
  <2>1. contents(f) \in Seq(Samples) /\ Len(contents(f)) = f.len
    BY ContentsType
  <2> QED
    BY <2>1, FrontOf, Zenon
<1> QED
  BY <1>2, <1>3, <1>4

\* pop leaves the rest.
LEMMA PopIsTail ==
    ASSUME NEW f \in Fifos, NEW n \in 0 .. f.len
    PROVE  /\ pop(f, n) \in Fifos
           /\ pop(f, n).len = f.len - n
           /\ contents(pop(f, n)) = SubSeq(contents(f), n + 1, Len(contents(f)))
<1> DEFINE g == pop(f, n)
<1>1. f.len \in 0 .. CAP /\ f.head \in 0 .. CAP - 1 /\ n \in Nat /\ n <= f.len
      /\ f.buf \in [Cells -> Samples]
  BY DEF Fifos, Cells
<1>2. g = [f EXCEPT !.head = (@ + n) % CAP, !.len = @ - n]
  BY <1>1 DEF pop
<1>3. g.buf = f.buf /\ g.head = (f.head + n) % CAP /\ g.len = f.len - n
  BY <1>2 DEF Fifos
<1>4. g \in Fifos
  <2>1. (f.head + n) % CAP \in Cells /\ f.len - n \in 0 .. CAP
    BY <1>1 DEF Cells
  <2> QED
    BY <1>1, <1>2, <2>1 DEF Fifos
<1> HIDE DEF g
<1>5. ASSUME NEW i \in 1 .. f.len - n
      PROVE  contents(g)[i] = contents(f)[n + i]
  <2>1. contents(g)[i] = f.buf[(g.head + i - 1) % CAP]
    BY <1>3 DEF contents
  <2>2. contents(f)[n + i] = f.buf[(f.head + n + i - 1) % CAP]
    <3>1. n + i \in 1 .. f.len /\ f.head + (n + i) - 1 = f.head + n + i - 1
      BY <1>1
    <3>2. contents(f)[n + i] = f.buf[(f.head + (n + i) - 1) % CAP]
      BY <3>1, Zenon DEF contents
    <3> QED
      BY <3>1, <3>2, Zenon
  <2>3. g.head = IF f.head + n < CAP THEN f.head + n ELSE f.head + n - CAP
    <3>1. PICK h \in 0 .. CAP - 1, l \in 0 .. CAP : h = f.head /\ l = f.len
      BY <1>1, Zenon
    <3>2. h + n \in 0 .. 2 * CAP - 1
      <4>1. n \in 0 .. l
        BY <3>1
      <4> QED
        BY <4>1
    <3>3. (h + n) % CAP = IF h + n < CAP THEN h + n ELSE h + n - CAP
      BY <3>2, Wrapped
    <3> QED
      BY <1>3, <3>1, <3>3
  <2>4. CASE f.head + n < CAP
    BY <2>1, <2>2, <2>3, <2>4
  <2>5. CASE f.head + n >= CAP
    <3>1. f.head + n + i - 1 - CAP \in 0 .. CAP - 1
      BY <1>1, <2>5
    <3>2. (f.head + n + i - 1) % CAP = f.head + n + i - 1 - CAP
      BY <1>1, <3>1, <2>5, Wrapped
    <3>3. (g.head + i - 1) % CAP = f.head + n + i - 1 - CAP
      <4>1. g.head = f.head + n - CAP /\ g.head \in Int
        BY <1>1, <2>3, <2>5
      <4>2. g.head + i - 1 = f.head + n + i - 1 - CAP
        BY <1>1, <4>1
      <4>3. f.head + n + i - 1 - CAP \in 0 .. 2 * CAP - 1
        BY <3>1
      <4>4. (f.head + n + i - 1 - CAP) % CAP = f.head + n + i - 1 - CAP
        BY <3>1, <4>3, Wrapped
      <4> QED
        BY <4>2, <4>4
    <3> QED
      BY <2>1, <2>2, <3>2, <3>3
  <2> QED
    BY <1>1, <2>4, <2>5
<1>6. contents(g) = [i \in 1 .. f.len - n |-> contents(g)[i]]
  BY <1>3 DEF contents
<1>7. SubSeq(contents(f), n + 1, Len(contents(f)))
        = [i \in 1 .. f.len - n |-> contents(f)[n + i]]
  <2>1. contents(f) \in Seq(Samples) /\ Len(contents(f)) = f.len
    BY ContentsType
  <2> QED
    BY <2>1, TailOf, Zenon
<1>8. contents(g) = SubSeq(contents(f), n + 1, Len(contents(f)))
  BY <1>5, <1>6, <1>7
<1> QED
  BY <1>3, <1>4, <1>8 DEF g

\* push, when there is room, appends the block, also where the copy wraps.
LEMMA PushAppends ==
    ASSUME NEW f \in Fifos, NEW s \in Seq(Samples),
           Len(s) < CAP, f.len + Len(s) <= CAP
    PROVE  /\ push(f, s) \in Fifos
           /\ push(f, s).len = f.len + Len(s)
           /\ contents(push(f, s)) = contents(f) \o s
<1>1. PICK buf \in [Cells -> Samples], h \in 0 .. CAP - 1, l \in 0 .. CAP, n \in 0 .. CAP - 1 :
          buf = f.buf /\ h = f.head /\ l = f.len /\ n = Len(s)
  <2>1. Len(s) \in 0 .. CAP - 1
    BY LenProperties
  <2> QED
    BY <2>1 DEF Fifos, Cells
<1>2. l + n <= CAP
  BY <1>1
<1>3. \A k \in 1 .. n : s[k] \in Samples
  BY <1>1
<1>4. PICK t \in 0 .. CAP - 1 :
          /\ t = (h + l) % CAP
          /\ h + l < CAP => t = h + l
          /\ ~(h + l < CAP) => t = h + l - CAP
  <2> DEFINE a == h + l
  <2>1. a \in 0 .. 2 * CAP - 1
    OBVIOUS
  <2> HIDE DEF a
  <2>2. a % CAP \in 0 .. CAP - 1 /\ (a < CAP => a % CAP = a) /\ (~(a < CAP) => a % CAP = a - CAP)
    BY <2>1, Wrapped
  <2> QED
    BY <2>2 DEF a
<1>5. PICK m \in 0 .. n : m = least(CAP - t, n)
  <2>1. least(CAP - t, n) \in 0 .. n
    BY DEF least
  <2> QED
    BY <2>1, Zenon
<1>6. m <= CAP - t /\ (m = CAP - t \/ m = n)
  BY <1>5 DEF least
<1>t. (h + l < CAP => t = h + l) /\ (~(h + l < CAP) => t = h + l - CAP)
  BY <1>4
<1> DEFINE w == written(buf, t, s)
           g == push(f, s)
<1>7. g = [buf |-> w, head |-> h, len |-> l + n]
  <2>1. overflow(f, n) = 0
    BY <1>1, <1>2 DEF overflow
  <2>2. (h + 0) % CAP = h
    <3>1. h \in 0 .. 2 * CAP - 1 /\ h + 0 = h /\ h < CAP
      OBVIOUS
    <3> QED
      BY <3>1, Wrapped, Zenon
  <2>3. l - 0 = l /\ ~(n >= CAP)
    OBVIOUS
  <2> QED
    BY <1>1, <1>4, <2>1, <2>2, <2>3 DEF push
<1>8. \A k \in Cells : w[k] = IF k \in t .. t + m - 1 THEN s[k - t + 1]
                             ELSE IF k < n - m THEN s[m + k + 1]
                             ELSE buf[k]
  BY <1>1, <1>5 DEF written
<1>9. w = [k \in Cells |-> w[k]]
  BY DEF written
<1> HIDE DEF w
<1>10. g \in Fifos
  <2>1. ASSUME NEW k \in 0 .. CAP - 1
        PROVE  w[k] \in Samples
    <3>1. k \in Cells
      BY DEF Cells
    <3>2. CASE k \in t .. t + m - 1
      <4>1. k - t + 1 \in 1 .. n
        BY <3>2
      <4> QED
        BY <1>3, <1>8, <3>1, <3>2, <4>1
    <3>3. CASE k \notin t .. t + m - 1 /\ k < n - m
      <4>1. m + k + 1 \in 1 .. n
        BY <3>3
      <4> QED
        BY <1>3, <1>8, <3>1, <3>3, <4>1
    <3>4. CASE k \notin t .. t + m - 1 /\ ~(k < n - m)
      BY <1>8, <3>1, <3>4
    <3> QED
      BY <3>2, <3>3, <3>4
  <2>2. w \in [Cells -> Samples]
    BY <1>9, <2>1 DEF Cells
  <2>3. l + n \in 0 .. CAP
    BY <1>2
  <2> QED
    BY <1>7, <2>2, <2>3 DEF Fifos, Cells
<1>11. g.buf = w /\ g.head = h /\ g.len = l + n
  BY <1>7
<1> HIDE DEF g
<1>12. ASSUME NEW i \in 1 .. l + n
       PROVE  contents(g)[i] = IF i <= l THEN contents(f)[i] ELSE s[i - l]
  <2>1. PICK k \in 0 .. CAP - 1 :
            /\ k = (h + i - 1) % CAP
            /\ h + i - 1 < CAP => k = h + i - 1
            /\ ~(h + i - 1 < CAP) => k = h + i - 1 - CAP
    <3> DEFINE a == h + i - 1
    <3>1. a \in 0 .. 2 * CAP - 1
      BY <1>2
    <3> HIDE DEF a
    <3>2. a % CAP \in 0 .. CAP - 1 /\ (a < CAP => a % CAP = a) /\ (~(a < CAP) => a % CAP = a - CAP)
      BY <3>1, Wrapped
    <3> QED
      BY <3>2 DEF a
  <2>2. contents(g)[i] = w[k]
    BY <1>11, <2>1 DEF contents
  <2>3. i <= l => contents(f)[i] = buf[k]
    BY <1>1, <2>1 DEF contents
  <2>4. k \in Cells
    BY DEF Cells
  <2>5. /\ i <= l => k \notin t .. t + m - 1 /\ ~(k < n - m)
        /\ i > l => \/ k \in t .. t + m - 1 /\ k - t + 1 = i - l
                    \/ k \notin t .. t + m - 1 /\ k < n - m /\ m + k + 1 = i - l
    <3>1. (h + i - 1 < CAP => k = h + i - 1) /\ (~(h + i - 1 < CAP) => k = h + i - 1 - CAP)
      BY <2>1
    <3>2. CASE i <= l
      BY <1>2, <1>6, <1>t, <3>1, <3>2
    <3>3. CASE i > l
      BY <1>2, <1>6, <1>t, <3>1, <3>3
    <3> QED
      BY <3>2, <3>3
  <2>6. CASE i <= l
    BY <1>8, <2>2, <2>3, <2>4, <2>5, <2>6
  <2>7. CASE i > l
    BY <1>8, <2>2, <2>4, <2>5, <2>7
  <2> QED
    BY <2>6, <2>7
<1>13. contents(g) = contents(f) \o s
  <2>1. contents(f) \in Seq(Samples) /\ Len(contents(f)) = l
    BY <1>1, ContentsType
  <2>2. contents(g) \in Seq(Samples) /\ Len(contents(g)) = l + n
    BY <1>10, <1>11, ContentsType
  <2>3. /\ contents(f) \o s \in Seq(Samples) /\ Len(contents(f) \o s) = l + n
        /\ \A i \in 1 .. l + n : (contents(f) \o s)[i] =
               IF i <= l THEN contents(f)[i] ELSE s[i - l]
    <3>1. /\ contents(f) \o s \in Seq(Samples)
          /\ Len(contents(f) \o s) = Len(contents(f)) + Len(s)
          /\ \A i \in 1 .. Len(contents(f)) + Len(s) : (contents(f) \o s)[i] =
                 IF i <= Len(contents(f)) THEN contents(f)[i] ELSE s[i - Len(contents(f))]
      BY <2>1, ConcatProperties, Zenon
    <3> QED
      BY <1>1, <2>1, <3>1, Zenon
  <2>4. \A i \in 1 .. Len(contents(g)) : contents(g)[i] = (contents(f) \o s)[i]
    BY <1>12, <2>2, <2>3
  <2> QED
    BY <2>2, <2>3, <2>4, SeqEqual
<1> QED
  BY <1>1, <1>10, <1>11, <1>13 DEF g

-----------------------------------------------------------------------------
(* Bridge implements Playback.                                             *)

USE BridgeAssumption

\* What is left of a block that is being handed out is in the fifo.
RestInv == data # <<>> => needed - Len(data) <= pending.len

IInv == BridgeTypeOK /\ RestInv

\* A block is not empty, and no larger than the device allows.
LEMMA BlockBounds ==
    ASSUME hw \in HwBuffers
    PROVE  block \in 1 .. DeviceMax
<1>1. hw \in Nat
  OBVIOUS
<1> QED
  BY <1>1 DEF block, negotiated, least, most

\* A frame is F samples.
LEMMA FrameType ==
    ASSUME next \in Samples
    PROVE  frame_buf \in Seq(Samples) /\ Len(frame_buf) = F
<1>1. \A i \in 1 .. F : (next + i - 1) % M \in Samples
  <2> SUFFICES ASSUME NEW i \in 1 .. F PROVE (next + i - 1) % M \in 0 .. M - 1
    OBVIOUS
  <2>1. next + i - 1 \in Int
    OBVIOUS
  <2> QED
    BY <2>1
<1>2. frame_buf \in [1 .. F -> Samples]
  BY <1>1 DEF frame_buf
<1>3. frame_buf \in Seq(Samples)
  BY <1>2, SeqDef, Zenon
<1>4. DOMAIN frame_buf = 1 .. F
  BY DEF frame_buf
<1> QED
  BY <1>3, <1>4, LenProperties

LEMMA InitInv == BridgeInit => IInv
<1> SUFFICES ASSUME BridgeInit PROVE IInv
  OBVIOUS
<1>1. pending \in Fifos
  BY NewEmpty DEF BridgeInit
<1>2. data \in Seq(Samples) /\ Len(data) = 0 /\ needed = 0
  BY DEF BridgeInit
<1>3. /\ hw \in HwBuffers /\ capture \in 0 .. CAPTURE /\ next \in Samples
      /\ turn \in {"in", "out"} /\ calm \in 0 .. F + 1 /\ hiccups \in 0 .. MaxHiccups
      /\ gap \in BOOLEAN
  <2>1. hw \in HwBuffers /\ turn \in {"in", "out"} /\ gap \in BOOLEAN
    BY DEF BridgeInit
  <2>2. /\ capture = 0 /\ next = 0 /\ calm = 0 /\ hiccups = MaxHiccups
        /\ 0 \in 0 .. CAPTURE /\ 0 \in 0 .. F + 1 /\ MaxHiccups \in 0 .. MaxHiccups
    BY DEF BridgeInit
  <2> QED
    BY <2>1, <2>2, Zenon
<1>4. BridgeTypeOK
  BY <1>1, <1>2, <1>3 DEF BridgeTypeOK
<1>5. RestInv
  BY DEF BridgeInit, RestInv
<1> QED
  BY <1>4, <1>5 DEF IInv

\* Between callbacks nothing has been handed out.
LEMMA NothingHanded ==
    ASSUME IInv, needed = 0
    PROVE  data = <<>>
  BY DEF IInv, BridgeTypeOK

-----------------------------------------------------------------------------
(* The two callbacks begin.                                                *)

LEMMA InputStep ==
    ASSUME IInv, Input
    PROVE  IInv' /\ contents(pending)' = contents(pending) /\ data' = data /\ next' = next
<1>1. /\ hw' = hw /\ pending' = pending /\ needed' = needed /\ data' = data /\ next' = next
      /\ capture' = least(CAPTURE, capture + block) /\ gap' \in BOOLEAN
  BY DEF Input
<1>2. block \in 1 .. DeviceMax
  BY BlockBounds DEF IInv, BridgeTypeOK
<1>3. capture' \in 0 .. CAPTURE
  BY <1>1, <1>2 DEF IInv, BridgeTypeOK, least
<1>4. turn' \in {"in", "out"} /\ calm' \in 0 .. F + 1 /\ hiccups' \in 0 .. MaxHiccups
  BY DEF Input, InTurn, Hiccup, IInv, BridgeTypeOK, least
<1>5. BridgeTypeOK'
  BY <1>1, <1>3, <1>4 DEF IInv, BridgeTypeOK, block
<1>6. RestInv'
  BY <1>1 DEF IInv, RestInv
<1> QED
  BY <1>1, <1>5, <1>6 DEF IInv

LEMMA OutputBeginStep ==
    ASSUME IInv, OutputBegin
    PROVE  IInv' /\ contents(pending)' = contents(pending) /\ data' = data /\ next' = next
<1>1. /\ hw' = hw /\ capture' = capture /\ pending' = pending /\ data' = data /\ next' = next
      /\ gap' = gap /\ needed' = block /\ needed = 0
  BY DEF OutputBegin
<1>2. block \in 1 .. DeviceMax
  BY BlockBounds DEF IInv, BridgeTypeOK
<1>3. data = <<>>
  BY <1>1, NothingHanded
<1>4. turn' \in {"in", "out"} /\ calm' \in 0 .. F + 1 /\ hiccups' \in 0 .. MaxHiccups
  BY DEF OutputBegin, InTurn, Hiccup, IInv, BridgeTypeOK, least
<1>5. BridgeTypeOK'
  BY <1>1, <1>2, <1>3, <1>4 DEF IInv, BridgeTypeOK, block
<1>6. RestInv'
  BY <1>1, <1>3 DEF IInv, RestInv
<1> QED
  BY <1>1, <1>5, <1>6 DEF IInv

-----------------------------------------------------------------------------
(* The steps of the output callback.                                       *)

LEMMA FillStep ==
    ASSUME IInv, Fill
    PROVE  IInv' /\ Device!Frame
<1>1. /\ data = <<>> /\ data' = data /\ needed > 0 /\ pending.len < needed
      /\ hw' = hw /\ needed' = needed /\ turn' = turn /\ calm' = calm /\ hiccups' = hiccups
      /\ pending' = push(pending, frame_buf) /\ next' = (next + F) % M
  BY DEF Fill
<1>2. /\ pending \in Fifos /\ next \in Samples /\ needed = block /\ block \in 1 .. DeviceMax
      /\ capture \in 0 .. CAPTURE /\ gap \in BOOLEAN
  BY <1>1, BlockBounds DEF IInv, BridgeTypeOK
<1>3. frame_buf \in Seq(Samples) /\ Len(frame_buf) = F
  BY <1>2, FrameType
<1>4. Len(frame_buf) < CAP /\ pending.len + Len(frame_buf) <= CAP
  <2>1. pending.len \in Nat
    BY <1>2 DEF Fifos
  <2> QED
    BY <1>1, <1>2, <1>3, <2>1
<1>5. pending' \in Fifos /\ contents(pending)' = contents(pending) \o frame_buf
  BY <1>1, <1>2, <1>3, <1>4, PushAppends, Zenon
<1>6. next' \in Samples
  <2>1. next + F \in Int
    BY <1>2
  <2> QED
    BY <1>1, <2>1
<1>7. capture' \in 0 .. CAPTURE /\ gap' \in BOOLEAN
  <2>1. bounded \in 0 .. CAPTURE
    <3>1. drift_cap \in Nat
      BY DEF drift_cap, most, IInv, BridgeTypeOK
    <3> QED
      BY <1>2, <3>1 DEF bounded, least
  <2>2. capture' = IF bounded >= F THEN bounded - F ELSE bounded
    BY DEF Fill
  <2>3. gap' \in BOOLEAN
    BY DEF Fill
  <2> QED
    BY <2>1, <2>2, <2>3
<1>8. BridgeTypeOK'
  BY <1>1, <1>5, <1>6, <1>7 DEF IInv, BridgeTypeOK, block
<1>9. RestInv'
  BY <1>1 DEF RestInv
<1>10. Device!Frame
  BY <1>1, <1>5 DEF Device!Frame, frame_buf
<1> QED
  BY <1>8, <1>9, <1>10 DEF IInv

LEMMA DrainStep ==
    ASSUME IInv, Drain
    PROVE  IInv' /\ \E n \in 1 .. F : Device!Hand(n)
<1>1. /\ needed > 0 /\ (data # <<>> \/ pending.len >= needed) /\ Len(data) < needed
      /\ data' = data \o popped(pending, take) /\ pending' = pop(pending, take)
      /\ hw' = hw /\ capture' = capture /\ needed' = needed /\ next' = next /\ turn' = turn
      /\ calm' = calm /\ hiccups' = hiccups /\ gap' = gap
  BY DEF Drain
<1>2. /\ pending \in Fifos /\ pending.len \in Nat /\ needed \in Nat
      /\ data \in Seq(Samples) /\ Len(data) \in Nat
  <2>1. block \in 1 .. DeviceMax
    BY BlockBounds DEF IInv, BridgeTypeOK
  <2> QED
    BY <2>1 DEF IInv, BridgeTypeOK, Fifos
<1>3. needed - Len(data) <= pending.len
  <2>1. CASE data = <<>>
    BY <1>1, <1>2, <2>1
  <2>2. CASE data # <<>>
    BY <2>2 DEF IInv, RestInv
  <2> QED
    BY <2>1, <2>2
<1>4. take \in 1 .. F /\ take <= needed - Len(data) /\ take \in 0 .. pending.len
  BY <1>1, <1>2, <1>3 DEF take, least
<1>5. popped(pending, take) = SubSeq(contents(pending), 1, take)
  BY <1>2, <1>4, PoppedIsFront
<1>6. /\ pending' \in Fifos /\ pending'.len = pending.len - take
      /\ contents(pending)' = SubSeq(contents(pending), take + 1, Len(contents(pending)))
  BY <1>1, <1>2, <1>4, PopIsTail, Zenon
<1>7. contents(pending) \in Seq(Samples) /\ Len(contents(pending)) = pending.len
  BY <1>2, ContentsType
<1>8. popped(pending, take) \in Seq(Samples) /\ Len(popped(pending, take)) = take
  BY <1>2, <1>4, <1>5, <1>7
<1>9. data' \in Seq(Samples) /\ Len(data') = Len(data) + take
  <2>1. /\ data \o popped(pending, take) \in Seq(Samples)
        /\ Len(data \o popped(pending, take)) = Len(data) + Len(popped(pending, take))
    BY <1>2, <1>8, ConcatProperties, Zenon
  <2> QED
    BY <1>1, <1>8, <2>1
<1>10. BridgeTypeOK'
  BY <1>1, <1>2, <1>4, <1>6, <1>9 DEF IInv, BridgeTypeOK, block
<1>11. RestInv'
  BY <1>1, <1>2, <1>3, <1>4, <1>6, <1>9 DEF RestInv
<1>12. Device!Hand(take)
  BY <1>1, <1>4, <1>5, <1>6, <1>7 DEF Device!Hand
<1> QED
  BY <1>4, <1>10, <1>11, <1>12 DEF IInv

LEMMA OutputEndStep ==
    ASSUME IInv, OutputEnd
    PROVE  IInv' /\ Device!Return
<1>1. /\ needed' = 0 /\ data' = <<>> /\ pending' = pending /\ next' = next /\ hw' = hw
      /\ capture' = capture /\ turn' = turn /\ calm' = calm /\ hiccups' = hiccups /\ gap' = gap
  BY DEF OutputEnd
<1>2. BridgeTypeOK'
  BY <1>1 DEF IInv, BridgeTypeOK, block
<1>3. RestInv' /\ Device!Return
  BY <1>1 DEF RestInv, Device!Return
<1> QED
  BY <1>2, <1>3 DEF IInv

-----------------------------------------------------------------------------
\* Every step of the callbacks keeps the invariant, and is a step of Playback or
\* none.
LEMMA StepRefines ==
    ASSUME IInv, BridgeNext
    PROVE  IInv' /\ [Device!Next]_<<contents(pending), data, next>>
<1>1. CASE Input
  BY <1>1, InputStep
<1>2. CASE OutputBegin
  BY <1>2, OutputBeginStep
<1>3. CASE Fill
  BY <1>3, FillStep DEF Device!Next
<1>4. CASE Drain
  BY <1>4, DrainStep DEF Device!Next
<1>5. CASE OutputEnd
  BY <1>5, OutputEndStep DEF Device!Next
<1> QED
  BY <1>1, <1>2, <1>3, <1>4, <1>5 DEF BridgeNext

LEMMA StutterRefines ==
    ASSUME IInv, UNCHANGED bridge
    PROVE  IInv' /\ [Device!Next]_<<contents(pending), data, next>>
<1>1. BridgeTypeOK' /\ RestInv'
  BY DEF IInv, BridgeTypeOK, RestInv, bridge, block
<1>2. contents(pending)' = contents(pending) /\ data' = data /\ next' = next
  BY DEF bridge
<1> QED
  BY <1>1, <1>2 DEF IInv

LEMMA InitRefines == BridgeInit => Device!Init
  BY NewEmpty DEF BridgeInit, Device!Init

\* The device gets the pipeline's samples in order, none twice and none left out,
\* whatever the sizes of frames, blocks and fifo, as long as the fifo holds a frame
\* more than a block lacks (engine.rs 350-383).
THEOREM SamplesInOrder == BridgeSpec => InOrder
<1>1. BridgeInit => IInv /\ Device!Init
  BY InitInv, InitRefines
<1>2. IInv /\ [BridgeNext]_bridge => IInv' /\ [Device!Next]_<<contents(pending), data, next>>
  BY StepRefines, StutterRefines
<1> QED
  BY <1>1, <1>2, PTL DEF BridgeSpec, InOrder, Device!Spec

-----------------------------------------------------------------------------
(* Two devices in turn are heard without a gap.                            *)
(*                                                                         *)
(* Between callbacks the fifo holds less than a frame.  From period to     *)
(* period that rest goes down by a block, modulo a frame: after F periods  *)
(* it has been what it was.  A level of the capture ring that suits every  *)
(* rest is never left; and whatever a period has to drop or to add leaves  *)
(* a level that suits every rest so far.                                   *)

\* The device takes no more than was asked for, and the capture ring holds a block
\* and two frames.
SizesFit == \A size \in HwBuffers : DeviceMin <= size /\ negotiated(size) + 2 * F <= CAPTURE

\* The block that the output callback has still to hand out in this period, and the
\* samples on the way to the device.
due == IF needed > 0 \/ turn = "out" THEN block ELSE 0
held == pending.len + Len(data)

\* The rest of a frame at the end of the period, and the captured samples with it.
Rest == held - due
Level == capture + Rest

\* x is y, modulo a frame.
Residue(x, y) == x \in 0 .. F - 1 /\ \E k \in Int : y = x + k * F

\* A level at which a block that ends with the rest y finds what it needs, and one at
\* which a block that begins with it drops nothing.
Enough(level, y) == \A x : Residue(x, y) => level >= x
Room(level, b, cap, y) ==
    \A x : Residue(x, y) => level <= CAPTURE - b + x /\ (x < b => level <= cap - b + x)

\* The level suits the rests of some periods ago.
Suits(level, b, cap, rest, first, last) ==
    \A i \in first .. last :
        Enough(level, rest + i * b) /\ Room(level, b, cap, rest + (i + 1) * b)

\* It suits what is known of this period.
SuitsNow(level, b, cap, rest, some) ==
    \A x : Residue(x, rest + b) =>
        level <= CAPTURE - b + x /\ (some => level <= cap - b + x)

ShapeInv ==
    /\ needed = 0 => pending.len < F
    /\ needed > 0 => held < block + F

CalmInv ==
    /\ needed > 0 => turn = "in"
    /\ Level >= 0
    /\ Suits(Level, block, drift_cap, Rest, IF due > 0 THEN 1 ELSE 0, calm - 1)
    /\ due > 0 => SuitsNow(Level, block, drift_cap, Rest, held >= F)
    /\ needed > 0 /\ data = <<>> /\ held >= F => capture <= drift_cap
    /\ calm > F => ~gap

SteadyInv == ShapeInv /\ (calm >= 1 => CalmInv)

\* What a step makes of a level: nothing, a lower one, or one in the middle.
Outcome(level, new) ==
    \/ new = level
    \/ F <= new /\ new <= level
    \/ F <= new /\ new <= 2 * F

\* A frame more or less does not matter.
LEMMA ResidueShift ==
    ASSUME NEW x, NEW y \in Int, NEW m \in Int, Residue(x, y)
    PROVE  Residue(x, y + m * F)
<1>1. PICK k \in Int : y = x + k * F
  BY DEF Residue
<1>2. x \in 0 .. F - 1 /\ x \in Int /\ F \in Int
  BY DEF Residue
<1>3. y + m * F = x + (k + m) * F
  BY <1>1, <1>2
<1> QED
  BY <1>2, <1>3 DEF Residue

LEMMA ResidueSelf ==
    ASSUME NEW x \in 0 .. F - 1, NEW m \in Int
    PROVE  Residue(x, x + m * F)
  BY DEF Residue

\* A number has one residue.
LEMMA ResidueOne ==
    ASSUME NEW x, NEW y \in 0 .. F - 1, Residue(x, y)
    PROVE  x = y
<1>1. PICK k \in Int : y = x + k * F
  BY DEF Residue
<1>2. x \in 0 .. F - 1
  BY DEF Residue
<1>3. CASE k = 0
  BY <1>1, <1>2, <1>3
<1>4. CASE k >= 1
  <2>1. k * F >= F
    <3>1. PICK j \in Nat : k = j + 1
      BY <1>4
    <3>2. j * F \in Nat /\ (j + 1) * F = j * F + F
      OBVIOUS
    <3> QED
      BY <3>1, <3>2
  <2> QED
    BY <1>1, <1>2, <2>1
<1>5. CASE k <= -1
  <2>1. k * F <= -F
    <3>1. PICK j \in Nat : k = -j - 1
      BY <1>5
    <3>2. j * F \in Nat /\ (-j - 1) * F = -(j * F) - F
      OBVIOUS
    <3> QED
      BY <3>1, <3>2
  <2> QED
    BY <1>1, <1>2, <2>1
<1> QED
  BY <1>3, <1>4, <1>5

\* After such a step the level suits what it suited.
LEMMA SuitsStill ==
    ASSUME NEW level \in Int, NEW new \in Int, NEW b \in Int, NEW cap \in Int, NEW y,
           Outcome(level, new), b + 2 * F <= CAPTURE, b + 2 * F <= cap
    PROVE  /\ Enough(level, y) => Enough(new, y)
           /\ Room(level, b, cap, y) => Room(new, b, cap, y)
<1>1. ASSUME Enough(level, y) PROVE Enough(new, y)
  <2> SUFFICES ASSUME NEW x, Residue(x, y) PROVE new >= x
    BY DEF Enough
  <2>1. x \in 0 .. F - 1 /\ level >= x
    BY <1>1 DEF Enough, Residue
  <2> QED
    BY <2>1 DEF Outcome
<1>2. ASSUME Room(level, b, cap, y) PROVE Room(new, b, cap, y)
  <2> SUFFICES ASSUME NEW x, Residue(x, y)
               PROVE  new <= CAPTURE - b + x /\ (x < b => new <= cap - b + x)
    BY DEF Room
  <2>1. x \in 0 .. F - 1 /\ level <= CAPTURE - b + x /\ (x < b => level <= cap - b + x)
    BY <1>2 DEF Room, Residue
  <2> QED
    BY <2>1 DEF Outcome
<1> QED
  BY <1>1, <1>2

\* The rest of another frame is the same.
LEMMA SuitsShift ==
    ASSUME NEW level \in Int, NEW b \in Int, NEW cap \in Int, NEW y \in Int
    PROVE  /\ Enough(level, y) => Enough(level, y + F)
           /\ Room(level, b, cap, y) => Room(level, b, cap, y + F)
<1> SUFFICES ASSUME NEW x, Residue(x, y + F) PROVE Residue(x, y)
  BY Zenon DEF Enough, Room
<1>1. y + F \in Int /\ -1 \in Int /\ (y + F) + (-1) * F = y
  OBVIOUS
<1> QED
  BY <1>1, ResidueShift

\* The sizes, where they fit.
LEMMA SizeBounds ==
    ASSUME SizesFit, hw \in HwBuffers
    PROVE  /\ block \in Nat \ {0} /\ drift_cap \in Nat
           /\ block + 2 * F <= CAPTURE /\ block + 2 * F <= drift_cap
<1>1. block \in Nat \ {0}
  BY BlockBounds
<1>2. DeviceMin <= hw /\ block + 2 * F <= CAPTURE
  BY DEF SizesFit, block
<1>3. hw \in Nat
  OBVIOUS
<1>4. block <= hw
  BY <1>2, <1>3 DEF block, negotiated, least, most
<1>5. drift_cap \in Nat /\ drift_cap >= 4 * F /\ drift_cap >= 2 * hw
  BY <1>3 DEF drift_cap, most
<1> QED
  BY <1>1, <1>2, <1>3, <1>4, <1>5

\* What is known of the numbers.
LEMMA Numbers ==
    ASSUME IInv
    PROVE  /\ hw \in HwBuffers /\ capture \in 0 .. CAPTURE /\ pending.len \in Nat
           /\ Len(data) \in Nat /\ held \in Nat /\ needed \in {0, block} /\ calm \in 0 .. F + 1
           /\ block \in Nat \ {0} /\ (needed = 0 => data = <<>> /\ held = pending.len)
<1>1. /\ hw \in HwBuffers /\ capture \in 0 .. CAPTURE /\ calm \in 0 .. F + 1
      /\ needed \in {0, block} /\ pending \in Fifos /\ data \in Seq(Samples)
  BY DEF IInv, BridgeTypeOK
<1>2. pending.len \in Nat /\ Len(data) \in Nat
  BY <1>1 DEF Fifos
<1>3. block \in Nat \ {0}
  BY <1>1, BlockBounds
<1>4. held \in Nat
  BY <1>2 DEF held
<1>5. needed = 0 => data = <<>>
  BY NothingHanded
<1>6. data = <<>> => held = pending.len
  BY <1>2 DEF held
<1> QED
  BY <1>1, <1>2, <1>3, <1>4, <1>5, <1>6

\* The start of a period: what suited the rests so far does so one period on.
LEMMA SuitsTurn ==
    ASSUME NEW level \in Int, NEW new \in Int, NEW b \in Nat, NEW cap \in Int, NEW p \in Nat,
           NEW n \in Nat, NEW m \in Nat, m <= n + 1,
           Outcome(level, new), b + 2 * F <= CAPTURE, b + 2 * F <= cap,
           Suits(level, b, cap, p, 0, n - 1)
    PROVE  Suits(new, b, cap, p - b, 1, m - 1)
<1> SUFFICES ASSUME NEW i \in 1 .. m - 1
             PROVE  Enough(new, p - b + i * b) /\ Room(new, b, cap, p - b + (i + 1) * b)
  BY DEF Suits
<1>1. PICK j \in 0 .. n - 1 : i = j + 1
  OBVIOUS
<1>2. Enough(level, p + j * b) /\ Room(level, b, cap, p + (j + 1) * b)
  BY DEF Suits
<1>3. p - b + i * b = p + j * b /\ p - b + (i + 1) * b = p + (j + 1) * b
  <2>1. (j + 1) * b = j * b + b /\ (j + 1 + 1) * b = (j + 1) * b + b /\ j * b \in Int
    OBVIOUS
  <2> QED
    BY <1>1, <2>1
<1>4. /\ Enough(level, p + j * b) => Enough(new, p + j * b)
      /\ Room(level, b, cap, p + (j + 1) * b) => Room(new, b, cap, p + (j + 1) * b)
  <2>1. \A y : /\ Enough(level, y) => Enough(new, y)
               /\ Room(level, b, cap, y) => Room(new, b, cap, y)
    <3>1. b \in Int
      OBVIOUS
    <3> QED
      BY <3>1, SuitsStill
  <2> QED
    BY <2>1, Zenon
<1> QED
  BY <1>2, <1>3, <1>4, Zenon

\* After F periods the rest is what it was: there is room for another block.
LEMMA RoomAgain ==
    ASSUME NEW level \in Int, NEW b \in Nat, NEW cap \in Int, NEW p \in 0 .. F - 1,
           NEW n \in Nat, n >= F, Suits(level, b, cap, p, 0, n - 1)
    PROVE  level <= CAPTURE - b + p
<1>1. F - 1 \in 0 .. n - 1
  OBVIOUS
<1>2. Room(level, b, cap, p + (F - 1 + 1) * b)
  BY <1>1 DEF Suits
<1>3. (F - 1 + 1) * b = b * F
  OBVIOUS
<1>4. Residue(p, p + (F - 1 + 1) * b)
  <2>1. b \in Int
    OBVIOUS
  <2>2. Residue(p, p + b * F)
    BY <2>1, ResidueSelf, Zenon
  <2> QED
    BY <1>3, <2>2, Zenon
<1> QED
  BY <1>2, <1>4 DEF Room

LEMMA InputSteady ==
    ASSUME SizesFit, IInv, SteadyInv, Input
    PROVE  SteadyInv'
<1>1. /\ hw' = hw /\ pending' = pending /\ needed' = needed /\ data' = data
      /\ capture' = least(CAPTURE, capture + block) /\ gap' = (capture + block > CAPTURE)
  BY DEF Input
<1>2. block' = block /\ drift_cap' = drift_cap /\ held' = held
  BY <1>1 DEF block, drift_cap, held
<1>3. ShapeInv'
  BY <1>1, <1>2 DEF SteadyInv, ShapeInv
<1>4. CASE Hiccup
  BY <1>3, <1>4 DEF Hiccup, SteadyInv
<1>5. ASSUME InTurn("in", "out") PROVE CalmInv'
  <2> DEFINE b == block
             p == pending.len
             cap == drift_cap
             n == calm
  <2>1. /\ needed = 0 /\ turn = "in" /\ turn' = "out" /\ calm' = least(n + 1, F + 1)
    BY <1>5 DEF InTurn
  <2>2. /\ b \in Nat \ {0} /\ cap \in Nat /\ b + 2 * F <= CAPTURE /\ b + 2 * F <= cap
        /\ p \in 0 .. F - 1 /\ capture \in 0 .. CAPTURE /\ n \in 0 .. F + 1
        /\ held = p /\ capture' = least(CAPTURE, capture + b)
    BY <1>1, <2>1, Numbers, SizeBounds DEF SteadyInv, ShapeInv
  <2>3. due = 0 /\ due' = b /\ Rest = p /\ Rest' = p - b
        /\ Level = capture + p /\ Level' = capture' + p - b
    <3>1. due = 0 /\ due' = b
      BY <1>1, <1>2, <2>1 DEF due
    <3> QED
      BY <1>1, <1>2, <2>2, <3>1 DEF Rest, Level, least
  <2>4. /\ capture' \in Nat /\ calm' \in 1 .. F + 1 /\ calm' <= n + 1
        /\ (calm' > F => n >= F)
    BY <1>1, <2>1, <2>2 DEF least
  <2>5. n >= 1 => Suits(Level, b, cap, p, 0, n - 1)
    BY <2>3 DEF SteadyInv, CalmInv
  <2> HIDE DEF b, p, cap, n
  <2>6. Outcome(Level, Level') /\ Level' >= 0 /\ Level' <= CAPTURE - b + p
    <3>1. CASE capture + b > CAPTURE
      <4>1. Level' = CAPTURE + p - b
        BY <2>2, <2>3, <3>1 DEF least
      <4> QED
        BY <2>2, <2>3, <3>1, <4>1 DEF Outcome
    <3>2. CASE capture + b <= CAPTURE
      <4>1. Level' = Level
        BY <2>2, <2>3, <3>2 DEF least
      <4> QED
        BY <2>2, <2>3, <3>2, <4>1 DEF Outcome
    <3> QED
      BY <2>2, <3>1, <3>2
  <2>7. Suits(Level', b, cap, p - b, 1, calm' - 1)
    <3>1. CASE n = 0
      <4>1. calm' - 1 = 0
        BY <2>4, <3>1
      <4>2. 1 .. calm' - 1 = {}
        BY <4>1
      <4> QED
        BY <4>2, Zenon DEF Suits
    <3>2. CASE n >= 1
      <4>1. Level \in Int /\ Level' \in Int /\ b \in Nat /\ cap \in Int /\ p \in Nat
            /\ n \in Nat /\ calm' \in Nat /\ calm' <= n + 1
        BY <2>2, <2>3, <2>4
      <4> QED
        BY <2>2, <2>5, <2>6, <3>2, <4>1, SuitsTurn, Zenon
    <3> QED
      BY <2>2, <3>1, <3>2
  <2>8. SuitsNow(Level', b, cap, p - b, held' >= F)
    <3> SUFFICES ASSUME NEW x, Residue(x, p - b + b)
                 PROVE  Level' <= CAPTURE - b + x /\ (held' >= F => Level' <= cap - b + x)
      BY Zenon DEF SuitsNow
    <3>1. x = p
      <4>1. p - b + b = p
        BY <2>2
      <4> QED
        BY <2>2, <4>1, ResidueOne
    <3>2. ~(held' >= F)
      BY <1>2, <2>2
    <3> QED
      BY <2>6, <3>1, <3>2
  <2>9. calm' > F => ~gap'
    <3> SUFFICES ASSUME calm' > F PROVE ~gap'
      OBVIOUS
    <3>0. n >= F
      BY <2>4
    <3>1. Level \in Int /\ b \in Nat /\ cap \in Int /\ n \in Nat /\ n >= 1
      BY <2>2, <2>3, <3>0
    <3>2. Level <= CAPTURE - b + p
      BY <2>2, <2>5, <3>0, <3>1, RoomAgain
    <3>3. ~(capture + b > CAPTURE)
      BY <2>2, <2>3, <3>2
    <3> QED
      BY <1>1, <3>3, Zenon DEF b
  <2>10. (IF due' > 0 THEN 1 ELSE 0) = 1 /\ ~(needed' > 0)
    BY <1>1, <2>1, <2>2, <2>3
  <2>11. block' = b /\ drift_cap' = cap /\ Rest' = p - b
    BY <1>2, <2>3 DEF b, cap
  <2> QED
    BY <2>6, <2>7, <2>8, <2>9, <2>10, <2>11 DEF CalmInv
<1>6. InTurn("in", "out") \/ Hiccup
  BY DEF Input
<1> QED
  BY <1>3, <1>4, <1>5, <1>6 DEF SteadyInv

LEMMA OutputBeginSteady ==
    ASSUME SizesFit, IInv, SteadyInv, OutputBegin
    PROVE  SteadyInv'
<1>1. /\ needed = 0 /\ needed' = block /\ hw' = hw /\ capture' = capture
      /\ pending' = pending /\ data' = data /\ gap' = gap
  BY DEF OutputBegin
<1>2. /\ block \in Nat \ {0} /\ pending.len \in Nat /\ held = pending.len /\ calm \in Nat
  BY <1>1, Numbers
<1>3. block' = block /\ drift_cap' = drift_cap /\ held' = held
  BY <1>1 DEF block, drift_cap, held
<1>4. held < F
  BY <1>1, <1>2 DEF SteadyInv, ShapeInv
<1>5. ShapeInv'
  BY <1>1, <1>2, <1>3, <1>4 DEF ShapeInv
<1>6. CASE Hiccup
  BY <1>5, <1>6 DEF Hiccup, SteadyInv
<1>7. ASSUME InTurn("out", "in"), calm' >= 1 PROVE CalmInv'
  <2>1. turn = "out" /\ turn' = "in" /\ calm' = calm
    BY <1>7 DEF InTurn
  <2>2. due = block /\ due' = block
    BY <1>1, <1>2, <1>3, <2>1 DEF due
  <2>3. Rest' = Rest /\ Level' = Level
    BY <1>1, <1>3, <2>2 DEF Rest, Level
  <2>4. CalmInv
    BY <1>7, <2>1 DEF SteadyInv
  <2>5. due' = due /\ ~(held' >= F)
    BY <1>2, <1>3, <1>4, <2>2
  <2>6. SuitsNow(Level, block, drift_cap, Rest, held >= F)
    BY <1>2, <2>2, <2>4 DEF CalmInv
  <2> QED
    BY <1>1, <1>3, <2>1, <2>3, <2>4, <2>5, <2>6 DEF CalmInv
<1>8. InTurn("out", "in") \/ Hiccup
  BY DEF OutputBegin
<1> QED
  BY <1>5, <1>6, <1>7, <1>8 DEF SteadyInv

\* The frames of a period: what suited the rests still does.
LEMMA SuitsFrame ==
    ASSUME NEW level \in Int, NEW new \in Int, NEW b \in Nat, NEW cap \in Int, NEW rest \in Int,
           NEW last \in Int, Outcome(level, new), b + 2 * F <= CAPTURE, b + 2 * F <= cap,
           Suits(level, b, cap, rest, 1, last)
    PROVE  Suits(new, b, cap, rest + F, 1, last)
<1> SUFFICES ASSUME NEW i \in 1 .. last
             PROVE  Enough(new, rest + F + i * b) /\ Room(new, b, cap, rest + F + (i + 1) * b)
  BY DEF Suits
<1>1. Enough(level, rest + i * b) /\ Room(level, b, cap, rest + (i + 1) * b)
  BY DEF Suits
<1>2. \A y : /\ Enough(level, y) => Enough(new, y)
             /\ Room(level, b, cap, y) => Room(new, b, cap, y)
  <2>1. b \in Int
    OBVIOUS
  <2> QED
    BY <2>1, SuitsStill
<1>3. \A y \in Int : /\ Enough(new, y) => Enough(new, y + F)
                     /\ Room(new, b, cap, y) => Room(new, b, cap, y + F)
  <2>1. b \in Int
    OBVIOUS
  <2> QED
    BY <2>1, SuitsShift
<1>4. /\ rest + i * b \in Int /\ rest + (i + 1) * b \in Int
      /\ (rest + i * b) + F = rest + F + i * b
      /\ (rest + (i + 1) * b) + F = rest + F + (i + 1) * b
  <2>1. i * b \in Int /\ (i + 1) * b \in Int
    OBVIOUS
  <2> QED
    BY <2>1
<1>5. Enough(new, (rest + i * b) + F) /\ Room(new, b, cap, (rest + (i + 1) * b) + F)
  BY <1>1, <1>2, <1>3, <1>4, Zenon
<1> QED
  BY <1>4, <1>5, Zenon

\* After F periods the rest is what it was: there is no frame too many at the first
\* of a period, and one is there for the last.
LEMMA FrameAgain ==
    ASSUME NEW level \in Int, NEW b \in Nat, NEW cap \in Int, NEW p \in 0 .. b - 1,
           NEW n \in Nat, n > F, Suits(level, b, cap, p - b, 1, n - 1)
    PROVE  /\ p < F => level <= cap - b + p
           /\ b <= p + F => level >= p + F - b
<1>1. F \in 1 .. n - 1 /\ b \in Int /\ b * F \in Int
  OBVIOUS
<1>2. Enough(level, p - b + F * b) /\ Room(level, b, cap, p - b + (F + 1) * b)
  BY <1>1 DEF Suits
<1>3. p - b + F * b = (p - b) + b * F /\ p - b + (F + 1) * b = p + b * F
  <2>1. F * b = b * F /\ (F + 1) * b = b * F + b
    OBVIOUS
  <2> QED
    BY <1>1, <2>1
<1>4. ASSUME p < F PROVE level <= cap - b + p
  <2>1. p \in 0 .. F - 1
    BY <1>4
  <2>2. Residue(p, p + b * F)
    BY <1>1, <2>1, ResidueSelf, Zenon
  <2>3. level <= CAPTURE - b + p /\ (p < b => level <= cap - b + p)
    BY <1>2, <1>3, <2>2, Zenon DEF Room
  <2> QED
    BY <2>3
<1>5. ASSUME b <= p + F PROVE level >= p + F - b
  <2> DEFINE x == p + F - b
  <2>1. x \in 0 .. F - 1 /\ x \in Int
    BY <1>5
  <2>2. PICK m \in Int : m = b - 1
    OBVIOUS
  <2>3. (p - b) + b * F = x + m * F
    <3>1. b * F = m * F + F /\ m * F \in Int
      BY <2>2
    <3> QED
      BY <1>1, <3>1
  <2>4. Residue(x, x + m * F)
    BY <2>1, ResidueSelf, Zenon
  <2> HIDE DEF x
  <2>5. level >= x
    BY <1>2, <1>3, <2>3, <2>4, Zenon DEF Enough
  <2> QED
    BY <2>5 DEF x
<1> QED
  BY <1>4, <1>5

LEMMA FillSteady ==
    ASSUME SizesFit, IInv, SteadyInv, Fill
    PROVE  SteadyInv'
<1> DEFINE b == block
           p == pending.len
           cap == drift_cap
<1>1. /\ needed > 0 /\ data = <<>> /\ p < needed
      /\ hw' = hw /\ needed' = needed /\ data' = data /\ turn' = turn /\ calm' = calm
      /\ capture' = (IF bounded >= F THEN bounded - F ELSE bounded)
      /\ gap' = (gap \/ capture > cap \/ bounded < F)
  BY DEF Fill
<1>2. /\ b \in Nat \ {0} /\ cap \in Nat /\ b + 2 * F <= CAPTURE /\ b + 2 * F <= cap
      /\ capture \in 0 .. CAPTURE /\ p \in Nat /\ needed = b /\ held = p
      /\ calm \in Nat /\ Len(data) = 0
  <2>1. Len(data) = 0
    BY <1>1
  <2>2. needed = b /\ held = p
    BY <1>1, <2>1, Numbers DEF held
  <2> QED
    BY <2>1, <2>2, Numbers, SizeBounds
<1>3. p \in 0 .. b - 1
  BY <1>1, <1>2
<1>4. pending'.len = p + F
  <2>1. next \in Samples /\ pending \in Fifos
    BY DEF IInv, BridgeTypeOK
  <2>2. Len(frame_buf) = F /\ frame_buf \in Seq(Samples)
    BY <2>1, FrameType
  <2>3. pending' = push(pending, frame_buf)
    BY DEF Fill
  <2>4. b <= DeviceMax
    BY <2>1, BlockBounds DEF IInv, BridgeTypeOK
  <2>5. Len(frame_buf) < CAP /\ pending.len + Len(frame_buf) <= CAP
    BY <1>2, <1>3, <2>2, <2>4
  <2>6. overflow(pending, Len(frame_buf)) = 0
    BY <1>2, <2>2, <2>5 DEF overflow
  <2> QED
    BY <1>2, <2>2, <2>3, <2>5, <2>6 DEF push
<1>5. block' = b /\ drift_cap' = cap /\ held' = p + F
  <2>1. Len(data') = 0
    BY <1>1
  <2>2. held' = pending'.len + Len(data')
    BY DEF held
  <2> QED
    BY <1>1, <1>2, <1>4, <2>1, <2>2 DEF block, drift_cap
<1>6. due = b /\ due' = b
  BY <1>1, <1>2, <1>5 DEF due
<1>7. bounded = (IF capture <= cap THEN capture ELSE cap)
  BY DEF bounded, least
<1>8. capture' \in Nat /\ bounded \in Nat /\ bounded <= cap
  BY <1>1, <1>2, <1>7
<1>9. /\ Rest = p - b /\ Rest' = p - b + F
      /\ Level = capture + p - b /\ Level' = capture' + p - b + F
  <2>1. Rest = p - b /\ Rest' = p + F - b
    BY <1>2, <1>5, <1>6 DEF Rest
  <2>2. Level = capture + Rest /\ Level' = capture' + Rest'
    BY DEF Level
  <2> HIDE DEF b, p, cap
  <2> QED
    BY <1>2, <1>8, <2>1, <2>2
<1>10. calm >= 1 => /\ turn = "in" /\ Level >= 0
                    /\ Suits(Level, b, cap, p - b, 1, calm - 1)
                    /\ SuitsNow(Level, b, cap, p - b, p >= F)
                    /\ (p >= F => capture <= cap)
                    /\ (calm > F => ~gap)
  BY <1>1, <1>2, <1>6, <1>9 DEF SteadyInv, CalmInv
<1>11. needed' = b /\ needed' > 0
  BY <1>1, <1>2
<1>12. ShapeInv'
  <2> HIDE DEF b, p, cap
  <2>1. needed' # 0 /\ held' < b + F
    BY <1>2, <1>3, <1>5, <1>11
  <2> QED
    BY <1>5, <2>1 DEF ShapeInv
<1> HIDE DEF b, p, cap
<1>13. ASSUME calm >= 1 PROVE CalmInv'
  <2>1. /\ bounded >= F /\ capture <= cap => Level' = Level
        /\ bounded >= F /\ capture > cap =>
              Level' = cap + p - b /\ F <= Level' /\ Level' <= Level
        /\ bounded < F => F <= Level' /\ Level' <= 2 * F
    <3>1. CASE bounded >= F /\ capture <= cap
      BY <1>1, <1>2, <1>3, <1>9, <1>7, <3>1
    <3>2. CASE bounded >= F /\ capture > cap
      BY <1>1, <1>2, <1>3, <1>9, <1>7, <3>2
    <3>3. CASE bounded < F
      <4>1. bounded = capture /\ capture < F /\ capture' = capture
        BY <1>1, <1>2, <1>7, <3>3
      <4>2. Level' = Level + F /\ Level <= F /\ Level >= 0
        BY <1>2, <1>3, <1>9, <1>10, <1>13, <4>1
      <4> QED
        BY <1>2, <1>8, <1>9, <3>3, <4>1, <4>2
    <3>4. \/ bounded >= F /\ capture <= cap
          \/ bounded >= F /\ capture > cap
          \/ bounded < F
      BY <1>2, <1>8
    <3> QED
      BY <3>1, <3>2, <3>3, <3>4
  <2>2. Level \in Int /\ Level' \in Int /\ p - b \in Int /\ b \in Nat /\ cap \in Int
    BY <1>2, <1>9, <1>8
  <2>3. Outcome(Level, Level')
    BY <1>2, <1>8, <2>1, <2>2 DEF Outcome
  <2>4. Suits(Level', b, cap, p - b + F, 1, calm - 1)
    <3>1. calm - 1 \in Int /\ Suits(Level, b, cap, p - b, 1, calm - 1)
      BY <1>2, <1>10, <1>13
    <3> QED
      BY <1>2, <2>2, <2>3, <3>1, SuitsFrame
  <2>5. SuitsNow(Level', b, cap, p - b + F, p + F >= F)
    <3> SUFFICES ASSUME NEW x, Residue(x, p - b + F + b)
                 PROVE  Level' <= CAPTURE - b + x /\ Level' <= cap - b + x
      BY Zenon DEF SuitsNow
    <3>1. x \in 0 .. F - 1
      BY DEF Residue
    <3>2. Residue(x, p - b + b)
      <4>1. p - b + F + b \in Int /\ -1 \in Int
            /\ (p - b + F + b) + (-1) * F = p - b + b
        BY <1>2
      <4> QED
        BY <4>1, ResidueShift
    <3>3. Level <= CAPTURE - b + x /\ (p >= F => Level <= cap - b + x)
      BY <1>10, <1>13, <3>2 DEF SuitsNow
    <3>4. ASSUME p < F PROVE x = p
      <4>1. p \in 0 .. F - 1 /\ p - b + b = p
        BY <1>2, <3>4
      <4> QED
        BY <3>2, <4>1, ResidueOne
    <3>5. CASE bounded < F
      BY <1>2, <2>1, <2>2, <3>1, <3>5
    <3>6. CASE bounded >= F /\ p < F
      <4>1. Level' <= cap + p - b
        <5>1. CASE capture <= cap
          BY <1>2, <1>9, <2>1, <2>2, <3>6, <5>1
        <5>2. CASE capture > cap
          BY <1>2, <2>1, <2>2, <3>6, <5>2
        <5> QED
          BY <1>2, <5>1, <5>2
      <4>2. Level' <= CAPTURE - b + x
        BY <1>2, <2>1, <2>2, <3>1, <3>3, <3>6
      <4> QED
        BY <1>2, <2>2, <3>4, <3>6, <4>1, <4>2
    <3>7. CASE bounded >= F /\ p >= F
      BY <1>2, <2>1, <2>2, <3>1, <3>3, <3>7
    <3> QED
      BY <1>2, <1>8, <3>5, <3>6, <3>7
  <2>6. Level' >= 0
    BY <1>2, <1>8, <1>10, <1>13, <2>1, <2>2
  <2>7. capture' <= cap
    BY <1>1, <1>2, <1>8
  <2>8. ASSUME calm > F PROVE ~gap'
    <3>1. ~gap /\ Suits(Level, b, cap, p - b, 1, calm - 1)
      BY <1>10, <1>13, <2>8
    <3>2. /\ p < F => Level <= cap - b + p
          /\ b <= p + F => Level >= p + F - b
      BY <1>2, <1>3, <2>2, <2>8, <3>1, FrameAgain
    <3>3. capture <= cap
      BY <1>2, <1>9, <1>10, <1>13, <3>2
    <3>4. capture >= F
      BY <1>2, <1>9, <1>10, <1>13, <3>2
    <3>5. ~(capture > cap) /\ ~(bounded < F)
      BY <1>2, <1>7, <3>3, <3>4
    <3> QED
      BY <1>1, <3>1, <3>5, Zenon DEF cap
  <2>9. /\ (IF due' > 0 THEN 1 ELSE 0) = 1 /\ block' = b /\ drift_cap' = cap
        /\ Rest' = p - b + F /\ held' = p + F /\ turn' = "in" /\ calm' = calm
    BY <1>1, <1>2, <1>5, <1>6, <1>9, <1>10, <1>13
  <2> QED
    BY <2>4, <2>5, <2>6, <2>7, <2>8, <2>9 DEF CalmInv
<1> QED
  BY <1>1, <1>12, <1>13 DEF SteadyInv

LEMMA DrainSteady ==
    ASSUME SizesFit, IInv, SteadyInv, Drain
    PROVE  SteadyInv'
<1>1. /\ needed > 0 /\ (data # <<>> \/ pending.len >= needed) /\ Len(data) < needed
      /\ data' = data \o popped(pending, take) /\ pending' = pop(pending, take)
      /\ hw' = hw /\ capture' = capture /\ needed' = needed /\ turn' = turn
      /\ calm' = calm /\ gap' = gap
  BY DEF Drain
<1>2. /\ pending \in Fifos /\ data \in Seq(Samples) /\ pending.len \in Nat /\ needed \in Nat
      /\ Len(data) \in Nat
  BY Numbers DEF IInv, BridgeTypeOK
<1>3. needed - Len(data) <= pending.len
  <2>1. CASE data = <<>>
    BY <1>1, <1>2, <2>1
  <2>2. CASE data # <<>>
    BY <2>2 DEF IInv, RestInv
  <2> QED
    BY <2>1, <2>2
<1>4. take \in 1 .. F /\ take \in 0 .. pending.len
  BY <1>1, <1>2, <1>3 DEF take, least
<1>5. pending'.len = pending.len - take
  BY <1>1, <1>2, <1>4, PopIsTail, Zenon
<1>6. Len(data') = Len(data) + take
  <2>1. popped(pending, take) = SubSeq(contents(pending), 1, take)
    BY <1>2, <1>4, PoppedIsFront
  <2>2. contents(pending) \in Seq(Samples) /\ Len(contents(pending)) = pending.len
    BY <1>2, ContentsType
  <2>3. popped(pending, take) \in Seq(Samples) /\ Len(popped(pending, take)) = take
    BY <1>2, <1>4, <2>1, <2>2
  <2>4. Len(data \o popped(pending, take)) = Len(data) + Len(popped(pending, take))
    BY <1>2, <2>3, ConcatProperties, Zenon
  <2> QED
    BY <1>1, <2>3, <2>4
<1>7. block' = block /\ drift_cap' = drift_cap /\ held' = held
  <2>1. held' = pending'.len + Len(data')
    BY DEF held
  <2>2. held' = held
    BY <1>2, <1>4, <1>5, <1>6, <2>1 DEF held
  <2> QED
    BY <1>1, <2>2 DEF block, drift_cap
<1>8. due' = due /\ Rest' = Rest /\ Level' = Level
  BY <1>1, <1>7 DEF due, Rest, Level
<1>9. ShapeInv'
  BY <1>1, <1>2, <1>7 DEF SteadyInv, ShapeInv
<1>10. data' # <<>>
  BY <1>2, <1>4, <1>6
<1>11. ASSUME calm >= 1 PROVE CalmInv'
  <2>1. CalmInv
    BY <1>11 DEF SteadyInv
  <2> QED
    BY <1>1, <1>7, <1>8, <1>10, <2>1 DEF CalmInv
<1> QED
  BY <1>1, <1>9, <1>11 DEF SteadyInv

LEMMA OutputEndSteady ==
    ASSUME SizesFit, IInv, SteadyInv, OutputEnd
    PROVE  SteadyInv'
<1> DEFINE b == block
           cap == drift_cap
           p == pending.len
<1>1. /\ needed > 0 /\ Len(data) = needed /\ needed' = 0 /\ data' = <<>>
      /\ hw' = hw /\ capture' = capture /\ pending' = pending /\ turn' = turn
      /\ calm' = calm /\ gap' = gap
  BY DEF OutputEnd
<1>2. /\ b \in Nat \ {0} /\ cap \in Nat /\ b + 2 * F <= CAPTURE /\ b + 2 * F <= cap
      /\ capture \in 0 .. CAPTURE /\ p \in Nat /\ needed = b /\ held = p + b
      /\ calm \in Nat
  BY <1>1, Numbers, SizeBounds DEF held
<1>3. block' = b /\ drift_cap' = cap /\ held' = p
  <2>1. Len(data') = 0 /\ held' = pending'.len + Len(data')
    BY <1>1 DEF held
  <2> QED
    BY <1>1, <1>2, <2>1 DEF block, drift_cap
<1>4. p \in 0 .. F - 1
  BY <1>1, <1>2 DEF SteadyInv, ShapeInv
<1>5. ShapeInv'
  BY <1>1, <1>4 DEF ShapeInv
<1>6. ASSUME calm >= 1 PROVE CalmInv'
  <2>1. turn = "in" /\ due = b /\ due' = 0
    <3>1. turn = "in"
      BY <1>1, <1>6 DEF SteadyInv, CalmInv
    <3>2. due = b
      BY <1>1 DEF due
    <3>3. due' = 0
      BY <1>1, <3>1 DEF due
    <3> QED
      BY <3>1, <3>2, <3>3
  <2>2. Rest = p /\ Rest' = p /\ Level = capture + p /\ Level' = Level
    BY <1>1, <1>2, <1>3, <2>1 DEF Rest, Level
  <2>3. /\ Level >= 0 /\ Suits(Level, b, cap, p, 1, calm - 1)
        /\ SuitsNow(Level, b, cap, p, held >= F) /\ (calm > F => ~gap)
    BY <1>2, <1>6, <2>1, <2>2 DEF SteadyInv, CalmInv
  <2>4. PICK n \in Nat : n = calm
    BY <1>2
  <2> HIDE DEF b, cap, p
  <2>5. Suits(Level, b, cap, p, 0, n - 1)
    <3> SUFFICES ASSUME NEW i \in 0 .. n - 1
                 PROVE  Enough(Level, p + i * b) /\ Room(Level, b, cap, p + (i + 1) * b)
      BY Zenon DEF Suits
    <3>1. CASE i >= 1
      <4>1. i \in 1 .. calm - 1
        BY <2>4, <3>1
      <4> QED
        BY <2>3, <4>1, Zenon DEF Suits
    <3>2. CASE i = 0
      <4>1. p + i * b = p /\ p + (i + 1) * b = p + b
        BY <1>2, <3>2
      <4>2. Enough(Level, p)
        <5> SUFFICES ASSUME NEW x, Residue(x, p) PROVE Level >= x
          BY DEF Enough
        <5>1. x = p
          BY <1>4, ResidueOne
        <5> QED
          BY <1>2, <2>2, <5>1
      <4>3. Room(Level, b, cap, p + b)
        <5> SUFFICES ASSUME NEW x, Residue(x, p + b)
                     PROVE  Level <= CAPTURE - b + x /\ (x < b => Level <= cap - b + x)
          BY DEF Room
        <5>1. Level <= CAPTURE - b + x /\ (held >= F => Level <= cap - b + x)
          BY <2>3 DEF SuitsNow
        <5>2. ASSUME ~(held >= F) PROVE x = p + b
          <6>1. p + b \in 0 .. F - 1
            BY <1>2, <5>2
          <6> QED
            BY <6>1, ResidueOne
        <5>3. x \in 0 .. F - 1
          BY DEF Residue
        <5> QED
          BY <1>2, <5>1, <5>2, <5>3
      <4> QED
        BY <4>1, <4>2, <4>3
    <3> QED
      BY <3>1, <3>2
  <2>6. (IF due' > 0 THEN 1 ELSE 0) = 0 /\ ~(due' > 0) /\ ~(needed' > 0)
    BY <1>1, <2>1
  <2>7. Suits(Level', block', drift_cap', Rest', 0, calm' - 1)
    BY <1>1, <1>3, <2>2, <2>4, <2>5
  <2>8. (calm' > F => ~gap') /\ Level' >= 0
    BY <1>1, <2>2, <2>3
  <2> QED
    BY <2>6, <2>7, <2>8 DEF CalmInv
<1> QED
  BY <1>1, <1>5, <1>6 DEF SteadyInv

\* Every step of the callbacks keeps the invariant.
LEMMA StepSteady ==
    ASSUME SizesFit, IInv, SteadyInv, BridgeNext
    PROVE  SteadyInv'
  BY InputSteady, OutputBeginSteady, FillSteady, DrainSteady, OutputEndSteady DEF BridgeNext

LEMMA StutterSteady ==
    ASSUME SteadyInv, UNCHANGED bridge
    PROVE  SteadyInv'
<1>1. /\ hw' = hw /\ capture' = capture /\ pending' = pending /\ needed' = needed
      /\ data' = data /\ turn' = turn /\ calm' = calm /\ gap' = gap
  BY DEF bridge
<1>2. block' = block /\ drift_cap' = drift_cap /\ held' = held
  BY <1>1 DEF block, drift_cap, held
<1>3. due' = due /\ Rest' = Rest /\ Level' = Level
  BY <1>1, <1>2 DEF due, Rest, Level
<1> QED
  BY <1>1, <1>2, <1>3 DEF SteadyInv, ShapeInv, CalmInv

\* A new fifo is empty, and no period is calm yet.
LEMMA SteadyInit ==
    ASSUME needed = 0, pending = new_fifo, calm = 0
    PROVE  SteadyInv
<1>1. pending.len = 0
  BY DEF new_fifo
<1> QED
  BY <1>1 DEF SteadyInv, ShapeInv

\* The two callbacks alone: once they have taken turns for F periods no sample is
\* dropped and none is missing, whatever a hiccup has left in the capture ring, if
\* the device takes no more than was asked for (engine.rs 408-432).
THEOREM HeardWithoutGap ==
    ASSUME SizesFit
    PROVE  BridgeSpec => []SteadyIsHeard
<1>1. BridgeInit => IInv /\ SteadyInv
  <2>1. BridgeInit => needed = 0 /\ pending = new_fifo /\ calm = 0
    BY DEF BridgeInit
  <2> QED
    BY <2>1, InitInv, SteadyInit
<1>2. IInv /\ SteadyInv /\ [BridgeNext]_bridge => (IInv /\ SteadyInv)'
  BY StepRefines, StutterRefines, StepSteady, StutterSteady
<1>3. IInv /\ SteadyInv => SteadyIsHeard
  <2>1. IInv => calm \in Nat
    BY Numbers
  <2>2. calm \in Nat /\ calm > F => calm >= 1
    OBVIOUS
  <2> QED
    BY <2>1, <2>2 DEF SteadyInv, CalmInv, SteadyIsHeard
<1> QED
  BY <1>1, <1>2, <1>3, PTL DEF BridgeSpec

seated == {seat[d] : d \in Dests} \ {Nobody}

-----------------------------------------------------------------------------
(* The end of a session.                                                   *)

\* When the control thread is gone it has taken leave of everyone with a seat.
ThreadInv ==
    /\ main = "ended" => rx = "gone" /\ ctl = "gone" /\ tx = "gone"
    /\ ctl = "gone" => seated \subseteq byes

\* No session has ended when the process starts.
LEMMA ThreadInit == Init => ThreadInv
  BY DEF Init, ThreadInv

\* A step that leaves the threads and the seats alone.
LEMMA ThreadsAlone ==
    ASSUME ThreadInv,
           main' = main \/ main' # "ended", UNCHANGED <<rx, ctl, tx, byes, seat>>
    PROVE  ThreadInv'
  BY DEF ThreadInv, seated

\* Nothing in the callbacks touches the control thread's state.
LEMMA CallbackKeeps == Callback => UNCHANGED <<control, role, updates, transmit>>
  BY DEF Callback, FrameBegin, Emit, EncodeFails

\* Every step keeps it: only the control thread seats anyone, and a new session
\* starts without a thread.
LEMMA ThreadStep ==
    ASSUME ThreadInv, [Next]_vars
    PROVE  ThreadInv'
<1>1. CASE SpawnThreads
  BY <1>1 DEF SpawnThreads, ThreadInv, seated
<1>2. CASE AudioStarts \/ AudioFails \/ Shutdown \/ DropStreams
  BY <1>2, ThreadsAlone DEF AudioStarts, AudioFails, Shutdown, DropStreams, sender, control, threads
<1>3. CASE JoinThreads
  BY <1>3 DEF JoinThreads, ThreadInv, seated, sender, control, threads
<1>4. CASE Again
  BY <1>4 DEF Again, ThreadInv
<1>5. CASE Rx
  BY <1>5 DEF Rx, ThreadInv, seated, sender, control
<1>6. CASE CtlHandles
  BY <1>6 DEF CtlHandles, ThreadInv, threads
<1>7. CASE CtlTells
  BY <1>7, ThreadsAlone DEF CtlTells, Tell, process, threads
<1>8. CASE CtlIgnores
  BY <1>8, ThreadsAlone DEF CtlIgnores, sender, control, threads
<1>9. CASE CtlEnds
  BY <1>9 DEF CtlEnds, ThreadInv, seated, sender, control
<1>10. CASE TxEnds
  BY <1>10 DEF TxEnds, ThreadInv, seated, sender, control
<1>11. CASE TxGoes
  BY <1>11, ThreadsAlone DEF TxGoes, TxDrain, TxLoop, TxPop, TxIdle, process, threads, control
<1>12. CASE StreamsCall
  BY <1>12, ThreadsAlone DEF StreamsCall, sender, control, process, threads
<1>13. CASE CallerCalls
  BY <1>13, ThreadsAlone, CallbackKeeps DEF CallerCalls, control, process, threads
<1>14. CASE UNCHANGED vars
  BY <1>14, ThreadsAlone DEF vars, sender, control, process, threads
<1> QED
  BY <1>1, <1>2, <1>3, <1>4, <1>5, <1>6, <1>7, <1>8, <1>9, <1>10, <1>11, <1>12, <1>13, <1>14
     DEF Next, Ctl, Tx

\* When shutdown has returned, everyone with a seat has been told BYE and no thread
\* runs (control.rs 258-266, engine.rs 57-65).
THEOREM GoodbyeAlwaysSaid == Spec => []GoodbyeSaid
<1>1. Init => ThreadInv
  BY ThreadInit
<1>2. ThreadInv /\ [Next]_vars => ThreadInv'
  BY ThreadStep
<1>3. ThreadInv => GoodbyeSaid
  BY DEF ThreadInv, GoodbyeSaid, seated
<1> QED
  BY <1>1, <1>2, <1>3, PTL DEF Spec

-----------------------------------------------------------------------------
(* Who the transmit thread sends to.                                       *)

USE PacketAssumption, SenderAssumption

\* A message is not the absence of one.
LEMMA PairIsNoNoUpdate == \A d, t : <<d, t>> # NoUpdate
  BY DEF NoUpdate

TableType ==
    /\ role \in {"host", "client"} /\ tenants \in Nat
    /\ seat \in [Dests -> Nat] /\ txtable \in [Dests -> Nat]
    /\ updates \in Seq(Dests \X Nat)
    /\ owed # NoUpdate => owed \in Dests \X Nat

\* The updates for a destination have a last one.
LastInv == \A d \in Dests : news(d) # {} => \E k \in news(d) : \A j \in news(d) : j <= k

\* What the table and the channel say, with the message that is still owed, is who
\* has the seat; a client's host never changes.
HostInv ==
    role = "host" =>
        /\ \A d \in Dests : owed = NoUpdate \/ owed[1] # d => resolved(d) = seat[d]
        /\ owed # NoUpdate => owed[2] = seat[owed[1]]
ClientInv == role = "client" => tenants = 0 /\ owed = NoUpdate

\* Who is known to have left has no seat, and no update will send to him again.
LeftInv ==
    /\ left \subseteq 1 .. tenants /\ known \subseteq left
    /\ \A d \in Dests : seat[d] \notin left /\ resolved(d) \notin left

TableInv == TableType /\ LastInv /\ HostInv /\ ClientInv /\ LeftInv /\ DepartedLeftAlone

table_state == <<role, tenants, seat, owed, updates, txtable, left, known>>

\* A step that leaves the channel and the table alone changes nothing of what they
\* say.
LEMMA SameWord ==
    ASSUME UNCHANGED <<updates, txtable>>
    PROVE  \A d : news(d)' = news(d) /\ resolved(d)' = resolved(d)
<1>1. \A d : news(d)' = news(d)
  BY DEF news
<1> QED
  BY <1>1 DEF resolved

\* A step that touches neither table nor seats keeps the invariant.
LEMMA TableAlone ==
    ASSUME TableInv, UNCHANGED table_state
    PROVE  TableInv'
<1>1. /\ role' = role /\ tenants' = tenants /\ seat' = seat /\ owed' = owed
      /\ updates' = updates /\ txtable' = txtable /\ left' = left /\ known' = known
  BY DEF table_state
<1>2. \A d : news(d)' = news(d) /\ resolved(d)' = resolved(d)
  BY <1>1, SameWord
<1>3. TableType' /\ ClientInv' /\ DepartedLeftAlone'
  BY <1>1 DEF TableInv, TableType, ClientInv, DepartedLeftAlone
<1>4. LastInv'
  BY <1>2, Zenon DEF TableInv, LastInv
<1>5. HostInv'
  BY <1>1, <1>2, Zenon DEF TableInv, HostInv
<1>6. LeftInv'
  BY <1>1, <1>2, Zenon DEF TableInv, LeftInv
<1> QED
  BY <1>3, <1>4, <1>5, <1>6 DEF TableInv

\* An update becomes the last one for its destination, and changes no other.
LEMMA Appended ==
    ASSUME TableType, LastInv, owed \in Dests \X Nat,
           updates' = Append(updates, owed), txtable' = txtable,
           NEW d \in Dests
    PROVE  /\ resolved(d)' = IF owed[1] = d THEN owed[2] ELSE resolved(d)
           /\ news(d)' # {} => \E k \in news(d)' : \A j \in news(d)' : j <= k
<1> DEFINE n == Len(updates)
<1>1. /\ n \in Nat /\ DOMAIN updates = 1 .. n /\ DOMAIN updates' = 1 .. n + 1
      /\ \A k \in 1 .. n : updates'[k] = updates[k]
      /\ updates'[n + 1] = owed
  BY DEF TableType
<1> HIDE DEF n
<1>2. CASE owed[1] = d
  <2>1. n + 1 \in news(d)' /\ \A j \in news(d)' : j \in Int /\ j <= n + 1
    BY <1>1, <1>2 DEF news
  <2>2. newest(news(d)') = n + 1
    BY <1>1, <2>1 DEF newest
  <2> QED
    BY <1>1, <1>2, <2>1, <2>2 DEF resolved
<1>3. CASE owed[1] # d
  <2>1. news(d)' = news(d) /\ news(d) \subseteq 1 .. n
    BY <1>1, <1>3 DEF news
  <2>2. ASSUME news(d) # {}
        PROVE  newest(news(d)) \in news(d)
    BY <2>2 DEF newest, LastInv
  <2>3. newest(news(d)') = newest(news(d))
    BY <2>1
  <2>4. CASE news(d) = {}
    BY <1>1, <1>3, <2>1, <2>4 DEF resolved
  <2>5. CASE news(d) # {}
    <3>1. newest(news(d)) \in 1 .. n
      BY <2>1, <2>2, <2>5
    <3>2. updates'[newest(news(d)')] = updates[newest(news(d))]
      BY <1>1, <2>3, <3>1, Zenon
    <3>3. resolved(d)' = resolved(d)
      BY <1>1, <2>1, <2>5, <3>2, Zenon DEF resolved
    <3> QED
      BY <1>3, <2>1, <3>3, Zenon DEF LastInv
  <2> QED
    BY <2>4, <2>5
<1> QED
  BY <1>2, <1>3

-----------------------------------------------------------------------------
(* A new session.                                                          *)

\* The channel of a new session, of a host or a client.
LEMMA FirstUpdates ==
    ASSUME NEW u, u = <<>> \/ u = <<<<DEST_PEER, HOST>>>>
    PROVE  u \in Seq(Dests \X Nat) /\ DOMAIN u \subseteq {1}
<1>1. DEST_PEER \in Dests /\ HOST \in Nat
  BY DEF DEST_PEER, Dests, HOST
<1>2. CASE u = <<>>
  BY <1>2
<1>3. CASE u = <<<<DEST_PEER, HOST>>>>
  BY <1>1, <1>3
<1> QED
  BY <1>2, <1>3

\* A new process has no client, and its table agrees with that.
LEMMA TableInit ==
    ASSUME Init
    PROVE  TableInv
<1> USE EngineAssumption
<1>1. PICK k \in Kinds : SenderInit(k.role)
  BY DEF Init
<1>2. /\ role \in {"host", "client"} /\ owed = NoUpdate /\ tenants = 0 /\ left = {} /\ known = {}
      /\ updates = IF role = "client" THEN <<<<DEST_PEER, HOST>>>> ELSE <<>>
      /\ seat = [d \in Dests |-> 0] /\ txtable = [d \in Dests |-> 0]
  BY <1>1 DEF SenderInit, Nobody
<1>3. updates \in Seq(Dests \X Nat) /\ DOMAIN updates \subseteq {1}
  BY <1>2, FirstUpdates
<1>4. TableType
  BY <1>2, <1>3 DEF TableType
<1>5. \A d : news(d) \subseteq {1}
  BY <1>3 DEF news
<1>6. LastInv
  BY <1>5 DEF LastInv
<1>7. HostInv
  <2> SUFFICES ASSUME role = "host", NEW d \in Dests PROVE resolved(d) = seat[d]
    BY <1>2 DEF HostInv
  <2>1. news(d) = {}
    BY <1>2 DEF news
  <2> QED
    BY <1>2, <2>1 DEF resolved
<1>8. ClientInv /\ LeftInv /\ DepartedLeftAlone
  BY <1>2 DEF ClientInv, LeftInv, DepartedLeftAlone
<1> QED
  BY <1>4, <1>6, <1>7, <1>8 DEF TableInv

\* Nor does a new session of it.
LEMMA AgainTable ==
    ASSUME TableInv, Again
    PROVE  TableInv'
<1>2. /\ role' = role /\ role \in {"host", "client"}
      /\ owed' = NoUpdate /\ tenants' = 0 /\ left' = {} /\ known' = {}
      /\ updates' = IF role = "client" THEN <<<<DEST_PEER, HOST>>>> ELSE <<>>
      /\ seat' = [d \in Dests |-> 0] /\ txtable' = [d \in Dests |-> 0]
  BY DEF Again, Nobody, TableInv, TableType
<1>3. updates' \in Seq(Dests \X Nat) /\ DOMAIN updates' \subseteq {1}
  BY <1>2, FirstUpdates
<1>4. TableType'
  BY <1>2, <1>3 DEF TableType
<1>5. \A d : news(d)' \subseteq {1}
  BY <1>3 DEF news
<1>6. LastInv'
  BY <1>5 DEF LastInv
<1>7. HostInv'
  <2> SUFFICES ASSUME role = "host", NEW d \in Dests PROVE resolved(d)' = seat'[d]
    BY <1>2 DEF HostInv
  <2>1. news(d)' = {}
    BY <1>2 DEF news
  <2> QED
    BY <1>2, <2>1 DEF resolved
<1>8. ClientInv' /\ LeftInv' /\ DepartedLeftAlone'
  BY <1>2 DEF ClientInv, LeftInv, DepartedLeftAlone
<1> QED
  BY <1>4, <1>6, <1>7, <1>8 DEF TableInv

-----------------------------------------------------------------------------
(* The control thread's steps.                                             *)

\* A newcomer is no one who has left.
LEMMA JoinedTable ==
    ASSUME TableInv, NEW d \in Dests, ClientJoined(d)
    PROVE  TableInv'
<1>1. /\ role = "host" /\ role' = role /\ owed = NoUpdate /\ owed' = <<d, tenants + 1>>
      /\ tenants' = tenants + 1 /\ seat' = [seat EXCEPT ![d] = tenants + 1]
      /\ updates' = updates /\ txtable' = txtable /\ left' = left /\ known' = known
  BY DEF ClientJoined, callback, transmit
<1>2. \A e : news(e)' = news(e) /\ resolved(e)' = resolved(e)
  BY <1>1, SameWord
<1>3. TableType'
  BY <1>1, SMTT(30) DEF TableInv, TableType
<1>4. LastInv'
  BY <1>2, Zenon DEF TableInv, LastInv
<1>5. HostInv'
  <2>1. owed' # NoUpdate /\ owed'[1] = d /\ owed'[2] = seat'[owed'[1]]
    BY <1>1, PairIsNoNoUpdate DEF TableInv, TableType
  <2>2. \A e \in Dests : e # d => resolved(e) = seat[e] /\ seat'[e] = seat[e]
    BY <1>1, Zenon DEF TableInv, TableType, HostInv
  <2>3. \A e \in Dests : owed'[1] # e => resolved(e)' = seat'[e]
    BY <1>2, <2>1, <2>2, Zenon
  <2> QED
    BY <2>1, <2>3, Zenon DEF HostInv
<1>6. LeftInv'
  BY <1>1, <1>2 DEF TableInv, TableType, LeftInv
<1> QED
  BY <1>1, <1>3, <1>4, <1>5, <1>6 DEF TableInv, ClientInv, DepartedLeftAlone

\* A departure empties the seat and is owed to the transmit thread.
LEMMA LeftTable ==
    ASSUME TableInv, NEW d \in Dests, ClientLeft(d)
    PROVE  TableInv'
<1>1. /\ role = "host" /\ role' = role /\ owed = NoUpdate /\ owed' = <<d, 0>>
      /\ tenants' = tenants /\ seat' = [seat EXCEPT ![d] = 0]
      /\ updates' = updates /\ txtable' = txtable /\ left' = left /\ known' = known
  BY DEF ClientLeft, callback, transmit, Nobody
<1>2. \A e : news(e)' = news(e) /\ resolved(e)' = resolved(e)
  BY <1>1, SameWord
<1>3. TableType'
  BY <1>1 DEF TableInv, TableType
<1>4. LastInv'
  BY <1>2, Zenon DEF TableInv, LastInv
<1>5. HostInv'
  <2>1. owed' # NoUpdate /\ owed'[1] = d /\ owed'[2] = seat'[owed'[1]]
    BY <1>1, PairIsNoNoUpdate DEF TableInv, TableType
  <2>2. \A e \in Dests : e # d => resolved(e) = seat[e] /\ seat'[e] = seat[e]
    BY <1>1, Zenon DEF TableInv, TableType, HostInv
  <2>3. \A e \in Dests : owed'[1] # e => resolved(e)' = seat'[e]
    BY <1>2, <2>1, <2>2, Zenon
  <2> QED
    BY <2>1, <2>3, Zenon DEF HostInv
<1>6. LeftInv'
  BY <1>1, <1>2 DEF TableInv, TableType, LeftInv
<1> QED
  BY <1>1, <1>3, <1>4, <1>5, <1>6 DEF TableInv, ClientInv, DepartedLeftAlone

\* A client's host is never among those who have left.
LEMMA SetJoinedTable ==
    ASSUME TableInv, SetJoined
    PROVE  TableInv'
<1>1. /\ role = "client" /\ role' = role /\ owed' = owed /\ tenants' = tenants
      /\ seat' = [seat EXCEPT ![DEST_PEER] = IF @ = 0 THEN 1 ELSE 0]
      /\ updates' = updates /\ txtable' = txtable /\ left' = left /\ known' = known
  BY DEF SetJoined, callback, transmit, Nobody, HOST
<1>2. \A e : news(e)' = news(e) /\ resolved(e)' = resolved(e)
  BY <1>1, SameWord
<1>3. left = {}
  BY <1>1 DEF TableInv, LeftInv, ClientInv
<1>4. TableType'
  BY <1>1 DEF TableInv, TableType
<1>5. LastInv'
  BY <1>2, Zenon DEF TableInv, LastInv
<1>6. LeftInv'
  BY <1>1, <1>2, <1>3 DEF TableInv, LeftInv
<1> QED
  BY <1>1, <1>4, <1>5, <1>6 DEF TableInv, ClientInv, HostInv, DepartedLeftAlone

\* The message makes the table to come agree with the seats again.
LEMMA TellTable ==
    ASSUME TableInv, Tell
    PROVE  TableInv'
<1>1. /\ role' = role /\ owed # NoUpdate /\ owed' = NoUpdate /\ tenants' = tenants
      /\ seat' = seat /\ updates' = Append(updates, owed) /\ txtable' = txtable
      /\ left' = gone /\ known' = known
  BY DEF Tell, callback, transmit
<1>2. role = "host" /\ owed \in Dests \X Nat
  BY <1>1 DEF TableInv, TableType, ClientInv
<1>3. \A d \in Dests : resolved(d)' = IF owed[1] = d THEN owed[2] ELSE resolved(d)
  BY <1>1, <1>2, Appended DEF TableInv
<1>4. \A d \in Dests : resolved(d)' = seat[d]
  BY <1>1, <1>2, <1>3 DEF TableInv, HostInv
<1>5. TableType'
  BY <1>1, <1>2 DEF TableInv, TableType
<1>6. LastInv'
  <2> SUFFICES ASSUME NEW d \in Dests
               PROVE  news(d)' # {} => \E k \in news(d)' : \A j \in news(d)' : j <= k
    BY Zenon DEF LastInv
  <2> QED
    BY <1>1, <1>2, Appended DEF TableInv
<1>7. HostInv'
  BY <1>1, <1>4 DEF HostInv
<1>8. LeftInv'
  <2>1. left \subseteq gone /\ \A d \in Dests : seat[d] \notin gone
    BY DEF gone, TableInv, LeftInv
  <2>2. gone \subseteq 1 .. tenants
    BY DEF gone
  <2> QED
    BY <1>1, <1>4, <2>1, <2>2 DEF TableInv, LeftInv
<1> QED
  BY <1>1, <1>2, <1>5, <1>6, <1>7, <1>8 DEF TableInv, ClientInv, DepartedLeftAlone

-----------------------------------------------------------------------------
(* The transmit thread's steps.                                            *)

\* The table becomes what it was to become.
LEMMA DrainTable ==
    ASSUME TableInv, TxDrain
    PROVE  TableInv'
<1>1. /\ role' = role /\ owed' = owed /\ tenants' = tenants /\ seat' = seat
      /\ updates' = <<>> /\ txtable' = [d \in Dests |-> resolved(d)]
      /\ left' = left /\ known' = left
  BY DEF TxDrain, control
<1>2. \A d : news(d)' = {}
  BY <1>1 DEF news
<1>3. \A d \in Dests : resolved(d)' = resolved(d)
  BY <1>1, <1>2 DEF resolved
<1>4. ASSUME NEW d \in Dests
      PROVE  resolved(d) \in Nat
  <2>1. CASE news(d) = {}
    BY <2>1 DEF resolved, TableInv, TableType
  <2>2. CASE news(d) # {}
    <3>1. newest(news(d)) \in news(d)
      BY <2>2 DEF newest, TableInv, LastInv
    <3>2. newest(news(d)) \in DOMAIN updates
      BY <3>1 DEF news
    <3>3. updates[newest(news(d))] \in Dests \X Nat
      BY <3>2 DEF TableInv, TableType
    <3> QED
      BY <2>2, <3>3 DEF resolved
  <2> QED
    BY <2>1, <2>2
<1>5. TableType'
  BY <1>1, <1>4 DEF TableInv, TableType
<1>6. LastInv'
  BY <1>2 DEF LastInv
<1>7. HostInv'
  BY <1>1, <1>3 DEF TableInv, HostInv
<1>8. LeftInv' /\ DepartedLeftAlone'
  BY <1>1, <1>3 DEF TableInv, LeftInv, DepartedLeftAlone
<1> QED
  BY <1>1, <1>5, <1>6, <1>7, <1>8 DEF TableInv, ClientInv

\* Every step keeps the invariant of the table.
LEMMA TableStep ==
    ASSUME TableInv, [Next]_vars
    PROVE  TableInv'
<1>1. CASE SpawnThreads \/ AudioStarts \/ AudioFails \/ Shutdown \/ DropStreams \/ JoinThreads
  BY <1>1, TableAlone DEF SpawnThreads, AudioStarts, AudioFails, Shutdown, DropStreams,
     JoinThreads, sender, control, transmit, table_state
<1>2. CASE Again
  BY <1>2, AgainTable
<1>3. CASE Rx \/ CtlIgnores \/ CtlEnds \/ TxEnds
  BY <1>3, TableAlone DEF Rx, CtlIgnores, CtlEnds, TxEnds, sender, control, transmit, table_state
<1>4. CASE CtlHandles
  BY <1>4, JoinedTable, LeftTable, SetJoinedTable DEF CtlHandles, Handle
<1>5. CASE CtlTells
  BY <1>5, TellTable DEF CtlTells
<1>6. CASE TxGoes
  <2>1. CASE TxDrain
    BY <2>1, DrainTable
  <2>2. CASE TxLoop
    BY <2>2, TableAlone DEF TxLoop, TxPop, TxIdle, control, transmit, table_state
  <2> QED
    BY <1>6, <2>1, <2>2 DEF TxGoes
<1>7. CASE StreamsCall
  BY <1>7, TableAlone DEF StreamsCall, sender, control, transmit, table_state
<1>8. CASE CallerCalls
  BY <1>8, TableAlone, CallbackKeeps DEF CallerCalls, control, transmit, table_state
<1>9. CASE UNCHANGED vars
  BY <1>9, TableAlone DEF vars, sender, control, transmit, table_state
<1> QED
  BY <1>1, <1>2, <1>3, <1>4, <1>5, <1>6, <1>7, <1>8, <1>9 DEF Next, Ctl, Tx

\* Once the transmit thread has drained its channel, nothing goes to a client of
\* whose departure it had been sent word, however many clients come and go and
\* however many updates it finds (net.rs 73-82, control.rs 152-157).
THEOREM DepartedAlwaysLeftAlone == Spec => []DepartedLeftAlone
<1>1. Init => TableInv
  BY TableInit
<1>2. TableInv /\ [Next]_vars => TableInv'
  BY TableStep
<1>3. TableInv => DepartedLeftAlone
  BY DEF TableInv
<1> QED
  BY <1>1, <1>2, <1>3, PTL DEF Spec

-----------------------------------------------------------------------------
(* What the device is handed, over all sessions of the process.            *)

\* The callbacks start as Playback does.
LEMMA BridgeInits ==
    ASSUME Init
    PROVE  IInv /\ Device!Init
  BY InitInv, InitRefines DEF Init

\* A new pipeline numbers its samples from nought, and the fifo is new.
LEMMA DropRestarts ==
    ASSUME IInv, DropStreams
    PROVE  IInv' /\ Device!Restart
<1>1. /\ needed = 0 /\ capture' = 0 /\ pending' = new_fifo /\ next' = 0 /\ turn' = "in"
      /\ calm' = 0 /\ hiccups' = MaxHiccups /\ gap' = FALSE
      /\ hw' = hw /\ needed' = needed /\ data' = data
  BY DEF DropStreams
<1>2. data = <<>>
  BY <1>1, NothingHanded
<1>3. new_fifo \in Fifos /\ contents(pending)' = <<>>
  BY <1>1, NewEmpty
<1>4. 0 \in Samples /\ 0 \in 0 .. CAPTURE /\ 0 \in 0 .. F + 1 /\ MaxHiccups \in 0 .. MaxHiccups
  BY FifoAssumption, BridgeAssumption
<1>5. block' = block
  BY <1>1 DEF block
<1>6. BridgeTypeOK'
  BY <1>1, <1>3, <1>4, <1>5, Zenon DEF IInv, BridgeTypeOK
<1>7. RestInv'
  BY <1>1, <1>2 DEF RestInv
<1>8. Device!Restart
  BY <1>1, <1>2, <1>3 DEF Device!Restart
<1> QED
  BY <1>6, <1>7, <1>8 DEF IInv

\* Every step of the process is a step of Playback or none.
LEMMA BridgeStep ==
    ASSUME IInv, [Next]_vars
    PROVE  IInv' /\ [Device!Next]_<<contents(pending), data, next>>
<1>1. CASE DropStreams
  BY <1>1, DropRestarts DEF Device!Next
<1>2. CASE StreamsCall
  BY <1>2, StepRefines DEF StreamsCall
<1>3. CASE UNCHANGED bridge
  BY <1>3, StutterRefines
<1> QED
  BY <1>1, <1>2, <1>3, Zenon
     DEF Next, vars, SpawnThreads, AudioStarts, AudioFails, Shutdown, JoinThreads, Again, Rx,
         Ctl, CtlHandles, CtlIgnores, CtlTells, CtlEnds, Tx, TxEnds, TxGoes, CallerCalls

\* In session after session the device gets the pipeline's samples in order, none
\* twice and none left out (engine.rs 57-65 and 350-383).
THEOREM SoundInOrder == Spec => InOrder
<1>1. Init => IInv /\ Device!Init
  BY BridgeInits
<1>2. IInv /\ [Next]_vars => IInv' /\ [Device!Next]_<<contents(pending), data, next>>
  BY BridgeStep
<1> QED
  BY <1>1, <1>2, PTL DEF Spec, InOrder, Device!Spec

-----------------------------------------------------------------------------
(* What the device hears.                                                  *)

\* Dropped streams leave a new fifo and an empty capture ring.
LEMMA DropSteady ==
    ASSUME DropStreams
    PROVE  SteadyInv'
<1>1. needed' = 0 /\ pending' = new_fifo /\ calm' = 0
  BY DEF DropStreams
<1>2. pending'.len = 0
  BY <1>1 DEF new_fifo
<1> QED
  BY <1>1, <1>2, BridgeAssumption DEF SteadyInv, ShapeInv

LEMMA SteadyStep ==
    ASSUME SizesFit, IInv, SteadyInv, [Next]_vars
    PROVE  SteadyInv'
<1>1. CASE DropStreams
  BY <1>1, DropSteady
<1>2. CASE StreamsCall
  BY <1>2, StepSteady DEF StreamsCall
<1>3. CASE UNCHANGED bridge
  BY <1>3, StutterSteady
<1> QED
  BY <1>1, <1>2, <1>3, Zenon
     DEF Next, vars, SpawnThreads, AudioStarts, AudioFails, Shutdown, JoinThreads, Again, Rx,
         Ctl, CtlHandles, CtlIgnores, CtlTells, CtlEnds, Tx, TxEnds, TxGoes, CallerCalls

\* In session after session: once the callbacks have taken turns for F periods no
\* sample is dropped and none is missing, if the device takes no more than was asked
\* for (engine.rs 408-432).
THEOREM SteadyAlwaysHeard ==
    ASSUME SizesFit
    PROVE  Spec => []SteadyIsHeard
<1>1. Init => IInv /\ SteadyInv
  <2>1. Init => needed = 0 /\ pending = new_fifo /\ calm = 0
    BY DEF Init, BridgeInit
  <2> QED
    BY <2>1, BridgeInits, SteadyInit
<1>2. IInv /\ SteadyInv /\ [Next]_vars => (IInv /\ SteadyInv)'
  BY BridgeStep, SteadyStep
<1>3. IInv /\ SteadyInv => SteadyIsHeard
  <2>1. IInv => calm \in Nat
    BY Numbers
  <2>2. calm \in Nat /\ calm > F => calm >= 1
    BY BridgeAssumption
  <2> QED
    BY <2>1, <2>2 DEF SteadyInv, CalmInv, SteadyIsHeard
<1> QED
  BY <1>1, <1>2, <1>3, PTL DEF Spec

-----------------------------------------------------------------------------
(* What goes out.                                                          *)

\* The times of the frames of a session, and payloads: a frame and its destination.
Stamps == 0 .. 254
Payloads == Int \X Int
Entries == [n : Nat, payload : Payloads]

\* The log of a destination counts from nought, and is as long as the next number;
\* the last payload is the log's last.
LogInv(d) ==
    /\ Len(sent[d]) = seqs[d]
    /\ \A k \in 1 .. seqs[d] : sent[d][k].n = k - 1
    /\ prev_enc[d] = IF seqs[d] = 0 THEN NoCopy ELSE <<sent[d][seqs[d]].payload>>

\* A destination has at most one datagram in a frame, and may still get its own in
\* the frame that is under way.
CountInv ==
    /\ clock \in 0 .. MaxFrames /\ mixed \subseteq Dests
    /\ \A d \in Dests : seqs[d] <= clock /\ (d \in mixed => seqs[d] < clock)

\* The packet with number n, as a log has it: its payload, and the one before.
audio_of(log, n, t) ==
    [timestamp |-> t, codec |-> "Opus", payload |-> log[n + 1].payload,
     redundant |-> IF REDUNDANCY /\ n > 0 THEN <<log[n].payload>> ELSE NoCopy]
header_of(n) == [ptype |-> "Audio", session_id |-> 1, sender_id |-> 0, seq |-> Wire(n)]

\* It is a packet that the reader can make sense of.
Sound(log, n, t) == AudioPacket(audio_of(log, n, t)) /\ Header(header_of(n))

\* An item was written from its entry in the log.
WrittenFrom(log, it) ==
    /\ it.n \in 0 .. Len(log) - 1
    /\ \E t \in Stamps : it.bytes = write_audio(audio_of(log, it.n, t), header_of(it.n))
Written(it) == it.dest \in Dests /\ WrittenFrom(sent[it.dest], it)

SendType ==
    /\ seqs \in [Dests -> Nat]
    /\ sent \in [Dests -> Seq(Entries)]
    /\ DOMAIN prev_enc = Dests

Items == [dest : Dests, n : Nat, bytes : Seq(Int)]
RingInv ==
    /\ ring \in Seq(Items) /\ Len(ring) <= TX_RING
    /\ \A i \in 1 .. Len(ring) : Written(ring[i])

SendInv ==
    /\ SendType /\ CountInv
    /\ \A d \in Dests : LogInv(d)
    /\ RingInv

\* The sequence numbers of the wire are u16.
WireIsU16 == SeqSpace <= 65536

\* A payload is two numbers.
LEMMA PayloadType ==
    ASSUME NEW p \in Payloads
    PROVE  p \in Short
<1>1. PICK x \in Int, y \in Int : p = <<x, y>>
  BY DEF Payloads
<1>2. p \in Seq(Int) /\ Len(p) = 2
  BY <1>1, Pair, Zenon DEF Bytes
<1>3. 2 \in U16
  BY SMT DEF U16
<1> QED
  BY <1>2, <1>3, Zenon DEF Short

\* What is written is an audio packet and its header.
LEMMA WrittenIsAudio ==
    ASSUME WireIsU16, NEW log \in Seq(Entries), NEW n \in 0 .. Len(log) - 1,
           NEW t \in Stamps
    PROVE  Sound(log, n, t)
<1> DEFINE a == audio_of(log, n, t)
           h == header_of(n)
<1>0. Len(log) \in Nat
  BY LenProperties
<1>1. log[n + 1].payload \in Payloads /\ (n > 0 => log[n].payload \in Payloads)
  <2>1. n + 1 \in 1 .. Len(log) /\ (n > 0 => n \in 1 .. Len(log))
    BY <1>0
  <2>2. log[n + 1] \in Entries /\ (n > 0 => log[n] \in Entries)
    BY <2>1, ElementOfSeq
  <2> QED
    BY <2>2 DEF Entries
<1>2. /\ a.timestamp = t /\ a.codec = "Opus" /\ a.payload = log[n + 1].payload
      /\ a.redundant = IF REDUNDANCY /\ n > 0 THEN <<log[n].payload>> ELSE NoCopy
  BY DEF audio_of
<1>3. h.ptype = "Audio" /\ h.session_id = 1 /\ h.sender_id = 0 /\ h.seq = Wire(n)
  BY DEF header_of
<1>n. n \in Nat
  BY <1>0
<1> HIDE DEF a, h
<1>4. a.payload \in Short
  BY <1>1, <1>2, PayloadType
<1>5. a.redundant = NoCopy \/ \E r \in Short : a.redundant = <<r>>
  <2>1. CASE REDUNDANCY /\ n > 0
    <3>1. log[n].payload \in Short /\ a.redundant = <<log[n].payload>>
      BY <1>1, <1>2, <2>1, PayloadType
    <3> QED
      BY <3>1, Zenon
  <2>2. CASE ~(REDUNDANCY /\ n > 0)
    BY <1>2, <2>2, Zenon
  <2> QED
    BY <2>1, <2>2
<1>6. a.timestamp \in U32 /\ a.codec \in DOMAIN Codec
  <2>1. t \in U32
    BY SMT DEF U32, Stamps
  <2>2. "Opus" \in DOMAIN Codec
    BY SMT DEF Codec
  <2> QED
    BY <1>2, <2>1, <2>2
<1>7. AudioPacket(a)
  BY <1>4, <1>5, <1>6, Zenon DEF AudioPacket
<1>8. Header(h)
  <2>1. Wire(n) \in U16
    <3>1. PICK m : m = SeqSpace
      OBVIOUS
    <3>2. m \in Nat \ {0} /\ m <= 65536
      BY <3>1, HalfAssumption, SMT DEF SeqSpace, WireIsU16
    <3>3. n % m \in Nat /\ n % m < 65536
      BY <1>n, <3>2, SMT
    <3> QED
      BY <3>1, <3>3, SMT DEF U16, Wire
  <2>2. h.ptype \in DOMAIN PacketType
    BY <1>3, SMT DEF PacketType
  <2>3. 1 \in U16 /\ 0 \in U16
    BY SMT DEF U16
  <2> QED
    BY <1>3, <2>1, <2>2, <2>3, Zenon DEF Header
<1> QED
  BY <1>7, <1>8 DEF a, h, Sound

\* What is written is bytes.
LEMMA WrittenBytes ==
    ASSUME NEW a, AudioPacket(a), NEW h, Header(h)
    PROVE  write_audio(a, h) \in Seq(Int)
<1>1. write_audio(a, h) = header_bytes(h) \o audio_bytes(a)
  BY AudioSplit
<1>2. audio_bytes(a) \in Seq(Int)
  BY AudioRead
<1>3. header_bytes(h) \in Seq(Int)
  BY <1>2, HeaderRead
<1> QED
  BY <1>1, <1>2, <1>3, JoinedThrice

\* A new sender has sent nothing.
LEMMA SendStarts ==
    ASSUME mixed = {}, clock = 0, ring = <<>>, seqs = [d \in Dests |-> 0],
           prev_enc = [d \in Dests |-> NoCopy], sent = [d \in Dests |-> <<>>]
    PROVE  SendInv
<1>1. SendType
  BY DEF SendType
<1>2. CountInv
  BY SenderAssumption DEF CountInv
<1>3. ASSUME NEW d \in Dests PROVE LogInv(d)
  <2>1. seqs[d] = 0 /\ prev_enc[d] = NoCopy /\ sent[d] = <<>>
    OBVIOUS
  <2>2. Len(<<>>) = 0 /\ 1 .. 0 = {}
    OBVIOUS
  <2> QED
    BY <2>1, <2>2 DEF LogInv
<1>4. RingInv
  BY SenderAssumption DEF RingInv
<1> QED
  BY <1>1, <1>2, <1>3, <1>4 DEF SendInv

\* Nor has the sender of the next session.
LEMMA SendRestarts ==
    ASSUME mixed' = {}, clock' = 0, ring' = <<>>, seqs' = [d \in Dests |-> 0],
           prev_enc' = [d \in Dests |-> NoCopy], sent' = [d \in Dests |-> <<>>]
    PROVE  SendInv'
<1>1. SendType'
  BY DEF SendType
<1>2. CountInv'
  BY SenderAssumption DEF CountInv
<1>3. ASSUME NEW d \in Dests PROVE LogInv(d)'
  <2>1. seqs'[d] = 0 /\ prev_enc'[d] = NoCopy /\ sent'[d] = <<>>
    OBVIOUS
  <2>2. Len(<<>>) = 0 /\ 1 .. 0 = {}
    OBVIOUS
  <2> QED
    BY <2>1, <2>2 DEF LogInv
<1>4. RingInv'
  BY SenderAssumption DEF RingInv
<1> QED
  BY <1>1, <1>2, <1>3, <1>4 DEF SendInv

\* Logs only grow.
Grown ==
    \A d \in Dests : /\ Len(sent[d]) <= Len(sent'[d])
                     /\ \A k \in 1 .. Len(sent[d]) : sent'[d][k] = sent[d][k]

\* What was written from a log is what would be written from a longer one.
LEMMA WrittenStays ==
    ASSUME SendType, SendType', Grown, NEW it, Written(it)
    PROVE  Written(it)'
<1>1. PICK d : d = it.dest
  OBVIOUS
<1>2. PICK n : n = it.n
  OBVIOUS
<1>3. d \in Dests /\ n \in 0 .. Len(sent[d]) - 1
  BY <1>1, <1>2 DEF Written, WrittenFrom
<1>4. Len(sent[d]) \in Nat /\ Len(sent'[d]) \in Nat
  BY <1>3, LenProperties DEF SendType
<1>5. n \in 0 .. Len(sent'[d]) - 1
  BY <1>3, <1>4 DEF Grown
<1>6. n + 1 \in 1 .. Len(sent[d]) /\ (n > 0 => n \in 1 .. Len(sent[d]))
  BY <1>3, <1>4
<1>7. sent'[d][n + 1] = sent[d][n + 1] /\ (n > 0 => sent'[d][n] = sent[d][n])
  BY <1>3, <1>6, Zenon DEF Grown
<1>8. PICK t \in Stamps : it.bytes = write_audio(audio_of(sent[d], n, t), header_of(n))
  BY <1>1, <1>2 DEF Written, WrittenFrom
<1>9. audio_of(sent'[d], n, t) = audio_of(sent[d], n, t)
  BY <1>7 DEF audio_of
<1>10. it.bytes = write_audio(audio_of(sent'[d], n, t), header_of(n))
  BY <1>8, <1>9
<1>11. WrittenFrom(sent'[d], it)
  BY <1>2, <1>5, <1>10, Zenon DEF WrittenFrom
<1> QED
  BY <1>1, <1>3, <1>11 DEF Written

\* Unchanged logs have grown.
LEMMA UnchangedGrown ==
    ASSUME SendType, UNCHANGED sent
    PROVE  Grown
<1>1. \A d \in Dests : Len(sent[d]) \in Nat
  BY LenProperties DEF SendType
<1> QED
  BY <1>1 DEF Grown

\* What is in the ring stays as it was written.
LEMMA RingAlone ==
    ASSUME SendInv, SendType', UNCHANGED <<sent, ring>>
    PROVE  RingInv'
<1>1. SendType /\ RingInv
  BY DEF SendInv
<1>2. ASSUME NEW i \in 1 .. Len(ring) PROVE Written(ring[i])'
  <2>1. Written(ring[i])
    BY <1>1 DEF RingInv
  <2>2. PICK it : it = ring[i]
    OBVIOUS
  <2>3. Written(it)
    BY <2>1, <2>2
  <2>4. Written(it)'
    BY <1>1, <2>3, UnchangedGrown, WrittenStays
  <2>5. it = ring'[i]
    BY <2>2
  <2> QED
    BY <2>4, <2>5
<1> QED
  BY <1>1, <1>2 DEF RingInv

\* It is the callback and the ring that matter.
LEMMA SendAlone ==
    ASSUME SendInv, UNCHANGED <<callback, ring>>
    PROVE  SendInv'
<1>1. UNCHANGED <<mixed, seqs, prev_enc, clock, sent, ring>>
  BY DEF callback
<1>2. SendType' /\ CountInv'
  BY <1>1 DEF SendInv, SendType, CountInv
<1>3. ASSUME NEW d \in Dests PROVE LogInv(d)'
  BY <1>1 DEF SendInv, LogInv
<1>4. RingInv'
  BY <1>1, <1>2, RingAlone
<1> QED
  BY <1>2, <1>3, <1>4 DEF SendInv

\* A frame begins.
LEMMA SendBegins ==
    ASSUME SendInv, FrameBegin
    PROVE  SendInv'
<1>1. /\ UNCHANGED <<seqs, prev_enc, sent, ring>>
      /\ mixed = {} /\ mixed' = {d \in Dests : seat[d] # Nobody}
      /\ clock < MaxFrames /\ clock' = clock + 1
  BY DEF FrameBegin
<1>2. SendType'
  BY <1>1 DEF SendInv, SendType
<1>3. ASSUME NEW d \in Dests PROVE LogInv(d)'
  BY <1>1 DEF SendInv, LogInv
<1>4. CountInv'
  <2>1. clock \in Nat /\ MaxFrames \in Nat
    BY SenderAssumption DEF SendInv, CountInv
  <2>2. clock' \in 0 .. MaxFrames
    BY <1>1, <2>1
  <2>3. ASSUME NEW d \in Dests PROVE seqs[d] \in Nat /\ seqs[d] <= clock
    BY DEF SendInv, SendType, CountInv
  <2>4. ASSUME NEW d \in Dests PROVE seqs'[d] <= clock' /\ seqs'[d] < clock'
    BY <1>1, <2>1, <2>3
  <2>5. mixed' \subseteq Dests
    BY <1>1
  <2> QED
    BY <2>2, <2>4, <2>5 DEF CountInv
<1>5. RingInv'
  BY <1>1, <1>2, RingAlone
<1> QED
  BY <1>2, <1>3, <1>4, <1>5 DEF SendInv

\* A frame that cannot be encoded leaves no trace.
LEMMA SendSkips ==
    ASSUME SendInv, NEW d \in Dests, EncodeFails(d)
    PROVE  SendInv'
<1>1. UNCHANGED <<seqs, prev_enc, sent, ring, clock>> /\ mixed' \subseteq mixed
  BY DEF EncodeFails
<1>2. SendType' /\ CountInv'
  BY <1>1 DEF SendInv, SendType, CountInv
<1>3. ASSUME NEW e \in Dests PROVE LogInv(e)'
  BY <1>1 DEF SendInv, LogInv
<1>4. RingInv'
  BY <1>1, <1>2, RingAlone
<1> QED
  BY <1>2, <1>3, <1>4 DEF SendInv

\* The oldest datagram leaves the ring.
LEMMA SendPops ==
    ASSUME SendInv, TxPop
    PROVE  SendInv'
<1>1. UNCHANGED <<mixed, seqs, prev_enc, clock, sent>> /\ ring # <<>> /\ ring' = Tail(ring)
  BY DEF TxPop, callback
<1>2. SendType' /\ CountInv'
  BY <1>1 DEF SendInv, SendType, CountInv
<1>3. ASSUME NEW e \in Dests PROVE LogInv(e)'
  BY <1>1 DEF SendInv, LogInv
<1>4. ring \in Seq(Items) /\ Len(ring) <= TX_RING /\ TX_RING \in Nat /\ Len(ring) \in Nat
  BY LenProperties, SenderAssumption DEF SendInv, RingInv
<1>5. /\ ring' \in Seq(Items) /\ Len(ring') = Len(ring) - 1
      /\ \A i \in 1 .. Len(ring) - 1 : ring'[i] = ring[i + 1]
  BY <1>1, <1>4, HeadTailProperties
<1>6. ASSUME NEW i \in 1 .. Len(ring') PROVE Written(ring[i])'
  <2>1. i \in 1 .. Len(ring) - 1 /\ i + 1 \in 1 .. Len(ring)
    BY <1>4, <1>5
  <2>2. PICK it : it = ring[i + 1]
    OBVIOUS
  <2>3. Written(it)
    BY <2>1, <2>2 DEF SendInv, RingInv
  <2>4. SendType
    BY DEF SendInv
  <2>5. Written(it)'
    BY <1>1, <1>2, <2>3, <2>4, UnchangedGrown, WrittenStays
  <2>6. it = ring'[i]
    BY <1>5, <2>1, <2>2
  <2> QED
    BY <2>5, <2>6
<1>7. RingInv'
  <2>1. Len(ring') <= TX_RING
    BY <1>4, <1>5
  <2> QED
    BY <1>5, <1>6, <2>1 DEF RingInv
<1> QED
  BY <1>2, <1>3, <1>7 DEF SendInv

\* A frame goes to a destination: its log has it, and the item, if the ring takes it,
\* was written from the log.
LEMMA SendEmits ==
    ASSUME WireIsU16, SendInv, NEW d \in Dests, Emit(d)
    PROVE  SendInv'
<1> PICK n : n = seqs[d]
  OBVIOUS
<1> PICK pay : pay = <<clock, d>>
  OBVIOUS
<1> PICK entry : entry = [n |-> n, payload |-> pay]
  OBVIOUS
<1> PICK t : t = clock - 1
  OBVIOUS
<1> PICK it : it = Item(d, n, pay)
  OBVIOUS
<1>1. /\ d \in mixed /\ mixed' = mixed \ {d}
      /\ ring' = IF Len(ring) < TX_RING THEN Append(ring, it) ELSE ring
      /\ seqs' = [seqs EXCEPT ![d] = @ + 1]
      /\ prev_enc' = [prev_enc EXCEPT ![d] = <<pay>>]
      /\ sent' = [sent EXCEPT ![d] = Append(@, entry)]
      /\ clock' = clock
  BY DEF Emit
<1>2. SendType /\ CountInv /\ LogInv(d) /\ RingInv
  BY DEF SendInv
<1>3. /\ n \in Nat /\ clock \in 0 .. MaxFrames /\ n < clock /\ d \in Int
      /\ MaxFrames \in 0 .. 254
  BY <1>1, <1>2, SenderAssumption DEF SendType, CountInv, Dests
<1>4. pay \in Payloads /\ entry \in Entries
  <2>1. clock \in Int
    BY <1>3
  <2>2. pay \in Payloads
    BY <1>3, <2>1 DEF Payloads
  <2> QED
    BY <1>3, <2>2 DEF Entries
<1>5. sent[d] \in Seq(Entries) /\ Len(sent[d]) = n
  BY <1>2 DEF SendType, LogInv
<1>6. /\ sent'[d] = Append(sent[d], entry) /\ DOMAIN sent' = Dests
      /\ \A e \in Dests : e # d => sent'[e] = sent[e]
  BY <1>1, <1>2 DEF SendType
<1>7. entry.n = n /\ entry.payload = pay
  OBVIOUS
<1>8. /\ sent'[d] \in Seq(Entries) /\ Len(sent'[d]) = n + 1
      /\ \A k \in 1 .. n : sent'[d][k] = sent[d][k]
      /\ sent'[d][n + 1] = entry
  BY <1>4, <1>5, <1>6, AppendProperties
<1>9. /\ seqs'[d] = n + 1 /\ prev_enc'[d] = <<pay>>
      /\ \A e \in Dests : e # d => seqs'[e] = seqs[e] /\ prev_enc'[e] = prev_enc[e]
      /\ DOMAIN prev_enc' = Dests
  BY <1>1, <1>2 DEF SendType
<1>10. SendType'
  <2>1. seqs' \in [Dests -> Nat]
    <3>1. seqs' = [e \in Dests |-> seqs'[e]]
      BY <1>1, <1>2 DEF SendType
    <3>2. \A e \in Dests : seqs'[e] \in Nat
      BY <1>2, <1>3, <1>9 DEF SendType
    <3> QED
      BY <3>1, <3>2
  <2>2. sent' = [e \in Dests |-> sent'[e]]
    BY <1>1, <1>2 DEF SendType
  <2>3. \A e \in Dests : sent'[e] \in Seq(Entries)
    BY <1>2, <1>6, <1>8 DEF SendType
  <2> QED
    BY <1>9, <2>1, <2>2, <2>3 DEF SendType
<1>11. CountInv'
  <2>1. mixed' \subseteq Dests
    BY <1>1, <1>2 DEF CountInv
  <2>2. ASSUME NEW e \in Dests
        PROVE  seqs'[e] <= clock' /\ (e \in mixed' => seqs'[e] < clock')
    <3>1. CASE e = d
      BY <1>1, <1>3, <1>9, <3>1
    <3>2. CASE e # d
      <4>1. seqs'[e] = seqs[e] /\ clock' = clock /\ (e \in mixed' => e \in mixed)
        BY <1>1, <1>9, <3>2
      <4> QED
        BY <1>2, <4>1 DEF CountInv
    <3> QED
      BY <3>1, <3>2
  <2>3. clock' \in 0 .. MaxFrames
    BY <1>1, <1>3
  <2> QED
    BY <2>1, <2>2, <2>3 DEF CountInv
<1>12. ASSUME NEW e \in Dests PROVE LogInv(e)'
  <2>1. CASE e # d
    <3>1. sent'[e] = sent[e] /\ seqs'[e] = seqs[e] /\ prev_enc'[e] = prev_enc[e]
      BY <1>6, <1>9, <2>1
    <3>2. LogInv(e)
      BY DEF SendInv
    <3> QED
      BY <3>1, <3>2 DEF LogInv
  <2>2. CASE e = d
    <3>1. Len(sent'[d]) = seqs'[d]
      BY <1>8, <1>9
    <3>2. ASSUME NEW k \in 1 .. n + 1 PROVE sent'[d][k].n = k - 1
      <4>1. CASE k = n + 1
        BY <1>3, <1>7, <1>8, <4>1
      <4>2. CASE k # n + 1
        <5>1. k \in 1 .. n
          BY <1>3, <4>2
        <5>2. sent[d][k].n = k - 1
          BY <1>2, <5>1 DEF LogInv
        <5> QED
          BY <1>8, <5>1, <5>2
      <4> QED
        BY <4>1, <4>2
    <3>3. prev_enc'[d] = <<sent'[d][n + 1].payload>> /\ n + 1 # 0
      BY <1>3, <1>7, <1>8, <1>9
    <3>4. LogInv(d)'
      BY <1>9, <3>1, <3>2, <3>3, Zenon DEF LogInv
    <3> QED
      BY <2>2, <3>4
  <2> QED
    BY <2>1, <2>2
<1>13. t \in Stamps
  <2>1. t = clock - 1
    OBVIOUS
  <2> QED
    BY ONLY <1>3, <2>1 DEF Stamps
<1>14. /\ it.dest = d /\ it.n = n
       /\ it.bytes = write_audio([timestamp |-> t, codec |-> "Opus", payload |-> pay,
                                  redundant |-> IF REDUNDANCY THEN prev_enc[d] ELSE NoCopy],
                                 [ptype |-> "Audio", session_id |-> 1, sender_id |-> 0,
                                  seq |-> Wire(n)])
  BY DEF Item, audio_datagram
<1>15. (IF REDUNDANCY THEN prev_enc[d] ELSE NoCopy)
           = IF REDUNDANCY /\ n > 0 THEN <<sent'[d][n].payload>> ELSE NoCopy
  <2>1. prev_enc[d] = IF n = 0 THEN NoCopy ELSE <<sent[d][n].payload>>
    BY <1>2 DEF LogInv
  <2>2. n > 0 => n \in 1 .. n
    BY <1>3
  <2>3. n > 0 => sent'[d][n] = sent[d][n]
    BY <1>8, <2>2
  <2>4. n = 0 <=> ~(n > 0)
    BY <1>3
  <2> QED
    BY <2>1, <2>3, <2>4
<1>16. it.bytes = write_audio(audio_of(sent'[d], n, t), header_of(n))
  <2>1. sent'[d][n + 1].payload = pay
    BY <1>7, <1>8
  <2> QED
    BY <1>14, <1>15, <2>1, Zenon DEF audio_of, header_of
<1>17. n \in 0 .. Len(sent'[d]) - 1
  BY <1>3, <1>8
<1>18. Written(it)'
  <2>1. WrittenFrom(sent'[d], it)
    BY <1>13, <1>14, <1>16, <1>17, Zenon DEF WrittenFrom
  <2> QED
    BY <1>14, <2>1 DEF Written
<1>19. it \in Items
  <2>1. AudioPacket(audio_of(sent'[d], n, t)) /\ Header(header_of(n))
    <3>1. PICK log \in Seq(Entries) : log = sent'[d]
      BY <1>8
    <3>2. n \in 0 .. Len(log) - 1
      BY <1>17, <3>1
    <3>3. Sound(log, n, t)
      BY <1>13, <3>2, WrittenIsAudio, Zenon
    <3> QED
      BY <3>1, <3>3 DEF Sound
  <2>2. it.bytes \in Seq(Int)
    BY <1>16, <2>1, WrittenBytes
  <2>3. it = [dest |-> d, n |-> n, bytes |-> audio_datagram(d, n, pay)]
    BY DEF Item
  <2> QED
    BY <1>3, <2>2, <2>3 DEF Items
<1>20. Grown
  <2>1. ASSUME NEW e \in Dests
        PROVE  /\ Len(sent[e]) <= Len(sent'[e])
               /\ \A k \in 1 .. Len(sent[e]) : sent'[e][k] = sent[e][k]
    <3>1. CASE e = d
      BY <1>3, <1>5, <1>8, <3>1
    <3>2. CASE e # d
      <4>1. sent'[e] = sent[e] /\ Len(sent[e]) \in Nat
        BY <1>2, <1>6, <3>2, LenProperties DEF SendType
      <4> QED
        BY <4>1
    <3> QED
      BY <3>1, <3>2
  <2> QED
    BY <2>1 DEF Grown
<1>21. ring \in Seq(Items) /\ Len(ring) \in Nat /\ Len(ring) <= TX_RING /\ TX_RING \in Nat
  BY <1>2, LenProperties, SenderAssumption DEF RingInv
<1>22. ASSUME NEW i \in 1 .. Len(ring), NEW x, x = ring[i] PROVE Written(x)'
  <2>1. Written(x)
    BY <1>2, <1>22 DEF RingInv
  <2> QED
    BY <1>2, <1>10, <1>20, <2>1, WrittenStays
<1>23. RingInv'
  <2>1. CASE Len(ring) < TX_RING
    <3>1. ring' = Append(ring, it)
      BY <1>1, <2>1
    <3>2. /\ ring' \in Seq(Items) /\ Len(ring') = Len(ring) + 1
          /\ \A i \in 1 .. Len(ring) : ring'[i] = ring[i]
          /\ ring'[Len(ring) + 1] = it
      BY <1>19, <1>21, <3>1, AppendProperties
    <3>3. ASSUME NEW i \in 1 .. Len(ring'), NEW x, x = ring'[i] PROVE Written(x)'
      <4>1. CASE i = Len(ring) + 1
        BY <1>18, <3>2, <3>3, <4>1
      <4>2. CASE i # Len(ring) + 1
        <5>1. i \in 1 .. Len(ring)
          BY <1>21, <3>2, <4>2
        <5>2. x = ring[i]
          BY <3>2, <3>3, <5>1
        <5> QED
          BY <1>22, <5>1, <5>2
      <4> QED
        BY <4>1, <4>2
    <3>4. Len(ring') <= TX_RING
      BY <1>21, <2>1, <3>2
    <3> QED
      BY <3>2, <3>3, <3>4 DEF RingInv
  <2>2. CASE ~(Len(ring) < TX_RING)
    <3>1. ring' = ring
      BY <1>1, <2>2
    <3> QED
      BY <1>21, <1>22, <3>1 DEF RingInv
  <2> QED
    BY <2>1, <2>2
<1> QED
  BY <1>10, <1>11, <1>12, <1>23 DEF SendInv

\* Every step keeps what is known of the logs and the ring.
LEMMA SendStep ==
    ASSUME WireIsU16, SendInv, [Next]_vars
    PROVE  SendInv'
<1>1. CASE SpawnThreads \/ AudioStarts \/ AudioFails \/ Shutdown \/ DropStreams \/ JoinThreads
  BY <1>1, SendAlone
     DEF SpawnThreads, AudioStarts, AudioFails, Shutdown, DropStreams, JoinThreads, sender
<1>2. CASE Again
  <2>1. /\ mixed' = {} /\ clock' = 0 /\ ring' = <<>> /\ seqs' = [d \in Dests |-> 0]
        /\ prev_enc' = [d \in Dests |-> NoCopy] /\ sent' = [d \in Dests |-> <<>>]
    BY <1>2 DEF Again
  <2> QED
    BY <2>1, SendRestarts
<1>3. CASE Rx \/ CtlIgnores \/ CtlEnds \/ TxEnds \/ StreamsCall
  BY <1>3, SendAlone DEF Rx, CtlIgnores, CtlEnds, TxEnds, StreamsCall, sender
<1>4. CASE CtlHandles
  BY <1>4, SendAlone DEF CtlHandles, Handle, ClientJoined, ClientLeft, SetJoined
<1>5. CASE CtlTells
  BY <1>5, SendAlone DEF CtlTells, Tell
<1>6. CASE TxGoes
  <2>1. CASE TxDrain \/ TxIdle
    BY <2>1, SendAlone DEF TxDrain, TxIdle
  <2>2. CASE TxPop
    BY <2>2, SendPops
  <2> QED
    BY <1>6, <2>1, <2>2 DEF TxGoes, TxLoop
<1>7. CASE CallerCalls
  <2>1. CASE FrameBegin
    BY <2>1, SendBegins
  <2>2. ASSUME NEW d \in Dests, Emit(d) PROVE SendInv'
    BY <2>2, SendEmits
  <2>3. ASSUME NEW d \in Dests, EncodeFails(d) PROVE SendInv'
    BY <2>3, SendSkips
  <2> QED
    BY <1>7, <2>1, <2>2, <2>3 DEF CallerCalls, Callback
<1>8. CASE UNCHANGED vars
  BY <1>8, SendAlone DEF vars, sender
<1> QED
  BY <1>1, <1>2, <1>3, <1>4, <1>5, <1>6, <1>7, <1>8 DEF Next, Ctl, Tx

\* A datagram in the ring is read as its log has it, with the payload before.
LEMMA RingIsRead ==
    ASSUME WireIsU16, SendInv
    PROVE  RedundantIsPrevious
<1> DEFINE of(log, x) == {log[k].payload : k \in {j \in DOMAIN log : log[j].n = x}}
           Fine(it) ==
             LET p == parse_datagram(it.bytes)
                 log == sent[it.dest]
             IN  /\ ~failed(p) /\ p.header.seq = Wire(it.n)
                 /\ p.payload.payload \in of(log, it.n)
                 /\ p.payload.redundant = NoCopy => ~REDUNDANCY \/ it.n = 0
                 /\ \A k \in DOMAIN p.payload.redundant :
                       p.payload.redundant[k] \in of(log, it.n - 1)
<1>0. (\A i \in DOMAIN ring : Fine(ring[i])) => RedundantIsPrevious
  BY Zenon DEF RedundantIsPrevious
<1> HIDE DEF Fine
<1> SUFFICES ASSUME NEW i \in DOMAIN ring
             PROVE  Fine(ring[i])
  BY <1>0
<1>1. PICK it : it = ring[i]
  OBVIOUS
<1>2. i \in 1 .. Len(ring)
  BY DEF SendInv, RingInv
<1>3. Written(it)
  BY <1>1, <1>2 DEF SendInv, RingInv
<1>4. PICK d \in Dests : d = it.dest
  BY <1>3 DEF Written
<1>5. PICK log \in Seq(Entries) : log = sent[d]
  BY DEF SendInv, SendType
<1>6. PICK n : n = it.n
  OBVIOUS
<1>7. Len(log) \in Nat
  BY LenProperties
<1>8. WrittenFrom(log, it)
  BY <1>3, <1>4, <1>5 DEF Written
<1>9. n \in 0 .. Len(log) - 1
  BY <1>6, <1>8 DEF WrittenFrom
<1>10. PICK t \in Stamps : it.bytes = write_audio(audio_of(log, n, t), header_of(n))
  <2>1. PICK t \in Stamps : it.bytes = write_audio(audio_of(log, it.n, t), header_of(it.n))
    BY <1>8, Zenon DEF WrittenFrom
  <2> QED
    BY <1>6, <2>1, Zenon
<1>11. \A k \in 1 .. Len(log) : log[k].n = k - 1
  BY <1>5 DEF SendInv, LogInv
<1> PICK a : a = audio_of(log, n, t)
  OBVIOUS
<1> PICK h : h = header_of(n)
  OBVIOUS
<1>12. AudioPacket(a) /\ Header(h) /\ h.ptype = "Audio" /\ h.seq = Wire(n)
  <2>1. Sound(log, n, t)
    BY <1>9, WrittenIsAudio, Zenon
  <2> QED
    BY <2>1 DEF Sound, header_of
<1>13. /\ a.payload = log[n + 1].payload
       /\ a.redundant = IF REDUNDANCY /\ n > 0 THEN <<log[n].payload>> ELSE NoCopy
  BY DEF audio_of
<1> DEFINE p == parse_datagram(it.bytes)
<1>14. p = [header |-> [ptype |-> "Audio", session_id |-> h.session_id,
                        sender_id |-> h.sender_id, seq |-> h.seq],
            payload |-> [type |-> "Audio", timestamp |-> a.timestamp, codec |-> a.codec,
                         payload |-> a.payload, redundant |-> a.redundant]]
  BY <1>10, <1>12, AudioFaithful
<1> HIDE DEF p
<1>15. /\ ~failed(p) /\ p.header.seq = Wire(n)
       /\ p.payload.payload = a.payload /\ p.payload.redundant = a.redundant
  BY <1>12, <1>14 DEF failed
<1>16. n \in Nat /\ n + 1 \in 1 .. Len(log) /\ (n > 0 => n \in 1 .. Len(log))
       /\ n + 1 - 1 = n /\ (n > 0 <=> n # 0)
  BY <1>7, <1>9
<1>17. DOMAIN log = 1 .. Len(log)
  BY LenProperties
<1>18. a.payload \in of(log, n)
  <2>1. log[n + 1].n = n
    BY <1>11, <1>16
  <2> QED
    BY <1>13, <1>16, <1>17, <2>1, Zenon
<1>19. a.redundant = NoCopy => ~REDUNDANCY \/ n = 0
  <2>1. PICK x : x = log[n].payload
    OBVIOUS
  <2>2. a.redundant = IF REDUNDANCY /\ n > 0 THEN <<x>> ELSE NoCopy
    BY <1>13, <2>1
  <2>3. <<x>> # NoCopy
    BY DEF NoCopy
  <2> QED
    BY <1>16, <2>2, <2>3
<1>20. ASSUME NEW k \in DOMAIN a.redundant
       PROVE  a.redundant[k] \in of(log, n - 1)
  <2>1. REDUNDANCY /\ n > 0 /\ a.redundant[k] = log[n].payload
    BY <1>13 DEF NoCopy
  <2>2. log[n].n = n - 1
    BY <1>11, <1>16, <2>1
  <2> QED
    BY <1>16, <1>17, <2>1, <2>2, Zenon
<1>21. /\ ~failed(p) /\ p.header.seq = Wire(it.n)
       /\ p.payload.payload \in of(log, it.n)
       /\ p.payload.redundant = NoCopy => ~REDUNDANCY \/ it.n = 0
       /\ \A k \in DOMAIN p.payload.redundant : p.payload.redundant[k] \in of(log, it.n - 1)
  BY <1>6, <1>15, <1>18, <1>19, <1>20, Zenon
<1>22. log = sent[it.dest]
  BY <1>4, <1>5
<1>23. Fine(it)
  BY ONLY <1>21, <1>22, Zenon DEF p, Fine
<1> QED
  BY <1>23, <1>1

\* In session after session, a datagram carries its own frame and number and, as its
\* redundant copy, the payload that was given the number before, for every number of
\* clients, length of the ring and number of frames (pipeline.rs 218-238, net.rs
\* 227-237).  The wire's numbers are u16, as they are in the code.
THEOREM CopyIsAlwaysPrevious ==
    ASSUME WireIsU16
    PROVE  Spec => []RedundantIsPrevious
<1>1. Init => SendInv
  BY SendStarts DEF Init, SenderInit
<1>2. SendInv /\ [Next]_vars => SendInv'
  BY SendStep
<1>3. SendInv => RedundantIsPrevious
  BY RingIsRead
<1> QED
  BY <1>1, <1>2, <1>3, PTL DEF Spec

-----------------------------------------------------------------------------
(* The types of everything.                                                *)

\* No tenant is numbered past the bound, wherever his number stands.
BoundInv ==
    /\ tenants <= MaxTenants
    /\ \A d \in Dests : seat[d] <= MaxTenants + 1 /\ txtable[d] <= MaxTenants + 1
    /\ \A k \in DOMAIN updates : updates[k][2] <= MaxTenants + 1
    /\ owed # NoUpdate => owed[2] <= MaxTenants + 1

ProcessType ==
    /\ headless \in BOOLEAN /\ shutdown \in BOOLEAN /\ events \in 0 .. 1
    /\ main \in {"idle", "audio", "running", "failed", "streams", "joining", "ended"}
    /\ rx \in {"off", "recv", "gone"} /\ ctl \in {"off", "loop", "gone"}
    /\ tx \in {"off", "loop", "gone"} /\ txat \in {"top", "pop"}
    /\ byes \subseteq Tenants

table == <<tenants, seat, txtable, updates, owed>>

\* The tenants of a new session are none, and a client's host is the first.
LEMMA BoundStarts ==
    ASSUME NEW u, u = <<>> \/ u = <<<<DEST_PEER, HOST>>>>
    PROVE  0 <= MaxTenants /\ 0 <= MaxTenants + 1 /\ \A k \in DOMAIN u : u[k][2] <= MaxTenants + 1
<1>1. MaxTenants \in Nat
  BY SenderAssumption
<1>2. CASE u = <<>>
  BY <1>1, <1>2
<1>3. CASE u = <<<<DEST_PEER, HOST>>>>
  <2>1. DOMAIN u = {1} /\ u[1] = <<DEST_PEER, HOST>>
    BY <1>3
  <2>2. <<DEST_PEER, HOST>>[2] = 1
    BY DEF HOST
  <2>3. \A k \in DOMAIN u : u[k][2] = 1
    BY <2>1, <2>2
  <2> QED
    BY <1>1, <2>3
<1> QED
  BY <1>2, <1>3

LEMMA BoundAlone ==
    ASSUME BoundInv, UNCHANGED table
    PROVE  BoundInv'
<1>1. tenants' = tenants /\ seat' = seat /\ txtable' = txtable /\ updates' = updates
      /\ owed' = owed
  BY DEF table
<1> QED
  BY <1>1 DEF BoundInv

\* What the table will say is in it or in the channel.
LEMMA ResolvedBound ==
    ASSUME TableInv, BoundInv, NEW d \in Dests
    PROVE  resolved(d) <= MaxTenants + 1
<1>1. CASE news(d) = {}
  BY <1>1 DEF resolved, BoundInv
<1>2. CASE news(d) # {}
  <2>1. newest(news(d)) \in news(d)
    BY <1>2 DEF newest, TableInv, LastInv
  <2>2. newest(news(d)) \in DOMAIN updates
    BY <2>1 DEF news
  <2> QED
    BY <1>2, <2>2, Zenon DEF resolved, BoundInv
<1> QED
  BY <1>1, <1>2

\* Every step keeps the bound.
LEMMA BoundStep ==
    ASSUME TableInv, BoundInv, [Next]_vars
    PROVE  BoundInv'
<1>0. MaxTenants \in Nat /\ tenants \in Nat /\ seat \in [Dests -> Nat] /\ updates \in Seq(Dests \X Nat)
  BY SenderAssumption DEF TableInv, TableType
<1>1. CASE SpawnThreads \/ AudioStarts \/ AudioFails \/ Shutdown \/ DropStreams \/ JoinThreads
  BY <1>1, BoundAlone DEF SpawnThreads, AudioStarts, AudioFails, Shutdown, DropStreams,
     JoinThreads, sender, control, transmit, table
<1>2. CASE Again
  <2>1. /\ tenants' = 0 /\ seat' = [d \in Dests |-> 0] /\ txtable' = [d \in Dests |-> 0]
        /\ owed' = NoUpdate /\ (updates' = <<>> \/ updates' = <<<<DEST_PEER, HOST>>>>)
    BY <1>2 DEF Again, Nobody
  <2>2. PICK u : u = updates'
    OBVIOUS
  <2>3. \A k \in DOMAIN u : u[k][2] <= MaxTenants + 1
    BY <2>1, <2>2, BoundStarts
  <2> QED
    BY <1>0, <2>1, <2>2, <2>3 DEF BoundInv
<1>3. CASE Rx \/ CtlIgnores \/ CtlEnds \/ TxEnds
  BY <1>3, BoundAlone DEF Rx, CtlIgnores, CtlEnds, TxEnds, sender, control, transmit, table
<1>4. CASE CtlHandles
  <2>1. ASSUME NEW d \in Dests, ClientJoined(d) PROVE BoundInv'
    <3>1. /\ tenants < MaxTenants /\ tenants' = tenants + 1 /\ owed' = <<d, tenants + 1>>
          /\ seat' = [seat EXCEPT ![d] = tenants + 1]
          /\ updates' = updates /\ txtable' = txtable
      BY <2>1 DEF ClientJoined, transmit
    <3>2. tenants + 1 <= MaxTenants /\ tenants + 1 <= MaxTenants + 1
      BY <1>0, <3>1
    <3>3. owed'[2] = tenants + 1
      BY <3>1
    <3> QED
      BY <1>0, <3>1, <3>2, <3>3 DEF BoundInv
  <2>2. ASSUME NEW d \in Dests, ClientLeft(d) PROVE BoundInv'
    <3>1. /\ tenants' = tenants /\ owed' = <<d, 0>> /\ seat' = [seat EXCEPT ![d] = 0]
          /\ updates' = updates /\ txtable' = txtable
      BY <2>2 DEF ClientLeft, transmit, Nobody
    <3>2. owed'[2] = 0 /\ 0 <= MaxTenants + 1
      BY <1>0, <3>1
    <3> QED
      BY <1>0, <3>1, <3>2 DEF BoundInv
  <2>3. CASE SetJoined
    <3>1. /\ tenants' = tenants /\ owed' = owed /\ updates' = updates /\ txtable' = txtable
          /\ seat' = [seat EXCEPT ![DEST_PEER] = IF @ = 0 THEN 1 ELSE 0]
      BY <2>3 DEF SetJoined, transmit, Nobody, HOST
    <3> QED
      BY <1>0, <3>1 DEF BoundInv
  <2> QED
    BY <1>4, <2>1, <2>2, <2>3 DEF CtlHandles, Handle
<1>5. CASE CtlTells
  <2>1. /\ tenants' = tenants /\ owed # NoUpdate /\ owed' = NoUpdate /\ seat' = seat
        /\ updates' = Append(updates, owed) /\ txtable' = txtable
    BY <1>5 DEF CtlTells, Tell, transmit
  <2>2. owed \in Dests \X Nat
    BY <2>1 DEF TableInv, TableType
  <2>3. \A k \in DOMAIN updates' : updates'[k] = owed \/ (k \in DOMAIN updates /\ updates'[k] = updates[k])
    BY <1>0, <2>1, <2>2
  <2>4. \A k \in DOMAIN updates' : updates'[k][2] <= MaxTenants + 1
    BY <2>1, <2>3, Zenon DEF BoundInv
  <2> QED
    BY <2>1, <2>4 DEF BoundInv
<1>6. CASE TxGoes
  <2>1. CASE TxDrain
    <3>1. /\ tenants' = tenants /\ owed' = owed /\ seat' = seat /\ updates' = <<>>
          /\ txtable' = [d \in Dests |-> resolved(d)]
      BY <2>1 DEF TxDrain, control
    <3> QED
      BY <3>1, ResolvedBound DEF BoundInv
  <2>2. CASE TxLoop
    BY <2>2, BoundAlone DEF TxLoop, TxPop, TxIdle, control, transmit, table
  <2> QED
    BY <1>6, <2>1, <2>2 DEF TxGoes
<1>7. CASE StreamsCall
  BY <1>7, BoundAlone DEF StreamsCall, sender, control, transmit, table
<1>8. CASE CallerCalls
  BY <1>8, BoundAlone, CallbackKeeps DEF CallerCalls, control, transmit, table
<1>9. CASE UNCHANGED vars
  BY <1>9, BoundAlone DEF vars, sender, control, transmit, table
<1> QED
  BY <1>1, <1>2, <1>3, <1>4, <1>5, <1>6, <1>7, <1>8, <1>9 DEF Next, Ctl, Tx

\* The threads' own state.
LEMMA ProcessStep ==
    ASSUME TableInv, BoundInv, ProcessType, [Next]_vars
    PROVE  ProcessType'
<1>1. CASE SpawnThreads \/ AudioStarts \/ AudioFails \/ Shutdown \/ DropStreams \/ JoinThreads
  <2>1. CASE SpawnThreads
    BY <2>1 DEF SpawnThreads, sender, transmit, ProcessType
  <2>2. CASE AudioStarts \/ AudioFails
    BY <2>2 DEF AudioStarts, AudioFails, sender, transmit, threads, ProcessType
  <2>3. CASE Shutdown
    BY <2>3 DEF Shutdown, sender, transmit, threads, ProcessType
  <2>4. CASE DropStreams
    BY <2>4 DEF DropStreams, sender, transmit, threads, ProcessType
  <2>5. CASE JoinThreads
    BY <2>5 DEF JoinThreads, sender, transmit, threads, ProcessType
  <2> QED
    BY <1>1, <2>1, <2>2, <2>3, <2>4, <2>5
<1>2. CASE Again
  <2>1. headless' = headless /\ shutdown' = FALSE /\ events' = 0 /\ byes' = {}
        /\ main' = "idle" /\ rx' = "off" /\ ctl' = "off" /\ tx' = "off" /\ txat' = "top"
    BY <1>2 DEF Again
  <2>2. 0 \in 0 .. 1
    OBVIOUS
  <2> QED
    BY <2>1, <2>2, Zenon DEF ProcessType
<1>3. CASE Rx \/ TxEnds
  BY <1>3 DEF Rx, TxEnds, sender, transmit, threads, ProcessType
<1>4. CASE CtlIgnores
  BY <1>4 DEF CtlIgnores, sender, transmit, threads, ProcessType
<1>5. CASE CtlEnds
  <2>1. byes' \subseteq Tenants
    <3>1. byes' = {seat[d] : d \in Dests} \ {0} /\ MaxTenants \in Nat
      BY <1>5, SenderAssumption DEF CtlEnds, Nobody
    <3>2. \A d \in Dests : seat[d] \in Nat /\ seat[d] <= MaxTenants + 1
      BY DEF TableInv, TableType, BoundInv
    <3> QED
      BY <3>1, <3>2 DEF Tenants
  <2> QED
    BY <1>5, <2>1 DEF CtlEnds, sender, transmit, ProcessType
<1>6. CASE CtlHandles
  BY <1>6 DEF CtlHandles, Handle, ClientJoined, ClientLeft, SetJoined, transmit, threads, ProcessType
<1>7. CASE CtlTells
  BY <1>7 DEF CtlTells, Tell, process, transmit, threads, ProcessType
<1>8. CASE TxGoes
  BY <1>8 DEF TxGoes, TxDrain, TxLoop, TxPop, TxIdle, process, transmit, threads, ProcessType
<1>9. CASE StreamsCall
  BY <1>9 DEF StreamsCall, sender, process, transmit, threads, ProcessType
<1>10. CASE CallerCalls
  BY <1>10, CallbackKeeps DEF CallerCalls, process, transmit, threads, ProcessType
<1>11. CASE UNCHANGED vars
  BY <1>11 DEF vars, sender, process, transmit, threads, ProcessType
<1> QED
  BY <1>1, <1>2, <1>3, <1>4, <1>5, <1>6, <1>7, <1>8, <1>9, <1>10, <1>11 DEF Next, Ctl, Tx

\* The parts together are the type of the state.
LEMMA AllTyped ==
    ASSUME IInv, TableInv, BoundInv, SendInv, ProcessType
    PROVE  TypeOK
<1>1. MaxTenants \in Nat /\ MaxFrames \in Nat
  BY SenderAssumption
<1>2. seat \in [Dests -> {Nobody} \cup Tenants] /\ txtable \in [Dests -> {Nobody} \cup Tenants]
  <2>1. \A n \in Nat : n <= MaxTenants + 1 => n \in {Nobody} \cup Tenants
    BY <1>1 DEF Nobody, Tenants
  <2>2. seat \in [Dests -> Nat] /\ txtable \in [Dests -> Nat]
    BY DEF TableInv, TableType
  <2> QED
    BY <2>1, <2>2 DEF BoundInv
<1>3. seqs \in [Dests -> 0 .. MaxFrames]
  <2>1. seqs \in [Dests -> Nat] /\ clock \in 0 .. MaxFrames /\ \A d \in Dests : seqs[d] <= clock
    BY DEF SendInv, SendType, CountInv
  <2>2. \A d \in Dests : seqs[d] \in 0 .. MaxFrames
    BY <1>1, <2>1
  <2> QED
    BY <2>1, <2>2
<1>4. left \cup known \subseteq Tenants
  <2>1. left \subseteq 1 .. tenants /\ known \subseteq left /\ tenants \in Nat /\ tenants <= MaxTenants
    BY DEF TableInv, TableType, LeftInv, BoundInv
  <2> QED
    BY <1>1, <2>1 DEF Tenants
<1>5. /\ role \in {"host", "client"} /\ mixed \subseteq Dests /\ clock \in 0 .. MaxFrames
      /\ Len(ring) <= TX_RING /\ txat \in {"top", "pop"}
  BY DEF TableInv, TableType, SendInv, CountInv, RingInv, ProcessType
<1>6. SenderTypeOK
  BY <1>2, <1>3, <1>4, <1>5 DEF SenderTypeOK
<1>7. BridgeTypeOK
  BY DEF IInv
<1> QED
  BY <1>6, <1>7 DEF TypeOK, ProcessType

\* The state of a session's process has the type it is declared with, for every
\* number of clients, frames and sessions; the ring of datagrams never holds more
\* than it has room for (engine.rs 110 and 187).
THEOREM AlwaysTyped ==
    ASSUME WireIsU16
    PROVE  Spec => []TypeOK
<1> DEFINE AllInv == IInv /\ TableInv /\ BoundInv /\ SendInv /\ ProcessType
<1>1. Init => AllInv
  <2> SUFFICES ASSUME Init PROVE AllInv
    OBVIOUS
  <2>1. IInv /\ TableInv
    BY BridgeInits, TableInit
  <2>2. PICK k \in Kinds : headless = k.headless /\ SenderInit(k.role)
    BY DEF Init
  <2>3. SendInv
    BY <2>2, SendStarts DEF SenderInit
  <2>4. BoundInv
    <3>1. /\ tenants = 0 /\ seat = [d \in Dests |-> 0] /\ txtable = [d \in Dests |-> 0]
          /\ owed = NoUpdate /\ (updates = <<>> \/ updates = <<<<DEST_PEER, HOST>>>>)
      BY <2>2 DEF SenderInit, Nobody
    <3> QED
      BY <3>1, BoundStarts DEF BoundInv
  <2>5. ProcessType
    <3>1. headless \in BOOLEAN
      BY <2>2, EngineAssumption
    <3>2. txat = "top"
      BY <2>2 DEF SenderInit
    <3>3. main = "idle" /\ shutdown = FALSE /\ events = 0 /\ byes = {}
          /\ rx = "off" /\ ctl = "off" /\ tx = "off"
      BY DEF Init
    <3>4. 0 \in 0 .. 1
      OBVIOUS
    <3> QED
      BY <3>1, <3>2, <3>3, <3>4, Zenon DEF ProcessType
  <2> QED
    BY <2>1, <2>3, <2>4, <2>5
<1>2. AllInv /\ [Next]_vars => AllInv'
  BY BridgeStep, TableStep, BoundStep, SendStep, ProcessStep
<1>3. AllInv => TypeOK
  BY AllTyped
<1> QED
  BY <1>1, <1>2, <1>3, PTL DEF Spec
=============================================================================
