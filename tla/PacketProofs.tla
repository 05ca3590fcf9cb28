---------------------------- MODULE PacketProofs ----------------------------
(***************************************************************************)
(* What the writers of Packets lay out the readers take apart again: for   *)
(* every packet, whatever its numbers, names and payloads.                 *)
(***************************************************************************)
EXTENDS Packets, SequenceTheorems, WellFoundedInduction, TLAPS

-----------------------------------------------------------------------------
(* The datagrams of Packets: bytes one after the other.                    *)

\* n bytes.
Bytes(s, n) == s \in Seq(Int) /\ Len(s) = n

\* The values of a u16, a u32 and a u64 (whose upper half is a u32), and payloads
\* whose length is a u16.
U16 == {v \in Nat : v < 65536}
U32 == {v \in Nat : v < 65536 * 65536}
U64 == {v \in Nat : (v \div 65536) \div 65536 \in U32}
Short == {s \in Seq(Int) : Len(s) \in U16}

\* What is known of m bytes followed by n bytes.
Joins(s, t, m, n) ==
  /\ Bytes(s \o t, m + n)
  /\ \A i \in 1 .. m : (s \o t)[i] = s[i]
  /\ \A i \in 1 .. n : (s \o t)[m + i] = t[i]

\* Bytes, their number and each of them.
LEMMA BytesOf ==
  ASSUME NEW s \in Seq(Int)
  PROVE  Bytes(s, Len(s)) /\ Len(s) \in Nat
BY SMT DEF Bytes

\* What is known of each of them.
LEMMA ByteOf ==
  ASSUME NEW n \in Nat, NEW s, Bytes(s, n)
  PROVE  s \in Seq(Int) /\ Len(s) = n /\ \A i \in 1 .. n : s[i] \in Int
BY SMT DEF Bytes

\* A function of positions is a sequence.
LEMMA Listed ==
  ASSUME NEW n \in Nat, NEW b, b \in [1 .. n -> Int]
  PROVE  Bytes(b, n)
BY SMT DEF Bytes

\* Bytes joined.
LEMMA Joined ==
  ASSUME NEW m \in Nat, NEW n \in Nat, NEW s, NEW t, Bytes(s, m), Bytes(t, n)
  PROVE  Joins(s, t, m, n)
<1>1. s \in Seq(Int) /\ t \in Seq(Int) /\ Len(s) = m /\ Len(t) = n
  BY DEF Bytes
<1> DEFINE u == s \o t
<1>2. /\ u \in Seq(Int) /\ Len(u) = Len(s) + Len(t)
      /\ \A i \in 1 .. Len(s) + Len(t) : u[i] = IF i <= Len(s) THEN s[i] ELSE t[i - Len(s)]
  BY <1>1, ConcatProperties
<1> HIDE DEF u
<1>3. Len(u) = m + n /\ \A i \in 1 .. m + n : u[i] = IF i <= m THEN s[i] ELSE t[i - m]
  BY <1>1, <1>2
<1>4. ASSUME NEW i \in 1 .. m PROVE u[i] = s[i]
  <2>1. i \in 1 .. m + n /\ i <= m
    OBVIOUS
  <2>2. QED
    BY <1>3, <2>1
<1>5. ASSUME NEW i \in 1 .. n PROVE u[m + i] = t[i]
  <2>1. m + i \in 1 .. m + n /\ ~(m + i <= m) /\ m + i - m = i
    OBVIOUS
  <2>2. QED
    BY <1>3, <2>1
<1>6. Bytes(u, m + n)
  BY <1>2, <1>3, Zenon DEF Bytes
<1>7. QED
  BY <1>4, <1>5, <1>6 DEF u, Joins

\* It does not matter where three pieces are joined first.
LEMMA JoinedThrice ==
  ASSUME NEW s \in Seq(Int), NEW t \in Seq(Int), NEW u \in Seq(Int)
  PROVE  /\ s \o t \in Seq(Int)
         /\ (s \o t) \o u = s \o (t \o u)
BY SMT

\* What follows the same bytes is the same.
LEMMA SameBehind ==
  ASSUME NEW s \in Seq(Int), NEW t \in Seq(Int), NEW u \in Seq(Int), s \o t = s \o u
  PROVE  t = u
BY ConcatSimplifications

\* The bytes behind a beginning, and the beginning.
LEMMA Behind ==
  ASSUME NEW m \in Nat, NEW s, NEW t \in Seq(Int), Bytes(s, m)
  PROVE  bytes_left(s \o t, m) = t /\ SubSeq(s \o t, 1, m) = s
<1>1. s \in Seq(Int) /\ Len(s) = m
  BY ByteOf
<1>2. SubSeq(s \o t, 1, Len(s)) = s /\ SubSeq(s \o t, Len(s) + 1, Len(s \o t)) = t
  BY <1>1, SMT
<1>3. QED
  BY <1>1, <1>2, Zenon DEF bytes_left

\* A beginning of a beginning.
LEMMA Beginning ==
  ASSUME NEW m \in Nat, NEW s, NEW t \in Seq(Int), Bytes(s, m), NEW n \in 0 .. m
  PROVE  SubSeq(s \o t, 1, n) = SubSeq(s, 1, n)
<1>1. s \in Seq(Int) /\ Len(s) = m
  BY ByteOf
<1>2. QED
  BY <1>1, SMT

\* Two bytes.
LEMMA Pair ==
  ASSUME NEW x \in Int, NEW y \in Int
  PROVE  Bytes(<<x, y>>, 2) /\ <<x, y>>[1] = x /\ <<x, y>>[2] = y
BY SMT DEF Bytes

\* Two bytes in the midst of bytes.
LEMMA SliceOfTwo ==
  ASSUME NEW n \in Nat, NEW s, Bytes(s, n), NEW i \in Nat \ {0}, i + 1 <= n
  PROVE  LET p == SubSeq(s, i, i + 1) IN Bytes(p, 2) /\ p[1] = s[i] /\ p[2] = s[i + 1]
<1>1. s \in Seq(Int) /\ Len(s) = n
  BY ByteOf
<1>2. QED
  BY <1>1, SMT DEF Bytes

-----------------------------------------------------------------------------
(* Going through a list.                                                   *)

\* What holds at the start, and behind each element if it holds before it, holds to
\* the end.
LEMMA StepByStep ==
  ASSUME NEW n \in Nat, NEW S, 0 \in S, \A k \in 1 .. n : k - 1 \in S => k \in S
  PROVE  \A k \in 0 .. n : k \in S
<1> DEFINE T == {k \in 0 .. n : k \notin S}
<1>1. SUFFICES ASSUME T # {} PROVE FALSE
  OBVIOUS
<1>2. T \subseteq Nat
  OBVIOUS
<1>3. PICK m \in T : \A k \in T : ~ (<<k, m>> \in OpToRel(<, Nat))
  BY <1>1, <1>2, WFMin, NatLessThanWellFounded
<1>4. \A k \in T : ~ (k < m)
  BY <1>2, <1>3, Zenon DEF OpToRel
<1>5. m \in 0 .. n /\ m \notin S
  OBVIOUS
<1>6. m \in 1 .. n /\ m - 1 \in 0 .. n /\ m - 1 < m
  BY <1>5
<1>7. m - 1 \in S
  BY <1>4, <1>6
<1>8. QED
  BY <1>5, <1>6, <1>7

-----------------------------------------------------------------------------
(* Numbers on the wire.                                                    *)

\* f holds what from_be_bytes has read of the n bytes b: what it has so far becomes 256
\* times as much, and the next byte is added.
Unrolls(b, n, f) ==
  /\ value(b) = f[n]
  /\ f[0] = 0
  /\ \A k \in 1 .. n : f[k] = f[k - 1] * 256 + b[k]

\* What it has read of the first m bytes.
ReadSoFar(b, m, f) == f = [k \in 0 .. m |-> IF k = 0 THEN 0 ELSE f[k - 1] * 256 + b[k]]

\* There is one.
LEMMA ReadSoFarExists ==
  ASSUME NEW b, NEW n \in Nat
  PROVE  \E f : ReadSoFar(b, n, f)
<1> DEFINE S == {m \in 0 .. n : \E f : ReadSoFar(b, m, f)}
<1>1. 0 \in S
  <2>1. ReadSoFar(b, 0, [k \in 0 .. 0 |-> 0])
    BY DEF ReadSoFar
  <2>2. QED
    BY <2>1
<1>2. ASSUME NEW m \in 1 .. n, m - 1 \in S PROVE m \in S
  <2>1. PICK f : ReadSoFar(b, m - 1, f)
    BY <1>2
  <2> DEFINE g == [k \in 0 .. m |-> IF k = m THEN f[m - 1] * 256 + b[m] ELSE f[k]]
  <2>2. \A k \in 0 .. m - 1 : f[k] = IF k = 0 THEN 0 ELSE f[k - 1] * 256 + b[k]
    BY <2>1 DEF ReadSoFar
  <2>3. g[m] = f[m - 1] * 256 + b[m] /\ \A k \in 0 .. m - 1 : g[k] = f[k]
    OBVIOUS
  <2>4. g = [k \in 0 .. m |-> g[k]]
    OBVIOUS
  <2> HIDE DEF g
  <2>5. ASSUME NEW k \in 0 .. m PROVE g[k] = IF k = 0 THEN 0 ELSE g[k - 1] * 256 + b[k]
    <3>1. CASE k = m
      <4>1. k # 0 /\ k - 1 \in 0 .. m - 1
        BY <3>1
      <4>2. QED
        BY <2>3, <3>1, <4>1, Zenon
    <3>2. CASE k # m /\ k # 0
      <4>1. k \in 0 .. m - 1 /\ k - 1 \in 0 .. m - 1
        BY <3>2
      <4>2. QED
        BY <2>2, <2>3, <3>2, <4>1, ZenonT(60)
    <3>3. CASE k # m /\ k = 0
      <4>1. k \in 0 .. m - 1
        BY <3>3
      <4>2. QED
        BY <2>2, <2>3, <3>3, <4>1, Zenon
    <3>4. QED
      BY <3>1, <3>2, <3>3, Zenon
  <2>6. ReadSoFar(b, m, g)
    BY <2>4, <2>5 DEF ReadSoFar
  <2>7. QED
    BY <2>6
<1> HIDE DEF S
<1>3. n \in S
  BY <1>1, <1>2, StepByStep
<1>4. QED
  BY <1>3 DEF S

\* from_be_bytes takes the bytes one by one.
LEMMA ValueUnrolled ==
  ASSUME NEW n \in Nat, NEW b, Bytes(b, n)
  PROVE  \E f : Unrolls(b, n, f)
<1> DEFINE upto == CHOOSE f : ReadSoFar(b, n, f)
<1>1. ReadSoFar(b, n, upto)
  BY ReadSoFarExists
<1>2. Len(b) = n
  BY ByteOf
<1>3. value(b) = upto[n]
  BY <1>2, Zenon DEF value, ReadSoFar
<1> HIDE DEF upto
<1>4. upto[0] = 0 /\ \A k \in 1 .. n : upto[k] = upto[k - 1] * 256 + b[k]
  <2>1. 0 \in 0 .. n /\ \A k \in 1 .. n : k \in 0 .. n /\ k # 0
    OBVIOUS
  <2>2. QED
    BY <1>1, <2>1, Zenon DEF ReadSoFar
<1>5. QED
  BY <1>3, <1>4 DEF Unrolls

\* Two bytes.
LEMMA ValueOfTwo ==
  ASSUME NEW b, Bytes(b, 2)
  PROVE  value(b) = b[1] * 256 + b[2]
<1>0. 2 \in Nat
  OBVIOUS
<1>1. b[1] \in Int /\ b[2] \in Int
  <2>1. \A i \in 1 .. 2 : b[i] \in Int
    BY <1>0, ByteOf, Zenon
  <2>2. QED
    BY <2>1
<1>f. PICK f : Unrolls(b, 2, f)
  BY <1>0, ValueUnrolled, Zenon
<1>2. value(b) = f[2] /\ f[0] = 0 /\ \A k \in 1 .. 2 : f[k] = f[k - 1] * 256 + b[k]
  BY <1>f, Zenon DEF Unrolls
<1>3. f[1] = f[0] * 256 + b[1] /\ f[2] = f[1] * 256 + b[2]
  BY <1>2
<1>4. QED
  BY <1>1, <1>2, <1>3

\* Four bytes.
LEMMA ValueOfFour ==
  ASSUME NEW b, Bytes(b, 4)
  PROVE  value(b) = ((b[1] * 256 + b[2]) * 256 + b[3]) * 256 + b[4]
<1>0. 4 \in Nat
  OBVIOUS
<1>1. b[1] \in Int /\ b[2] \in Int /\ b[3] \in Int /\ b[4] \in Int
  <2>1. \A i \in 1 .. 4 : b[i] \in Int
    BY <1>0, ByteOf, Zenon
  <2>2. QED
    BY <2>1
<1>f. PICK f : Unrolls(b, 4, f)
  BY <1>0, ValueUnrolled, Zenon
<1>2. value(b) = f[4] /\ f[0] = 0 /\ \A k \in 1 .. 4 : f[k] = f[k - 1] * 256 + b[k]
  BY <1>f, Zenon DEF Unrolls
<1>3. f[1] = f[0] * 256 + b[1] /\ f[2] = f[1] * 256 + b[2]
      /\ f[3] = f[2] * 256 + b[3] /\ f[4] = f[3] * 256 + b[4]
  BY <1>2
<1>4. f[1] = b[1]
  BY <1>1, <1>2, <1>3
<1>5. QED
  BY <1>1, <1>2, <1>3, <1>4

\* A number of n digits to the base 256.
LEMMA Digits ==
  ASSUME NEW v \in Nat
  PROVE  /\ v \div 256 \in Nat /\ v % 256 \in 0 .. 255
         /\ v = (v \div 256) * 256 + (v % 256)
BY SMT

\* Digits of digits.
LEMMA DivDiv ==
  ASSUME NEW v \in Nat
  PROVE  /\ v \div 65536 = (v \div 256) \div 256
         /\ v \div 16777216 = ((v \div 256) \div 256) \div 256
BY SMT

\* The weights of four bytes.
LEMMA Weights == 256 ^ 0 = 1 /\ 256 ^ 1 = 256 /\ 256 ^ 2 = 65536 /\ 256 ^ 3 = 16777216
BY SMT
\* A u16 is read as it was written.
LEMMA BeTwo ==
  ASSUME NEW v \in U16
  PROVE  Bytes(be(v, 2), 2) /\ value(be(v, 2)) = v
<1> DEFINE b == be(v, 2)
           q == v \div 256
<1>1. v \in Nat /\ v < 65536
  BY SMT DEF U16
<1>2. q \in Nat /\ v % 256 \in 0 .. 255 /\ v = q * 256 + (v % 256)
  BY <1>1, Digits
<1>3. v \div 1 = v
  BY <1>1, SMT
<1>4. b = [k \in 1 .. 2 |-> (v \div 256 ^ (2 - k)) % 256]
  BY DEF be
<1>5. b[1] = q % 256 /\ b[2] = v % 256
  <2>1. 2 - 1 = 1 /\ 2 - 2 = 0 /\ 1 \in 1 .. 2 /\ 2 \in 1 .. 2
    BY SMT
  <2>2. b[1] = (v \div 256 ^ (2 - 1)) % 256
    BY <1>4, <2>1
  <2>3. b[2] = (v \div 256 ^ (2 - 2)) % 256
    BY <1>4, <2>1
  <2>4. QED
    BY <1>3, <2>1, <2>2, <2>3, Weights, SMT
<1> HIDE DEF q
<1>6. q <= 255
  BY <1>1, <1>2, SMT
<1>7. q % 256 = q
  BY <1>2, <1>6, SMT
<1>8. Bytes(b, 2)
  <2>1. \A k \in 1 .. 2 : b[k] \in Int
    BY <1>2, <1>5, <1>7, SMT
  <2>2. b = [k \in 1 .. 2 |-> b[k]]
    BY <1>4
  <2> HIDE DEF b
  <2>3. 2 \in Nat /\ b \in [1 .. 2 -> Int]
    BY <2>1, <2>2
  <2>4. QED
    BY <2>3, Listed, Zenon
<1>9. value(b) = b[1] * 256 + b[2]
  BY <1>8, ValueOfTwo
<1> HIDE DEF b
<1>10. value(b) = v
  BY <1>2, <1>5, <1>7, <1>9, SMT
<1>11. QED
  BY <1>8, <1>10 DEF b

\* The last four digits of a number.
LEMMA LastFour ==
  ASSUME NEW v \in Nat
  PROVE  /\ Bytes(be(v, 4), 4) /\ value(be(v, 4)) \in U32
         /\ (v \div 65536) \div 65536 \in Nat
         /\ v = ((v \div 65536) \div 65536) * (65536 * 65536) + value(be(v, 4))
<1> DEFINE b == be(v, 4)
           q == v \div 256
           r == q \div 256
           s == r \div 256
           h == s \div 256
<1>2. q \in Nat /\ v % 256 \in 0 .. 255 /\ v = q * 256 + (v % 256)
  BY Digits
<1>3. r \in Nat /\ q % 256 \in 0 .. 255 /\ q = r * 256 + (q % 256)
  BY <1>2, Digits
<1>4. s \in Nat /\ r % 256 \in 0 .. 255 /\ r = s * 256 + (r % 256)
  BY <1>3, Digits
<1>h. h \in Nat /\ s % 256 \in 0 .. 255 /\ s = h * 256 + (s % 256)
  BY <1>4, Digits
<1>5. v \div 1 = v /\ v \div 65536 = r /\ v \div 16777216 = s
  BY DivDiv, SMT
<1>d. (v \div 65536) \div 65536 = h
  BY <1>3, <1>5, DivDiv
<1>6. b = [k \in 1 .. 4 |-> (v \div 256 ^ (4 - k)) % 256]
  BY DEF be
<1>7. b[1] = s % 256 /\ b[2] = r % 256 /\ b[3] = q % 256 /\ b[4] = v % 256
  <2>1. /\ 4 - 1 = 3 /\ 4 - 2 = 2 /\ 4 - 3 = 1 /\ 4 - 4 = 0
        /\ 1 \in 1 .. 4 /\ 2 \in 1 .. 4 /\ 3 \in 1 .. 4 /\ 4 \in 1 .. 4
    BY SMT
  <2>2. /\ b[1] = (v \div 256 ^ (4 - 1)) % 256
        /\ b[2] = (v \div 256 ^ (4 - 2)) % 256
        /\ b[3] = (v \div 256 ^ (4 - 3)) % 256
        /\ b[4] = (v \div 256 ^ (4 - 4)) % 256
    BY <1>6, <2>1
  <2>3. QED
    BY <1>5, <2>1, <2>2, Weights, SMT
<1> HIDE DEF q, r, s, h
<1>10. Bytes(b, 4)
  <2>1. \A k \in 1 .. 4 : b[k] \in Int
    BY <1>2, <1>3, <1>4, <1>7, <1>h, SMT
  <2>2. b = [k \in 1 .. 4 |-> b[k]]
    BY <1>6
  <2> HIDE DEF b
  <2>3. 4 \in Nat /\ b \in [1 .. 4 -> Int]
    BY <2>1, <2>2
  <2>4. QED
    BY <2>3, Listed, Zenon
<1>11. value(b) = ((b[1] * 256 + b[2]) * 256 + b[3]) * 256 + b[4]
  BY <1>10, ValueOfFour
<1> HIDE DEF b
<1>12. value(b) = (((s % 256) * 256 + (r % 256)) * 256 + (q % 256)) * 256 + (v % 256)
  BY <1>7, <1>11
<1>13. value(b) \in U32 /\ v = h * (65536 * 65536) + value(b)
  BY <1>2, <1>3, <1>4, <1>h, <1>12, SMT DEF U32
<1>14. QED
  BY <1>10, <1>13, <1>h, <1>d DEF b

\* A u32 is read as it was written.
LEMMA BeFour ==
  ASSUME NEW v \in U32
  PROVE  Bytes(be(v, 4), 4) /\ value(be(v, 4)) = v
<1> DEFINE h == (v \div 65536) \div 65536
<1>1. v \in Nat /\ v < 65536 * 65536
  BY SMT DEF U32
<1>2. /\ Bytes(be(v, 4), 4) /\ value(be(v, 4)) \in U32
      /\ h \in Nat /\ v = h * (65536 * 65536) + value(be(v, 4))
  BY <1>1, LastFour
<1> HIDE DEF h
<1>3. PICK w : w = value(be(v, 4))
  OBVIOUS
<1>4. v = w
  BY <1>1, <1>2, <1>3, SMT DEF U32
<1>5. QED
  BY <1>2, <1>3, <1>4

\* The bytes of v, most significant first, stand at i.
ShortAt(s, i, v) == s[i] = be(v, 2)[1] /\ s[i + 1] = be(v, 2)[2]

\* A u16 in the midst of bytes is read as it was written.
LEMMA ShortRead ==
  ASSUME NEW n \in Nat, NEW s, Bytes(s, n), NEW i \in Nat \ {0}, i + 1 <= n,
         NEW v \in U16, ShortAt(s, i, v)
  PROVE  value(SubSeq(s, i, i + 1)) = v
<1> DEFINE p == SubSeq(s, i, i + 1)
           w == be(v, 2)
<1>1. Bytes(p, 2) /\ p[1] = s[i] /\ p[2] = s[i + 1]
  BY SliceOfTwo
<1>2. Bytes(w, 2) /\ value(w) = v
  BY BeTwo
<1> HIDE DEF p, w
<1>3. value(p) = p[1] * 256 + p[2] /\ value(w) = w[1] * 256 + w[2]
  BY <1>1, <1>2, ValueOfTwo
<1>4. p[1] = w[1] /\ p[2] = w[2]
  BY <1>1 DEF w, ShortAt
<1>5. value(p) = v
  BY <1>2, <1>3, <1>4
<1>6. QED
  BY <1>5 DEF p

-----------------------------------------------------------------------------
(* The header.                                                             *)

\* What a header holds: a type, and three u16.
Header(h) ==
  /\ h.ptype \in DOMAIN PacketType
  /\ h.session_id \in U16 /\ h.sender_id \in U16 /\ h.seq \in U16

\* The numbers of the packet types fit into four bits, and no two are the same.
LEMMA TypeNumbers ==
  ASSUME NEW t \in DOMAIN PacketType
  PROVE  /\ PacketType[t] \in 0 .. 9
         /\ \A u \in DOMAIN PacketType : PacketType[u] = PacketType[t] => u = t
BY SMT DEF PacketType

\* The type is the only one with its number.
LEMMA TypeNamed ==
  ASSUME NEW t \in DOMAIN PacketType
  PROVE  /\ (PROTOCOL_VERSION * 16 + PacketType[t]) \div 16 = PROTOCOL_VERSION
         /\ (PROTOCOL_VERSION * 16 + PacketType[t]) % 16 = PacketType[t]
         /\ named(PacketType, PacketType[t]) = {t}
<1>1. named(PacketType, PacketType[t]) = {t}
  BY TypeNumbers DEF named
<1> DEFINE p == PacketType[t]
<1>2. p \in 0 .. 9
  BY TypeNumbers
<1> HIDE DEF p
<1>3. (1 * 16 + p) \div 16 = 1 /\ (1 * 16 + p) % 16 = p
  BY <1>2, SMT
<1>4. QED
  BY <1>1, <1>3 DEF p, PROTOCOL_VERSION

\* How the header is laid out.
LEMMA HeaderLayout ==
  ASSUME NEW h, Header(h)
  PROVE  LET hb == header_bytes(h) IN
         /\ Bytes(hb, 8)
         /\ hb[1] = MAGIC /\ hb[2] = PROTOCOL_VERSION * 16 + PacketType[h.ptype]
         /\ hb[3] = be(h.session_id, 2)[1] /\ hb[4] = be(h.session_id, 2)[2]
         /\ hb[5] = be(h.sender_id, 2)[1] /\ hb[6] = be(h.sender_id, 2)[2]
         /\ hb[7] = be(h.seq, 2)[1] /\ hb[8] = be(h.seq, 2)[2]
<1> DEFINE v == PROTOCOL_VERSION * 16 + PacketType[h.ptype]
           b1 == be(h.session_id, 2)
           b2 == be(h.sender_id, 2)
           b3 == be(h.seq, 2)
           s1 == <<MAGIC, v>>
           s2 == s1 \o b1
           s3 == s2 \o b2
           s4 == s3 \o b3
<1>1. Bytes(b1, 2) /\ Bytes(b2, 2) /\ Bytes(b3, 2)
  BY BeTwo DEF Header
<1>2. v \in Int /\ MAGIC \in Int
  <2>1. PacketType[h.ptype] \in 0 .. 9
    BY TypeNumbers DEF Header
  <2>2. QED
    BY <2>1, SMT DEF PROTOCOL_VERSION, MAGIC
<1>3. s4 = header_bytes(h)
  BY DEF header_bytes
<1> HIDE DEF v, b1, b2, b3
<1>4. Bytes(s1, 2) /\ s1[1] = MAGIC /\ s1[2] = v
  BY <1>2, Pair
<1> HIDE DEF s1
<1>0. /\ 2 \in Nat /\ 4 \in Nat /\ 6 \in Nat
      /\ 2 + 2 = 4 /\ 4 + 2 = 6 /\ 6 + 2 = 8
      /\ 2 + 1 = 3 /\ 4 + 1 = 5 /\ 6 + 1 = 7
  OBVIOUS
<1>5. Joins(s1, b1, 2, 2)
  BY <1>0, <1>1, <1>4, Joined, Zenon
<1>6. Bytes(s2, 2 + 2)
      /\ (\A i \in 1 .. 2 : s2[i] = s1[i]) /\ (\A i \in 1 .. 2 : s2[2 + i] = b1[i])
  BY <1>5, Zenon DEF Joins
<1> HIDE DEF s2
<1>7. Bytes(s2, 4) /\ s2[1] = MAGIC /\ s2[2] = v /\ s2[3] = b1[1] /\ s2[4] = b1[2]
  BY <1>0, <1>4, <1>6
<1>8. Joins(s2, b2, 4, 2)
  BY <1>0, <1>1, <1>7, Joined, Zenon
<1>9. Bytes(s3, 4 + 2)
      /\ (\A i \in 1 .. 4 : s3[i] = s2[i]) /\ (\A i \in 1 .. 2 : s3[4 + i] = b2[i])
  BY <1>8, Zenon DEF Joins
<1> HIDE DEF s3
<1>10. Bytes(s3, 6) /\ s3[1] = MAGIC /\ s3[2] = v /\ s3[3] = b1[1] /\ s3[4] = b1[2]
       /\ s3[5] = b2[1] /\ s3[6] = b2[2]
  BY <1>0, <1>7, <1>9
<1>11. Joins(s3, b3, 6, 2)
  BY <1>0, <1>1, <1>10, Joined, Zenon
<1>12. Bytes(s4, 6 + 2)
       /\ (\A i \in 1 .. 6 : s4[i] = s3[i]) /\ (\A i \in 1 .. 2 : s4[6 + i] = b3[i])
  BY <1>11, Zenon DEF Joins
<1> HIDE DEF s4
<1>13. Bytes(s4, 8) /\ s4[1] = MAGIC /\ s4[2] = v /\ s4[3] = b1[1] /\ s4[4] = b1[2]
       /\ s4[5] = b2[1] /\ s4[6] = b2[2] /\ s4[7] = b3[1] /\ s4[8] = b3[2]
  BY <1>0, <1>10, <1>12
<1>14. QED
  BY <1>3, <1>13 DEF v, b1, b2, b3

\* A header is read as it was written, whatever follows it.
LEMMA HeaderRead ==
  ASSUME NEW h, Header(h), NEW body \in Seq(Int)
  PROVE  /\ header_bytes(h) \in Seq(Int)
         /\ parse_header(header_bytes(h) \o body) =
                [ptype |-> h.ptype, session_id |-> h.session_id,
                 sender_id |-> h.sender_id, seq |-> h.seq]
         /\ bytes_left(header_bytes(h) \o body, HEADER_LEN) = body
<1> DEFINE hb == header_bytes(h)
           buf == hb \o body
           b1 == be(h.session_id, 2)
           b2 == be(h.sender_id, 2)
           b3 == be(h.seq, 2)
           v == PROTOCOL_VERSION * 16 + PacketType[h.ptype]
           n == Len(body)
<1>0. /\ 8 \in Nat /\ 3 \in Nat \ {0} /\ 5 \in Nat \ {0} /\ 7 \in Nat \ {0}
      /\ 3 + 1 = 4 /\ 5 + 1 = 6 /\ 7 + 1 = 8
  OBVIOUS
<1>1. h.session_id \in U16 /\ h.sender_id \in U16 /\ h.seq \in U16
  BY DEF Header
<1>2. /\ Bytes(hb, 8) /\ hb[1] = MAGIC /\ hb[2] = v
      /\ hb[3] = b1[1] /\ hb[4] = b1[2] /\ hb[5] = b2[1] /\ hb[6] = b2[2]
      /\ hb[7] = b3[1] /\ hb[8] = b3[2]
  BY HeaderLayout
<1>3. v \div 16 = PROTOCOL_VERSION /\ named(PacketType, v % 16) = {h.ptype}
  BY TypeNamed DEF Header
<1>4. parse_header(buf) =
        IF Len(buf) < HEADER_LEN THEN Err("Truncated")
        ELSE IF buf[1] # MAGIC THEN Err("BadMagic")
        ELSE IF buf[2] \div 16 # PROTOCOL_VERSION THEN Err("BadVersion")
        ELSE IF named(PacketType, buf[2] % 16) = {} THEN Err("BadType")
        ELSE [ptype |-> CHOOSE t \in named(PacketType, buf[2] % 16) : TRUE,
              session_id |-> value(SubSeq(buf, 3, 4)),
              sender_id |-> value(SubSeq(buf, 5, 6)),
              seq |-> value(SubSeq(buf, 7, 8))]
  BY Zenon DEF parse_header
<1>5. n \in Nat /\ Bytes(body, n)
  BY BytesOf
<1> HIDE DEF n
<1>6. Joins(hb, body, 8, n)
  BY <1>0, <1>2, <1>5, Joined, Zenon
<1>7. bytes_left(buf, 8) = body
  BY <1>0, <1>2, Behind, Zenon
<1>8. Bytes(buf, 8 + n) /\ \A i \in 1 .. 8 : buf[i] = hb[i]
  BY <1>6, Zenon DEF Joins
<1>9. hb \in Seq(Int)
  BY <1>2, Zenon DEF Bytes
<1> HIDE DEF hb, buf, b1, b2, b3, v
<1>10. /\ buf[1] = MAGIC /\ buf[2] = v
       /\ buf[3] = b1[1] /\ buf[3 + 1] = b1[2] /\ buf[5] = b2[1] /\ buf[5 + 1] = b2[2]
       /\ buf[7] = b3[1] /\ buf[7 + 1] = b3[2]
  BY <1>0, <1>2, <1>8
<1> DEFINE N == 8 + n
<1>11. N \in Nat /\ 3 + 1 <= N /\ 5 + 1 <= N /\ 7 + 1 <= N /\ ~(N < 8)
  BY <1>5
<1> HIDE DEF N
<1>12. Bytes(buf, N)
  BY <1>8 DEF N
<1>13. value(SubSeq(buf, 3, 4)) = h.session_id
  <2>1. ShortAt(buf, 3, h.session_id)
    BY <1>10, Zenon DEF b1, ShortAt
  <2>2. value(SubSeq(buf, 3, 3 + 1)) = h.session_id
    BY <1>0, <1>1, <1>11, <1>12, <2>1, ShortRead, Zenon
  <2>3. QED
    BY <1>0, <2>2
<1>14. value(SubSeq(buf, 5, 6)) = h.sender_id
  <2>1. ShortAt(buf, 5, h.sender_id)
    BY <1>10, Zenon DEF b2, ShortAt
  <2>2. value(SubSeq(buf, 5, 5 + 1)) = h.sender_id
    BY <1>0, <1>1, <1>11, <1>12, <2>1, ShortRead, Zenon
  <2>3. QED
    BY <1>0, <2>2
<1>15. value(SubSeq(buf, 7, 8)) = h.seq
  <2>1. ShortAt(buf, 7, h.seq)
    BY <1>10, Zenon DEF b3, ShortAt
  <2>2. value(SubSeq(buf, 7, 7 + 1)) = h.seq
    BY <1>0, <1>1, <1>11, <1>12, <2>1, ShortRead, Zenon
  <2>3. QED
    BY <1>0, <2>2
<1>16. ~(Len(buf) < HEADER_LEN)
  <2>1. Len(buf) = N
    BY <1>12, Zenon DEF Bytes
  <2>2. QED
    BY <1>11, <2>1 DEF HEADER_LEN
<1>17. /\ (CHOOSE t \in named(PacketType, buf[2] % 16) : TRUE) = h.ptype
       /\ named(PacketType, buf[2] % 16) # {}
       /\ buf[2] \div 16 = PROTOCOL_VERSION
  BY <1>3, <1>10
<1>18. parse_header(buf) = [ptype |-> h.ptype, session_id |-> h.session_id,
                            sender_id |-> h.sender_id, seq |-> h.seq]
  BY <1>4, <1>10, <1>13, <1>14, <1>15, <1>16, <1>17, Zenon
<1>19. QED
  BY <1>7, <1>9, <1>18 DEF hb, buf, HEADER_LEN

-----------------------------------------------------------------------------
(* Audio packets.                                                          *)

\* What an audio packet holds: a u32, a codec, a payload whose length is a u16, and
\* perhaps another payload.
AudioPacket(a) ==
  /\ a.timestamp \in U32 /\ a.codec \in DOMAIN Codec
  /\ a.payload \in Short
  /\ a.redundant = NoCopy \/ \E r \in Short : a.redundant = <<r>>

flag(a) == IF a.redundant = NoCopy THEN 0 ELSE AUDIO_FLAG_REDUNDANCY
copy_bytes(a) ==
  IF a.redundant = NoCopy THEN <<>> ELSE be(Len(a.redundant[1]), 2) \o a.redundant[1]
fixed_bytes(a) ==
  be(a.timestamp, 4) \o <<Codec[a.codec], flag(a)>> \o be(Len(a.payload), 2)
audio_bytes(a) == fixed_bytes(a) \o (a.payload \o copy_bytes(a))

\* The codec is the only one with its number.
LEMMA CodecNamed ==
  ASSUME NEW c \in DOMAIN Codec
  PROVE  Codec[c] \in 0 .. 2 /\ named(Codec, Codec[c]) = {c}
BY SMT DEF Codec, named

\* The codec and the flags are two bytes.
LEMMA CodecByte ==
  ASSUME NEW a, AudioPacket(a)
  PROVE  /\ Bytes(<<Codec[a.codec], flag(a)>>, 2)
         /\ <<Codec[a.codec], flag(a)>>[1] = Codec[a.codec]
         /\ <<Codec[a.codec], flag(a)>>[2] = flag(a)
<1>1. Codec[a.codec] \in 0 .. 2
  BY CodecNamed DEF AudioPacket
<1>2. Codec[a.codec] \in Int /\ flag(a) \in Int
  BY <1>1 DEF flag, AUDIO_FLAG_REDUNDANCY
<1>3. QED
  BY <1>2, Pair, Zenon

\* The copy is read as it was written.
LEMMA CopyRead ==
  ASSUME NEW a, AudioPacket(a)
  PROVE  /\ copy_bytes(a) \in Seq(Int)
         /\ parse_copy(flag(a), copy_bytes(a)) = [redundant |-> a.redundant]
<1>1. CASE a.redundant = NoCopy
  <2>1. copy_bytes(a) = <<>> /\ flag(a) = 0
    BY <1>1 DEF copy_bytes, flag
  <2>2. 0 % 2 # AUDIO_FLAG_REDUNDANCY
    BY SMT DEF AUDIO_FLAG_REDUNDANCY
  <2>3. QED
    BY <1>1, <2>1, <2>2 DEF parse_copy
<1>2. CASE a.redundant # NoCopy
  <2>1. PICK r \in Short : a.redundant = <<r>>
    BY <1>2 DEF AudioPacket
  <2> DEFINE l == be(Len(r), 2)
             n == Len(r)
             t == l \o r
  <2>2. r \in Seq(Int) /\ n \in U16 /\ n \in Nat /\ Bytes(r, n)
    BY BytesOf DEF Short
  <2>3. Bytes(l, 2) /\ value(l) = n
    BY <2>2, BeTwo
  <2>4. a.redundant[1] = r
    BY <2>1
  <2>5. copy_bytes(a) = t /\ flag(a) = 1
    BY <1>2, <2>4 DEF copy_bytes, flag, AUDIO_FLAG_REDUNDANCY
  <2> HIDE DEF l, n
  <2>6. 2 \in Nat
    OBVIOUS
  <2>7. Bytes(t, 2 + n)
    BY <2>2, <2>3, <2>6, Joined, Zenon DEF Joins
  <2>8. bytes_left(t, 2) = r /\ SubSeq(t, 1, 2) = l
    BY <2>2, <2>3, <2>6, Behind, Zenon
  <2> HIDE DEF t
  <2>9. Len(t) = 2 + n /\ t \in Seq(Int) /\ Len(r) = n
    BY <2>2, <2>7, Zenon DEF Bytes
  <2> DEFINE N == Len(t)
  <2>10. ~(N < 2) /\ ~(n < n) /\ ~(n > n) /\ ~(1 % 2 # AUDIO_FLAG_REDUNDANCY)
    <3> HIDE DEF N
    <3>1. N = 2 + n
      BY <2>9 DEF N
    <3>2. QED
      BY <2>2, <3>1, SMT DEF AUDIO_FLAG_REDUNDANCY
  <2>11. parse_copy(1, t) = [redundant |-> <<r>>]
    BY <2>3, <2>8, <2>9, <2>10, Zenon DEF parse_copy
  <2>12. QED
    BY <2>1, <2>5, <2>9, <2>11
<1>3. QED
  BY <1>1, <1>2

\* How the first part of an audio packet is laid out.
LEMMA AudioLayout ==
  ASSUME NEW a, AudioPacket(a)
  PROVE  LET fb == fixed_bytes(a) IN
         /\ Bytes(fb, 8)
         /\ fb[5] = Codec[a.codec] /\ fb[6] = flag(a)
         /\ fb[7] = be(Len(a.payload), 2)[1] /\ fb[8] = be(Len(a.payload), 2)[2]
         /\ SubSeq(fb, 1, 4) = be(a.timestamp, 4)
<1> DEFINE t == be(a.timestamp, 4)
           c == <<Codec[a.codec], flag(a)>>
           l == be(Len(a.payload), 2)
           s2 == t \o c
           s3 == s2 \o l
<1>1. Bytes(t, 4) /\ Bytes(l, 2)
  BY BeTwo, BeFour DEF AudioPacket, Short
<1>2. Bytes(c, 2) /\ c[1] = Codec[a.codec] /\ c[2] = flag(a)
  BY CodecByte
<1>0. /\ 2 \in Nat /\ 4 \in Nat /\ 6 \in Nat /\ 4 \in 0 .. 6
      /\ 4 + 2 = 6 /\ 6 + 2 = 8 /\ 4 + 1 = 5 /\ 6 + 1 = 7
  OBVIOUS
<1>3. s3 = fixed_bytes(a)
  BY DEF fixed_bytes
<1> HIDE DEF t, c, l
<1>4. Joins(t, c, 4, 2)
  BY <1>0, <1>1, <1>2, Joined, Zenon
<1>5. Bytes(s2, 4 + 2) /\ \A i \in 1 .. 2 : s2[4 + i] = c[i]
  BY <1>4, Zenon DEF Joins
<1>6. SubSeq(s2, 1, 4) = t
  <2>1. c \in Seq(Int)
    BY <1>2, Zenon DEF Bytes
  <2>2. QED
    BY <1>0, <1>1, <2>1, Behind, Zenon
<1> HIDE DEF s2
<1>7. Bytes(s2, 6) /\ s2[5] = c[1] /\ s2[6] = c[2]
  BY <1>0, <1>5
<1>8. Joins(s2, l, 6, 2)
  BY <1>0, <1>1, <1>7, Joined, Zenon
<1>9. Bytes(s3, 6 + 2)
      /\ (\A i \in 1 .. 6 : s3[i] = s2[i]) /\ (\A i \in 1 .. 2 : s3[6 + i] = l[i])
  BY <1>8, Zenon DEF Joins
<1>10. SubSeq(s3, 1, 4) = t
  <2>1. l \in Seq(Int)
    BY <1>1, Zenon DEF Bytes
  <2>2. SubSeq(s3, 1, 4) = SubSeq(s2, 1, 4)
    BY <1>0, <1>7, <2>1, Beginning, Zenon
  <2>3. QED
    BY <1>6, <2>2
<1> HIDE DEF s3
<1>11. Bytes(s3, 8) /\ s3[5] = c[1] /\ s3[6] = c[2] /\ s3[7] = l[1] /\ s3[8] = l[2]
  BY <1>0, <1>7, <1>9
<1>12. QED
  BY <1>2, <1>3, <1>10, <1>11 DEF t, l

\* An audio packet's body is read as it was written.
LEMMA AudioRead ==
  ASSUME NEW a, AudioPacket(a)
  PROVE  /\ audio_bytes(a) \in Seq(Int)
         /\ parse_audio(audio_bytes(a)) =
                [type |-> "Audio", timestamp |-> a.timestamp, codec |-> a.codec,
                 payload |-> a.payload, redundant |-> a.redundant]
<1> DEFINE f == fixed_bytes(a)
           p == a.payload
           t == copy_bytes(a)
           m == Len(p)
           l == be(m, 2)
           rest == p \o t
           body == f \o rest
<1>0. 8 \in Nat /\ 4 \in 0 .. 8 /\ 7 \in Nat \ {0} /\ 7 + 1 = 8
  OBVIOUS
<1>1. /\ Bytes(f, 8) /\ f[5] = Codec[a.codec] /\ f[6] = flag(a)
      /\ f[7] = l[1] /\ f[8] = l[2] /\ SubSeq(f, 1, 4) = be(a.timestamp, 4)
  BY AudioLayout
<1>2. p \in Seq(Int) /\ m \in U16 /\ m \in Nat /\ Bytes(p, m)
  BY BytesOf DEF AudioPacket, Short
<1>3. t \in Seq(Int) /\ parse_copy(flag(a), t) = [redundant |-> a.redundant]
  BY CopyRead
<1>4. value(be(a.timestamp, 4)) = a.timestamp
  BY BeFour DEF AudioPacket
<1>5. named(Codec, Codec[a.codec]) = {a.codec}
  BY CodecNamed DEF AudioPacket
<1>6. body = audio_bytes(a)
  BY DEF audio_bytes
<1>7. parse_audio(body) =
        IF Len(body) < AUDIO_HEADER_LEN THEN Err("Truncated")
        ELSE IF named(Codec, body[5]) = {} THEN Err("BadCodec")
        ELSE LET plen == value(SubSeq(body, 7, 8))
                 rs == bytes_left(body, AUDIO_HEADER_LEN)
                 copy == parse_copy(body[6], bytes_left(rs, plen))
             IN  IF Len(rs) < plen THEN Err("BadLength")
                 ELSE IF failed(copy) THEN copy
                 ELSE [type |-> "Audio", timestamp |-> value(SubSeq(body, 1, 4)),
                       codec |-> CHOOSE c \in named(Codec, body[5]) : TRUE,
                       payload |-> SubSeq(rs, 1, plen), redundant |-> copy.redundant]
  BY Zenon DEF parse_audio
<1> DEFINE k == Len(t)
           n == Len(rest)
<1>8. k \in Nat /\ Bytes(t, k)
  BY <1>3, BytesOf
<1> HIDE DEF f, l, t, p, k, m
<1>9. Bytes(rest, m + k)
  BY <1>2, <1>8, Joined, Zenon DEF Joins
<1>10. bytes_left(rest, m) = t /\ SubSeq(rest, 1, m) = p
  BY <1>2, <1>3, Behind, Zenon
<1> HIDE DEF rest
<1>11. n = m + k /\ rest \in Seq(Int)
  BY <1>9, Zenon DEF Bytes
<1>12. n \in Nat /\ Bytes(rest, n)
  BY <1>11, BytesOf
<1>13. ~(n < m)
  <2> HIDE DEF n
  <2>1. QED
    BY <1>2, <1>8, <1>11
<1>14. Bytes(body, 8 + n) /\ \A i \in 1 .. 8 : body[i] = f[i]
  <2> HIDE DEF n
  <2>1. Joins(f, rest, 8, n)
    BY <1>0, <1>1, <1>12, Joined, Zenon
  <2>2. QED
    BY <2>1, Zenon DEF Joins
<1>15. bytes_left(body, 8) = rest
  BY <1>0, <1>1, <1>11, Behind, Zenon
<1>16. SubSeq(body, 1, 4) = SubSeq(f, 1, 4)
  BY <1>0, <1>1, <1>11, Beginning, Zenon
<1> DEFINE N == 8 + n
<1>17. N \in Nat /\ 7 + 1 <= N /\ ~(N < 8)
  <2> HIDE DEF n
  <2>1. QED
    BY <1>12
<1>18. Bytes(body, N) /\ body \in Seq(Int) /\ Len(body) = N
  BY <1>14, Zenon DEF Bytes
<1> HIDE DEF body, N
<1>19. body[5] = Codec[a.codec] /\ body[6] = flag(a)
       /\ body[7] = l[1] /\ body[7 + 1] = l[2]
  BY <1>0, <1>1, <1>14
<1>20. value(SubSeq(body, 7, 8)) = m
  <2>1. ShortAt(body, 7, m)
    BY <1>19, Zenon DEF l, ShortAt
  <2>2. Bytes(body, N) /\ m \in U16
    BY <1>2, <1>18
  <2>3. value(SubSeq(body, 7, 7 + 1)) = m
    BY <1>0, <1>17, <2>1, <2>2, ShortRead, Zenon
  <2>4. QED
    BY <1>0, <2>3
<1>21. value(SubSeq(body, 1, 4)) = a.timestamp
  BY <1>1, <1>4, <1>16
<1>22. /\ ~(Len(body) < AUDIO_HEADER_LEN)
       /\ bytes_left(body, AUDIO_HEADER_LEN) = rest
  BY <1>15, <1>17, <1>18 DEF AUDIO_HEADER_LEN
<1>23. /\ named(Codec, body[5]) # {}
       /\ (CHOOSE c \in named(Codec, body[5]) : TRUE) = a.codec
  BY <1>5, <1>19
<1> DEFINE copy == [redundant |-> a.redundant]
<1>24. ~failed(copy) /\ copy.redundant = a.redundant
  BY DEF failed
<1> HIDE DEF copy
<1>25. parse_copy(body[6], bytes_left(rest, m)) = copy
  BY <1>3, <1>10, <1>19 DEF copy
<1>26. parse_audio(body) =
        [type |-> "Audio", timestamp |-> a.timestamp, codec |-> a.codec,
         payload |-> p, redundant |-> a.redundant]
  BY <1>7, <1>10, <1>13, <1>20, <1>21, <1>22, <1>23, <1>24, <1>25, Zenon
<1>27. QED
  BY <1>6, <1>18, <1>26 DEF p

\* How an audio datagram is put together.
LEMMA AudioSplit ==
  ASSUME NEW a, AudioPacket(a), NEW h, Header(h)
  PROVE  write_audio(a, h) = header_bytes(h) \o audio_bytes(a)
<1> DEFINE hb == header_bytes(h)
           t == be(a.timestamp, 4)
           c == <<Codec[a.codec], flag(a)>>
           l == be(Len(a.payload), 2)
           p == a.payload
           d == copy_bytes(a)
<1>1. hb \in Seq(Int)
  <2>1. Bytes(hb, 8)
    BY HeaderLayout
  <2>2. QED
    BY <2>1, Zenon DEF Bytes
<1>2. t \in Seq(Int) /\ c \in Seq(Int) /\ l \in Seq(Int)
  <2>1. Bytes(t, 4) /\ Bytes(c, 2) /\ Bytes(l, 2)
    BY BeTwo, BeFour, CodecByte DEF AudioPacket, Short
  <2>2. QED
    BY <2>1, Zenon DEF Bytes
<1>3. p \in Seq(Int) /\ d \in Seq(Int)
  BY CopyRead DEF AudioPacket, Short
<1>4. write_audio(a, h) = hb \o t \o c \o l \o p \o d
  BY Zenon DEF write_audio, flag, copy_bytes
<1>5. audio_bytes(a) = (t \o c \o l) \o (p \o d)
  BY Zenon DEF audio_bytes, fixed_bytes
<1> HIDE DEF hb, t, c, l, p, d
<1> DEFINE tc == t \o c
           f == tc \o l
           r == p \o d
<1>6. tc \in Seq(Int) /\ (hb \o t) \o c = hb \o tc
  BY <1>1, <1>2, JoinedThrice
<1> HIDE DEF tc
<1>7. f \in Seq(Int) /\ (hb \o tc) \o l = hb \o f
  <2>1. (hb \o tc) \o l = hb \o (tc \o l)
    <3>1. hb \in Seq(Int) /\ tc \in Seq(Int) /\ l \in Seq(Int)
      BY <1>1, <1>2, <1>6
    <3>2. QED
      BY <3>1, JoinedThrice, SMTT(60)
  <2>2. tc \o l \in Seq(Int)
    BY <1>2, <1>6, JoinedThrice
  <2>3. QED
    BY <2>1, <2>2
<1> HIDE DEF f
<1>8. r \in Seq(Int) /\ hb \o f \in Seq(Int)
  BY <1>1, <1>3, <1>7, JoinedThrice
<1>9. ((hb \o f) \o p) \o d = (hb \o f) \o r
  <2> DEFINE x == hb \o f
  <2>1. x \in Seq(Int)
    BY <1>8
  <2> HIDE DEF x
  <2>2. (x \o p) \o d = x \o r
    BY <1>3, <2>1, JoinedThrice
  <2>3. QED
    BY <2>2 DEF x
<1> HIDE DEF r
<1>10. (hb \o f) \o r = hb \o (f \o r)
  BY <1>1, <1>7, <1>8, JoinedThrice, SMTT(60)
<1>11. write_audio(a, h) = hb \o (f \o r)
  BY <1>4, <1>6, <1>7, <1>9, <1>10, Zenon
<1>12. audio_bytes(a) = f \o r
  BY <1>5, Zenon DEF tc, f, r
<1>13. QED
  BY <1>11, <1>12, Zenon DEF hb

\* An audio datagram is read as it was written: header, time, codec, payload and
\* redundant copy, for every payload (packet.rs: write_audio, Datagram::parse).
THEOREM AudioFaithful ==
  ASSUME NEW a, AudioPacket(a), NEW h, Header(h), h.ptype = "Audio"
  PROVE  parse_datagram(write_audio(a, h)) =
            [header |-> [ptype |-> "Audio", session_id |-> h.session_id,
                         sender_id |-> h.sender_id, seq |-> h.seq],
             payload |-> [type |-> "Audio", timestamp |-> a.timestamp,
                          codec |-> a.codec, payload |-> a.payload,
                          redundant |-> a.redundant]]
<1> DEFINE buf == write_audio(a, h)
           hr == [ptype |-> h.ptype, session_id |-> h.session_id,
                  sender_id |-> h.sender_id, seq |-> h.seq]
           pr == [type |-> "Audio", timestamp |-> a.timestamp, codec |-> a.codec,
                  payload |-> a.payload, redundant |-> a.redundant]
<1>1. audio_bytes(a) \in Seq(Int) /\ parse_audio(audio_bytes(a)) = pr
  BY AudioRead
<1>2. parse_header(buf) = hr /\ bytes_left(buf, HEADER_LEN) = audio_bytes(a)
  BY <1>1, AudioSplit, HeaderRead
<1>3. ~failed(hr) /\ ~failed(pr) /\ hr.ptype = "Audio"
  BY DEF failed
<1> HIDE DEF buf, hr, pr
<1>4. parse_datagram(buf) = [header |-> hr, payload |-> pr]
  BY <1>1, <1>2, <1>3, Zenon DEF parse_datagram
<1>5. QED
  BY <1>4 DEF buf, hr, pr

-----------------------------------------------------------------------------
(* A list of pieces, joined.                                               *)

\* A list of pieces and what FlattenSeq makes of its beginnings.
Pieces == Seq(Seq(Int))
Flattens(s, n, f) ==
  /\ s \in Pieces /\ Len(s) = n
  /\ FlattenSeq(s) = f[n] /\ f[0] = <<>>
  /\ \A i \in 1 .. n : f[i] = f[i - 1] \o s[i]
  /\ \A i \in 0 .. n : f[i] \in Seq(Int)

\* The beginnings of a list, joined.
Beginnings(s, m, f) ==
  f = [i \in 1 .. m |-> IF i = 1 THEN s[i] ELSE f[i - 1] \o s[i]]

\* There is one.
LEMMA BeginningsExist ==
  ASSUME NEW s, NEW n \in Nat
  PROVE  \E f : Beginnings(s, n, f)
<1> DEFINE S == {m \in 0 .. n : \E f : Beginnings(s, m, f)}
<1>1. 0 \in S
  <2>1. Beginnings(s, 0, <<>>)
    BY DEF Beginnings
  <2>2. QED
    BY <2>1
<1>2. ASSUME NEW m \in 1 .. n, m - 1 \in S PROVE m \in S
  <2>1. PICK f : Beginnings(s, m - 1, f)
    BY <1>2
  <2> DEFINE g == [i \in 1 .. m |-> IF i = m THEN (IF i = 1 THEN s[i] ELSE f[i - 1] \o s[i])
                                   ELSE f[i]]
  <2>2. \A i \in 1 .. m - 1 : f[i] = IF i = 1 THEN s[i] ELSE f[i - 1] \o s[i]
    BY <2>1 DEF Beginnings
  <2>3. ASSUME NEW i \in 1 .. m PROVE g[i] = IF i = 1 THEN s[i] ELSE g[i - 1] \o s[i]
    <3>1. CASE i = 1
      BY <2>2, <3>1
    <3>2. CASE i # 1
      <4>1. i - 1 \in 1 .. m /\ i - 1 # m
        BY <3>2
      <4>2. g[i - 1] = f[i - 1]
        BY <4>1, Zenon
      <4>3. g[i] = f[i - 1] \o s[i]
        <5>1. CASE i = m
          BY <3>2, <5>1, Zenon
        <5>2. CASE i # m
          <6>1. i \in 1 .. m - 1
            BY <5>2
          <6>2. g[i] = f[i]
            BY <5>2, Zenon
          <6>3. QED
            BY <2>2, <3>2, <6>1, <6>2, Zenon
        <5>3. QED
          BY <5>1, <5>2
      <4>4. QED
        BY <3>2, <4>2, <4>3
    <3>3. QED
      BY <3>1, <3>2
  <2>4. g = [i \in 1 .. m |-> g[i]]
    OBVIOUS
  <2> HIDE DEF g
  <2>5. Beginnings(s, m, g)
    BY <2>3, <2>4 DEF Beginnings
  <2>6. QED
    BY <2>5
<1> HIDE DEF S
<1>3. n \in S
  BY <1>1, <1>2, StepByStep
<1>4. QED
  BY <1>3 DEF S

\* What flattening joins, one piece at a time.
LEMMA FlattenUnrolled ==
  ASSUME NEW n \in Nat, NEW s \in Pieces, Len(s) = n
  PROVE  \E f : Flattens(s, n, f)
<1> DEFINE flatten == CHOOSE f : Beginnings(s, n, f)
           g == [i \in 0 .. n |-> IF i = 0 THEN <<>> ELSE flatten[i]]
<1>1. Beginnings(s, n, flatten)
  BY BeginningsExist
<1>2. FlattenSeq(s) = IF n = 0 THEN s ELSE flatten[n]
  BY SMT DEF FlattenSeq, Beginnings
<1> HIDE DEF flatten
<1>3. \A i \in 1 .. n : s[i] \in Seq(Int)
  BY DEF Pieces
<1>4. \A i \in 1 .. n : flatten[i] = IF i = 1 THEN s[i] ELSE flatten[i - 1] \o s[i]
  BY <1>1 DEF Beginnings
<1>5. <<>> \in Seq(Int) /\ \A t \in Seq(Int) : <<>> \o t = t
  BY EmptySeq, ConcatEmptySeq
<1>6. g[0] = <<>> /\ \A i \in 1 .. n : g[i] = flatten[i]
  OBVIOUS
<1>7. FlattenSeq(s) = g[n]
  <2>1. CASE n = 0
    <3>1. s = <<>>
      BY <2>1, EmptySeq DEF Pieces
    <3>2. QED
      BY <1>2, <1>6, <2>1, <3>1
  <2>2. CASE n # 0
    <3>1. n \in 1 .. n
      BY <2>2
    <3>2. QED
      BY <1>2, <1>6, <2>2, <3>1
  <2>3. QED
    BY <2>1, <2>2
<1> HIDE DEF g
<1>8. ASSUME NEW i \in 1 .. n PROVE g[i] = g[i - 1] \o s[i]
  <2>1. CASE i = 1
    <3>1. i - 1 = 0 /\ g[i] = s[i] /\ s[i] \in Seq(Int)
      BY <1>3, <1>4, <1>6, <2>1
    <3>2. QED
      BY <1>5, <1>6, <3>1
  <2>2. CASE i # 1
    <3>1. i - 1 \in 1 .. n
      BY <2>2
    <3>2. QED
      BY <1>4, <1>6, <2>2, <3>1
  <2>3. QED
    BY <2>1, <2>2
<1> DEFINE S == {i \in 0 .. n : g[i] \in Seq(Int)}
<1>9. 0 \in S
  <2>1. 0 \in 0 .. n
    OBVIOUS
  <2>2. g[0] \in Seq(Int)
    BY <1>5, <1>6, Zenon
  <2>3. QED
    BY <2>1, <2>2, Zenon
<1>10. ASSUME NEW i \in 1 .. n, i - 1 \in S PROVE i \in S
  <2>1. g[i - 1] \in Seq(Int) /\ s[i] \in Seq(Int)
    BY <1>3, <1>10, Zenon
  <2>2. g[i - 1] \o s[i] \in Seq(Int)
    BY <2>1, ConcatProperties, Zenon
  <2>3. i \in 0 .. n
    OBVIOUS
  <2>4. QED
    BY <1>8, <2>2, <2>3, Zenon
<1> HIDE DEF S
<1>11. \A i \in 0 .. n : i \in S
  BY <1>9, <1>10, StepByStep
<1>12. Flattens(s, n, g)
  BY <1>6, <1>7, <1>8, <1>11 DEF Flattens, S
<1>13. QED
  BY <1>12

-----------------------------------------------------------------------------
(* Names.                                                                  *)

\* valid_utf8 of n bytes.
Valid(b, n) ==
  \A i \in 1 .. n :
    IF leads(b[i])
    THEN /\ i + width(b[i]) - 1 <= n
         /\ \A k \in 1 .. width(b[i]) - 1 : b[i + k] = CONT
    ELSE /\ b[i] = CONT
         /\ \E j \in 1 .. i - 1 : leads(b[j]) /\ j + width(b[j]) > i

\* It is what valid_utf8 says of them.
LEMMA ValidOf ==
  ASSUME NEW n \in Nat, NEW b, Bytes(b, n)
  PROVE  valid_utf8(b) <=> Valid(b, n)
<1>1. Len(b) = n /\ DOMAIN b = 1 .. n
  BY ByteOf, LenProperties
<1>2. QED
  BY <1>1, Zenon DEF valid_utf8, Valid

\* What the first byte of a character announces.
LEMMA Leading ==
  ASSUME NEW x \in Int, leads(x)
  PROVE  width(x) \in 1 .. 4 /\ x # CONT
BY DEF leads, width, CONT

\* Characters after characters.
LEMMA ValidJoined ==
  ASSUME NEW m \in Nat, NEW n \in Nat, NEW a, NEW b, Bytes(a, m), Bytes(b, n),
         Valid(a, m), Valid(b, n)
  PROVE  Valid(a \o b, m + n)
<1> DEFINE u == a \o b
<1>1. Joins(a, b, m, n)
  BY Joined
<1>2. /\ \A i \in 1 .. m : u[i] = a[i] /\ a[i] \in Int
      /\ \A i \in 1 .. n : u[m + i] = b[i] /\ b[i] \in Int
  BY <1>1, ByteOf DEF Joins
<1> HIDE DEF u
<1>3. ASSUME NEW i \in 1 .. m, leads(u[i])
      PROVE  /\ i + width(u[i]) - 1 <= m + n
             /\ \A k \in 1 .. width(u[i]) - 1 : u[i + k] = CONT
  <2>1. u[i] = a[i] /\ leads(a[i]) /\ width(a[i]) \in 1 .. 4
    BY <1>2, <1>3, Leading
  <2>2. i + width(a[i]) - 1 <= m /\ \A k \in 1 .. width(a[i]) - 1 : a[i + k] = CONT
    BY <2>1 DEF Valid
  <2>3. QED
    BY <1>2, <2>1, <2>2
<1>4. ASSUME NEW i \in 1 .. m, ~leads(u[i])
      PROVE  u[i] = CONT /\ \E j \in 1 .. i - 1 : leads(u[j]) /\ j + width(u[j]) > i
  <2>1. u[i] = a[i] /\ ~leads(a[i])
    BY <1>2, <1>4
  <2>2. a[i] = CONT /\ \E j \in 1 .. i - 1 : leads(a[j]) /\ j + width(a[j]) > i
    BY <2>1 DEF Valid
  <2>3. PICK j \in 1 .. i - 1 : leads(a[j]) /\ j + width(a[j]) > i
    BY <2>2
  <2>4. u[j] = a[j]
    BY <1>2
  <2>5. QED
    BY <2>1, <2>2, <2>3, <2>4
<1>5. ASSUME NEW x \in 1 .. n, leads(u[m + x])
      PROVE  /\ m + x + width(u[m + x]) - 1 <= m + n
             /\ \A k \in 1 .. width(u[m + x]) - 1 : u[m + x + k] = CONT
  <2>1. u[m + x] = b[x] /\ leads(b[x]) /\ width(b[x]) \in 1 .. 4
    BY <1>2, <1>5, Leading
  <2>2. x + width(b[x]) - 1 <= n /\ \A k \in 1 .. width(b[x]) - 1 : b[x + k] = CONT
    BY <2>1 DEF Valid
  <2>3. ASSUME NEW k \in 1 .. width(b[x]) - 1 PROVE u[m + x + k] = CONT
    <3>1. x + k \in 1 .. n /\ b[x + k] = CONT
      BY <2>1, <2>2
    <3>2. u[m + (x + k)] = CONT
      BY <1>2, <3>1
    <3>3. m + (x + k) = m + x + k
      BY <2>1
    <3>4. QED
      BY <3>2, <3>3
  <2>4. QED
    BY <2>1, <2>2, <2>3
<1>6. ASSUME NEW x \in 1 .. n, ~leads(u[m + x])
      PROVE  /\ u[m + x] = CONT
             /\ \E j \in 1 .. m + x - 1 : leads(u[j]) /\ j + width(u[j]) > m + x
  <2>1. u[m + x] = b[x] /\ ~leads(b[x])
    BY <1>2, <1>6
  <2>2. b[x] = CONT /\ \E j \in 1 .. x - 1 : leads(b[j]) /\ j + width(b[j]) > x
    BY <2>1 DEF Valid
  <2>3. PICK j \in 1 .. x - 1 : leads(b[j]) /\ j + width(b[j]) > x
    BY <2>2
  <2>4. j \in 1 .. n /\ u[m + j] = b[j] /\ width(b[j]) \in 1 .. 4 /\ m + j \in 1 .. m + x - 1
    BY <1>2, <2>3, Leading
  <2>5. leads(u[m + j]) /\ (m + j) + width(u[m + j]) > m + x
    BY <2>3, <2>4
  <2>6. QED
    BY <2>1, <2>2, <2>4, <2>5
<1>7. ASSUME NEW i \in 1 .. m + n PROVE i \in 1 .. m \/ \E x \in 1 .. n : i = m + x
  <2>1. i \in 1 .. m \/ (i - m \in 1 .. n /\ i = m + (i - m))
    OBVIOUS
  <2>2. QED
    BY <2>1
<1>8. Valid(u, m + n)
  <2>1. SUFFICES ASSUME NEW i \in 1 .. m + n
                 PROVE IF leads(u[i])
                       THEN /\ i + width(u[i]) - 1 <= m + n
                            /\ \A k \in 1 .. width(u[i]) - 1 : u[i + k] = CONT
                       ELSE /\ u[i] = CONT
                            /\ \E j \in 1 .. i - 1 : leads(u[j]) /\ j + width(u[j]) > i
    BY Zenon DEF Valid
  <2>2. CASE i \in 1 .. m
    BY <1>3, <1>4, <2>2, Zenon
  <2>3. CASE \E x \in 1 .. n : i = m + x
    <3>1. PICK x \in 1 .. n : i = m + x
      BY <2>3
    <3>2. CASE leads(u[i])
      BY <1>5, <3>1, <3>2
    <3>3. CASE ~leads(u[i])
      <4>1. u[i] = CONT /\ \E j \in 1 .. i - 1 : leads(u[j]) /\ j + width(u[j]) > i
        BY <1>6, <3>1, <3>3
      <4>2. QED
        BY <3>3, <4>1, Zenon
    <3>4. QED
      BY <3>2, <3>3, Zenon
  <2>4. QED
    BY <1>7, <2>2, <2>3, Zenon
<1>9. QED
  BY <1>8 DEF u

\* The bytes of a character of w bytes.
Char(w) == [k \in 1 .. w |-> IF k = 1 THEN 192 + w ELSE CONT]

\* They are valid.
LEMMA CharValid ==
  ASSUME NEW w \in 1 .. 4
  PROVE  Bytes(Char(w), w) /\ Valid(Char(w), w)
<1> DEFINE b == Char(w)
<1>1. \A k \in 1 .. w : b[k] = IF k = 1 THEN 192 + w ELSE CONT
  BY DEF Char
<1>2. Bytes(b, w)
  <2>1. b \in [1 .. w -> Int]
    BY DEF Char, CONT
  <2>2. w \in Nat
    OBVIOUS
  <2>3. QED
    BY <2>1, <2>2, Listed, Zenon
<1> HIDE DEF b
<1>3. 1 \in 1 .. w /\ b[1] = 192 + w /\ leads(b[1]) /\ width(b[1]) = w
  BY <1>1 DEF leads, width
<1>4. ASSUME NEW i \in 1 .. w, i # 1
      PROVE  b[i] = CONT /\ ~leads(b[i]) /\ 1 \in 1 .. i - 1 /\ 1 + width(b[1]) > i
  BY <1>1, <1>3, <1>4 DEF leads, CONT
<1>5. 1 + width(b[1]) - 1 <= w /\ \A k \in 1 .. width(b[1]) - 1 : b[1 + k] = CONT
  BY <1>1, <1>3
<1>6. Valid(b, w)
  <2>1. SUFFICES ASSUME NEW i \in 1 .. w
                 PROVE IF leads(b[i])
                       THEN /\ i + width(b[i]) - 1 <= w
                            /\ \A k \in 1 .. width(b[i]) - 1 : b[i + k] = CONT
                       ELSE /\ b[i] = CONT
                            /\ \E j \in 1 .. i - 1 : leads(b[j]) /\ j + width(b[j]) > i
    BY Zenon DEF Valid
  <2>2. CASE i = 1
    BY <1>3, <1>5, <2>2
  <2>3. CASE i # 1
    BY <1>3, <1>4, <2>3
  <2>4. QED
    BY <2>2, <2>3
<1>7. QED
  BY <1>2, <1>6 DEF b

\* A name is a sequence of characters of 1 to 4 bytes: its bytes are valid.
LEMMA Utf8Valid ==
  ASSUME NEW s \in Seq(1 .. 4)
  PROVE  utf8(s) \in Seq(Int) /\ Valid(utf8(s), Len(utf8(s)))
<1> DEFINE n == Len(s)
           p == [i \in DOMAIN s |-> Char(s[i])]
<1>1. n \in Nat /\ DOMAIN s = 1 .. n /\ \A i \in 1 .. n : s[i] \in 1 .. 4
  BY LenProperties, ElementOfSeq
<1>2. utf8(s) = FlattenSeq(p)
  BY Zenon DEF utf8, Char
<1>3. \A i \in 1 .. n : p[i] = Char(s[i]) /\ Bytes(p[i], s[i]) /\ Valid(p[i], s[i])
  BY <1>1, CharValid
<1>4. \A i \in 1 .. n : p[i] \in Seq(Int) /\ Len(p[i]) = s[i]
  BY <1>3 DEF Bytes
<1>5. p \in [1 .. n -> Seq(Int)]
  BY <1>1, <1>4
<1> HIDE DEF n, p
<1>6. p \in Pieces /\ Len(p) = n
  BY <1>1, <1>5 DEF Pieces
<1>7. PICK f : Flattens(p, n, f)
  BY <1>1, <1>6, FlattenUnrolled
<1> DEFINE S == {i \in 0 .. n : Valid(f[i], Len(f[i]))}
<1>8. 0 \in S
  <2>1. f[0] = <<>> /\ Len(<<>>) = 0
    BY <1>7, EmptySeq DEF Flattens
  <2>2. Valid(<<>>, 0)
    BY DEF Valid
  <2>3. QED
    BY <1>1, <2>1, <2>2
<1>9. ASSUME NEW i \in 1 .. n, i - 1 \in S PROVE i \in S
  <2>1. i - 1 \in 0 .. n /\ i \in 0 .. n
    BY <1>1
  <2>2. f[i] = f[i - 1] \o p[i] /\ f[i - 1] \in Seq(Int)
    BY <1>7, <2>1 DEF Flattens
  <2> DEFINE k == Len(f[i - 1])
  <2>3. k \in Nat /\ Bytes(f[i - 1], k) /\ Valid(f[i - 1], k)
    BY <1>9, <2>2, BytesOf
  <2> HIDE DEF k
  <2>4. s[i] \in Nat /\ Bytes(p[i], s[i]) /\ Valid(p[i], s[i])
    BY <1>1, <1>3
  <2>5. Valid(f[i], k + s[i]) /\ Joins(f[i - 1], p[i], k, s[i])
    BY <2>2, <2>3, <2>4, ValidJoined, Joined, Zenon
  <2>6. Len(f[i]) = k + s[i]
    BY <2>2, <2>5 DEF Joins, Bytes
  <2>7. QED
    BY <2>1, <2>5, <2>6
<1> HIDE DEF S
<1>10. n \in S
  BY <1>1, <1>8, <1>9, StepByStep, SMTT(30)
<1>11. QED
  BY <1>1, <1>2, <1>7, <1>10 DEF Flattens, S

\* The greatest of some numbers that are not beyond n.
LEMMA GreatestIsOne ==
  ASSUME NEW n \in Nat, NEW S \in SUBSET (0 .. n), S # {}
  PROVE  Max(S) \in S
<1> DEFINE T == {k \in 0 .. n : n - k \in S}
<1>1. T # {}
  <2>1. PICK x \in S : TRUE
    OBVIOUS
  <2>2. n - x \in 0 .. n /\ n - (n - x) = x
    OBVIOUS
  <2>3. QED
    BY <2>1, <2>2
<1>2. T \subseteq Nat
  OBVIOUS
<1>3. PICK m \in T : \A k \in T : ~ (<<k, m>> \in OpToRel(<, Nat))
  BY <1>1, <1>2, WFMin, NatLessThanWellFounded
<1>4. \A k \in T : ~ (k < m)
  BY <1>2, <1>3, Zenon DEF OpToRel
<1>5. ASSUME NEW y \in S PROVE n - m >= y
  <2>1. n - y \in 0 .. n /\ n - (n - y) = y
    OBVIOUS
  <2>2. n - y \in T
    BY <2>1
  <2>3. ~ (n - y < m)
    BY <1>4, <2>2
  <2>4. m \in 0 .. n
    OBVIOUS
  <2>5. QED
    BY <2>3, <2>4
<1>6. n - m \in S
  OBVIOUS
<1>7. \E x \in S : \A y \in S : x >= y
  BY <1>5, <1>6
<1>8. QED
  BY <1>7 DEF Max

\* The less of two numbers.
LEMMA LessOfTwo ==
  ASSUME NEW x \in Nat, NEW y \in Nat
  PROVE  Min({x, y}) \in {x, y} /\ Min({x, y}) <= x /\ Min({x, y}) <= y
<1>1. \E z \in {x, y} : \A w \in {x, y} : z <= w
  <2>1. CASE x <= y
    BY <2>1
  <2>2. CASE ~ (x <= y)
    BY <2>2
  <2>3. QED
    BY <2>1, <2>2
<1>2. QED
  BY <1>1 DEF Min

\* Valid bytes cut between two characters are valid.
LEMMA ValidCut ==
  ASSUME NEW n \in Nat, NEW b, Bytes(b, n), Valid(b, n), NEW m \in 0 .. n, boundary(b, m)
  PROVE  Bytes(SubSeq(b, 1, m), m) /\ Valid(SubSeq(b, 1, m), m)
<1> DEFINE c == SubSeq(b, 1, m)
<1>1. b \in Seq(Int) /\ Len(b) = n /\ \A i \in 1 .. n : b[i] \in Int
  BY ByteOf
<1>2. c \in Seq(Int) /\ Len(c) = m /\ \A i \in 1 .. m : c[i] = b[i]
  BY <1>1, SMT
<1> HIDE DEF c
<1>3. m = n \/ b[m + 1] # CONT
  BY <1>1, Zenon DEF boundary
<1>4. ASSUME NEW i \in 1 .. m, leads(c[i])
      PROVE  i + width(c[i]) - 1 <= m /\ \A k \in 1 .. width(c[i]) - 1 : c[i + k] = CONT
  <2>1. i \in 1 .. n /\ c[i] = b[i] /\ leads(b[i]) /\ width(b[i]) \in 1 .. 4
    BY <1>1, <1>2, <1>4, Leading
  <2>2. i + width(b[i]) - 1 <= n /\ \A k \in 1 .. width(b[i]) - 1 : b[i + k] = CONT
    BY <2>1 DEF Valid
  <2>3. ASSUME ~(i + width(b[i]) - 1 <= m) PROVE FALSE
    <3>1. m # n /\ m + 1 - i \in 1 .. width(b[i]) - 1 /\ i + (m + 1 - i) = m + 1
      BY <2>1, <2>2, <2>3
    <3>2. b[i + (m + 1 - i)] = CONT
      BY <2>2, <3>1, Zenon
    <3>3. QED
      BY <1>3, <3>1, <3>2
  <2>4. \A k \in 1 .. width(b[i]) - 1 : i + k \in 1 .. m
    BY <2>1, <2>3
  <2>5. QED
    BY <1>2, <2>1, <2>2, <2>3, <2>4
<1>5. ASSUME NEW i \in 1 .. m, ~leads(c[i])
      PROVE  c[i] = CONT /\ \E j \in 1 .. i - 1 : leads(c[j]) /\ j + width(c[j]) > i
  <2>1. i \in 1 .. n /\ c[i] = b[i] /\ ~leads(b[i])
    BY <1>2, <1>5
  <2>2. b[i] = CONT /\ \E j \in 1 .. i - 1 : leads(b[j]) /\ j + width(b[j]) > i
    BY <2>1 DEF Valid
  <2>3. \A j \in 1 .. i - 1 : c[j] = b[j]
    BY <1>2
  <2>4. QED
    BY <2>1, <2>2, <2>3
<1>6. Valid(c, m)
  BY <1>4, <1>5, Zenon DEF Valid
<1>7. QED
  BY <1>2, <1>6 DEF c, Bytes

\* The first byte of valid bytes is that of a character.
LEMMA StartIsBoundary ==
  ASSUME NEW n \in Nat, NEW b, Bytes(b, n), Valid(b, n)
  PROVE  boundary(b, 0)
<1>1. Len(b) = n /\ \A i \in 1 .. n : b[i] \in Int
  BY ByteOf
<1>2. CASE n = 0
  BY <1>1, <1>2 DEF boundary
<1>3. CASE n # 0
  <2>1. 1 \in 1 .. n /\ 0 + 1 = 1 /\ ~(\E j \in 1 .. 1 - 1 : TRUE)
    BY <1>3
  <2>2. leads(b[1])
    BY <2>1, Zenon DEF Valid
  <2>3. b[0 + 1] # CONT
    BY <1>1, <2>1, <2>2, Leading
  <2>4. QED
    BY <2>3, Zenon DEF boundary
<1>4. QED
  BY <1>2, <1>3

\* What is left of a name fits and is valid.
LEMMA CutFits ==
  ASSUME NEW s \in Seq(1 .. 4)
  PROVE  /\ cut(s) \in Seq(Int) /\ Len(cut(s)) \in 0 .. MAX_NAME_LEN
         /\ valid_utf8(cut(s))
<1> DEFINE b == utf8(s)
           n == Len(b)
           k == Min({n, MAX_NAME_LEN})
           S == {x \in 0 .. k : boundary(b, x)}
           m == Max(S)
<1>0. MAX_NAME_LEN \in Nat
  BY PacketAssumption
<1>1. n \in Nat /\ Bytes(b, n) /\ Valid(b, n)
  BY Utf8Valid, BytesOf
<1>2. cut(s) = SubSeq(b, 1, m)
  BY Zenon DEF cut
<1> HIDE DEF b, n
<1>3. k \in Nat /\ k <= n /\ k <= MAX_NAME_LEN
  BY <1>0, <1>1, LessOfTwo
<1> HIDE DEF k
<1>4. 0 \in S
  BY <1>1, <1>3, StartIsBoundary
<1>5. S \in SUBSET (0 .. k) /\ S # {}
  BY <1>4
<1>6. m \in S
  BY <1>3, <1>5, GreatestIsOne, Zenon
<1>7. m \in 0 .. k /\ boundary(b, m)
  BY <1>6, Zenon
<1> HIDE DEF m, S
<1>8. m \in 0 .. n /\ m \in 0 .. MAX_NAME_LEN
  BY <1>0, <1>1, <1>3, <1>7
<1>9. Bytes(SubSeq(b, 1, m), m) /\ Valid(SubSeq(b, 1, m), m)
  BY <1>1, <1>7, <1>8, ValidCut, Zenon
<1>10. Len(SubSeq(b, 1, m)) = m /\ m \in Nat
  BY <1>8, <1>9 DEF Bytes
<1>11. valid_utf8(SubSeq(b, 1, m))
  BY <1>9, <1>10, ValidOf, Zenon
<1>12. QED
  BY <1>2, <1>8, <1>9, <1>10, <1>11, Zenon DEF Bytes

-----------------------------------------------------------------------------
(* Reading piece after piece.  up holds the reader after each piece, out what *)
(* it has read by then.                                                    *)

\* Two ways to take the same bytes apart.
LEMMA TwoSplits ==
  ASSUME NEW a \in Seq(Int), NEW b \in Seq(Int), NEW c \in Seq(Int), NEW d \in Seq(Int),
         a \o b = c \o d
  PROVE  \/ \E x \in Seq(Int) : c = a \o x
         \/ Len(c) < Len(a) /\ c = SubSeq(a, 1, Len(c))
<1> DEFINE m == Len(a)
           k == Len(c)
           u == a \o b
<1>1. m \in Nat /\ k \in Nat /\ Bytes(a, m) /\ Bytes(c, k)
  BY BytesOf
<1>2. /\ \A i \in 1 .. m : u[i] = a[i]
      /\ \A i \in 1 .. k : u[i] = c[i]
  <2>1. Len(b) \in Nat /\ Len(d) \in Nat /\ Bytes(b, Len(b)) /\ Bytes(d, Len(d))
    BY BytesOf
  <2>2. Joins(a, b, m, Len(b)) /\ Joins(c, d, k, Len(d))
    BY <1>1, <2>1, Joined
  <2>3. QED
    BY <2>2, Zenon DEF Joins
<1> HIDE DEF u
<1>3. CASE k < m
  <2>1. SubSeq(a, 1, k) \in Seq(Int) /\ Len(SubSeq(a, 1, k)) = k
        /\ \A i \in 1 .. k : SubSeq(a, 1, k)[i] = a[i]
    BY <1>1, <1>3, SMT
  <2>2. \A i \in 1 .. k : c[i] = a[i]
    BY <1>1, <1>2, <1>3
  <2>3. c = SubSeq(a, 1, k)
    BY <2>1, <2>2, SeqEqual
  <2>4. QED
    BY <1>3, <2>3
<1>4. CASE ~ (k < m)
  <2> DEFINE x == SubSeq(c, m + 1, k)
  <2>2. x \in Seq(Int) /\ Len(x) = k - m /\ \A i \in 1 .. k - m : x[i] = c[m + i]
    BY <1>1, <1>4, SMT
  <2> HIDE DEF x
  <2>3. Len(x) = k - m /\ \A i \in 1 .. k - m : x[i] = c[m + i]
    BY <2>2
  <2>4. Joins(a, x, m, k - m)
    <3>1. k - m \in Nat /\ Bytes(x, k - m)
      BY <1>1, <1>4, <2>2, <2>3 DEF Bytes
    <3>2. QED
      BY <1>1, <3>1, Joined
  <2>5. /\ a \o x \in Seq(Int) /\ Len(a \o x) = k
        /\ \A i \in 1 .. m : (a \o x)[i] = a[i]
        /\ \A i \in 1 .. k - m : (a \o x)[m + i] = x[i]
    BY <1>1, <1>4, <2>4 DEF Joins, Bytes
  <2>6. ASSUME NEW i \in 1 .. k PROVE (a \o x)[i] = c[i]
    <3>1. CASE i <= m
      <4>1. i \in 1 .. m
        BY <1>1, <3>1
      <4>2. QED
        BY <1>2, <2>5, <4>1, Zenon
    <3>2. CASE ~ (i <= m)
      <4>1. i - m \in 1 .. k - m /\ m + (i - m) = i
        BY <1>1, <3>2
      <4>2. (a \o x)[m + (i - m)] = c[m + (i - m)]
        BY <2>3, <2>5, <4>1, Zenon
      <4>3. QED
        BY <4>1, <4>2
    <3>3. QED
      BY <3>1, <3>2
  <2>7. a \o x = c
    <3>1. Len(a \o x) = Len(c) /\ \A i \in 1 .. Len(a \o x) : (a \o x)[i] = c[i]
      BY <2>5, <2>6
    <3>2. QED
      BY <2>5, <3>1, SeqEqual
  <2>8. QED
    BY <2>2, <2>7
<1>5. QED
  BY <1>1, <1>3, <1>4

\* b begins with a.
Begins(b, a) == \E y \in Seq(Int) : b = a \o y

\* The beginnings of a list are beginnings of the whole.
LEMMA BeginningOfAll ==
  ASSUME NEW n \in Nat, NEW s, NEW f, Flattens(s, n, f)
  PROVE  \A i \in 0 .. n : Begins(f[n], f[i])
<1> DEFINE S == {j \in 0 .. n : \E y \in Seq(Int) : f[n] = f[n - j] \o y}
<1>0. \A i \in 1 .. n : s[i] \in Seq(Int)
  BY DEF Pieces, Flattens
<1>1. 0 \in S
  <2>1. f[n] \in Seq(Int) /\ n - 0 = n /\ 0 \in 0 .. n
    BY DEF Flattens
  <2>2. f[n] = f[n - 0] \o <<>> /\ <<>> \in Seq(Int)
    BY <2>1, ConcatEmptySeq, EmptySeq
  <2>3. QED
    BY <2>1, <2>2, Zenon
<1>2. ASSUME NEW j \in 1 .. n, j - 1 \in S PROVE j \in S
  <2>1. PICK y \in Seq(Int) : f[n] = f[n - (j - 1)] \o y
    BY <1>2
  <2> DEFINE i == n - (j - 1)
  <2>2. i \in 1 .. n /\ i - 1 = n - j /\ i - 1 \in 0 .. n /\ j \in 0 .. n
    OBVIOUS
  <2> HIDE DEF i
  <2>3. f[i] = f[i - 1] \o s[i] /\ f[i - 1] \in Seq(Int) /\ s[i] \in Seq(Int)
    BY <1>0, <2>2, Zenon DEF Flattens
  <2>4. f[n] = f[i - 1] \o (s[i] \o y) /\ s[i] \o y \in Seq(Int)
    <3>1. f[n] = f[i] \o y
      BY <2>1 DEF i
    <3>2. (f[i - 1] \o s[i]) \o y = f[i - 1] \o (s[i] \o y) /\ s[i] \o y \in Seq(Int)
      BY <2>1, <2>3, JoinedThrice, Zenon
    <3>3. QED
      BY <2>3, <3>1, <3>2, Zenon
  <2>5. QED
    BY <2>2, <2>4
<1>3. \A j \in 0 .. n : j \in S
  <2> HIDE DEF S
  <2>1. QED
    BY <1>1, <1>2, StepByStep
<1>4. ASSUME NEW i \in 0 .. n PROVE Begins(f[n], f[i])
  <2>1. n - i \in 0 .. n /\ n - (n - i) = i
    OBVIOUS
  <2>2. Begins(f[n], f[n - (n - i)])
    BY <1>3, <2>1, Zenon DEF Begins
  <2>3. QED
    BY <2>1, <2>2
<1>5. QED
  BY <1>4

\* Each piece in its turn is read, and what follows is left.
Follows(p, n, up, out) ==
  \A i \in 1 .. n : \A x \in Seq(Int) :
    up[i - 1] = [rest |-> p[i] \o x, out |-> out[i - 1]]
    => up[i] = [rest |-> x, out |-> out[i]]

\* The reader does not get through a piece that is cut short, and then not any further.
Stops(p, n, up, out) ==
  \A i \in 1 .. n :
    /\ \A k \in 0 .. Len(p[i]) - 1 :
          up[i - 1] = [rest |-> SubSeq(p[i], 1, k), out |-> out[i - 1]] => failed(up[i])
    /\ failed(up[i - 1]) => failed(up[i])

\* A sequence is one and then another.
Split(u, a, x) == u = a \o x

\* A sequence in three, and what is behind the first part.
LEMMA SplitThrice ==
  ASSUME NEW a \in Seq(Int), NEW p \in Seq(Int), NEW y \in Seq(Int), NEW b, NEW v,
         Split(b, a, p), Split(v, b, y)
  PROVE  p \o y \in Seq(Int) /\ Split(v, a, p \o y)
<1>1. (a \o p) \o y = a \o (p \o y) /\ p \o y \in Seq(Int)
  BY JoinedThrice, ZenonT(40)
<1>2. v = (a \o p) \o y
  BY DEF Split
<1>3. QED
  BY <1>1, <1>2, Zenon DEF Split

\* What is behind a part is one thing.
LEMMA SplitSame ==
  ASSUME NEW a \in Seq(Int), NEW x \in Seq(Int), NEW y \in Seq(Int), NEW v,
         Split(v, a, x), Split(v, a, y)
  PROVE  x = y
BY SameBehind, Zenon DEF Split

\* All pieces are read, and what follows them is left.
LEMMA AllRead ==
  ASSUME NEW n \in Nat, NEW p \in Pieces, Len(p) = n, NEW t \in Seq(Int),
         NEW w, Split(w, FlattenSeq(p), t),
         NEW up, NEW out, Follows(p, n, up, out),
         up[0] = [rest |-> w, out |-> out[0]]
  PROVE  up[n] = [rest |-> t, out |-> out[n]]
<1>1. PICK f : Flattens(p, n, f)
  BY FlattenUnrolled
<1>2. \A i \in 0 .. n : f[i] \in Seq(Int)
  BY <1>1 DEF Flattens
<1>b. \A i \in 0 .. n : Begins(f[n], f[i])
  BY <1>1, BeginningOfAll
<1>p. \A i \in 1 .. n : p[i] \in Seq(Int)
  BY DEF Pieces
<1>3. n \in 0 .. n /\ 0 \in 0 .. n
  OBVIOUS
<1>w. up[0] = [rest |-> f[n] \o t, out |-> out[0]]
  BY <1>1, Zenon DEF Split, Flattens
<1> DEFINE At(i, x) == up[i] = [rest |-> x, out |-> out[i]] /\ f[n] \o t = f[i] \o x
           S == {i \in 0 .. n : \E x \in Seq(Int) : At(i, x)}
<1>4. 0 \in S
  <2>1. f[0] = <<>> /\ f[n] \o t \in Seq(Int)
    BY <1>1, <1>2, <1>3, ConcatProperties, Zenon DEF Flattens
  <2>2. f[0] \o (f[n] \o t) = f[n] \o t
    BY <2>1, ConcatEmptySeq, Zenon
  <2>3. At(0, f[n] \o t)
    BY <1>w, <2>1, <2>2, Zenon
  <2>4. QED
    BY <1>3, <2>1, <2>3, Zenon
<1>5. ASSUME NEW i \in 1 .. n, i - 1 \in S PROVE i \in S
  <2>0. i \in 0 .. n /\ i - 1 \in 0 .. n
    OBVIOUS
  <2>1. PICK x \in Seq(Int) : At(i - 1, x)
    BY <1>5
  <2>2. PICK y \in Seq(Int) : f[n] = f[i] \o y
    BY <1>b, <2>0, Zenon DEF Begins
  <2>3. p[i] \in Seq(Int) /\ f[i] = f[i - 1] \o p[i] /\ f[i - 1] \in Seq(Int)
    BY <1>1, <1>2, <1>p, <2>0, Zenon DEF Flattens
  <2>4. f[i] \in Seq(Int) /\ f[n] \o t = f[i - 1] \o x
    BY <1>2, <2>0, <2>1, Zenon
  <2>5. PICK z \in Seq(Int) : x = p[i] \o z /\ f[n] \o t = f[i] \o z
    <3>1. Split(f[i], f[i - 1], p[i]) /\ Split(f[n], f[i], y)
          /\ Split(f[n] \o t, f[n], t) /\ Split(f[n] \o t, f[i - 1], x)
      BY <2>2, <2>3, <2>4, Zenon DEF Split
    <3>2. /\ f[i - 1] \in Seq(Int) /\ p[i] \in Seq(Int) /\ f[i] \in Seq(Int)
          /\ y \in Seq(Int) /\ t \in Seq(Int) /\ x \in Seq(Int)
      BY <2>1, <2>2, <2>3, <2>4, Zenon
    <3>3. y \o t \in Seq(Int) /\ Split(f[n] \o t, f[i], y \o t)
      BY <3>1, <3>2, SplitThrice, Zenon
    <3>4. PICK z \in Seq(Int) : Split(f[n] \o t, f[i], z)
      BY <3>3, Zenon
    <3>5. p[i] \o z \in Seq(Int) /\ Split(f[n] \o t, f[i - 1], p[i] \o z)
      BY <3>1, <3>2, <3>4, SplitThrice, Zenon
    <3>6. x = p[i] \o z
      BY <3>1, <3>2, <3>5, SplitSame, Zenon
    <3>7. QED
      BY <3>4, <3>6, Zenon DEF Split
  <2>6. up[i] = [rest |-> z, out |-> out[i]]
    BY <2>1, <2>5, Zenon DEF Follows
  <2>7. QED
    BY <2>0, <2>5, <2>6, Zenon
<1> HIDE DEF S
<1>6. n \in S
  BY <1>3, <1>4, <1>5, StepByStep
<1>7. PICK x \in Seq(Int) : At(n, x)
  BY <1>6 DEF S
<1>8. t = x
  BY <1>2, <1>3, <1>7, SameBehind, Zenon
<1>9. QED
  BY <1>7, <1>8, Zenon

\* A sequence in three, seen from its end.
LEMMA SplitBack ==
  ASSUME NEW a \in Seq(Int), NEW p \in Seq(Int), NEW y \in Seq(Int), NEW b, NEW v,
         Split(b, a, p), Split(v, a, p \o y)
  PROVE  Split(v, b, y)
<1>1. (a \o p) \o y = a \o (p \o y)
  BY JoinedThrice, ZenonT(40)
<1>2. v = a \o (p \o y) /\ b = a \o p
  BY DEF Split
<1>3. QED
  BY <1>1, <1>2, Zenon DEF Split

\* The parts are as long as the whole.
LEMMA SplitLen ==
  ASSUME NEW a \in Seq(Int), NEW y \in Seq(Int), NEW v, Split(v, a, y)
  PROVE  Len(a) \in Nat /\ Len(y) \in Nat /\ Len(v) = Len(a) + Len(y)
BY ConcatProperties, LenProperties DEF Split

\* Behind all of it there is nothing.
LEMMA SplitNone ==
  ASSUME NEW a \in Seq(Int), NEW y \in Seq(Int), NEW b \in Seq(Int), NEW x \in Seq(Int),
         Split(b, a, y), Split(a, b, x)
  PROVE  y = <<>>
<1>1. /\ Len(a) \in Nat /\ Len(y) \in Nat /\ Len(b) = Len(a) + Len(y)
      /\ Len(b) \in Nat /\ Len(x) \in Nat /\ Len(a) = Len(b) + Len(x)
  BY SplitLen, Zenon
<1>2. Len(y) = 0
  BY <1>1
<1>3. QED
  BY <1>2, EmptySeq

\* Of pieces that are cut short not all are read.
LEMMA TooShort ==
  ASSUME NEW n \in Nat, NEW p \in Pieces, Len(p) = n,
         NEW w \in Seq(Int), NEW z \in Seq(Int), z # <<>>, Split(FlattenSeq(p), w, z),
         NEW up, NEW out, Follows(p, n, up, out), Stops(p, n, up, out),
         up[0] = [rest |-> w, out |-> out[0]]
  PROVE  failed(up[n])
<1>1. PICK f : Flattens(p, n, f)
  BY FlattenUnrolled
<1>2. \A i \in 0 .. n : f[i] \in Seq(Int)
  BY <1>1 DEF Flattens
<1>b. \A i \in 0 .. n : Begins(f[n], f[i])
  BY <1>1, BeginningOfAll
<1>p. \A i \in 1 .. n : p[i] \in Seq(Int)
  BY DEF Pieces
<1>3. n \in 0 .. n /\ 0 \in 0 .. n
  OBVIOUS
<1>v. Split(f[n], w, z)
  BY <1>1, Zenon DEF Flattens
<1> DEFINE At(i, x) == up[i] = [rest |-> x, out |-> out[i]] /\ Split(w, f[i], x)
           S == {i \in 0 .. n : failed(up[i]) \/ \E x \in Seq(Int) : At(i, x)}
<1>4. 0 \in S
  <2>1. f[0] = <<>>
    BY <1>1, Zenon DEF Flattens
  <2>2. Split(w, f[0], w)
    BY <2>1, ConcatEmptySeq, Zenon DEF Split
  <2>3. At(0, w)
    BY <2>2, Zenon
  <2>4. QED
    BY <1>3, <2>3, Zenon
<1>5. ASSUME NEW i \in 1 .. n, i - 1 \in S PROVE i \in S
  <2>0. i \in 0 .. n /\ i - 1 \in 0 .. n
    OBVIOUS
  <2>1. CASE failed(up[i - 1])
    <3>1. failed(up[i])
      BY <2>1, Zenon DEF Stops
    <3>2. QED
      BY <2>0, <3>1, Zenon
  <2>2. ASSUME NEW x \in Seq(Int), At(i - 1, x) PROVE i \in S
    <3>1. PICK y \in Seq(Int) : Split(f[n], f[i], y)
      BY <1>b, <2>0, Zenon DEF Begins, Split
    <3>2. p[i] \in Seq(Int) /\ f[i] \in Seq(Int) /\ f[i - 1] \in Seq(Int)
      BY <1>2, <1>p, <2>0, Zenon
    <3>3. Split(f[i], f[i - 1], p[i])
      BY <1>1, Zenon DEF Flattens, Split
    <3>4. p[i] \o y \in Seq(Int) /\ Split(f[n], f[i - 1], p[i] \o y)
      BY <3>1, <3>2, <3>3, SplitThrice, Zenon
    <3>5. Split(w, f[i - 1], x)
      BY <2>2, Zenon
    <3>6. x \o z \in Seq(Int) /\ Split(f[n], f[i - 1], x \o z)
      BY <1>v, <3>2, <3>5, SplitThrice, Zenon
    <3>7. p[i] \o y = x \o z
      BY <3>2, <3>4, <3>6, SplitSame, Zenon
    <3>8. CASE \E t \in Seq(Int) : x = p[i] \o t
      <4>1. PICK t \in Seq(Int) : x = p[i] \o t
        BY <3>8
      <4>2. up[i] = [rest |-> t, out |-> out[i]]
        BY <2>2, <4>1, Zenon DEF Follows
      <4>3. Split(w, f[i - 1], p[i] \o t)
        BY <3>5, <4>1, Zenon
      <4>4. Split(w, f[i], t)
        <5>1. t \in Seq(Int) /\ p[i] \in Seq(Int) /\ f[i - 1] \in Seq(Int)
          BY <3>2, <4>1, Zenon
        <5>2. QED
          BY <3>3, <4>3, <5>1, SplitBack, SMT
      <4>5. QED
        BY <2>0, <4>1, <4>2, <4>4, Zenon
    <3>9. CASE Len(x) < Len(p[i]) /\ x = SubSeq(p[i], 1, Len(x))
      <4>1. Len(x) \in 0 .. Len(p[i]) - 1
        BY <3>2, <3>9, LenProperties
      <4>2. up[i - 1] = [rest |-> SubSeq(p[i], 1, Len(x)), out |-> out[i - 1]]
        BY <2>2, <3>9, Zenon
      <4>3. failed(up[i])
        BY <4>1, <4>2, Zenon DEF Stops
      <4>4. QED
        BY <2>0, <4>3, Zenon
    <3>10. QED
      BY <3>1, <3>2, <3>7, <3>8, <3>9, TwoSplits, Zenon
  <2>3. QED
    BY <1>5, <2>1, <2>2, Zenon
<1>6. n \in S
  <2> HIDE DEF S
  <2>1. QED
    BY <1>3, <1>4, <1>5, StepByStep
<1>7. ASSUME NEW x \in Seq(Int), At(n, x) PROVE FALSE
  <2>1. Split(w, f[n], x)
    BY <1>7, Zenon
  <2>2. QED
    BY <1>2, <1>3, <1>v, <2>1, SplitNone, Zenon
<1>8. QED
  BY <1>6, <1>7, Zenon

-----------------------------------------------------------------------------
(* Going through the fields.                                               *)

Begun(body) == [rest |-> body, out |-> <<>>]

\* What the reader of a control packet has read of the first m fields.
FieldsSoFar(fs, body, m, u) ==
  u = [k \in 0 .. m |-> IF k = 0 THEN Begun(body) ELSE read_field(u[k - 1], fs[k][2])]

\* It exists.
LEMMA FieldsSoFarExist ==
  ASSUME NEW fs, NEW body, NEW n \in Nat
  PROVE  \E u : FieldsSoFar(fs, body, n, u)
<1> DEFINE S == {m \in 0 .. n : \E u : FieldsSoFar(fs, body, m, u)}
<1>1. 0 \in S
  <2>1. FieldsSoFar(fs, body, 0, [k \in 0 .. 0 |-> Begun(body)])
    BY DEF FieldsSoFar
  <2>2. QED
    BY <2>1
<1>2. ASSUME NEW m \in 1 .. n, m - 1 \in S PROVE m \in S
  <2>1. PICK u : FieldsSoFar(fs, body, m - 1, u)
    BY <1>2
  <2> DEFINE next(k, h) == IF k = 0 THEN Begun(body) ELSE read_field(h[k - 1], fs[k][2])
             g == [k \in 0 .. m |-> IF k = m THEN read_field(u[m - 1], fs[m][2]) ELSE u[k]]
  <2>2. \A k \in 0 .. m - 1 : u[k] = next(k, u)
    BY <2>1 DEF FieldsSoFar
  <2>3. g[m] = read_field(u[m - 1], fs[m][2]) /\ \A k \in 0 .. m - 1 : g[k] = u[k]
    OBVIOUS
  <2>4. g = [k \in 0 .. m |-> g[k]]
    OBVIOUS
  <2> HIDE DEF g
  <2>5. ASSUME NEW k \in 0 .. m PROVE g[k] = next(k, g)
    <3>1. CASE k = m
      <4>1. k # 0 /\ k - 1 \in 0 .. m - 1
        BY <3>1
      <4>2. QED
        BY <2>3, <3>1, <4>1, Zenon
    <3>2. CASE k # m /\ k # 0
      <4>1. k \in 0 .. m - 1 /\ k - 1 \in 0 .. m - 1
        BY <3>2
      <4>2. QED
        BY <2>2, <2>3, <3>2, <4>1, Zenon
    <3>3. CASE k # m /\ k = 0
      <4>1. k \in 0 .. m - 1
        BY <3>3
      <4>2. QED
        BY <2>2, <2>3, <3>3, <4>1, Zenon
    <3>4. QED
      BY <3>1, <3>2, <3>3, Zenon
  <2>6. FieldsSoFar(fs, body, m, g)
    BY <2>4, <2>5, Zenon DEF FieldsSoFar
  <2>7. QED
    BY <2>6
<1> HIDE DEF S
<1>3. n \in S
  BY <1>1, <1>2, StepByStep
<1>4. QED
  BY <1>3 DEF S

\* What Control::parse makes of the fields.
ReadOutcome(type, r) ==
  IF failed(r) THEN r
  ELSE IF unfinished(r) THEN Err("TrailingBytes")
  ELSE [x \in {"type"} \cup {fields(type)[i][1] : i \in DOMAIN fields(type)} |->
           IF x = "type" THEN type
           ELSE r.out[CHOOSE i \in DOMAIN fields(type) : fields(type)[i][1] = x]]

\* u holds what it has read of the n fields.
Parses(type, body, n, u) ==
  /\ u[0] = Begun(body)
  /\ \A i \in 1 .. n : u[i] = read_field(u[i - 1], fields(type)[i][2])
  /\ parse_control(type, body) = ReadOutcome(type, u[n])

\* parse_control reads so.
LEMMA ParseUnrolled ==
  ASSUME NEW type, NEW body, NEW n \in Nat, n = Len(fields(type))
  PROVE  \E u : Parses(type, body, n, u)
<1> DEFINE upto == CHOOSE u : FieldsSoFar(fields(type), body, Len(fields(type)), u)
<1>1. FieldsSoFar(fields(type), body, n, upto)
  BY FieldsSoFarExist
<1>2. parse_control(type, body) = ReadOutcome(type, upto[Len(fields(type))])
  BY Zenon DEF parse_control, FieldsSoFar, ReadOutcome, Begun
<1>3. parse_control(type, body) = ReadOutcome(type, upto[n])
  BY <1>2, Zenon
<1> HIDE DEF upto
<1>4. upto[0] = Begun(body) /\ \A i \in 1 .. n : upto[i] = read_field(upto[i - 1], fields(type)[i][2])
  <2>1. 0 \in 0 .. n /\ \A k \in 1 .. n : k \in 0 .. n /\ k # 0
    OBVIOUS
  <2>2. QED
    BY <1>1, <2>1, Zenon DEF FieldsSoFar
<1>5. QED
  BY <1>3, <1>4, Zenon DEF Parses

\* What the reader of a list of players has read after m fields.
PlayersSoFar(rest, m, u) ==
  u = [k \in 0 .. m |-> IF k = 0 THEN Begun(rest) ELSE another(u[k - 1])]

\* It exists.
LEMMA PlayersSoFarExist ==
  ASSUME NEW rest, NEW n \in Nat
  PROVE  \E u : PlayersSoFar(rest, n, u)
<1> DEFINE S == {m \in 0 .. n : \E u : PlayersSoFar(rest, m, u)}
<1>1. 0 \in S
  <2>1. PlayersSoFar(rest, 0, [k \in 0 .. 0 |-> Begun(rest)])
    BY DEF PlayersSoFar
  <2>2. QED
    BY <2>1
<1>2. ASSUME NEW m \in 1 .. n, m - 1 \in S PROVE m \in S
  <2>1. PICK u : PlayersSoFar(rest, m - 1, u)
    BY <1>2
  <2> DEFINE next(k, h) == IF k = 0 THEN Begun(rest) ELSE another(h[k - 1])
             g == [k \in 0 .. m |-> IF k = m THEN another(u[m - 1]) ELSE u[k]]
  <2>2. \A k \in 0 .. m - 1 : u[k] = next(k, u)
    BY <2>1 DEF PlayersSoFar
  <2>3. g[m] = another(u[m - 1]) /\ \A k \in 0 .. m - 1 : g[k] = u[k]
    OBVIOUS
  <2>4. g = [k \in 0 .. m |-> g[k]]
    OBVIOUS
  <2> HIDE DEF g
  <2>5. ASSUME NEW k \in 0 .. m PROVE g[k] = next(k, g)
    <3>1. CASE k = m
      <4>1. k # 0 /\ k - 1 \in 0 .. m - 1
        BY <3>1
      <4>2. QED
        BY <2>3, <3>1, <4>1, Zenon
    <3>2. CASE k # m /\ k # 0
      <4>1. k \in 0 .. m - 1 /\ k - 1 \in 0 .. m - 1
        BY <3>2
      <4>2. QED
        BY <2>2, <2>3, <3>2, <4>1, Zenon
    <3>3. CASE k # m /\ k = 0
      <4>1. k \in 0 .. m - 1
        BY <3>3
      <4>2. QED
        BY <2>2, <2>3, <3>3, <4>1, Zenon
    <3>4. QED
      BY <3>1, <3>2, <3>3, Zenon
  <2>6. PlayersSoFar(rest, m, g)
    BY <2>4, <2>5, Zenon DEF PlayersSoFar
  <2>7. QED
    BY <2>6
<1> HIDE DEF S
<1>3. n \in S
  BY <1>1, <1>2, StepByStep
<1>4. QED
  BY <1>3 DEF S

\* players_read reads so.
LEMMA PlayersUnrolled ==
  ASSUME NEW r, NEW n \in Nat
  PROVE  \E u : /\ u[0] = Begun(r.rest)
                /\ \A i \in 1 .. n : u[i] = another(u[i - 1])
                /\ players_read(r, n) = u[n]
<1> DEFINE upto == CHOOSE u : PlayersSoFar(r.rest, n, u)
<1>1. PlayersSoFar(r.rest, n, upto)
  BY PlayersSoFarExist
<1>3. players_read(r, n) = upto[n]
  BY Zenon DEF players_read, PlayersSoFar, Begun
<1> HIDE DEF upto
<1>4. upto[0] = Begun(r.rest) /\ \A i \in 1 .. n : upto[i] = another(upto[i - 1])
  <2>1. 0 \in 0 .. n /\ \A k \in 1 .. n : k \in 0 .. n /\ k # 0
    OBVIOUS
  <2>2. QED
    BY <1>1, <2>1, Zenon DEF PlayersSoFar
<1>5. QED
  BY <1>3, <1>4, Zenon

-----------------------------------------------------------------------------
(* Reading every field.                                                    *)

\* The first k values.
FirstOf(val, k) == [j \in 1 .. k |-> val[j]]

\* One value more.
LEMMA FirstNext ==
  ASSUME NEW val, NEW k \in Nat, k # 0
  PROVE  FirstOf(val, k) = Append(FirstOf(val, k - 1), val[k])
<1> DEFINE S == {val[j] : j \in 1 .. k}
           s == FirstOf(val, k - 1)
           t == Append(s, val[k])
<1>1. k - 1 \in Nat /\ val[k] \in S /\ \A j \in 1 .. k - 1 : j \in 1 .. k /\ val[j] \in S
  OBVIOUS
<1>2. s \in [1 .. k - 1 -> S]
  BY <1>1 DEF FirstOf
<1>3. s \in Seq(S) /\ Len(s) = k - 1
  <2> HIDE DEF S, s
  <2>1. QED
    BY <1>1, <1>2
<1>4. \A j \in 1 .. k - 1 : s[j] = val[j]
  BY DEF FirstOf
<1>5. /\ t \in Seq(S) /\ Len(t) = k
      /\ \A j \in 1 .. k - 1 : t[j] = s[j]
      /\ t[k] = val[k]
  <2> HIDE DEF S, s
  <2>1. Len(s) + 1 = k
    BY <1>3
  <2>2. QED
    BY <1>1, <1>3, <2>1, AppendProperties
<1>6. t = [j \in 1 .. k |-> val[j]]
  <2> HIDE DEF S, s, t
  <2>1. t = [j \in 1 .. k |-> t[j]]
    BY <1>5
  <2>2. ASSUME NEW j \in 1 .. k PROVE t[j] = val[j]
    <3>1. CASE j = k
      BY <1>5, <3>1
    <3>2. CASE j \in 1 .. k - 1
      BY <1>4, <1>5, <3>2
    <3>3. QED
      BY <3>1, <3>2
  <2>3. QED
    BY <2>1, <2>2, Zenon
<1>7. QED
  BY <1>6, Zenon DEF FirstOf

\* The field is read off what starts with these bytes, and off no part of them.
Reads(kind, b, v) ==
  \A x \in Seq(Int) : \A o :
    read_field([rest |-> b \o x, out |-> o], kind) = [rest |-> x, out |-> Append(o, v)]
Needs(kind, b) ==
  \A k \in 0 .. Len(b) - 1 : \A o :
    failed(read_field([rest |-> SubSeq(b, 1, k), out |-> o], kind))

\* The fields have these bytes and these values.
Lays(kinds, p, val, n) ==
  \A i \in 1 .. n : Reads(kinds[i], p[i], val[i]) /\ Needs(kinds[i], p[i])

\* A field is read, whatever follows it.
LEMMA ReadsNext ==
  ASSUME NEW kind, NEW b, NEW v, Reads(kind, b, v), NEW x \in Seq(Int), NEW o
  PROVE  read_field([rest |-> b \o x, out |-> o], kind) = [rest |-> x, out |-> Append(o, v)]
BY Zenon DEF Reads

\* The fields are read one after the other.
LEMMA FieldsFollow ==
  ASSUME NEW n \in Nat, NEW p, NEW kinds, NEW val, Lays(kinds, p, val, n), NEW up,
         \A i \in 1 .. n : up[i] = read_field(up[i - 1], kinds[i])
  PROVE  \E out : /\ out[0] = <<>> /\ out[n] = FirstOf(val, n)
                  /\ Follows(p, n, up, out) /\ Stops(p, n, up, out)
<1> DEFINE out == [i \in 0 .. n |-> FirstOf(val, i)]
<1>1. out[0] = <<>> /\ out[n] = FirstOf(val, n)
  BY DEF FirstOf
<1>2. \A i \in 1 .. n : out[i] = Append(out[i - 1], val[i])
  <2>1. \A i \in 1 .. n : /\ i \in Nat /\ i # 0 /\ i - 1 \in 0 .. n /\ i \in 0 .. n
    OBVIOUS
  <2>2. QED
    BY <2>1, FirstNext, Zenon
<1> HIDE DEF out
<1>3. ASSUME NEW i \in 1 .. n, NEW x \in Seq(Int),
             up[i - 1] = [rest |-> p[i] \o x, out |-> out[i - 1]]
      PROVE  up[i] = [rest |-> x, out |-> out[i]]
  <2>1. up[i] = read_field([rest |-> p[i] \o x, out |-> out[i - 1]], kinds[i])
    BY <1>3, Zenon
  <2>2. Reads(kinds[i], p[i], val[i])
    BY Zenon DEF Lays
  <2>3. read_field([rest |-> p[i] \o x, out |-> out[i - 1]], kinds[i])
          = [rest |-> x, out |-> Append(out[i - 1], val[i])]
    BY <2>2, Zenon DEF Reads
  <2>4. QED
    BY <1>2, <2>1, <2>3, Zenon
<1>4. ASSUME NEW i \in 1 .. n, NEW k \in 0 .. Len(p[i]) - 1,
             up[i - 1] = [rest |-> SubSeq(p[i], 1, k), out |-> out[i - 1]]
      PROVE  failed(up[i])
  <2>1. up[i] = read_field([rest |-> SubSeq(p[i], 1, k), out |-> out[i - 1]], kinds[i])
    BY <1>4, Zenon
  <2>2. Needs(kinds[i], p[i])
    BY Zenon DEF Lays
  <2>3. failed(read_field([rest |-> SubSeq(p[i], 1, k), out |-> out[i - 1]], kinds[i]))
    BY <2>2, Zenon DEF Needs
  <2>4. QED
    BY <2>1, <2>3, Zenon
<1>5. ASSUME NEW i \in 1 .. n, failed(up[i - 1]) PROVE failed(up[i])
  <2>1. up[i] = read_field(up[i - 1], kinds[i])
    BY Zenon
  <2>2. read_field(up[i - 1], kinds[i]) = up[i - 1]
    BY <1>5, Zenon DEF read_field
  <2>3. QED
    BY <1>5, <2>1, <2>2, Zenon
<1>6. Follows(p, n, up, out) /\ Stops(p, n, up, out)
  BY <1>3, <1>4, <1>5, Zenon DEF Follows, Stops
<1>7. QED
  BY <1>1, <1>6, Zenon

\* Read are all n pieces and what follows them is left, or it is an error.
AllOrError(p, n, up, out) ==
  /\ \A w, t \in Seq(Int) : up[0] = Begun(w) /\ Split(w, FlattenSeq(p), t)
                            => up[n] = [rest |-> t, out |-> out]
  /\ \A w, z \in Seq(Int) : up[0] = Begun(w) /\ Split(FlattenSeq(p), w, z) /\ z # <<>>
                            => failed(up[n])

\* Of a chain of readers all is read, or there is an error.
LEMMA ChainRead ==
  ASSUME NEW n \in Nat, NEW p \in Pieces, Len(p) = n, NEW up, NEW out, out[0] = <<>>,
         Follows(p, n, up, out), Stops(p, n, up, out)
  PROVE  AllOrError(p, n, up, out[n])
<1>1. ASSUME NEW w \in Seq(Int), NEW t \in Seq(Int), up[0] = Begun(w),
             Split(w, FlattenSeq(p), t)
      PROVE  up[n] = [rest |-> t, out |-> out[n]]
  <2>1. up[0] = [rest |-> w, out |-> out[0]]
    BY <1>1, Zenon DEF Begun
  <2>2. QED
    BY <1>1, <2>1, AllRead, SMT
<1>2. ASSUME NEW w \in Seq(Int), NEW z \in Seq(Int), up[0] = Begun(w),
             Split(FlattenSeq(p), w, z), z # <<>>
      PROVE  failed(up[n])
  <2>1. up[0] = [rest |-> w, out |-> out[0]]
    BY <1>2, Zenon DEF Begun
  <2>2. QED
    BY <1>2, <2>1, TooShort, SMT
<1>3. QED
  BY <1>1, <1>2, Zenon DEF AllOrError

\* So it is of the fields of a packet.
LEMMA FieldsRead ==
  ASSUME NEW n \in Nat, NEW p \in Pieces, Len(p) = n, NEW kinds, NEW val,
         Lays(kinds, p, val, n), NEW up,
         \A i \in 1 .. n : up[i] = read_field(up[i - 1], kinds[i])
  PROVE  AllOrError(p, n, up, FirstOf(val, n))
<1>1. PICK out : /\ out[0] = <<>> /\ out[n] = FirstOf(val, n)
                 /\ Follows(p, n, up, out) /\ Stops(p, n, up, out)
  BY FieldsFollow, ZenonT(60)
<1>2. AllOrError(p, n, up, out[n])
  BY <1>1, ChainRead, Zenon
<1>3. QED
  BY <1>1, <1>2, Zenon

\* Joined pieces are bytes.
LEMMA PiecesJoined ==
  ASSUME NEW p \in Pieces
  PROVE  FlattenSeq(p) \in Seq(Int)
<1>1. PICK n \in Nat : n = Len(p)
  BY LenProperties DEF Pieces
<1>2. PICK f : Flattens(p, n, f)
  BY <1>1, FlattenUnrolled
<1>3. n \in 0 .. n
  OBVIOUS
<1>4. QED
  BY <1>2, <1>3, Zenon DEF Flattens

\* Read are all fields of the body, or it is an error.
BodyOrError(type, p, out) ==
  /\ parse_control(type, FlattenSeq(p)) = ReadOutcome(type, [rest |-> <<>>, out |-> out])
  /\ \A t \in Seq(Int) : t # <<>> => failed(parse_control(type, FlattenSeq(p) \o t))
  /\ \A w, z \in Seq(Int) : Split(FlattenSeq(p), w, z) /\ z # <<>>
                            => failed(parse_control(type, w))

\* The fields of a control packet, read.
LEMMA BodyRead ==
  ASSUME NEW type, NEW n \in Nat, n = Len(fields(type)), NEW p \in Pieces, Len(p) = n,
         NEW kinds, \A i \in 1 .. n : kinds[i] = fields(type)[i][2],
         NEW val, Lays(kinds, p, val, n)
  PROVE  BodyOrError(type, p, FirstOf(val, n))
<1>0. FlattenSeq(p) \in Seq(Int) /\ <<>> \in Seq(Int)
  BY PiecesJoined, EmptySeq
<1>1. ASSUME NEW t \in Seq(Int)
      PROVE  parse_control(type, FlattenSeq(p) \o t)
               = ReadOutcome(type, [rest |-> t, out |-> FirstOf(val, n)])
  <2>1. PICK u : Parses(type, FlattenSeq(p) \o t, n, u)
    BY ParseUnrolled, Zenon
  <2>2. u[0] = Begun(FlattenSeq(p) \o t) /\ \A i \in 1 .. n : u[i] = read_field(u[i - 1], kinds[i])
    BY <2>1, Zenon DEF Parses
  <2>3. AllOrError(p, n, u, FirstOf(val, n))
    BY <2>2, FieldsRead, Zenon
  <2>4. FlattenSeq(p) \o t \in Seq(Int) /\ Split(FlattenSeq(p) \o t, FlattenSeq(p), t)
    BY <1>0, JoinedThrice, Zenon DEF Split
  <2>5. u[n] = [rest |-> t, out |-> FirstOf(val, n)]
    BY <2>2, <2>3, <2>4, Zenon DEF AllOrError
  <2>6. QED
    BY <2>1, <2>5, Zenon DEF Parses
<1>2. parse_control(type, FlattenSeq(p))
        = ReadOutcome(type, [rest |-> <<>>, out |-> FirstOf(val, n)])
  <2>1. FlattenSeq(p) \o <<>> = FlattenSeq(p)
    BY <1>0, ConcatEmptySeq, Zenon
  <2>2. QED
    BY <1>0, <1>1, <2>1, Zenon
<1>3. ASSUME NEW t \in Seq(Int), t # <<>>
      PROVE  failed(parse_control(type, FlattenSeq(p) \o t))
  <2>1. ~failed([rest |-> t, out |-> FirstOf(val, n)])
    BY DEF failed
  <2>2. unfinished([rest |-> t, out |-> FirstOf(val, n)])
    BY <1>3 DEF unfinished
  <2>3. ReadOutcome(type, [rest |-> t, out |-> FirstOf(val, n)]) = Err("TrailingBytes")
    BY <2>1, <2>2, Zenon DEF ReadOutcome
  <2>4. failed(Err("TrailingBytes"))
    BY DEF failed, Err
  <2>5. QED
    BY <1>1, <2>3, <2>4, Zenon
<1>4. ASSUME NEW w \in Seq(Int), NEW z \in Seq(Int), Split(FlattenSeq(p), w, z), z # <<>>
      PROVE  failed(parse_control(type, w))
  <2>1. PICK u : Parses(type, w, n, u)
    BY ParseUnrolled, Zenon
  <2>2. u[0] = Begun(w) /\ \A i \in 1 .. n : u[i] = read_field(u[i - 1], kinds[i])
    BY <2>1, Zenon DEF Parses
  <2>3. AllOrError(p, n, u, FirstOf(val, n))
    BY <2>2, FieldsRead, Zenon
  <2>4. failed(u[n])
    BY <1>4, <2>2, <2>3, Zenon DEF AllOrError
  <2>5. QED
    BY <2>1, <2>4, Zenon DEF ReadOutcome, Parses
<1>5. QED
  BY <1>2, <1>3, <1>4, Zenon DEF BodyOrError

\* What is made of the values is the packet that has them.
MadeOf(q, type, n, val) ==
  /\ DOMAIN fields(type) = 1 .. n
  /\ q = [x \in DOMAIN q |-> q[x]]
  /\ DOMAIN q = {"type"} \cup {fields(type)[i][1] : i \in 1 .. n}
  /\ q["type"] = type
  /\ \A i \in 1 .. n : q[fields(type)[i][1]] = val[i]

\* It is what parse_control returns.
LEMMA OutcomeIs ==
  ASSUME NEW type, NEW n \in Nat, NEW q, NEW val, MadeOf(q, type, n, val)
  PROVE  ReadOutcome(type, [rest |-> <<>>, out |-> FirstOf(val, n)]) = q
<1>0. /\ DOMAIN fields(type) = 1 .. n
      /\ q = [x \in DOMAIN q |-> q[x]]
      /\ DOMAIN q = {"type"} \cup {fields(type)[i][1] : i \in 1 .. n}
      /\ q["type"] = type
      /\ \A i \in 1 .. n : q[fields(type)[i][1]] = val[i]
  BY Zenon DEF MadeOf
<1> DEFINE r == [rest |-> <<>>, out |-> FirstOf(val, n)]
           fs == fields(type)
           e == [x \in {"type"} \cup {fs[i][1] : i \in DOMAIN fs} |->
                   IF x = "type" THEN type
                   ELSE r.out[CHOOSE i \in DOMAIN fs : fs[i][1] = x]]
<1>1. ~failed(r) /\ ~unfinished(r) /\ r.out = FirstOf(val, n)
  BY DEF failed, unfinished
<1>2. ReadOutcome(type, r) = e
  BY <1>0, <1>1, Zenon DEF ReadOutcome
<1>3. ASSUME NEW x \in DOMAIN q PROVE e[x] = q[x]
  <2>1. e[x] = IF x = "type" THEN type ELSE r.out[CHOOSE i \in DOMAIN fs : fs[i][1] = x]
    BY <1>0, Zenon
  <2>2. CASE x = "type"
    BY <1>0, <2>1, <2>2
  <2>3. CASE x # "type"
    <3>1. \E i \in 1 .. n : fs[i][1] = x
      BY <1>0, <2>3
    <3>2. PICK j \in 1 .. n : fs[j][1] = x /\ j = CHOOSE i \in DOMAIN fs : fs[i][1] = x
      BY <1>0, <3>1, Zenon
    <3>3. r.out[j] = val[j]
      BY <1>1 DEF FirstOf
    <3>4. QED
      BY <1>0, <2>1, <2>3, <3>2, <3>3, Zenon
  <2>4. QED
    BY <2>2, <2>3
<1>4. e = q
  <2>1. DOMAIN e = DOMAIN q
    BY <1>0
  <2>2. e = [x \in DOMAIN q |-> e[x]]
    BY <2>1
  <2>3. QED
    BY <1>0, <1>3, <2>2, Zenon
<1>5. QED
  BY <1>2, <1>4, Zenon

-----------------------------------------------------------------------------
(* The fields: numbers.                                                    *)

\* Four bytes and four more.
LEMMA ValueOfEight ==
  ASSUME NEW s, NEW t, Bytes(s, 4), Bytes(t, 4)
  PROVE  Bytes(s \o t, 8) /\ value(s \o t) = value(s) * (65536 * 65536) + value(t)
<1>0. 4 \in Nat /\ 8 \in Nat /\ 4 + 4 = 8
  OBVIOUS
<1>1. s[1] \in Int /\ s[2] \in Int /\ s[3] \in Int /\ s[4] \in Int
      /\ t[1] \in Int /\ t[2] \in Int /\ t[3] \in Int /\ t[4] \in Int
  <2>1. (\A i \in 1 .. 4 : s[i] \in Int) /\ \A i \in 1 .. 4 : t[i] \in Int
    BY <1>0, ByteOf, Zenon
  <2>2. QED
    BY <2>1
<1>2. PICK b : b = s \o t
  OBVIOUS
<1>3. Bytes(b, 8) /\ (\A i \in 1 .. 4 : b[i] = s[i]) /\ \A i \in 1 .. 4 : b[4 + i] = t[i]
  <2>1. Joins(s, t, 4, 4)
    BY <1>0, Joined, Zenon
  <2>2. Bytes(b, 4 + 4) /\ (\A i \in 1 .. 4 : b[i] = s[i]) /\ \A i \in 1 .. 4 : b[4 + i] = t[i]
    BY <1>2, <2>1, Zenon DEF Joins
  <2>3. QED
    BY <1>0, <2>2, Zenon
<1>4. /\ b[1] = s[1] /\ b[2] = s[2] /\ b[3] = s[3] /\ b[4] = s[4]
      /\ b[5] = t[1] /\ b[6] = t[2] /\ b[7] = t[3] /\ b[8] = t[4]
  BY <1>3
<1>5. PICK f : Unrolls(b, 8, f)
  BY <1>0, <1>3, ValueUnrolled, Zenon
<1>6. value(b) = f[8] /\ f[0] = 0 /\ \A k \in 1 .. 8 : f[k] = f[k - 1] * 256 + b[k]
  BY <1>5, Zenon DEF Unrolls
<1>7. /\ f[1] = f[0] * 256 + s[1] /\ f[2] = f[1] * 256 + s[2]
      /\ f[3] = f[2] * 256 + s[3] /\ f[4] = f[3] * 256 + s[4]
      /\ f[5] = f[4] * 256 + t[1] /\ f[6] = f[5] * 256 + t[2]
      /\ f[7] = f[6] * 256 + t[3] /\ f[8] = f[7] * 256 + t[4]
  BY <1>4, <1>6
<1>8. PICK u, w : u = value(s) /\ w = value(t)
  OBVIOUS
<1>9. /\ u = ((s[1] * 256 + s[2]) * 256 + s[3]) * 256 + s[4]
      /\ w = ((t[1] * 256 + t[2]) * 256 + t[3]) * 256 + t[4]
  BY <1>8, ValueOfFour
<1>10. f[1] = s[1]
  BY <1>1, <1>6, <1>7
<1>11. f[4] = u
  BY <1>1, <1>7, <1>9, <1>10
<1>12. f[8] = u * (65536 * 65536) + w
  BY <1>1, <1>7, <1>9, <1>11
<1>13. QED
  BY <1>2, <1>3, <1>6, <1>8, <1>12

\* A u32 is a u64.
LEMMA Wider == U32 \subseteq U64
<1>1. ASSUME NEW v \in U32 PROVE v \in U64
  <2>1. v \in Nat /\ v < 65536 * 65536
    BY DEF U32
  <2>2. PICK h, w : h = (v \div 65536) \div 65536 /\ w = value(be(v, 4))
    OBVIOUS
  <2>3. h \in Nat /\ w \in U32 /\ v = h * (65536 * 65536) + w
    BY <2>1, <2>2, LastFour
  <2>4. h \in U32
    BY <2>1, <2>3, SMT DEF U32
  <2>5. QED
    BY <2>1, <2>2, <2>4 DEF U64
<1>2. QED
  BY <1>1

\* A u64 is read as it was written.
LEMMA BeEight ==
  ASSUME NEW v \in U64
  PROVE  Bytes(be64(v), 8) /\ value(be64(v)) = v
<1> DEFINE h == (v \div 65536) \div 65536
<1>1. v \in Nat /\ h \in U32
  BY DEF U64
<1>2. /\ Bytes(be(v, 4), 4) /\ v = h * (65536 * 65536) + value(be(v, 4))
  BY <1>1, LastFour
<1>3. be64(v) = be(h, 4) \o be(v, 4)
  BY DEF be64
<1> HIDE DEF h
<1>4. Bytes(be(h, 4), 4) /\ value(be(h, 4)) = h
  BY <1>1, BeFour
<1>5. /\ Bytes(be(h, 4) \o be(v, 4), 8)
      /\ value(be(h, 4) \o be(v, 4)) = value(be(h, 4)) * (65536 * 65536) + value(be(v, 4))
  BY <1>2, <1>4, ValueOfEight
<1>6. QED
  BY <1>2, <1>3, <1>4, <1>5

\* A part of some bytes.
LEMMA PartOf ==
  ASSUME NEW s \in Seq(Int), NEW k \in 0 .. Len(s)
  PROVE  SubSeq(s, 1, k) \in Seq(Int) /\ Len(SubSeq(s, 1, k)) = k
<1>1. Len(s) \in Nat
  BY LenProperties
<1>2. QED
  BY <1>1, SubSeqProperties

\* A number is read off its bytes.
LEMMA NumberRead ==
  ASSUME NEW m \in Nat, NEW s, Bytes(s, m), NEW x \in Seq(Int), NEW o
  PROVE  number([rest |-> s \o x, out |-> o], m) = [rest |-> x, out |-> Append(o, value(s))]
<1> DEFINE r == [rest |-> s \o x, out |-> o]
<1>1. r.rest = s \o x /\ r.out = o
  OBVIOUS
<1>2. bytes_left(s \o x, m) = x /\ SubSeq(s \o x, 1, m) = s
  BY Behind
<1>3. s \in Seq(Int) /\ Len(s) = m /\ Len(x) \in Nat
  BY ByteOf, LenProperties
<1>4. Len(s \o x) = m + Len(x)
  BY <1>3, ConcatProperties
<1>5. ~(Len(s \o x) < m)
  BY <1>3, <1>4
<1> HIDE DEF r
<1>6. number(r, m) = Read(r, m, value(s))
  BY <1>1, <1>2, <1>5, Zenon DEF number
<1>7. Read(r, m, value(s)) = [rest |-> x, out |-> Append(o, value(s))]
  BY <1>1, <1>2, Zenon DEF Read
<1>8. QED
  BY <1>6, <1>7, Zenon DEF r

\* A number cut short is an error.
LEMMA NumberNeeds ==
  ASSUME NEW m \in Nat, NEW s, Bytes(s, m), NEW k \in 0 .. Len(s) - 1, NEW o
  PROVE  failed(number([rest |-> SubSeq(s, 1, k), out |-> o], m))
<1>1. s \in Seq(Int) /\ Len(s) = m
  BY ByteOf
<1>2. Len(SubSeq(s, 1, k)) = k /\ k < m
  BY <1>1, PartOf
<1>3. number([rest |-> SubSeq(s, 1, k), out |-> o], m) = Err("Truncated")
  BY <1>2 DEF number
<1>4. QED
  BY <1>3 DEF failed, Err

\* A number of m bytes is taken off what starts with them, and off no part of them.
Takes(m, b, v) ==
  /\ \A x \in Seq(Int) : \A o :
        number([rest |-> b \o x, out |-> o], m) = [rest |-> x, out |-> Append(o, v)]
  /\ \A k \in 0 .. Len(b) - 1 : \A o :
        failed(number([rest |-> SubSeq(b, 1, k), out |-> o], m))

\* A number is both.
LEMMA NumberTaken ==
  ASSUME NEW m \in Nat, NEW s, Bytes(s, m)
  PROVE  Takes(m, s, value(s))
BY NumberRead, NumberNeeds, Zenon DEF Takes

-----------------------------------------------------------------------------
(* The fields: codecs, reasons, room codes and names.                      *)

\* The reason is the only one with its number.
LEMMA ReasonNamed ==
  ASSUME NEW c \in DOMAIN DenyReason
  PROVE  DenyReason[c] \in 0 .. 2 /\ named(DenyReason, DenyReason[c]) = {c}
BY SMT DEF DenyReason, named

\* One byte.
LEMMA Single ==
  ASSUME NEW b \in Int
  PROVE  Bytes(<<b>>, 1) /\ <<b>>[1] = b
BY SMT DEF Bytes

\* A byte before bytes.
LEMMA FirstByte ==
  ASSUME NEW b \in Int, NEW x \in Seq(Int)
  PROVE  /\ (<<b>> \o x)[1] = b /\ <<b>> \o x \in Seq(Int) /\ <<b>> \o x # <<>>
         /\ bytes_left(<<b>> \o x, 1) = x
         /\ Len(<<b>> \o x) = 1 + Len(x) /\ Len(x) \in Nat
<1>1. PICK n \in Nat : n = Len(x) /\ Bytes(x, n)
  BY BytesOf
<1>2. 1 \in Nat /\ 1 \in 1 .. 1
  OBVIOUS
<1>3. Joins(<<b>>, x, 1, n)
  BY <1>1, <1>2, Single, Joined, Zenon
<1>4. (<<b>> \o x)[1] = b
  BY <1>2, <1>3, Single, Zenon DEF Joins
<1>5. Bytes(<<b>> \o x, 1 + n) /\ 1 + n \in Nat
  BY <1>1, <1>3 DEF Joins
<1>6. <<b>> \o x \in Seq(Int) /\ Len(<<b>> \o x) = 1 + n
  BY <1>5, ByteOf, Zenon
<1>7. <<b>> \o x # <<>>
  BY <1>1, <1>6
<1>8. bytes_left(<<b>> \o x, 1) = x
  BY <1>2, Single, Behind, Zenon
<1>9. QED
  BY <1>1, <1>4, <1>6, <1>7, <1>8, Zenon

\* A byte names one of the values of an enum.
VariantTaken(enum, why, v) ==
  \A x \in Seq(Int) : \A o :
    variant([rest |-> <<enum[v]>> \o x, out |-> o], enum, why) = [rest |-> x, out |-> Append(o, v)]

\* A codec or a reason is read.
LEMMA VariantRead ==
  ASSUME NEW enum, NEW why, NEW v, enum[v] \in Int, named(enum, enum[v]) = {v}
  PROVE  VariantTaken(enum, why, v)
<1> SUFFICES ASSUME NEW x \in Seq(Int), NEW o
             PROVE  variant([rest |-> <<enum[v]>> \o x, out |-> o], enum, why)
                      = [rest |-> x, out |-> Append(o, v)]
  BY Zenon DEF VariantTaken
<1> DEFINE b == enum[v]
           u == <<b>> \o x
           r == [rest |-> u, out |-> o]
<1>1. u[1] = b /\ u # <<>> /\ bytes_left(u, 1) = x
  BY FirstByte
<1>2. r.rest = u /\ r.out = o
  OBVIOUS
<1> HIDE DEF u, r
<1>3. named(enum, u[1]) = {v}
  BY <1>1
<1>4. (CHOOSE name \in named(enum, u[1]) : TRUE) = v /\ named(enum, u[1]) # {}
  BY <1>3
<1>5. variant(r, enum, why) = Read(r, 1, v)
  BY <1>1, <1>2, <1>4, Zenon DEF variant
<1>6. Read(r, 1, v) = [rest |-> x, out |-> Append(o, v)]
  BY <1>1, <1>2, Zenon DEF Read
<1>7. QED
  BY <1>5, <1>6, Zenon DEF u, r

\* Of no byte there is an error.
LEMMA VariantNeeds ==
  ASSUME NEW enum, NEW why, NEW b \in Int, NEW k \in 0 .. Len(<<b>>) - 1, NEW o
  PROVE  failed(variant([rest |-> SubSeq(<<b>>, 1, k), out |-> o], enum, why))
<1>1. k = 0
  OBVIOUS
<1>2. SubSeq(<<b>>, 1, k) = <<>>
  BY <1>1
<1>3. variant([rest |-> SubSeq(<<b>>, 1, k), out |-> o], enum, why) = Err("Truncated")
  BY <1>2 DEF variant
<1>4. QED
  BY <1>3 DEF failed, Err

\* A room code is read off its bytes.
LEMMA CodeRead ==
  ASSUME NEW s, Bytes(s, ROOM_CODE_LEN), NEW x \in Seq(Int), NEW o
  PROVE  room_code([rest |-> s \o x, out |-> o]) = [rest |-> x, out |-> Append(o, s)]
<1> DEFINE r == [rest |-> s \o x, out |-> o]
           m == ROOM_CODE_LEN
<1>0. m \in Nat
  BY PacketAssumption
<1>1. r.rest = s \o x /\ r.out = o
  OBVIOUS
<1>2. bytes_left(s \o x, m) = x /\ SubSeq(s \o x, 1, m) = s
  BY <1>0, Behind
<1>3. s \in Seq(Int) /\ Len(s) = m /\ Len(x) \in Nat
  BY <1>0, ByteOf, LenProperties
<1>4. Len(s \o x) = m + Len(x)
  BY <1>3, ConcatProperties
<1>5. ~(Len(s \o x) < m)
  BY <1>0, <1>3, <1>4
<1> HIDE DEF r
<1>6. room_code(r) = Read(r, m, s)
  BY <1>1, <1>2, <1>5, Zenon DEF room_code
<1>7. Read(r, m, s) = [rest |-> x, out |-> Append(o, s)]
  BY <1>1, <1>2, Zenon DEF Read
<1>8. QED
  BY <1>6, <1>7, Zenon DEF r

\* A room code cut short is an error.
LEMMA CodeNeeds ==
  ASSUME NEW s, Bytes(s, ROOM_CODE_LEN), NEW k \in 0 .. Len(s) - 1, NEW o
  PROVE  failed(room_code([rest |-> SubSeq(s, 1, k), out |-> o]))
<1>0. ROOM_CODE_LEN \in Nat
  BY PacketAssumption
<1>1. s \in Seq(Int) /\ Len(s) = ROOM_CODE_LEN
  BY <1>0, ByteOf
<1>2. Len(SubSeq(s, 1, k)) = k /\ k < ROOM_CODE_LEN
  BY <1>0, <1>1, PartOf
<1>3. room_code([rest |-> SubSeq(s, 1, k), out |-> o]) = Err("Truncated")
  BY <1>2 DEF room_code
<1>4. QED
  BY <1>3 DEF failed, Err

\* What lies between a byte and the end.
LEMMA Middle ==
  ASSUME NEW b \in Int, NEW m \in Nat, NEW c, Bytes(c, m), NEW x \in Seq(Int)
  PROVE  SubSeq((<<b>> \o c) \o x, 2, 1 + m) = c
<1> DEFINE u == <<b>> \o c
           v == u \o x
<1>0. 1 \in Nat /\ 1 + m \in Nat
  OBVIOUS
<1>1. PICK n \in Nat : n = Len(x) /\ Bytes(x, n)
  BY BytesOf
<1>2. Joins(<<b>>, c, 1, m)
  BY <1>0, Single, Joined, Zenon
<1>3. Bytes(u, 1 + m) /\ \A i \in 1 .. m : u[1 + i] = c[i]
  BY <1>2, Zenon DEF Joins
<1>4. Joins(u, x, 1 + m, n)
  BY <1>0, <1>1, <1>3, Joined, Zenon
<1>5. Bytes(v, 1 + m + n) /\ \A i \in 1 .. 1 + m : v[i] = u[i]
  BY <1>4, Zenon DEF Joins
<1>6. v \in Seq(Int) /\ Len(v) = 1 + m + n
  <2>1. 1 + m + n \in Nat
    BY <1>1
  <2>2. QED
    BY <1>5, <2>1, ByteOf, Zenon
<1>7. c \in Seq(Int) /\ Len(c) = m
  BY ByteOf
<1> HIDE DEF u, v
<1>8. \A i \in 1 .. m : v[i + 1] = c[i]
  BY <1>3, <1>5
<1> DEFINE d == SubSeq(v, 2, 1 + m)
<1>9. d \in Seq(Int) /\ Len(d) = m /\ \A i \in 1 .. m : d[i] = v[i + 1]
  BY <1>1, <1>6, SubSeqProperties
<1> HIDE DEF d
<1>10. d = c
  <2>1. d = [i \in 1 .. m |-> d[i]] /\ c = [i \in 1 .. m |-> c[i]]
    BY <1>7, <1>9
  <2>2. \A i \in 1 .. m : d[i] = c[i]
    BY <1>8, <1>9
  <2>3. QED
    BY <2>1, <2>2, Zenon
<1>11. QED
  BY <1>10 DEF d, v, u

\* A name is read off its bytes, cut.
LEMMA StringRead ==
  ASSUME NEW s \in Seq(1 .. 4), NEW x \in Seq(Int), NEW o
  PROVE  read_string([rest |-> string(s) \o x, out |-> o])
           = [rest |-> x, out |-> Append(o, kept(s))]
<1> DEFINE c == cut(s)
           n == Len(c)
           u == <<n>> \o c
           v == u \o x
           r == [rest |-> v, out |-> o]
<1>1. /\ c \in Seq(Int) /\ n \in 0 .. MAX_NAME_LEN /\ valid_utf8(c)
      /\ MAX_NAME_LEN \in Nat
  BY CutFits, PacketAssumption
<1>2. n \in Nat /\ n \in Int /\ 1 + n \in Nat /\ 1 + n = n + 1
  BY <1>1
<1>3. Bytes(c, n)
  BY <1>1, BytesOf
<1> HIDE DEF c, n
<1>4. c \o x \in Seq(Int) /\ v = <<n>> \o (c \o x)
  BY <1>1, <1>2
<1>5. v[1] = n /\ v # <<>> /\ Len(v) = 1 + Len(c \o x)
  BY <1>2, <1>4, FirstByte
<1>6. Len(c \o x) = n + Len(x) /\ Len(x) \in Nat
  BY <1>1, <1>2, <1>3, ByteOf, ConcatProperties, LenProperties
<1>7. SubSeq(v, 2, 1 + n) = c
  BY <1>2, <1>3, Middle
<1>8. u \in Seq(Int) /\ Len(u) = 1 + n
  BY <1>1, <1>2, <1>3, FirstByte, ByteOf
<1>9. Bytes(u, 1 + n)
  BY <1>8, Zenon DEF Bytes
<1>10. bytes_left(v, 1 + n) = x
  BY <1>2, <1>9, Behind
<1>11. r.rest = v /\ r.out = o
  OBVIOUS
<1> HIDE DEF u, v, r
<1>12. ~(n > MAX_NAME_LEN) /\ ~(Len(v) - 1 < n)
  BY <1>1, <1>2, <1>5, <1>6
<1>13. read_string(r) = Read(r, 1 + n, chars(c))
  BY <1>1, <1>5, <1>7, <1>11, <1>12, Zenon DEF read_string
<1>14. Read(r, 1 + n, chars(c)) = [rest |-> x, out |-> Append(o, chars(c))]
  BY <1>10, <1>11, Zenon DEF Read
<1>15. string(s) \o x = v
  BY Zenon DEF string, v, u, c, n
<1>16. kept(s) = chars(c)
  BY Zenon DEF kept, c
<1>17. QED
  BY <1>13, <1>14, <1>15, <1>16, Zenon DEF r

\* A name cut short is an error.
LEMMA StringNeeds ==
  ASSUME NEW s \in Seq(1 .. 4), NEW k \in 0 .. Len(string(s)) - 1, NEW o
  PROVE  failed(read_string([rest |-> SubSeq(string(s), 1, k), out |-> o]))
<1> DEFINE c == cut(s)
           n == Len(c)
           v == <<n>> \o c
           w == SubSeq(v, 1, k)
           r == [rest |-> w, out |-> o]
<1>1. c \in Seq(Int) /\ n \in Nat /\ n <= MAX_NAME_LEN /\ MAX_NAME_LEN \in Nat
  BY CutFits, PacketAssumption
<1>2. v \in Seq(Int) /\ v[1] = n /\ Len(v) = 1 + n
  BY <1>1, FirstByte
<1>3. string(s) = v
  BY Zenon DEF string
<1>4. k \in Nat /\ k - 1 < n /\ k \in 0 .. Len(v)
  BY <1>1, <1>2, <1>3
<1>5. w \in Seq(Int) /\ Len(w) = k
  BY <1>2, <1>4, PartOf
<1>6. r.rest = w
  OBVIOUS
<1> HIDE DEF c, n, v, r
<1>7. CASE k = 0
  <2>1. w = <<>>
    BY <1>5, <1>7
  <2>2. read_string(r) = Err("Truncated")
    BY <1>6, <2>1, Zenon DEF read_string
  <2>3. QED
    BY <1>3, <2>2 DEF failed, Err, r
<1>8. CASE k # 0
  <2>1. k \in 1 .. Len(v) /\ 1 \in 1 .. k
    BY <1>4, <1>8
  <2>2. w[1] = v[1]
    BY <1>2, <2>1, SubSeqProperties
  <2> HIDE DEF w
  <2>3. w[1] = n /\ w # <<>>
    BY <1>2, <1>5, <1>8, <2>2
  <2>4. ~(n > MAX_NAME_LEN) /\ Len(w) - 1 < n
    BY <1>1, <1>4, <1>5
  <2>5. read_string(r) = Err("Truncated")
    BY <1>6, <2>3, <2>4, Zenon DEF read_string
  <2>6. QED
    BY <1>3, <2>5 DEF failed, Err, r, w
<1>9. QED
  BY <1>7, <1>8

-----------------------------------------------------------------------------
(* The fields: lists of players.                                           *)

\* A sequence is its two parts.
LEMMA InTwo ==
  ASSUME NEW s \in Seq(Int), NEW n \in Nat, Len(s) = n, NEW j \in 0 .. n, NEW k, k = j + 1
  PROVE  Split(s, SubSeq(s, 1, j), SubSeq(s, k, n))
<1>1. 1 \in 1 .. Len(s) + 1 /\ j \in 1 - 1 .. Len(s) /\ n \in j .. Len(s)
  OBVIOUS
<1>2. SubSeq(s, 1, j) \o SubSeq(s, j + 1, n) = SubSeq(s, 1, n)
  BY <1>1, ConcatAdjacentSubSeq, Zenon
<1>3. SubSeq(s, 1, n) = s
  BY SubSeqFull, Zenon
<1>4. QED
  BY <1>2, <1>3 DEF Split

\* A part that goes beyond the first piece.
LEMMA PartBehind ==
  ASSUME NEW m \in Nat, NEW a, Bytes(a, m), NEW b \in Seq(Int), NEW j \in 0 .. Len(b)
  PROVE  SubSeq(a \o b, 1, m + j) = a \o SubSeq(b, 1, j)
<1> DEFINE c == SubSeq(b, 1, j)
           u == a \o b
           v == a \o c
           d == SubSeq(u, 1, m + j)
<1>1. PICK n \in Nat : n = Len(b) /\ Bytes(b, n)
  BY BytesOf
<1>2. j \in Nat /\ j <= n /\ m + j \in Nat /\ m + n \in Nat
  BY <1>1
<1>3. c \in Seq(Int) /\ Len(c) = j /\ \A i \in 1 .. j : c[i] = b[i]
  BY <1>1, <1>2, SubSeqProperties
<1>4. Bytes(c, j)
  BY <1>3, Zenon DEF Bytes
<1>5. Joins(a, b, m, n)
  BY <1>1, Joined
<1>6. Joins(a, c, m, j)
  BY <1>2, <1>4, Joined
<1> HIDE DEF c
<1>7. /\ Bytes(u, m + n) /\ \A i \in 1 .. m : u[i] = a[i]
      /\ \A i \in 1 .. n : u[m + i] = b[i]
  BY <1>5, Zenon DEF Joins
<1>8. /\ Bytes(v, m + j) /\ \A i \in 1 .. m : v[i] = a[i]
      /\ \A i \in 1 .. j : v[m + i] = c[i]
  BY <1>6, Zenon DEF Joins
<1> HIDE DEF u, v
<1>9. u \in Seq(Int) /\ Len(u) = m + n
  BY <1>2, <1>7, ByteOf, Zenon
<1>10. v \in Seq(Int) /\ Len(v) = m + j
  BY <1>2, <1>8, ByteOf, Zenon
<1>11. d \in Seq(Int) /\ Len(d) = m + j /\ \A i \in 1 .. m + j : d[i] = u[i]
  BY <1>2, <1>9, SubSeqProperties
<1> HIDE DEF d
<1>12. ASSUME NEW i \in 1 .. m + j PROVE d[i] = v[i]
  <2>1. CASE i \in 1 .. m
    BY <1>7, <1>8, <1>11, <2>1
  <2>2. CASE i \notin 1 .. m
    <3>1. i - m \in 1 .. j /\ m + (i - m) = i /\ i - m \in 1 .. n
      BY <1>2, <2>2
    <3>2. u[i] = b[i - m] /\ v[i] = c[i - m]
      BY <1>7, <1>8, <3>1
    <3>3. QED
      BY <1>3, <1>11, <3>1, <3>2
  <2>3. QED
    BY <2>1, <2>2
<1>13. d = [i \in 1 .. m + j |-> d[i]] /\ v = [i \in 1 .. m + j |-> v[i]]
  BY <1>2, <1>10, <1>11
<1>14. d = v
  BY <1>12, <1>13, Zenon
<1>15. QED
  BY <1>14 DEF c, u, v, d

Row == [id : U16, name : Seq(1 .. 4)]
row_bytes(p) == be(p.id, 2) \o string(p.name)
row_read(p) == [id |-> p.id, name |-> kept(p.name)]

\* A name's bytes.
LEMMA StringBytes ==
  ASSUME NEW s \in Seq(1 .. 4)
  PROVE  string(s) \in Seq(Int)
<1>1. cut(s) \in Seq(Int) /\ Len(cut(s)) \in Int
  BY CutFits
<1>2. QED
  BY <1>1, FirstByte, Zenon DEF string

\* The parts of a row.
LEMMA RowParts ==
  ASSUME NEW p \in Row
  PROVE  /\ Bytes(be(p.id, 2), 2) /\ value(be(p.id, 2)) = p.id
         /\ p.name \in Seq(1 .. 4) /\ string(p.name) \in Seq(Int)
         /\ row_bytes(p) \in Seq(Int)
<1>1. p.id \in U16 /\ p.name \in Seq(1 .. 4)
  BY DEF Row
<1>2. Bytes(be(p.id, 2), 2) /\ value(be(p.id, 2)) = p.id /\ string(p.name) \in Seq(Int)
  BY <1>1, BeTwo, StringBytes, Zenon
<1>3. be(p.id, 2) \in Seq(Int)
  BY <1>2, Zenon DEF Bytes
<1>4. QED
  BY <1>1, <1>2, <1>3, JoinedThrice, Zenon DEF row_bytes

\* A player is read off his bytes.
LEMMA PlayerRead ==
  ASSUME NEW p \in Row, NEW x \in Seq(Int), NEW o
  PROVE  player([rest |-> row_bytes(p) \o x, out |-> o])
           = [rest |-> x, out |-> Append(Append(o, p.id), kept(p.name))]
<1> DEFINE a == be(p.id, 2)
           b == string(p.name)
           y == b \o x
           r == [rest |-> a \o y, out |-> o]
           q == [rest |-> y, out |-> Append(o, p.id)]
<1>1. Bytes(a, 2) /\ value(a) = p.id /\ p.name \in Seq(1 .. 4) /\ b \in Seq(Int)
  BY RowParts
<1>0. PICK m \in Nat : m = 2
  OBVIOUS
<1>2. a \in Seq(Int) /\ Bytes(a, m)
  BY <1>0, <1>1, Zenon DEF Bytes
<1> HIDE DEF a, b
<1>3. y \in Seq(Int) /\ (a \o b) \o x = a \o y
  BY <1>1, <1>2, JoinedThrice, ZenonT(40)
<1> HIDE DEF y
<1>4. number(r, m) = [rest |-> y, out |-> Append(o, value(a))]
  <2>1. Takes(m, a, value(a))
    BY <1>2, NumberTaken, Zenon
  <2>2. QED
    BY <1>3, <2>1, Zenon DEF Takes
<1>5. number(r, 2) = q
  BY <1>0, <1>1, <1>4, Zenon
<1>6. read_string(q) = [rest |-> x, out |-> Append(Append(o, p.id), kept(p.name))]
  BY <1>1, StringRead, Zenon DEF y, b
<1>7. ~failed(q)
  BY DEF failed
<1>8. player(r) = read_string(q)
  BY <1>5, <1>7, Zenon DEF player
<1>9. row_bytes(p) \o x = a \o y
  BY <1>3, Zenon DEF row_bytes, a, b
<1>10. QED
  BY <1>6, <1>8, <1>9, Zenon

\* A row cut short is an error.
LEMMA PlayerNeeds ==
  ASSUME NEW p \in Row, NEW k \in 0 .. Len(row_bytes(p)) - 1, NEW o
  PROVE  failed(player([rest |-> SubSeq(row_bytes(p), 1, k), out |-> o]))
<1> DEFINE a == be(p.id, 2)
           b == string(p.name)
           u == row_bytes(p)
           r == [rest |-> SubSeq(u, 1, k), out |-> o]
<1>0. PICK m \in Nat : m = 2
  OBVIOUS
<1>1. Bytes(a, m) /\ value(a) = p.id /\ p.name \in Seq(1 .. 4) /\ b \in Seq(Int)
  BY <1>0, RowParts, Zenon
<1>2. a \in Seq(Int) /\ Len(a) = m /\ Len(b) \in Nat /\ u = a \o b
  BY <1>1, LenProperties DEF Bytes, row_bytes
<1>3. Len(u) = m + Len(b)
  <2> HIDE DEF a, b, u
  <2>1. QED
    BY <1>1, <1>2, ConcatProperties
<1>k. k \in Nat /\ k < m + Len(b)
  <2>1. k \in 0 .. Len(u) - 1
    BY Zenon
  <2> HIDE DEF u, b
  <2>2. QED
    BY <1>2, <1>3, <2>1
<1>4. CASE k < m
  <2>1. k \in 0 .. m /\ k \in 0 .. Len(a) - 1
    <3> HIDE DEF a, u
    <3>1. QED
      BY <1>2, <1>4
  <2>2. SubSeq(u, 1, k) = SubSeq(a, 1, k)
    <3> HIDE DEF a, u, b
    <3>1. QED
      BY <1>1, <1>2, <2>1, Beginning, SMT
  <2>3. failed(number([rest |-> SubSeq(a, 1, k), out |-> o], m))
    <3> HIDE DEF a
    <3>1. Takes(m, a, value(a))
      BY <1>1, NumberTaken, Zenon
    <3>2. QED
      BY <2>1, <3>1, Zenon DEF Takes
  <2>4. failed(number(r, 2))
    BY <1>0, <2>2, <2>3, Zenon
  <2>5. player(r) = number(r, 2)
    BY <2>4, Zenon DEF player
  <2>6. QED
    BY <2>4, <2>5, Zenon
<1>5. CASE ~(k < m)
  <2> DEFINE j == k - m
             y == SubSeq(b, 1, j)
             q == [rest |-> y, out |-> Append(o, p.id)]
  <2>1. j \in 0 .. Len(b) /\ j \in 0 .. Len(b) - 1 /\ k = m + j
    <3> HIDE DEF u, b
    <3>1. QED
      BY <1>2, <1>k, <1>5
  <2> HIDE DEF j
  <2>2. SubSeq(u, 1, k) = a \o y
    <3> HIDE DEF a, u, b
    <3>1. SubSeq(a \o b, 1, m + j) = a \o SubSeq(b, 1, j)
      BY <1>1, <2>1, PartBehind, Zenon
    <3>2. QED
      BY <1>2, <2>1, <3>1, Zenon
  <2>3. y \in Seq(Int)
    BY <1>1, <2>1, PartOf
  <2>5. number([rest |-> a \o y, out |-> o], m) = [rest |-> y, out |-> Append(o, value(a))]
    <3> HIDE DEF y, a
    <3>1. Takes(m, a, value(a))
      BY <1>1, NumberTaken, Zenon
    <3>2. QED
      BY <2>3, <3>1, Zenon DEF Takes
  <2>6. number(r, 2) = q
    BY <1>0, <1>1, <2>2, <2>5, Zenon
  <2>7. failed(read_string(q))
    BY <1>1, <2>1, StringNeeds, Zenon
  <2>8. ~failed(q)
    BY DEF failed
  <2>9. player(r) = read_string(q)
    BY <2>6, <2>8, Zenon DEF player
  <2>10. QED
    BY <2>7, <2>9, Zenon
<1>6. QED
  BY <1>4, <1>5

\* The values read of the first players: each one's id and name.
Listing(v, n, pv) ==
  \A i \in 1 .. n : pv[2 * i - 1] = v[i].id /\ pv[2 * i] = kept(v[i].name)

\* There are such values.
LEMMA ListingExists ==
  ASSUME NEW v, NEW n \in Nat
  PROVE  \E pv : Listing(v, n, pv)
<1> DEFINE odd(j) == \E i \in 1 .. n : j = 2 * i - 1
           half(j) == CHOOSE i \in 1 .. n : j = 2 * i \/ j = 2 * i - 1
           pv == [j \in 1 .. 2 * n |->
                     IF odd(j) THEN v[half(j)].id ELSE kept(v[half(j)].name)]
<1>1. ASSUME NEW i \in 1 .. n
      PROVE  /\ odd(2 * i - 1) /\ half(2 * i - 1) = i
             /\ ~odd(2 * i) /\ half(2 * i) = i
  <2>1. odd(2 * i - 1)
    OBVIOUS
  <2>2. \A k \in 1 .. n : (2 * i - 1 = 2 * k \/ 2 * i - 1 = 2 * k - 1) <=> k = i
    OBVIOUS
  <2>3. \A k \in 1 .. n : (2 * i = 2 * k \/ 2 * i = 2 * k - 1) <=> k = i
    OBVIOUS
  <2>4. half(2 * i - 1) = i
    BY <2>2
  <2>5. half(2 * i) = i
    BY <2>3
  <2>6. ~odd(2 * i)
    OBVIOUS
  <2>7. QED
    BY <2>1, <2>4, <2>5, <2>6
<1> HIDE DEF odd, half
<1>2. ASSUME NEW i \in 1 .. n
      PROVE  pv[2 * i - 1] = v[i].id /\ pv[2 * i] = kept(v[i].name)
  <2>1. 2 * i - 1 \in 1 .. 2 * n /\ 2 * i \in 1 .. 2 * n
    OBVIOUS
  <2>2. QED
    BY <1>1, <2>1, Zenon
<1>3. QED
  BY <1>2, Zenon DEF Listing

Told(p) ==
  \A x \in Seq(Int) : \A o :
    player([rest |-> row_bytes(p) \o x, out |-> o])
      = [rest |-> x, out |-> Append(Append(o, p.id), kept(p.name))]

\* It is so for every row.
LEMMA PlayerTold ==
  ASSUME NEW p \in Row
  PROVE  Told(p)
BY PlayerRead, Zenon DEF Told

\* The rows are read one after the other.
LEMMA PlayersFollow ==
  ASSUME NEW n \in Nat, NEW v \in Seq(Row), Len(v) = n, NEW pv, Listing(v, n, pv),
         NEW p, p = [i \in 1 .. n |-> row_bytes(v[i])], NEW up,
         \A i \in 1 .. n : up[i] = another(up[i - 1])
  PROVE  \E out : /\ out[0] = <<>> /\ out[n] = FirstOf(pv, 2 * n)
                  /\ Follows(p, n, up, out) /\ Stops(p, n, up, out)
<1> DEFINE out == [i \in 0 .. n |-> FirstOf(pv, 2 * i)]
<1>0. \A i \in 1 .. n : v[i] \in Row /\ p[i] = row_bytes(v[i])
  BY ElementOfSeq
<1>1. out[0] = <<>> /\ out[n] = FirstOf(pv, 2 * n)
  BY DEF FirstOf
<1>2. ASSUME NEW i \in 1 .. n
      PROVE  out[i] = Append(Append(out[i - 1], v[i].id), kept(v[i].name))
  <2>1. /\ 2 * i \in Nat /\ 2 * i # 0 /\ 2 * i - 1 \in Nat /\ 2 * i - 1 # 0
        /\ (2 * i - 1) - 1 = 2 * (i - 1) /\ i \in 0 .. n /\ i - 1 \in 0 .. n
    OBVIOUS
  <2>2. FirstOf(pv, 2 * i) = Append(FirstOf(pv, 2 * i - 1), pv[2 * i])
    BY <2>1, FirstNext, Zenon
  <2>3. FirstOf(pv, 2 * i - 1) = Append(FirstOf(pv, (2 * i - 1) - 1), pv[2 * i - 1])
    BY <2>1, FirstNext, Zenon
  <2>4. pv[2 * i - 1] = v[i].id /\ pv[2 * i] = kept(v[i].name)
    BY Zenon DEF Listing
  <2>5. out[i] = FirstOf(pv, 2 * i) /\ out[i - 1] = FirstOf(pv, 2 * (i - 1))
    BY <2>1, Zenon
  <2>6. QED
    BY <2>1, <2>2, <2>3, <2>4, <2>5, Zenon
<1> HIDE DEF out
<1>3. ASSUME NEW i \in 1 .. n, NEW x \in Seq(Int),
             up[i - 1] = [rest |-> p[i] \o x, out |-> out[i - 1]]
      PROVE  up[i] = [rest |-> x, out |-> out[i]]
  <2>1. ~failed(up[i - 1])
    BY <1>3 DEF failed
  <2>2. up[i] = player(up[i - 1])
    BY <2>1, Zenon DEF another
  <2>3. up[i] = player([rest |-> row_bytes(v[i]) \o x, out |-> out[i - 1]])
    BY <1>0, <1>3, <2>2, Zenon
  <2>4. player([rest |-> row_bytes(v[i]) \o x, out |-> out[i - 1]])
          = [rest |-> x, out |-> Append(Append(out[i - 1], v[i].id), kept(v[i].name))]
    <3>1. Told(v[i])
      BY <1>0, PlayerTold, Zenon
    <3>2. QED
      BY <3>1, Zenon DEF Told
  <2>5. QED
    BY <1>2, <2>3, <2>4, Zenon
<1>4. ASSUME NEW i \in 1 .. n, NEW k \in 0 .. Len(p[i]) - 1,
             up[i - 1] = [rest |-> SubSeq(p[i], 1, k), out |-> out[i - 1]]
      PROVE  failed(up[i])
  <2>1. ~failed(up[i - 1])
    BY <1>4 DEF failed
  <2>2. up[i] = player(up[i - 1])
    BY <2>1, Zenon DEF another
  <2>3. up[i] = player([rest |-> SubSeq(row_bytes(v[i]), 1, k), out |-> out[i - 1]])
    BY <1>0, <1>4, <2>2, Zenon
  <2>4. v[i] \in Row /\ k \in 0 .. Len(row_bytes(v[i])) - 1
    BY <1>0, Zenon
  <2>5. failed(player([rest |-> SubSeq(row_bytes(v[i]), 1, k), out |-> out[i - 1]]))
    BY <2>4, PlayerNeeds, Zenon
  <2>6. QED
    BY <2>3, <2>5, Zenon
<1>5. ASSUME NEW i \in 1 .. n, failed(up[i - 1]) PROVE failed(up[i])
  <2>1. up[i] = up[i - 1]
    BY <1>5, Zenon DEF another
  <2>2. QED
    BY <1>5, <2>1, Zenon
<1>6. Follows(p, n, up, out) /\ Stops(p, n, up, out)
  BY <1>3, <1>4, <1>5, Zenon DEF Follows, Stops
<1>7. QED
  BY <1>1, <1>6, Zenon

\* The rows are pieces.
LEMMA RowPieces ==
  ASSUME NEW n \in Nat, NEW v \in Seq(Row), Len(v) = n,
         NEW p, p = [i \in 1 .. n |-> row_bytes(v[i])]
  PROVE  p \in Pieces /\ Len(p) = n
<1>1. \A i \in 1 .. n : row_bytes(v[i]) \in Seq(Int)
  BY RowParts, ElementOfSeq
<1>2. p \in [1 .. n -> Seq(Int)]
  BY <1>1
<1> DEFINE S == Seq(Int)
<1>3. p \in [1 .. n -> S]
  BY <1>2
<1> HIDE DEF S
<1>4. p \in Seq(S) /\ Len(p) = n
  BY <1>3
<1>5. QED
  BY <1>4 DEF S, Pieces

\* Read are all n rows and what follows them is left, or it is an error.
ListOrError(p, n, out) ==
  /\ \A y, x \in Seq(Int) : Split(y, FlattenSeq(p), x)
       => players_read([rest |-> y], n) = [rest |-> x, out |-> out]
  /\ \A y, z \in Seq(Int) : Split(FlattenSeq(p), y, z) /\ z # <<>>
       => failed(players_read([rest |-> y], n))

\* A list of players is read off its bytes.
LEMMA ListRead ==
  ASSUME NEW n \in Nat, NEW v \in Seq(Row), Len(v) = n, NEW pv, Listing(v, n, pv),
         NEW p, p = [i \in 1 .. n |-> row_bytes(v[i])]
  PROVE  ListOrError(p, n, FirstOf(pv, 2 * n))
<1>0. p \in Pieces /\ Len(p) = n
  BY RowPieces
<1>1. ASSUME NEW y \in Seq(Int)
      PROVE  \E u : /\ u[0] = Begun(y) /\ players_read([rest |-> y], n) = u[n]
                    /\ AllOrError(p, n, u, FirstOf(pv, 2 * n))
  <2> DEFINE r == [rest |-> y]
  <2>0. r.rest = y
    OBVIOUS
  <2> HIDE DEF r
  <2>1. PICK u : /\ u[0] = Begun(r.rest)
                 /\ \A i \in 1 .. n : u[i] = another(u[i - 1])
                 /\ players_read(r, n) = u[n]
    BY PlayersUnrolled, Zenon
  <2>2. PICK out : /\ out[0] = <<>> /\ out[n] = FirstOf(pv, 2 * n)
                   /\ Follows(p, n, u, out) /\ Stops(p, n, u, out)
    BY <2>1, PlayersFollow
  <2>3. AllOrError(p, n, u, out[n])
    BY <1>0, <2>2, ChainRead, Zenon
  <2>4. QED
    BY <2>0, <2>1, <2>2, <2>3, Zenon DEF r
<1>2. ASSUME NEW y \in Seq(Int), NEW x \in Seq(Int), Split(y, FlattenSeq(p), x)
      PROVE  players_read([rest |-> y], n) = [rest |-> x, out |-> FirstOf(pv, 2 * n)]
  <2>1. PICK u : /\ u[0] = Begun(y) /\ players_read([rest |-> y], n) = u[n]
                 /\ AllOrError(p, n, u, FirstOf(pv, 2 * n))
    BY <1>1, Zenon
  <2>2. QED
    BY <1>2, <2>1, Zenon DEF AllOrError
<1>3. ASSUME NEW y \in Seq(Int), NEW z \in Seq(Int), Split(FlattenSeq(p), y, z), z # <<>>
      PROVE  failed(players_read([rest |-> y], n))
  <2>1. PICK u : /\ u[0] = Begun(y) /\ players_read([rest |-> y], n) = u[n]
                 /\ AllOrError(p, n, u, FirstOf(pv, 2 * n))
    BY <1>1, Zenon
  <2>2. QED
    BY <1>3, <2>1, Zenon DEF AllOrError
<1>4. QED
  BY <1>2, <1>3, Zenon DEF ListOrError

\* As many rows as a full room and its host have.
Table == {v \in Seq(Row) : Len(v) <= MAX_CLIENTS + 1}

\* The bytes of a table: its length and its rows.
LEMMA TableBytes ==
  ASSUME NEW v \in Table
  PROVE  \E n \in Nat : \E p \in Pieces :
            /\ v \in Seq(Row) /\ Len(v) = n /\ n <= MAX_CLIENTS + 1
            /\ p = [i \in 1 .. n |-> row_bytes(v[i])]
            /\ players_bytes(v) = <<n>> \o FlattenSeq(p)
            /\ cut_names(v) = [i \in 1 .. n |-> row_read(v[i])]
<1>1. PICK n \in Nat : v \in Seq(Row) /\ Len(v) = n /\ n <= MAX_CLIENTS + 1 /\ DOMAIN v = 1 .. n
  BY LenProperties DEF Table
<1>2. n % 256 = n
  BY <1>1, PacketAssumption
<1> DEFINE p == [i \in 1 .. n |-> row_bytes(v[i])]
<1>3. p \in Pieces
  BY <1>1, RowPieces
<1>4. p = [i \in DOMAIN v |-> be(v[i].id, 2) \o string(v[i].name)]
  BY <1>1, Zenon DEF row_bytes
<1>5. players_bytes(v) = <<n>> \o FlattenSeq(p)
  BY <1>1, <1>2, <1>4, Zenon DEF players_bytes
<1>6. cut_names(v) = [i \in 1 .. n |-> row_read(v[i])]
  <2>1. \A i \in 1 .. n : v[i] \in Row
    BY <1>1, ElementOfSeq
  <2>2. \A r \in Row : [r EXCEPT !.name = kept(@)] = row_read(r)
    BY DEF Row, row_read
  <2>3. QED
    BY <1>1, <2>1, <2>2 DEF cut_names
<1> HIDE DEF p
<1>7. QED
  BY <1>1, <1>3, <1>5, <1>6, Zenon DEF p

\* A table is read, whatever follows it.
LEMMA PlayersRead ==
  ASSUME NEW v \in Table, NEW x \in Seq(Int), NEW o
  PROVE  read_players([rest |-> players_bytes(v) \o x, out |-> o])
           = [rest |-> x, out |-> Append(o, cut_names(v))]
<1>1. PICK n \in Nat, p \in Pieces :
            /\ v \in Seq(Row) /\ Len(v) = n /\ n <= MAX_CLIENTS + 1
            /\ p = [i \in 1 .. n |-> row_bytes(v[i])]
            /\ players_bytes(v) = <<n>> \o FlattenSeq(p)
            /\ cut_names(v) = [i \in 1 .. n |-> row_read(v[i])]
  BY TableBytes, Zenon
<1>2. PICK pv : Listing(v, n, pv)
  BY ListingExists
<1> DEFINE f == FlattenSeq(p)
           y == f \o x
           u == <<n>> \o y
           r == [rest |-> u, out |-> o]
<1>3. f \in Seq(Int)
  BY PiecesJoined, Zenon
<1> HIDE DEF f
<1>4. y \in Seq(Int) /\ Split(y, f, x)
  BY <1>3, JoinedThrice, Zenon DEF Split
<1>5. players_bytes(v) \o x = u
  <2>1. <<n>> \in Seq(Int)
    BY Single DEF Bytes
  <2>2. (<<n>> \o f) \o x = <<n>> \o (f \o x)
    <3> HIDE DEF y, u, r
    <3>1. QED
      BY <1>3, <2>1, JoinedThrice, Zenon
  <2>3. QED
    BY <1>1, <2>2, Zenon DEF f
<1> HIDE DEF y
<1>6. u[1] = n /\ u # <<>> /\ bytes_left(u, 1) = y
  BY <1>4, FirstByte
<1>7. r.rest = u /\ r.out = o
  OBVIOUS
<1> HIDE DEF u, r
<1> DEFINE ps == players_read([rest |-> y], n)
<1>l. ListOrError(p, n, FirstOf(pv, 2 * n))
  BY <1>1, <1>2, ListRead
<1>8. ps = [rest |-> x, out |-> FirstOf(pv, 2 * n)]
  BY <1>l, <1>4, Zenon DEF f, ListOrError
<1>9. ~failed(ps) /\ ps.rest = x /\ ps.out = FirstOf(pv, 2 * n)
  BY <1>8 DEF failed
<1> HIDE DEF ps
<1>10. [i \in 1 .. n |-> [id |-> ps.out[2 * i - 1], name |-> ps.out[2 * i]]] = cut_names(v)
  <2>1. ASSUME NEW i \in 1 .. n
        PROVE  [id |-> ps.out[2 * i - 1], name |-> ps.out[2 * i]] = row_read(v[i])
    <3>1. 2 * i - 1 \in 1 .. 2 * n /\ 2 * i \in 1 .. 2 * n
      OBVIOUS
    <3>2. ps.out[2 * i - 1] = pv[2 * i - 1] /\ ps.out[2 * i] = pv[2 * i]
      BY <1>9, <3>1, Zenon DEF FirstOf
    <3>3. pv[2 * i - 1] = v[i].id /\ pv[2 * i] = kept(v[i].name)
      BY <1>2, Zenon DEF Listing
    <3>4. QED
      BY <3>2, <3>3, Zenon DEF row_read
  <2>2. QED
    BY <1>1, <2>1, Zenon
<1>11. ~roster_limit(r)
  <2>1. r.rest[1] = n /\ n <= MAX_CLIENTS + 1
    BY <1>1, <1>6, <1>7, Zenon
  <2>2. QED
    BY <2>1, PacketAssumption DEF roster_limit
<1>12. read_players(r) = [rest |-> x, out |-> Append(o, cut_names(v))]
  BY <1>6, <1>7, <1>9, <1>10, <1>11, Zenon DEF read_players, ps
<1>13. QED
  BY <1>5, <1>12, Zenon DEF r

\* A table cut short is an error.
LEMMA PlayersNeed ==
  ASSUME NEW v \in Table, NEW k \in 0 .. Len(players_bytes(v)) - 1, NEW o
  PROVE  failed(read_players([rest |-> SubSeq(players_bytes(v), 1, k), out |-> o]))
<1>1. PICK n \in Nat, p \in Pieces :
            /\ v \in Seq(Row) /\ Len(v) = n /\ n <= MAX_CLIENTS + 1
            /\ p = [i \in 1 .. n |-> row_bytes(v[i])]
            /\ players_bytes(v) = <<n>> \o FlattenSeq(p)
            /\ cut_names(v) = [i \in 1 .. n |-> row_read(v[i])]
  BY TableBytes, Zenon
<1>2. PICK pv : Listing(v, n, pv)
  BY ListingExists
<1> DEFINE f == FlattenSeq(p)
           w == <<n>> \o f
           u == SubSeq(w, 1, k)
           r == [rest |-> u, out |-> o]
<1>3. f \in Seq(Int)
  BY PiecesJoined, Zenon
<1> HIDE DEF f
<1>4. Len(w) = 1 + Len(f) /\ Len(f) \in Nat
  BY <1>3, FirstByte
<1>5. players_bytes(v) = w
  BY <1>1, Zenon DEF f
<1>6. r.rest = u /\ r.out = o
  OBVIOUS
<1>7. CASE k = 0
  <2>1. u = <<>>
    BY <1>7
  <2> HIDE DEF u, r
  <2>2. read_players(r) = Err("Truncated")
    BY <1>6, <2>1, Zenon DEF read_players
  <2>3. QED
    BY <1>5, <2>2 DEF failed, Err, r, u
<1>8. CASE k # 0
  <2> DEFINE j == k - 1
             y == SubSeq(f, 1, j)
             z == SubSeq(f, k, Len(f))
  <2>0. k \in 0 .. Len(w) - 1
    BY <1>5, Zenon
  <2>1. j \in 0 .. Len(f) /\ k = 1 + j /\ j + 1 <= Len(f) /\ k \in 1 .. Len(f)
    <3> HIDE DEF w
    <3>1. QED
      BY <1>4, <1>8, <2>0
  <2> HIDE DEF j
  <2>2. y \in Seq(Int)
    BY <1>3, <2>1, PartOf
  <2>3. u = <<n>> \o y
    <3>1. PICK m \in Nat : m = 1
      OBVIOUS
    <3>2. Bytes(<<n>>, m)
      BY <3>1, Single
    <3>3. SubSeq(<<n>> \o f, 1, m + j) = <<n>> \o SubSeq(f, 1, j)
      <4> HIDE DEF w, u, r, y, z
      <4>1. QED
        BY <1>3, <2>1, <3>2, PartBehind, Zenon
    <3>4. QED
      BY <2>1, <3>1, <3>3
  <2>4. Split(f, y, z) /\ z \in Seq(Int) /\ z # <<>>
    <3>1. z \in Seq(Int) /\ Len(z) # 0
      BY <1>3, <1>4, <2>1, SubSeqProperties
    <3>2. Split(f, y, z)
      <4>1. PICK l \in Nat : l = Len(f)
        BY <1>4
      <4>2. j \in 0 .. l /\ k = j + 1
        BY <2>1, <4>1
      <4>3. Split(f, SubSeq(f, 1, j), SubSeq(f, k, l))
        <5> HIDE DEF f
        <5>1. QED
          BY <1>3, <4>1, <4>2, InTwo, Zenon
      <4>4. QED
        BY <4>1, <4>3, Zenon
    <3>3. QED
      BY <3>1, <3>2, EmptySeq
  <2> HIDE DEF y, z, u, r, w
  <2>5. u[1] = n /\ u # <<>> /\ bytes_left(u, 1) = y
    BY <2>2, <2>3, FirstByte
  <2> DEFINE ps == players_read([rest |-> y], n)
  <2>l. ListOrError(p, n, FirstOf(pv, 2 * n))
    BY <1>1, <1>2, ListRead
  <2>6. failed(ps)
    BY <2>l, <2>2, <2>4, Zenon DEF f, ListOrError
  <2> HIDE DEF ps
  <2>7. ~roster_limit(r)
    <3>1. r.rest[1] = n /\ n <= MAX_CLIENTS + 1
      BY <1>1, <1>6, <2>5, Zenon
    <3>2. QED
      BY <3>1, PacketAssumption DEF roster_limit
  <2>8. read_players(r) = ps
    BY <1>6, <2>5, <2>6, <2>7, Zenon DEF read_players, ps
  <2>9. QED
    BY <1>5, <2>6, <2>8, Zenon DEF r, u
<1>9. QED
  BY <1>7, <1>8

-----------------------------------------------------------------------------
(* The fields: every kind.                                                 *)

\* What the code puts into a field of that kind, the bytes it is, and what arrives.
Fits(kind, v) ==
  \/ kind = "u8" /\ v \in 0 .. 255
  \/ kind = "u16" /\ v \in U16
  \/ kind = "u32" /\ v \in U32
  \/ kind = "u64" /\ v \in U64
  \/ kind = "code" /\ Bytes(v, ROOM_CODE_LEN)
  \/ kind = "codec" /\ v \in DOMAIN Codec
  \/ kind = "reason" /\ v \in DOMAIN DenyReason
  \/ kind = "string" /\ v \in Seq(1 .. 4)
  \/ kind = "players" /\ v \in Table
encoded(kind, v) ==
  CASE kind = "u8" -> <<v>>
    [] kind = "u16" -> be(v, 2)
    [] kind = "u32" -> be(v, 4)
    [] kind = "u64" -> be64(v)
    [] kind = "code" -> v
    [] kind = "codec" -> <<Codec[v]>>
    [] kind = "reason" -> <<DenyReason[v]>>
    [] kind = "string" -> string(v)
    [] kind = "players" -> players_bytes(v)
arrives(kind, v) ==
  CASE kind = "string" -> kept(v)
    [] kind = "players" -> cut_names(v)
    [] OTHER -> v

\* The reader of each kind of field.
LEMMA Dispatch ==
  ASSUME NEW x, NEW o
  PROVE  LET r == [rest |-> x, out |-> o] IN
         /\ read_field(r, "u8") = number(r, 1)
         /\ read_field(r, "u16") = number(r, 2)
         /\ read_field(r, "u32") = number(r, 4)
         /\ read_field(r, "u64") = number(r, 8)
         /\ read_field(r, "code") = room_code(r)
         /\ read_field(r, "codec") = variant(r, Codec, "BadCodec")
         /\ read_field(r, "reason") = variant(r, DenyReason, "BadDenyReason")
         /\ read_field(r, "string") = read_string(r)
         /\ read_field(r, "players") = read_players(r)
<1> DEFINE r == [rest |-> x, out |-> o]
<1>1. ~failed(r)
  BY DEF failed
<1>2. DOMAIN Width = {"u8", "u16", "u32", "u64"}
  BY DEF Width
<1>3. Width["u8"] = 1 /\ Width["u16"] = 2 /\ Width["u32"] = 4 /\ Width["u64"] = 8
  BY DEF Width
<1> HIDE DEF r
<1>4. read_field(r, "u8") = number(r, 1) /\ read_field(r, "u16") = number(r, 2)
  BY <1>1, <1>2, <1>3 DEF read_field
<1>5. read_field(r, "u32") = number(r, 4) /\ read_field(r, "u64") = number(r, 8)
  BY <1>1, <1>2, <1>3 DEF read_field
<1>6. /\ read_field(r, "code") = room_code(r)
      /\ read_field(r, "codec") = variant(r, Codec, "BadCodec")
      /\ read_field(r, "reason") = variant(r, DenyReason, "BadDenyReason")
  BY <1>1, <1>2 DEF read_field
<1>7. /\ read_field(r, "string") = read_string(r)
      /\ read_field(r, "players") = read_players(r)
  BY <1>1, <1>2 DEF read_field
<1>8. QED
  BY <1>4, <1>5, <1>6, <1>7 DEF r

\* It reads what the reader of that kind reads.
LEMMA NumberField ==
  ASSUME NEW kind, NEW m \in Nat, NEW s \in Seq(Int), NEW v, Takes(m, s, v),
         \A x, o : read_field([rest |-> x, out |-> o], kind) = number([rest |-> x, out |-> o], m)
  PROVE  Reads(kind, s, v) /\ Needs(kind, s)
<1>1. ASSUME NEW x \in Seq(Int), NEW o
      PROVE  read_field([rest |-> s \o x, out |-> o], kind) = [rest |-> x, out |-> Append(o, v)]
  <2>1. read_field([rest |-> s \o x, out |-> o], kind) = number([rest |-> s \o x, out |-> o], m)
    OBVIOUS
  <2>2. number([rest |-> s \o x, out |-> o], m) = [rest |-> x, out |-> Append(o, v)]
    BY Zenon DEF Takes
  <2>3. QED
    BY <2>1, <2>2, Zenon
<1>2. ASSUME NEW k \in 0 .. Len(s) - 1, NEW o
      PROVE  failed(read_field([rest |-> SubSeq(s, 1, k), out |-> o], kind))
  <2>1. read_field([rest |-> SubSeq(s, 1, k), out |-> o], kind)
          = number([rest |-> SubSeq(s, 1, k), out |-> o], m)
    OBVIOUS
  <2>2. failed(number([rest |-> SubSeq(s, 1, k), out |-> o], m))
    BY Zenon DEF Takes
  <2>3. QED
    BY <2>1, <2>2, Zenon
<1>3. QED
  BY <1>1, <1>2, Zenon DEF Reads, Needs

CodeTaken(s) ==
  \A x \in Seq(Int) : \A o :
    room_code([rest |-> s \o x, out |-> o]) = [rest |-> x, out |-> Append(o, s)]
StringTaken(s) ==
  \A x \in Seq(Int) : \A o :
    read_string([rest |-> string(s) \o x, out |-> o]) = [rest |-> x, out |-> Append(o, kept(s))]
PlayersTaken(v) ==
  \A x \in Seq(Int) : \A o :
    read_players([rest |-> players_bytes(v) \o x, out |-> o])
      = [rest |-> x, out |-> Append(o, cut_names(v))]

\* It is so for every room code,
LEMMA CodeTakes ==
  ASSUME NEW s, Bytes(s, ROOM_CODE_LEN)
  PROVE  CodeTaken(s)
BY CodeRead, Zenon DEF CodeTaken

\* every name
LEMMA StringTakes ==
  ASSUME NEW s \in Seq(1 .. 4)
  PROVE  StringTaken(s)
BY StringRead, Zenon DEF StringTaken

\* and every table.
LEMMA PlayersTake ==
  ASSUME NEW v \in Table
  PROVE  PlayersTaken(v)
BY PlayersRead, Zenon DEF PlayersTaken

\* A codec or a reason as a field,
LEMMA VariantField ==
  ASSUME NEW kind, NEW enum, NEW why, NEW v, enum[v] \in Int, named(enum, enum[v]) = {v},
         \A x, o : read_field([rest |-> x, out |-> o], kind)
                     = variant([rest |-> x, out |-> o], enum, why)
  PROVE  Reads(kind, <<enum[v]>>, v) /\ Needs(kind, <<enum[v]>>)
<1>1. ASSUME NEW x \in Seq(Int), NEW o
      PROVE  read_field([rest |-> <<enum[v]>> \o x, out |-> o], kind)
               = [rest |-> x, out |-> Append(o, v)]
  <2>1. read_field([rest |-> <<enum[v]>> \o x, out |-> o], kind)
          = variant([rest |-> <<enum[v]>> \o x, out |-> o], enum, why)
    OBVIOUS
  <2>2. variant([rest |-> <<enum[v]>> \o x, out |-> o], enum, why)
          = [rest |-> x, out |-> Append(o, v)]
    <3>1. VariantTaken(enum, why, v)
      BY VariantRead, Zenon
    <3>2. QED
      BY <3>1, Zenon DEF VariantTaken
  <2>3. QED
    BY <2>1, <2>2, Zenon
<1>2. ASSUME NEW k \in 0 .. Len(<<enum[v]>>) - 1, NEW o
      PROVE  failed(read_field([rest |-> SubSeq(<<enum[v]>>, 1, k), out |-> o], kind))
  <2> DEFINE b == enum[v]
  <2>1. read_field([rest |-> SubSeq(<<b>>, 1, k), out |-> o], kind)
          = variant([rest |-> SubSeq(<<b>>, 1, k), out |-> o], enum, why)
    OBVIOUS
  <2>2. b \in Int /\ k \in 0 .. Len(<<b>>) - 1
    OBVIOUS
  <2> HIDE DEF b
  <2>3. failed(variant([rest |-> SubSeq(<<b>>, 1, k), out |-> o], enum, why))
    BY <2>2, VariantNeeds, Zenon
  <2>4. QED
    BY <2>1, <2>3, Zenon DEF b
<1>3. QED
  BY <1>1, <1>2, Zenon DEF Reads, Needs

\* a room code,
LEMMA CodeField ==
  ASSUME NEW s, Bytes(s, ROOM_CODE_LEN)
  PROVE  Reads("code", s, s) /\ Needs("code", s)
<1>1. ASSUME NEW x \in Seq(Int), NEW o
      PROVE  read_field([rest |-> s \o x, out |-> o], "code") = [rest |-> x, out |-> Append(o, s)]
  <2>1. CodeTaken(s)
    BY CodeTakes, Zenon
  <2>2. room_code([rest |-> s \o x, out |-> o]) = [rest |-> x, out |-> Append(o, s)]
    BY <2>1, Zenon DEF CodeTaken
  <2>3. read_field([rest |-> s \o x, out |-> o], "code") = room_code([rest |-> s \o x, out |-> o])
    BY Dispatch
  <2>4. QED
    BY <2>2, <2>3, Zenon
<1>2. ASSUME NEW k \in 0 .. Len(s) - 1, NEW o
      PROVE  failed(read_field([rest |-> SubSeq(s, 1, k), out |-> o], "code"))
  BY CodeNeeds, Dispatch
<1>3. QED
  BY <1>1, <1>2, Zenon DEF Reads, Needs

\* a name
LEMMA StringField ==
  ASSUME NEW s \in Seq(1 .. 4)
  PROVE  Reads("string", string(s), kept(s)) /\ Needs("string", string(s))
<1>1. ASSUME NEW x \in Seq(Int), NEW o
      PROVE  read_field([rest |-> string(s) \o x, out |-> o], "string")
               = [rest |-> x, out |-> Append(o, kept(s))]
  <2>1. StringTaken(s)
    BY StringTakes, Zenon
  <2>2. read_string([rest |-> string(s) \o x, out |-> o]) = [rest |-> x, out |-> Append(o, kept(s))]
    BY <2>1, Zenon DEF StringTaken
  <2>3. read_field([rest |-> string(s) \o x, out |-> o], "string") = read_string([rest |-> string(s) \o x, out |-> o])
    BY Dispatch
  <2>4. QED
    BY <2>2, <2>3, Zenon
<1>2. ASSUME NEW k \in 0 .. Len(string(s)) - 1, NEW o
      PROVE  failed(read_field([rest |-> SubSeq(string(s), 1, k), out |-> o], "string"))
  BY StringNeeds, Dispatch
<1>3. QED
  BY <1>1, <1>2, Zenon DEF Reads, Needs

\* and a table.
LEMMA PlayersField ==
  ASSUME NEW v \in Table
  PROVE  Reads("players", players_bytes(v), cut_names(v)) /\ Needs("players", players_bytes(v))
<1>1. ASSUME NEW x \in Seq(Int), NEW o
      PROVE  read_field([rest |-> players_bytes(v) \o x, out |-> o], "players")
               = [rest |-> x, out |-> Append(o, cut_names(v))]
  <2>1. PlayersTaken(v)
    BY PlayersTake, Zenon
  <2>2. read_players([rest |-> players_bytes(v) \o x, out |-> o]) = [rest |-> x, out |-> Append(o, cut_names(v))]
    BY <2>1, Zenon DEF PlayersTaken
  <2>3. read_field([rest |-> players_bytes(v) \o x, out |-> o], "players") = read_players([rest |-> players_bytes(v) \o x, out |-> o])
    BY Dispatch
  <2>4. QED
    BY <2>2, <2>3, Zenon
<1>2. ASSUME NEW k \in 0 .. Len(players_bytes(v)) - 1, NEW o
      PROVE  failed(read_field([rest |-> SubSeq(players_bytes(v), 1, k), out |-> o], "players"))
  BY PlayersNeed, Dispatch
<1>3. QED
  BY <1>1, <1>2, Zenon DEF Reads, Needs

\* A field of any kind is read off its bytes.
LEMMA FieldRead ==
  ASSUME NEW kind, NEW v, Fits(kind, v)
  PROVE  /\ encoded(kind, v) \in Seq(Int)
         /\ Reads(kind, encoded(kind, v), arrives(kind, v))
         /\ Needs(kind, encoded(kind, v))
<1> DEFINE Goal == /\ encoded(kind, v) \in Seq(Int)
                   /\ Reads(kind, encoded(kind, v), arrives(kind, v))
                   /\ Needs(kind, encoded(kind, v))
<1>1. CASE kind = "u8" /\ v \in 0 .. 255
  <2>1. PICK m \in Nat : m = 1
    OBVIOUS
  <2>2. v \in Int
    BY <1>1
  <2>3. PICK s : s = <<v>> /\ Bytes(s, m) /\ s[1] = v
    BY <2>1, <2>2, Single
  <2>4. s \in Seq(Int) /\ value(s) = v
    <3>1. PICK f : Unrolls(s, m, f)
      BY <2>3, ValueUnrolled, Zenon
    <3>2. value(s) = f[m] /\ f[0] = 0 /\ \A k \in 1 .. m : f[k] = f[k - 1] * 256 + s[k]
      BY <3>1, Zenon DEF Unrolls
    <3>3. f[1] = f[0] * 256 + s[1]
      BY <2>1, <3>2
    <3>4. value(s) = v
      BY <2>1, <2>2, <2>3, <3>2, <3>3
    <3>5. QED
      BY <2>3, <3>4 DEF Bytes
  <2>5. Takes(m, s, v)
    BY <2>3, <2>4, NumberTaken, Zenon
  <2>6. encoded(kind, v) = s /\ arrives(kind, v) = v
    BY <1>1, <2>3 DEF encoded, arrives
  <2>7. \A x, o : read_field([rest |-> x, out |-> o], kind) = number([rest |-> x, out |-> o], m)
    BY <1>1, <2>1, Dispatch, Zenon
  <2>8. QED
    BY <2>4, <2>5, <2>6, <2>7, NumberField
<1>2. CASE kind = "u16" /\ v \in U16
  <2>1. PICK m \in Nat : m = 2
    OBVIOUS
  <2>2. PICK s : s = be(v, 2)
    OBVIOUS
  <2>3. Bytes(s, m) /\ value(s) = v
    BY <1>2, <2>1, <2>2, BeTwo, Zenon
  <2>4. s \in Seq(Int) /\ Takes(m, s, v)
    BY <2>3, NumberTaken, Zenon DEF Bytes
  <2>6. encoded(kind, v) = s /\ arrives(kind, v) = v
    BY <1>2, <2>2 DEF encoded, arrives
  <2>7. \A x, o : read_field([rest |-> x, out |-> o], kind) = number([rest |-> x, out |-> o], m)
    BY <1>2, <2>1, Dispatch, Zenon
  <2>8. QED
    BY <2>4, <2>6, <2>7, NumberField
<1>3. CASE kind = "u32" /\ v \in U32
  <2>1. PICK m \in Nat : m = 4
    OBVIOUS
  <2>2. PICK s : s = be(v, 4)
    OBVIOUS
  <2>3. Bytes(s, m) /\ value(s) = v
    BY <1>3, <2>1, <2>2, BeFour, Zenon
  <2>4. s \in Seq(Int) /\ Takes(m, s, v)
    BY <2>3, NumberTaken, Zenon DEF Bytes
  <2>6. encoded(kind, v) = s /\ arrives(kind, v) = v
    BY <1>3, <2>2 DEF encoded, arrives
  <2>7. \A x, o : read_field([rest |-> x, out |-> o], kind) = number([rest |-> x, out |-> o], m)
    BY <1>3, <2>1, Dispatch, Zenon
  <2>8. QED
    BY <2>4, <2>6, <2>7, NumberField
<1>4. CASE kind = "u64" /\ v \in U64
  <2>1. PICK m \in Nat : m = 8
    OBVIOUS
  <2>2. PICK s : s = be64(v)
    OBVIOUS
  <2>3. Bytes(s, m) /\ value(s) = v
    BY <1>4, <2>1, <2>2, BeEight, Zenon
  <2>4. s \in Seq(Int) /\ Takes(m, s, v)
    BY <2>3, NumberTaken, Zenon DEF Bytes
  <2>6. encoded(kind, v) = s /\ arrives(kind, v) = v
    BY <1>4, <2>2 DEF encoded, arrives
  <2>7. \A x, o : read_field([rest |-> x, out |-> o], kind) = number([rest |-> x, out |-> o], m)
    BY <1>4, <2>1, Dispatch, Zenon
  <2>8. QED
    BY <2>4, <2>6, <2>7, NumberField
<1>5. CASE kind = "code" /\ Bytes(v, ROOM_CODE_LEN)
  <2>1. v \in Seq(Int)
    BY <1>5 DEF Bytes
  <2>2. encoded(kind, v) = v /\ arrives(kind, v) = v
    BY <1>5 DEF encoded, arrives
  <2>3. Reads("code", v, v) /\ Needs("code", v)
    BY <1>5, CodeField, Zenon
  <2>4. QED
    BY <1>5, <2>1, <2>2, <2>3, Zenon
<1>6. CASE kind = "codec" /\ v \in DOMAIN Codec
  <2>1. Codec[v] \in Int /\ named(Codec, Codec[v]) = {v}
    BY <1>6, CodecNamed
  <2>2. <<Codec[v]>> \in Seq(Int)
    BY <2>1, Single DEF Bytes
  <2>3. encoded(kind, v) = <<Codec[v]>> /\ arrives(kind, v) = v
    BY <1>6 DEF encoded, arrives
  <2>4. \A x, o : read_field([rest |-> x, out |-> o], kind)
                    = variant([rest |-> x, out |-> o], Codec, "BadCodec")
    BY <1>6, Dispatch, Zenon
  <2>5. Reads(kind, <<Codec[v]>>, v) /\ Needs(kind, <<Codec[v]>>)
    BY <2>1, <2>4, VariantField
  <2>6. QED
    BY <2>2, <2>3, <2>5, Zenon
<1>7. CASE kind = "reason" /\ v \in DOMAIN DenyReason
  <2>1. DenyReason[v] \in Int /\ named(DenyReason, DenyReason[v]) = {v}
    BY <1>7, ReasonNamed
  <2>2. <<DenyReason[v]>> \in Seq(Int)
    BY <2>1, Single DEF Bytes
  <2>3. encoded(kind, v) = <<DenyReason[v]>> /\ arrives(kind, v) = v
    BY <1>7 DEF encoded, arrives
  <2>4. \A x, o : read_field([rest |-> x, out |-> o], kind)
                    = variant([rest |-> x, out |-> o], DenyReason, "BadDenyReason")
    BY <1>7, Dispatch, Zenon
  <2>5. Reads(kind, <<DenyReason[v]>>, v) /\ Needs(kind, <<DenyReason[v]>>)
    BY <2>1, <2>4, VariantField
  <2>6. QED
    BY <2>2, <2>3, <2>5, Zenon
<1>8. CASE kind = "string" /\ v \in Seq(1 .. 4)
  <2>1. string(v) \in Seq(Int)
    BY <1>8, StringBytes
  <2>2. encoded(kind, v) = string(v) /\ arrives(kind, v) = kept(v)
    BY <1>8 DEF encoded, arrives
  <2>3. Reads("string", string(v), kept(v)) /\ Needs("string", string(v))
    BY <1>8, StringField, Zenon
  <2>4. QED
    BY <1>8, <2>1, <2>2, <2>3, Zenon
<1>9. CASE kind = "players" /\ v \in Table
  <2>1. players_bytes(v) \in Seq(Int)
    <3>1. PICK n \in Nat, p \in Pieces : players_bytes(v) = <<n>> \o FlattenSeq(p)
      BY <1>9, TableBytes, Zenon
    <3>2. FlattenSeq(p) \in Seq(Int) /\ n \in Int
      BY PiecesJoined
    <3>3. QED
      BY <3>1, <3>2, FirstByte, Zenon
  <2>2. encoded(kind, v) = players_bytes(v) /\ arrives(kind, v) = cut_names(v)
    BY <1>9 DEF encoded, arrives
  <2>3. Reads("players", players_bytes(v), cut_names(v)) /\ Needs("players", players_bytes(v))
    BY <1>9, PlayersField, Zenon
  <2>4. QED
    BY <1>9, <2>1, <2>2, <2>3, Zenon
<1>10. QED
  BY <1>1, <1>2, <1>3, <1>4, <1>5, <1>6, <1>7, <1>8, <1>9, Zenon DEF Fits

-----------------------------------------------------------------------------
(* The control packets.                                                    *)

ControlTypes == {"Hello", "Welcome", "Deny", "Ping", "Pong", "Roster", "Ack", "Keepalive", "Bye"}

\* What is known of a field: its name is not that of the type or of an error, and only
\* players' names are cut.
Named(f) ==
  /\ f[1] # "type" /\ f[1] # "err"
  /\ f[2] = "players" <=> f[1] \in {"roster", "players"}
  /\ f[2] = "string" <=> f[1] = "name"

FieldsAre(type, n) ==
  /\ Len(fields(type)) = n /\ DOMAIN fields(type) = 1 .. n
  /\ \A i \in 1 .. n : Named(fields(type)[i])

\* The fields of each type of packet.
LEMMA FieldsHello == FieldsAre("Hello", 5)
<1> DEFINE fs == fields("Hello")
<1>1. fs = <<<<"proto_version", "u8">>, <<"room_code", "code">>, <<"name", "string">>,
             <<"codec_mask", "u8">>, <<"frame_mask", "u8">>>>
  BY DEF fields
<1> HIDE DEF fs
<1>2. Len(fs) = 5 /\ DOMAIN fs = 1 .. 5
  BY <1>1
<1>3. Named(fs[1]) /\ Named(fs[2]) /\ Named(fs[3]) /\ Named(fs[4]) /\ Named(fs[5])
  BY <1>1 DEF Named
<1>4. \A i \in 1 .. 5 : i = 1 \/ i = 2 \/ i = 3 \/ i = 4 \/ i = 5
  OBVIOUS
<1>5. QED
  BY <1>2, <1>3, <1>4, Zenon DEF FieldsAre, fs

LEMMA FieldsWelcome == FieldsAre("Welcome", 6)
<1> DEFINE fs == fields("Welcome")
<1>1. fs = <<<<"assigned_id", "u16">>, <<"session_id", "u16">>, <<"sample_rate", "u32">>,
             <<"frame_samples", "u16">>, <<"codec", "codec">>, <<"roster", "players">>>>
  BY DEF fields
<1> HIDE DEF fs
<1>2. Len(fs) = 6 /\ DOMAIN fs = 1 .. 6
  BY <1>1
<1>3. /\ Named(fs[1]) /\ Named(fs[2]) /\ Named(fs[3]) /\ Named(fs[4]) /\ Named(fs[5])
      /\ Named(fs[6])
  BY <1>1 DEF Named
<1>4. \A i \in 1 .. 6 : i = 1 \/ i = 2 \/ i = 3 \/ i = 4 \/ i = 5 \/ i = 6
  OBVIOUS
<1>5. QED
  BY <1>2, <1>3, <1>4, Zenon DEF FieldsAre, fs

LEMMA FieldsPong == FieldsAre("Pong", 3)
<1> DEFINE fs == fields("Pong")
<1>1. fs = <<<<"t1_us", "u64">>, <<"t2_us", "u64">>, <<"t3_us", "u64">>>>
  BY DEF fields
<1> HIDE DEF fs
<1>2. Len(fs) = 3 /\ DOMAIN fs = 1 .. 3
  BY <1>1
<1>3. Named(fs[1]) /\ Named(fs[2]) /\ Named(fs[3])
  BY <1>1 DEF Named
<1>4. \A i \in 1 .. 3 : i = 1 \/ i = 2 \/ i = 3
  OBVIOUS
<1>5. QED
  BY <1>2, <1>3, <1>4, Zenon DEF FieldsAre, fs

LEMMA FieldsAck == FieldsAre("Ack", 2)
<1> DEFINE fs == fields("Ack")
<1>1. fs = <<<<"acked_seq", "u16">>, <<"acked_type", "u8">>>>
  BY DEF fields
<1> HIDE DEF fs
<1>2. Len(fs) = 2 /\ DOMAIN fs = 1 .. 2
  BY <1>1
<1>3. Named(fs[1]) /\ Named(fs[2])
  BY <1>1 DEF Named
<1>4. \A i \in 1 .. 2 : i = 1 \/ i = 2
  OBVIOUS
<1>5. QED
  BY <1>2, <1>3, <1>4, Zenon DEF FieldsAre, fs

LEMMA FieldsOne == FieldsAre("Deny", 1) /\ FieldsAre("Ping", 1) /\ FieldsAre("Roster", 1)
<1>1. /\ fields("Deny") = <<<<"reason", "reason">>>>
      /\ fields("Ping") = <<<<"t1_us", "u64">>>>
      /\ fields("Roster") = <<<<"players", "players">>>>
  BY DEF fields
<1>2. ASSUME NEW type, NEW f, fields(type) = <<f>>, Named(f) PROVE FieldsAre(type, 1)
  BY <1>2 DEF FieldsAre
<1>3. Named(<<"reason", "reason">>) /\ Named(<<"t1_us", "u64">>) /\ Named(<<"players", "players">>)
  BY DEF Named
<1>4. QED
  BY <1>1, <1>2, <1>3

LEMMA FieldsNone == FieldsAre("Keepalive", 0) /\ FieldsAre("Bye", 0)
<1>1. fields("Keepalive") = <<>> /\ fields("Bye") = <<>>
  BY DEF fields
<1>2. QED
  BY <1>1 DEF FieldsAre

\* What a part of the program hands to the writer: of one of the types, with its fields
\* and nothing else, each of which fits into its bytes.
Message(c) ==
  /\ c.type \in ControlTypes
  /\ c = [x \in DOMAIN c |-> c[x]]
  /\ DOMAIN c = {"type"} \cup {fields(c.type)[i][1] : i \in DOMAIN fields(c.type)}
  /\ \A i \in DOMAIN fields(c.type) : Fits(fields(c.type)[i][2], c[fields(c.type)[i][1]])

\* The pieces of its body.
Piece(c, i) == encoded(fields(c.type)[i][2], c[fields(c.type)[i][1]])

\* Up to six pieces, joined.
LEMMA FlattenFew ==
  ASSUME NEW n \in Nat, NEW p \in Pieces, Len(p) = n
  PROVE  /\ n = 0 => FlattenSeq(p) = <<>>
         /\ n = 1 => FlattenSeq(p) = p[1]
         /\ n = 2 => FlattenSeq(p) = p[1] \o p[2]
         /\ n = 3 => FlattenSeq(p) = p[1] \o p[2] \o p[3]
         /\ n = 5 => FlattenSeq(p) = p[1] \o p[2] \o p[3] \o p[4] \o p[5]
         /\ n = 6 => FlattenSeq(p) = p[1] \o p[2] \o p[3] \o p[4] \o p[5] \o p[6]
<1>1. PICK f : Flattens(p, n, f)
  BY FlattenUnrolled
<1>2. FlattenSeq(p) = f[n] /\ f[0] = <<>> /\ \A i \in 1 .. n : f[i] = f[i - 1] \o p[i]
  BY <1>1, Zenon DEF Flattens
<1>3. \A i \in 1 .. n : p[i] \in Seq(Int)
  BY DEF Pieces
<1>4. n >= 1 => f[1] = p[1]
  <2>1. SUFFICES ASSUME n >= 1 PROVE f[1] = p[1]
    OBVIOUS
  <2>2. 1 \in 1 .. n /\ 1 - 1 = 0
    BY <2>1
  <2>3. f[1] = <<>> \o p[1] /\ p[1] \in Seq(Int)
    BY <1>2, <1>3, <2>2, Zenon
  <2>4. QED
    BY <2>3, ConcatEmptySeq, Zenon
<1>5. n >= 2 => f[2] = f[1] \o p[2]
  <2>1. n >= 2 => 2 \in 1 .. n /\ 2 - 1 = 1
    OBVIOUS
  <2>2. QED
    BY <1>2, <2>1, Zenon
<1>6. n >= 3 => f[3] = f[2] \o p[3]
  <2>1. n >= 3 => 3 \in 1 .. n /\ 3 - 1 = 2
    OBVIOUS
  <2>2. QED
    BY <1>2, <2>1, Zenon
<1>7. n >= 4 => f[4] = f[3] \o p[4]
  <2>1. n >= 4 => 4 \in 1 .. n /\ 4 - 1 = 3
    OBVIOUS
  <2>2. QED
    BY <1>2, <2>1, Zenon
<1>8. n >= 5 => f[5] = f[4] \o p[5]
  <2>1. n >= 5 => 5 \in 1 .. n /\ 5 - 1 = 4
    OBVIOUS
  <2>2. QED
    BY <1>2, <2>1, Zenon
<1>9. n >= 6 => f[6] = f[5] \o p[6]
  <2>1. n >= 6 => 6 \in 1 .. n /\ 6 - 1 = 5
    OBVIOUS
  <2>2. QED
    BY <1>2, <2>1, Zenon
<1>10. n = 0 => FlattenSeq(p) = <<>>
  BY <1>2, Zenon
<1>11. n = 1 => FlattenSeq(p) = p[1]
  <2>1. n = 1 => n >= 1
    OBVIOUS
  <2>2. QED
    BY <1>2, <1>4, <2>1, Zenon
<1>12. n >= 2 => f[2] = p[1] \o p[2]
  <2>1. n >= 2 => n >= 1
    OBVIOUS
  <2>2. QED
    BY <1>4, <1>5, <2>1, Zenon
<1>13. n >= 3 => f[3] = p[1] \o p[2] \o p[3]
  <2>1. n >= 3 => n >= 2
    OBVIOUS
  <2>2. QED
    BY <1>6, <1>12, <2>1, Zenon
<1>14. n >= 5 => f[5] = p[1] \o p[2] \o p[3] \o p[4] \o p[5]
  <2>1. n >= 5 => n >= 4 /\ n >= 3
    OBVIOUS
  <2>2. n >= 5 => f[4] = p[1] \o p[2] \o p[3] \o p[4]
    BY <1>7, <1>13, <2>1, Zenon
  <2>3. QED
    BY <1>8, <2>2, Zenon
<1>15. n >= 6 => f[6] = p[1] \o p[2] \o p[3] \o p[4] \o p[5] \o p[6]
  <2>1. n >= 6 => n >= 5
    OBVIOUS
  <2>2. QED
    BY <1>9, <1>14, <2>1, Zenon
<1>16. (n = 2 => n >= 2) /\ (n = 3 => n >= 3) /\ (n = 5 => n >= 5) /\ (n = 6 => n >= 6)
  OBVIOUS
<1>17. n = 2 => FlattenSeq(p) = p[1] \o p[2]
  BY <1>2, <1>12, <1>16, Zenon
<1>18. n = 3 => FlattenSeq(p) = p[1] \o p[2] \o p[3]
  BY <1>2, <1>13, <1>16, Zenon
<1>19. n = 5 => FlattenSeq(p) = p[1] \o p[2] \o p[3] \o p[4] \o p[5]
  BY <1>2, <1>14, <1>16, Zenon
<1>20. n = 6 => FlattenSeq(p) = p[1] \o p[2] \o p[3] \o p[4] \o p[5] \o p[6]
  BY <1>2, <1>15, <1>16, Zenon
<1>21. QED
  BY <1>10, <1>11, <1>17, <1>18, <1>19, <1>20, Zenon

\* Every control packet's fields are known.
LEMMA TypeFields ==
  ASSUME NEW type \in ControlTypes
  PROVE  \E n \in Nat : FieldsAre(type, n)
<1>1. 0 \in Nat /\ 1 \in Nat /\ 2 \in Nat /\ 3 \in Nat /\ 5 \in Nat /\ 6 \in Nat
  OBVIOUS
<1>2. QED
  BY <1>1, FieldsHello, FieldsWelcome, FieldsPong, FieldsAck, FieldsOne, FieldsNone, Zenon
     DEF ControlTypes

\* What arrives of a field.
LEMMA FieldArrives ==
  ASSUME NEW c, Message(c), NEW n \in Nat, FieldsAre(c.type, n), NEW i \in 1 .. n
  PROVE  LET x == fields(c.type)[i][1]
             k == fields(c.type)[i][2]
         IN  /\ x \in DOMAIN c /\ Fits(k, c[x])
             /\ Arrived(c)[x] = arrives(k, c[x])
<1> DEFINE x == fields(c.type)[i][1]
           k == fields(c.type)[i][2]
<1>1. i \in DOMAIN fields(c.type) /\ Named(fields(c.type)[i])
  BY DEF FieldsAre
<1>2. x \in DOMAIN c /\ Fits(k, c[x])
  BY <1>1, Zenon DEF Message
<1>3. x # "type" /\ (k = "players" <=> x \in {"roster", "players"}) /\ (k = "string" <=> x = "name")
  BY <1>1, Zenon DEF Named
<1> HIDE DEF x, k
<1>4. Arrived(c)[x] = IF x \in {"roster", "players"} THEN cut_names(c[x])
                      ELSE IF x = "name" THEN kept(c[x]) ELSE c[x]
  BY <1>2, Zenon DEF Arrived
<1>5. Arrived(c)[x] = arrives(k, c[x])
  <2>1. CASE k = "players"
    BY <1>3, <1>4, <2>1 DEF arrives
  <2>2. CASE k = "string"
    BY <1>3, <1>4, <2>2 DEF arrives
  <2>3. CASE k # "players" /\ k # "string"
    BY <1>3, <1>4, <2>3 DEF arrives
  <2>4. QED
    BY <2>1, <2>2, <2>3
<1>6. QED
  BY <1>2, <1>5, Zenon DEF x, k

\* Every field of a message is read and needed.
LEMMA MessagePieces ==
  ASSUME NEW c, Message(c), NEW n \in Nat, FieldsAre(c.type, n),
         NEW p, p = [i \in 1 .. n |-> Piece(c, i)],
         NEW kinds, kinds = [i \in 1 .. n |-> fields(c.type)[i][2]],
         NEW val, val = [i \in 1 .. n |-> Arrived(c)[fields(c.type)[i][1]]]
  PROVE  p \in Pieces /\ Len(p) = n /\ Lays(kinds, p, val, n)
<1>1. ASSUME NEW i \in 1 .. n
      PROVE  Piece(c, i) \in Seq(Int) /\ Reads(kinds[i], p[i], val[i]) /\ Needs(kinds[i], p[i])
  <2> DEFINE x == fields(c.type)[i][1]
             k == fields(c.type)[i][2]
  <2>1. Fits(k, c[x]) /\ Arrived(c)[x] = arrives(k, c[x])
    BY FieldArrives
  <2>2. p[i] = Piece(c, i) /\ kinds[i] = k /\ val[i] = Arrived(c)[x]
    BY Zenon
  <2>3. Piece(c, i) = encoded(k, c[x])
    BY Zenon DEF Piece
  <2> HIDE DEF x, k
  <2>4. /\ encoded(k, c[x]) \in Seq(Int)
        /\ Reads(k, encoded(k, c[x]), arrives(k, c[x]))
        /\ Needs(k, encoded(k, c[x]))
    BY <2>1, FieldRead, Zenon
  <2>5. QED
    BY <2>1, <2>2, <2>3, <2>4, Zenon
<1>2. Lays(kinds, p, val, n)
  BY <1>1, Zenon DEF Lays
<1> DEFINE S == Seq(Int)
<1>3. p \in [1 .. n -> S]
  BY <1>1
<1> HIDE DEF S
<1>4. p \in Seq(S) /\ Len(p) = n
  BY <1>3
<1>5. QED
  BY <1>2, <1>4 DEF S, Pieces

\* The bytes of each kind of field.
LEMMA WrittenAs ==
  \A v : /\ encoded("u8", v) = <<v>> /\ encoded("u16", v) = be(v, 2)
         /\ encoded("u32", v) = be(v, 4) /\ encoded("u64", v) = be64(v)
         /\ encoded("code", v) = v /\ encoded("codec", v) = <<Codec[v]>>
         /\ encoded("reason", v) = <<DenyReason[v]>> /\ encoded("string", v) = string(v)
         /\ encoded("players", v) = players_bytes(v)
BY DEF encoded

\* The bytes of a field.
LEMMA PieceIs ==
  ASSUME NEW c, NEW i, NEW x, NEW k, fields(c.type)[i] = <<x, k>>
  PROVE  Piece(c, i) = encoded(k, c[x])
<1>1. fields(c.type)[i][1] = x /\ fields(c.type)[i][2] = k
  OBVIOUS
<1>2. QED
  BY <1>1, Zenon DEF Piece

\* The writer lays out the fields in the order in which the reader takes them.
LEMMA BodyLayout ==
  ASSUME NEW c, Message(c), NEW n \in Nat, FieldsAre(c.type, n),
         NEW p \in Pieces, Len(p) = n, p = [i \in 1 .. n |-> Piece(c, i)]
  PROVE  body_bytes(c) = FlattenSeq(p)
<1>f. /\ n = 0 => FlattenSeq(p) = <<>>
      /\ n = 1 => FlattenSeq(p) = p[1]
      /\ n = 2 => FlattenSeq(p) = p[1] \o p[2]
      /\ n = 3 => FlattenSeq(p) = p[1] \o p[2] \o p[3]
      /\ n = 5 => FlattenSeq(p) = p[1] \o p[2] \o p[3] \o p[4] \o p[5]
      /\ n = 6 => FlattenSeq(p) = p[1] \o p[2] \o p[3] \o p[4] \o p[5] \o p[6]
  BY FlattenFew
<1>n. \A m : FieldsAre(c.type, m) => n = m
  BY Zenon DEF FieldsAre
<1>1. CASE c.type = "Hello"
  <2>1. n = 5
    BY <1>1, <1>n, FieldsHello
  <2>2. fields(c.type) = <<<<"proto_version", "u8">>, <<"room_code", "code">>,
             <<"name", "string">>, <<"codec_mask", "u8">>, <<"frame_mask", "u8">>>>
    BY <1>1 DEF fields
  <2>3. /\ p[1] = <<c.proto_version>> /\ p[2] = c.room_code /\ p[3] = string(c.name)
        /\ p[4] = <<c.codec_mask>> /\ p[5] = <<c.frame_mask>>
    <3>1. /\ fields(c.type)[1] = <<"proto_version", "u8">>
          /\ fields(c.type)[2] = <<"room_code", "code">>
          /\ fields(c.type)[3] = <<"name", "string">>
          /\ fields(c.type)[4] = <<"codec_mask", "u8">>
          /\ fields(c.type)[5] = <<"frame_mask", "u8">>
      BY <2>2
    <3>2. /\ Piece(c, 1) = encoded("u8", c.proto_version)
          /\ Piece(c, 2) = encoded("code", c.room_code)
          /\ Piece(c, 3) = encoded("string", c.name)
          /\ Piece(c, 4) = encoded("u8", c.codec_mask)
          /\ Piece(c, 5) = encoded("u8", c.frame_mask)
      BY <3>1, PieceIs
    <3>3. 1 \in 1 .. n /\ 2 \in 1 .. n /\ 3 \in 1 .. n /\ 4 \in 1 .. n /\ 5 \in 1 .. n
      BY <2>1
    <3>4. p[1] = Piece(c, 1) /\ p[2] = Piece(c, 2) /\ p[3] = Piece(c, 3) /\ p[4] = Piece(c, 4) /\ p[5] = Piece(c, 5)
      BY <3>3, Zenon
    <3>5. QED
      BY <3>2, <3>4, WrittenAs, Zenon
  <2>4. \A i \in 1 .. 5 : p[i] \in Seq(Int)
    BY <2>1 DEF Pieces
  <2>5. p[1] \in Seq(Int) /\ p[2] \in Seq(Int) /\ p[3] \in Seq(Int) /\ p[4] \in Seq(Int) /\ p[5] \in Seq(Int)
    BY <2>4
  <2>6. body_bytes(c) = <<c.proto_version>> \o c.room_code \o string(c.name)
                             \o <<c.codec_mask, c.frame_mask>>
    BY <1>1 DEF body_bytes
  <2>7. <<c.codec_mask, c.frame_mask>> = <<c.codec_mask>> \o <<c.frame_mask>>
    OBVIOUS
  <2>8. PICK q : q = p[1] \o p[2] \o p[3]
    OBVIOUS
  <2>9. q \in Seq(Int)
    <3>1. PICK t : t = p[1] \o p[2] /\ t \in Seq(Int)
      BY <2>5, JoinedThrice, Zenon
    <3>2. QED
      BY <2>5, <2>8, <3>1, JoinedThrice, Zenon
  <2>10. (q \o p[4]) \o p[5] = q \o (p[4] \o p[5])
    BY <2>5, <2>9, JoinedThrice, ZenonT(40)
  <2>11. body_bytes(c) = q \o (p[4] \o p[5])
    BY <2>3, <2>6, <2>7, <2>8, Zenon
  <2>12. FlattenSeq(p) = (q \o p[4]) \o p[5]
    BY <1>f, <2>1, <2>8, Zenon
  <2>13. QED
    BY <2>10, <2>11, <2>12, Zenon
<1>2. CASE c.type = "Welcome"
  <2>1. n = 6
    BY <1>2, <1>n, FieldsWelcome
  <2>2. fields(c.type) = <<<<"assigned_id", "u16">>, <<"session_id", "u16">>,
             <<"sample_rate", "u32">>, <<"frame_samples", "u16">>, <<"codec", "codec">>,
             <<"roster", "players">>>>
    BY <1>2 DEF fields
  <2>3. /\ p[1] = be(c.assigned_id, 2) /\ p[2] = be(c.session_id, 2)
        /\ p[3] = be(c.sample_rate, 4) /\ p[4] = be(c.frame_samples, 2)
        /\ p[5] = <<Codec[c.codec]>> /\ p[6] = players_bytes(c.roster)
    <3>1. /\ fields(c.type)[1] = <<"assigned_id", "u16">>
          /\ fields(c.type)[2] = <<"session_id", "u16">>
          /\ fields(c.type)[3] = <<"sample_rate", "u32">>
          /\ fields(c.type)[4] = <<"frame_samples", "u16">>
          /\ fields(c.type)[5] = <<"codec", "codec">>
          /\ fields(c.type)[6] = <<"roster", "players">>
      BY <2>2
    <3>2. /\ Piece(c, 1) = encoded("u16", c.assigned_id)
          /\ Piece(c, 2) = encoded("u16", c.session_id)
          /\ Piece(c, 3) = encoded("u32", c.sample_rate)
          /\ Piece(c, 4) = encoded("u16", c.frame_samples)
          /\ Piece(c, 5) = encoded("codec", c.codec)
          /\ Piece(c, 6) = encoded("players", c.roster)
      <4>1. Piece(c, 1) = encoded("u16", c.assigned_id)
        BY <3>1, PieceIs
      <4>2. Piece(c, 2) = encoded("u16", c.session_id)
        BY <3>1, PieceIs
      <4>3. Piece(c, 3) = encoded("u32", c.sample_rate)
        BY <3>1, PieceIs
      <4>4. Piece(c, 4) = encoded("u16", c.frame_samples)
        BY <3>1, PieceIs
      <4>5. Piece(c, 5) = encoded("codec", c.codec)
        BY <3>1, PieceIs
      <4>6. Piece(c, 6) = encoded("players", c.roster)
        BY <3>1, PieceIs
      <4>7. QED
        BY <4>1, <4>2, <4>3, <4>4, <4>5, <4>6, Zenon
    <3>3. 1 \in 1 .. n /\ 2 \in 1 .. n /\ 3 \in 1 .. n /\ 4 \in 1 .. n /\ 5 \in 1 .. n /\ 6 \in 1 .. n
      BY <2>1
    <3>4. p[1] = Piece(c, 1) /\ p[2] = Piece(c, 2) /\ p[3] = Piece(c, 3) /\ p[4] = Piece(c, 4) /\ p[5] = Piece(c, 5) /\ p[6] = Piece(c, 6)
      BY <3>3, Zenon
    <3>5. QED
      BY <3>2, <3>4, WrittenAs, Zenon
  <2>4. body_bytes(c) = welcome_bytes(c)
    BY <1>2 DEF body_bytes
  <2>5. welcome_bytes(c) = p[1] \o p[2] \o p[3] \o p[4] \o p[5] \o p[6]
    BY <2>3, Zenon DEF welcome_bytes
  <2>6. FlattenSeq(p) = p[1] \o p[2] \o p[3] \o p[4] \o p[5] \o p[6]
    BY <1>f, <2>1, Zenon
  <2>7. QED
    BY <2>4, <2>5, <2>6, Zenon
<1>3. CASE c.type \in {"Deny", "Ping", "Roster"}
  <2>1. n = 1
    BY <1>3, <1>n, FieldsOne
  <2>p. p[1] = Piece(c, 1)
    BY <2>1
  <2>2. body_bytes(c) = p[1]
    <3>1. CASE c.type = "Deny"
      <4>1. fields(c.type)[1] = <<"reason", "reason">> /\ body_bytes(c) = <<DenyReason[c.reason]>>
        BY <3>1 DEF fields, body_bytes
      <4>2. QED
        BY <2>p, <4>1, PieceIs, WrittenAs
    <3>2. CASE c.type = "Ping"
      <4>1. fields(c.type)[1] = <<"t1_us", "u64">> /\ body_bytes(c) = be64(c.t1_us)
        BY <3>2 DEF fields, body_bytes
      <4>2. QED
        BY <2>p, <4>1, PieceIs, WrittenAs
    <3>3. CASE c.type = "Roster"
      <4>1. /\ fields(c.type)[1] = <<"players", "players">>
            /\ body_bytes(c) = players_bytes(c.players)
        BY <3>3 DEF fields, body_bytes
      <4>2. QED
        BY <2>p, <4>1, PieceIs, WrittenAs
    <3>4. QED
      BY <1>3, <3>1, <3>2, <3>3
  <2>3. QED
    BY <1>f, <2>1, <2>2, Zenon
<1>4. CASE c.type = "Pong"
  <2>1. n = 3
    BY <1>4, <1>n, FieldsPong
  <2>2. fields(c.type) = <<<<"t1_us", "u64">>, <<"t2_us", "u64">>, <<"t3_us", "u64">>>>
    BY <1>4 DEF fields
  <2>3. p[1] = be64(c.t1_us) /\ p[2] = be64(c.t2_us) /\ p[3] = be64(c.t3_us)
    <3>1. /\ fields(c.type)[1] = <<"t1_us", "u64">>
          /\ fields(c.type)[2] = <<"t2_us", "u64">>
          /\ fields(c.type)[3] = <<"t3_us", "u64">>
      BY <2>2
    <3>2. /\ Piece(c, 1) = encoded("u64", c.t1_us)
          /\ Piece(c, 2) = encoded("u64", c.t2_us)
          /\ Piece(c, 3) = encoded("u64", c.t3_us)
      BY <3>1, PieceIs
    <3>3. 1 \in 1 .. n /\ 2 \in 1 .. n /\ 3 \in 1 .. n
      BY <2>1
    <3>4. p[1] = Piece(c, 1) /\ p[2] = Piece(c, 2) /\ p[3] = Piece(c, 3)
      BY <3>3, Zenon
    <3>5. QED
      BY <3>2, <3>4, WrittenAs, Zenon
  <2>4. body_bytes(c) = be64(c.t1_us) \o be64(c.t2_us) \o be64(c.t3_us)
    BY <1>4 DEF body_bytes
  <2>5. QED
    BY <1>f, <2>1, <2>3, <2>4, Zenon
<1>5. CASE c.type = "Ack"
  <2>1. n = 2
    BY <1>5, <1>n, FieldsAck
  <2>2. fields(c.type) = <<<<"acked_seq", "u16">>, <<"acked_type", "u8">>>>
    BY <1>5 DEF fields
  <2>3. p[1] = be(c.acked_seq, 2) /\ p[2] = <<c.acked_type>>
    <3>1. /\ fields(c.type)[1] = <<"acked_seq", "u16">>
          /\ fields(c.type)[2] = <<"acked_type", "u8">>
      BY <2>2
    <3>2. /\ Piece(c, 1) = encoded("u16", c.acked_seq)
          /\ Piece(c, 2) = encoded("u8", c.acked_type)
      BY <3>1, PieceIs
    <3>3. 1 \in 1 .. n /\ 2 \in 1 .. n
      BY <2>1
    <3>4. p[1] = Piece(c, 1) /\ p[2] = Piece(c, 2)
      BY <3>3, Zenon
    <3>5. QED
      BY <3>2, <3>4, WrittenAs, Zenon
  <2>4. body_bytes(c) = be(c.acked_seq, 2) \o <<c.acked_type>>
    BY <1>5 DEF body_bytes
  <2>5. QED
    BY <1>f, <2>1, <2>3, <2>4, Zenon
<1>6. CASE c.type \in {"Keepalive", "Bye"}
  <2>1. n = 0
    BY <1>6, <1>n, FieldsNone
  <2>2. body_bytes(c) = <<>>
    BY <1>6 DEF body_bytes
  <2>3. QED
    BY <1>f, <2>1, <2>2, Zenon
<1>7. QED
  BY <1>1, <1>2, <1>3, <1>4, <1>5, <1>6 DEF Message, ControlTypes

\* Read is the packet that was written, and neither more bytes nor fewer.
Whole(type, b, q) ==
  /\ b \in Seq(Int) /\ parse_control(type, b) = q
  /\ \A t \in Seq(Int) : t # <<>> => failed(parse_control(type, b \o t))
  /\ \A w, z \in Seq(Int) : Split(b, w, z) /\ z # <<>> => failed(parse_control(type, w))

\* A message's body is read whole or not at all.
LEMMA MessageRead ==
  ASSUME NEW c, Message(c)
  PROVE  Whole(c.type, body_bytes(c), Arrived(c)) /\ ~failed(Arrived(c))
<1>1. PICK n \in Nat : FieldsAre(c.type, n)
  BY TypeFields DEF Message
<1>2. PICK p : p = [i \in 1 .. n |-> Piece(c, i)]
  OBVIOUS
<1>3. PICK kinds : kinds = [i \in 1 .. n |-> fields(c.type)[i][2]]
  OBVIOUS
<1> DEFINE q == Arrived(c)
<1>4. PICK val : val = [i \in 1 .. n |-> q[fields(c.type)[i][1]]]
  OBVIOUS
<1>5. p \in Pieces /\ Len(p) = n /\ Lays(kinds, p, val, n)
  BY <1>1, <1>2, <1>3, <1>4, MessagePieces
<1>6. body_bytes(c) = FlattenSeq(p)
  BY <1>1, <1>2, <1>5, BodyLayout
<1>7. n = Len(fields(c.type)) /\ DOMAIN fields(c.type) = 1 .. n
      /\ \A i \in 1 .. n : Named(fields(c.type)[i])
  BY <1>1, Zenon DEF FieldsAre
<1>8. \A i \in 1 .. n : kinds[i] = fields(c.type)[i][2]
  BY <1>3
<1>d. DOMAIN q = DOMAIN c
  BY DEF Arrived
<1>9. /\ q = [x \in DOMAIN q |-> q[x]]
      /\ DOMAIN q = {"type"} \cup {fields(c.type)[i][1] : i \in 1 .. n}
      /\ q["type"] = c.type
  <2>2. q = [x \in DOMAIN q |-> q[x]]
    BY DEF Arrived
  <2>3. DOMAIN c = {"type"} \cup {fields(c.type)[i][1] : i \in 1 .. n}
    BY <1>7, Zenon DEF Message
  <2>4. q["type"] = c["type"]
    BY <2>3 DEF Arrived
  <2>5. QED
    BY <1>d, <2>2, <2>3, <2>4
<1>10. \A i \in 1 .. n : q[fields(c.type)[i][1]] = val[i]
  BY <1>4
<1>11. ~failed(q)
  <2>1. \A i \in 1 .. n : fields(c.type)[i][1] # "err"
    BY <1>7, Zenon DEF Named
  <2>2. "err" \notin {fields(c.type)[i][1] : i \in 1 .. n}
    BY <2>1, Zenon
  <2>3. "err" \notin DOMAIN q
    BY <1>9, <2>2
  <2>4. QED
    BY <2>3, Zenon DEF failed
<1> HIDE DEF q
<1>12. PICK type : type = c.type
  OBVIOUS
<1>13. ReadOutcome(type, [rest |-> <<>>, out |-> FirstOf(val, n)]) = q
  <2>1. /\ DOMAIN fields(type) = 1 .. n
        /\ DOMAIN q = {"type"} \cup {fields(type)[i][1] : i \in 1 .. n}
        /\ q["type"] = type
        /\ \A i \in 1 .. n : q[fields(type)[i][1]] = val[i]
    BY <1>7, <1>9, <1>10, <1>12
  <2>2. MadeOf(q, type, n, val)
    BY <1>9, <2>1, Zenon DEF MadeOf
  <2>3. QED
    BY <2>2, OutcomeIs, Zenon
<1>14. BodyOrError(type, p, FirstOf(val, n))
  <2>1. n = Len(fields(type)) /\ \A i \in 1 .. n : kinds[i] = fields(type)[i][2]
    BY <1>7, <1>8, <1>12, Zenon
  <2>2. QED
    BY <1>5, <2>1, BodyRead, Zenon
<1>15. FlattenSeq(p) \in Seq(Int)
  BY <1>5, PiecesJoined, Zenon
<1>16. Whole(type, FlattenSeq(p), q)
  BY <1>13, <1>14, <1>15, Zenon DEF Whole, BodyOrError
<1>17. QED
  BY <1>6, <1>11, <1>12, <1>16, Zenon DEF q

\* A control packet is not audio.
LEMMA ControlType ==
  ASSUME NEW t \in ControlTypes
  PROVE  t \in DOMAIN PacketType /\ t # "Audio"
BY DEF ControlTypes, PacketType

\* The header of a control packet.
control_header(c, session_id, sender_id, seq) ==
  [ptype |-> c.type, session_id |-> session_id, sender_id |-> sender_id, seq |-> seq]

\* The parts of a control datagram, and how they are read.
LEMMA ControlParts ==
  ASSUME NEW c, Message(c), NEW session_id \in U16, NEW sender_id \in U16, NEW seq \in U16
  PROVE  LET h == control_header(c, session_id, sender_id, seq)
         IN  /\ Header(h)
             /\ write_control(c, session_id, sender_id, seq) = header_bytes(h) \o body_bytes(c)
             /\ \A b \in Seq(Int) :
                  parse_datagram(header_bytes(h) \o b)
                    = IF failed(parse_control(c.type, b)) THEN parse_control(c.type, b)
                      ELSE [header |-> h, payload |-> parse_control(c.type, b)]
<1> DEFINE h == control_header(c, session_id, sender_id, seq)
<1>1. c.type \in DOMAIN PacketType /\ c.type # "Audio"
  BY ControlType DEF Message
<1>2. /\ h.ptype = c.type /\ h.session_id = session_id /\ h.sender_id = sender_id /\ h.seq = seq
      /\ h = [ptype |-> h.ptype, session_id |-> h.session_id, sender_id |-> h.sender_id,
              seq |-> h.seq]
      /\ ~failed(h)
  BY DEF control_header, failed
<1>3. Header(h)
  BY <1>1, <1>2 DEF Header
<1>4. write_control(c, session_id, sender_id, seq) = header_bytes(h) \o body_bytes(c)
  BY Zenon DEF write_control, control_header
<1> HIDE DEF h
<1>5. ASSUME NEW b \in Seq(Int)
      PROVE  parse_datagram(header_bytes(h) \o b)
               = IF failed(parse_control(c.type, b)) THEN parse_control(c.type, b)
                 ELSE [header |-> h, payload |-> parse_control(c.type, b)]
  <2>1. PICK u : u = header_bytes(h) \o b
    OBVIOUS
  <2>2. parse_header(u) = h /\ bytes_left(u, HEADER_LEN) = b
    BY <1>2, <1>3, <2>1, HeaderRead
  <2>3. parse_datagram(u)
          = IF failed(parse_control(c.type, b)) THEN parse_control(c.type, b)
            ELSE [header |-> h, payload |-> parse_control(c.type, b)]
    BY <1>1, <1>2, <2>2, Zenon DEF parse_datagram
  <2>4. QED
    BY <2>1, <2>3, Zenon
<1>6. QED
  BY <1>3, <1>4, <1>5, Zenon DEF h

\* A control packet is read as it was written, but for the names, which are cut.
THEOREM ControlFaithful ==
  ASSUME NEW c, Message(c), NEW session_id \in U16, NEW sender_id \in U16, NEW seq \in U16
  PROVE  parse_datagram(write_control(c, session_id, sender_id, seq)) =
            [header |-> [ptype |-> c.type, session_id |-> session_id,
                         sender_id |-> sender_id, seq |-> seq],
             payload |-> Arrived(c)]
<1> DEFINE h == control_header(c, session_id, sender_id, seq)
<1>1. /\ write_control(c, session_id, sender_id, seq) = header_bytes(h) \o body_bytes(c)
      /\ \A b \in Seq(Int) :
           parse_datagram(header_bytes(h) \o b)
             = IF failed(parse_control(c.type, b)) THEN parse_control(c.type, b)
               ELSE [header |-> h, payload |-> parse_control(c.type, b)]
  BY ControlParts
<1> HIDE DEF h
<1>2. Whole(c.type, body_bytes(c), Arrived(c)) /\ ~failed(Arrived(c))
  BY MessageRead, Zenon
<1>3. body_bytes(c) \in Seq(Int) /\ parse_control(c.type, body_bytes(c)) = Arrived(c)
  BY <1>2, Zenon DEF Whole
<1>4. parse_datagram(header_bytes(h) \o body_bytes(c)) = [header |-> h, payload |-> Arrived(c)]
  BY <1>1, <1>2, <1>3, Zenon
<1>5. QED
  BY <1>1, <1>4, Zenon DEF h, control_header

\* No part of a control packet is a packet, nor is one with a byte behind it.
THEOREM ControlWhole ==
  ASSUME NEW c, Message(c), NEW session_id \in U16, NEW sender_id \in U16, NEW seq \in U16
  PROVE  OnlyWhole(write_control(c, session_id, sender_id, seq))
<1> DEFINE h == control_header(c, session_id, sender_id, seq)
           hb == header_bytes(h)
           body == body_bytes(c)
           buf == write_control(c, session_id, sender_id, seq)
           pc(b) == parse_control(c.type, b)
<1>1. /\ Header(h)
      /\ buf = hb \o body
      /\ \A b \in Seq(Int) :
           parse_datagram(hb \o b)
             = IF failed(pc(b)) THEN pc(b) ELSE [header |-> h, payload |-> pc(b)]
  BY ControlParts
<1> HIDE DEF h, buf
<1>2. PICK m \in Nat : m = 8
  OBVIOUS
<1>3. Bytes(hb, m)
  BY <1>1, <1>2, HeaderLayout
<1>4. Whole(c.type, body, Arrived(c))
  BY MessageRead, Zenon
<1> HIDE DEF hb, body
<1>5. /\ body \in Seq(Int)
      /\ \A t \in Seq(Int) : t # <<>> => failed(pc(body \o t))
      /\ \A w, z \in Seq(Int) : Split(body, w, z) /\ z # <<>> => failed(pc(w))
  BY <1>4, Zenon DEF Whole
<1> HIDE DEF pc
<1>6. hb \in Seq(Int) /\ Len(hb) = m /\ Len(body) \in Nat
  BY <1>3, <1>5, LenProperties DEF Bytes
<1>7. Len(buf) = m + Len(body)
  BY <1>1, <1>5, <1>6, ConcatProperties
<1>8. ASSUME NEW b \in Seq(Int), failed(pc(b)) PROVE failed(parse_datagram(hb \o b))
  BY <1>1, <1>8, Zenon
<1>9. ASSUME NEW n \in 0 .. Len(buf) - 1 PROVE failed(parse_datagram(SubSeq(buf, 1, n)))
  <2>1. CASE n < m
    <3>1. n \in 0 .. m
      BY <2>1
    <3>2. SubSeq(buf, 1, n) = SubSeq(hb, 1, n)
      BY <1>1, <1>3, <1>5, <3>1, Beginning, Zenon
    <3>3. Len(SubSeq(hb, 1, n)) = n
      BY <1>6, <3>1, PartOf
    <3>4. Len(SubSeq(buf, 1, n)) < HEADER_LEN
      BY <1>2, <2>1, <3>2, <3>3 DEF HEADER_LEN
    <3>5. parse_header(SubSeq(buf, 1, n)) = Err("Truncated")
      BY <3>4, Zenon DEF parse_header
    <3>6. failed(Err("Truncated"))
      BY DEF failed, Err
    <3>7. QED
      BY <3>5, <3>6, Zenon DEF parse_datagram
  <2>2. CASE ~(n < m)
    <3> DEFINE j == n - m
               w == SubSeq(body, 1, j)
               z == SubSeq(body, j + 1, Len(body))
    <3>1. j \in 0 .. Len(body) /\ n = m + j /\ j + 1 <= Len(body) /\ j + 1 \in 1 .. Len(body)
      BY <1>6, <1>7, <2>2
    <3> HIDE DEF j
    <3>2. SubSeq(buf, 1, n) = hb \o w
      <4>1. SubSeq(hb \o body, 1, m + j) = hb \o SubSeq(body, 1, j)
        BY <1>3, <1>5, <3>1, PartBehind, Zenon
      <4>2. QED
        BY <1>1, <3>1, <4>1, Zenon
    <3>3. w \in Seq(Int)
      BY <1>5, <3>1, PartOf
    <3>4. z \in Seq(Int) /\ z # <<>>
      <4>1. z \in Seq(Int) /\ Len(z) # 0
        BY <1>5, <1>6, <3>1, SubSeqProperties
      <4>2. QED
        BY <4>1, EmptySeq
    <3>5. Split(body, w, z)
      <4>1. PICK l \in Nat : l = Len(body)
        BY <1>6
      <4>2. j \in 0 .. l
        BY <3>1, <4>1
      <4>3. Split(body, SubSeq(body, 1, j), SubSeq(body, j + 1, l))
        <5> HIDE DEF body, w, z
        <5>1. PICK k : k = j + 1
          OBVIOUS
        <5>2. Split(body, SubSeq(body, 1, j), SubSeq(body, k, l))
          BY <1>5, <4>1, <4>2, <5>1, InTwo, Zenon
        <5>3. QED
          BY <5>1, <5>2, Zenon
      <4>4. QED
        BY <4>1, <4>3, Zenon
    <3> HIDE DEF w, z
    <3>6. failed(pc(w))
      BY <1>5, <3>3, <3>4, <3>5, Zenon
    <3>7. QED
      BY <1>8, <3>2, <3>3, <3>6, Zenon
  <2>3. QED
    BY <2>1, <2>2
<1>10. ASSUME NEW b \in {0, 1, CONT} PROVE failed(parse_datagram(Append(buf, b)))
  <2>1. b \in Int
    BY DEF CONT
  <2>2. PICK t : t = <<b>> /\ t \in Seq(Int) /\ t # <<>>
    BY <2>1, Single DEF Bytes
  <2>3. buf \in Seq(Int)
    BY <1>1, <1>5, <1>6, JoinedThrice, Zenon
  <2>4. Append(buf, b) = buf \o t
    BY <2>1, <2>2, <2>3, AppendIsConcat
  <2>5. (hb \o body) \o t = hb \o (body \o t)
    BY <1>5, <1>6, <2>2, JoinedThrice, ZenonT(40)
  <2>6. body \o t \in Seq(Int)
    BY <1>5, <2>2, JoinedThrice, Zenon
  <2>7. failed(pc(body \o t))
    BY <1>5, <2>2, Zenon
  <2>8. failed(parse_datagram(hb \o (body \o t)))
    BY <1>8, <2>6, <2>7, Zenon
  <2>9. QED
    BY <1>1, <2>4, <2>5, <2>8, Zenon
<1>11. QED
  BY <1>9, <1>10, Zenon DEF OnlyWhole, buf
=============================================================================
