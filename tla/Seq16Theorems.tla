--------------------------- MODULE Seq16Theorems ---------------------------
(***************************************************************************)
(* Facts about sequence arithmetic, for every size of the sequence space.  *)
(***************************************************************************)
EXTENDS Seq16, TLAPS

\* The remainder lies below the divisor.
LEMMA ModRange ==
  ASSUME NEW a \in Int, NEW m \in Nat \ {0}
  PROVE  a % m \in 0 .. m - 1
OBVIOUS

\* Quotient and remainder.
LEMMA DivMod ==
  ASSUME NEW a \in Int, NEW m \in Nat \ {0}
  PROVE  /\ a \div m \in Int
         /\ a % m \in Int
         /\ a = m * (a \div m) + (a % m)
OBVIOUS

\* Two different numbers with the same remainder are a divisor apart.
LEMMA SameResidue ==
  ASSUME NEW a \in Int, NEW b \in Int, NEW m \in Nat \ {0}, a % m = b % m, a # b
  PROVE  a - b >= m \/ b - a >= m
<1> DEFINE p == a \div m
           q == b \div m
<1>1. p \in Int /\ q \in Int /\ a % m \in Int
  BY DivMod
<1>2. a = m * p + (a % m) /\ b = m * q + (a % m)
  BY DivMod
<1> HIDE DEF p, q
<1>3. a - b = m * p - m * q
  BY <1>1, <1>2
<1>4. m * p - m * q = m * (p - q)
  BY <1>1
<1>5. p # q
  BY <1>1, <1>3
<1>6. CASE p >= q + 1
  BY <1>1, <1>3, <1>4, <1>6
<1>7. CASE q >= p + 1
  BY <1>1, <1>3, <1>4, <1>7
<1>8. QED
  BY <1>1, <1>5, <1>6, <1>7

\* Quotient and remainder are determined by their defining equation.
LEMMA ModUnique ==
  ASSUME NEW m \in Nat \ {0}, NEW q \in Int, NEW r \in 0 .. m - 1
  PROVE  (m * q + r) % m = r
<1> DEFINE a == m * q + r
           s == a % m
           p == a \div m
<1>1. a \in Int
  OBVIOUS
<1>2. s \in 0 .. m - 1 /\ p \in Int /\ a = m * p + s
  BY <1>1, ModRange, DivMod
<1>3. a = m * q + r
  OBVIOUS
<1> HIDE DEF a, s, p
<1>4. m * q - m * p = s - r
  BY <1>1, <1>2, <1>3
<1>5. m * q - m * p = m * (q - p)
  BY <1>2
<1>6. CASE q >= p + 1
  <2>1. m * (q - p) >= m
    BY <1>2, <1>6
  <2>2. QED
    BY <1>2, <1>4, <1>5, <2>1
<1>7. CASE p >= q + 1
  <2>1. m * (q - p) <= -m
    BY <1>2, <1>7
  <2>2. QED
    BY <1>2, <1>4, <1>5, <2>1
<1>8. CASE p = q
  BY <1>2, <1>3, <1>8 DEF s, a
<1>9. QED
  BY <1>2, <1>6, <1>7, <1>8

\* Taking the remainder by a multiple of m does not change the remainder by m:
\* the slot of a packet is the same computed from its number or from its u16
\* sequence number, when the ring size divides the sequence space.
LEMMA ModOfMod ==
  ASSUME NEW n \in Int, NEW m \in Nat \ {0}, NEW M \in Nat \ {0}, M % m = 0
  PROVE  (n % M) % m = n % m
<1> DEFINE k == M \div m
           Q == n \div M
           R == n % M
           p == R \div m
           t == R % m
<1>1. k \in Int /\ M = m * k
  BY DivMod
<1>2. Q \in Int /\ R \in Int /\ n = M * Q + R
  BY DivMod
<1>3. p \in Int /\ t \in 0 .. m - 1 /\ R = m * p + t
  BY <1>2, DivMod, ModRange
<1> HIDE DEF k, Q, R, p, t
<1>4. n = m * (k * Q + p) + t
  BY <1>1, <1>2, <1>3
<1>5. k * Q + p \in Int
  BY <1>1, <1>2, <1>3
<1>6. n % m = t
  BY <1>3, <1>4, <1>5, ModUnique
<1>7. QED
  BY <1>6 DEF t, R

\* SeqSpace is a positive natural number.
LEMMA SeqSpaceType == SeqSpace \in Nat \ {0} /\ SeqSpace = 2 * Half
BY HalfAssumption DEF SeqSpace

\* Sequence numbers, the wrapping operations and the i16 reading have the
\* types of the code.
LEMMA SeqTypes ==
  /\ \A n \in Int : Wire(n) \in Seqs
  /\ \A a, b \in Seqs : wrapping_sub(a, b) \in Seqs /\ wrapping_add(a, b) \in Seqs
  /\ \A a, b \in Seqs : diff(a, b) \in -Half .. Half - 1
<1>1. \A n \in Int : Wire(n) \in Seqs
  BY SeqSpaceType, ModRange DEF Wire, Seqs
<1>2. \A a, b \in Seqs : wrapping_sub(a, b) \in Seqs /\ wrapping_add(a, b) \in Seqs
  <2> TAKE a, b \in Seqs
  <2>1. a - b \in Int /\ a + b \in Int
    BY SeqSpaceType DEF Seqs
  <2>2. QED
    BY <2>1, SeqSpaceType, ModRange DEF wrapping_sub, wrapping_add, Seqs
<1>3. \A a, b \in Seqs : diff(a, b) \in -Half .. Half - 1
  <2> TAKE a, b \in Seqs
  <2>1. wrapping_sub(a, b) \in 0 .. 2 * Half - 1
    BY <1>2, SeqSpaceType DEF Seqs
  <2>2. QED
    BY <2>1, HalfAssumption, SeqSpaceType DEF diff, as_i16
<1>4. QED
  BY <1>1, <1>2, <1>3

\* Stepping the number of a packet steps its sequence number.
LEMMA WireSucc ==
  ASSUME NEW n \in Int
  PROVE  wrapping_add(Wire(n), 1) = Wire(n + 1)
<1> DEFINE Q == n \div SeqSpace
           R == n % SeqSpace
<1>1. Q \in Int /\ R \in 0 .. SeqSpace - 1 /\ n = SeqSpace * Q + R
  BY SeqSpaceType, DivMod, ModRange
<1> HIDE DEF Q, R
<1>2. CASE R + 1 < SeqSpace
  <2>1. n + 1 = SeqSpace * Q + (R + 1)
    BY <1>1, SeqSpaceType
  <2>2. R + 1 \in 0 .. SeqSpace - 1
    BY <1>1, <1>2, SeqSpaceType
  <2>3. (n + 1) % SeqSpace = R + 1
    BY <1>1, <2>1, <2>2, SeqSpaceType, ModUnique
  <2>4. (SeqSpace * 0 + (R + 1)) % SeqSpace = R + 1
    <3>1. 0 \in Int /\ R + 1 \in 0 .. SeqSpace - 1
      BY <2>2
    <3> QED
      BY <3>1, SeqSpaceType, ModUnique, Zenon
  <2>5. SeqSpace * 0 + (R + 1) = R + 1
    BY <2>2, SeqSpaceType
  <2>6. QED
    BY <2>3, <2>4, <2>5 DEF wrapping_add, Wire, R
<1>3. CASE R + 1 = SeqSpace
  <2>1. n + 1 = SeqSpace * (Q + 1) + 0
    BY <1>1, <1>3, SeqSpaceType
  <2>2. Q + 1 \in Int /\ 1 \in Int /\ 0 \in 0 .. SeqSpace - 1
    BY <1>1, SeqSpaceType
  <2>3. (n + 1) % SeqSpace = 0
    BY <2>1, <2>2, SeqSpaceType, ModUnique
  <2>4. (SeqSpace * 1 + 0) % SeqSpace = 0
    BY <2>2, SeqSpaceType, ModUnique
  <2>5. R + 1 = SeqSpace * 1 + 0
    BY <1>3, SeqSpaceType
  <2>6. QED
    BY <2>3, <2>4, <2>5 DEF wrapping_add, Wire, R
<1>4. QED
  BY <1>1, <1>2, <1>3, SeqSpaceType

\* Two packets less than a full sequence space apart have different sequence
\* numbers.
LEMMA WireInjective ==
  ASSUME NEW a \in Int, NEW b \in Int, a - b < SeqSpace, b - a < SeqSpace, Wire(a) = Wire(b)
  PROVE  a = b
<1>1. SUFFICES ASSUME a # b PROVE FALSE
  OBVIOUS
<1>2. a - b >= SeqSpace \/ b - a >= SeqSpace
  BY <1>1, SeqSpaceType, SameResidue DEF Wire
<1>3. QED
  BY <1>2, SeqSpaceType

\* diff is the distance of the packets, and newer_than their order, as long as
\* they are less than half the sequence space apart (seq.rs 4: "within 32767
\* steps of each other"), wherever the wraparound falls.
THEOREM DiffIsDistance ==
  ASSUME NEW a \in Int, NEW b \in Int, a - b < Half, b - a < Half
  PROVE  /\ diff(Wire(a), Wire(b)) = a - b
         /\ newer_than(Wire(a), Wire(b)) <=> a > b
<1> DEFINE Qa == a \div SeqSpace
           Ra == a % SeqSpace
           Qb == b \div SeqSpace
           Rb == b % SeqSpace
           d == a - b
<1>1. Qa \in Int /\ Ra \in Int /\ a = SeqSpace * Qa + Ra
  BY SeqSpaceType, DivMod
<1>2. Qb \in Int /\ Rb \in Int /\ b = SeqSpace * Qb + Rb
  BY SeqSpaceType, DivMod
<1>3. d \in Int /\ d < Half /\ -d < Half /\ d = a - b
  BY HalfAssumption
<1>4. Wire(a) = Ra /\ Wire(b) = Rb
  BY DEF Wire
<1> HIDE DEF Qa, Ra, Qb, Rb, d
<1>5. wrapping_sub(Ra, Rb) = IF d >= 0 THEN d ELSE d + SeqSpace
  <2>1. CASE d >= 0
    <3>1. Ra - Rb = SeqSpace * (Qb - Qa) + d
      BY <1>1, <1>2, <1>3, SeqSpaceType
    <3>2. Qb - Qa \in Int /\ d \in 0 .. SeqSpace - 1
      BY <1>1, <1>2, <1>3, <2>1, SeqSpaceType, HalfAssumption
    <3>3. QED
      BY <2>1, <3>1, <3>2, SeqSpaceType, ModUnique DEF wrapping_sub
  <2>2. CASE ~(d >= 0)
    <3>1. Ra - Rb = SeqSpace * (Qb - Qa - 1) + (d + SeqSpace)
      BY <1>1, <1>2, <1>3, SeqSpaceType
    <3>2. Qb - Qa - 1 \in Int /\ d + SeqSpace \in 0 .. SeqSpace - 1
      BY <1>1, <1>2, <1>3, <2>2, SeqSpaceType, HalfAssumption
    <3>3. QED
      BY <2>2, <3>1, <3>2, SeqSpaceType, ModUnique DEF wrapping_sub
  <2>3. QED
    BY <2>1, <2>2
<1>6. diff(Ra, Rb) = d
  BY <1>3, <1>5, SeqSpaceType, HalfAssumption DEF diff, as_i16
<1>7. QED
  BY <1>3, <1>4, <1>6 DEF newer_than
=============================================================================
