--------------------------- MODULE Protocol_proofs ---------------------------
(***************************************************************************)
(* Proofs about the CRC of Crc16, the frames of Protocol, and the two      *)
(* specifications that make and read them: ProtocolTrial, which calls the  *)
(* builders with any arguments and damages replies, and Cli, which calls   *)
(* the builders with what its parsers accept.                              *)
(***************************************************************************)
EXTENDS Cli, ProtocolTrial, SequenceTheorems, WellFoundedInduction, TLAPS

-----------------------------------------------------------------------------
(* Induction.                                                              *)

(* Every set of naturals has a least member.  An argument by induction over *)
(* data takes the least counterexample.                                    *)
LEMMA LeastNumber ==
    ASSUME NEW T \in SUBSET Nat, T # {}
    PROVE  \E n \in T : \A m \in T : n <= m
<1>. DEFINE R == {ss \in Nat \X Nat : ss[1] < ss[2]}
<1>1. IsWellFoundedOn(R, Nat)
  BY NatLessThanWellFounded DEF OpToRel
<1>2. PICK n \in T : \A m \in T : ~ (<<m, n>> \in R)
  <2>. HIDE DEF R
  <2>. QED  BY <1>1, WFMin, Zenon
<1>3. ASSUME NEW m \in T, m < n PROVE FALSE
  <2>1. m \in Nat /\ n \in Nat
    OBVIOUS
  <2>2. <<m, n>> \in R
    BY <1>3, <2>1
  <2>. QED  BY <1>2, <2>2
<1>. QED  BY <1>3

(* Induction up to n, over a set instead of a predicate.                    *)
LEMMA Induction ==
    ASSUME NEW n \in Nat, NEW T, 0 \in T, \A k \in 1 .. n : k - 1 \in T => k \in T
    PROVE  \A k \in 0 .. n : k \in T
<1>. DEFINE U == {k \in 0 .. n : k \notin T}
<1>1. SUFFICES ASSUME U # {} PROVE FALSE
  OBVIOUS
<1>2. U \in SUBSET Nat
  OBVIOUS
<1>3. PICK m \in U : \A k \in U : m <= k
  <2>. HIDE DEF U
  <2>. QED  BY <1>1, <1>2, LeastNumber
<1>4. m \in 1 .. n /\ m \notin T /\ m - 1 \notin U /\ m - 1 \in 0 .. n
  BY <1>3
<1>. QED  BY <1>4

\* g begins with a and goes on with H.
Iterates(g, n, a, H) == g[0] = a /\ \A k \in 1 .. n : g[k] = H[k][g[k - 1]]

(* A loop that turns n times has a history: the recursive functions of      *)
(* Crc16 exist.                                                            *)
LEMMA Iteration ==
    ASSUME NEW n \in Nat, NEW S, NEW a \in S, NEW H \in [1 .. n -> [S -> S]]
    PROVE  \E g \in [0 .. n -> S] : Iterates(g, n, a, H)
<1>. DEFINE P(m) == \E g \in [0 .. m -> S] : Iterates(g, m, a, H)
            T == {m \in 0 .. n : P(m)}
<1>1. 0 \in T
  <2>. DEFINE g == [k \in 0 .. 0 |-> a]
  <2>1. g \in [0 .. 0 -> S] /\ Iterates(g, 0, a, H)
    BY DEF Iterates
  <2>. HIDE DEF g
  <2>. QED  BY <2>1
<1>2. ASSUME NEW m \in 1 .. n, m - 1 \in T PROVE m \in T
  <2>1. PICK g \in [0 .. m - 1 -> S] : Iterates(g, m - 1, a, H)
    BY <1>2
  <2>. DEFINE h == [k \in 0 .. m |-> IF k = m THEN H[m][g[m - 1]] ELSE g[k]]
  <2>2. m - 1 \in 0 .. m - 1 /\ H[m][g[m - 1]] \in S
    OBVIOUS
  <2>3. h \in [0 .. m -> S]
    <3>1. \A k \in 0 .. m : k # m => k \in 0 .. m - 1
      OBVIOUS
    <3>. QED  BY <2>2, <3>1
  <2>4. h[0] = a
    BY <2>1 DEF Iterates
  <2>5. ASSUME NEW k \in 1 .. m PROVE h[k] = H[k][h[k - 1]]
    <3>1. k - 1 \in 0 .. m /\ k - 1 # m /\ k \in 0 .. m /\ (k # m => k \in 1 .. m - 1)
      OBVIOUS
    <3>2. h[k - 1] = g[k - 1]
      BY <3>1
    <3>3. CASE k = m
      BY <3>1, <3>2, <3>3
    <3>4. CASE k # m
      BY <2>1, <3>1, <3>2, <3>4 DEF Iterates
    <3>. QED  BY <3>3, <3>4
  <2>6. Iterates(h, m, a, H)
    BY <2>4, <2>5 DEF Iterates
  <2>. HIDE DEF h
  <2>. QED  BY <2>3, <2>6
<1>3. \A k \in 0 .. n : k \in T
  <2>. HIDE DEF T
  <2>. QED  BY <1>1, <1>2, Induction
<1>. QED  BY <1>3

\* A 16-bit register.
Word16 == SUBSET (0 .. 15)

(* One turn of the bit loop keeps a register of 16 bits.                   *)
LEMMA ShiftBitType ==
    ASSUME NEW w \in Word16 PROVE ShiftBit(w) \in Word16
BY DEF Word16, ShiftBit, ShiftLeft, SymDiff, CRC16_POLYNOMIAL

\* What Shifts is.
ShiftsFrom(s, crc, octet) ==
    /\ s \in [0 .. 8 -> Word16]
    /\ s[0] = SymDiff(crc, ShiftLeft(Bits(octet), 8))
    /\ \A k \in 1 .. 8 : s[k] = ShiftBit(s[k - 1])

(* The turns of the bit loop, one by one.                                  *)
LEMMA ShiftsDef ==
    ASSUME NEW crc \in Word16, NEW octet
    PROVE  ShiftsFrom(Shifts(crc, octet), crc, octet)
<1>. DEFINE a == SymDiff(crc, ShiftLeft(Bits(octet), 8))
            H == [k \in 1 .. 8 |-> [w \in Word16 |-> ShiftBit(w)]]
            Eq(s) == s = [k \in 0 .. 8 |-> IF k = 0 THEN a ELSE ShiftBit(s[k - 1])]
<1>1. a \in Word16
  BY DEF Word16, SymDiff, ShiftLeft
<1>2. H \in [1 .. 8 -> [Word16 -> Word16]]
  BY ShiftBitType
<1>3. PICK g \in [0 .. 8 -> Word16] : Iterates(g, 8, a, H)
  <2>. HIDE DEF a, H
  <2>. QED  BY <1>1, <1>2, Iteration
<1>4. \A k \in 1 .. 8 : g[k] = ShiftBit(g[k - 1])
  BY <1>3 DEF Iterates
<1>5. Eq(g)
  <2>1. g[0] = a
    BY <1>3 DEF Iterates
  <2>2. \A k \in 0 .. 8 : k # 0 => k \in 1 .. 8
    OBVIOUS
  <2>. HIDE DEF a, H
  <2>. QED  BY <1>4, <2>1, <2>2
<1>6. Shifts(crc, octet) = CHOOSE s : Eq(s)
  BY DEF Shifts
<1>. DEFINE s == Shifts(crc, octet)
<1>7. Eq(s)
  <2>. HIDE DEF Eq
  <2>. QED  BY <1>5, <1>6
<1>. HIDE DEF s, a
<1>8. s[0] = a /\ \A k \in 1 .. 8 : s[k] = ShiftBit(s[k - 1])
  BY <1>7
<1>9. \A k \in 0 .. 8 : s[k] \in Word16
  <2>0. s[0] \in Word16 BY <1>1, <1>8
  <2>1. s[1] \in Word16 BY <1>8, <2>0, ShiftBitType
  <2>2. s[2] \in Word16 BY <1>8, <2>1, ShiftBitType
  <2>3. s[3] \in Word16 BY <1>8, <2>2, ShiftBitType
  <2>4. s[4] \in Word16 BY <1>8, <2>3, ShiftBitType
  <2>5. s[5] \in Word16 BY <1>8, <2>4, ShiftBitType
  <2>6. s[6] \in Word16 BY <1>8, <2>5, ShiftBitType
  <2>7. s[7] \in Word16 BY <1>8, <2>6, ShiftBitType
  <2>8. s[8] \in Word16 BY <1>8, <2>7, ShiftBitType
  <2>. QED  BY <2>0, <2>1, <2>2, <2>3, <2>4, <2>5, <2>6, <2>7, <2>8
<1>. QED  BY <1>7, <1>8, <1>9 DEF ShiftsFrom, s, a

(* One octet keeps a register of 16 bits.                                  *)
LEMMA AddOctetType ==
    ASSUME NEW crc \in Word16, NEW octet PROVE AddOctet(crc, octet) \in Word16
BY ShiftsDef DEF ShiftsFrom, AddOctet

\* What Registers is.
RegistersFrom(g, seed, data) ==
    /\ g \in [0 .. Len(data) -> Word16]
    /\ g[0] = seed
    /\ \A n \in 1 .. Len(data) : g[n] = AddOctet(g[n - 1], data[n])

(* The registers of the octet loop, one by one.                            *)
LEMMA RegistersDef ==
    ASSUME NEW seed \in Word16, NEW data, Len(data) \in Nat
    PROVE  RegistersFrom(Registers(seed, data), seed, data)
<1>. DEFINE m == Len(data)
            H == [n \in 1 .. m |-> [w \in Word16 |-> AddOctet(w, data[n])]]
            Eq(s) == s = [n \in 0 .. m |-> IF n = 0 THEN seed ELSE AddOctet(s[n - 1], data[n])]
            r == Registers(seed, data)
<1>1. H \in [1 .. m -> [Word16 -> Word16]]
  BY AddOctetType
<1>2. PICK g \in [0 .. m -> Word16] : Iterates(g, m, seed, H)
  <2>. HIDE DEF m, H
  <2>. QED  BY <1>1, Iteration DEF m
<1>3. ASSUME NEW n \in 1 .. m PROVE g[n] = AddOctet(g[n - 1], data[n])
  <2>1. m \in Nat /\ n - 1 \in 0 .. m
    OBVIOUS
  <2>2. g[n - 1] \in Word16
    BY <2>1
  <2>3. H[n][g[n - 1]] = AddOctet(g[n - 1], data[n])
    BY <2>2
  <2>. QED  BY <1>2, <2>3 DEF Iterates
<1>4. Eq(g)
  <2>1. g[0] = seed
    BY <1>2 DEF Iterates
  <2>2. \A n \in 0 .. m : n # 0 => n \in 1 .. m
    OBVIOUS
  <2>. HIDE DEF m, H
  <2>. QED  BY <1>3, <2>1, <2>2
<1>5. r = CHOOSE s : Eq(s)
  BY DEF Registers
<1>6. Eq(r)
  <2>. HIDE DEF Eq, r
  <2>. QED  BY <1>4, <1>5
<1>. HIDE DEF r
<1>7. r[0] = seed /\ \A n \in 1 .. m : r[n] = AddOctet(r[n - 1], data[n])
  BY <1>6
<1>8. \A n \in 0 .. m : r[n] \in Word16
  <2>. DEFINE T == {n \in 0 .. m : r[n] \in Word16}
  <2>1. 0 \in T
    BY <1>7
  <2>2. ASSUME NEW n \in 1 .. m, n - 1 \in T PROVE n \in T
    BY <1>7, <2>2, AddOctetType
  <2>3. \A n \in 0 .. m : n \in T
    <3>. HIDE DEF T
    <3>. QED  BY <2>1, <2>2, Induction
  <2>. QED  BY <2>3
<1>. QED  BY <1>6, <1>7, <1>8 DEF RegistersFrom, r

\* One turn of the division.
Divide(r, e) == IF e \in r THEN SymDiff(r, {e - 16 + i : i \in {16, 12, 5, 0}}) ELSE r

(* The sum of two polynomials is one.                                      *)
LEMMA SymDiffType ==
    ASSUME NEW p \in SUBSET Int, NEW q \in SUBSET Int PROVE SymDiff(p, q) \in SUBSET Int
BY DEF SymDiff

(* A step of the long division leaves a polynomial.                        *)
LEMMA DivideType ==
    ASSUME NEW r \in SUBSET Int, NEW e \in Int PROVE Divide(r, e) \in SUBSET Int
<1>1. {e - 16 + i : i \in {16, 12, 5, 0}} \in SUBSET Int
  OBVIOUS
<1>. QED  BY <1>1, SymDiffType DEF Divide

DivisionFrom(g, p, degree) ==
    /\ g[0] = p
    /\ \A t \in 1 .. degree - 15 : g[t] = Divide(g[t - 1], degree + 1 - t)

(* The steps of the long division, one by one.                             *)
LEMMA DivisionDef ==
    ASSUME NEW degree \in Int, degree >= 15, NEW p \in SUBSET Int
    PROVE  DivisionFrom(Division(p, degree), p, degree)
<1>. DEFINE m == degree - 15
            S == SUBSET Int
            H == [t \in 1 .. m |-> [r \in S |-> Divide(r, degree + 1 - t)]]
            Eq(s) == s = [t \in 0 .. m |-> IF t = 0 THEN p ELSE Divide(s[t - 1], degree + 1 - t)]
            d == Division(p, degree)
<1>0. m \in Nat
  OBVIOUS
<1>1. H \in [1 .. m -> [S -> S]]
  <2>1. ASSUME NEW r \in S, NEW t \in 1 .. m PROVE Divide(r, degree + 1 - t) \in S
    <3>1. degree + 1 - t \in Int
      OBVIOUS
    <3>. QED  BY <3>1, DivideType
  <2>. HIDE DEF S, m
  <2>. QED  BY <2>1
<1>2. PICK g \in [0 .. m -> S] : Iterates(g, m, p, H)
  <2>. HIDE DEF m, H
  <2>. QED  BY <1>0, <1>1, Iteration
<1>3. ASSUME NEW t \in 1 .. m PROVE g[t] = Divide(g[t - 1], degree + 1 - t)
  <2>1. t - 1 \in 0 .. m
    BY <1>0
  <2>2. g[t - 1] \in S
    BY <2>1
  <2>3. H[t][g[t - 1]] = Divide(g[t - 1], degree + 1 - t)
    <3>. HIDE DEF S
    <3>. QED  BY <2>2
  <2>. QED  BY <1>2, <2>3 DEF Iterates
<1>4. Eq(g)
  <2>1. g[0] = p
    BY <1>2 DEF Iterates
  <2>2. \A t \in 0 .. m : t # 0 => t \in 1 .. m
    OBVIOUS
  <2>. HIDE DEF m, H, S
  <2>. QED  BY <1>3, <2>1, <2>2
<1>5. d = CHOOSE s : Eq(s)
  BY DEF Division, Divide
<1>6. Eq(d)
  <2>. HIDE DEF Eq, d
  <2>. QED  BY <1>4, <1>5
<1>. HIDE DEF d
<1>7. d[0] = p /\ \A t \in 1 .. m : d[t] = Divide(d[t - 1], degree + 1 - t)
  BY <1>6
<1>. QED  BY <1>7 DEF DivisionFrom, d

Shift(w, c) == {i + c : i \in w}
Xor(p, q) == ~(p <=> q)

(* The bits of a register shifted to the left.                             *)
LEMMA ShiftMember ==
    ASSUME NEW w \in SUBSET Int, NEW c \in Int, NEW x \in Int
    PROVE  x \in Shift(w, c) <=> x - c \in w
BY DEF Shift

(* The bits of a register after one turn of the bit loop.                  *)
LEMMA ShiftBitMember ==
    ASSUME NEW w \in Word16, NEW j \in Int
    PROVE  j \in ShiftBit(w) <=>
             j \in 0 .. 15 /\ Xor(j - 1 \in w, 15 \in w /\ j \in {12, 5, 0})
<1>1. j \in ShiftLeft(w, 1) <=> j \in 0 .. 15 /\ j - 1 \in w
  BY DEF ShiftLeft, Word16
<1>2. j \in {12, 5, 0} => j \in 0 .. 15
  OBVIOUS
<1>. QED  BY <1>1, <1>2 DEF ShiftBit, SymDiff, CRC16_POLYNOMIAL, Xor

(* A turn of the inner loop is a turn of the division, b places to the left *)
(* and with the bits M still to come.                                      *)
LEMMA TurnDivides ==
    ASSUME NEW b \in Int, NEW w \in Word16, NEW M \in SUBSET Int, \A x \in M : x < b + 16
    PROVE  Divide(SymDiff(Shift(w, b + 1), M), b + 16) = SymDiff(Shift(ShiftBit(w), b), M)
<1>. DEFINE r == SymDiff(Shift(w, b + 1), M)
            g == {(b + 16) - 16 + i : i \in {16, 12, 5, 0}}
            v == ShiftBit(w)
<1>0. w \in SUBSET Int /\ v \in Word16 /\ v \in SUBSET Int
  BY ShiftBitType DEF Word16
<1>1. r \in SUBSET Int /\ g \in SUBSET Int /\ SymDiff(Shift(v, b), M) \in SUBSET Int
  <2>1. Shift(w, b + 1) \in SUBSET Int /\ Shift(v, b) \in SUBSET Int
    BY <1>0 DEF Shift
  <2>2. g \in SUBSET Int
    OBVIOUS
  <2>. QED  BY <2>1, <2>2, SymDiffType
<1>2. b + 16 \in r <=> 15 \in w
  <2>1. b + 16 \in Shift(w, b + 1) <=> (b + 16) - (b + 1) \in w
    BY <1>0, ShiftMember
  <2>2. (b + 16) - (b + 1) = 15 /\ b + 16 \notin M
    OBVIOUS
  <2>. QED  BY <2>1, <2>2 DEF SymDiff
<1>3. ASSUME NEW x \in Int
      PROVE  x \in Divide(r, b + 16) <=> x \in SymDiff(Shift(v, b), M)
  <2>. DEFINE j == x - b
  <2>1. x \in Shift(w, b + 1) <=> j - 1 \in w
    <3>1. x \in Shift(w, b + 1) <=> x - (b + 1) \in w
      BY <1>0, ShiftMember
    <3>. QED  BY <3>1
  <2>2. x \in Shift(v, b) <=> j \in v
    BY <1>0, ShiftMember
  <2>3. j \in v <=> j \in 0 .. 15 /\ Xor(j - 1 \in w, 15 \in w /\ j \in {12, 5, 0})
    <3>. HIDE DEF j
    <3>1. j \in Int
      BY DEF j
    <3>. QED  BY <3>1, ShiftBitMember
  <2>4. x \in g <=> j \in {16, 12, 5, 0}
    OBVIOUS
  <2>5. j - 1 \in w => j \in 1 .. 16
    BY DEF Word16
  <2>6. x \in Divide(r, b + 16) <=>
          Xor(Xor(j - 1 \in w, x \in M), 15 \in w /\ j \in {16, 12, 5, 0})
    <3>1. x \in r <=> Xor(j - 1 \in w, x \in M)
      BY <2>1 DEF SymDiff, Xor
    <3>. HIDE DEF r, g, j
    <3>2. CASE 15 \in w
      <4>1. Divide(r, b + 16) = SymDiff(r, g)
        BY <1>2, <3>2 DEF Divide, g
      <4>. QED  BY <2>4, <3>1, <3>2, <4>1 DEF SymDiff, Xor
    <3>3. CASE 15 \notin w
      BY <1>2, <3>1, <3>3 DEF Divide, Xor
    <3>. QED  BY <3>2, <3>3
  <2>7. x \in SymDiff(Shift(v, b), M) <=> Xor(j \in v, x \in M)
    BY <2>2 DEF SymDiff, Xor
  <2>8. Xor(j - 1 \in w, 15 \in w /\ j \in {16, 12, 5, 0}) <=> j \in v
    <3>. HIDE DEF j, v
    <3>0. j \in Int
      BY DEF j
    <3>1. CASE j \in 0 .. 15
      BY <2>3, <3>0, <3>1 DEF Xor
    <3>2. CASE j = 16
      <4>1. j - 1 = 15
        BY <3>2
      <4>. QED  BY <2>3, <3>2, <4>1 DEF Xor
    <3>3. CASE j \notin 0 .. 16
      BY <2>3, <2>5, <3>0, <3>3 DEF Xor
    <3>. QED  BY <3>0, <3>1, <3>2, <3>3
  <2>. HIDE DEF j, r, v
  <2>. QED  BY <2>6, <2>7, <2>8 DEF Xor
<1>4. Divide(r, b + 16) \in SUBSET Int
  BY <1>1, DivideType
<1>. HIDE DEF r, v
<1>5. Divide(r, b + 16) = SymDiff(Shift(v, b), M)
  BY <1>1, <1>3, <1>4
<1>. QED  BY <1>5 DEF r, v

(* An octet has eight bits.                                                *)
LEMMA OctetBits ==
    ASSUME NEW o \in 0 .. 255 PROVE Bits(o) \in SUBSET (0 .. 7)
<1>1. ASSUME NEW i \in 8 .. 15 PROVE (o \div 2^i) % 2 # 1
  <2>1. o \div 2^8 = 0 /\ o \div 2^9 = 0 /\ o \div 2^10 = 0 /\ o \div 2^11 = 0
    BY SMT
  <2>2. o \div 2^12 = 0 /\ o \div 2^13 = 0 /\ o \div 2^14 = 0 /\ o \div 2^15 = 0
    BY SMT
  <2>3. i = 8 \/ i = 9 \/ i = 10 \/ i = 11 \/ i = 12 \/ i = 13 \/ i = 14 \/ i = 15
    BY SMT
  <2>4. o \div 2^i = 0
    BY <2>1, <2>2, <2>3, Zenon
  <2>5. 0 % 2 # 1
    BY SMT
  <2>. QED  BY <2>4, <2>5, Zenon
<1>2. \A i \in 0 .. 15 : i \notin 0 .. 7 => i \in 8 .. 15
  BY SMT
<1>. QED  BY <1>1, <1>2, Zenon DEF Bits

\* The bits of the message times x^16 from the octet after the n-th on.
Ahead(data, n) ==
    UNION {{8 * (Len(data) - k) + i + 16 : i \in Bits(data[k])} : k \in n + 1 .. Len(data)}

(* How high the octets stand that the loop has not yet read.               *)
LEMMA AheadBounds ==
    ASSUME NEW data \in Seq(0 .. 255), NEW n \in 0 .. Len(data)
    PROVE  /\ Ahead(data, n) \in SUBSET Int
           /\ \A x \in Ahead(data, n) : x < 8 * (Len(data) - n) + 16
<1>. DEFINE m == Len(data)
<1>1. m \in Nat /\ \A k \in 1 .. m : data[k] \in 0 .. 255
  BY LenProperties, ElementOfSeq
<1>. HIDE DEF m
<1>2. ASSUME NEW x \in Ahead(data, n) PROVE x \in Int /\ x < 8 * (m - n) + 16
  <2>1. PICK k \in n + 1 .. m : x \in {8 * (m - k) + i + 16 : i \in Bits(data[k])}
    BY DEF Ahead, m
  <2>2. PICK i \in Bits(data[k]) : x = 8 * (m - k) + i + 16
    BY <2>1
  <2>3. k \in 1 .. m
    BY <1>1 DEF m
  <2>4. i \in 0 .. 7
    BY <1>1, <2>3, OctetBits
  <2>. QED  BY <1>1, <2>2, <2>3, <2>4
<1>. QED  BY <1>2 DEF m

(* Reading an octet takes it off those that are ahead.                     *)
LEMMA AheadStep ==
    ASSUME NEW data \in Seq(0 .. 255), NEW n \in 1 .. Len(data)
    PROVE  Ahead(data, n - 1) =
             Shift(Bits(data[n]), 8 * (Len(data) - n) + 16) \cup Ahead(data, n)
<1>. DEFINE m == Len(data)
            D(k) == {8 * (m - k) + i + 16 : i \in Bits(data[k])}
<1>1. m \in Nat
  BY LenProperties
<1>2. (n - 1) + 1 .. m = {n} \cup (n + 1 .. m)
  <2>. HIDE DEF m
  <2>1. n \in 1 .. m
    BY DEF m
  <2>. QED  BY <1>1, <2>1
<1>3. D(n) = Shift(Bits(data[n]), 8 * (m - n) + 16)
  <2>1. \A i \in Bits(data[n]) : 8 * (m - n) + i + 16 = i + (8 * (m - n) + 16)
    BY <1>1 DEF Bits
  <2>. HIDE DEF m
  <2>. QED  BY <2>1 DEF Shift
<1>4. Ahead(data, n - 1) = UNION {D(k) : k \in {n} \cup (n + 1 .. m)}
  BY <1>2 DEF Ahead
<1>5. Ahead(data, n) = UNION {D(k) : k \in n + 1 .. m}
  BY DEF Ahead
<1>. HIDE DEF D, m
<1>6. UNION {D(k) : k \in {n} \cup (n + 1 .. m)} = D(n) \cup UNION {D(k) : k \in n + 1 .. m}
  BY Zenon
<1>. QED  BY <1>3, <1>4, <1>5, <1>6 DEF m

(* Adding an octet to the register is to look at it where it stands in the  *)
(* message.                                                                *)
LEMMA OctetEnters ==
    ASSUME NEW c \in Int, NEW w \in Word16, NEW B \in SUBSET (0 .. 7),
           NEW M \in SUBSET Int, \A x \in M : x < c + 16
    PROVE  SymDiff(Shift(w, c + 8), Shift(B, c + 16) \cup M) =
             SymDiff(Shift(SymDiff(w, ShiftLeft(B, 8)), c + 8), M)
<1>. DEFINE v == SymDiff(w, ShiftLeft(B, 8))
            A == Shift(B, c + 16)
<1>1. w \in SUBSET Int /\ B \in SUBSET Int /\ v \in Word16 /\ v \in SUBSET Int
  <2>1. w \in SUBSET Int /\ B \in SUBSET Int
    BY DEF Word16
  <2>2. v \in Word16
    BY DEF Word16, SymDiff, ShiftLeft
  <2>. HIDE DEF v
  <2>. QED  BY <2>1, <2>2 DEF Word16
<1>2. /\ Shift(w, c + 8) \in SUBSET Int /\ Shift(v, c + 8) \in SUBSET Int
      /\ A \in SUBSET Int
  <2>. HIDE DEF v
  <2>. QED  BY <1>1 DEF Shift
<1>3. ASSUME NEW x \in Int
      PROVE  x \in SymDiff(Shift(w, c + 8), A \cup M) <=> x \in SymDiff(Shift(v, c + 8), M)
  <2>. DEFINE j == x - (c + 8)
  <2>0. c + 8 \in Int /\ c + 16 \in Int /\ j \in Int
    OBVIOUS
  <2>1. x \in Shift(w, c + 8) <=> j \in w
    BY <1>1, <2>0, ShiftMember
  <2>2. x \in Shift(v, c + 8) <=> j \in v
    <3>. HIDE DEF v
    <3>. QED  BY <1>1, <2>0, ShiftMember
  <2>3. x \in A <=> j - 8 \in B
    <3>1. x \in A <=> x - (c + 16) \in B
      BY <1>1, <2>0, ShiftMember
    <3>. QED  BY <3>1
  <2>4. j \in v <=> Xor(j \in w, j - 8 \in B)
    <3>. HIDE DEF j
    <3>1. j \in ShiftLeft(B, 8) <=> j - 8 \in B
      <4>1. j \in ShiftLeft(B, 8) <=> j \in 0 .. 15 /\ \E i \in B : j = i + 8
        BY DEF ShiftLeft
      <4>2. \A i \in B : i \in 0 .. 7 /\ (j = i + 8 <=> j - 8 = i)
        BY <2>0
      <4>3. j - 8 \in 0 .. 7 => j \in 0 .. 15
        BY <2>0
      <4>. QED  BY <4>1, <4>2, <4>3, Zenon
    <3>. QED  BY <3>1 DEF SymDiff, Xor
  <2>5. x \in M => j - 8 \notin B
    OBVIOUS
  <2>. HIDE DEF j, v, A
  <2>. QED  BY <2>1, <2>2, <2>3, <2>4, <2>5 DEF SymDiff, Xor
<1>. HIDE DEF v, A
<1>4. /\ SymDiff(Shift(w, c + 8), A \cup M) \in SUBSET Int
      /\ SymDiff(Shift(v, c + 8), M) \in SUBSET Int
  <2>1. A \cup M \in SUBSET Int
    BY <1>2
  <2>. QED  BY <1>2, <2>1, SymDiffType
<1>5. SymDiff(Shift(w, c + 8), A \cup M) = SymDiff(Shift(v, c + 8), M)
  BY <1>3, <1>4
<1>. QED  BY <1>5 DEF v, A

\* After n octets the division has left the register, in front of the octets
\* to come.
InStep(d, data, n, w) ==
    d[8 * n] = SymDiff(Shift(w, 8 * (Len(data) - n)), Ahead(data, n))

(* Eight turns of the bit loop are eight steps of the division.            *)
LEMMA OctetDivides ==
    ASSUME NEW data \in Seq(0 .. 255), NEW n \in 1 .. Len(data), NEW w \in Word16,
           NEW d, NEW p, DivisionFrom(d, p, 8 * Len(data) + 15), InStep(d, data, n - 1, w)
    PROVE  InStep(d, data, n, AddOctet(w, data[n]))
<1>. DEFINE m == Len(data)
            c == 8 * (m - n)
            B == Bits(data[n])
            M == Ahead(data, n)
            s == Shifts(w, data[n])
<1>1. m \in Nat /\ n \in 1 .. m /\ c \in Nat /\ 8 * n \in Nat /\ data[n] \in 0 .. 255
  BY LenProperties, ElementOfSeq
<1>2. M \in SUBSET Int /\ \A x \in M : x < c + 16
  <2>1. n \in 0 .. Len(data)
    BY <1>1
  <2>. QED  BY <2>1, AheadBounds
<1>3. B \in SUBSET (0 .. 7)
  BY <1>1, OctetBits
<1>4. /\ s \in [0 .. 8 -> Word16]
      /\ s[0] = SymDiff(w, ShiftLeft(B, 8))
      /\ \A k \in 1 .. 8 : s[k] = ShiftBit(s[k - 1])
  BY ShiftsDef DEF ShiftsFrom
<1>5. \A t \in 1 .. 8 * m : d[t] = Divide(d[t - 1], (8 * m + 15) + 1 - t)
  <2>1. (8 * m + 15) - 15 = 8 * m
    BY <1>1
  <2>. QED  BY <2>1 DEF DivisionFrom
<1>. DEFINE K(k) == d[8 * (n - 1) + k] = SymDiff(Shift(s[k], c + 8 - k), M)
<1>6. K(0)
  <2>1. 8 * (n - 1) + 0 = 8 * (n - 1) /\ c + 8 - 0 = c + 8 /\ 8 * (m - (n - 1)) = c + 8
    BY <1>1
  <2>2. Ahead(data, n - 1) = Shift(B, c + 16) \cup M
    BY AheadStep
  <2>3. d[8 * (n - 1)] = SymDiff(Shift(w, c + 8), Ahead(data, n - 1))
    BY <2>1 DEF InStep
  <2>. HIDE DEF m, c, B, M, s
  <2>4. d[8 * (n - 1)] = SymDiff(Shift(s[0], c + 8), M)
    <3>1. SymDiff(Shift(w, c + 8), Shift(B, c + 16) \cup M) =
            SymDiff(Shift(SymDiff(w, ShiftLeft(B, 8)), c + 8), M)
      BY <1>1, <1>2, <1>3, OctetEnters
    <3>. QED  BY <1>4, <2>2, <2>3, <3>1
  <2>. QED  BY <2>1, <2>4
<1>7. ASSUME NEW k \in 1 .. 8, K(k - 1) PROVE K(k)
  <2>. DEFINE t == 8 * (n - 1) + k
              b == c + 8 - k
  <2>1. /\ t \in 1 .. 8 * m /\ t - 1 = 8 * (n - 1) + (k - 1)
        /\ b \in Int /\ c + 8 - (k - 1) = b + 1 /\ (8 * m + 15) + 1 - t = b + 16
    BY <1>1
  <2>2. \A x \in M : x < b + 16
    BY <1>1, <1>2
  <2>3. s[k - 1] \in Word16 /\ s[k] = ShiftBit(s[k - 1])
    <3>1. k - 1 \in 0 .. 8
      OBVIOUS
    <3>. QED  BY <1>4, <3>1
  <2>4. d[t] = Divide(d[t - 1], b + 16)
    <3>. HIDE DEF t, b, m
    <3>. QED  BY <1>5, <2>1
  <2>5. d[t - 1] = SymDiff(Shift(s[k - 1], b + 1), M)
    <3>1. d[8 * (n - 1) + (k - 1)] = SymDiff(Shift(s[k - 1], c + 8 - (k - 1)), M)
      BY <1>7
    <3>. HIDE DEF t, b, s, M, c
    <3>. QED  BY <2>1, <3>1
  <2>. HIDE DEF t, b, s, M, c, m
  <2>6. d[t] = SymDiff(Shift(s[k], b), M)
    BY <1>2, <2>1, <2>2, <2>3, <2>4, <2>5, TurnDivides
  <2>. QED  BY <2>6 DEF t, b
<1>8. K(8)
  <2>. HIDE DEF K
  <2>1. K(1 - 1) /\ 1 \in 1 .. 8    BY <1>6
  <2>2. K(2 - 1) /\ 2 \in 1 .. 8    BY <1>7, <2>1
  <2>3. K(3 - 1) /\ 3 \in 1 .. 8    BY <1>7, <2>2
  <2>4. K(4 - 1) /\ 4 \in 1 .. 8    BY <1>7, <2>3
  <2>5. K(5 - 1) /\ 5 \in 1 .. 8    BY <1>7, <2>4
  <2>6. K(6 - 1) /\ 6 \in 1 .. 8    BY <1>7, <2>5
  <2>7. K(7 - 1) /\ 7 \in 1 .. 8    BY <1>7, <2>6
  <2>8. K(8 - 1) /\ 8 \in 1 .. 8    BY <1>7, <2>7
  <2>. QED  BY <1>7, <2>8
<1>9. 8 * (n - 1) + 8 = 8 * n /\ c + 8 - 8 = c
  BY <1>1
<1>10. s[8] = AddOctet(w, data[n])
  BY DEF AddOctet
<1>. HIDE DEF s, M, c
<1>11. d[8 * n] = SymDiff(Shift(s[8], c), M)
  BY <1>8, <1>9
<1>. QED  BY <1>10, <1>11 DEF InStep, M, c

(* Where the sixteen ones of the seed stand after a shift.                 *)
LEMMA ShiftedSeed ==
    ASSUME NEW c \in Nat PROVE Shift(0 .. 15, c) = c .. c + 15
<1>1. \A x \in c .. c + 15 : x - c \in 0 .. 15 /\ x = (x - c) + c
  OBVIOUS
<1>2. \A i \in 0 .. 15 : i + c \in c .. c + 15
  OBVIOUS
<1>. QED  BY <1>1, <1>2, Zenon DEF Shift

(* crc16_compute is the remainder of the division, for every message.      *)
THEOREM CrcAgrees ==
    ASSUME NEW data \in Seq(0 .. 255)
    PROVE  crc16_compute(data) = CrcReference(data)
<1>. DEFINE m == Len(data)
            g == Registers(CRC16_SEED, data)
            p == SymDiff(Message(data, 16), 8 * m .. 8 * m + 15)
            d == Division(p, 8 * m + 15)
<1>1. m \in Nat /\ DOMAIN data = 1 .. m
  BY LenProperties
<1>2. g \in [0 .. m -> Word16] /\ g[0] = CRC16_SEED
      /\ \A n \in 1 .. m : g[n] = AddOctet(g[n - 1], data[n])
  <2>1. CRC16_SEED \in Word16
    BY DEF CRC16_SEED, Word16
  <2>. QED  BY <1>1, <2>1, RegistersDef DEF RegistersFrom
<1>3. Message(data, 16) = Ahead(data, 0)
  <2>1. DOMAIN data = 0 + 1 .. Len(data)
    BY <1>1
  <2>. QED  BY <2>1 DEF Message, Ahead
<1>4. Message(data, 16) \in SUBSET Int
  <2>1. 0 \in 0 .. Len(data)
    BY <1>1
  <2>. QED  BY <1>3, <2>1, AheadBounds
<1>5. DivisionFrom(d, p, 8 * m + 15)
  <2>1. 8 * m + 15 \in Int /\ 8 * m + 15 >= 15 /\ (8 * m .. 8 * m + 15) \in SUBSET Int
    BY <1>1
  <2>2. p \in SUBSET Int
    BY <1>4, <2>1, SymDiffType
  <2>. HIDE DEF p, m
  <2>. QED  BY <2>1, <2>2, DivisionDef
<1>. DEFINE T == {n \in 0 .. m : InStep(d, data, n, g[n])}
<1>6. 0 \in T
  <2>1. Shift(g[0], 8 * (m - 0)) = 8 * m .. 8 * m + 15
    <3>1. 8 * (m - 0) = 8 * m /\ 8 * m \in Nat
      BY <1>1
    <3>. HIDE DEF m, g
    <3>. QED  BY <1>2, <3>1, ShiftedSeed DEF CRC16_SEED
  <2>2. d[0] = p
    BY <1>5 DEF DivisionFrom
  <2>3. 8 * 0 = 0 /\ 0 \in 0 .. m
    BY <1>1
  <2>4. SymDiff(Message(data, 16), 8 * m .. 8 * m + 15) =
          SymDiff(8 * m .. 8 * m + 15, Ahead(data, 0))
    BY <1>3, Zenon DEF SymDiff
  <2>. HIDE DEF d, g
  <2>5. InStep(d, data, 0, g[0])
    BY <2>1, <2>2, <2>3, <2>4 DEF InStep
  <2>. QED  BY <2>3, <2>5
<1>7. ASSUME NEW n \in 1 .. m, n - 1 \in T PROVE n \in T
  <2>1. g[n - 1] \in Word16 /\ g[n] = AddOctet(g[n - 1], data[n]) /\ n \in 0 .. m
    <3>1. n - 1 \in 0 .. m /\ n \in 0 .. m
      BY <1>1
    <3>. HIDE DEF g, m
    <3>. QED  BY <1>2, <3>1
  <2>2. InStep(d, data, n - 1, g[n - 1])
    BY <1>7
  <2>. HIDE DEF d, g, p
  <2>3. InStep(d, data, n, AddOctet(g[n - 1], data[n]))
    BY <1>5, <2>1, <2>2, OctetDivides
  <2>. QED  BY <2>1, <2>3
<1>8. InStep(d, data, m, g[m])
  <2>1. m \in 0 .. m
    BY <1>1
  <2>2. \A n \in 0 .. m : n \in T
    <3>. HIDE DEF T, m
    <3>. QED  BY <1>1, <1>6, <1>7, Induction
  <2>. QED  BY <2>1, <2>2
<1>9. d[8 * m] = g[m]
  <2>1. 8 * (m - m) = 0 /\ m + 1 .. m = {}
    BY <1>1
  <2>2. Ahead(data, m) = {}
    BY <2>1 DEF Ahead
  <2>3. g[m] \in SUBSET Int
    <3>1. m \in 0 .. m
      BY <1>1
    <3>2. g[m] \in Word16
      <4>. HIDE DEF g, m
      <4>. QED  BY <1>2, <3>1
    <3>. HIDE DEF g
    <3>. QED  BY <3>2 DEF Word16
  <2>4. Shift(g[m], 0) = g[m]
    <3>. HIDE DEF g, m
    <3>. QED  BY <2>3 DEF Shift
  <2>5. SymDiff(g[m], {}) = g[m]
    BY Zenon DEF SymDiff
  <2>. HIDE DEF d, g
  <2>. QED  BY <1>8, <2>1, <2>2, <2>4, <2>5 DEF InStep
<1>10. (8 * m + 15) - 15 = 8 * m
  BY <1>1
<1>11. CrcReference(data) = Number(d[(8 * m + 15) - 15])
  BY DEF CrcReference, Remainder
<1>12. crc16_compute(data) = Number(g[m])
  BY DEF crc16_compute
<1>. HIDE DEF d, g, m
<1>. QED  BY <1>9, <1>10, <1>11, <1>12

-----------------------------------------------------------------------------
(* Words and their numbers.                                                *)

(* A register read as a number fits in two octets.                         *)
LEMMA NumberBound ==
    ASSUME NEW w PROVE Number(w) \in Nat /\ Number(w) < 256^2
BY SMT DEF Number

(* Eight bits make an octet.                                               *)
LEMMA OctetNumber ==
    ASSUME NEW w \in SUBSET (0 .. 7) PROVE Number(w) \in 0 .. 255
<1>1. /\ 8 \notin w /\ 9 \notin w /\ 10 \notin w /\ 11 \notin w
      /\ 12 \notin w /\ 13 \notin w /\ 14 \notin w /\ 15 \notin w
  BY SMT
<1>. QED BY <1>1, SMT DEF Number

(* A bit of an octet, read off by division.                                *)
LEMMA OctetBit ==
    ASSUME NEW w \in SUBSET (0 .. 7), NEW i \in 0 .. 7
    PROVE  (Number(w) \div 2^i) % 2 = 1 <=> i \in w
<1>. DEFINE v == Number(w)
            bit(k) == IF k \in w THEN 1 ELSE 0
<1>0. /\ bit(0) \in 0 .. 1 /\ bit(1) \in 0 .. 1 /\ bit(2) \in 0 .. 1 /\ bit(3) \in 0 .. 1
      /\ bit(4) \in 0 .. 1 /\ bit(5) \in 0 .. 1 /\ bit(6) \in 0 .. 1 /\ bit(7) \in 0 .. 1
  BY SMT
<1>1. v = bit(0) + 2 * bit(1) + 4 * bit(2) + 8 * bit(3) + 16 * bit(4) + 32 * bit(5)
            + 64 * bit(6) + 128 * bit(7)
  <2>1. /\ 8 \notin w /\ 9 \notin w /\ 10 \notin w /\ 11 \notin w
        /\ 12 \notin w /\ 13 \notin w /\ 14 \notin w /\ 15 \notin w
    BY SMT
  <2>. QED BY <2>1, SMT DEF Number
<1>. HIDE DEF v, bit
<1>2. (v \div 2^0) % 2 = bit(0) BY <1>0, <1>1, SMT
<1>3. (v \div 2^1) % 2 = bit(1) BY <1>0, <1>1, SMT
<1>4. (v \div 2^2) % 2 = bit(2) BY <1>0, <1>1, SMT
<1>5. (v \div 2^3) % 2 = bit(3) BY <1>0, <1>1, SMT
<1>6. (v \div 2^4) % 2 = bit(4) BY <1>0, <1>1, SMT
<1>7. (v \div 2^5) % 2 = bit(5) BY <1>0, <1>1, SMT
<1>8. (v \div 2^6) % 2 = bit(6) BY <1>0, <1>1, SMT
<1>9. (v \div 2^7) % 2 = bit(7) BY <1>0, <1>1, SMT
<1>10. i = 0 \/ i = 1 \/ i = 2 \/ i = 3 \/ i = 4 \/ i = 5 \/ i = 6 \/ i = 7
  BY SMT
<1>11. (v \div 2^i) % 2 = bit(i)
  BY <1>2, <1>3, <1>4, <1>5, <1>6, <1>7, <1>8, <1>9, <1>10, Zenon
<1>12. bit(i) = 1 <=> i \in w
  BY DEF bit
<1>. QED  BY <1>11, <1>12, Zenon DEF v

(* Eight bits to an octet and back.                                        *)
LEMMA BitsOfOctet ==
    ASSUME NEW w \in SUBSET (0 .. 7) PROVE Bits(Number(w)) = w
<1>1. Bits(Number(w)) \in SUBSET (0 .. 7)
  BY OctetNumber, OctetBits
<1>2. \A i \in 0 .. 7 : i \in Bits(Number(w)) <=> i \in w
  <2>1. \A i \in 0 .. 7 : i \in 0 .. 15
    OBVIOUS
  <2>. QED  BY <2>1, OctetBit DEF Bits
<1>. QED  BY <1>1, <1>2

(* An octet is the number its bits stand for.                              *)
LEMMA NumberOfBits ==
    ASSUME NEW n \in 0 .. 255 PROVE Number(Bits(n)) = n
<1>1. \A i \in 0..15 : i \in Bits(n) <=> (n \div 2^i) % 2 = 1 BY DEF Bits
<1>2. /\ 8 \notin Bits(n) /\ 9 \notin Bits(n) /\ 10 \notin Bits(n) /\ 11 \notin Bits(n)
      /\ 12 \notin Bits(n) /\ 13 \notin Bits(n) /\ 14 \notin Bits(n) /\ 15 \notin Bits(n)
  BY SMT DEF Bits
<1>3. /\ 0 \in Bits(n) <=> n % 2 = 1
      /\ 1 \in Bits(n) <=> (n \div 2) % 2 = 1
      /\ 2 \in Bits(n) <=> (n \div 4) % 2 = 1
      /\ 3 \in Bits(n) <=> (n \div 8) % 2 = 1
      /\ 4 \in Bits(n) <=> (n \div 16) % 2 = 1
      /\ 5 \in Bits(n) <=> (n \div 32) % 2 = 1
      /\ 6 \in Bits(n) <=> (n \div 64) % 2 = 1
      /\ 7 \in Bits(n) <=> (n \div 128) % 2 = 1
  BY SMT DEF Bits
<1>. QED  BY <1>2, <1>3, SMT DEF Number

(* The bits of a number put together from two octets.                      *)
LEMMA JoinBits ==
    ASSUME NEW l \in 0 .. 255, NEW h \in 0 .. 255
    PROVE  Bits(l + 256 * h) = Bits(l) \cup Shift(Bits(h), 8)
<1>. DEFINE v == l + 256 * h
<1>1. ASSUME NEW i \in 0 .. 7 PROVE (v \div 2^i) % 2 = (l \div 2^i) % 2
  <2>1. i = 0 \/ i = 1 \/ i = 2 \/ i = 3 \/ i = 4 \/ i = 5 \/ i = 6 \/ i = 7 BY SMT
  <2>2. (v \div 2^0) % 2 = (l \div 2^0) % 2 BY SMT
  <2>3. (v \div 2^1) % 2 = (l \div 2^1) % 2 BY SMT
  <2>4. (v \div 2^2) % 2 = (l \div 2^2) % 2 BY SMT
  <2>5. (v \div 2^3) % 2 = (l \div 2^3) % 2 BY SMT
  <2>6. (v \div 2^4) % 2 = (l \div 2^4) % 2 BY SMT
  <2>7. (v \div 2^5) % 2 = (l \div 2^5) % 2 BY SMT
  <2>8. (v \div 2^6) % 2 = (l \div 2^6) % 2 BY SMT
  <2>9. (v \div 2^7) % 2 = (l \div 2^7) % 2 BY SMT
  <2>. HIDE DEF v
  <2>. QED BY <2>1, <2>2, <2>3, <2>4, <2>5, <2>6, <2>7, <2>8, <2>9, Zenon
<1>2. ASSUME NEW i \in 0 .. 7 PROVE (v \div 2^(i + 8)) % 2 = (h \div 2^i) % 2
  <2>1. i = 0 \/ i = 1 \/ i = 2 \/ i = 3 \/ i = 4 \/ i = 5 \/ i = 6 \/ i = 7 BY SMT
  <2>2. (v \div 2^(0+8)) % 2 = (h \div 2^0) % 2 BY SMT
  <2>3. (v \div 2^(1+8)) % 2 = (h \div 2^1) % 2 BY SMT
  <2>4. (v \div 2^(2+8)) % 2 = (h \div 2^2) % 2 BY SMT
  <2>5. (v \div 2^(3+8)) % 2 = (h \div 2^3) % 2 BY SMT
  <2>6. (v \div 2^(4+8)) % 2 = (h \div 2^4) % 2 BY SMT
  <2>7. (v \div 2^(5+8)) % 2 = (h \div 2^5) % 2 BY SMT
  <2>8. (v \div 2^(6+8)) % 2 = (h \div 2^6) % 2 BY SMT
  <2>9. (v \div 2^(7+8)) % 2 = (h \div 2^7) % 2 BY SMT
  <2>. HIDE DEF v
  <2>. QED BY <2>1, <2>2, <2>3, <2>4, <2>5, <2>6, <2>7, <2>8, <2>9, Zenon
<1>3. Bits(l) \in SUBSET (0 .. 7) /\ Bits(h) \in SUBSET (0 .. 7)
  BY OctetBits
<1>4. ASSUME NEW i \in 0 .. 15
      PROVE  i \in Bits(v) <=> i \in Bits(l) \cup Shift(Bits(h), 8)
  <2>1. CASE i \in 0 .. 7
    <3>1. i \notin Shift(Bits(h), 8)
      BY <1>3, <2>1 DEF Shift
    <3>. HIDE DEF v
    <3>. QED  BY <1>1, <2>1, <3>1 DEF Bits
  <2>2. CASE i \in 8 .. 15
    <3>1. i - 8 \in 0 .. 7 /\ i - 8 \in 0 .. 15 /\ (i - 8) + 8 = i
      BY <2>2
    <3>2. i \notin Bits(l) /\ (i \in Shift(Bits(h), 8) <=> i - 8 \in Bits(h))
      BY <1>3, <2>2 DEF Shift
    <3>3. (v \div 2^i) % 2 = (h \div 2^(i - 8)) % 2
      <4>. HIDE DEF v
      <4>. QED  BY <1>2, <3>1, Zenon
    <3>. HIDE DEF v
    <3>4. i \in Bits(v) <=> (v \div 2^i) % 2 = 1
      BY Zenon DEF Bits
    <3>5. i - 8 \in Bits(h) <=> (h \div 2^(i - 8)) % 2 = 1
      BY <3>1, Zenon DEF Bits
    <3>. QED  BY <3>2, <3>3, <3>4, <3>5, Zenon
  <2>. QED  BY <2>1, <2>2
<1>5. Bits(v) \in SUBSET (0 .. 15) /\ Bits(l) \cup Shift(Bits(h), 8) \in SUBSET (0 .. 15)
  <2>1. Shift(Bits(h), 8) \in SUBSET (0 .. 15)
    BY <1>3 DEF Shift
  <2>. HIDE DEF v
  <2>. QED  BY <2>1 DEF Bits
<1>. HIDE DEF v
<1>6. Bits(v) = Bits(l) \cup Shift(Bits(h), 8)
  BY <1>4, <1>5
<1>. QED  BY <1>6 DEF v

\* The halves of a word.
Low(w) == w \cap 0 .. 7
High(w) == {i \in 0 .. 7 : i + 8 \in w}

(* The low and the high octet of a CRC.                                    *)
LEMMA Halves ==
    ASSUME NEW w \in Word16
    PROVE  /\ Number(w) = Number(Low(w)) + 256 * Number(High(w))
           /\ w = Low(w) \cup Shift(High(w), 8)
<1>1. /\ 0 \in Low(w) <=> 0 \in w
      /\ 1 \in Low(w) <=> 1 \in w
      /\ 2 \in Low(w) <=> 2 \in w
      /\ 3 \in Low(w) <=> 3 \in w
      /\ 4 \in Low(w) <=> 4 \in w
      /\ 5 \in Low(w) <=> 5 \in w
      /\ 6 \in Low(w) <=> 6 \in w
      /\ 7 \in Low(w) <=> 7 \in w
  BY SMT DEF Low
<1>2. /\ 0 \in High(w) <=> 8 \in w
      /\ 1 \in High(w) <=> 9 \in w
      /\ 2 \in High(w) <=> 10 \in w
      /\ 3 \in High(w) <=> 11 \in w
      /\ 4 \in High(w) <=> 12 \in w
      /\ 5 \in High(w) <=> 13 \in w
      /\ 6 \in High(w) <=> 14 \in w
      /\ 7 \in High(w) <=> 15 \in w
  BY SMT DEF High
<1>3. \A i \in 8 .. 15 : i \notin Low(w) /\ i \notin High(w)
  BY SMT DEF Low, High
<1>4. Number(w) = Number(Low(w)) + 256 * Number(High(w))
  BY <1>1, <1>2, <1>3, SMT DEF Number
<1>5. w = Low(w) \cup Shift(High(w), 8)
  <2>1. \A i \in w : i \in Low(w) \/ (i - 8 \in High(w) /\ i = (i - 8) + 8)
    BY SMT DEF Low, High, Word16
  <2>. QED  BY <2>1 DEF Low, High, Shift
<1>. QED  BY <1>4, <1>5

(* Bits to a number and back.                                              *)
LEMMA BitsOfNumber ==
    ASSUME NEW w \in Word16
    PROVE  /\ Bits(Number(w)) = w
           /\ Number(w) = Number(Low(w)) + 256 * Number(High(w))
           /\ Number(Low(w)) \in 0 .. 255 /\ Number(High(w)) \in 0 .. 255
<1>1. Low(w) \in SUBSET (0 .. 7) /\ High(w) \in SUBSET (0 .. 7)
  BY DEF Low, High
<1>. DEFINE l == Number(Low(w))
            h == Number(High(w))
<1>2. l \in 0 .. 255 /\ h \in 0 .. 255
  BY <1>1, OctetNumber
<1>3. Bits(l) = Low(w) /\ Bits(h) = High(w)
  BY <1>1, BitsOfOctet
<1>4. Number(w) = l + 256 * h
  BY Halves
<1>5. Bits(l + 256 * h) = Bits(l) \cup Shift(Bits(h), 8)
  <2>. HIDE DEF l, h
  <2>. QED  BY <1>2, JoinBits
<1>. HIDE DEF l, h
<1>6. Bits(Number(w)) = w
  BY <1>3, <1>4, <1>5, Halves
<1>. QED  BY <1>2, <1>4, <1>6 DEF l, h

-----------------------------------------------------------------------------
(* What eight turns of the inner loop keep.                                *)

\* Eight turns of the inner loop.
Pass(w) == ShiftBit(ShiftBit(ShiftBit(ShiftBit(ShiftBit(ShiftBit(ShiftBit(ShiftBit(w))))))))

(* AddOctet is one pass over the register with the octet added to it.      *)
LEMMA PassIsAddOctet ==
    ASSUME NEW crc \in Word16, NEW octet
    PROVE  /\ SymDiff(crc, ShiftLeft(Bits(octet), 8)) \in Word16
           /\ AddOctet(crc, octet) = Pass(SymDiff(crc, ShiftLeft(Bits(octet), 8)))
<1>. DEFINE s == Shifts(crc, octet)
<1>1. ShiftsFrom(s, crc, octet)
  BY ShiftsDef
<1>. HIDE DEF s
<1>2. /\ s[0] = SymDiff(crc, ShiftLeft(Bits(octet), 8)) /\ s[0] \in Word16
      /\ s[1] = ShiftBit(s[0]) /\ s[2] = ShiftBit(s[1]) /\ s[3] = ShiftBit(s[2])
      /\ s[4] = ShiftBit(s[3]) /\ s[5] = ShiftBit(s[4]) /\ s[6] = ShiftBit(s[5])
      /\ s[7] = ShiftBit(s[6]) /\ s[8] = ShiftBit(s[7])
  BY <1>1, SMT DEF ShiftsFrom
<1>. QED  BY <1>2, Zenon DEF Pass, AddOctet, s

(* Adding registers makes a register.                                      *)
LEMMA SymDiffWord ==
    ASSUME NEW u \in Word16, NEW v \in Word16 PROVE SymDiff(u, v) \in Word16
BY DEF Word16, SymDiff

(* A turn of the inner loop is linear, and loses nothing.                   *)
LEMMA ShiftBitLinear ==
    ASSUME NEW u \in Word16, NEW v \in Word16
    PROVE  ShiftBit(SymDiff(u, v)) = SymDiff(ShiftBit(u), ShiftBit(v))
<1>. DEFINE d == SymDiff(u, v)
<1>1. d \in Word16 /\ ShiftBit(d) \in Word16 /\ SymDiff(ShiftBit(u), ShiftBit(v)) \in Word16
  BY SymDiffWord, ShiftBitType
<1>2. \A i : i \in d <=> Xor(i \in u, i \in v)
  BY DEF SymDiff, Xor
<1>. HIDE DEF d
<1>3. ASSUME NEW j \in 0 .. 15
      PROVE  j \in ShiftBit(d) <=> j \in SymDiff(ShiftBit(u), ShiftBit(v))
  <2>1. j \in Int
    OBVIOUS
  <2>2. j \in ShiftBit(d) <=> Xor(j - 1 \in d, 15 \in d /\ j \in {12, 5, 0})
    BY <1>1, <2>1, ShiftBitMember
  <2>3. j \in ShiftBit(u) <=> Xor(j - 1 \in u, 15 \in u /\ j \in {12, 5, 0})
    BY <2>1, ShiftBitMember
  <2>4. j \in ShiftBit(v) <=> Xor(j - 1 \in v, 15 \in v /\ j \in {12, 5, 0})
    BY <2>1, ShiftBitMember
  <2>5. j \in SymDiff(ShiftBit(u), ShiftBit(v)) <=> Xor(j \in ShiftBit(u), j \in ShiftBit(v))
    BY DEF SymDiff, Xor
  <2>. QED  BY <1>2, <2>2, <2>3, <2>4, <2>5 DEF Xor
<1>4. ShiftBit(d) = SymDiff(ShiftBit(u), ShiftBit(v))
  BY <1>1, <1>3 DEF Word16
<1>. QED  BY <1>4 DEF d

(* No register but the empty one turns to the empty one.                   *)
LEMMA ShiftBitKernel ==
    ASSUME NEW w \in Word16, ShiftBit(w) = {} PROVE w = {}
<1>1. 15 \notin w
  <2>1. 0 \in ShiftBit(w) <=> 0 \in 0 .. 15 /\ Xor(0 - 1 \in w, 15 \in w /\ 0 \in {12, 5, 0})
    BY ShiftBitMember
  <2>2. 0 - 1 \notin w
    BY DEF Word16
  <2>. QED  BY <2>1, <2>2 DEF Xor
<1>2. ASSUME NEW i \in w PROVE FALSE
  <2>1. i \in 0 .. 15
    BY DEF Word16
  <2>2. i # 15
    BY <1>1
  <2>3. i + 1 \in Int /\ i + 1 \in 0 .. 15 /\ (i + 1) - 1 = i
    BY <2>1, <2>2
  <2>4. i + 1 \in ShiftBit(w) <=>
          i + 1 \in 0 .. 15 /\ Xor((i + 1) - 1 \in w, 15 \in w /\ i + 1 \in {12, 5, 0})
    BY <2>3, ShiftBitMember
  <2>. QED  BY <1>1, <2>3, <2>4 DEF Xor
<1>. QED  BY <1>2

(* A pass keeps a register of 16 bits.                                     *)
LEMMA PassType ==
    ASSUME NEW w \in Word16 PROVE Pass(w) \in Word16
BY ShiftBitType, Zenon DEF Pass

(* A pass over a sum is the sum of the passes.                             *)
LEMMA PassLinear ==
    ASSUME NEW u \in Word16, NEW v \in Word16
    PROVE  Pass(SymDiff(u, v)) = SymDiff(Pass(u), Pass(v))
<1>. DEFINE a1 == ShiftBit(u)     b1 == ShiftBit(v)
            a2 == ShiftBit(a1)    b2 == ShiftBit(b1)
            a3 == ShiftBit(a2)    b3 == ShiftBit(b2)
            a4 == ShiftBit(a3)    b4 == ShiftBit(b3)
            a5 == ShiftBit(a4)    b5 == ShiftBit(b4)
            a6 == ShiftBit(a5)    b6 == ShiftBit(b5)
            a7 == ShiftBit(a6)    b7 == ShiftBit(b6)
<1>1. a1 \in Word16 /\ b1 \in Word16 /\ ShiftBit(SymDiff(u, v)) = SymDiff(a1, b1)
  BY ShiftBitType, ShiftBitLinear
<1>. HIDE DEF a1, b1
<1>2. a2 \in Word16 /\ b2 \in Word16 /\ ShiftBit(SymDiff(a1, b1)) = SymDiff(a2, b2)
  BY <1>1, ShiftBitType, ShiftBitLinear
<1>. HIDE DEF a2, b2
<1>3. a3 \in Word16 /\ b3 \in Word16 /\ ShiftBit(SymDiff(a2, b2)) = SymDiff(a3, b3)
  BY <1>2, ShiftBitType, ShiftBitLinear
<1>. HIDE DEF a3, b3
<1>4. a4 \in Word16 /\ b4 \in Word16 /\ ShiftBit(SymDiff(a3, b3)) = SymDiff(a4, b4)
  BY <1>3, ShiftBitType, ShiftBitLinear
<1>. HIDE DEF a4, b4
<1>5. a5 \in Word16 /\ b5 \in Word16 /\ ShiftBit(SymDiff(a4, b4)) = SymDiff(a5, b5)
  BY <1>4, ShiftBitType, ShiftBitLinear
<1>. HIDE DEF a5, b5
<1>6. a6 \in Word16 /\ b6 \in Word16 /\ ShiftBit(SymDiff(a5, b5)) = SymDiff(a6, b6)
  BY <1>5, ShiftBitType, ShiftBitLinear
<1>. HIDE DEF a6, b6
<1>7. a7 \in Word16 /\ b7 \in Word16 /\ ShiftBit(SymDiff(a6, b6)) = SymDiff(a7, b7)
  BY <1>6, ShiftBitType, ShiftBitLinear
<1>. HIDE DEF a7, b7
<1>8. ShiftBit(SymDiff(a7, b7)) = SymDiff(ShiftBit(a7), ShiftBit(b7))
  BY <1>7, ShiftBitLinear
<1>9. Pass(SymDiff(u, v)) = ShiftBit(SymDiff(a7, b7))
  BY <1>1, <1>2, <1>3, <1>4, <1>5, <1>6, <1>7, Zenon DEF Pass
<1>10. Pass(u) = ShiftBit(a7) /\ Pass(v) = ShiftBit(b7)
  BY Zenon DEF Pass, a1, a2, a3, a4, a5, a6, a7, b1, b2, b3, b4, b5, b6, b7
<1>. QED  BY <1>8, <1>9, <1>10

(* Two registers that a pass makes equal were equal.                       *)
LEMMA PassKernel ==
    ASSUME NEW w \in Word16, Pass(w) = {} PROVE w = {}
<1>1. \A u \in Word16 : ShiftBit(u) \in Word16 /\ (ShiftBit(u) = {} => u = {})
  BY ShiftBitType, ShiftBitKernel
<1>. QED  BY <1>1, Zenon DEF Pass

(* An octet moves up one place with each turn, and meets no feedback.      *)
LEMMA ShiftBitLow ==
    ASSUME NEW y \in SUBSET (0 .. 7), NEW k \in 0 .. 7
    PROVE  ShiftBit(Shift(y, k)) = Shift(y, k + 1)
<1>1. Shift(y, k) \in SUBSET (0 .. 14) /\ Shift(y, k + 1) \in SUBSET (0 .. 15)
  BY DEF Shift
<1>2. 15 \notin Shift(y, k)
  BY <1>1
<1>3. ShiftBit(Shift(y, k)) = ShiftLeft(Shift(y, k), 1)
  BY <1>2 DEF ShiftBit
<1>4. {i + 1 : i \in Shift(y, k)} = Shift(y, k + 1)
  <2>1. \A i \in y : (i + k) + 1 = i + (k + 1)
    OBVIOUS
  <2>. QED  BY <2>1, Zenon DEF Shift
<1>. QED  BY <1>1, <1>3, <1>4 DEF ShiftLeft

(* Low bits only move.                                                     *)
LEMMA PassLow ==
    ASSUME NEW y \in SUBSET (0 .. 7)
    PROVE  y \in Word16 /\ ShiftLeft(y, 8) \in Word16 /\ Pass(y) = ShiftLeft(y, 8)
<1>0. y \in Word16 /\ ShiftLeft(y, 8) \in Word16
  BY DEF Word16, ShiftLeft
<1>1. Shift(y, 0) = y
  <2>1. \A i \in y : i + 0 = i
    OBVIOUS
  <2>. QED  BY <2>1, Zenon DEF Shift
<1>2. /\ ShiftBit(Shift(y, 0)) = Shift(y, 1) /\ ShiftBit(Shift(y, 1)) = Shift(y, 2)
      /\ ShiftBit(Shift(y, 2)) = Shift(y, 3) /\ ShiftBit(Shift(y, 3)) = Shift(y, 4)
      /\ ShiftBit(Shift(y, 4)) = Shift(y, 5) /\ ShiftBit(Shift(y, 5)) = Shift(y, 6)
      /\ ShiftBit(Shift(y, 6)) = Shift(y, 7) /\ ShiftBit(Shift(y, 7)) = Shift(y, 8)
  <2>1. /\ 0 + 1 = 1 /\ 1 + 1 = 2 /\ 2 + 1 = 3 /\ 3 + 1 = 4 /\ 4 + 1 = 5 /\ 5 + 1 = 6
        /\ 6 + 1 = 7 /\ 7 + 1 = 8
    OBVIOUS
  <2>2. \A k \in 0 .. 7 : ShiftBit(Shift(y, k)) = Shift(y, k + 1)
    BY ShiftBitLow
  <2>3. /\ 0 \in 0 .. 7 /\ 1 \in 0 .. 7 /\ 2 \in 0 .. 7 /\ 3 \in 0 .. 7 /\ 4 \in 0 .. 7
        /\ 5 \in 0 .. 7 /\ 6 \in 0 .. 7 /\ 7 \in 0 .. 7
    OBVIOUS
  <2>. QED  BY <2>1, <2>2, <2>3
<1>3. Shift(y, 8) = ShiftLeft(y, 8)
  BY DEF Shift, ShiftLeft
<1>. QED  BY <1>0, <1>1, <1>2, <1>3, Zenon DEF Pass

\* v is u after a turn, bit by bit.
Turned(u, v) ==
    /\ 0 \in v <=> 15 \in u
    /\ 1 \in v <=> 0 \in u
    /\ 2 \in v <=> 1 \in u
    /\ 3 \in v <=> 2 \in u
    /\ 4 \in v <=> 3 \in u
    /\ 5 \in v <=> Xor(4 \in u, 15 \in u)
    /\ 6 \in v <=> 5 \in u
    /\ 7 \in v <=> 6 \in u
    /\ 8 \in v <=> 7 \in u
    /\ 9 \in v <=> 8 \in u
    /\ 10 \in v <=> 9 \in u
    /\ 11 \in v <=> 10 \in u
    /\ 12 \in v <=> Xor(11 \in u, 15 \in u)
    /\ 13 \in v <=> 12 \in u
    /\ 14 \in v <=> 13 \in u
    /\ 15 \in v <=> 14 \in u

(* One turn, bit by bit.                                                   *)
LEMMA TurnedBits ==
    ASSUME NEW w \in Word16 PROVE Turned(w, ShiftBit(w))
<1>. DEFINE v == ShiftBit(w)
<1>1. \A j \in 0 .. 15 : j \in v <=> Xor(j - 1 \in w, 15 \in w /\ j \in {12, 5, 0})
  BY ShiftBitMember
<1>2. 0 - 1 \notin w
  BY DEF Word16
<1>. HIDE DEF v
<1>3. Turned(w, v)
  BY <1>1, <1>2, SMT DEF Turned, Xor
<1>. QED  BY <1>3 DEF v

(* Inverting the bits x of the last octet a CRC covers changes the low      *)
(* octet of the CRC alone for one x only.                                  *)
LEMMA BlindSpot ==
    ASSUME NEW x \in SUBSET (0 .. 7), NEW y \in SUBSET (0 .. 7), Pass(ShiftLeft(x, 8)) = y
    PROVE  (x = {} /\ y = {}) \/ (x = {0, 3, 7} /\ y = {0, 5, 7})
<1>. DEFINE w0 == ShiftLeft(x, 8)
            w1 == ShiftBit(w0)
            w2 == ShiftBit(w1)
            w3 == ShiftBit(w2)
            w4 == ShiftBit(w3)
            w5 == ShiftBit(w4)
            w6 == ShiftBit(w5)
            w7 == ShiftBit(w6)
<1>0. w0 \in Word16
  BY PassLow
<1>1. /\ 0 \in x <=> 8 \in w0
      /\ 1 \in x <=> 9 \in w0
      /\ 2 \in x <=> 10 \in w0
      /\ 3 \in x <=> 11 \in w0
      /\ 4 \in x <=> 12 \in w0
      /\ 5 \in x <=> 13 \in w0
      /\ 6 \in x <=> 14 \in w0
      /\ 7 \in x <=> 15 \in w0
      /\ 0 \notin w0 /\ 1 \notin w0 /\ 2 \notin w0 /\ 3 \notin w0
      /\ 4 \notin w0 /\ 5 \notin w0 /\ 6 \notin w0 /\ 7 \notin w0
  BY SMT DEF ShiftLeft
<1>. HIDE DEF w0
<1>2. w1 \in Word16 /\ Turned(w0, w1)
  BY <1>0, ShiftBitType, TurnedBits
<1>. HIDE DEF w1
<1>3. w2 \in Word16 /\ Turned(w1, w2)
  BY <1>2, ShiftBitType, TurnedBits
<1>. HIDE DEF w2
<1>4. w3 \in Word16 /\ Turned(w2, w3)
  BY <1>3, ShiftBitType, TurnedBits
<1>. HIDE DEF w3
<1>5. w4 \in Word16 /\ Turned(w3, w4)
  BY <1>4, ShiftBitType, TurnedBits
<1>. HIDE DEF w4
<1>6. w5 \in Word16 /\ Turned(w4, w5)
  BY <1>5, ShiftBitType, TurnedBits
<1>. HIDE DEF w5
<1>7. w6 \in Word16 /\ Turned(w5, w6)
  BY <1>6, ShiftBitType, TurnedBits
<1>. HIDE DEF w6
<1>8. w7 \in Word16 /\ Turned(w6, w7)
  BY <1>7, ShiftBitType, TurnedBits
<1>9. Turned(w7, y)
  <2>. HIDE DEF w7
  <2>1. Pass(w0) = ShiftBit(w7)
    BY Zenon DEF Pass, w1, w2, w3, w4, w5, w6, w7
  <2>2. ShiftBit(w7) = y
    BY <2>1 DEF w0
  <2>. QED  BY <1>8, <2>2, TurnedBits
<1>. HIDE DEF w7
<1>10. /\ 8 \notin y /\ 9 \notin y /\ 10 \notin y /\ 11 \notin y
       /\ 12 \notin y /\ 13 \notin y /\ 14 \notin y /\ 15 \notin y
  BY SMT
\* Backwards, and then what w0 says.
<1>11. /\ 1 \notin x /\ 2 \notin x /\ 4 \notin x /\ 5 \notin x /\ 6 \notin x
       /\ 3 \in x <=> 7 \in x
       /\ 0 \in x <=> 7 \in x
       /\ 1 \notin y /\ 2 \notin y /\ 3 \notin y /\ 4 \notin y /\ 6 \notin y
       /\ 0 \in y <=> 7 \in x
       /\ 5 \in y <=> 7 \in x
       /\ 7 \in y <=> 7 \in x
  BY <1>1, <1>2, <1>3, <1>4, <1>5, <1>6, <1>7, <1>8, <1>9, <1>10, SMTT(60) DEF Turned, Xor
<1>12. \A i \in 0 .. 7 : i \in {0, 1, 2, 3, 4, 5, 6, 7}
  BY SMT
<1>13. CASE 7 \in x
  <2>1. x = {0, 3, 7}
    BY <1>11, <1>12, <1>13, Zenon
  <2>2. y = {0, 5, 7}
    BY <1>11, <1>12, <1>13, Zenon
  <2>. QED  BY <2>1, <2>2
<1>14. CASE 7 \notin x
  <2>1. x = {}
    BY <1>11, <1>12, <1>14, Zenon
  <2>2. y = {}
    BY <1>11, <1>12, <1>14, Zenon
  <2>. QED  BY <2>1, <2>2
<1>. QED  BY <1>13, <1>14

-----------------------------------------------------------------------------
(* Damage to the octets a CRC covers.                                      *)

\* The register at the end of the message, and how two registers differ after
\* n octets.
Check(data) == Registers(CRC16_SEED, data)[Len(data)]
Apart(c, e, n) == SymDiff(Registers(CRC16_SEED, c)[n], Registers(CRC16_SEED, e)[n])

(* The CRC is the last register of the octet loop, read as a number.       *)
LEMMA SeededRegisters ==
    ASSUME NEW data \in Seq(0 .. 255)
    PROVE  /\ Len(data) \in Nat
           /\ RegistersFrom(Registers(CRC16_SEED, data), CRC16_SEED, data)
           /\ Check(data) \in Word16
           /\ crc16_compute(data) = Number(Check(data))
<1>1. Len(data) \in Nat /\ CRC16_SEED \in Word16
  BY LenProperties DEF CRC16_SEED, Word16
<1>2. RegistersFrom(Registers(CRC16_SEED, data), CRC16_SEED, data)
  BY <1>1, RegistersDef
<1>3. Len(data) \in 0 .. Len(data)
  BY <1>1
<1>4. Check(data) \in Word16
  BY <1>2, <1>3, Zenon DEF RegistersFrom, Check
<1>. QED  BY <1>1, <1>2, <1>4 DEF crc16_compute, Check

(* A shift of a sum is the sum of the shifts.                              *)
LEMMA ShiftLeftLinear ==
    ASSUME NEW A \in SUBSET (0 .. 15), NEW B \in SUBSET (0 .. 15)
    PROVE  ShiftLeft(SymDiff(A, B), 8) = SymDiff(ShiftLeft(A, 8), ShiftLeft(B, 8))
<1>1. \A C \in SUBSET (0 .. 15) : \A i \in 0 .. 15 : i \in ShiftLeft(C, 8) <=> i - 8 \in C
  BY DEF ShiftLeft
<1>2. SymDiff(A, B) \in SUBSET (0 .. 15)
  BY DEF SymDiff
<1>3. /\ ShiftLeft(SymDiff(A, B), 8) \in SUBSET (0 .. 15)
      /\ ShiftLeft(A, 8) \in SUBSET (0 .. 15) /\ ShiftLeft(B, 8) \in SUBSET (0 .. 15)
  BY DEF ShiftLeft
<1>4. \A i \in 0 .. 15 : i \in ShiftLeft(SymDiff(A, B), 8)
                            <=> i \in SymDiff(ShiftLeft(A, 8), ShiftLeft(B, 8))
  <2>. TAKE i \in 0 .. 15
  <2>1. i \in ShiftLeft(SymDiff(A, B), 8) <=> i - 8 \in SymDiff(A, B)
    BY <1>1, <1>2
  <2>2. i \in ShiftLeft(A, 8) <=> i - 8 \in A
    BY <1>1
  <2>3. i \in ShiftLeft(B, 8) <=> i - 8 \in B
    BY <1>1
  <2>. QED  BY <2>1, <2>2, <2>3, Zenon DEF SymDiff
<1>5. SymDiff(ShiftLeft(A, 8), ShiftLeft(B, 8)) \in SUBSET (0 .. 15)
  BY <1>3 DEF SymDiff
<1>. QED  BY <1>3, <1>4, <1>5

(* Exclusive or, rearranged.                                               *)
LEMMA Regroup ==
    ASSUME NEW a, NEW b, NEW c, NEW d
    PROVE  SymDiff(SymDiff(a, b), SymDiff(c, d)) = SymDiff(SymDiff(a, c), SymDiff(b, d))
BY Zenon DEF SymDiff

(* How the difference goes on.                                             *)
LEMMA ApartStep ==
    ASSUME NEW c \in Seq(0 .. 255), NEW e \in Seq(0 .. 255), Len(e) = Len(c),
           NEW n \in 1 .. Len(c)
    PROVE  /\ Apart(c, e, n - 1) \in Word16
           /\ ShiftLeft(SymDiff(Bits(c[n]), Bits(e[n])), 8) \in Word16
           /\ Apart(c, e, n) =
                Pass(SymDiff(Apart(c, e, n - 1), ShiftLeft(SymDiff(Bits(c[n]), Bits(e[n])), 8)))
<1>. DEFINE g == Registers(CRC16_SEED, c)
            h == Registers(CRC16_SEED, e)
            m == Len(c)
            A == Bits(c[n])
            B == Bits(e[n])
            p == ShiftLeft(A, 8)
            q == ShiftLeft(B, 8)
<1>1. m \in Nat /\ n - 1 \in 0 .. m /\ n \in 1 .. m /\ n \in 1 .. Len(e)
  BY SeededRegisters
<1>2. /\ g[n - 1] \in Word16 /\ g[n] = AddOctet(g[n - 1], c[n])
      /\ h[n - 1] \in Word16 /\ h[n] = AddOctet(h[n - 1], e[n])
  <2>1. RegistersFrom(g, CRC16_SEED, c) /\ RegistersFrom(h, CRC16_SEED, e)
    BY SeededRegisters
  <2>. HIDE DEF g, h
  <2>. QED  BY <1>1, <2>1, Zenon DEF RegistersFrom
<1>. HIDE DEF g, h
<1>3. /\ SymDiff(g[n - 1], p) \in Word16 /\ g[n] = Pass(SymDiff(g[n - 1], p))
      /\ SymDiff(h[n - 1], q) \in Word16 /\ h[n] = Pass(SymDiff(h[n - 1], q))
  BY <1>2, PassIsAddOctet
<1>4. SymDiff(g[n], h[n]) = Pass(SymDiff(SymDiff(g[n - 1], p), SymDiff(h[n - 1], q)))
  <2>. HIDE DEF p, q
  <2>. QED  BY <1>3, PassLinear
<1>5. SymDiff(SymDiff(g[n - 1], p), SymDiff(h[n - 1], q)) =
        SymDiff(SymDiff(g[n - 1], h[n - 1]), SymDiff(p, q))
  BY Regroup
<1>6. A \in SUBSET (0 .. 15) /\ B \in SUBSET (0 .. 15)
  BY DEF Bits
<1>7. SymDiff(p, q) = ShiftLeft(SymDiff(A, B), 8)
  <2>. HIDE DEF A, B
  <2>. QED  BY <1>6, ShiftLeftLinear
<1>8. ShiftLeft(SymDiff(A, B), 8) \in Word16
  BY DEF ShiftLeft, Word16
<1>9. SymDiff(g[n - 1], h[n - 1]) \in Word16
  BY <1>2, SymDiffWord
<1>. HIDE DEF p, q, A, B
<1>10. /\ Apart(c, e, n) = SymDiff(g[n], h[n])
       /\ Apart(c, e, n - 1) = SymDiff(g[n - 1], h[n - 1])
  BY DEF Apart, g, h
<1>11. Apart(c, e, n) = Pass(SymDiff(Apart(c, e, n - 1), ShiftLeft(SymDiff(A, B), 8)))
  BY <1>4, <1>5, <1>7, <1>10
<1>. QED  BY <1>8, <1>9, <1>10, <1>11 DEF A, B

(* The empty register stays empty.                                         *)
LEMMA EmptyPasses == Pass({}) = {} /\ ShiftLeft({}, 8) = {} /\ {} \in Word16
<1>1. {} \in SUBSET (0 .. 7) /\ ShiftLeft({}, 8) = {} /\ {} \in Word16
  BY DEF ShiftLeft, Word16
<1>. QED  BY <1>1, PassLow

(* An undamaged octet passes the difference on.                            *)
LEMMA ApartPasses ==
    ASSUME NEW c \in Seq(0 .. 255), NEW e \in Seq(0 .. 255), Len(e) = Len(c),
           NEW n \in 1 .. Len(c), c[n] = e[n]
    PROVE  Apart(c, e, n - 1) \in Word16 /\ Apart(c, e, n) = Pass(Apart(c, e, n - 1))
<1>1. SymDiff(Bits(c[n]), Bits(e[n])) = {}
  BY Zenon DEF SymDiff
<1>2. \A w : SymDiff(w, {}) = w
  BY Zenon DEF SymDiff
<1>3. /\ Apart(c, e, n - 1) \in Word16
      /\ Apart(c, e, n) = Pass(SymDiff(Apart(c, e, n - 1), ShiftLeft({}, 8)))
  BY <1>1, ApartStep
<1>. QED  BY <1>2, <1>3, EmptyPasses, Zenon

\* Two messages that agree but for x in octet j and y in the one behind it.
Hit(c, e, j, x, y) ==
    /\ Len(e) = Len(c)
    /\ \A k \in 1 .. Len(c) : k # j /\ k # j + 1 => c[k] = e[k]
    /\ j <= Len(c) => SymDiff(Bits(c[j]), Bits(e[j])) = x
    /\ j + 1 <= Len(c) => SymDiff(Bits(c[j + 1]), Bits(e[j + 1])) = y

(* Up to the first damaged octet the two registers agree; there they part. *)
LEMMA ApartAtHit ==
    ASSUME NEW c \in Seq(0 .. 255), NEW e \in Seq(0 .. 255), NEW j \in 1 .. Len(c) + 1,
           NEW x, NEW y, Hit(c, e, j, x, y)
    PROVE  /\ Apart(c, e, j - 1) = {}
           /\ j <= Len(c) => ShiftLeft(x, 8) \in Word16 /\ Apart(c, e, j) = Pass(ShiftLeft(x, 8))
<1>. DEFINE m == Len(c)
            D(n) == Apart(c, e, n)
            T == {n \in 0 .. m : n < j => D(n) = {}}
<1>1. m \in Nat /\ Len(e) = Len(c)
  BY SeededRegisters DEF Hit
<1>2. 0 \in T
  <2>1. Registers(CRC16_SEED, c)[0] = Registers(CRC16_SEED, e)[0]
    BY SeededRegisters DEF RegistersFrom
  <2>2. D(0) = {}
    BY <2>1, Zenon DEF Apart, SymDiff
  <2>. QED  BY <1>1, <2>2
<1>3. ASSUME NEW n \in 1 .. m, n - 1 \in T PROVE n \in T
  <2>1. SUFFICES ASSUME n < j PROVE D(n) = {}
    BY <1>1
  <2>2. D(n - 1) = {}
    BY <1>1, <1>3, <2>1
  <2>3. c[n] = e[n]
    BY <1>1, <2>1 DEF Hit
  <2>4. D(n) = Pass(D(n - 1))
    BY <1>1, <2>3, ApartPasses
  <2>. HIDE DEF D
  <2>. QED  BY <2>2, <2>4, EmptyPasses
<1>4. \A n \in 0 .. m : n \in T
  <2>. HIDE DEF T, m
  <2>. QED  BY <1>1, <1>2, <1>3, Induction
<1>5. D(j - 1) = {}
  <2>1. j - 1 \in 0 .. m /\ j - 1 < j
    BY <1>1
  <2>. HIDE DEF D
  <2>. QED  BY <1>4, <2>1
<1>6. ASSUME j <= m
      PROVE  ShiftLeft(x, 8) \in Word16 /\ D(j) = Pass(ShiftLeft(x, 8))
  <2>1. j \in 1 .. m /\ SymDiff(Bits(c[j]), Bits(e[j])) = x
    BY <1>1, <1>6 DEF Hit
  <2>2. ShiftLeft(x, 8) \in Word16 /\ D(j) = Pass(SymDiff(D(j - 1), ShiftLeft(x, 8)))
    BY <1>1, <2>1, ApartStep
  <2>3. \A w : SymDiff({}, w) = w
    BY Zenon DEF SymDiff
  <2>. HIDE DEF D
  <2>. QED  BY <1>5, <2>2, <2>3
<1>. QED  BY <1>5, <1>6

(* Damage to two neighbouring octets, both covered, changes the CRC.        *)
LEMMA InnerDamageShows ==
    ASSUME NEW c \in Seq(0 .. 255), NEW e \in Seq(0 .. 255), NEW j \in 1 .. Len(c),
           j < Len(c), NEW x \in SUBSET (0 .. 7), NEW y \in SUBSET (0 .. 7),
           Hit(c, e, j, x, y), x # {} \/ y # {}
    PROVE  Check(c) # Check(e)
<1>. DEFINE m == Len(c)
            D(n) == Apart(c, e, n)
            X == ShiftLeft(x, 8)
            T == {n \in 0 .. m : n > j => D(n) # {}}
<1>1. m \in Nat /\ Len(e) = Len(c) /\ j + 1 \in 1 .. m /\ (j + 1) - 1 = j
  BY SeededRegisters DEF Hit
<1>2. X \in Word16 /\ D(j) = Pass(X) /\ Pass(X) \in Word16
  <2>1. j \in 1 .. Len(c) + 1 /\ j <= Len(c)
    BY <1>1
  <2>. QED  BY <2>1, ApartAtHit, PassType
<1>3. y \in Word16 /\ ShiftLeft(y, 8) \in Word16 /\ Pass(y) = ShiftLeft(y, 8)
  BY PassLow
<1>4. D(j + 1) = Pass(Pass(SymDiff(X, y)))
  <2>1. SymDiff(Bits(c[j + 1]), Bits(e[j + 1])) = y
    BY <1>1 DEF Hit
  <2>2. D(j + 1) = Pass(SymDiff(D(j), ShiftLeft(y, 8)))
    BY <1>1, <2>1, ApartStep
  <2>3. Pass(SymDiff(X, y)) = SymDiff(Pass(X), Pass(y))
    BY <1>2, <1>3, PassLinear
  <2>. HIDE DEF D
  <2>. QED  BY <1>2, <1>3, <2>2, <2>3
<1>5. SymDiff(X, y) # {}
  <2>1. ASSUME X = y PROVE FALSE
    <3>1. \A i \in x : i + 8 \in X /\ i + 8 \notin y
      BY DEF ShiftLeft
    <3>2. x = {}
      BY <2>1, <3>1
    <3>3. X = {}
      BY <3>2, EmptyPasses
    <3>. QED  BY <2>1, <3>2, <3>3
  <2>2. SymDiff(X, y) = {} => X = y
    BY Zenon DEF SymDiff
  <2>. QED  BY <2>1, <2>2
<1>6. D(j + 1) # {}
  <2>1. SymDiff(X, y) \in Word16
    BY <1>2, <1>3, SymDiffWord
  <2>. HIDE DEF D, X
  <2>. QED  BY <1>4, <1>5, <2>1, PassType, PassKernel
<1>7. 0 \in T
  BY <1>1
<1>8. ASSUME NEW n \in 1 .. m, n - 1 \in T PROVE n \in T
  <2>1. SUFFICES ASSUME n > j PROVE D(n) # {}
    BY <1>1
  <2>2. CASE n = j + 1
    BY <1>6, <2>2
  <2>3. CASE n # j + 1
    <3>1. n - 1 > j /\ n # j
      BY <1>1, <2>1, <2>3
    <3>2. D(n - 1) # {}
      BY <1>8, <3>1
    <3>3. c[n] = e[n]
      BY <2>3, <3>1 DEF Hit
    <3>4. D(n - 1) \in Word16 /\ D(n) = Pass(D(n - 1))
      BY <1>1, <3>3, ApartPasses
    <3>. HIDE DEF D
    <3>. QED  BY <3>2, <3>4, PassKernel
  <2>. QED  BY <2>2, <2>3
<1>9. D(m) # {}
  <2>1. \A n \in 0 .. m : n \in T
    <3>. HIDE DEF T, m
    <3>. QED  BY <1>1, <1>7, <1>8, Induction
  <2>2. m \in 0 .. m /\ m > j
    BY <1>1
  <2>. QED  BY <2>1, <2>2
<1>10. D(m) = SymDiff(Check(c), Check(e))
  BY <1>1 DEF Apart, Check
<1>11. Check(c) = Check(e) => SymDiff(Check(c), Check(e)) = {}
  BY Zenon DEF SymDiff
<1>. QED  BY <1>9, <1>10, <1>11

(* Damage to the last octet covered, and y in the low octet of the CRC:     *)
(* one pair goes unnoticed.                                                *)
LEMMA EdgeDamageShows ==
    ASSUME NEW c \in Seq(0 .. 255), NEW e \in Seq(0 .. 255), Len(c) >= 1,
           NEW x \in SUBSET (0 .. 7), NEW y \in SUBSET (0 .. 7), Hit(c, e, Len(c), x, y),
           SymDiff(Check(c), Check(e)) = y
    PROVE  (x = {} /\ y = {}) \/ (x = {0, 3, 7} /\ y = {0, 5, 7})
<1>1. Len(c) \in 1 .. Len(c) + 1 /\ Len(c) <= Len(c) /\ Len(e) = Len(c)
  BY SeededRegisters DEF Hit
<1>2. Apart(c, e, Len(c)) = Pass(ShiftLeft(x, 8))
  BY <1>1, ApartAtHit
<1>3. Apart(c, e, Len(c)) = y
  BY <1>1 DEF Apart, Check
<1>. QED  BY <1>2, <1>3, BlindSpot

(* Without damage to the octets covered the CRC is the same.               *)
LEMMA SameCheck ==
    ASSUME NEW c \in Seq(0 .. 255), NEW e \in Seq(0 .. 255), NEW x, NEW y,
           Hit(c, e, Len(c) + 1, x, y)
    PROVE  c = e
<1>1. Len(c) \in Nat /\ Len(e) = Len(c) /\ DOMAIN c = 1 .. Len(c) /\ DOMAIN e = 1 .. Len(c)
  BY LenProperties DEF Hit
<1>2. \A k \in 1 .. Len(c) : c[k] = e[k]
  BY <1>1 DEF Hit
<1>. QED  BY <1>1, <1>2, SeqEqual

-----------------------------------------------------------------------------
(* Commands as frames.                                                     *)

\* u is s, of m members of S, followed by t, of n.
Joins(u, S, s, m, t, n) ==
    /\ u \in Seq(S)
    /\ Len(u) = m + n
    /\ \A i \in 1 .. m + n : u[i] = IF i <= m THEN s[i] ELSE t[i - m]

(* Concatenation, with the lengths given.                                  *)
LEMMA Concat ==
    ASSUME NEW S, NEW s \in Seq(S), NEW t \in Seq(S), NEW m, NEW n, Len(s) = m, Len(t) = n
    PROVE  Joins(s \o t, S, s, m, t, n)
BY ConcatProperties, Zenon DEF Joins

\* What a frame with this opcode and payload holds where it can be read back.
Carries(f, opcode, payload) ==
    /\ f # <<>>
    /\ f[2] = opcode
    /\ f[3] = Len(payload)
    /\ \A i \in 1 .. Len(payload) : f[i + 3] = payload[i] % 256

(* A frame carries its opcode, the length and the octets of its payload,   *)
(* whatever its CRC is.                                                    *)
LEMMA FrameCarries ==
    ASSUME NEW opcode \in Nat, NEW payload \in Seq(Nat)
    PROVE  Carries(build_frame(opcode, payload), opcode, payload)
<1>. DEFINE n == Len(payload)
            head == <<opcode, n>>
            cut == [i \in DOMAIN payload |-> payload[i] % 256]
            covered == head \o cut
            crc == put_u16_le(crc16_compute(covered))
            S == Nat \cup {crc[1], crc[2]}
            sof == <<PROTOCOL_SOF>>
            start == sof \o covered
            f == start \o crc
<1>1. n \in Nat /\ DOMAIN payload = 1 .. n /\ \A i \in 1 .. n : payload[i] \in Nat
  BY LenProperties, ElementOfSeq
<1>2. cut \in Seq(S) /\ Len(cut) = n /\ \A i \in 1 .. n : cut[i] = payload[i] % 256
  <2>. HIDE DEF n, crc
  <2>1. \A i \in 1 .. n : payload[i] % 256 \in S
    BY <1>1
  <2>2. cut = [i \in 1 .. n |-> payload[i] % 256]
    BY <1>1
  <2>. HIDE DEF S
  <2>. QED  BY <1>1, <2>1, <2>2
<1>3. head \in Seq(S) /\ Len(head) = 2 /\ head[1] = opcode /\ head[2] = n
  BY <1>1
<1>4. sof \in Seq(S) /\ Len(sof) = 1
  BY DEF PROTOCOL_SOF
<1>5. crc \in Seq(S) /\ Len(crc) = 2
  BY DEF put_u16_le
<1>. HIDE DEF n, head, cut, crc, S, sof
<1>6. Joins(covered, S, head, 2, cut, n)
  BY <1>2, <1>3, Concat, Zenon
<1>. HIDE DEF covered
<1>7. Joins(start, S, sof, 1, covered, 2 + n)
  <2>1. covered \in Seq(S) /\ Len(covered) = 2 + n
    BY <1>6, Zenon DEF Joins
  <2>. QED  BY <1>4, <2>1, Concat, Zenon
<1>. HIDE DEF start
<1>8. Joins(f, S, start, 1 + (2 + n), crc, 2)
  <2>1. start \in Seq(S) /\ Len(start) = 1 + (2 + n)
    BY <1>7, Zenon DEF Joins
  <2>. QED  BY <1>5, <2>1, Concat, Zenon
<1>. HIDE DEF f
<1>9. \A i \in 1 .. 2 + n : f[i + 1] = covered[i]
  <2>. TAKE i \in 1 .. 2 + n
  <2>1. /\ i + 1 \in 1 .. (1 + (2 + n)) + 2 /\ i + 1 <= 1 + (2 + n)
        /\ i + 1 \in 1 .. 1 + (2 + n) /\ ~(i + 1 <= 1) /\ (i + 1) - 1 = i
    BY <1>1
  <2>2. f[i + 1] = start[i + 1]
    BY <1>8, <2>1 DEF Joins
  <2>3. start[i + 1] = covered[(i + 1) - 1]
    BY <1>7, <2>1 DEF Joins
  <2>. QED  BY <2>1, <2>2, <2>3
<1>10. f[2] = opcode /\ f[3] = n
  <2>1. 1 \in 1 .. 2 + n /\ 2 \in 1 .. 2 + n /\ 1 + 1 = 2 /\ 2 + 1 = 3 /\ 1 <= 2 /\ 2 <= 2
    BY <1>1
  <2>2. covered[1] = head[1] /\ covered[2] = head[2]
    BY <1>6, <2>1 DEF Joins
  <2>3. f[1 + 1] = covered[1] /\ f[2 + 1] = covered[2]
    BY <1>9, <2>1
  <2>. QED  BY <1>3, <2>1, <2>2, <2>3
<1>11. ASSUME NEW i \in 1 .. n PROVE f[i + 3] = payload[i] % 256
  <2>1. /\ i + 2 \in 1 .. 2 + n /\ ~(i + 2 <= 2) /\ (i + 2) - 2 = i /\ (i + 2) + 1 = i + 3
    BY <1>1
  <2>2. f[(i + 2) + 1] = covered[i + 2]
    BY <1>9, <2>1
  <2>3. covered[i + 2] = cut[(i + 2) - 2]
    BY <1>6, <2>1 DEF Joins
  <2>. QED  BY <1>2, <2>1, <2>2, <2>3
<1>12. f # <<>>
  BY <1>1, <1>8 DEF Joins
<1>13. f = build_frame(opcode, payload)
  BY DEF f, start, sof, crc, covered, cut, head, n, build_frame
<1>. QED  BY <1>10, <1>11, <1>12, <1>13 DEF Carries, n

(* The cast to uint8_t leaves an octet alone.                              *)
LEMMA UncutOctet ==
    ASSUME NEW v \in Nat, v < 256 PROVE v % 256 = v
OBVIOUS

\* A sequence of octets.
IsOctets(p) == p \in Seq(Nat) /\ \A i \in DOMAIN p : p[i] < 256

(* Frames that are equal carry the same.                                   *)
LEMMA SameFrame ==
    ASSUME NEW o \in Nat, NEW p, NEW q \in Nat, NEW r, IsOctets(p), IsOctets(r),
           build_frame(o, p) = build_frame(q, r)
    PROVE  o = q /\ p = r
<1>0. /\ p \in Seq(Nat) /\ \A i \in DOMAIN p : p[i] < 256
      /\ r \in Seq(Nat) /\ \A i \in DOMAIN r : r[i] < 256
  BY DEF IsOctets
<1>1. /\ Len(p) \in Nat /\ DOMAIN p = 1 .. Len(p) /\ \A i \in 1 .. Len(p) : p[i] \in Nat
      /\ Len(r) \in Nat /\ DOMAIN r = 1 .. Len(r) /\ \A i \in 1 .. Len(r) : r[i] \in Nat
  BY <1>0, LenProperties, ElementOfSeq
<1>. DEFINE f == build_frame(o, p)
<1>2. Carries(f, o, p) /\ Carries(f, q, r)
  BY <1>0, FrameCarries
<1>. HIDE DEF f
<1>3. o = q /\ Len(p) = Len(r)
  BY <1>2 DEF Carries
<1>4. ASSUME NEW i \in 1 .. Len(p) PROVE p[i] = r[i]
  <2>1. f[i + 3] = p[i] % 256 /\ f[i + 3] = r[i] % 256
    BY <1>2, <1>3 DEF Carries
  <2>2. p[i] \in Nat /\ p[i] < 256 /\ r[i] \in Nat /\ r[i] < 256
    BY <1>0, <1>1, <1>3
  <2>. QED  BY <2>1, <2>2, UncutOctet, Zenon
<1>5. \A i \in 1 .. Len(p) : p[i] = r[i]
  BY <1>4
<1>6. Len(p) = Len(r)
  BY <1>3
<1>7. p = r
  BY <1>0, <1>5, <1>6, SeqEqual, Zenon
<1>. QED  BY <1>3, <1>7

-----------------------------------------------------------------------------
(* Calls of the library.                                                   *)

\* The commands by the arguments they take.
PlainOps == {"probe", "reset"}
EnumOps == {"gpio_cfg", "gpio_set", "irq_cfg", "channel_cfg"}
PinOps == {"gpio_get", "irq_unbind", "gpio_toggle", "channel_release", "channel_get"}
GroupOps == {"group_get", "group_release"}
Ops == PlainOps \cup EnumOps \cup PinOps \cup GroupOps
         \cup {"irq_bind", "group_cfg", "channel_set"}

Arguments(op, a) ==
    /\ a \in Seq(Nat)
    /\ op \in PlainOps => Len(a) = 0
    /\ op \in GroupOps => Len(a) = 1
    /\ op \in PinOps \cup {"group_cfg"} => Len(a) = 2
    /\ op \in EnumOps \cup {"channel_set"} => Len(a) = 3
    /\ op = "irq_bind" => Len(a) = 6

OpcodeOf ==
    [probe |-> 16, reset |-> 17,
     gpio_cfg |-> 48, gpio_set |-> 49, gpio_get |-> 50, irq_bind |-> 51,
     irq_cfg |-> 52, irq_unbind |-> 53, gpio_toggle |-> 54,
     group_cfg |-> 64, channel_cfg |-> 65, channel_set |-> 66, channel_release |-> 67,
     channel_get |-> 68, group_get |-> 69, group_release |-> 70]

Payload(op, a) ==
    IF op = "group_cfg" THEN put_u32_le(a[1]) \o <<a[2]>>
    ELSE IF op = "channel_set" THEN put_u16_le(a[1]) \o <<a[2], a[3]>>
    ELSE a

\* The arguments the builder of a command accepts.
Lawful(op, a) ==
    /\ op \in {"gpio_cfg", "gpio_set", "channel_cfg"} => a[1] \in 0 .. 1 /\ Pins(a[2], a[3])
    /\ op = "irq_cfg" => a[1] \in 0 .. 3 /\ Pins(a[2], a[3])
    /\ op \in PinOps => Pins(a[1], a[2])
    /\ op \in GroupOps => is_valid_group(a[1])
    /\ op = "group_cfg" => a[1] \in FREQ_MIN .. FREQ_MAX /\ is_valid_group(a[2])
    /\ op = "channel_set" => a[1] <= DUTY_MAX /\ Pins(a[2], a[3])
    /\ op = "irq_bind" => /\ a[1] \in 1 .. 3 /\ a[4] \in 0 .. 2
                          /\ Pins(a[2], a[3]) /\ Pins(a[5], a[6])

(* A sequence of known length is the tuple of its members.                 *)
LEMMA Tuples ==
    ASSUME NEW a \in Seq(Nat)
    PROVE  /\ Len(a) = 0 => a = <<>>
           /\ Len(a) = 1 => a = <<a[1]>>
           /\ Len(a) = 2 => a = <<a[1], a[2]>>
           /\ Len(a) = 3 => a = <<a[1], a[2], a[3]>>
           /\ Len(a) = 6 => a = <<a[1], a[2], a[3], a[4], a[5], a[6]>>
OBVIOUS

(* Every command is one builder's: its opcode, its checks, its payload.    *)
LEMMA FrameOf ==
    ASSUME NEW op \in Ops, NEW a, Arguments(op, a)
    PROVE  Frame(<<op, a>>) =
             IF Lawful(op, a) THEN build_frame(OpcodeOf[op], Payload(op, a)) ELSE <<>>
<1>. USE DEF Lawful, Payload, OpcodeOf, OPCODE, Build, Arguments,
             PlainOps, EnumOps, PinOps, GroupOps
<1>0. /\ <<op, a>>[1] = op /\ <<op, a>>[2] = a
  OBVIOUS
<1>1. CASE op = "probe"
  BY <1>0, <1>1, Tuples DEF Frame, McuFrame, protocol_probe
<1>2. CASE op = "reset"
  BY <1>0, <1>2, Tuples DEF Frame, McuFrame, protocol_reset
<1>3. CASE op = "gpio_cfg"
  BY <1>0, <1>3, Tuples DEF Frame, GpioFrame, protocol_gpio_cfg, dir_t
<1>4. CASE op = "gpio_set"
  BY <1>0, <1>4, Tuples DEF Frame, GpioFrame, protocol_gpio_set, level_t
<1>5. CASE op = "gpio_get"
  BY <1>0, <1>5, Tuples DEF Frame, GpioFrame, protocol_gpio_get
<1>6. CASE op = "gpio_toggle"
  BY <1>0, <1>6, Tuples DEF Frame, GpioFrame, protocol_gpio_toggle
<1>7. CASE op = "irq_cfg"
  BY <1>0, <1>7, Tuples DEF Frame, IrqFrame, protocol_gpio_irq_cfg, edge_t
<1>8. CASE op = "irq_bind"
  <2>1. edge_t \ {0} = 1 .. 3
    BY DEF edge_t
  <2>. QED  BY <1>0, <1>8, <2>1, Tuples DEF Frame, IrqFrame, protocol_gpio_irq_bind, action_t
<1>9. CASE op = "irq_unbind"
  BY <1>0, <1>9, Tuples DEF Frame, IrqFrame, protocol_gpio_irq_unbind
<1>10. CASE op = "group_cfg"
  BY <1>0, <1>10, Tuples DEF Frame, GroupFrame, protocol_pwm_group_cfg
<1>11. CASE op = "group_get"
  BY <1>0, <1>11, Tuples DEF Frame, GroupFrame, protocol_pwm_group_get
<1>12. CASE op = "group_release"
  BY <1>0, <1>12, Tuples DEF Frame, GroupFrame, protocol_pwm_group_release
<1>13. CASE op = "channel_cfg"
  BY <1>0, <1>13, Tuples DEF Frame, ChannelFrame, protocol_pwm_channel_cfg, polarity_t
<1>14. CASE op = "channel_set"
  BY <1>0, <1>14, Tuples DEF Frame, ChannelFrame, protocol_pwm_channel_set
<1>15. CASE op = "channel_get"
  BY <1>0, <1>15, Tuples DEF Frame, ChannelFrame, protocol_pwm_channel_get
<1>16. CASE op = "channel_release"
  BY <1>0, <1>16, Tuples DEF Frame, ChannelFrame, protocol_pwm_channel_release
<1>. QED
  BY <1>1, <1>2, <1>3, <1>4, <1>5, <1>6, <1>7, <1>8, <1>9, <1>10, <1>11, <1>12,
     <1>13, <1>14, <1>15, <1>16
     DEF Ops

\* Where a payload holds a number, as endianess.c puts it there.
FrequencyAt(p, v, g) ==
    /\ p[1] = v % 256 /\ p[2] = (v \div 256) % 256
    /\ p[3] = (v \div 256^2) % 256 /\ p[4] = (v \div 256^3) % 256
    /\ p[5] = g
DutyAt(p, v, g, h) ==
    p[1] = v % 256 /\ p[2] = (v \div 256) % 256 /\ p[3] = g /\ p[4] = h

(* The payload of group_cfg, octet by octet.                               *)
LEMMA FrequencyPayload ==
    ASSUME NEW v \in Nat, NEW g \in Nat, g < 256
    PROVE  LET p == put_u32_le(v) \o <<g>> IN IsOctets(p) /\ FrequencyAt(p, v, g)
<1>. DEFINE s == put_u32_le(v)
            t == <<g>>
            p == s \o t
<1>1. 256^0 = 1 /\ 256^1 = 256
  OBVIOUS
<1>2. /\ s \in Seq(Nat) /\ Len(s) = 4
      /\ s[1] = v % 256 /\ s[2] = (v \div 256) % 256
      /\ s[3] = (v \div 256^2) % 256 /\ s[4] = (v \div 256^3) % 256
  BY <1>1 DEF put_u32_le, Octet
<1>3. t \in Seq(Nat) /\ Len(t) = 1 /\ t[1] = g
  OBVIOUS
<1>4. v % 256 < 256 /\ (v \div 256) % 256 < 256 /\ (v \div 256^2) % 256 < 256
       /\ (v \div 256^3) % 256 < 256
  OBVIOUS
<1>. HIDE DEF s, t
<1>5. Joins(p, Nat, s, 4, t, 1)
  <2>1. s \in Seq(Nat) /\ Len(s) = 4 /\ t \in Seq(Nat) /\ Len(t) = 1
    BY <1>2, <1>3
  <2>. QED  BY <2>1, Concat, Zenon
<1>. HIDE DEF p
<1>6. p \in Seq(Nat) /\ Len(p) = 5 /\ DOMAIN p = 1 .. 5
  BY <1>5, LenProperties DEF Joins
<1>7. p[1] = s[1] /\ p[2] = s[2] /\ p[3] = s[3] /\ p[4] = s[4] /\ p[5] = t[1]
  BY <1>5 DEF Joins
<1>8. \A i \in DOMAIN p : p[i] < 256
  BY <1>2, <1>3, <1>4, <1>6, <1>7
<1>9. IsOctets(p) /\ FrequencyAt(p, v, g)
  BY <1>2, <1>3, <1>6, <1>7, <1>8 DEF IsOctets, FrequencyAt
<1>. QED  BY <1>9 DEF p, s, t

(* The payload of channel_set, octet by octet.                             *)
LEMMA DutyPayload ==
    ASSUME NEW v \in Nat, NEW g \in Nat, NEW h \in Nat, g < 256, h < 256
    PROVE  LET p == put_u16_le(v) \o <<g, h>> IN IsOctets(p) /\ DutyAt(p, v, g, h)
<1>. DEFINE s == put_u16_le(v)
            t == <<g, h>>
            p == s \o t
<1>1. 256^0 = 1 /\ 256^1 = 256
  OBVIOUS
<1>2. s \in Seq(Nat) /\ Len(s) = 2 /\ s[1] = v % 256 /\ s[2] = (v \div 256) % 256
  BY <1>1 DEF put_u16_le, Octet
<1>3. t \in Seq(Nat) /\ Len(t) = 2 /\ t[1] = g /\ t[2] = h
  OBVIOUS
<1>4. v % 256 < 256 /\ (v \div 256) % 256 < 256
  OBVIOUS
<1>. HIDE DEF s, t
<1>5. Joins(p, Nat, s, 2, t, 2)
  BY <1>2, <1>3, Concat, Zenon
<1>. HIDE DEF p
<1>6. p \in Seq(Nat) /\ Len(p) = 4 /\ DOMAIN p = 1 .. 4
  BY <1>5, LenProperties DEF Joins
<1>7. p[1] = s[1] /\ p[2] = s[2] /\ p[3] = t[1] /\ p[4] = t[2]
  BY <1>5 DEF Joins
<1>8. \A i \in DOMAIN p : p[i] < 256
  BY <1>2, <1>3, <1>4, <1>6, <1>7
<1>9. IsOctets(p) /\ DutyAt(p, v, g, h)
  BY <1>2, <1>3, <1>6, <1>7, <1>8 DEF IsOctets, DutyAt
<1>. QED  BY <1>9 DEF p, s, t

(* Ports and pins fit their octets, and frequencies their three.           *)
LEMMA PinOctets ==
    ASSUME NEW port \in Nat, NEW pin \in Nat, Pins(port, pin)
    PROVE  port < 256 /\ pin < 256
BY DEF Pins, is_valid_port, port_t, is_valid_pin, PIN_MAX

(* The limits of a frequency are naturals of three octets.                 *)
LEMMA FrequencyLimits == FREQ_MIN \in Nat /\ FREQ_MAX \in Nat /\ FREQ_MAX < 256^3
BY SMT DEF FREQ_MIN, FREQ_MAX

(* A lawful frequency fits in its four octets.                             *)
LEMMA FrequencyFits ==
    ASSUME NEW v \in FREQ_MIN .. FREQ_MAX
    PROVE  v \in Nat /\ v < 256^3
BY FrequencyLimits

(* The members of a sequence of numbers.                                   *)
LEMMA Members ==
    ASSUME NEW a \in Seq(Nat)
    PROVE  \A i \in 1 .. Len(a) : a[i] \in Nat
BY ElementOfSeq

(* The arguments a builder accepts are octets, or become octets.           *)
LEMMA PayloadOctets ==
    ASSUME NEW op \in Ops, NEW a, Arguments(op, a), Lawful(op, a)
    PROVE  IsOctets(Payload(op, a))
<1>. USE DEF Arguments, PlainOps, EnumOps, PinOps, GroupOps, IsOctets
<1>0. /\ a \in Seq(Nat) /\ DOMAIN a = 1 .. Len(a)
      /\ \A i \in 1 .. Len(a) : a[i] \in Nat
  BY LenProperties, ElementOfSeq
<1>1. \A port \in Nat, pin \in Nat : Pins(port, pin) => port < 256 /\ pin < 256
  BY PinOctets
<1>2. CASE op \notin {"group_cfg", "channel_set"}
  <2>1. Payload(op, a) = a
    BY <1>2 DEF Payload
  <2>2. CASE op \in PlainOps
    BY <1>0, <2>1, <2>2
  <2>3. CASE op \in EnumOps
    <3>1. a[1] < 256 /\ Pins(a[2], a[3])
      <4>1. CASE op = "irq_cfg"
        <5>1. a[1] \in 0 .. 3 /\ Pins(a[2], a[3])
          BY <4>1 DEF Lawful
        <5>. QED  BY <5>1
      <4>2. CASE op # "irq_cfg"
        <5>1. a[1] \in 0 .. 1 /\ Pins(a[2], a[3])
          BY <2>3, <4>2 DEF Lawful
        <5>. QED  BY <5>1
      <4>. QED  BY <4>1, <4>2
    <3>. QED  BY <1>0, <1>1, <2>1, <2>3, <3>1
  <2>4. CASE op \in PinOps
    <3>1. Pins(a[1], a[2])
      BY <2>4 DEF Lawful
    <3>. QED  BY <1>0, <1>1, <2>1, <2>4, <3>1
  <2>5. CASE op \in GroupOps
    <3>1. is_valid_group(a[1])
      BY <2>5 DEF Lawful
    <3>2. a[1] \in Nat /\ Len(a) = 1
      BY <1>0, <2>5
    <3>3. a[1] < 256
      BY <3>1, <3>2 DEF is_valid_group, GROUP_MAX
    <3>. QED  BY <1>0, <2>1, <3>2, <3>3
  <2>6. CASE op = "irq_bind"
    <3>1. a[1] < 256 /\ a[4] < 256 /\ Pins(a[2], a[3]) /\ Pins(a[5], a[6])
      BY <1>0, <2>6 DEF Lawful
    <3>. QED  BY <1>0, <1>1, <2>1, <2>6, <3>1
  <2>. QED  BY <1>2, <2>2, <2>3, <2>4, <2>5, <2>6 DEF Ops
<1>3. CASE op = "group_cfg"
  <2>1. a[1] \in Nat /\ a[2] \in Nat /\ a[2] < 256
    BY <1>0, <1>3 DEF Lawful, is_valid_group, GROUP_MAX
  <2>. HIDE DEF IsOctets
  <2>2. Payload(op, a) = put_u32_le(a[1]) \o <<a[2]>>
    BY <1>3 DEF Payload
  <2>. QED  BY <2>1, <2>2, FrequencyPayload, Zenon
<1>4. CASE op = "channel_set"
  <2>1. a[1] \in Nat /\ a[2] \in Nat /\ a[3] \in Nat /\ a[2] < 256 /\ a[3] < 256
    BY <1>0, <1>1, <1>4 DEF Lawful
  <2>. HIDE DEF IsOctets
  <2>2. Payload(op, a) = put_u16_le(a[1]) \o <<a[2], a[3]>>
    BY <1>4 DEF Payload
  <2>. QED  BY <2>1, <2>2, DutyPayload, Zenon
<1>. QED  BY <1>2, <1>3, <1>4

(* The number a payload was made of.                                       *)
LEMMA FrequencyDecodes ==
    ASSUME NEW v \in Nat, NEW w \in Nat, v < 256^3, w < 256^3,
           v % 256 = w % 256, (v \div 256) % 256 = (w \div 256) % 256,
           (v \div 256^2) % 256 = (w \div 256^2) % 256
    PROVE  v = w
OBVIOUS

(* A duty cycle is read back from its octets.                              *)
LEMMA DutyDecodes ==
    ASSUME NEW v \in Nat, NEW w \in Nat, v < 256^2, w < 256^2,
           v % 256 = w % 256, (v \div 256) % 256 = (w \div 256) % 256
    PROVE  v = w
OBVIOUS

(* A payload that a builder accepts has one reading.                       *)
LEMMA PayloadDecodes ==
    ASSUME NEW op \in Ops, NEW a, NEW b, Arguments(op, a), Arguments(op, b),
           Lawful(op, a), Lawful(op, b), Payload(op, a) = Payload(op, b)
    PROVE  a = b
<1>1. CASE op \notin {"group_cfg", "channel_set"}
  BY <1>1 DEF Payload
<1>2. CASE op = "group_cfg"
  <2>1. /\ a \in Seq(Nat) /\ b \in Seq(Nat) /\ Len(a) = 2 /\ Len(b) = 2
        /\ a[1] \in FREQ_MIN .. FREQ_MAX /\ is_valid_group(a[2])
        /\ b[1] \in FREQ_MIN .. FREQ_MAX /\ is_valid_group(b[2])
    BY <1>2 DEF Arguments, Lawful, PlainOps, EnumOps, PinOps, GroupOps
  <2>2. a[1] \in Nat /\ a[2] \in Nat /\ b[1] \in Nat /\ b[2] \in Nat
    <3>1. \A i \in 1 .. 2 : a[i] \in Nat /\ b[i] \in Nat
      BY <2>1, Members
    <3>. QED  BY <3>1
  <2>3. a[1] < 256^3 /\ b[1] < 256^3
    BY <2>1, FrequencyFits
  <2>4. a[2] < 256 /\ b[2] < 256
    BY <2>1, <2>2 DEF is_valid_group, GROUP_MAX
  <2>5. /\ Payload(op, a) = put_u32_le(a[1]) \o <<a[2]>>
        /\ Payload(op, b) = put_u32_le(b[1]) \o <<b[2]>>
    BY <1>2 DEF Payload
  <2>. DEFINE p == Payload(op, a)
  <2>6. FrequencyAt(p, a[1], a[2])
    BY <2>2, <2>4, <2>5, FrequencyPayload, Zenon
  <2>7. FrequencyAt(p, b[1], b[2])
    BY <2>2, <2>4, <2>5, FrequencyPayload, Zenon
  <2>. HIDE DEF p
  <2>8. a[2] = b[2] /\ a[1] = b[1]
    <3>1. /\ a[1] % 256 = b[1] % 256 /\ (a[1] \div 256) % 256 = (b[1] \div 256) % 256
          /\ (a[1] \div 256^2) % 256 = (b[1] \div 256^2) % 256 /\ a[2] = b[2]
      BY <2>6, <2>7, Zenon DEF FrequencyAt
    <3>. QED  BY <2>2, <2>3, <3>1, FrequencyDecodes, Zenon
  <2>9. a = <<a[1], a[2]>> /\ b = <<b[1], b[2]>>
    BY <2>1, Tuples
  <2>. QED  BY <2>8, <2>9, Zenon
<1>3. CASE op = "channel_set"
  <2>1. /\ a \in Seq(Nat) /\ b \in Seq(Nat) /\ Len(a) = 3 /\ Len(b) = 3
        /\ a[1] <= DUTY_MAX /\ Pins(a[2], a[3]) /\ b[1] <= DUTY_MAX /\ Pins(b[2], b[3])
    BY <1>3 DEF Arguments, Lawful, PlainOps, EnumOps, PinOps, GroupOps
  <2>2. /\ a[1] \in Nat /\ a[2] \in Nat /\ a[3] \in Nat
        /\ b[1] \in Nat /\ b[2] \in Nat /\ b[3] \in Nat
    <3>1. \A i \in 1 .. 3 : a[i] \in Nat /\ b[i] \in Nat
      BY <2>1, Members
    <3>. QED  BY <3>1
  <2>3. a[1] < 256^2 /\ b[1] < 256^2
    BY <2>1, <2>2 DEF DUTY_MAX
  <2>4. a[2] < 256 /\ b[2] < 256 /\ a[3] < 256 /\ b[3] < 256
    BY <2>1, <2>2, PinOctets, Zenon
  <2>5. /\ Payload(op, a) = put_u16_le(a[1]) \o <<a[2], a[3]>>
        /\ Payload(op, b) = put_u16_le(b[1]) \o <<b[2], b[3]>>
    BY <1>3 DEF Payload
  <2>. DEFINE p == Payload(op, a)
  <2>6. DutyAt(p, a[1], a[2], a[3])
    BY <2>2, <2>4, <2>5, DutyPayload, Zenon
  <2>7. DutyAt(p, b[1], b[2], b[3])
    BY <2>2, <2>4, <2>5, DutyPayload, Zenon
  <2>. HIDE DEF p
  <2>8. a[3] = b[3] /\ a[2] = b[2] /\ a[1] = b[1]
    <3>1. /\ a[1] % 256 = b[1] % 256 /\ (a[1] \div 256) % 256 = (b[1] \div 256) % 256
          /\ a[2] = b[2] /\ a[3] = b[3]
      BY <2>6, <2>7, Zenon DEF DutyAt
    <3>. QED  BY <2>2, <2>3, <3>1, DutyDecodes, Zenon
  <2>9. a = <<a[1], a[2], a[3]>> /\ b = <<b[1], b[2], b[3]>>
    BY <2>1, Tuples
  <2>. QED  BY <2>8, <2>9, Zenon
<1>. QED  BY <1>1, <1>2, <1>3

(* The opcode tells the command.                                           *)
LEMMA OpcodesDiffer ==
    ASSUME NEW op \in Ops, NEW oq \in Ops
    PROVE  OpcodeOf[op] \in Nat /\ (OpcodeOf[op] = OpcodeOf[oq] => op = oq)
BY DEF Ops, OpcodeOf, PlainOps, EnumOps, PinOps, GroupOps

(* No two lawful calls make the same frame.                                *)
LEMMA FramesDiffer ==
    ASSUME NEW op \in Ops, NEW a, NEW oq \in Ops, NEW b,
           Arguments(op, a), Arguments(oq, b),
           Frame(<<op, a>>) # <<>>, Frame(<<op, a>>) = Frame(<<oq, b>>)
    PROVE  op = oq /\ a = b
<1>1. Lawful(op, a) /\ Frame(<<op, a>>) = build_frame(OpcodeOf[op], Payload(op, a))
  BY FrameOf
<1>2. Lawful(oq, b) /\ Frame(<<oq, b>>) = build_frame(OpcodeOf[oq], Payload(oq, b))
  BY FrameOf
<1>3. IsOctets(Payload(op, a)) /\ IsOctets(Payload(oq, b))
  BY <1>1, <1>2, PayloadOctets
<1>4. OpcodeOf[op] \in Nat /\ OpcodeOf[oq] \in Nat
  BY OpcodesDiffer
<1>5. build_frame(OpcodeOf[op], Payload(op, a)) = build_frame(OpcodeOf[oq], Payload(oq, b))
  BY <1>1, <1>2
<1>6. OpcodeOf[op] = OpcodeOf[oq] /\ Payload(op, a) = Payload(oq, b)
  <2>. DEFINE o == OpcodeOf[op]
              q == OpcodeOf[oq]
              p == Payload(op, a)
              r == Payload(oq, b)
  <2>1. o \in Nat /\ q \in Nat /\ IsOctets(p) /\ IsOctets(r) /\ build_frame(o, p) = build_frame(q, r)
    BY <1>3, <1>4, <1>5
  <2>. HIDE DEF o, p, q, r
  <2>2. o = q /\ p = r
    BY <2>1, SameFrame
  <2>. QED  BY <2>2 DEF o, p, q, r
<1>7. op = oq
  BY <1>6, OpcodesDiffer
<1>. QED  BY <1>1, <1>2, <1>6, <1>7, PayloadDecodes

-----------------------------------------------------------------------------
(* Replies as frames.                                                      *)

(* A sequence of two.                                                      *)
LEMMA Pair ==
    ASSUME NEW S, NEW s \in Seq(S), Len(s) = 2 PROVE s = <<s[1], s[2]>>
OBVIOUS

Joined(l, h) == l + 256 * h

Bytes == 0 .. 255

\* A buffer that begins with a frame: c is what the CRC covers, l and h are
\* the octets it travels in.
Framed(u, c, l, h) ==
    /\ u \in Seq(0 .. 255)
    /\ Len(u) >= Len(c) + 3
    /\ u[1] = PROTOCOL_SOF
    /\ \A k \in 1 .. Len(c) : u[k + 1] = c[k]
    /\ u[Len(c) + 2] = l
    /\ u[Len(c) + 3] = h

\* The bytes of such a frame.
Enclose(c, v) == <<PROTOCOL_SOF>> \o c \o put_u16_le(v)

(* The octets of a number of 16 bits.                                      *)
LEMMA TwoOctets ==
    ASSUME NEW v \in Nat
    PROVE  /\ put_u16_le(v) \in Seq(0 .. 255) /\ Len(put_u16_le(v)) = 2
           /\ put_u16_le(v)[1] = v % 256 /\ put_u16_le(v)[2] = (v \div 256) % 256
           /\ v % 256 \in 0 .. 255 /\ (v \div 256) % 256 \in 0 .. 255
<1>1. 256^0 = 1 /\ 256^1 = 256
  OBVIOUS
<1>2. v % 256 \in 0 .. 255 /\ (v \div 256) % 256 \in 0 .. 255
  BY SMT
<1>3. put_u16_le(v) = <<v % 256, (v \div 256) % 256>>
  <2>1. v \div 1 = v
    BY SMT
  <2>. QED  BY <1>1, <2>1 DEF put_u16_le, Octet
<1>. DEFINE p == v % 256
            q == (v \div 256) % 256
<1>. HIDE DEF p, q
<1>4. /\ <<p, q>> \in Seq({p, q}) /\ Len(<<p, q>>) = 2 /\ <<p, q>>[1] = p /\ <<p, q>>[2] = q
      /\ (p \in 0 .. 255 /\ q \in 0 .. 255 => <<p, q>> \in Seq(0 .. 255))
  OBVIOUS
<1>. QED  BY <1>2, <1>3, <1>4 DEF p, q

(* A frame, octet by octet.                                                *)
LEMMA Enclosed ==
    ASSUME NEW c \in Seq(0 .. 255), NEW v \in Nat
    PROVE  /\ Framed(Enclose(c, v), c, v % 256, (v \div 256) % 256)
           /\ Len(Enclose(c, v)) = Len(c) + 3
<1>. DEFINE S == 0 .. 255
            sof == <<PROTOCOL_SOF>>
            crc == put_u16_le(v)
            m == Len(c)
            start == sof \o c
            u == start \o crc
<1>1. m \in Nat
  BY LenProperties
<1>2. sof \in Seq(S) /\ Len(sof) = 1 /\ sof[1] = PROTOCOL_SOF
  BY DEF PROTOCOL_SOF
<1>3. crc \in Seq(S) /\ Len(crc) = 2 /\ crc[1] = v % 256 /\ crc[2] = (v \div 256) % 256
  BY TwoOctets
<1>. HIDE DEF sof, crc, S
<1>4. Joins(start, S, sof, 1, c, m)
  BY <1>2, Concat, Zenon DEF S
<1>. HIDE DEF start
<1>5. Joins(u, S, start, 1 + m, crc, 2)
  <2>1. start \in Seq(S) /\ Len(start) = 1 + m
    BY <1>4, Zenon DEF Joins
  <2>. QED  BY <1>3, <2>1, Concat, Zenon
<1>. HIDE DEF u
<1>6. u[1] = PROTOCOL_SOF
  <2>1. 1 \in 1 .. 1 + m /\ 1 \in 1 .. (1 + m) + 2 /\ 1 <= 1 /\ 1 <= 1 + m
    BY <1>1
  <2>2. u[1] = start[1]
    BY <1>5, <2>1 DEF Joins
  <2>3. start[1] = sof[1]
    BY <1>4, <2>1 DEF Joins
  <2>. QED  BY <1>2, <2>2, <2>3
<1>7. ASSUME NEW k \in 1 .. m PROVE u[k + 1] = c[k]
  <2>1. k + 1 \in 1 .. 1 + m /\ k + 1 \in 1 .. (1 + m) + 2 /\ ~(k + 1 <= 1) /\ k + 1 <= 1 + m
        /\ (k + 1) - 1 = k
    BY <1>1
  <2>2. u[k + 1] = start[k + 1]
    BY <1>5, <2>1 DEF Joins
  <2>3. start[k + 1] = c[(k + 1) - 1]
    BY <1>4, <2>1 DEF Joins
  <2>. QED  BY <2>1, <2>2, <2>3
<1>8. u[m + 2] = crc[1] /\ u[m + 3] = crc[2]
  <2>1. m + 2 \in 1 .. (1 + m) + 2 /\ m + 3 \in 1 .. (1 + m) + 2 /\ ~(m + 2 <= 1 + m)
        /\ ~(m + 3 <= 1 + m) /\ (m + 2) - (1 + m) = 1 /\ (m + 3) - (1 + m) = 2
    BY <1>1
  <2>. QED  BY <1>5, <2>1 DEF Joins
<1>9. u \in Seq(S) /\ Len(u) = m + 3
  <2>1. (1 + m) + 2 = m + 3
    BY <1>1
  <2>. QED  BY <1>5, <2>1, Zenon DEF Joins
<1>10. m + 3 >= m + 3
  BY <1>1
<1>11. Enclose(c, v) = u
  BY DEF Enclose, u, start, sof, crc
<1>. QED  BY <1>3, <1>6, <1>7, <1>8, <1>9, <1>10, <1>11 DEF Framed, S

(* Whatever stands behind a frame, it is still one.                        *)
LEMMA FramedBefore ==
    ASSUME NEW u, NEW c \in Seq(0 .. 255), NEW l, NEW h, Framed(u, c, l, h),
           NEW t \in Seq(0 .. 255)
    PROVE  Framed(u \o t, c, l, h)
<1>. DEFINE S == 0 .. 255
            m == Len(c)
            z == u \o t
<1>1. u \in Seq(S) /\ Len(u) >= m + 3 /\ m \in Nat /\ Len(u) \in Nat /\ Len(t) \in Nat
  BY LenProperties DEF Framed
<1>2. /\ z \in Seq(S) /\ Len(z) = Len(u) + Len(t)
      /\ \A i \in 1 .. Len(u) + Len(t) : z[i] = IF i <= Len(u) THEN u[i] ELSE t[i - Len(u)]
  <2>. HIDE DEF S
  <2>. QED  BY <1>1, ConcatProperties, Zenon DEF S
<1>. HIDE DEF z, S
<1>3. \A i \in 1 .. m + 3 : z[i] = u[i]
  BY <1>1, <1>2
<1>4. /\ 1 \in 1 .. m + 3 /\ m + 2 \in 1 .. m + 3 /\ m + 3 \in 1 .. m + 3
      /\ \A k \in 1 .. m : k + 1 \in 1 .. m + 3
  BY <1>1
<1>5. Len(z) >= m + 3
  BY <1>1, <1>2
<1>6. z[1] = u[1] /\ z[m + 2] = u[m + 2] /\ z[m + 3] = u[m + 3]
      /\ \A k \in 1 .. m : z[k + 1] = u[k + 1]
  BY <1>3, <1>4
<1>. QED  BY <1>2, <1>5, <1>6 DEF Framed, z, S

Cuts(u, c, m, l, h) ==
    /\ SubSeq(u, 2, m + 1) = c
    /\ SubSeq(u, m + 2, m + 3) = <<l, h>>
    /\ m >= 2 => SubSeq(u, 4, m + 1) = SubSeq(c, 3, m)

(* What a frame holds where it is cut.                                     *)
LEMMA FramedCuts ==
    ASSUME NEW u, NEW c \in Seq(0 .. 255), NEW l, NEW h, Framed(u, c, l, h)
    PROVE  Cuts(u, c, Len(c), l, h)
<1>. DEFINE S == 0 .. 255
            m == Len(c)
<1>1. /\ u \in Seq(S) /\ Len(u) >= m + 3 /\ m \in Nat /\ Len(u) \in Nat
      /\ \A i \in 1 .. Len(u) : u[i] \in S
      /\ \A i \in 1 .. m : c[i] \in S
      /\ \A i \in 1 .. m : u[i + 1] = c[i]
  <2>1. u \in Seq(S) /\ Len(u) >= m + 3 /\ \A i \in 1 .. m : u[i + 1] = c[i]
    BY DEF Framed
  <2>2. m \in Nat /\ Len(u) \in Nat
    BY <2>1, LenProperties
  <2>3. (\A i \in 1 .. Len(u) : u[i] \in S) /\ (\A i \in 1 .. m : c[i] \in S)
    BY <2>1, ElementOfSeq
  <2>. QED  BY <2>1, <2>2, <2>3
<1>. HIDE DEF S, m
<1>2. SubSeq(u, 2, m + 1) = c
  <2>. DEFINE s == SubSeq(u, 2, m + 1)
  <2>1. 2 \in Int /\ m + 1 \in Int /\ \A i \in 2 .. m + 1 : u[i] \in S
    BY <1>1
  <2>2. /\ s \in Seq(S) /\ Len(s) = (IF 2 <= m + 1 THEN (m + 1) - 2 + 1 ELSE 0)
        /\ \A i \in 1 .. (m + 1) - 2 + 1 : s[i] = u[2 + i - 1]
    BY <2>1, SubSeqProperties
  <2>. HIDE DEF s
  <2>3. Len(s) = m
    BY <1>1, <2>2
  <2>4. \A i \in 1 .. m : s[i] = c[i]
    <3>. TAKE i \in 1 .. m
    <3>1. i \in 1 .. (m + 1) - 2 + 1 /\ 2 + i - 1 = i + 1
      BY <1>1
    <3>. QED  BY <1>1, <2>2, <3>1
  <2>5. s = c
    BY <2>2, <2>3, <2>4, SeqEqual, Zenon DEF S, m
  <2>. QED  BY <2>5 DEF s
<1>3. SubSeq(u, m + 2, m + 3) = <<l, h>>
  <2>. DEFINE s == SubSeq(u, m + 2, m + 3)
  <2>1. m + 2 \in Int /\ m + 3 \in Int /\ \A i \in m + 2 .. m + 3 : u[i] \in S
    BY <1>1
  <2>2. /\ s \in Seq(S) /\ Len(s) = (IF m + 2 <= m + 3 THEN (m + 3) - (m + 2) + 1 ELSE 0)
        /\ \A i \in 1 .. (m + 3) - (m + 2) + 1 : s[i] = u[m + 2 + i - 1]
    BY <2>1, SubSeqProperties
  <2>. HIDE DEF s
  <2>3. Len(s) = 2 /\ s[1] = u[m + 2] /\ s[2] = u[m + 3]
    <3>1. /\ m + 2 <= m + 3 /\ (m + 3) - (m + 2) + 1 = 2
          /\ m + 2 + 1 - 1 = m + 2 /\ m + 2 + 2 - 1 = m + 3 /\ 1 \in 1 .. 2 /\ 2 \in 1 .. 2
      BY <1>1
    <3>. QED  BY <2>2, <3>1
  <2>4. u[m + 2] = l /\ u[m + 3] = h
    BY DEF Framed, m
  <2>5. s = <<l, h>>
    <3>1. s = <<s[1], s[2]>>
      BY <2>2, <2>3, Pair
    <3>. QED  BY <2>3, <2>4, <3>1, Zenon
  <2>. QED  BY <2>5 DEF s
<1>4. ASSUME m >= 2 PROVE SubSeq(u, 4, m + 1) = SubSeq(c, 3, m)
  <2>. DEFINE s == SubSeq(u, 4, m + 1)
              t == SubSeq(c, 3, m)
  <2>1. /\ 3 \in Int /\ 4 \in Int /\ m \in Int /\ m + 1 \in Int
        /\ (\A i \in 4 .. m + 1 : u[i] \in S) /\ (\A i \in 3 .. m : c[i] \in S)
    BY <1>1
  <2>2. /\ s \in Seq(S) /\ Len(s) = (IF 4 <= m + 1 THEN (m + 1) - 4 + 1 ELSE 0)
        /\ \A i \in 1 .. (m + 1) - 4 + 1 : s[i] = u[4 + i - 1]
    BY <2>1, SubSeqProperties
  <2>3. /\ t \in Seq(S) /\ Len(t) = (IF 3 <= m THEN m - 3 + 1 ELSE 0)
        /\ \A i \in 1 .. m - 3 + 1 : t[i] = c[3 + i - 1]
    BY <2>1, SubSeqProperties
  <2>. HIDE DEF s, t
  <2>4. Len(s) = m - 2 /\ Len(t) = m - 2
    BY <1>1, <1>4, <2>2, <2>3
  <2>5. \A i \in 1 .. m - 2 : s[i] = t[i]
    <3>. TAKE i \in 1 .. m - 2
    <3>1. /\ i \in 1 .. (m + 1) - 4 + 1 /\ 4 + i - 1 = (i + 2) + 1 /\ i \in 1 .. m - 3 + 1
          /\ 3 + i - 1 = i + 2 /\ i + 2 \in 1 .. m
      BY <1>1
    <3>. QED  BY <1>1, <2>2, <2>3, <3>1
  <2>6. s = t
    BY <2>2, <2>3, <2>4, <2>5, SeqEqual, Zenon
  <2>. QED  BY <2>6 DEF s, t
<1>. QED  BY <1>2, <1>3, <1>4 DEF m, Cuts

\* What protocol_parse_response makes of the octets the CRC covers.
Accepted(c) ==
    [status |-> MCUCO_STATUS_OK, ack |-> c[2] # 0, data |-> SubSeq(c, 3, Len(c))]

(* protocol_parse_response sees nothing but the frame at the front.        *)
LEMMA ParseFramed ==
    ASSUME NEW u, NEW c \in Seq(0 .. 255), NEW l, NEW h, Framed(u, c, l, h),
           Len(c) \in 2 .. 6, c[1] = Len(c) - 1
    PROVE  protocol_parse_response(u) =
             IF crc16_compute(c) # Joined(l, h) THEN BadFrame ELSE Accepted(c)
<1>. DEFINE m == Len(c)
<1>0. m \in 2 .. 6 /\ c[1] = m - 1
  OBVIOUS
<1>. HIDE DEF m
<1>1. /\ u[1] = PROTOCOL_SOF /\ u[2] = m - 1 /\ u[3] = c[2] /\ Len(u) \in Nat /\ Len(u) >= m + 3
  <2>1. 1 \in 1 .. m /\ 2 \in 1 .. m /\ 1 + 1 = 2 /\ 2 + 1 = 3
    BY <1>0
  <2>2. u \in Seq(0 .. 255) /\ Len(u) >= m + 3 /\ u[1] = PROTOCOL_SOF
        /\ \A k \in 1 .. m : u[k + 1] = c[k]
    BY DEF Framed, m
  <2>3. Len(u) \in Nat
    BY <2>2, LenProperties
  <2>4. u[1 + 1] = c[1] /\ u[2 + 1] = c[2]
    BY <2>1, <2>2
  <2>. QED  BY <1>0, <2>1, <2>2, <2>3, <2>4
<1>2. u[2] + 2 = m + 1 /\ u[2] + 3 = m + 2 /\ u[2] + 4 = m + 3
  BY <1>0, <1>1
<1>3. /\ SubSeq(u, 2, u[2] + 2) = c
      /\ SubSeq(u, u[2] + 3, u[2] + 4) = <<l, h>>
      /\ SubSeq(u, 4, u[2] + 2) = SubSeq(c, 3, m)
  <2>1. m >= 2
    BY <1>0
  <2>2. /\ SubSeq(u, 2, m + 1) = c
        /\ SubSeq(u, m + 2, m + 3) = <<l, h>>
        /\ SubSeq(u, 4, m + 1) = SubSeq(c, 3, m)
    <3>1. Cuts(u, c, m, l, h)
      BY FramedCuts DEF m
    <3>. QED  BY <2>1, <3>1 DEF Cuts
  <2>. QED  BY <1>2, <2>2
<1>4. get_u16_le(<<l, h>>) = Joined(l, h)
  BY DEF get_u16_le, Joined
<1>5. /\ ~(Len(u) < PROTOCOL_MIN_RESPONSE_FRAME)
      /\ u[2] \in PROTOCOL_MIN_RESPONSE_LEN .. PROTOCOL_MAX_RESPONSE_LEN
      /\ ~(Len(u) < PROTOCOL_RESPONSE_OVERHEAD + u[2])
  BY <1>0, <1>1 DEF PROTOCOL_MIN_RESPONSE_FRAME, PROTOCOL_MIN_RESPONSE_LEN,
              PROTOCOL_MAX_RESPONSE_LEN, PROTOCOL_RESPONSE_OVERHEAD
<1>. QED  BY <1>1, <1>3, <1>4, <1>5, Zenon DEF protocol_parse_response, Accepted, m

(* exchange, from a frame on.                                              *)
LEMMA ExchangeFramed ==
    ASSUME NEW u, NEW c \in Seq(Bytes), NEW l, NEW h, Framed(u, c, l, h),
           Len(c) \in 2 .. 6, c[1] = Len(c) - 1
    PROVE  /\ crc16_compute(c) # Joined(l, h) => exchange(u) = BadFrame
           /\ crc16_compute(c) = Joined(l, h) /\ c[2] # 0 =>
                exchange(u) = [status |-> MCUCO_STATUS_OK, data |-> SubSeq(c, 3, Len(c))]
           /\ crc16_compute(c) = Joined(l, h) /\ c[2] = 0 /\ Len(SubSeq(c, 3, Len(c))) = 1 =>
                exchange(u) = [status |-> SubSeq(c, 3, Len(c))[1], data |-> SubSeq(c, 3, Len(c))]
<1>. DEFINE p == protocol_parse_response(u)
            d == SubSeq(c, 3, Len(c))
<1>1. p = IF crc16_compute(c) # Joined(l, h) THEN BadFrame ELSE Accepted(c)
  BY ParseFramed DEF Bytes
<1>2. exchange(u) = IF p.status # MCUCO_STATUS_OK THEN p
                    ELSE [status |-> status_from_response(p), data |-> p.data]
  BY DEF exchange
<1>. HIDE DEF p, d
<1>3. ASSUME crc16_compute(c) # Joined(l, h) PROVE exchange(u) = BadFrame
  <2>1. p = BadFrame
    BY <1>1, <1>3, Zenon
  <2>2. BadFrame.status # MCUCO_STATUS_OK
    BY DEF BadFrame, MCUCO_STATUS_ERR_BAD_FRAME, MCUCO_STATUS_OK
  <2>. QED  BY <1>2, <2>1, <2>2, Zenon
<1>4. ASSUME crc16_compute(c) = Joined(l, h)
      PROVE  /\ exchange(u) = [status |-> status_from_response(p), data |-> d]
             /\ status_from_response(p) = IF c[2] # 0 THEN MCUCO_STATUS_OK
                                          ELSE IF Len(d) = 1 THEN d[1]
                                          ELSE MCUCO_STATUS_ERR_BAD_FRAME
  <2>1. p = Accepted(c)
    BY <1>1, <1>4, Zenon
  <2>2. p.status = MCUCO_STATUS_OK /\ p.data = d /\ (p.ack <=> c[2] # 0)
    BY <2>1, Zenon DEF Accepted, d
  <2>. QED  BY <1>2, <2>2, Zenon DEF status_from_response
<1>. QED  BY <1>3, <1>4, Zenon DEF d

-----------------------------------------------------------------------------

Covered(r) == <<1 + Len(DataOf(r)), r[2]>> \o DataOf(r)

(* The replies, by kind.                                                   *)
LEMMA ReplyKinds ==
    ASSUME NEW r \in Replies
    PROVE  \/ r[1] = "none" /\ r[2] = 1
           \/ r[1] = "magic" /\ r[2] = 1
           \/ r[1] = "level" /\ r[2] = 1 /\ r[3] \in 0 .. 255
           \/ r[1] = "nack" /\ r[2] = 0 /\ r[3] \in 1 .. 127
           \/ r[1] = "duty" /\ r[2] = 1 /\ r[3] \in Nat /\ r[3] < 256^2
           \/ r[1] = "freq" /\ r[2] = 1 /\ r[3] \in Nat /\ r[3] \div 256^2 < 256^2
<1>1. /\ \A x \in Level : x \in 0 .. 255
      /\ \A x \in Reason : x \in 1 .. 127
      /\ \A x \in Duty : x \in Nat /\ x < 256^2
      /\ \A x \in Freq : x \in Nat /\ x \div 256^2 < 256^2
  <2>1. /\ Pin \cup Group \cup Level \subseteq 0 .. 255 /\ Reason \subseteq 1 .. 127
        /\ Duty \subseteq {d \in Nat : d < 256^2}
        /\ Freq \subseteq {f \in Nat : f \div 256^2 < 256^2}
    BY TrialAssumption
  <2>. QED  BY <2>1
<1>2. \/ r = <<"none", 1, 0>> \/ r = <<"magic", 1, 0>>
      \/ r \in {"level"} \X {1} \X Level \/ r \in {"nack"} \X {0} \X Reason
      \/ r \in {"duty"} \X {1} \X Duty \/ r \in {"freq"} \X {1} \X Freq
  BY DEF Replies
<1>. QED  BY <1>1, <1>2

FourAt(s, v) ==
    /\ s \in Seq(0 .. 255) /\ Len(s) = 4
    /\ s[1] = v % 256 /\ s[2] = (v \div 256) % 256
    /\ s[3] = (v \div 256^2) % 256 /\ s[4] = (v \div 256^3) % 256

(* The octets of a number of 32 bits.                                      *)
LEMMA FourOctets ==
    ASSUME NEW v \in Nat PROVE FourAt(put_u32_le(v), v)
<1>1. 256^0 = 1 /\ 256^1 = 256 /\ v \div 1 = v
  BY SMT
<1>2. /\ v % 256 \in 0 .. 255 /\ (v \div 256) % 256 \in 0 .. 255
      /\ (v \div 256^2) % 256 \in 0 .. 255 /\ (v \div 256^3) % 256 \in 0 .. 255
  BY SMT
<1>. DEFINE a == v % 256
            b == (v \div 256) % 256
            c == (v \div 256^2) % 256
            d == (v \div 256^3) % 256
<1>3. put_u32_le(v) = <<a, b, c, d>>
  BY <1>1 DEF put_u32_le, Octet
<1>. HIDE DEF a, b, c, d
<1>4. a \in 0 .. 255 /\ b \in 0 .. 255 /\ c \in 0 .. 255 /\ d \in 0 .. 255
  BY <1>2 DEF a, b, c, d
<1>5. /\ <<a, b, c, d>> \in Seq(0 .. 255) /\ Len(<<a, b, c, d>>) = 4
      /\ <<a, b, c, d>>[1] = a /\ <<a, b, c, d>>[2] = b
      /\ <<a, b, c, d>>[3] = c /\ <<a, b, c, d>>[4] = d
  BY <1>4
<1>. QED  BY <1>3, <1>5 DEF FourAt, a, b, c, d

(* endianess.c reads what it wrote.                                        *)
LEMMA ReadsTwo ==
    ASSUME NEW v \in Nat, v < 256^2 PROVE get_u16_le(put_u16_le(v)) = v
<1>1. (v % 256) + 256 * ((v \div 256) % 256) = v
  BY SMT
<1>. QED  BY <1>1, TwoOctets DEF get_u16_le

(* Four octets read back as the number they were put from.                 *)
LEMMA ReadsFour ==
    ASSUME NEW v \in Nat, v \div 256^2 < 256^2 PROVE get_u32_le(put_u32_le(v)) = v
<1>1. (v % 256) + 256 * ((v \div 256) % 256) + 256^2 * ((v \div 256^2) % 256)
        + 256^3 * ((v \div 256^3) % 256) = v
  BY SMT
<1>. DEFINE s == put_u32_le(v)
<1>2. FourAt(s, v)
  BY FourOctets
<1>. DEFINE a == v % 256
            b == (v \div 256) % 256
            c == (v \div 256^2) % 256
            d == (v \div 256^3) % 256
<1>3. a \in Nat /\ b \in Nat /\ c \in Nat /\ d \in Nat
  BY SMT
<1>. HIDE DEF a, b, c, d, s
<1>4. get_u32_le(s) = a + 256 * b + 256^2 * c + 256^3 * d
  BY <1>2, <1>3 DEF FourAt, get_u32_le, a, b, c, d
<1>. QED  BY <1>1, <1>4 DEF s, a, b, c, d

\* What a reply carries, by kind.
Carried(r, d) ==
    /\ d \in Seq(0 .. 255) /\ Len(d) \in 0 .. 4
    /\ r[1] = "none" => r[2] = 1 /\ Len(d) = 0
    /\ r[1] = "magic" => r[2] = 1 /\ d = PROBE_MAGIC
    /\ r[1] = "level" => r[2] = 1 /\ Len(d) = 1 /\ d[1] = r[3] /\ r[3] \in Nat
    /\ r[1] = "nack" => r[2] = 0 /\ Len(d) = 1 /\ d[1] = r[3] /\ r[3] \in 1 .. 127
    /\ r[1] = "duty" => r[2] = 1 /\ Len(d) = 2 /\ get_u16_le(d) = r[3]
    /\ r[1] = "freq" => r[2] = 1 /\ Len(d) = 4 /\ get_u32_le(d) = r[3]
    /\ r[1] \in {"none", "magic", "level", "nack", "duty", "freq"}

(* The data of a reply are octets, and few.                                *)
LEMMA ReplyData ==
    ASSUME NEW r \in Replies PROVE Carried(r, DataOf(r))
<1>. DEFINE d == DataOf(r)
<1>1. CASE r[1] = "none"
  <2>1. r[2] = 1
    BY <1>1, ReplyKinds
  <2>2. d = <<>>
    BY <1>1 DEF DataOf
  <2>3. <<>> \in Seq(0 .. 255) /\ Len(<<>>) = 0
    OBVIOUS
  <2>. HIDE DEF d
  <2>4. Carried(r, d)
    BY <1>1, <2>1, <2>2, <2>3 DEF Carried
  <2>. QED  BY <2>4 DEF d
<1>2. CASE r[1] = "magic"
  <2>1. r[2] = 1
    BY <1>2, ReplyKinds
  <2>2. d = PROBE_MAGIC
    BY <1>2 DEF DataOf
  <2>3. PROBE_MAGIC \in Seq(0 .. 255) /\ Len(PROBE_MAGIC) = 4
    BY DEF PROBE_MAGIC
  <2>. HIDE DEF d
  <2>4. Carried(r, d)
    BY <1>2, <2>1, <2>2, <2>3 DEF Carried
  <2>. QED  BY <2>4 DEF d
<1>3. CASE r[1] = "level"
  <2>1. r[2] = 1 /\ r[3] \in 0 .. 255
    BY <1>3, ReplyKinds
  <2>2. d = <<r[3]>>
    BY <1>3 DEF DataOf
  <2>. HIDE DEF d
  <2>3. d \in Seq(0 .. 255) /\ Len(d) = 1 /\ d[1] = r[3] /\ r[3] \in Nat
    BY <2>1, <2>2
  <2>4. Carried(r, d)
    BY <1>3, <2>1, <2>3 DEF Carried
  <2>. QED  BY <2>4 DEF d
<1>4. CASE r[1] = "nack"
  <2>1. r[2] = 0 /\ r[3] \in 1 .. 127
    BY <1>4, ReplyKinds
  <2>2. d = <<r[3]>>
    BY <1>4 DEF DataOf
  <2>. HIDE DEF d
  <2>3. d \in Seq(0 .. 255) /\ Len(d) = 1 /\ d[1] = r[3]
    BY <2>1, <2>2
  <2>4. Carried(r, d)
    BY <1>4, <2>1, <2>3 DEF Carried
  <2>. QED  BY <2>4 DEF d
<1>5. CASE r[1] = "duty"
  <2>1. r[2] = 1 /\ r[3] \in Nat /\ r[3] < 256^2
    BY <1>5, ReplyKinds
  <2>2. d = put_u16_le(r[3])
    BY <1>5 DEF DataOf
  <2>3. d \in Seq(0 .. 255) /\ Len(d) = 2 /\ get_u16_le(d) = r[3]
    <3>1. put_u16_le(r[3]) \in Seq(0 .. 255) /\ Len(put_u16_le(r[3])) = 2
      BY <2>1, TwoOctets
    <3>2. get_u16_le(put_u16_le(r[3])) = r[3]
      BY <2>1, ReadsTwo
    <3>. QED  BY <2>2, <3>1, <3>2, Zenon
  <2>. HIDE DEF d
  <2>4. Carried(r, d)
    BY <1>5, <2>1, <2>3 DEF Carried
  <2>. QED  BY <2>4 DEF d
<1>6. CASE r[1] = "freq"
  <2>1. r[2] = 1 /\ r[3] \in Nat /\ r[3] \div 256^2 < 256^2
    BY <1>6, ReplyKinds
  <2>2. d = put_u32_le(r[3])
    BY <1>6 DEF DataOf
  <2>3. d \in Seq(0 .. 255) /\ Len(d) = 4 /\ get_u32_le(d) = r[3]
    <3>1. put_u32_le(r[3]) \in Seq(0 .. 255) /\ Len(put_u32_le(r[3])) = 4
      BY <2>1, FourOctets DEF FourAt
    <3>2. get_u32_le(put_u32_le(r[3])) = r[3]
      BY <2>1, ReadsFour
    <3>. QED  BY <2>2, <3>1, <3>2, Zenon
  <2>. HIDE DEF d
  <2>4. Carried(r, d)
    BY <1>6, <2>1, <2>3 DEF Carried
  <2>. QED  BY <2>4 DEF d
<1>. QED  BY <1>1, <1>2, <1>3, <1>4, <1>5, <1>6, ReplyKinds, Zenon

(* The octets the CRC of a reply covers.                                   *)
LEMMA ReplyCovered ==
    ASSUME NEW r \in Replies
    PROVE  /\ Covered(r) \in Seq(0 .. 255) /\ Len(Covered(r)) = 2 + Len(DataOf(r))
           /\ Covered(r)[1] = Len(Covered(r)) - 1 /\ Covered(r)[2] = r[2]
           /\ SubSeq(Covered(r), 3, Len(Covered(r))) = DataOf(r)
           /\ Reply(r) = Enclose(Covered(r), CrcReference(Covered(r)))
<1>. DEFINE S == 0 .. 255
            d == DataOf(r)
            head == <<1 + Len(d), r[2]>>
            c == head \o d
            n == Len(d)
<1>1. d \in Seq(S) /\ n \in 0 .. 4 /\ r[2] \in 0 .. 1
  <2>1. Carried(r, d)
    BY ReplyData
  <2>. HIDE DEF d
  <2>. QED  BY <2>1 DEF Carried
<1>2. head \in Seq(S) /\ Len(head) = 2 /\ head[1] = 1 + n /\ head[2] = r[2]
  <2>1. 1 + n \in S /\ r[2] \in S
    <3>. HIDE DEF n
    <3>. QED  BY <1>1
  <2>. HIDE DEF d, S
  <2>. QED  BY <2>1
<1>. HIDE DEF d, head, n, S
<1>3. Joins(c, S, head, 2, d, n)
  BY <1>1, <1>2, Concat, Zenon DEF n
<1>. HIDE DEF c
<1>4. c \in Seq(S) /\ Len(c) = 2 + n
  BY <1>3 DEF Joins
<1>5. c[1] = 1 + n /\ c[2] = r[2]
  <2>1. 1 \in 1 .. 2 + n /\ 2 \in 1 .. 2 + n /\ 1 <= 2 /\ 2 <= 2
    BY <1>1
  <2>. QED  BY <1>2, <1>3, <2>1 DEF Joins
<1>6. SubSeq(c, 3, 2 + n) = d
  <2>. DEFINE s == SubSeq(c, 3, 2 + n)
  <2>1. 3 \in Int /\ 2 + n \in Int /\ \A i \in 3 .. 2 + n : c[i] \in S
    <3>1. \A i \in 1 .. Len(c) : c[i] \in S
      BY <1>4, ElementOfSeq
    <3>. QED  BY <1>1, <1>4, <3>1
  <2>2. /\ s \in Seq(S) /\ Len(s) = (IF 3 <= 2 + n THEN (2 + n) - 3 + 1 ELSE 0)
        /\ \A i \in 1 .. (2 + n) - 3 + 1 : s[i] = c[3 + i - 1]
    BY <2>1, SubSeqProperties
  <2>. HIDE DEF s
  <2>3. Len(s) = n
    BY <1>1, <2>2
  <2>4. \A i \in 1 .. n : s[i] = d[i]
    <3>. TAKE i \in 1 .. n
    <3>1. /\ i \in 1 .. (2 + n) - 3 + 1 /\ 3 + i - 1 = i + 2 /\ i + 2 \in 1 .. 2 + n
          /\ ~(i + 2 <= 2) /\ (i + 2) - 2 = i
      BY <1>1
    <3>2. c[i + 2] = d[(i + 2) - 2]
      BY <1>3, <3>1 DEF Joins
    <3>. QED  BY <2>2, <3>1, <3>2
  <2>5. s = d
    BY <1>1, <2>2, <2>3, <2>4, SeqEqual, Zenon DEF n
  <2>. QED  BY <2>5 DEF s
<1>7. Covered(r) = c
  BY DEF Covered, c, head, d
<1>8. Reply(r) = Enclose(c, CrcReference(c))
  BY DEF Reply, Enclose, c, head, d
<1>9. c[1] = Len(c) - 1
  BY <1>1, <1>4, <1>5
<1>10. SubSeq(c, 3, Len(c)) = d
  BY <1>4, <1>6
<1>. QED  BY <1>4, <1>5, <1>7, <1>8, <1>9, <1>10 DEF S, d, n

(* The CRC of a reply, in its two octets.                                  *)
LEMMA ReplyFramed ==
    ASSUME NEW r \in Replies
    PROVE  \E l \in 0 .. 255, h \in 0 .. 255 :
             /\ Framed(Reply(r), Covered(r), l, h)
             /\ Len(Reply(r)) = Len(Covered(r)) + 3
             /\ crc16_compute(Covered(r)) = Joined(l, h)
<1>. DEFINE c == Covered(r)
            v == crc16_compute(c)
            l == v % 256
            h == (v \div 256) % 256
<1>1. c \in Seq(0 .. 255) /\ Reply(r) = Enclose(c, CrcReference(c))
  BY ReplyCovered
<1>. HIDE DEF c
<1>2. CrcReference(c) = v /\ v \in Nat /\ v < 256^2
  BY <1>1, CrcAgrees, NumberBound DEF crc16_compute
<1>. HIDE DEF v
<1>3. l \in 0 .. 255 /\ h \in 0 .. 255 /\ v = Joined(l, h)
  BY <1>2, SMT DEF Joined
<1>. HIDE DEF l, h
<1>4. Framed(Enclose(c, v), c, l, h) /\ Len(Enclose(c, v)) = Len(c) + 3
  BY <1>1, <1>2, Enclosed DEF l, h
<1>. QED  BY <1>1, <1>2, <1>3, <1>4 DEF c, v

\* What the command returns that reads this kind and gets this reply.
Answer(kind, r) ==
    IF r[1] = "nack" THEN <<r[3]>>
    ELSE IF ~Fits(kind, DataOf(r)) THEN <<MCUCO_STATUS_ERR_BAD_FRAME>>
    ELSE IF kind = "level" THEN <<MCUCO_STATUS_OK, ToLevel(DataOf(r))>>
    ELSE IF kind = "duty" THEN <<MCUCO_STATUS_OK, get_u16_le(DataOf(r))>>
    ELSE IF kind = "freq" THEN <<MCUCO_STATUS_OK, get_u32_le(DataOf(r))>>
    ELSE <<MCUCO_STATUS_OK>>

(* A frame that is refused yields its status and nothing else.             *)
LEMMA FailedResults ==
    ASSUME NEW u, NEW s, exchange(u).status = s, s # MCUCO_STATUS_OK, NEW kind \in Kinds,
           NEW res \in Results(kind, u)
    PROVE  res = <<s>>
<1>1. CASE kind = "none"
  BY <1>1 DEF Results, WriteOnly
<1>2. CASE kind = "magic"
  BY <1>2 DEF Results, mcuco_probe
<1>3. CASE kind = "level"
  BY <1>3 DEF Results, mcuco_gpio_get, mcuco_gpio_toggle, Reading
<1>4. CASE kind = "duty"
  BY <1>4 DEF Results, mcuco_pwm_channel_get, Reading
<1>5. CASE kind = "freq"
  BY <1>5 DEF Results, mcuco_pwm_group_get, Reading
<1>. QED  BY <1>1, <1>2, <1>3, <1>4, <1>5 DEF Kinds

(* A frame that passes is read.                                            *)
LEMMA PassedResults ==
    ASSUME NEW u, NEW d, exchange(u).status = MCUCO_STATUS_OK, exchange(u).data = d,
           NEW kind \in Kinds, NEW res \in Results(kind, u)
    PROVE  res = IF ~Fits(kind, d) THEN <<MCUCO_STATUS_ERR_BAD_FRAME>>
                 ELSE IF kind = "level" THEN <<MCUCO_STATUS_OK, ToLevel(d)>>
                 ELSE IF kind = "duty" THEN <<MCUCO_STATUS_OK, get_u16_le(d)>>
                 ELSE IF kind = "freq" THEN <<MCUCO_STATUS_OK, get_u32_le(d)>>
                 ELSE <<MCUCO_STATUS_OK>>
<1>1. CASE kind = "none"
  <2>1. Fits(kind, d)
    BY <1>1 DEF Fits
  <2>. QED  BY <1>1, <2>1 DEF Results, WriteOnly
<1>2. CASE kind = "magic"
  <2>1. Fits(kind, d) <=> d = PROBE_MAGIC
    BY <1>2 DEF Fits
  <2>2. res = mcuco_probe(u)
    BY <1>2 DEF Results
  <2>3. res = IF d # PROBE_MAGIC THEN <<MCUCO_STATUS_ERR_BAD_FRAME>> ELSE <<MCUCO_STATUS_OK>>
    BY <2>2, Zenon DEF mcuco_probe
  <2>. QED  BY <1>2, <2>1, <2>3
<1>3. CASE kind = "level"
  <2>1. Fits(kind, d) <=> Len(d) = 1
    BY <1>3 DEF Fits
  <2>2. res = mcuco_gpio_get(u) \/ res = mcuco_gpio_toggle(u)
    BY <1>3 DEF Results
  <2>3. res = IF Len(d) # 1 THEN <<MCUCO_STATUS_ERR_BAD_FRAME>>
              ELSE <<MCUCO_STATUS_OK, ToLevel(d)>>
    BY <2>2, Zenon DEF mcuco_gpio_get, mcuco_gpio_toggle, Reading
  <2>. QED  BY <1>3, <2>1, <2>3
<1>4. CASE kind = "duty"
  <2>1. Fits(kind, d) <=> Len(d) = 2
    BY <1>4 DEF Fits
  <2>2. res = mcuco_pwm_channel_get(u)
    BY <1>4 DEF Results
  <2>3. res = IF Len(d) # 2 THEN <<MCUCO_STATUS_ERR_BAD_FRAME>>
              ELSE <<MCUCO_STATUS_OK, get_u16_le(d)>>
    BY <2>2, Zenon DEF mcuco_pwm_channel_get, Reading
  <2>. QED  BY <1>4, <2>1, <2>3
<1>5. CASE kind = "freq"
  <2>1. Fits(kind, d) <=> Len(d) = 4
    BY <1>5 DEF Fits
  <2>2. res = mcuco_pwm_group_get(u)
    BY <1>5 DEF Results
  <2>3. res = IF Len(d) # 4 THEN <<MCUCO_STATUS_ERR_BAD_FRAME>>
              ELSE <<MCUCO_STATUS_OK, get_u32_le(d)>>
    BY <2>2, Zenon DEF mcuco_pwm_group_get, Reading
  <2>. QED  BY <1>5, <2>1, <2>3
<1>. QED  BY <1>1, <1>2, <1>3, <1>4, <1>5 DEF Kinds

(* A reply that arrives whole is answered, whatever follows it.            *)
LEMMA WholeReply ==
    ASSUME NEW r \in Replies, NEW junk \in Seq(0 .. 255), NEW kind \in Kinds,
           NEW res \in Results(kind, Reply(r) \o junk)
    PROVE  res = Answer(kind, r)
<1>. DEFINE u == Reply(r) \o junk
            c == Covered(r)
            d == DataOf(r)
            e == exchange(u)
<1>1. /\ c \in Seq(0 .. 255) /\ Len(c) = 2 + Len(d) /\ c[1] = Len(c) - 1 /\ c[2] = r[2]
      /\ SubSeq(c, 3, Len(c)) = d
  BY ReplyCovered
<1>2. PICK l \in 0 .. 255, h \in 0 .. 255 :
        Framed(Reply(r), c, l, h) /\ crc16_compute(c) = Joined(l, h)
  BY ReplyFramed
<1>3. Framed(u, c, l, h)
  BY <1>1, <1>2, FramedBefore
<1>4. Carried(r, d)
  BY ReplyData
<1>. HIDE DEF u, c, d, e
<1>5. Len(c) \in 2 .. 6
  <2>1. Len(d) \in 0 .. 4
    BY <1>4 DEF Carried
  <2>2. Len(c) = 2 + Len(d)
    BY <1>1
  <2>3. \A n \in 0 .. 4 : 2 + n \in 2 .. 6
    OBVIOUS
  <2>. QED  BY <2>1, <2>2, <2>3, Zenon
<1>6. CASE r[1] = "nack"
  <2>1. r[2] = 0 /\ Len(d) = 1 /\ d[1] = r[3] /\ r[3] \in 1 .. 127
    BY <1>4, <1>6 DEF Carried
  <2>2. exchange(u) = [status |-> d[1], data |-> d]
    BY <1>1, <1>2, <1>3, <1>5, <2>1, ExchangeFramed DEF Bytes
  <2>3. exchange(u).status = r[3] /\ r[3] # MCUCO_STATUS_OK
    <3>1. exchange(u).status = d[1]
      BY <2>2
    <3>2. r[3] # 0
      <4>1. \A n \in 1 .. 127 : n # 0
        OBVIOUS
      <4>. QED  BY <2>1, <4>1, Zenon
    <3>. QED  BY <2>1, <3>1, <3>2 DEF MCUCO_STATUS_OK
  <2>4. res = <<r[3]>>
    BY <2>3, FailedResults DEF u
  <2>. QED  BY <1>6, <2>4 DEF Answer
<1>7. CASE r[1] # "nack"
  <2>1. r[2] # 0
    BY <1>4, <1>7 DEF Carried
  <2>2. exchange(u) = [status |-> MCUCO_STATUS_OK, data |-> d]
    BY <1>1, <1>2, <1>3, <1>5, <2>1, ExchangeFramed DEF Bytes
  <2>3. exchange(u).status = MCUCO_STATUS_OK /\ exchange(u).data = d
    BY <2>2
  <2>4. res = IF ~Fits(kind, d) THEN <<MCUCO_STATUS_ERR_BAD_FRAME>>
              ELSE IF kind = "level" THEN <<MCUCO_STATUS_OK, ToLevel(d)>>
              ELSE IF kind = "duty" THEN <<MCUCO_STATUS_OK, get_u16_le(d)>>
              ELSE IF kind = "freq" THEN <<MCUCO_STATUS_OK, get_u32_le(d)>>
              ELSE <<MCUCO_STATUS_OK>>
    BY <2>3, PassedResults DEF u
  <2>. QED  BY <1>7, <2>4, Zenon DEF Answer, d
<1>. QED  BY <1>6, <1>7

\* The damage: x in octet i of w, y in the one behind it, as numbers.
Struck(w, z, n, i, x, y) ==
    /\ z \in Seq(0 .. 255) /\ Len(z) = n
    /\ \A k \in 1 .. n : k # i /\ k # i + 1 => z[k] = w[k]
    /\ z[i] \in 0 .. 255 /\ Bits(z[i]) = SymDiff(Bits(w[i]), x)
    /\ z[i + 1] \in 0 .. 255 /\ Bits(z[i + 1]) = SymDiff(Bits(w[i + 1]), y)

(* The sum of two octets is an octet.                                      *)
LEMMA FlippedOctet ==
    ASSUME NEW a \in 0 .. 255, NEW b \in 0 .. 255
    PROVE  /\ Number(SymDiff(Bits(a), Bits(b))) \in 0 .. 255
           /\ Bits(Number(SymDiff(Bits(a), Bits(b)))) = SymDiff(Bits(a), Bits(b))
<1>1. Bits(a) \in SUBSET (0 .. 7) /\ Bits(b) \in SUBSET (0 .. 7)
  BY OctetBits
<1>2. SymDiff(Bits(a), Bits(b)) \in SUBSET (0 .. 7)
  BY <1>1, Zenon DEF SymDiff
<1>. QED  BY <1>2, OctetNumber, BitsOfOctet

(* A damaged reply is made of octets.                                      *)
LEMMA DamagedOctets ==
    ASSUME NEW w \in Seq(0 .. 255), NEW i \in Nat, i >= 1, i + 1 <= Len(w),
           NEW flip \in (0 .. 255) \X (0 .. 255)
    PROVE  Struck(w, Damaged(w, i, flip), Len(w), i, Bits(flip[1]), Bits(flip[2]))
<1>. DEFINE n == Len(w)
            z == Damaged(w, i, flip)
            New(k) == IF k \in {i, i + 1}
                        THEN Number(SymDiff(Bits(w[k]), Bits(flip[k - i + 1]))) ELSE w[k]
<1>1. n \in Nat /\ DOMAIN w = 1 .. n /\ \A k \in 1 .. n : w[k] \in 0 .. 255
  BY LenProperties, ElementOfSeq
<1>2. flip[1] \in 0 .. 255 /\ flip[2] \in 0 .. 255
  OBVIOUS
<1>. HIDE DEF n
<1>3. i \in 1 .. n /\ i + 1 \in 1 .. n /\ i - i + 1 = 1 /\ (i + 1) - i + 1 = 2
  BY <1>1 DEF n
<1>4. /\ New(i) = Number(SymDiff(Bits(w[i]), Bits(flip[1])))
      /\ New(i + 1) = Number(SymDiff(Bits(w[i + 1]), Bits(flip[2])))
      /\ \A k \in 1 .. n : k # i /\ k # i + 1 => New(k) = w[k]
  BY <1>3
<1>5. /\ New(i) \in 0 .. 255 /\ Bits(New(i)) = SymDiff(Bits(w[i]), Bits(flip[1]))
      /\ New(i + 1) \in 0 .. 255 /\ Bits(New(i + 1)) = SymDiff(Bits(w[i + 1]), Bits(flip[2]))
  <2>. HIDE DEF New
  <2>1. w[i] \in 0 .. 255 /\ w[i + 1] \in 0 .. 255
    BY <1>1, <1>3
  <2>. DEFINE a == w[i]
              b == w[i + 1]
              f == flip[1]
              g == flip[2]
  <2>. HIDE DEF a, b, f, g
  <2>2. a \in 0 .. 255 /\ b \in 0 .. 255 /\ f \in 0 .. 255 /\ g \in 0 .. 255
    BY <1>2, <2>1 DEF a, b, f, g
  <2>3. /\ Number(SymDiff(Bits(a), Bits(f))) \in 0 .. 255
        /\ Bits(Number(SymDiff(Bits(a), Bits(f)))) = SymDiff(Bits(a), Bits(f))
    BY <2>2, FlippedOctet
  <2>4. /\ Number(SymDiff(Bits(b), Bits(g))) \in 0 .. 255
        /\ Bits(Number(SymDiff(Bits(b), Bits(g)))) = SymDiff(Bits(b), Bits(g))
    BY <2>2, FlippedOctet
  <2>. QED  BY <1>4, <2>3, <2>4 DEF a, b, f, g
<1>6. z = [k \in 1 .. n |-> New(k)]
  BY <1>1 DEF Damaged
<1>. HIDE DEF New, z
<1>7. \A k \in 1 .. n : New(k) \in 0 .. 255
  BY <1>1, <1>4, <1>5
<1>8. z \in Seq(0 .. 255) /\ Len(z) = n /\ \A k \in 1 .. n : z[k] = New(k)
  <2>. DEFINE S == 0 .. 255
  <2>1. \A k \in 1 .. n : New(k) \in S
    BY <1>7
  <2>. HIDE DEF S
  <2>2. z \in Seq(S) /\ Len(z) = n /\ \A k \in 1 .. n : z[k] = New(k)
    BY <1>1, <1>6, <2>1
  <2>. QED  BY <2>2 DEF S
<1>. QED  BY <1>3, <1>4, <1>5, <1>8, Zenon DEF Struck, n, z

-----------------------------------------------------------------------------
(* Damaged replies.                                                        *)

(* Exclusive or, cancelled.                                                *)
LEMMA Cancel ==
    ASSUME NEW A, NEW x
    PROVE  /\ SymDiff(A, SymDiff(A, x)) = x
           /\ SymDiff(A, x) = A => x = {}
<1>1. SymDiff(A, SymDiff(A, x)) = x
  BY Zenon DEF SymDiff
<1>2. ASSUME SymDiff(A, x) = A PROVE x = {}
  <2>1. \A i \in x : FALSE
    BY <1>2, Zenon DEF SymDiff
  <2>. QED  BY <2>1
<1>. QED  BY <1>1, <1>2

(* Words that agree in the high octet differ as their low octets do.       *)
LEMMA LowDiffer ==
    ASSUME NEW A \in SUBSET (0 .. 7), NEW B \in SUBSET (0 .. 7), NEW H \in SUBSET (0 .. 7)
    PROVE  SymDiff(A \cup Shift(H, 8), B \cup Shift(H, 8)) = SymDiff(A, B)
<1>1. \A i \in Shift(H, 8) : i \notin A /\ i \notin B
  BY DEF Shift
<1>. QED  BY <1>1, Zenon DEF SymDiff

(* The octets that are flipped, from the bits that are.                    *)
LEMMA FlipOf ==
    ASSUME NEW a \in 0 .. 255
    PROVE  /\ Bits(a) \in SUBSET (0 .. 7)
           /\ Bits(a) = {} => a = 0
           /\ Bits(a) = {0, 3, 7} => a = 137
           /\ Bits(a) = {0, 5, 7} => a = 161
<1>1. Number(Bits(a)) = a /\ Bits(a) \in SUBSET (0 .. 7)
  BY NumberOfBits, OctetBits
<1>2. Number({}) = 0
  BY SMT DEF Number
<1>3. Number({0, 3, 7}) = 137
  BY SMT DEF Number
<1>4. Number({0, 5, 7}) = 161
  BY SMT DEF Number
<1>. QED  BY <1>1, <1>2, <1>3, <1>4

(* Octets of the same bits are the same.                                   *)
LEMMA SameOctets ==
    ASSUME NEW l \in 0 .. 255, NEW h \in 0 .. 255, NEW p \in 0 .. 255, NEW q \in 0 .. 255,
           Joined(l, h) = Joined(p, q)
    PROVE  p = l /\ q = h
BY SMT DEF Joined

(* The bits of a CRC are the register.                                     *)
LEMMA CheckBits ==
    ASSUME NEW c \in Seq(0 .. 255), NEW l \in 0 .. 255, NEW h \in 0 .. 255,
           crc16_compute(c) = Joined(l, h)
    PROVE  Check(c) = Bits(l) \cup Shift(Bits(h), 8)
<1>1. Check(c) \in Word16 /\ Number(Check(c)) = Joined(l, h)
  BY SeededRegisters
<1>2. Bits(Number(Check(c))) = Check(c)
  BY <1>1, BitsOfNumber
<1>3. Bits(Joined(l, h)) = Bits(l) \cup Shift(Bits(h), 8)
  BY JoinBits DEF Joined
<1>. QED  BY <1>1, <1>2, <1>3

\* Two messages, the second struck in octet j by x and in the next by y, each
\* with the octets of a CRC behind it, where the blow may fall too.
Strike(c, e, l, h, p, q, m, j, x, y) ==
    /\ c \in Seq(0 .. 255) /\ e \in Seq(0 .. 255)
    /\ l \in 0 .. 255 /\ h \in 0 .. 255 /\ p \in 0 .. 255 /\ q \in 0 .. 255
    /\ m \in Nat /\ m >= 2 /\ Len(c) = m /\ j \in 2 .. m + 1
    /\ x \in SUBSET (0 .. 7) /\ y \in SUBSET (0 .. 7) /\ Hit(c, e, j, x, y)
    /\ j < m => p = l /\ q = h
    /\ j = m => q = h /\ Bits(p) = SymDiff(Bits(l), y)
    /\ j = m + 1 => Bits(p) = SymDiff(Bits(l), x) /\ Bits(q) = SymDiff(Bits(h), y)

(* When both CRCs are right the blow was none, or the one that cannot be    *)
(* seen.                                                                   *)
LEMMA Unnoticed ==
    ASSUME NEW c, NEW e, NEW l, NEW h, NEW p, NEW q, NEW m, NEW j, NEW x, NEW y,
           Strike(c, e, l, h, p, q, m, j, x, y),
           crc16_compute(c) = Joined(l, h), crc16_compute(e) = Joined(p, q)
    PROVE  (x = {} /\ y = {}) \/ (j = m /\ x = {0, 3, 7} /\ y = {0, 5, 7})
<1>. USE DEF Strike
<1>1. Check(c) = Bits(l) \cup Shift(Bits(h), 8)
  BY CheckBits
<1>2. Check(e) = Bits(p) \cup Shift(Bits(q), 8)
  BY CheckBits
<1>3. CASE j < m
  <2>1. Check(c) = Check(e)
    BY <1>1, <1>2, <1>3
  <2>2. j \in 1 .. Len(c) /\ j < Len(c)
    BY <1>3
  <2>. QED  BY <2>1, <2>2, InnerDamageShows
<1>4. CASE j = m
  <2>1. Bits(l) \in SUBSET (0 .. 7) /\ Bits(p) \in SUBSET (0 .. 7) /\ Bits(h) \in SUBSET (0 .. 7)
    BY OctetBits
  <2>2. SymDiff(Bits(l) \cup Shift(Bits(h), 8), Bits(p) \cup Shift(Bits(h), 8)) =
          SymDiff(Bits(l), Bits(p))
    <3>. HIDE DEF Strike
    <3>. QED  BY <2>1, LowDiffer, Zenon
  <2>3. SymDiff(Bits(l), SymDiff(Bits(l), y)) = y
    BY Cancel
  <2>4. SymDiff(Check(c), Check(e)) = y
    <3>1. q = h /\ Bits(p) = SymDiff(Bits(l), y)
      BY <1>4
    <3>. QED  BY <1>1, <1>2, <2>2, <2>3, <3>1, Zenon
  <2>5. Len(c) >= 1 /\ Hit(c, e, Len(c), x, y)
    BY <1>4
  <2>. QED  BY <1>4, <2>4, <2>5, EdgeDamageShows
<1>5. CASE j = m + 1
  <2>1. c = e
    BY <1>5, SameCheck
  <2>2. Joined(l, h) = Joined(p, q)
    BY <2>1
  <2>3. p = l /\ q = h
    BY <2>2, SameOctets
  <2>4. SymDiff(Bits(l), x) = Bits(l) => x = {}
    BY Cancel
  <2>5. SymDiff(Bits(h), y) = Bits(h) => y = {}
    BY Cancel
  <2>. QED  BY <1>5, <2>3, <2>4, <2>5
<1>. QED  BY <1>3, <1>4, <1>5

\* The frame w of c arrives as z: octets i and i + 1 have a and b inverted.
Arrives(w, c, l, h, m, z, i, a, b) ==
    /\ c \in Seq(0 .. 255) /\ l \in 0 .. 255 /\ h \in 0 .. 255 /\ Framed(w, c, l, h)
    /\ m \in 2 .. 6 /\ Len(c) = m /\ c[1] = m - 1 /\ crc16_compute(c) = Joined(l, h)
    /\ i \in 3 .. m + 2 /\ a \in 0 .. 255 /\ b \in 0 .. 255 /\ (a # 0 \/ b # 0)
    /\ ~(i = m + 1 /\ a = 137 /\ b = 161)
    /\ Struck(w, z, m + 3, i, Bits(a), Bits(b))

(* One exchange refuses a damaged reply.                                   *)
LEMMA DamageShows ==
    ASSUME NEW w, NEW c, NEW l, NEW h, NEW m, NEW z, NEW i, NEW a, NEW b,
           Arrives(w, c, l, h, m, z, i, a, b)
    PROVE  exchange(z) = BadFrame
<1>0. SUFFICES
        ASSUME c \in Seq(0 .. 255), l \in 0 .. 255, h \in 0 .. 255, Framed(w, c, l, h),
               m \in 2 .. 6, Len(c) = m, c[1] = m - 1, crc16_compute(c) = Joined(l, h),
               i \in 3 .. m + 2, a \in 0 .. 255, b \in 0 .. 255, a # 0 \/ b # 0,
               ~(i = m + 1 /\ a = 137 /\ b = 161),
               Struck(w, z, m + 3, i, Bits(a), Bits(b))
        PROVE  exchange(z) = BadFrame
  BY DEF Arrives
<1>. DEFINE x == Bits(a)
            y == Bits(b)
            j == i - 1
            e == [k \in 1 .. m |-> z[k + 1]]
            p == z[m + 2]
            q == z[m + 3]
<1>. USE <1>0
<1>1. /\ z \in Seq(0 .. 255) /\ Len(z) = m + 3
      /\ \A k \in 1 .. m + 3 : k # i /\ k # i + 1 => z[k] = w[k]
      /\ z[i] \in 0 .. 255 /\ Bits(z[i]) = SymDiff(Bits(w[i]), x)
      /\ z[i + 1] \in 0 .. 255 /\ Bits(z[i + 1]) = SymDiff(Bits(w[i + 1]), y)
  BY DEF Struck
<1>2. /\ w[1] = PROTOCOL_SOF /\ w[m + 2] = l /\ w[m + 3] = h
      /\ \A k \in 1 .. m : w[k + 1] = c[k]
  BY DEF Framed
<1>3. \A k \in 1 .. m + 3 : z[k] \in 0 .. 255
  BY <1>1, ElementOfSeq
<1>4. x \in SUBSET (0 .. 7) /\ y \in SUBSET (0 .. 7)
  BY FlipOf
<1>. HIDE DEF x, y
<1>5. \A k \in 1 .. m : k + 1 \in 1 .. m + 3
  OBVIOUS
<1>6. e \in Seq(0 .. 255) /\ Len(e) = m /\ \A k \in 1 .. m : e[k] = z[k + 1]
  <2>. DEFINE S == 0 .. 255
  <2>1. (\A k \in 1 .. m : z[k + 1] \in S) /\ m \in Nat
    BY <1>3, <1>5
  <2>. HIDE DEF S
  <2>2. e \in Seq(S) /\ Len(e) = m /\ \A k \in 1 .. m : e[k] = z[k + 1]
    BY <2>1
  <2>. QED  BY <2>2 DEF S
<1>7. p \in 0 .. 255 /\ q \in 0 .. 255
  <2>1. m + 2 \in 1 .. m + 3 /\ m + 3 \in 1 .. m + 3
    OBVIOUS
  <2>. QED  BY <1>3, <2>1
<1>. HIDE DEF e
<1>8. Framed(z, e, p, q)
  <2>1. z[1] = w[1]
    <3>1. 1 \in 1 .. m + 3 /\ 1 # i /\ 1 # i + 1
      OBVIOUS
    <3>. QED  BY <1>1, <3>1
  <2>2. m + 3 >= m + 3
    OBVIOUS
  <2>. QED  BY <1>1, <1>2, <1>6, <2>1, <2>2 DEF Framed
<1>9. e[1] = m - 1
  <2>1. 1 \in 1 .. m /\ 1 + 1 = 2 /\ 2 \in 1 .. m + 3 /\ 2 # i /\ 2 # i + 1
    OBVIOUS
  <2>2. e[1] = z[2] /\ z[2] = w[2]
    BY <1>1, <1>6, <2>1
  <2>3. w[2] = c[1]
    BY <1>2, <2>1
  <2>. QED  BY <2>2, <2>3
<1>10. Hit(c, e, j, x, y)
  <2>1. ASSUME NEW k \in 1 .. m, k # j, k # j + 1 PROVE c[k] = e[k]
    <3>1. k + 1 # i /\ k + 1 # i + 1 /\ k + 1 \in 1 .. m + 3
      BY <2>1
    <3>. QED  BY <1>1, <1>2, <1>6, <3>1
  <2>2. ASSUME j <= m PROVE SymDiff(Bits(c[j]), Bits(e[j])) = x
    <3>1. j \in 1 .. m /\ j + 1 = i
      BY <2>2
    <3>2. e[j] = z[i] /\ w[i] = c[j]
      BY <1>2, <1>6, <3>1
    <3>3. SymDiff(Bits(c[j]), SymDiff(Bits(c[j]), x)) = x
      BY Cancel
    <3>. QED  BY <1>1, <3>2, <3>3
  <2>3. ASSUME j + 1 <= m PROVE SymDiff(Bits(c[j + 1]), Bits(e[j + 1])) = y
    <3>1. j + 1 \in 1 .. m /\ j + 1 = i
      BY <2>3
    <3>2. e[i] = z[i + 1] /\ w[i + 1] = c[i]
      BY <1>2, <1>6, <3>1
    <3>3. SymDiff(Bits(c[i]), SymDiff(Bits(c[i]), y)) = y
      BY Cancel
    <3>. QED  BY <1>1, <3>1, <3>2, <3>3
  <2>. QED  BY <1>6, <2>1, <2>2, <2>3 DEF Hit
<1>11. ASSUME crc16_compute(e) = Joined(p, q) PROVE FALSE
  <2>1. j < m => p = l /\ q = h
    <3>1. j < m => /\ m + 2 # i /\ m + 2 # i + 1 /\ m + 3 # i /\ m + 3 # i + 1
                   /\ m + 2 \in 1 .. m + 3 /\ m + 3 \in 1 .. m + 3
      OBVIOUS
    <3>. QED  BY <1>1, <1>2, <3>1
  <2>2. j = m => q = h /\ Bits(p) = SymDiff(Bits(l), y)
    <3>1. j = m => /\ m + 3 # i /\ m + 3 # i + 1 /\ m + 3 \in 1 .. m + 3 /\ i + 1 = m + 2
      OBVIOUS
    <3>. QED  BY <1>1, <1>2, <3>1
  <2>3. j = m + 1 => Bits(p) = SymDiff(Bits(l), x) /\ Bits(q) = SymDiff(Bits(h), y)
    <3>1. j = m + 1 => i = m + 2 /\ i + 1 = m + 3
      OBVIOUS
    <3>. QED  BY <1>1, <1>2, <3>1
  <2>4. j \in 2 .. m + 1 /\ m \in Nat /\ m >= 2 /\ (j = m => i = m + 1)
    OBVIOUS
  <2>. HIDE DEF j, p, q
  <2>5. (x = {} /\ y = {}) \/ (j = m /\ x = {0, 3, 7} /\ y = {0, 5, 7})
    <3>1. Strike(c, e, l, h, p, q, m, j, x, y)
      BY <1>4, <1>6, <1>7, <1>10, <2>1, <2>2, <2>3, <2>4 DEF Strike
    <3>. QED  BY <1>11, <3>1, Unnoticed, Zenon
  <2>6. (x = {} => a = 0) /\ (x = {0, 3, 7} => a = 137)
    BY FlipOf DEF x
  <2>7. (y = {} => b = 0) /\ (y = {0, 5, 7} => b = 161)
    BY FlipOf DEF y
  <2>. QED  BY <2>4, <2>5, <2>6, <2>7, Zenon
<1>12. Len(e) \in 2 .. 6 /\ e[1] = Len(e) - 1
  BY <1>6, <1>9
<1>. HIDE DEF p, q
<1>13. e \in Seq(Bytes)
  BY <1>6 DEF Bytes
<1>. QED  BY <1>8, <1>11, <1>12, <1>13, ExchangeFramed, Zenon

(* Damage that is not the blind one makes a reply a bad frame.             *)
LEMMA DamagedReply ==
    ASSUME NEW r \in Replies, NEW i \in Nat, i + 1 \in 4 .. Len(Reply(r)),
           NEW flip \in (0 .. 255) \X (0 .. 255), flip # <<0, 0>>, ~Blind(r, i, flip),
           NEW kind \in Kinds, NEW res \in Results(kind, Damaged(Reply(r), i, flip))
    PROVE  res = <<MCUCO_STATUS_ERR_BAD_FRAME>>
<1>. DEFINE w == Reply(r)
            c == Covered(r)
            m == Len(c)
            z == Damaged(w, i, flip)
            a == flip[1]
            b == flip[2]
<1>1. PICK l \in 0 .. 255, h \in 0 .. 255 :
        Framed(w, c, l, h) /\ Len(w) = m + 3 /\ crc16_compute(c) = Joined(l, h)
  BY ReplyFramed
<1>2. c \in Seq(0 .. 255) /\ m = 2 + Len(DataOf(r)) /\ c[1] = m - 1
  BY ReplyCovered
<1>3. m \in 2 .. 6
  <2>1. Len(DataOf(r)) \in 0 .. 4
    BY ReplyData DEF Carried
  <2>2. \A n \in 0 .. 4 : 2 + n \in 2 .. 6
    OBVIOUS
  <2>. QED  BY <1>2, <2>1, <2>2, Zenon
<1>4. a \in 0 .. 255 /\ b \in 0 .. 255 /\ flip = <<a, b>>
  OBVIOUS
<1>5. a # 0 \/ b # 0
  BY <1>4
<1>. HIDE DEF w, c, a, b
<1>6. w \in Seq(0 .. 255)
  BY <1>1 DEF Framed
<1>. HIDE DEF m
<1>7. i \in 3 .. m + 2 /\ i >= 1 /\ i + 1 <= Len(w)
  BY <1>1, <1>3 DEF w
<1>8. ~(i = m + 1 /\ a = 137 /\ b = 161)
  <2>1. i = m + 1 => i = Len(w) - 2
    BY <1>1, <1>3
  <2>2. ~(i = Len(w) - 2 /\ <<a, b>> = <<137, 161>>)
    BY <1>4 DEF Blind, w
  <2>. QED  BY <2>1, <2>2
<1>9. Struck(w, z, m + 3, i, Bits(a), Bits(b))
  <2>1. Struck(w, z, Len(w), i, Bits(a), Bits(b))
    BY <1>6, <1>7, DamagedOctets DEF a, b
  <2>. QED  BY <1>1, <2>1
<1>. HIDE DEF z
<1>10. exchange(z) = BadFrame
  <2>1. Len(c) = m
    BY DEF m
  <2>2. Arrives(w, c, l, h, m, z, i, a, b)
    BY <1>1, <1>2, <1>3, <1>4, <1>5, <1>7, <1>8, <1>9, <2>1, Zenon DEF Arrives
  <2>. QED  BY <2>2, DamageShows
<1>11. /\ exchange(z).status = MCUCO_STATUS_ERR_BAD_FRAME
       /\ MCUCO_STATUS_ERR_BAD_FRAME # MCUCO_STATUS_OK
  BY <1>10 DEF BadFrame, MCUCO_STATUS_ERR_BAD_FRAME, MCUCO_STATUS_OK
<1>12. res \in Results(kind, z)
  BY DEF z, w
<1>. QED  BY <1>11, <1>12, FailedResults

-----------------------------------------------------------------------------
(* ProtocolTrial.                                                          *)

(* Every call that is tried is a command with its number of arguments.     *)
LEMMA CallShape ==
    ASSUME NEW c \in Calls
    PROVE  \E op \in Ops : \E a : c = <<op, a>> /\ Arguments(op, a)
<1>1. /\ \A x \in Enum : x \in Nat
      /\ \A x \in Port : x \in Nat
      /\ \A x \in Freq : x \in Nat
      /\ \A x \in Pin : x \in Nat
      /\ \A x \in Group : x \in Nat
      /\ \A x \in Duty : x \in Nat
  <2>1. \A x \in 0 .. 255 : x \in Nat
    OBVIOUS
  <2>2. /\ Enum \cup Port \subseteq Nat
        /\ Pin \cup Group \cup Level \subseteq 0 .. 255
        /\ \A x \in Duty : x \in Nat
        /\ \A x \in Freq : x \in Nat
    BY TrialAssumption
  <2>. QED  BY <2>1, <2>2, Zenon
<1>. DEFINE Is(op, a) == op \in Ops /\ c = <<op, a>> /\ Arguments(op, a)
<1>. SUFFICES \E op, a : Is(op, a)
  OBVIOUS
<1>. USE DEF Ops, Arguments, PlainOps, EnumOps, PinOps, GroupOps
<1>2. CASE \E op \in PlainOps : c \in Commands(op, {<<>>})
  <2>1. PICK op \in PlainOps : c = <<op, <<>>>>
    BY <1>2 DEF Commands
  <2>2. Is(op, <<>>)
    BY <2>1
  <2>. QED  BY <2>2
<1>3. CASE \E op \in EnumOps : c \in Commands(op, Enum \X Port \X Pin)
  <2>1. PICK op \in EnumOps, x \in Enum, y \in Port, z \in Pin : c = <<op, <<x, y, z>>>>
    BY <1>3 DEF Commands
  <2>2. Is(op, <<x, y, z>>)
    BY <1>1, <2>1
  <2>. QED  BY <2>2
<1>4. CASE \E op \in PinOps : c \in Commands(op, Port \X Pin)
  <2>1. PICK op \in PinOps, y \in Port, z \in Pin : c = <<op, <<y, z>>>>
    BY <1>4 DEF Commands
  <2>2. Is(op, <<y, z>>)
    BY <1>1, <2>1
  <2>. QED  BY <2>2
<1>5. CASE c \in Commands("irq_bind", Enum \X Port \X Pin \X Enum \X Port \X Pin)
  <2>1. PICK u \in Enum, v \in Port, w \in Pin, x \in Enum, y \in Port, z \in Pin :
          c = <<"irq_bind", <<u, v, w, x, y, z>>>>
    BY <1>5 DEF Commands
  <2>2. Is("irq_bind", <<u, v, w, x, y, z>>)
    BY <1>1, <2>1
  <2>. QED  BY <2>2
<1>6. CASE c \in Commands("group_cfg", Freq \X Group)
  <2>1. PICK y \in Freq, z \in Group : c = <<"group_cfg", <<y, z>>>>
    BY <1>6 DEF Commands
  <2>2. Is("group_cfg", <<y, z>>)
    BY <1>1, <2>1
  <2>. QED  BY <2>2
<1>7. CASE c \in Commands("channel_set", Duty \X Port \X Pin)
  <2>1. PICK x \in Duty, y \in Port, z \in Pin : c = <<"channel_set", <<x, y, z>>>>
    BY <1>7 DEF Commands
  <2>2. Is("channel_set", <<x, y, z>>)
    BY <1>1, <2>1
  <2>. QED  BY <2>2
<1>8. CASE \E op \in GroupOps : c \in Commands(op, {<<g>> : g \in Group})
  <2>1. PICK op \in GroupOps, z \in Group : c = <<op, <<z>>>>
    BY <1>8 DEF Commands
  <2>2. Is(op, <<z>>)
    BY <1>1, <2>1
  <2>. QED  BY <2>2
<1>. HIDE DEF Is, Ops, Arguments
<1>. QED  BY <1>2, <1>3, <1>4, <1>5, <1>6, <1>7, <1>8 DEF Calls

\* The frame is the call's.
TrialInv == call \in Calls /\ built = Frame(call)

(* TrialInv is inductive.                                                  *)
LEMMA TrialInvariance == TrialSpec => []TrialInv
<1>1. TrialInit => TrialInv
  <2>. SUFFICES ASSUME TrialInit PROVE TrialInv
    OBVIOUS
  <2>1. call \in Calls
    BY DEF TrialInit, Calls, Commands
  <2>2. Frame(<<"probe", <<>>>>) = protocol_probe
    BY DEF Frame, McuFrame
  <2>. QED  BY <2>1, <2>2 DEF TrialInit, TrialInv
<1>2. TrialInv /\ [TrialNext]_trialVars => TrialInv'
  <2>. SUFFICES ASSUME TrialInv, [TrialNext]_trialVars PROVE TrialInv'
    OBVIOUS
  <2>0. <<"probe", <<>>>> \in Calls
    BY DEF Calls, Commands
  <2>1. ASSUME NEW c \in Calls, Command(c) PROVE TrialInv'
    BY <2>1 DEF Command, TrialInv
  <2>2. CASE UNCHANGED <<call, built>>
    BY <2>2 DEF TrialInv
  <2>. QED  BY <2>0, <2>1, <2>2 DEF TrialNext, Receive, ReceiveDamaged, trialVars
<1>. QED  BY <1>1, <1>2, PTL DEF TrialSpec

(* No two calls that a builder accepts look the same on the wire, whatever *)
(* their arguments: no bit is lost to the casts to uint8_t, no two         *)
(* commands share an encoding.                                             *)
THEOREM NoTwoAlike == TrialSpec => []Unambiguous
<1>1. TrialInv => Unambiguous
  <2>. SUFFICES ASSUME TrialInv, built # <<>>, NEW c \in Calls, Frame(c) = built
                PROVE  c = call
    BY DEF Unambiguous, Legal, Wire
  <2>1. PICK op \in Ops : \E a : call = <<op, a>> /\ Arguments(op, a)
    BY CallShape DEF TrialInv
  <2>2. PICK a : call = <<op, a>> /\ Arguments(op, a)
    BY <2>1
  <2>3. PICK oq \in Ops : \E b : c = <<oq, b>> /\ Arguments(oq, b)
    BY CallShape
  <2>4. PICK b : c = <<oq, b>> /\ Arguments(oq, b)
    BY <2>3
  <2>5. op = oq /\ a = b
    BY <2>2, <2>4, FramesDiffer DEF TrialInv
  <2>. QED  BY <2>2, <2>4, <2>5
<1>. QED  BY TrialInvariance, <1>1, PTL

(* A frame that is built is its opcode, the length and the payload, closed *)
(* by their CRC.                                                           *)
LEMMA FrameEncloses ==
    ASSUME NEW opcode \in 0 .. 255, NEW payload, IsOctets(payload), Len(payload) \in 0 .. 255
    PROVE  \E c \in Seq(0 .. 255) : /\ build_frame(opcode, payload) = Enclose(c, crc16_compute(c))
                                    /\ Len(c) = 2 + Len(payload)
<1>. DEFINE S == 0 .. 255
            n == Len(payload)
            head == <<opcode, n>>
            cut == [i \in DOMAIN payload |-> payload[i] % 256]
            c == head \o cut
<1>1. /\ n \in Nat /\ DOMAIN payload = 1 .. n
      /\ \A i \in 1 .. n : payload[i] \in Nat /\ payload[i] < 256
  BY LenProperties, ElementOfSeq DEF IsOctets
<1>2. \A i \in 1 .. n : payload[i] % 256 \in S
  <2>. TAKE i \in 1 .. n
  <2>1. payload[i] \in Nat /\ payload[i] < 256
    BY <1>1
  <2>2. \A b \in Nat : b % 256 \in S
    BY SMT
  <2>. HIDE DEF S, n
  <2>. QED  BY <2>1, <2>2
<1>3. head \in Seq(S)
  <2>1. opcode \in S /\ n \in S
    OBVIOUS
  <2>. HIDE DEF S, n
  <2>. QED  BY <2>1
<1>4. cut \in Seq(S)
  <2>1. cut = [i \in 1 .. n |-> payload[i] % 256]
    BY <1>1
  <2>. HIDE DEF S, n, cut
  <2>. QED  BY <1>1, <1>2, <2>1
<1>5. c \in Seq(S) /\ Len(c) = 2 + n
  <2>1. Len(head) = 2
    OBVIOUS
  <2>2. Len(cut) = n
    <3>1. cut = [i \in 1 .. n |-> payload[i] % 256]
      BY <1>1
    <3>. HIDE DEF n, cut
    <3>. QED  BY <1>1, <3>1
  <2>. HIDE DEF S, head, cut, n
  <2>3. c \in Seq(S)
    BY <1>3, <1>4, ConcatProperties
  <2>4. Len(c) = 2 + n
    <3>1. Len(head \o cut) = Len(head) + Len(cut)
      BY <1>3, <1>4, ConcatProperties
    <3>. QED  BY <2>1, <2>2, <3>1
  <2>. QED  BY <2>3, <2>4
<1>6. build_frame(opcode, payload) = Enclose(c, crc16_compute(c))
  BY DEF build_frame, Enclose
<1>. HIDE DEF c
<1>. QED  BY <1>5, <1>6

(* The last two octets of such a frame are the remainder of the division.  *)
LEMMA EnclosedRemainder ==
    ASSUME NEW c \in Seq(0 .. 255), NEW f, f = Enclose(c, crc16_compute(c))
    PROVE  SubSeq(f, Len(f) - 1, Len(f)) = put_u16_le(CrcReference(SubSeq(f, 2, Len(f) - 2)))
<1>. DEFINE v == crc16_compute(c)
            m == Len(c)
            l == v % 256
            h == (v \div 256) % 256
<1>1. v \in Nat /\ CrcReference(c) = v
  BY CrcAgrees, NumberBound DEF crc16_compute
<1>. HIDE DEF v
<1>2. Framed(f, c, l, h) /\ Len(f) = m + 3
  BY <1>1, Enclosed DEF v
<1>3. m \in Nat
  BY LenProperties
<1>4. put_u16_le(v) = <<l, h>>
  <2>. DEFINE s == put_u16_le(v)
  <2>1. s \in Seq(0 .. 255) /\ Len(s) = 2 /\ s[1] = l /\ s[2] = h
    BY <1>1, TwoOctets
  <2>. HIDE DEF s, l, h
  <2>2. s = <<s[1], s[2]>>
    BY <2>1, Pair
  <2>3. s = <<l, h>>
    BY <2>1, <2>2, Zenon
  <2>. QED  BY <2>3 DEF s
<1>. HIDE DEF l, h
<1>5. Cuts(f, c, m, l, h)
  BY <1>2, FramedCuts
<1>. HIDE DEF m
<1>6. Len(f) - 1 = m + 2 /\ Len(f) = m + 3 /\ Len(f) - 2 = m + 1
  BY <1>2, <1>3
<1>7. SubSeq(f, 2, m + 1) = c /\ SubSeq(f, m + 2, m + 3) = <<l, h>>
  BY <1>5 DEF Cuts
<1>. QED  BY <1>1, <1>4, <1>6, <1>7

(* The payloads are short.                                                 *)
LEMMA PayloadLength ==
    ASSUME NEW op \in Ops, NEW a, Arguments(op, a), Lawful(op, a)
    PROVE  Len(Payload(op, a)) \in 0 .. 255 /\ OpcodeOf[op] \in 0 .. 255
<1>0. OpcodeOf[op] \in 0 .. 255
  BY DEF Ops, OpcodeOf, PlainOps, EnumOps, PinOps, GroupOps
<1>1. CASE op \notin {"group_cfg", "channel_set"}
  <2>1. Payload(op, a) = a
    BY <1>1 DEF Payload
  <2>2. Len(a) \in 0 .. 255
    BY <1>1 DEF Arguments, Ops, PlainOps, EnumOps, PinOps, GroupOps
  <2>. QED  BY <1>0, <2>1, <2>2
<1>2. CASE op = "group_cfg"
  <2>1. Payload(op, a) = put_u32_le(a[1]) \o <<a[2]>>
    BY <1>2 DEF Payload
  <2>2. Len(put_u32_le(a[1]) \o <<a[2]>>) = 5
    BY DEF put_u32_le
  <2>. QED  BY <1>0, <2>1, <2>2
<1>3. CASE op = "channel_set"
  <2>1. Payload(op, a) = put_u16_le(a[1]) \o <<a[2], a[3]>>
    BY <1>3 DEF Payload
  <2>2. Len(put_u16_le(a[1]) \o <<a[2], a[3]>>) = 4
    BY DEF put_u16_le
  <2>. QED  BY <1>0, <2>1, <2>2
<1>. QED  BY <1>1, <1>2, <1>3

(* The two octets that close a command are the remainder of the polynomial *)
(* division the CRC stands for, whatever the command and its arguments.    *)
THEOREM CrcIsTheRemainder == TrialSpec => []CrcIsRemainder
<1>1. TrialInv => CrcIsRemainder
  <2>. SUFFICES ASSUME TrialInv, built # <<>>
                PROVE  SubSeq(built, Len(built) - 1, Len(built)) =
                         put_u16_le(CrcReference(SubSeq(built, 2, Len(built) - 2)))
    BY DEF CrcIsRemainder
  <2>1. PICK op \in Ops : \E a : call = <<op, a>> /\ Arguments(op, a)
    BY CallShape DEF TrialInv
  <2>2. PICK a : call = <<op, a>> /\ Arguments(op, a)
    BY <2>1
  <2>3. Lawful(op, a) /\ built = build_frame(OpcodeOf[op], Payload(op, a))
    BY <2>2, FrameOf DEF TrialInv
  <2>4. /\ IsOctets(Payload(op, a)) /\ Len(Payload(op, a)) \in 0 .. 255
        /\ OpcodeOf[op] \in 0 .. 255
    BY <2>2, <2>3, PayloadOctets, PayloadLength
  <2>5. PICK c \in Seq(0 .. 255) : built = Enclose(c, crc16_compute(c))
    <3>. DEFINE o == OpcodeOf[op]
                p == Payload(op, a)
    <3>. HIDE DEF o, p
    <3>1. o \in 0 .. 255 /\ IsOctets(p) /\ Len(p) \in 0 .. 255 /\ built = build_frame(o, p)
      BY <2>3, <2>4 DEF o, p
    <3>. QED  BY <3>1, FrameEncloses
  <2>. QED  BY <2>5, EnclosedRemainder
<1>. QED  BY TrialInvariance, <1>1, PTL

\* The last reply, and what was made of it.
ReplyInv ==
    /\ waiting \in Kinds /\ sent \in Replies
    /\ damage = "none" => result = Answer(waiting, sent)
    /\ DamageDetected

(* The reply a trial starts from.                                          *)
LEMMA NoReplyAnswered ==
    /\ NoReply \in Replies /\ "none" \in Kinds
    /\ Answer("none", NoReply) = <<MCUCO_STATUS_OK>>
<1>1. NoReply \in Replies /\ "none" \in Kinds /\ NoReply[1] # "nack"
  BY DEF NoReply, Replies, Kinds
<1>2. Fits("none", DataOf(NoReply))
  BY DEF Fits
<1>. QED  BY <1>1, <1>2 DEF Answer

(* ReplyInv is inductive.                                                  *)
LEMMA ReplyInvariance == TrialSpec => []ReplyInv
<1>1. TrialInit => ReplyInv
  BY NoReplyAnswered, Zenon DEF TrialInit, ReplyInv, DamageDetected
<1>2. ReplyInv /\ [TrialNext]_trialVars => ReplyInv'
  <2>. SUFFICES ASSUME ReplyInv, [TrialNext]_trialVars PROVE ReplyInv'
    OBVIOUS
  <2>1. ASSUME NEW c, Command(c) PROVE ReplyInv'
    <3>1. waiting' = "none" /\ sent' = NoReply /\ damage' = "none" /\ result' = <<MCUCO_STATUS_OK>>
      BY <2>1 DEF Command
    <3>. QED  BY <3>1, NoReplyAnswered, Zenon DEF ReplyInv, DamageDetected
  <2>2. ASSUME NEW kind \in Kinds, NEW r \in Replies, NEW junk \in Junk, Receive(kind, r, junk)
        PROVE  ReplyInv'
    <3>1. /\ waiting' = kind /\ sent' = r /\ damage' = "none"
          /\ result' \in Results(kind, Reply(r) \o junk)
      BY <2>2 DEF Receive
    <3>2. junk \in Seq(0 .. 255)
      BY TrialAssumption
    <3>3. result' = Answer(kind, r)
      BY <3>1, <3>2, WholeReply
    <3>4. DamageDetected'
      BY <3>1 DEF DamageDetected
    <3>. QED  BY <3>1, <3>3, <3>4 DEF ReplyInv
  <2>3. ASSUME NEW d \in Damage,
               ReceiveDamaged(IF d[1][1] = "nack" THEN "none" ELSE d[1][1], d[1], d[2], d[3])
        PROVE  ReplyInv'
    <3>. DEFINE r == d[1]
                i == d[2]
                flip == d[3]
                kind == IF r[1] = "nack" THEN "none" ELSE r[1]
    <3>1. r \in Replies /\ i \in Nat /\ flip \in (0 .. 255) \X (0 .. 255)
      BY DamageAssumption
    <3>. HIDE DEF r, i, flip
    <3>2. kind \in Kinds
      BY <3>1, ReplyKinds DEF Kinds
    <3>. HIDE DEF kind
    <3>3. ReceiveDamaged(kind, r, i, flip)
      BY <2>3 DEF kind, r, i, flip
    <3>4. /\ i + 1 \in 4 .. Len(Reply(r)) /\ flip # <<0, 0>> /\ waiting' = kind /\ sent' = r
          /\ damage' = (IF Blind(r, i, flip) THEN "blind" ELSE "noticeable")
          /\ result' \in Results(kind, Damaged(Reply(r), i, flip))
      BY <3>3 DEF ReceiveDamaged
    <3>5. CASE Blind(r, i, flip)
      <4>1. damage' = "blind"
        BY <3>4, <3>5
      <4>. QED  BY <3>1, <3>2, <3>4, <4>1 DEF ReplyInv, DamageDetected
    <3>6. CASE ~Blind(r, i, flip)
      <4>1. damage' = "noticeable"
        BY <3>4, <3>6
      <4>2. result' = <<MCUCO_STATUS_ERR_BAD_FRAME>>
        BY <3>1, <3>2, <3>4, <3>6, DamagedReply
      <4>. QED  BY <3>1, <3>2, <3>4, <4>1, <4>2 DEF ReplyInv, DamageDetected
    <3>. QED  BY <3>5, <3>6
  <2>4. CASE UNCHANGED trialVars
    BY <2>4 DEF trialVars, ReplyInv, DamageDetected
  <2>. QED  BY <2>1, <2>2, <2>3, <2>4 DEF TrialNext
<1>. QED  BY <1>1, <1>2, PTL DEF TrialSpec

(* Whatever follows a reply in the buffer, the caller reads what the        *)
(* firmware sent: framing, CRC and number encoding undo each other.         *)
THEOREM ReadsWhatWasSent == TrialSpec => []ReadBack
<1>1. ReplyInv => ReadBack
  <2>. SUFFICES ASSUME ReplyInv, damage = "none", sent[1] = waiting
                PROVE  result = CASE sent[1] \in {"none", "magic"} -> <<MCUCO_STATUS_OK>>
                                  [] sent[1] = "level" -> <<MCUCO_STATUS_OK, IF sent[3] = 0 THEN 0 ELSE 1>>
                                  [] sent[1] \in {"duty", "freq"} -> <<MCUCO_STATUS_OK, sent[3]>>
    BY DEF ReadBack
  <2>. DEFINE d == DataOf(sent)
  <2>1. Carried(sent, d)
    BY ReplyData DEF ReplyInv
  <2>2. result = Answer(sent[1], sent) /\ sent[1] \in Kinds
    BY DEF ReplyInv
  <2>. HIDE DEF d
  <2>3. CASE sent[1] \in {"none", "magic"}
    <3>1. Fits(sent[1], d)
      BY <2>1, <2>3 DEF Fits, Carried
    <3>2. result = <<MCUCO_STATUS_OK>>
      BY <2>2, <2>3, <3>1 DEF Answer, d
    <3>. QED  BY <2>3, <3>2
  <2>4. CASE sent[1] = "level"
    <3>1. Len(d) = 1 /\ d[1] = sent[3]
      BY <2>1, <2>4 DEF Carried
    <3>2. Fits(sent[1], d)
      BY <2>4, <3>1 DEF Fits
    <3>3. result = <<MCUCO_STATUS_OK, ToLevel(d)>>
      BY <2>2, <2>4, <3>2 DEF Answer, d
    <3>4. ToLevel(d) = IF sent[3] = 0 THEN 0 ELSE 1
      BY <3>1 DEF ToLevel
    <3>. QED  BY <2>4, <3>3, <3>4
  <2>5. CASE sent[1] = "duty"
    <3>1. Len(d) = 2 /\ get_u16_le(d) = sent[3]
      BY <2>1, <2>5 DEF Carried
    <3>2. Fits(sent[1], d)
      BY <2>5, <3>1 DEF Fits
    <3>3. result = <<MCUCO_STATUS_OK, get_u16_le(d)>>
      BY <2>2, <2>5, <3>2 DEF Answer, d
    <3>. QED  BY <2>5, <3>1, <3>3
  <2>6. CASE sent[1] = "freq"
    <3>1. Len(d) = 4 /\ get_u32_le(d) = sent[3]
      BY <2>1, <2>6 DEF Carried
    <3>2. Fits(sent[1], d)
      BY <2>6, <3>1 DEF Fits
    <3>3. result = <<MCUCO_STATUS_OK, get_u32_le(d)>>
      BY <2>2, <2>6, <3>2 DEF Answer, d
    <3>. QED  BY <2>6, <3>1, <3>3
  <2>. QED  BY <2>2, <2>3, <2>4, <2>5, <2>6 DEF Kinds
<1>. QED  BY ReplyInvariance, <1>1, PTL

(* The status says who refused, whichever command gets the reply.           *)
THEOREM StatusTellsWho == TrialSpec => []TellsWho
<1>1. ReplyInv => TellsWho
  <2>. SUFFICES ASSUME ReplyInv, damage = "none"
                PROVE  /\ result[1] = IF sent[1] = "nack" THEN sent[3]
                                      ELSE IF Fits(waiting, DataOf(sent)) THEN MCUCO_STATUS_OK
                                      ELSE MCUCO_STATUS_ERR_BAD_FRAME
                       /\ Len(result) = 2 => result[1] = MCUCO_STATUS_OK
    BY DEF TellsWho
  <2>1. result = Answer(waiting, sent)
    BY DEF ReplyInv
  <2>2. CASE sent[1] = "nack"
    <3>1. result = <<sent[3]>>
      BY <2>1, <2>2 DEF Answer
    <3>. QED  BY <2>2, <3>1
  <2>3. CASE sent[1] # "nack" /\ ~Fits(waiting, DataOf(sent))
    <3>1. result = <<MCUCO_STATUS_ERR_BAD_FRAME>>
      BY <2>1, <2>3 DEF Answer
    <3>. QED  BY <2>3, <3>1
  <2>4. CASE sent[1] # "nack" /\ Fits(waiting, DataOf(sent))
    <3>1. \/ result = <<MCUCO_STATUS_OK, ToLevel(DataOf(sent))>>
          \/ result = <<MCUCO_STATUS_OK, get_u16_le(DataOf(sent))>>
          \/ result = <<MCUCO_STATUS_OK, get_u32_le(DataOf(sent))>>
          \/ result = <<MCUCO_STATUS_OK>>
      BY <2>1, <2>4, Zenon DEF Answer
    <3>2. result[1] = MCUCO_STATUS_OK
      BY <3>1
    <3>. QED  BY <2>4, <3>2, Zenon
  <2>. QED  BY <2>2, <2>3, <2>4
<1>. QED  BY ReplyInvariance, <1>1, PTL

(* Damage to one octet of a reply, or to two neighbouring ones, is refused  *)
(* as a bad frame, with one exception.                                     *)
THEOREM DamageIsDetected == TrialSpec => []DamageDetected
<1>1. ReplyInv => DamageDetected
  BY DEF ReplyInv
<1>. QED  BY ReplyInvariance, <1>1, PTL

-----------------------------------------------------------------------------
(* Cli.                                                                    *)

ValueKinds == Fields \cup {"BIND_EDGE"}

\* What a word of this kind comes to when its parser accepts it.
InRange(kind, v) ==
    /\ v \in Nat
    /\ kind \in {"DIRECTION", "LEVEL", "POLARITY"} => v \in 0 .. 1
    /\ kind = "EDGE" => v \in 0 .. 3
    /\ kind = "BIND_EDGE" => v \in 1 .. 3
    /\ kind = "ACTION" => v \in 0 .. 2
    /\ kind \in {"PORT", "OUT_PORT"} => is_valid_port(v)
    /\ kind \in {"PIN", "OUT_PIN"} => is_valid_pin(v)
    /\ kind = "TIMER" => is_valid_group(v)
    /\ kind = "FREQUENCY" => v \in FREQ_MIN .. FREQ_MAX
    /\ kind = "DUTY" => v <= DUTY_MAX

(* strtoul yields a number.                                                *)
LEMMA StrtoulNat ==
    ASSUME NEW w \in Word PROVE strtoul(w) \in Nat
<1>. DEFINE n == ULONG_MAX + 1
            v == w.value
<1>1. ULONG_MAX \in Nat /\ v \in Nat
  BY CliAssumption DEF Word
<1>. HIDE DEF v
<1>2. ~(v > ULONG_MAX) => (n - v) \in Nat /\ n \in Nat /\ n > 0
  BY <1>1
<1>3. \A x \in Nat, y \in Nat : y > 0 => x % y \in Nat
  OBVIOUS
<1>4. ~(v > ULONG_MAX) => (n - v) % n \in Nat
  BY <1>2, <1>3, Zenon
<1>. QED  BY <1>1, <1>4 DEF strtoul, v, n

(* A number that Digits accepts is within its limit.                       *)
LEMMA DigitsBound ==
    ASSUME NEW w \in Word, NEW max \in Nat, Digits(w, max) # REJECT
    PROVE  Digits(w, max) \in Nat /\ Digits(w, max) <= max
BY StrtoulNat DEF Digits

(* What a parser accepts is in the range of its kind.                      *)
LEMMA ParsersInRange ==
    ASSUME NEW kind \in ValueKinds, NEW w \in Word, parse_value(kind, w) # REJECT
    PROVE  InRange(kind, parse_value(kind, w))
<1>1. CASE kind = "DIRECTION"
  <2>1. parse_value(kind, w) = parse_direction(w)
    BY <1>1 DEF parse_value
  <2>. QED  BY <1>1, <2>1 DEF InRange, parse_direction
<1>2. CASE kind = "LEVEL"
  <2>1. parse_value(kind, w) = parse_level(w)
    BY <1>2 DEF parse_value
  <2>. QED  BY <1>2, <2>1 DEF InRange, parse_level
<1>3. CASE kind \in {"PORT", "OUT_PORT"}
  <2>1. parse_value(kind, w) = parse_port(w)
    BY <1>3 DEF parse_value
  <2>2. parse_port(w) \in 0 .. 6
    BY <2>1 DEF parse_port
  <2>. QED  BY <1>3, <2>1, <2>2 DEF InRange, is_valid_port, port_t
<1>4. CASE kind \in {"PIN", "OUT_PIN"}
  <2>1. parse_value(kind, w) = Digits(w, PIN_MAX)
    BY <1>4 DEF parse_value, parse_pin
  <2>2. PIN_MAX \in Nat
    BY DEF PIN_MAX
  <2>3. parse_value(kind, w) \in Nat /\ parse_value(kind, w) <= PIN_MAX
    BY <2>1, <2>2, DigitsBound, Zenon
  <2>. QED  BY <1>4, <2>3 DEF InRange, is_valid_pin
<1>5. CASE kind = "FREQUENCY"
  <2>1. parse_value(kind, w) = parse_frequency(w)
    BY <1>5 DEF parse_value
  <2>2. parse_value(kind, w) \in FREQ_MIN .. FREQ_MAX
    BY <2>1 DEF parse_frequency
  <2>. QED  BY <1>5, <2>2, FrequencyFits DEF InRange
<1>6. CASE kind = "TIMER"
  <2>1. parse_value(kind, w) = Digits(w, GROUP_MAX)
    BY <1>6 DEF parse_value, parse_timer
  <2>2. GROUP_MAX \in Nat
    BY DEF GROUP_MAX
  <2>3. parse_value(kind, w) \in Nat /\ parse_value(kind, w) <= GROUP_MAX
    BY <2>1, <2>2, DigitsBound, Zenon
  <2>. QED  BY <1>6, <2>3 DEF InRange, is_valid_group
<1>7. CASE kind = "POLARITY"
  <2>1. parse_value(kind, w) = parse_polarity(w)
    BY <1>7 DEF parse_value
  <2>. QED  BY <1>7, <2>1 DEF InRange, parse_polarity
<1>8. CASE kind = "DUTY"
  <2>. DEFINE percent == Digits(w, DUTY_MAX \div 10)
  <2>1. parse_value(kind, w) = parse_duty(w)
    BY <1>8 DEF parse_value
  <2>2. percent # REJECT /\ parse_duty(w) = percent * 10
    BY <2>1 DEF parse_duty
  <2>3. DUTY_MAX \div 10 \in Nat /\ (DUTY_MAX \div 10) * 10 <= DUTY_MAX
    BY DEF DUTY_MAX
  <2>4. percent \in Nat /\ percent <= DUTY_MAX \div 10
    BY <2>2, <2>3, DigitsBound
  <2>. HIDE DEF percent
  <2>5. percent * 10 \in Nat /\ percent * 10 <= DUTY_MAX
    BY <2>3, <2>4 DEF DUTY_MAX
  <2>. QED  BY <1>8, <2>1, <2>2, <2>5 DEF InRange
<1>9. CASE kind = "EDGE"
  <2>1. parse_value(kind, w) = parse_edge(w)
    BY <1>9 DEF parse_value
  <2>. QED  BY <1>9, <2>1 DEF InRange, parse_edge
<1>10. CASE kind = "BIND_EDGE"
  <2>1. parse_value(kind, w) = parse_bind_edge(w)
    BY <1>10 DEF parse_value
  <2>. QED  BY <1>10, <2>1 DEF InRange, parse_bind_edge, parse_edge
<1>11. CASE kind = "ACTION"
  <2>1. parse_value(kind, w) = parse_action(w)
    BY <1>11 DEF parse_value
  <2>. QED  BY <1>11, <2>1 DEF InRange, parse_action
<1>. QED
  BY <1>1, <1>2, <1>3, <1>4, <1>5, <1>6, <1>7, <1>8, <1>9, <1>10, <1>11
     DEF ValueKinds, Fields

\* A row of the table: no field is filled twice, and the run_ function passes
\* the fields in the order of the words.
SoundRow(run, values) ==
    /\ run \in Ops
    /\ values \in Seq(ValueKinds)
    /\ Passed[run] = [i \in DOMAIN values |-> Field(values[i])]
    /\ \A i \in DOMAIN values : Field(values[i]) \in Fields
    /\ \A i, j \in DOMAIN values : Field(values[i]) = Field(values[j]) => i = j

\* The builder accepts arguments that come from words of these kinds.
SendableRow(run, values) ==
    \A a \in Seq(Nat) :
        Len(a) = Len(values) /\ (\A i \in DOMAIN values : InRange(values[i], a[i]))
            => Arguments(run, a) /\ Lawful(run, a)

GoodRow(r) ==
    /\ SoundRow(commands[r].run, commands[r].values)
    /\ SendableRow(commands[r].run, commands[r].values)

(* Every row of the table is sound, and what it passes on is sendable.     *)
LEMMA TableIsSound ==
    ASSUME NEW r \in 1 .. 16 PROVE GoodRow(r)
<1>. USE DEF Field, Fields, ValueKinds, Ops, PlainOps, EnumOps, PinOps, GroupOps
<1>1. CASE r = 1
  <2>1. commands[r].run = "probe" /\ commands[r].values = <<>>
    BY <1>1 DEF commands, Row
  <2>2. Passed["probe"] = <<>>
    BY DEF Passed
  <2>3. SoundRow("probe", <<>>)
    BY <2>2 DEF SoundRow
  <2>4. SendableRow("probe", <<>>)
    BY DEF SendableRow, InRange, Arguments, Lawful, Pins
  <2>. QED  BY <2>1, <2>3, <2>4, Zenon DEF GoodRow
<1>2. CASE r = 2
  <2>1. commands[r].run = "reset" /\ commands[r].values = <<>>
    BY <1>2 DEF commands, Row
  <2>2. Passed["reset"] = <<>>
    BY DEF Passed
  <2>3. SoundRow("reset", <<>>)
    BY <2>2 DEF SoundRow
  <2>4. SendableRow("reset", <<>>)
    BY DEF SendableRow, InRange, Arguments, Lawful, Pins
  <2>. QED  BY <2>1, <2>3, <2>4, Zenon DEF GoodRow
<1>3. CASE r = 3
  <2>1. commands[r].run = "gpio_cfg" /\ commands[r].values = <<"DIRECTION", "PORT", "PIN">>
    BY <1>3 DEF commands, Row
  <2>2. Passed["gpio_cfg"] = <<"DIRECTION", "PORT", "PIN">>
    BY DEF Passed
  <2>3. SoundRow("gpio_cfg", <<"DIRECTION", "PORT", "PIN">>)
    BY <2>2 DEF SoundRow
  <2>4. SendableRow("gpio_cfg", <<"DIRECTION", "PORT", "PIN">>)
    BY DEF SendableRow, InRange, Arguments, Lawful, Pins
  <2>. QED  BY <2>1, <2>3, <2>4, Zenon DEF GoodRow
<1>4. CASE r = 4
  <2>1. commands[r].run = "gpio_set" /\ commands[r].values = <<"LEVEL", "PORT", "PIN">>
    BY <1>4 DEF commands, Row
  <2>2. Passed["gpio_set"] = <<"LEVEL", "PORT", "PIN">>
    BY DEF Passed
  <2>3. SoundRow("gpio_set", <<"LEVEL", "PORT", "PIN">>)
    BY <2>2 DEF SoundRow
  <2>4. SendableRow("gpio_set", <<"LEVEL", "PORT", "PIN">>)
    BY DEF SendableRow, InRange, Arguments, Lawful, Pins
  <2>. QED  BY <2>1, <2>3, <2>4, Zenon DEF GoodRow
<1>5. CASE r = 5
  <2>1. commands[r].run = "gpio_get" /\ commands[r].values = <<"PORT", "PIN">>
    BY <1>5 DEF commands, Row
  <2>2. Passed["gpio_get"] = <<"PORT", "PIN">>
    BY DEF Passed
  <2>3. SoundRow("gpio_get", <<"PORT", "PIN">>)
    BY <2>2 DEF SoundRow
  <2>4. SendableRow("gpio_get", <<"PORT", "PIN">>)
    BY DEF SendableRow, InRange, Arguments, Lawful, Pins
  <2>. QED  BY <2>1, <2>3, <2>4, Zenon DEF GoodRow
<1>6. CASE r = 6
  <2>1. commands[r].run = "gpio_toggle" /\ commands[r].values = <<"PORT", "PIN">>
    BY <1>6 DEF commands, Row
  <2>2. Passed["gpio_toggle"] = <<"PORT", "PIN">>
    BY DEF Passed
  <2>3. SoundRow("gpio_toggle", <<"PORT", "PIN">>)
    BY <2>2 DEF SoundRow
  <2>4. SendableRow("gpio_toggle", <<"PORT", "PIN">>)
    BY DEF SendableRow, InRange, Arguments, Lawful, Pins
  <2>. QED  BY <2>1, <2>3, <2>4, Zenon DEF GoodRow
<1>7. CASE r = 7
  <2>1. commands[r].run = "group_cfg" /\ commands[r].values = <<"FREQUENCY", "TIMER">>
    BY <1>7 DEF commands, Row
  <2>2. Passed["group_cfg"] = <<"FREQUENCY", "TIMER">>
    BY DEF Passed
  <2>3. SoundRow("group_cfg", <<"FREQUENCY", "TIMER">>)
    BY <2>2 DEF SoundRow
  <2>4. SendableRow("group_cfg", <<"FREQUENCY", "TIMER">>)
    BY DEF SendableRow, InRange, Arguments, Lawful, Pins
  <2>. QED  BY <2>1, <2>3, <2>4, Zenon DEF GoodRow
<1>8. CASE r = 8
  <2>1. commands[r].run = "group_get" /\ commands[r].values = <<"TIMER">>
    BY <1>8 DEF commands, Row
  <2>2. Passed["group_get"] = <<"TIMER">>
    BY DEF Passed
  <2>3. SoundRow("group_get", <<"TIMER">>)
    BY <2>2 DEF SoundRow
  <2>4. SendableRow("group_get", <<"TIMER">>)
    BY DEF SendableRow, InRange, Arguments, Lawful, Pins
  <2>. QED  BY <2>1, <2>3, <2>4, Zenon DEF GoodRow
<1>9. CASE r = 9
  <2>1. commands[r].run = "group_release" /\ commands[r].values = <<"TIMER">>
    BY <1>9 DEF commands, Row
  <2>2. Passed["group_release"] = <<"TIMER">>
    BY DEF Passed
  <2>3. SoundRow("group_release", <<"TIMER">>)
    BY <2>2 DEF SoundRow
  <2>4. SendableRow("group_release", <<"TIMER">>)
    BY DEF SendableRow, InRange, Arguments, Lawful, Pins
  <2>. QED  BY <2>1, <2>3, <2>4, Zenon DEF GoodRow
<1>10. CASE r = 10
  <2>1. commands[r].run = "channel_cfg" /\ commands[r].values = <<"POLARITY", "PORT", "PIN">>
    BY <1>10 DEF commands, Row
  <2>2. Passed["channel_cfg"] = <<"POLARITY", "PORT", "PIN">>
    BY DEF Passed
  <2>3. SoundRow("channel_cfg", <<"POLARITY", "PORT", "PIN">>)
    BY <2>2 DEF SoundRow
  <2>4. SendableRow("channel_cfg", <<"POLARITY", "PORT", "PIN">>)
    BY DEF SendableRow, InRange, Arguments, Lawful, Pins
  <2>. QED  BY <2>1, <2>3, <2>4, Zenon DEF GoodRow
<1>11. CASE r = 11
  <2>1. commands[r].run = "channel_set" /\ commands[r].values = <<"DUTY", "PORT", "PIN">>
    BY <1>11 DEF commands, Row
  <2>2. Passed["channel_set"] = <<"DUTY", "PORT", "PIN">>
    BY DEF Passed
  <2>3. SoundRow("channel_set", <<"DUTY", "PORT", "PIN">>)
    BY <2>2 DEF SoundRow
  <2>4. SendableRow("channel_set", <<"DUTY", "PORT", "PIN">>)
    BY DEF SendableRow, InRange, Arguments, Lawful, Pins
  <2>. QED  BY <2>1, <2>3, <2>4, Zenon DEF GoodRow
<1>12. CASE r = 12
  <2>1. commands[r].run = "channel_get" /\ commands[r].values = <<"PORT", "PIN">>
    BY <1>12 DEF commands, Row
  <2>2. Passed["channel_get"] = <<"PORT", "PIN">>
    BY DEF Passed
  <2>3. SoundRow("channel_get", <<"PORT", "PIN">>)
    BY <2>2 DEF SoundRow
  <2>4. SendableRow("channel_get", <<"PORT", "PIN">>)
    BY DEF SendableRow, InRange, Arguments, Lawful, Pins
  <2>. QED  BY <2>1, <2>3, <2>4, Zenon DEF GoodRow
<1>13. CASE r = 13
  <2>1. commands[r].run = "channel_release" /\ commands[r].values = <<"PORT", "PIN">>
    BY <1>13 DEF commands, Row
  <2>2. Passed["channel_release"] = <<"PORT", "PIN">>
    BY DEF Passed
  <2>3. SoundRow("channel_release", <<"PORT", "PIN">>)
    BY <2>2 DEF SoundRow
  <2>4. SendableRow("channel_release", <<"PORT", "PIN">>)
    BY DEF SendableRow, InRange, Arguments, Lawful, Pins
  <2>. QED  BY <2>1, <2>3, <2>4, Zenon DEF GoodRow
<1>14. CASE r = 14
  <2>1. commands[r].run = "irq_cfg" /\ commands[r].values = <<"EDGE", "PORT", "PIN">>
    BY <1>14 DEF commands, Row
  <2>2. Passed["irq_cfg"] = <<"EDGE", "PORT", "PIN">>
    BY DEF Passed
  <2>3. SoundRow("irq_cfg", <<"EDGE", "PORT", "PIN">>)
    BY <2>2 DEF SoundRow
  <2>4. SendableRow("irq_cfg", <<"EDGE", "PORT", "PIN">>)
    BY DEF SendableRow, InRange, Arguments, Lawful, Pins
  <2>. QED  BY <2>1, <2>3, <2>4, Zenon DEF GoodRow
<1>15. CASE r = 15
  <2>1. commands[r].run = "irq_bind" /\ commands[r].values = <<"BIND_EDGE", "PORT", "PIN", "ACTION", "OUT_PORT", "OUT_PIN">>
    BY <1>15 DEF commands, Row
  <2>2. Passed["irq_bind"] = <<"EDGE", "PORT", "PIN", "ACTION", "OUT_PORT", "OUT_PIN">>
    BY DEF Passed
  <2>3. SoundRow("irq_bind", <<"BIND_EDGE", "PORT", "PIN", "ACTION", "OUT_PORT", "OUT_PIN">>)
    BY <2>2 DEF SoundRow
  <2>4. SendableRow("irq_bind", <<"BIND_EDGE", "PORT", "PIN", "ACTION", "OUT_PORT", "OUT_PIN">>)
    BY DEF SendableRow, InRange, Arguments, Lawful, Pins
  <2>. QED  BY <2>1, <2>3, <2>4, Zenon DEF GoodRow
<1>16. CASE r = 16
  <2>1. commands[r].run = "irq_unbind" /\ commands[r].values = <<"PORT", "PIN">>
    BY <1>16 DEF commands, Row
  <2>2. Passed["irq_unbind"] = <<"PORT", "PIN">>
    BY DEF Passed
  <2>3. SoundRow("irq_unbind", <<"PORT", "PIN">>)
    BY <2>2 DEF SoundRow
  <2>4. SendableRow("irq_unbind", <<"PORT", "PIN">>)
    BY DEF SendableRow, InRange, Arguments, Lawful, Pins
  <2>. QED  BY <2>1, <2>3, <2>4, Zenon DEF GoodRow
<1>. QED
  BY <1>1, <1>2, <1>3, <1>4, <1>5, <1>6, <1>7, <1>8,
     <1>9, <1>10, <1>11, <1>12, <1>13, <1>14, <1>15, <1>16

(* No two rows share their two words, and mcuco_find_command finds the one *)
(* row, or none.                                                           *)
LEMMA RowsDiffer ==
    ASSUME NEW i \in 1 .. 16, NEW j \in 1 .. 16,
           commands[i].subsystem = commands[j].subsystem, commands[i].verb = commands[j].verb
    PROVE  i = j
BY DEF commands, Row

(* mcuco_find_command answers the row of the two words.                    *)
LEMMA RowFound ==
    ASSUME NEW s, NEW v
    PROVE  mcuco_find_command(s, v) \in 0 .. 16
<1>. DEFINE I == {i \in 1 .. Len(commands) :
                    commands[i].subsystem = s.text /\ commands[i].verb = v.text}
<1>1. Len(commands) = 16
  BY DEF commands
<1>2. I \subseteq 1 .. 16 /\ \A i, j \in I : i = j
  BY <1>1, RowsDiffer
<1>3. mcuco_find_command(s, v) = IF I # {} THEN Min(I) ELSE 0
  BY DEF mcuco_find_command, SelectInSeq
<1>. HIDE DEF I
<1>4. ASSUME NEW i \in I PROVE Min(I) \in I
  <2>1. i \in Nat /\ \A j \in I : i =< j
    BY <1>2
  <2>2. Min(I) = CHOOSE x \in I : \A y \in I : x =< y
    BY DEF Min
  <2>. QED  BY <2>1, <2>2
<1>5. CASE I = {}
  BY <1>3, <1>5
<1>6. CASE I # {}
  <2>1. Min(I) \in 1 .. 16
    BY <1>2, <1>4, <1>6
  <2>. QED  BY <1>3, <1>6, <2>1
<1>. QED  BY <1>5, <1>6

\* The fields args_parse_mcuco fills from the words of a row.
Parsed(row, ws) ==
    [i \in DOMAIN commands[row].values |-> parse_value(commands[row].values[i], ws[i + 2])]
Filling(row, f) == {i \in DOMAIN commands[row].values : Field(commands[row].values[i]) = f}
Args(row, ws) ==
    [f \in Fields |-> IF Filling(row, f) = {} THEN 0 ELSE Parsed(row, ws)[Max(Filling(row, f))]]

(* A command line that is accepted calls the function of a row with the    *)
(* values of its words.                                                    *)
LEMMA CallParsed ==
    ASSUME NEW ws \in Seq(Word), args_parse_mcuco(ws) # NoCall
    PROVE  \E r \in 1 .. 16 :
             /\ r = mcuco_find_command(ws[1], ws[2])
             /\ args_parse_mcuco(ws) = <<commands[r].run, Parsed(r, ws)>>
             /\ Len(ws) = 2 + Len(commands[r].values)
             /\ \A i \in DOMAIN commands[r].values : Parsed(r, ws)[i] # REJECT
<1>. DEFINE row == IF Len(ws) < 2 THEN 0 ELSE mcuco_find_command(ws[1], ws[2])
            values == commands[row].values
            run == commands[row].run
            passed == [i \in DOMAIN Passed[run] |-> Args(row, ws)[Passed[run][i]]]
<1>1. args_parse_mcuco(ws) =
        IF row = 0 THEN NoCall
        ELSE IF Len(ws) # 2 + Len(values) THEN NoCall
        ELSE IF REJECT \in Range(Parsed(row, ws)) THEN NoCall
        ELSE <<run, passed>>
  BY DEF args_parse_mcuco, Args, Filling, Parsed
<1>2. row \in 0 .. 16
  <2>1. mcuco_find_command(ws[1], ws[2]) \in 0 .. 16
    BY RowFound
  <2>. QED  BY <2>1
<1>. HIDE DEF row, passed
<1>3. /\ row # 0 /\ Len(ws) = 2 + Len(values) /\ REJECT \notin Range(Parsed(row, ws))
      /\ args_parse_mcuco(ws) = <<run, passed>>
  BY <1>1
<1>4. row \in 1 .. 16 /\ row = mcuco_find_command(ws[1], ws[2])
  BY <1>2, <1>3 DEF row
<1>5. SoundRow(run, values)
  BY <1>4, TableIsSound DEF GoodRow
<1>. HIDE DEF run, values
<1>6. ASSUME NEW i \in DOMAIN values PROVE Args(row, ws)[Field(values[i])] = Parsed(row, ws)[i]
  <2>1. Filling(row, Field(values[i])) = {i}
    BY <1>5, <1>6 DEF SoundRow, Filling, values
  <2>2. Max({i}) = i
    <3>1. i \in Nat
      BY <1>5, LenProperties DEF SoundRow
    <3>. QED  BY <3>1 DEF Max
  <2>3. Field(values[i]) \in Fields
    BY <1>5 DEF SoundRow
  <2>. QED  BY <2>1, <2>2, <2>3 DEF Args
<1>7. passed = Parsed(row, ws)
  <2>1. /\ DOMAIN Passed[run] = DOMAIN values
        /\ \A i \in DOMAIN values : Passed[run][i] = Field(values[i])
    BY <1>5 DEF SoundRow
  <2>2. passed = [i \in DOMAIN values |-> Parsed(row, ws)[i]]
    BY <1>6, <2>1 DEF passed
  <2>. QED  BY <2>2 DEF Parsed, values
<1>8. \A i \in DOMAIN values : Parsed(row, ws)[i] # REJECT
  BY <1>3 DEF Range, Parsed, values
<1>. QED  BY <1>3, <1>4, <1>7, <1>8 DEF run, values

\* A call of the library whose arguments are the values of the words.
Accepts(ws, r) ==
    /\ r = mcuco_find_command(ws[1], ws[2])
    /\ Len(ws) = 2 + Len(commands[r].values)
    /\ args_parse_mcuco(ws) = <<commands[r].run, Parsed(r, ws)>>
    /\ commands[r].run \in Ops
    /\ Arguments(commands[r].run, Parsed(r, ws))
    /\ Lawful(commands[r].run, Parsed(r, ws))
    /\ \A i \in DOMAIN commands[r].values : Parsed(r, ws)[i] # REJECT

(* What the parsers accept the builders accept.                            *)
LEMMA AcceptedCall ==
    ASSUME NEW ws \in Seq(Word), args_parse_mcuco(ws) # NoCall
    PROVE  \E r \in 1 .. 16 : Accepts(ws, r)
<1>1. PICK r \in 1 .. 16 :
         /\ r = mcuco_find_command(ws[1], ws[2])
         /\ args_parse_mcuco(ws) = <<commands[r].run, Parsed(r, ws)>>
         /\ Len(ws) = 2 + Len(commands[r].values)
         /\ \A i \in DOMAIN commands[r].values : Parsed(r, ws)[i] # REJECT
  BY CallParsed
<1>. DEFINE run == commands[r].run
            values == commands[r].values
            a == Parsed(r, ws)
<1>2. SoundRow(run, values) /\ SendableRow(run, values)
  BY TableIsSound DEF GoodRow
<1>3. run \in Ops /\ values \in Seq(ValueKinds)
  BY <1>2 DEF SoundRow
<1>4. Len(values) \in Nat /\ DOMAIN values = 1 .. Len(values)
  BY <1>3, LenProperties
<1>5. ASSUME NEW i \in DOMAIN values PROVE InRange(values[i], a[i])
  <2>1. values[i] \in ValueKinds
    BY <1>3, <1>4, <1>5, ElementOfSeq
  <2>2. ws[i + 2] \in Word
    <3>1. i + 2 \in 1 .. Len(ws)
      BY <1>1, <1>4, <1>5
    <3>. QED  BY <3>1, ElementOfSeq
  <2>3. a[i] = parse_value(values[i], ws[i + 2]) /\ a[i] # REJECT
    BY <1>1, <1>5 DEF Parsed
  <2>. QED  BY <2>1, <2>2, <2>3, ParsersInRange
<1>6. a \in Seq(Nat) /\ Len(a) = Len(values)
  <2>1. DOMAIN a = 1 .. Len(values) /\ a = [i \in 1 .. Len(values) |-> a[i]]
    BY <1>4 DEF Parsed
  <2>2. \A i \in 1 .. Len(values) : a[i] \in Nat
    BY <1>4, <1>5 DEF InRange
  <2>. HIDE DEF a, values
  <2>. QED  BY <1>4, <2>1, <2>2
<1>. HIDE DEF run, values, a
<1>7. Arguments(run, a) /\ Lawful(run, a)
  BY <1>2, <1>5, <1>6 DEF SendableRow
<1>. QED  BY <1>1, <1>3, <1>7 DEF Accepts, run, values, a

(* A call that args_parse_mcuco accepts is one its builder builds.         *)
LEMMA AcceptedIsBuilt ==
    ASSUME NEW ws \in Seq(Word), args_parse_mcuco(ws) # NoCall
    PROVE  Frame(args_parse_mcuco(ws)) # <<>>
<1>1. PICK r \in 1 .. 16 : Accepts(ws, r)
  BY AcceptedCall
<1>. DEFINE run == commands[r].run
            a == Parsed(r, ws)
<1>2. /\ args_parse_mcuco(ws) = <<run, a>>
      /\ run \in Ops /\ Arguments(run, a) /\ Lawful(run, a)
  BY <1>1 DEF Accepts
<1>. HIDE DEF run, a
<1>3. Frame(<<run, a>>) = build_frame(OpcodeOf[run], Payload(run, a))
  BY <1>2, FrameOf
<1>4. IsOctets(Payload(run, a)) /\ OpcodeOf[run] \in Nat
  BY <1>2, PayloadOctets, OpcodesDiffer
<1>5. Carries(Frame(<<run, a>>), OpcodeOf[run], Payload(run, a))
  BY <1>3, <1>4, FrameCarries DEF IsOctets
<1>. QED  BY <1>2, <1>5 DEF Carries

\* Where main stands, and that it goes on with accepted commands only.
CliInv ==
    /\ line \in Lines
    /\ optind \in Nat /\ optind >= 1
    /\ words \in Seq(Word)
    /\ pc \in {"open", "run"} => args_parse_mcuco(words) # NoCall
    /\ AcceptedIsSendable

(* CliInv is inductive.                                                    *)
LEMMA CliInvariance == Spec => []CliInv
<1>1. Init => CliInv
  BY DEF Init, CliInv, AcceptedIsSendable
<1>2. CliInv /\ [Next]_vars => CliInv'
  <2>. SUFFICES ASSUME CliInv, [Next]_vars PROVE CliInv'
    OBVIOUS
  <2>0. argv \in Seq(Word) /\ Len(argv) \in Nat
    BY CliAssumption, LenProperties DEF CliInv, argv, CommandLine
  <2>1. CASE NextWord
    <3>1. Here \in Word
      BY <2>0, <2>1, ElementOfSeq DEF NextWord, Parsing, Here, CliInv
    <3>2. words' \in Seq(Word)
      BY <2>1, <3>1, AppendProperties DEF NextWord, CliInv
    <3>. QED  BY <2>1, <3>2 DEF NextWord, Parsing, CliInv, AcceptedIsSendable
  <2>2. CASE EndOfOptions
    <3>1. SubSeq(argv, optind + 1, Len(argv)) \in Seq(Word)
      BY <2>0, <2>2, SubSeqProperties DEF EndOfOptions, Parsing, CliInv
    <3>2. words' \in Seq(Word)
      BY <2>2, <3>1, ConcatProperties DEF EndOfOptions, CliInv
    <3>. QED  BY <2>0, <2>2, <3>2 DEF EndOfOptions, Parsing, CliInv, AcceptedIsSendable
  <2>3. CASE DeviceOption
    BY <2>3 DEF DeviceOption, Parsing, CliInv, AcceptedIsSendable
  <2>4. CASE TimeoutOption
    BY <2>4 DEF TimeoutOption, Parsing, CliInv, AcceptedIsSendable
  <2>5. CASE FlagOption
    BY <2>5 DEF FlagOption, Parsing, CliInv, AcceptedIsSendable
  <2>6. CASE BadOption
    BY <2>6 DEF BadOption, Parsing, CliInv, AcceptedIsSendable
  <2>7. CASE ParseCommand
    BY <2>7 DEF ParseCommand, CliInv, AcceptedIsSendable
  <2>8. CASE OpenDevice
    BY <2>8 DEF OpenDevice, CliInv, AcceptedIsSendable
  <2>9. CASE RunCommand
    <3>1. frame' # <<>>
      BY <2>9, AcceptedIsBuilt DEF RunCommand, CliInv
    <3>. QED  BY <2>9, <3>1 DEF RunCommand, CliInv, AcceptedIsSendable
  <2>10. CASE UNCHANGED vars
    BY <2>10 DEF vars, CliInv, AcceptedIsSendable
  <2>. QED
    BY <2>1, <2>2, <2>3, <2>4, <2>5, <2>6, <2>7, <2>8, <2>9, <2>10 DEF Next
<1>. QED  BY <1>1, <1>2, PTL DEF Spec

(* Whatever is typed, a command that the tool accepts is never refused     *)
(* after the device was opened: the parsers, the table, the order of the   *)
(* fields and the builders' checks agree.                                  *)
THEOREM NeverRefused == Spec => []AcceptedIsSendable
<1>1. CliInv => AcceptedIsSendable
  BY DEF CliInv
<1>. QED  BY CliInvariance, <1>1, PTL

-----------------------------------------------------------------------------
(* What getopt_long hands out.                                             *)

\* How far the words of a command line are read when getopt_long stands at o:
\* it is not at an argument of an option, and n words of the command are behind.
ReadTo(l, o, n) ==
    /\ o \in 1 .. Len(l.argv) + 1 /\ o \notin Taken(l)
    /\ n \in 0 .. Len(l.typed)
    /\ \A i \in 1 .. Len(l.typed) : i <= n <=> l.at[i] < o

\* ws is the first n words of the command.
WordsAre(l, ws, n) ==
    /\ ws \in Seq(Word)
    /\ Len(ws) = n
    /\ \A i \in 1 .. n : ws[i] = l.typed[i]

\* The deadline after the options in front of o.
Deadline(l, o, ms) ==
    \/ ms = 1000 /\ \A j \in Timeouts(l) : ~(j < o)
    \/ \E k \in Timeouts(l) :
         /\ k < o /\ \A j \in Timeouts(l) : j < o => j <= k
         /\ ms = parse_timeout(l.argv[k + 1]) /\ ms # REJECT

\* Where the words and the options of a line stand.
LineShape(l, N, L) ==
    /\ l.argv \in Seq(Word) /\ N \in Nat /\ \A k \in 1 .. N : l.argv[k] \in Word
    /\ l.typed \in Seq(Word) /\ L \in Nat
    /\ \A i \in 1 .. L : /\ l.at[i] \in 1 .. N /\ l.typed[i] = l.argv[l.at[i]]
                         /\ l.typed[i].text \notin OptionTexts
                         /\ l.at[i] \notin l.options /\ l.at[i] \notin Taken(l)
    /\ \A i, j \in 1 .. L : i < j => l.at[i] < l.at[j]
    /\ l.options \subseteq 1 .. N
    /\ \A k \in 1 .. N : k \in l.options \/ k \in Taken(l) \/ \E i \in 1 .. L : l.at[i] = k
    /\ \A k \in l.options : k \notin Taken(l) /\ l.argv[k].text \in OptionTexts
    /\ \A k \in 1 .. N : k \in Taken(l) => k - 1 \in l.options /\ l.argv[k - 1] \in TakesArgument
    /\ \A k \in l.options : l.argv[k] \in TakesArgument /\ k < N => k + 1 \in Taken(l)
    /\ \A k \in l.options : l.argv[k] = Text("--") =>
          \A j \in 1 .. N : j > k => \E i \in 1 .. L : l.at[i] = j

(* The fields of a word that is no number.                                 *)
LEMMA TextOf ==
    ASSUME NEW s PROVE Text(s).text = s /\ Text(s).sign = "" /\ ~Text(s).digits
BY DEF Text

(* What CommandLine says of a line, position by position.                  *)
LEMMA LineFacts ==
    ASSUME NEW l, CommandLine(l)
    PROVE  LineShape(l, Len(l.argv), Len(l.typed))
<1>. DEFINE N == Len(l.argv)
            L == Len(l.typed)
<1>1. /\ l.argv \in Seq(Word) /\ N \in Nat /\ DOMAIN l.argv = 1 .. N
      /\ \A k \in 1 .. N : l.argv[k] \in Word
  BY LenProperties, ElementOfSeq DEF CommandLine
<1>2. l.typed \in Seq(Word) /\ L \in Nat /\ DOMAIN l.typed = 1 .. L
  BY LenProperties DEF CommandLine, Placed
<1>. HIDE DEF N, L
<1>. DEFINE C == {l.at[i] : i \in 1 .. L}
<1>3. /\ l.at \in [1 .. L -> 1 .. N]
      /\ \A i, j \in 1 .. L : i < j => l.at[i] < l.at[j]
      /\ \A i \in 1 .. L : l.typed[i] = l.argv[l.at[i]] /\ l.typed[i].text \notin OptionTexts
  BY <1>1, <1>2 DEF CommandLine, Placed
<1>4. /\ 1 .. N = C \cup l.options \cup Taken(l)
      /\ C \cap l.options = {} /\ C \cap Taken(l) = {} /\ l.options \cap Taken(l) = {}
      /\ \A k \in l.options :
            /\ l.argv[k].text \in OptionTexts
            /\ l.argv[k] = Text("--") => {j \in 1 .. N : j > k} \subseteq C
  BY <1>1, <1>2 DEF CommandLine, Divided
<1>5. \A i \in 1 .. L : l.at[i] \in C /\ l.at[i] \in 1 .. N
  BY <1>3
<1>6. \A k \in C : \E i \in 1 .. L : l.at[i] = k
  OBVIOUS
<1>. HIDE DEF C
<1>7. \A i \in 1 .. L : l.at[i] \notin l.options /\ l.at[i] \notin Taken(l)
  BY <1>4, <1>5
<1>8. l.options \subseteq 1 .. N /\ \A k \in l.options : k \notin Taken(l)
  BY <1>4
<1>9. \A k \in 1 .. N : k \in l.options \/ k \in Taken(l) \/ \E i \in 1 .. L : l.at[i] = k
  BY <1>4, <1>6
<1>10. \A k \in 1 .. N : k \in Taken(l) => k - 1 \in l.options /\ l.argv[k - 1] \in TakesArgument
  <2>. SUFFICES ASSUME NEW k \in 1 .. N, k \in Taken(l)
                PROVE  k - 1 \in l.options /\ l.argv[k - 1] \in TakesArgument
    OBVIOUS
  <2>1. PICK j \in l.options : l.argv[j] \in TakesArgument /\ k = j + 1
    BY DEF Taken
  <2>2. j \in 1 .. N
    BY <1>8
  <2>3. k - 1 = j
    BY <2>1, <2>2
  <2>. QED  BY <2>1, <2>3
<1>11. \A k \in l.options : l.argv[k] \in TakesArgument /\ k < N => k + 1 \in Taken(l)
  <2>. SUFFICES ASSUME NEW k \in l.options, l.argv[k] \in TakesArgument, k < N
                PROVE  k + 1 \in Taken(l)
    OBVIOUS
  <2>1. k + 1 \in 1 .. N
    BY <1>1, <1>8
  <2>. QED  BY <1>1, <2>1 DEF Taken
<1>12. \A k \in l.options : l.argv[k] = Text("--") =>
          \A j \in 1 .. N : j > k => \E i \in 1 .. L : l.at[i] = j
  BY <1>4, <1>6
<1>13. LineShape(l, N, L)
  BY <1>1, <1>2, <1>3, <1>4, <1>5, <1>7, <1>8, <1>9, <1>10, <1>11, <1>12 DEF LineShape
<1>. QED  BY <1>13 DEF N, L

(* At a word that is no option getopt_long is at the next word of the      *)
(* command.                                                                *)
LEMMA AtWord ==
    ASSUME NEW l, CommandLine(l), NEW o, NEW n, ReadTo(l, o, n), o <= Len(l.argv),
           l.argv[o].text \notin OptionTexts
    PROVE  /\ n + 1 \in 1 .. Len(l.typed) /\ l.at[n + 1] = o /\ l.typed[n + 1] = l.argv[o]
           /\ o \notin l.options
           /\ ReadTo(l, o + 1, n + 1)
<1>. DEFINE N == Len(l.argv)
            L == Len(l.typed)
<1>1. LineShape(l, N, L)
  BY LineFacts
<1>2. /\ o \in 1 .. N + 1 /\ o \notin Taken(l) /\ n \in 0 .. L
      /\ \A i \in 1 .. L : i <= n <=> l.at[i] < o
  BY DEF ReadTo
<1>3. o <= N
  OBVIOUS
<1>. HIDE DEF N, L
<1>4. N \in Nat /\ L \in Nat /\ o \in 1 .. N /\ n \in Nat /\ o \in Nat
  BY <1>1, <1>2, <1>3 DEF LineShape
<1>5. o \notin l.options
  BY <1>1 DEF LineShape
<1>6. PICK i \in 1 .. L : l.at[i] = o
  BY <1>1, <1>2, <1>4, <1>5 DEF LineShape
<1>7. i \in Nat /\ ~(i <= n)
  BY <1>2, <1>4, <1>6
<1>8. n + 1 \in 1 .. L
  BY <1>4, <1>7
<1>9. i = n + 1
  <2>. SUFFICES ASSUME n + 1 < i PROVE FALSE
    BY <1>4, <1>7
  <2>1. l.at[n + 1] < o
    BY <1>1, <1>6, <1>8 DEF LineShape
  <2>2. n + 1 <= n
    BY <1>2, <1>8, <2>1
  <2>. QED  BY <1>4, <2>2
<1>10. l.at[n + 1] = o /\ l.typed[n + 1] = l.argv[o]
  BY <1>1, <1>6, <1>8, <1>9 DEF LineShape
<1>11. o + 1 \notin Taken(l)
  <2>. SUFFICES ASSUME o + 1 \in Taken(l) PROVE FALSE
    OBVIOUS
  <2>1. o + 1 \in 1 .. N
    <3>1. \A k \in Taken(l) : k \in DOMAIN l.argv
      BY DEF Taken
    <3>. QED  BY <1>1, <3>1, LenProperties DEF LineShape, N
  <2>2. (o + 1) - 1 \in l.options
    BY <1>1, <2>1 DEF LineShape
  <2>3. (o + 1) - 1 = o
    BY <1>4
  <2>. QED  BY <1>5, <2>2, <2>3
<1>12. ASSUME NEW j \in 1 .. L PROVE j <= n + 1 <=> l.at[j] < o + 1
  <2>1. l.at[j] \in Nat /\ j \in Nat
    BY <1>1 DEF LineShape
  <2>2. n + 1 < j => l.at[n + 1] < l.at[j]
    BY <1>1, <1>8 DEF LineShape
  <2>3. j <= n => l.at[j] < o
    BY <1>2
  <2>. QED  BY <1>4, <1>10, <2>1, <2>2, <2>3
<1>13. ReadTo(l, o + 1, n + 1)
  <2>1. o + 1 \in 1 .. N + 1 /\ n + 1 \in 0 .. L
    BY <1>4, <1>8
  <2>. QED  BY <1>11, <1>12, <2>1 DEF ReadTo, N, L
<1>. QED  BY <1>5, <1>8, <1>10, <1>13 DEF L

(* Behind an option, and behind its argument.                              *)
LEMMA AtOption ==
    ASSUME NEW l, CommandLine(l), NEW o, NEW n, ReadTo(l, o, n), o <= Len(l.argv),
           l.argv[o].text \in OptionTexts
    PROVE  /\ o \in l.options
           /\ l.argv[o] \notin TakesArgument => ReadTo(l, o + 1, n)
           /\ l.argv[o] \in TakesArgument /\ o < Len(l.argv) =>
                o + 1 \notin l.options /\ ReadTo(l, o + 2, n)
<1>. DEFINE N == Len(l.argv)
            L == Len(l.typed)
<1>1. LineShape(l, N, L)
  BY LineFacts
<1>2. /\ o \in 1 .. N + 1 /\ o \notin Taken(l) /\ n \in 0 .. L
      /\ \A i \in 1 .. L : i <= n <=> l.at[i] < o
  BY DEF ReadTo
<1>3. o <= N
  OBVIOUS
<1>0. \A k \in Taken(l) : k \in 1 .. N
  <2>1. \A k \in Taken(l) : k \in DOMAIN l.argv
    BY DEF Taken
  <2>. QED  BY <1>1, <2>1, LenProperties DEF LineShape, N
<1>. HIDE DEF N, L
<1>4. N \in Nat /\ L \in Nat /\ o \in 1 .. N /\ o \in Nat
  BY <1>1, <1>2, <1>3 DEF LineShape
<1>5. o \in l.options
  <2>1. \A i \in 1 .. L : l.at[i] # o
    BY <1>1 DEF LineShape
  <2>. QED  BY <1>1, <1>2, <1>4, <2>1 DEF LineShape
<1>6. ASSUME NEW j \in 1 .. L PROVE l.at[j] \in Nat /\ l.at[j] # o /\ l.at[j] \notin Taken(l)
  BY <1>1, <1>5 DEF LineShape
<1>7. ASSUME l.argv[o] \notin TakesArgument PROVE ReadTo(l, o + 1, n)
  <2>1. o + 1 \notin Taken(l)
    <3>1. (o + 1) - 1 = o
      BY <1>4
    <3>. QED  BY <1>0, <1>1, <1>7, <3>1 DEF LineShape
  <2>2. o + 1 \in 1 .. N + 1
    BY <1>4
  <2>3. \A j \in 1 .. L : l.at[j] < o + 1 <=> l.at[j] < o
    BY <1>4, <1>6
  <2>. QED  BY <1>2, <2>1, <2>2, <2>3 DEF ReadTo, N, L
<1>8. ASSUME l.argv[o] \in TakesArgument, o < N
      PROVE  o + 1 \notin l.options /\ ReadTo(l, o + 2, n)
  <2>1. o + 1 \in Taken(l)
    BY <1>1, <1>5, <1>8 DEF LineShape
  <2>2. o + 1 \notin l.options
    BY <1>1, <2>1 DEF LineShape
  <2>3. o + 2 \notin Taken(l)
    <3>1. (o + 2) - 1 = o + 1
      BY <1>4
    <3>. QED  BY <1>0, <1>1, <2>2, <3>1 DEF LineShape
  <2>4. o + 2 \in 1 .. N + 1
    BY <1>4, <1>8
  <2>5. \A j \in 1 .. L : l.at[j] < o + 2 <=> l.at[j] < o
    <3>. TAKE j \in 1 .. L
    <3>1. l.at[j] # o + 1
      BY <1>6, <2>1
    <3>. QED  BY <1>4, <1>6, <3>1
  <2>. QED  BY <1>2, <2>2, <2>3, <2>4, <2>5 DEF ReadTo, N, L
<1>. QED  BY <1>5, <1>7, <1>8 DEF N

(* Behind "--" stand the rest of the words, in their order.                *)
LEMMA AtDashes ==
    ASSUME NEW l, CommandLine(l), NEW o, NEW n, ReadTo(l, o, n), o <= Len(l.argv),
           l.argv[o] = Text("--")
    PROVE  /\ Len(l.argv) - o = Len(l.typed) - n
           /\ \A i \in 1 .. Len(l.typed) - n : l.typed[n + i] = l.argv[o + i]
<1>. DEFINE N == Len(l.argv)
            L == Len(l.typed)
<1>1. LineShape(l, N, L)
  BY LineFacts
<1>2. /\ o \in 1 .. N + 1 /\ o \notin Taken(l) /\ n \in 0 .. L
      /\ \A i \in 1 .. L : i <= n <=> l.at[i] < o
  BY DEF ReadTo
<1>3. o <= N
  OBVIOUS
<1>4. o \in l.options
  <2>1. l.argv[o].text = "--"
    BY TextOf, Zenon
  <2>2. l.argv[o].text \in OptionTexts
    BY <2>1 DEF OptionTexts
  <2>. QED  BY <2>2, AtOption
<1>. HIDE DEF N, L
<1>5. N \in Nat /\ L \in Nat /\ o \in 1 .. N /\ o \in Nat /\ n \in Nat /\ n <= L
  BY <1>1, <1>2, <1>3 DEF LineShape
<1>6. \A j \in 1 .. N : j > o => \E i \in 1 .. L : l.at[i] = j
  BY <1>1, <1>4 DEF LineShape
<1>7. \A i \in 1 .. L : l.at[i] \in 1 .. N /\ l.at[i] # o /\ l.typed[i] = l.argv[l.at[i]]
  BY <1>1, <1>4 DEF LineShape
<1>8. \A i, j \in 1 .. L : i < j => l.at[i] < l.at[j]
  BY <1>1 DEF LineShape
<1>. DEFINE T == {m \in 0 .. L - n : m = 0 \/ l.at[n + m] = o + m}
<1>9. \A m \in 0 .. L - n : m \in T
  <2>1. 0 \in T
    BY <1>5
  <2>2. ASSUME NEW m \in 1 .. L - n, m - 1 \in T PROVE m \in T
    <3>1. m \in Nat /\ n + m \in 1 .. L /\ ~(n + m <= n)
      BY <1>5
    <3>2. l.at[n + m] > o /\ l.at[n + m] \in 1 .. N
      BY <1>2, <1>5, <1>7, <3>1
    <3>3. l.at[n + m] >= o + m
      <4>1. CASE m = 1
        BY <1>5, <3>2, <4>1
      <4>2. CASE m # 1
        <5>1. l.at[n + (m - 1)] = o + (m - 1)
          BY <2>2, <3>1, <4>2
        <5>2. n + (m - 1) \in 1 .. L /\ n + (m - 1) < n + m
          BY <1>5, <3>1, <4>2
        <5>3. l.at[n + (m - 1)] < l.at[n + m]
          BY <1>8, <3>1, <5>2
        <5>. QED  BY <1>5, <3>1, <3>2, <5>1, <5>3
      <4>. QED  BY <4>1, <4>2
    <3>4. o + m \in 1 .. N /\ o + m > o
      BY <1>5, <3>1, <3>2, <3>3
    <3>5. PICK i \in 1 .. L : l.at[i] = o + m
      BY <1>6, <3>4
    <3>6. ~(i < n + m)
      <4>. SUFFICES ASSUME i < n + m PROVE FALSE
        OBVIOUS
      <4>1. ~(i <= n)
        BY <1>2, <1>5, <3>1, <3>5
      <4>2. i \in Nat /\ m # 1 /\ i <= n + (m - 1) /\ n + (m - 1) \in 1 .. L
        BY <1>5, <3>1, <4>1
      <4>3. l.at[n + (m - 1)] = o + (m - 1)
        BY <2>2, <3>1, <4>2
      <4>4. i = n + (m - 1) \/ l.at[i] < l.at[n + (m - 1)]
        BY <1>5, <1>8, <3>1, <4>2
      <4>. QED  BY <1>5, <3>1, <3>5, <4>3, <4>4
    <3>7. ~(n + m < i)
      <4>. SUFFICES ASSUME n + m < i PROVE FALSE
        OBVIOUS
      <4>1. l.at[n + m] < l.at[i]
        BY <1>8, <3>1
      <4>. QED  BY <1>5, <3>1, <3>2, <3>3, <3>5, <4>1
    <3>8. i = n + m
      BY <1>5, <3>1, <3>6, <3>7
    <3>. QED  BY <1>5, <3>5, <3>8
  <2>3. L - n \in Nat
    BY <1>5
  <2>. HIDE DEF T
  <2>. QED  BY <2>1, <2>2, <2>3, Induction
<1>10. \A m \in 1 .. L - n : l.at[n + m] = o + m /\ n + m \in 1 .. L
  <2>. TAKE m \in 1 .. L - n
  <2>1. m \in T /\ m # 0
    BY <1>5, <1>9
  <2>. QED  BY <1>5, <2>1
<1>11. N - o = L - n
  <2>1. CASE N = o
    <3>1. CASE L = n
      BY <1>5, <2>1, <3>1
    <3>2. CASE L # n
      <4>1. 1 \in 1 .. L - n
        BY <1>5, <3>2
      <4>2. l.at[n + 1] = o + 1 /\ l.at[n + 1] \in 1 .. N
        BY <1>7, <1>10, <4>1
      <4>. QED  BY <1>5, <2>1, <4>2
    <3>. QED  BY <3>1, <3>2
  <2>2. CASE N # o
    <3>1. N \in 1 .. N /\ N > o
      BY <1>5, <2>2
    <3>2. PICK i \in 1 .. L : l.at[i] = N
      BY <1>6, <3>1
    <3>3. i > n /\ i \in Nat
      BY <1>2, <1>5, <3>1, <3>2
    <3>4. i = L
      <4>. SUFFICES ASSUME i < L PROVE FALSE
        BY <1>5, <3>3
      <4>1. L \in 1 .. L
        BY <1>5, <3>3
      <4>2. l.at[i] < l.at[L] /\ l.at[L] \in 1 .. N
        BY <1>7, <1>8, <4>1
      <4>. QED  BY <1>5, <3>2, <4>2
    <3>5. L - n \in 1 .. L - n /\ n + (L - n) = L
      BY <1>5, <3>3, <3>4
    <3>6. l.at[L] = o + (L - n)
      BY <1>10, <3>5
    <3>. QED  BY <1>5, <3>2, <3>4, <3>6
  <2>. QED  BY <2>1, <2>2
<1>12. \A m \in 1 .. L - n : l.typed[n + m] = l.argv[o + m]
  BY <1>7, <1>10
<1>. QED  BY <1>11, <1>12 DEF N, L

\* A config_t.
IsConfig(c) ==
    c = [device |-> c.device, timeout |-> c.timeout, help |-> c.help, version |-> c.version]

\* What main has understood of the command line.
GetoptInv ==
    /\ line \in Lines
    /\ IsConfig(config)
    /\ pc = "getopt" => /\ \E n \in Nat : ReadTo(line, optind, n) /\ WordsAre(line, words, n)
                        /\ Deadline(line, optind, config.timeout)
    /\ pc \in {"open", "run", "sent"} =>
          /\ words = line.typed
          /\ Deadline(line, Len(line.argv) + 1, config.timeout)
          /\ args_parse_mcuco(words) # NoCall
    /\ pc = "sent" => frame = Frame(args_parse_mcuco(words))

(* The words of the command up to the next one.                            *)
LEMMA WordsAppended ==
    ASSUME NEW l, NEW ws, NEW n \in Nat, WordsAre(l, ws, n), NEW w \in Word, w = l.typed[n + 1]
    PROVE  WordsAre(l, Append(ws, w), n + 1)
<1>. DEFINE t == Append(ws, w)
<1>1. ws \in Seq(Word) /\ Len(ws) = n /\ \A i \in 1 .. n : ws[i] = l.typed[i]
  BY DEF WordsAre
<1>2. /\ t \in Seq(Word) /\ Len(t) = n + 1
      /\ \A i \in 1 .. n : t[i] = ws[i]
      /\ t[n + 1] = w
  BY <1>1, AppendProperties
<1>. HIDE DEF t
<1>3. \A i \in 1 .. n + 1 : i \in 1 .. n \/ i = n + 1
  OBVIOUS
<1>4. \A i \in 1 .. n + 1 : t[i] = l.typed[i]
  BY <1>1, <1>2, <1>3
<1>. QED  BY <1>2, <1>4 DEF WordsAre, t

(* Behind "--" all words of the command are read.                          *)
LEMMA WordsFinished ==
    ASSUME NEW l, CommandLine(l), NEW o, NEW n, ReadTo(l, o, n), o <= Len(l.argv),
           l.argv[o] = Text("--"), NEW ws, WordsAre(l, ws, n)
    PROVE  WordsAre(l, ws \o SubSeq(l.argv, o + 1, Len(l.argv)), Len(l.typed))
<1>. DEFINE N == Len(l.argv)
            L == Len(l.typed)
            s == SubSeq(l.argv, o + 1, N)
            t == ws \o s
<1>1. LineShape(l, N, L)
  BY LineFacts
<1>2. o \in 1 .. N + 1 /\ n \in 0 .. L
  BY DEF ReadTo
<1>3. N - o = L - n /\ \A i \in 1 .. L - n : l.typed[n + i] = l.argv[o + i]
  BY AtDashes
<1>4. ws \in Seq(Word) /\ Len(ws) = n /\ \A i \in 1 .. n : ws[i] = l.typed[i]
  BY DEF WordsAre
<1>0. o <= N
  OBVIOUS
<1>. HIDE DEF N, L
<1>5. /\ N \in Nat /\ L \in Nat /\ o \in Nat /\ o >= 1 /\ n \in Nat /\ n <= L
      /\ l.argv \in Seq(Word) /\ \A k \in 1 .. N : l.argv[k] \in Word
  BY <1>1, <1>2 DEF LineShape
<1>6. o + 1 \in Int /\ N \in Int /\ \A i \in o + 1 .. N : l.argv[i] \in Word
  BY <1>5
<1>7. /\ s \in Seq(Word) /\ Len(s) = (IF o + 1 <= N THEN N - (o + 1) + 1 ELSE 0)
      /\ \A i \in 1 .. N - (o + 1) + 1 : s[i] = l.argv[(o + 1) + i - 1]
  BY <1>6, SubSeqProperties
<1>. HIDE DEF s
<1>8. Len(s) = L - n
  BY <1>0, <1>3, <1>5, <1>7
<1>9. \A i \in 1 .. L - n : s[i] = l.typed[n + i]
  <2>. TAKE i \in 1 .. L - n
  <2>1. i \in 1 .. N - (o + 1) + 1 /\ (o + 1) + i - 1 = o + i
    BY <1>3, <1>5
  <2>. QED  BY <1>3, <1>7, <2>1
<1>10. Joins(t, Word, ws, n, s, L - n)
  BY <1>4, <1>7, <1>8, Concat, Zenon
<1>. HIDE DEF t
<1>11. t \in Seq(Word) /\ Len(t) = L
  <2>1. t \in Seq(Word) /\ Len(t) = n + (L - n)
    BY <1>10, Zenon DEF Joins
  <2>. QED  BY <1>5, <2>1
<1>12. \A i \in 1 .. L : t[i] = l.typed[i]
  <2>. TAKE i \in 1 .. L
  <2>1. i \in 1 .. n + (L - n)
    BY <1>5
  <2>2. CASE i <= n
    <3>1. i \in 1 .. n
      BY <1>5, <2>2
    <3>2. t[i] = ws[i]
      BY <1>10, <2>1, <2>2 DEF Joins
    <3>. QED  BY <1>4, <3>1, <3>2
  <2>3. CASE ~(i <= n)
    <3>1. i - n \in 1 .. L - n /\ n + (i - n) = i
      BY <1>5, <2>3
    <3>2. t[i] = s[i - n]
      BY <1>10, <2>1, <2>3 DEF Joins
    <3>. QED  BY <1>9, <3>1, <3>2
  <2>. QED  BY <2>2, <2>3
<1>13. WordsAre(l, t, L)
  BY <1>11, <1>12 DEF WordsAre
<1>. QED  BY <1>13 DEF t, s, N, L

(* All of a line is read.                                                  *)
LEMMA ReadAll ==
    ASSUME NEW l, CommandLine(l), NEW o, NEW n, ReadTo(l, o, n), o > Len(l.argv),
           NEW ws, WordsAre(l, ws, n)
    PROVE  ws = l.typed /\ o = Len(l.argv) + 1
<1>. DEFINE N == Len(l.argv)
            L == Len(l.typed)
<1>1. LineShape(l, N, L)
  BY LineFacts
<1>2. /\ o \in 1 .. N + 1 /\ n \in 0 .. L
      /\ \A i \in 1 .. L : i <= n <=> l.at[i] < o
  BY DEF ReadTo
<1>3. ws \in Seq(Word) /\ Len(ws) = n /\ \A i \in 1 .. n : ws[i] = l.typed[i]
  BY DEF WordsAre
<1>0. o > N
  OBVIOUS
<1>. HIDE DEF N, L
<1>4. N \in Nat /\ L \in Nat /\ l.typed \in Seq(Word) /\ o = N + 1
  BY <1>0, <1>1, <1>2 DEF LineShape
<1>5. n = L
  <2>1. CASE L = 0
    BY <1>2, <2>1
  <2>2. CASE L # 0
    <3>1. L \in 1 .. L
      BY <1>4, <2>2
    <3>2. l.at[L] \in 1 .. N
      BY <1>1, <3>1 DEF LineShape
    <3>3. l.at[L] < o
      BY <1>4, <3>2
    <3>. QED  BY <1>2, <1>4, <3>1, <3>3
  <2>. QED  BY <2>1, <2>2
<1>6. Len(ws) = Len(l.typed)
  BY <1>3, <1>5 DEF L
<1>7. \A i \in 1 .. Len(ws) : ws[i] = l.typed[i]
  BY <1>3
<1>8. ws = l.typed
  BY <1>3, <1>4, <1>6, <1>7, SeqEqual, Zenon
<1>. QED  BY <1>4, <1>8 DEF N

(* A word that is no --timeout leaves the deadline alone.                  *)
LEMMA DeadlineKept ==
    ASSUME NEW l, CommandLine(l), NEW o \in Nat, NEW p \in Nat, o < p, NEW ms, Deadline(l, o, ms),
           \A k \in o .. p - 1 : k \notin Timeouts(l)
    PROVE  Deadline(l, p, ms)
<1>1. \A k \in Timeouts(l) : k \in Nat
  <2>1. LineShape(l, Len(l.argv), Len(l.typed))
    BY LineFacts
  <2>. QED  BY <2>1 DEF Timeouts, LineShape
<1>2. \A k \in Timeouts(l) : k < p <=> k < o
  <2>. TAKE k \in Timeouts(l)
  <2>1. k \notin o .. p - 1
    OBVIOUS
  <2>. QED  BY <1>1, <2>1
<1>. QED  BY <1>2 DEF Deadline

(* The --timeout that was read last counts.                                *)
LEMMA DeadlineSet ==
    ASSUME NEW l, CommandLine(l), NEW o \in Timeouts(l), o + 1 \notin Timeouts(l),
           NEW ms, ms = parse_timeout(l.argv[o + 1]), ms # REJECT
    PROVE  Deadline(l, o + 2, ms)
<1>1. \A k \in Timeouts(l) : k \in Nat
  <2>1. LineShape(l, Len(l.argv), Len(l.typed))
    BY LineFacts
  <2>. QED  BY <2>1 DEF Timeouts, LineShape
<1>2. o < o + 2
  BY <1>1
<1>3. \A k \in Timeouts(l) : k < o + 2 => k <= o
  <2>. TAKE k \in Timeouts(l)
  <2>1. k # o + 1
    OBVIOUS
  <2>. QED  BY <1>1, <2>1
<1>. QED  BY <1>2, <1>3 DEF Deadline

(* Two words of different texts differ.                                    *)
LEMMA TextsDiffer ==
    ASSUME NEW s, NEW t, s # t PROVE Text(s) # Text(t)
BY TextOf

(* The options that take the next word are -d and -t.                      *)
LEMMA OptionsTaking ==
    ASSUME NEW s PROVE Text(s) \in TakesArgument <=> s \in {"-d", "-t"}
BY TextOf DEF TakesArgument

(* GetoptInv is inductive: each turn of the getopt_long loop reads one     *)
(* option, with its argument, or one word of the command.                  *)
LEMMA GetoptInvariance == Spec => []GetoptInv
<1>1. Init => GetoptInv
  <2>. SUFFICES ASSUME Init PROVE GetoptInv
    OBVIOUS
  <2>1. line \in Lines /\ optind = 1 /\ words = <<>> /\ pc = "getopt"
    BY DEF Init
  <2>2. CommandLine(line)
    BY <2>1, CliAssumption
  <2>3. LineShape(line, Len(line.argv), Len(line.typed))
    BY <2>2, LineFacts
  <2>5. IsConfig(config)
    BY DEF Init, IsConfig
  <2>6. config.timeout = 1000
    BY DEF Init
  <2>7. ReadTo(line, 1, 0)
    <3>. DEFINE N == Len(line.argv)
                L == Len(line.typed)
    <3>1. N \in Nat /\ L \in Nat
      BY <2>3 DEF LineShape
    <3>2. 1 \notin Taken(line)
      <4>1. \A k \in Taken(line) : \E j \in line.options : k = j + 1
        BY DEF Taken
      <4>2. \A j \in line.options : j \in Nat /\ j >= 1
        BY <2>3 DEF LineShape
      <4>. QED  BY <4>1, <4>2
    <3>3. \A i \in 1 .. L : line.at[i] \in 1 .. N
      BY <2>3 DEF LineShape
    <3>. HIDE DEF N, L
    <3>4. 1 \in 1 .. N + 1 /\ 0 \in 0 .. L /\ \A i \in 1 .. L : i <= 0 <=> line.at[i] < 1
      BY <3>1, <3>3
    <3>. QED  BY <3>2, <3>4 DEF ReadTo, N, L
  <2>8. WordsAre(line, words, 0)
    BY <2>1 DEF WordsAre
  <2>9. Deadline(line, 1, 1000)
    <3>1. \A k \in Timeouts(line) : k \in Nat /\ k >= 1
      BY <2>3 DEF Timeouts, LineShape
    <3>2. \A k \in Timeouts(line) : ~(k < 1)
      BY <3>1
    <3>. QED  BY <3>2 DEF Deadline
  <2>. QED  BY <2>1, <2>5, <2>6, <2>7, <2>8, <2>9 DEF GetoptInv
<1>2. GetoptInv /\ [Next]_vars => GetoptInv'
  <2>. SUFFICES ASSUME GetoptInv, [Next]_vars PROVE GetoptInv'
    OBVIOUS
  <2>. DEFINE N == Len(line.argv)
              L == Len(line.typed)
  <2>0. /\ line \in Lines /\ CommandLine(line) /\ LineShape(line, N, L)
        /\ IsConfig(config)
    BY CliAssumption, LineFacts DEF GetoptInv
  <2>. HIDE DEF N, L
  <2>a. N \in Nat /\ L \in Nat /\ N = Len(argv) /\ Here = line.argv[optind]
    BY <2>0 DEF LineShape, N, argv, Here
  <2>b. ASSUME pc = "getopt"
        PROVE  \E n \in Nat : ReadTo(line, optind, n) /\ WordsAre(line, words, n)
    BY <2>b DEF GetoptInv
  <2>c. ASSUME pc = "getopt"
        PROVE  Deadline(line, optind, config.timeout) /\ optind \in Nat
    BY <2>b, <2>c DEF GetoptInv, ReadTo
  <2>1. CASE NextWord
    <3>1. /\ pc = "getopt" /\ optind <= N /\ ~IsOption(Here)
          /\ words' = Append(words, Here) /\ optind' = optind + 1
          /\ UNCHANGED <<line, config, pc, frame>>
      BY <2>1, <2>a DEF NextWord, Parsing
    <3>2. PICK n \in Nat : ReadTo(line, optind, n) /\ WordsAre(line, words, n)
      BY <2>b, <3>1
    <3>3. Here.text \notin OptionTexts
      BY <3>1 DEF IsOption
    <3>4. /\ line.typed[n + 1] = Here /\ optind \notin line.options
          /\ ReadTo(line, optind + 1, n + 1)
      <4>1. optind <= Len(line.argv) /\ line.argv[optind].text \notin OptionTexts
        BY <2>a, <3>1, <3>3 DEF N
      <4>2. CommandLine(line) /\ ReadTo(line, optind, n)
        BY <2>0, <3>2
      <4>3. /\ line.typed[n + 1] = line.argv[optind] /\ optind \notin line.options
            /\ ReadTo(line, optind + 1, n + 1)
        BY <4>1, <4>2, AtWord
      <4>. QED  BY <2>a, <4>3
    <3>5. Here \in Word
      <4>1. optind \in 1 .. N
        BY <2>a, <3>1, <3>2 DEF ReadTo, N
      <4>. QED  BY <2>0, <2>a, <4>1 DEF LineShape
    <3>6. WordsAre(line, words', n + 1)
      BY <3>1, <3>2, <3>4, <3>5, WordsAppended
    <3>7. Deadline(line, optind + 1, config.timeout)
      <4>1. optind \notin Timeouts(line)
        BY <3>4 DEF Timeouts
      <4>2. \A k \in optind .. (optind + 1) - 1 : k \notin Timeouts(line)
        BY <2>c, <3>1, <4>1
      <4>3. optind \in Nat /\ optind + 1 \in Nat /\ optind < optind + 1
        BY <2>c, <3>1
      <4>. QED  BY <2>0, <2>c, <3>1, <4>2, <4>3, DeadlineKept
    <3>8. n + 1 \in Nat
      OBVIOUS
    <3>. QED  BY <2>0, <3>1, <3>4, <3>6, <3>7, <3>8 DEF GetoptInv
  <2>2. CASE EndOfOptions
    <3>1. /\ pc = "getopt" /\ optind <= N /\ Here = Text("--")
          /\ words' = words \o SubSeq(line.argv, optind + 1, N) /\ optind' = N + 1
          /\ UNCHANGED <<line, config, pc, frame>>
      BY <2>2, <2>a DEF EndOfOptions, Parsing, argv
    <3>2. PICK n \in Nat : ReadTo(line, optind, n) /\ WordsAre(line, words, n)
      BY <2>b, <3>1
    <3>3. WordsAre(line, words', L)
      BY <2>0, <2>a, <3>1, <3>2, WordsFinished DEF N, L
    <3>4. ReadTo(line, N + 1, L)
      <4>1. \A i \in 1 .. L : line.at[i] \in 1 .. N
        BY <2>0 DEF LineShape
      <4>2. N + 1 \in 1 .. N + 1 /\ L \in 0 .. L /\ \A i \in 1 .. L : i <= L <=> line.at[i] < N + 1
        BY <2>a, <4>1
      <4>3. N + 1 \notin Taken(line)
        <5>1. \A k \in Taken(line) : k \in DOMAIN line.argv
          BY DEF Taken
        <5>2. DOMAIN line.argv = 1 .. N
          BY <2>0, LenProperties DEF LineShape, N
        <5>. QED  BY <2>a, <5>1, <5>2
      <4>. QED  BY <4>2, <4>3 DEF ReadTo, N, L
    <3>5. Here.text = "--"
      BY <3>1, TextOf, Zenon
    <3>6. optind \in line.options
      <4>1. Here.text \in OptionTexts
        BY <3>5 DEF OptionTexts
      <4>. QED  BY <2>0, <2>a, <3>1, <3>2, <4>1, AtOption DEF N
    <3>7. Deadline(line, N + 1, config.timeout)
      <4>1. ASSUME NEW k \in optind .. (N + 1) - 1 PROVE k \notin Timeouts(line)
        <5>1. CASE k = optind
          BY <2>a, <3>1, <5>1, TextsDiffer DEF Timeouts
        <5>2. CASE k # optind
          <6>1. k \in 1 .. N /\ k > optind
            BY <2>a, <3>2, <4>1, <5>2 DEF ReadTo, N
          <6>2. PICK i \in 1 .. L : line.at[i] = k
            BY <2>0, <2>a, <3>1, <3>6, <6>1 DEF LineShape
          <6>3. k \notin line.options
            BY <2>0, <6>2 DEF LineShape
          <6>. QED  BY <6>3 DEF Timeouts
        <5>. QED  BY <5>1, <5>2
      <4>2. optind \in Nat /\ N + 1 \in Nat /\ optind < N + 1
        BY <2>a, <2>c, <3>1
      <4>. QED  BY <2>0, <2>c, <3>1, <4>1, <4>2, DeadlineKept
    <3>. QED  BY <2>0, <2>a, <3>1, <3>3, <3>4, <3>7 DEF GetoptInv
  <2>3. CASE DeviceOption
    <3>1. /\ pc = "getopt" /\ optind < N /\ Here = Text("-d")
          /\ config' = [config EXCEPT !.device = line.argv[optind + 1]] /\ optind' = optind + 2
          /\ UNCHANGED <<line, words, pc, frame>>
      BY <2>3, <2>a DEF DeviceOption, Parsing, argv
    <3>2. PICK n \in Nat : ReadTo(line, optind, n) /\ WordsAre(line, words, n)
      BY <2>b, <3>1
    <3>3. Here.text = "-d" /\ Here \in TakesArgument
      <4>1. "-d" \in {"-d", "-t"}
        OBVIOUS
      <4>. QED  BY <3>1, <4>1, TextOf, OptionsTaking, Zenon
    <3>4. Here.text \in OptionTexts /\ optind <= N
      BY <2>a, <2>c, <3>1, <3>3 DEF OptionTexts
    <3>5. optind + 1 \notin line.options /\ ReadTo(line, optind + 2, n)
      BY <2>0, <2>a, <3>1, <3>2, <3>3, <3>4, AtOption DEF N
    <3>6. Deadline(line, optind + 2, config.timeout)
      <4>1. optind \notin Timeouts(line)
        BY <2>a, <3>1, TextsDiffer DEF Timeouts
      <4>2. optind + 1 \notin Timeouts(line)
        BY <3>5 DEF Timeouts
      <4>3. \A k \in optind .. (optind + 2) - 1 : k = optind \/ k = optind + 1
        BY <2>c, <3>1
      <4>4. \A k \in optind .. (optind + 2) - 1 : k \notin Timeouts(line)
        BY <4>1, <4>2, <4>3
      <4>5. optind \in Nat /\ optind + 2 \in Nat /\ optind < optind + 2
        BY <2>c, <3>1
      <4>. QED  BY <2>0, <2>c, <3>1, <4>4, <4>5, DeadlineKept
    <3>7. /\ IsConfig(config')
          /\ config'.timeout = config.timeout
      BY <2>0, <3>1 DEF IsConfig
    <3>. QED  BY <2>0, <3>1, <3>2, <3>5, <3>6, <3>7 DEF GetoptInv
  <2>4. CASE TimeoutOption
    <3>. DEFINE ms == parse_timeout(line.argv[optind + 1])
    <3>1. /\ pc = "getopt" /\ optind < N /\ Here = Text("-t") /\ optind' = optind + 2
          /\ UNCHANGED <<line, words, frame>>
          /\ IF ms = REJECT THEN pc' = "usage" /\ UNCHANGED config
             ELSE config' = [config EXCEPT !.timeout = ms] /\ UNCHANGED pc
      BY <2>4, <2>a DEF TimeoutOption, Parsing, argv
    <3>. HIDE DEF ms
    <3>2. CASE ms = REJECT
      BY <2>0, <3>1, <3>2 DEF GetoptInv
    <3>3. CASE ms # REJECT
      <4>2. PICK n \in Nat : ReadTo(line, optind, n) /\ WordsAre(line, words, n)
        BY <2>b, <3>1
      <4>3. Here.text = "-t" /\ Here \in TakesArgument
        <5>1. "-t" \in {"-d", "-t"}
          OBVIOUS
        <5>. QED  BY <3>1, <5>1, TextOf, OptionsTaking, Zenon
      <4>4. Here.text \in OptionTexts /\ optind <= N
        BY <2>a, <2>c, <3>1, <4>3 DEF OptionTexts
      <4>5. optind + 1 \notin line.options /\ ReadTo(line, optind + 2, n) /\ optind \in line.options
        BY <2>0, <2>a, <3>1, <4>2, <4>3, <4>4, AtOption DEF N
      <4>6. Deadline(line, optind + 2, ms)
        <5>1. optind \in Timeouts(line)
          BY <2>a, <3>1, <4>5 DEF Timeouts, N
        <5>2. optind + 1 \notin Timeouts(line)
          BY <4>5 DEF Timeouts
        <5>. QED  BY <2>0, <3>3, <5>1, <5>2, DeadlineSet DEF ms
      <4>7. /\ IsConfig(config')
            /\ config'.timeout = ms
        BY <2>0, <3>1, <3>3 DEF IsConfig
      <4>. QED  BY <2>0, <3>1, <3>3, <4>2, <4>5, <4>6, <4>7 DEF GetoptInv
    <3>. QED  BY <3>2, <3>3
  <2>5. CASE FlagOption
    <3>1. /\ pc = "getopt" /\ optind <= N /\ optind' = optind + 1
          /\ \/ Here = Text("-h") /\ config' = [config EXCEPT !.help = TRUE]
             \/ Here = Text("-V") /\ config' = [config EXCEPT !.version = TRUE]
          /\ UNCHANGED <<line, words, pc, frame>>
      BY <2>5, <2>a DEF FlagOption, Parsing, argv
    <3>2. PICK n \in Nat : ReadTo(line, optind, n) /\ WordsAre(line, words, n)
      BY <2>b, <3>1
    <3>3. PICK s \in {"-h", "-V"} : Here = Text(s)
      BY <3>1
    <3>4. Here.text \in OptionTexts /\ Here \notin TakesArgument
      <4>1. Here.text = s
        BY <3>3, TextOf
      <4>2. s \in OptionTexts /\ s \notin {"-d", "-t"}
        BY DEF OptionTexts
      <4>. QED  BY <3>3, <4>1, <4>2, OptionsTaking
    <3>5. ReadTo(line, optind + 1, n)
      BY <2>0, <2>a, <3>1, <3>2, <3>4, AtOption DEF N
    <3>6. Deadline(line, optind + 1, config.timeout)
      <4>1. s # "-t"
        OBVIOUS
      <4>2. optind \notin Timeouts(line)
        BY <2>a, <3>3, <4>1, TextsDiffer DEF Timeouts
      <4>3. \A k \in optind .. (optind + 1) - 1 : k \notin Timeouts(line)
        BY <2>c, <3>1, <4>2
      <4>4. optind \in Nat /\ optind + 1 \in Nat /\ optind < optind + 1
        BY <2>c, <3>1
      <4>. QED  BY <2>0, <2>c, <3>1, <4>3, <4>4, DeadlineKept
    <3>7. /\ IsConfig(config')
          /\ config'.timeout = config.timeout
      BY <2>0, <3>1 DEF IsConfig
    <3>. QED  BY <2>0, <3>1, <3>2, <3>5, <3>6, <3>7 DEF GetoptInv
  <2>6. CASE BadOption
    BY <2>0, <2>6 DEF BadOption, Parsing, GetoptInv
  <2>7. CASE ParseCommand
    <3>1. /\ pc = "getopt" /\ optind > N
          /\ pc' \in {"help", "version", "bad", "open"}
          /\ pc' = "open" => args_parse_mcuco(words) # NoCall
          /\ UNCHANGED <<line, optind, words, config, frame>>
      BY <2>7, <2>a DEF ParseCommand
    <3>2. PICK n \in Nat : ReadTo(line, optind, n) /\ WordsAre(line, words, n)
      BY <2>b, <3>1
    <3>3. words = line.typed /\ optind = N + 1
      BY <2>0, <3>1, <3>2, ReadAll DEF N
    <3>4. Deadline(line, N + 1, config.timeout)
      BY <2>c, <3>1, <3>3
    <3>. QED  BY <2>0, <3>1, <3>3, <3>4 DEF GetoptInv, N
  <2>8. CASE OpenDevice
    BY <2>8 DEF OpenDevice, GetoptInv
  <2>9. CASE RunCommand
    BY <2>9 DEF RunCommand, GetoptInv
  <2>10. CASE UNCHANGED vars
    BY <2>10 DEF vars, GetoptInv
  <2>. QED
    BY <2>1, <2>2, <2>3, <2>4, <2>5, <2>6, <2>7, <2>8, <2>9, <2>10 DEF Next
<1>. QED  BY <1>1, <1>2, PTL DEF Spec

-----------------------------------------------------------------------------
(* What the words stand for.                                               *)

\* The octets that stand for a value of this kind.
Coded(kind, v) ==
    IF kind = "FREQUENCY" THEN put_u32_le(v)
    ELSE IF kind = "DUTY" THEN put_u16_le(v)
    ELSE <<v>>

(* A number has no text to be matched as a keyword.                        *)
LEMMA NumberText ==
    ASSUME NEW w, NEW s, NEW v, NEW t, w = NumberWord(s, v, t) PROVE w.text = ""
BY DEF NumberWord

(* A keyword has no sign and no value.                                     *)
LEMMA TextNumber ==
    ASSUME NEW w, NEW t, w = Text(t) PROVE w.sign = "" /\ w.value = 0
BY DEF Text

(* A word is a number or a text.                                           *)
LEMMA WordShape ==
    ASSUME NEW w \in Word
    PROVE  /\ w.digits \in BOOLEAN /\ w.value \in Nat /\ w.sign \in {"", "+", "-", " -"}
           /\ w.digits => w.text = ""
           /\ ~w.digits => w.sign = "" /\ w.value = 0
<1>1. /\ w.digits \in BOOLEAN /\ w.value \in Nat /\ w.sign \in {"", "+", "-", " -"}
      /\ w = IF w.digits THEN NumberWord(w.sign, w.value, w.tail) ELSE Text(w.text)
  BY DEF Word
<1>4. CASE w.digits
  <2>1. w = NumberWord(w.sign, w.value, w.tail)
    BY <1>1, <1>4
  <2>2. w.text = ""
    BY <2>1, NumberText
  <2>. QED  BY <1>1, <1>4, <2>2
<1>5. CASE ~w.digits
  <2>1. w = Text(w.text)
    BY <1>1, <1>5
  <2>2. w.sign = "" /\ w.value = 0
    BY <2>1, TextNumber
  <2>. QED  BY <1>1, <1>5, <2>2
<1>. QED  BY <1>1, <1>4, <1>5

(* A number without a minus sign that is accepted is the one typed.        *)
LEMMA PlainNumber ==
    ASSUME NEW w \in Word, ~Negative(w), NEW max \in Nat, max <= FREQ_MAX, strtoul(w) <= max
    PROVE  strtoul(w) = w.value
<1>1. w.value \in Nat /\ ULONG_MAX \in Nat /\ ULONG_MAX > FREQ_MAX /\ FREQ_MAX \in Nat
  BY WordShape, CliAssumption, FrequencyLimits
<1>2. ~(ULONG_MAX <= max)
  BY <1>1
<1>3. ~(w.value > ULONG_MAX)
  BY <1>2 DEF strtoul
<1>. QED  BY <1>3 DEF strtoul

(* parse_number answers the number that was typed, and never a negative    *)
(* one.                                                                    *)
LEMMA DigitsTyped ==
    ASSUME NEW w \in Word, NEW max \in Nat, max <= FREQ_MAX, Digits(w, max) # REJECT
    PROVE  w.digits /\ ~Negative(w) /\ Digits(w, max) = w.value
<1>1. /\ w.digits /\ w.sign = "" /\ strtoul(w) <= max
      /\ Digits(w, max) = strtoul(w)
  BY DEF Digits
<1>2. ~Negative(w)
  BY <1>1 DEF Negative
<1>. QED  BY <1>1, <1>2, PlainNumber

\* The place of a keyword among its kind.
Place(seq, t) == SelectInSeq(seq, LAMBDA m : m = t)

\* t is the k-th of n keywords, and nowhere else.
Nth(seq, t, n, k) ==
    Len(seq) = n /\ k \in 1 .. n /\ \A j \in 1 .. n : seq[j] = t <=> j = k

(* The first place of a text in a sequence.                                *)
LEMMA Selected ==
    ASSUME NEW seq, NEW t, NEW n \in Nat, NEW k, Nth(seq, t, n, k)
    PROVE  Place(seq, t) = k
<1>. DEFINE I == {i \in 1 .. Len(seq) : seq[i] = t}
<1>1. I = {k} /\ k \in Nat
  BY DEF Nth
<1>2. Place(seq, t) = IF I # {} THEN Min(I) ELSE 0
  BY DEF Place, SelectInSeq
<1>3. Min({k}) = k
  BY <1>1 DEF Min
<1>. HIDE DEF I
<1>. QED  BY <1>1, <1>2, <1>3

Keyworded(kind, w) ==
    /\ ~w.digits /\ ~Negative(w)
    /\ Octets(kind, w) = <<parse_value(kind, w)>>

(* A keyword the parser answers with k - 1 is the k-th meaning of its      *)
(* kind.                                                                   *)
LEMMA KeywordOctet ==
    ASSUME NEW kind, NEW w \in Word, NEW n \in Nat, NEW k \in Nat, k >= 1,
           Nth(Meanings(kind), w.text, n, k), w.text # "", parse_value(kind, w) = k - 1
    PROVE  Keyworded(kind, w)
<1>1. ~w.digits /\ w.sign = ""
  BY WordShape
<1>2. Place(Meanings(kind), w.text) = k
  BY Selected
<1>3. Octets(kind, w) = <<Place(Meanings(kind), w.text) - 1>>
  BY <1>1 DEF Octets, Place
<1>4. ~Negative(w)
  BY <1>1 DEF Negative
<1>. QED  BY <1>1, <1>2, <1>3, <1>4 DEF Keyworded

(* So it is for every kind that is typed as a keyword.                     *)
LEMMA Keywords ==
    ASSUME NEW kind \in {"DIRECTION", "LEVEL", "PORT", "OUT_PORT", "POLARITY", "EDGE",
                         "BIND_EDGE", "ACTION"},
           NEW w \in Word, parse_value(kind, w) # REJECT
    PROVE  Keyworded(kind, w)
<1>1. CASE kind = "DIRECTION"
  <2>. DEFINE m == <<"input", "output">>
  <2>1. Meanings(kind) = m /\ parse_value(kind, w) = parse_direction(w)
    BY <1>1 DEF Meanings, parse_value
  <2>. DEFINE k == parse_direction(w) + 1
  <2>2. \/ w.text = "input" /\ parse_direction(w) = 0
        \/ w.text = "output" /\ parse_direction(w) = 1
    BY <2>1 DEF parse_direction
  <2>3. Len(m) = 2 /\ m[1] = "input" /\ m[2] = "output"
    OBVIOUS
  <2>. HIDE DEF m
  <2>4. k \in 1 .. 2
    BY <2>2
  <2>5. parse_direction(w) = k - 1
    BY <2>2
  <2>6. w.text # ""
    BY <2>2
  <2>7. \A j \in 1 .. 2 : m[j] = w.text <=> j = k
    <3>1. \A j \in 1 .. 2 : j = 1 \/ j = 2
      OBVIOUS
    <3>. QED  BY <2>2, <2>3, <3>1
  <2>. HIDE DEF k
  <2>8. Nth(Meanings(kind), w.text, 2, k)
    BY <2>1, <2>3, <2>4, <2>7 DEF Nth
  <2>9. 2 \in Nat /\ k \in Nat /\ k >= 1
    BY <2>4
  <2>. QED  BY <2>1, <2>5, <2>6, <2>8, <2>9, KeywordOctet
<1>2. CASE kind = "LEVEL"
  <2>. DEFINE m == <<"low", "high">>
  <2>1. Meanings(kind) = m /\ parse_value(kind, w) = parse_level(w)
    BY <1>2 DEF Meanings, parse_value
  <2>. DEFINE k == parse_level(w) + 1
  <2>2. \/ w.text = "low" /\ parse_level(w) = 0
        \/ w.text = "high" /\ parse_level(w) = 1
    BY <2>1 DEF parse_level
  <2>3. Len(m) = 2 /\ m[1] = "low" /\ m[2] = "high"
    OBVIOUS
  <2>. HIDE DEF m
  <2>4. k \in 1 .. 2
    BY <2>2
  <2>5. parse_level(w) = k - 1
    BY <2>2
  <2>6. w.text # ""
    BY <2>2
  <2>7. \A j \in 1 .. 2 : m[j] = w.text <=> j = k
    <3>1. \A j \in 1 .. 2 : j = 1 \/ j = 2
      OBVIOUS
    <3>. QED  BY <2>2, <2>3, <3>1
  <2>. HIDE DEF k
  <2>8. Nth(Meanings(kind), w.text, 2, k)
    BY <2>1, <2>3, <2>4, <2>7 DEF Nth
  <2>9. 2 \in Nat /\ k \in Nat /\ k >= 1
    BY <2>4
  <2>. QED  BY <2>1, <2>5, <2>6, <2>8, <2>9, KeywordOctet
<1>3. CASE kind \in {"PORT", "OUT_PORT"}
  <2>. DEFINE m == <<"A", "B", "C", "D", "E", "F", "G">>
  <2>1. Meanings(kind) = m /\ parse_value(kind, w) = parse_port(w)
    BY <1>3 DEF Meanings, parse_value
  <2>. DEFINE k == parse_port(w) + 1
  <2>2. \/ w.text = "A" /\ parse_port(w) = 0
        \/ w.text = "B" /\ parse_port(w) = 1
        \/ w.text = "C" /\ parse_port(w) = 2
        \/ w.text = "D" /\ parse_port(w) = 3
        \/ w.text = "E" /\ parse_port(w) = 4
        \/ w.text = "F" /\ parse_port(w) = 5
        \/ w.text = "G" /\ parse_port(w) = 6
    BY <2>1 DEF parse_port
  <2>3. Len(m) = 7 /\ m[1] = "A" /\ m[2] = "B" /\ m[3] = "C" /\ m[4] = "D" /\ m[5] = "E" /\ m[6] = "F" /\ m[7] = "G"
    OBVIOUS
  <2>. HIDE DEF m
  <2>4. k \in 1 .. 7
    BY <2>2
  <2>5. parse_port(w) = k - 1
    BY <2>2
  <2>6. w.text # ""
    BY <2>2
  <2>7. \A j \in 1 .. 7 : m[j] = w.text <=> j = k
    <3>1. \A j \in 1 .. 7 : j = 1 \/ j = 2 \/ j = 3 \/ j = 4 \/ j = 5 \/ j = 6 \/ j = 7
      OBVIOUS
    <3>. QED  BY <2>2, <2>3, <3>1
  <2>. HIDE DEF k
  <2>8. Nth(Meanings(kind), w.text, 7, k)
    BY <2>1, <2>3, <2>4, <2>7 DEF Nth
  <2>9. 7 \in Nat /\ k \in Nat /\ k >= 1
    BY <2>4
  <2>. QED  BY <2>1, <2>5, <2>6, <2>8, <2>9, KeywordOctet
<1>4. CASE kind = "POLARITY"
  <2>. DEFINE m == <<"active-high", "active-low">>
  <2>1. Meanings(kind) = m /\ parse_value(kind, w) = parse_polarity(w)
    BY <1>4 DEF Meanings, parse_value
  <2>. DEFINE k == parse_polarity(w) + 1
  <2>2. \/ w.text = "active-high" /\ parse_polarity(w) = 0
        \/ w.text = "active-low" /\ parse_polarity(w) = 1
    BY <2>1 DEF parse_polarity
  <2>3. Len(m) = 2 /\ m[1] = "active-high" /\ m[2] = "active-low"
    OBVIOUS
  <2>. HIDE DEF m
  <2>4. k \in 1 .. 2
    BY <2>2
  <2>5. parse_polarity(w) = k - 1
    BY <2>2
  <2>6. w.text # ""
    BY <2>2
  <2>7. \A j \in 1 .. 2 : m[j] = w.text <=> j = k
    <3>1. \A j \in 1 .. 2 : j = 1 \/ j = 2
      OBVIOUS
    <3>. QED  BY <2>2, <2>3, <3>1
  <2>. HIDE DEF k
  <2>8. Nth(Meanings(kind), w.text, 2, k)
    BY <2>1, <2>3, <2>4, <2>7 DEF Nth
  <2>9. 2 \in Nat /\ k \in Nat /\ k >= 1
    BY <2>4
  <2>. QED  BY <2>1, <2>5, <2>6, <2>8, <2>9, KeywordOctet
<1>5. CASE kind = "EDGE"
  <2>. DEFINE m == <<"off", "rising", "falling", "both">>
  <2>1. Meanings(kind) = m /\ parse_value(kind, w) = parse_edge(w)
    BY <1>5 DEF Meanings, parse_value
  <2>. DEFINE k == parse_edge(w) + 1
  <2>2. \/ w.text = "off" /\ parse_edge(w) = 0
        \/ w.text = "rising" /\ parse_edge(w) = 1
        \/ w.text = "falling" /\ parse_edge(w) = 2
        \/ w.text = "both" /\ parse_edge(w) = 3
    BY <2>1 DEF parse_edge
  <2>3. Len(m) = 4 /\ m[1] = "off" /\ m[2] = "rising" /\ m[3] = "falling" /\ m[4] = "both"
    OBVIOUS
  <2>. HIDE DEF m
  <2>4. k \in 1 .. 4
    BY <2>2
  <2>5. parse_edge(w) = k - 1
    BY <2>2
  <2>6. w.text # ""
    BY <2>2
  <2>7. \A j \in 1 .. 4 : m[j] = w.text <=> j = k
    <3>1. \A j \in 1 .. 4 : j = 1 \/ j = 2 \/ j = 3 \/ j = 4
      OBVIOUS
    <3>. QED  BY <2>2, <2>3, <3>1
  <2>. HIDE DEF k
  <2>8. Nth(Meanings(kind), w.text, 4, k)
    BY <2>1, <2>3, <2>4, <2>7 DEF Nth
  <2>9. 4 \in Nat /\ k \in Nat /\ k >= 1
    BY <2>4
  <2>. QED  BY <2>1, <2>5, <2>6, <2>8, <2>9, KeywordOctet
<1>6. CASE kind = "BIND_EDGE"
  <2>. DEFINE m == <<"off", "rising", "falling", "both">>
  <2>1. Meanings(kind) = m /\ parse_value(kind, w) = parse_bind_edge(w)
    BY <1>6 DEF Meanings, parse_value
  <2>. DEFINE k == parse_bind_edge(w) + 1
  <2>2. \/ w.text = "rising" /\ parse_bind_edge(w) = 1
        \/ w.text = "falling" /\ parse_bind_edge(w) = 2
        \/ w.text = "both" /\ parse_bind_edge(w) = 3
    BY <2>1 DEF parse_bind_edge, parse_edge
  <2>3. Len(m) = 4 /\ m[1] = "off" /\ m[2] = "rising" /\ m[3] = "falling" /\ m[4] = "both"
    OBVIOUS
  <2>. HIDE DEF m
  <2>4. k \in 1 .. 4
    BY <2>2
  <2>5. parse_bind_edge(w) = k - 1
    BY <2>2
  <2>6. w.text # ""
    BY <2>2
  <2>7. \A j \in 1 .. 4 : m[j] = w.text <=> j = k
    <3>1. \A j \in 1 .. 4 : j = 1 \/ j = 2 \/ j = 3 \/ j = 4
      OBVIOUS
    <3>. QED  BY <2>2, <2>3, <3>1
  <2>. HIDE DEF k
  <2>8. Nth(Meanings(kind), w.text, 4, k)
    BY <2>1, <2>3, <2>4, <2>7 DEF Nth
  <2>9. 4 \in Nat /\ k \in Nat /\ k >= 1
    BY <2>4
  <2>. QED  BY <2>1, <2>5, <2>6, <2>8, <2>9, KeywordOctet
<1>7. CASE kind = "ACTION"
  <2>. DEFINE m == <<"low", "high", "toggle">>
  <2>1. Meanings(kind) = m /\ parse_value(kind, w) = parse_action(w)
    BY <1>7 DEF Meanings, parse_value
  <2>. DEFINE k == parse_action(w) + 1
  <2>2. \/ w.text = "low" /\ parse_action(w) = 0
        \/ w.text = "high" /\ parse_action(w) = 1
        \/ w.text = "toggle" /\ parse_action(w) = 2
    BY <2>1 DEF parse_action
  <2>3. Len(m) = 3 /\ m[1] = "low" /\ m[2] = "high" /\ m[3] = "toggle"
    OBVIOUS
  <2>. HIDE DEF m
  <2>4. k \in 1 .. 3
    BY <2>2
  <2>5. parse_action(w) = k - 1
    BY <2>2
  <2>6. w.text # ""
    BY <2>2
  <2>7. \A j \in 1 .. 3 : m[j] = w.text <=> j = k
    <3>1. \A j \in 1 .. 3 : j = 1 \/ j = 2 \/ j = 3
      OBVIOUS
    <3>. QED  BY <2>2, <2>3, <3>1
  <2>. HIDE DEF k
  <2>8. Nth(Meanings(kind), w.text, 3, k)
    BY <2>1, <2>3, <2>4, <2>7 DEF Nth
  <2>9. 3 \in Nat /\ k \in Nat /\ k >= 1
    BY <2>4
  <2>. QED  BY <2>1, <2>5, <2>6, <2>8, <2>9, KeywordOctet
<1>. QED  BY <1>1, <1>2, <1>3, <1>4, <1>5, <1>6, <1>7

(* What a word stands for is what its parser made of it, and a minus sign  *)
(* gets through in a frequency only.                                       *)
LEMMA WordOctets ==
    ASSUME NEW kind \in ValueKinds, NEW w \in Word, parse_value(kind, w) # REJECT,
           ~(kind = "FREQUENCY" /\ Negative(w))
    PROVE  ~Negative(w) /\ Octets(kind, w) = Coded(kind, parse_value(kind, w))
<1>1. CASE kind \in {"DIRECTION", "LEVEL", "PORT", "OUT_PORT", "POLARITY", "EDGE",
                     "BIND_EDGE", "ACTION"}
  <2>1. Keyworded(kind, w)
    BY <1>1, Keywords
  <2>2. Coded(kind, parse_value(kind, w)) = <<parse_value(kind, w)>>
    BY <1>1 DEF Coded
  <2>. QED  BY <2>1, <2>2 DEF Keyworded
<1>2. CASE kind \in {"PIN", "OUT_PIN"}
  <2>1. parse_value(kind, w) = Digits(w, PIN_MAX)
    BY <1>2 DEF parse_value, parse_pin
  <2>2. PIN_MAX \in Nat /\ PIN_MAX <= FREQ_MAX
    BY SMT DEF PIN_MAX, FREQ_MAX
  <2>3. w.digits /\ ~Negative(w) /\ parse_value(kind, w) = w.value
    BY <2>1, <2>2, DigitsTyped
  <2>. QED  BY <1>2, <2>3 DEF Octets, Coded
<1>3. CASE kind = "TIMER"
  <2>1. parse_value(kind, w) = Digits(w, GROUP_MAX)
    BY <1>3 DEF parse_value, parse_timer
  <2>2. GROUP_MAX \in Nat /\ GROUP_MAX <= FREQ_MAX
    BY SMT DEF GROUP_MAX, FREQ_MAX
  <2>3. w.digits /\ ~Negative(w) /\ parse_value(kind, w) = w.value
    BY <2>1, <2>2, DigitsTyped
  <2>. QED  BY <1>3, <2>3 DEF Octets, Coded
<1>4. CASE kind = "DUTY"
  <2>. DEFINE percent == Digits(w, DUTY_MAX \div 10)
  <2>1. parse_value(kind, w) = parse_duty(w)
    BY <1>4 DEF parse_value
  <2>2. percent # REJECT /\ parse_duty(w) = percent * 10
    BY <2>1 DEF parse_duty
  <2>3. DUTY_MAX \div 10 \in Nat /\ DUTY_MAX \div 10 <= FREQ_MAX
    BY SMT DEF DUTY_MAX, FREQ_MAX
  <2>4. w.digits /\ ~Negative(w) /\ percent = w.value
    BY <2>2, <2>3, DigitsTyped
  <2>. HIDE DEF percent
  <2>5. w.value \in Nat
    BY WordShape
  <2>6. parse_value(kind, w) = 10 * w.value
    BY <2>1, <2>2, <2>4, <2>5
  <2>. QED  BY <1>4, <2>4, <2>6 DEF Octets, Coded
<1>5. CASE kind = "FREQUENCY"
  <2>1. parse_value(kind, w) = parse_frequency(w) /\ ~Negative(w)
    BY <1>5 DEF parse_value
  <2>2. strtoul(w) \in FREQ_MIN .. FREQ_MAX /\ parse_frequency(w) = strtoul(w)
    BY <2>1 DEF parse_frequency
  <2>3. strtoul(w) = w.value
    <3>1. FREQ_MAX \in Nat /\ FREQ_MAX <= FREQ_MAX /\ strtoul(w) <= FREQ_MAX
      BY <2>2, FrequencyLimits
    <3>. QED  BY <2>1, <3>1, PlainNumber
  <2>4. w.digits
    <3>1. w.value # 0
      BY <2>2, <2>3 DEF FREQ_MIN
    <3>. QED  BY <3>1, WordShape
  <2>. QED  BY <1>5, <2>1, <2>2, <2>3, <2>4 DEF Octets, Coded
<1>. QED  BY <1>1, <1>2, <1>3, <1>4, <1>5 DEF ValueKinds, Fields

(* The deadline is the one typed.                                          *)
LEMMA TimeoutTyped ==
    ASSUME NEW w \in Word, parse_timeout(w) # REJECT, ~Negative(w)
    PROVE  parse_timeout(w) = w.value
<1>1. /\ parse_timeout(w) = strtoul(w)
      /\ strtoul(w) \in TIMEOUT_MIN_MS .. TIMEOUT_MAX_MS
  BY DEF parse_timeout
<1>2. TIMEOUT_MAX_MS \in Nat /\ TIMEOUT_MAX_MS <= FREQ_MAX /\ strtoul(w) <= TIMEOUT_MAX_MS
  <2>1. TIMEOUT_MAX_MS \in Nat /\ TIMEOUT_MIN_MS \in Nat /\ TIMEOUT_MAX_MS <= FREQ_MAX
    BY SMT DEF TIMEOUT_MAX_MS, TIMEOUT_MIN_MS, FREQ_MAX
  <2>. QED  BY <1>1, <2>1
<1>. QED  BY <1>1, <1>2, PlainNumber

-----------------------------------------------------------------------------
(* How the payload is put together.                                        *)

\* g is the history of FlattenSeq.
Flattens(g, seqs, n) ==
    g = [i \in 1 .. n |-> IF i = 1 THEN seqs[i] ELSE g[i - 1] \o seqs[i]]

(* FlattenSeq is the last entry of its history, whatever function it       *)
(* chooses.                                                                *)
LEMMA Flattened ==
    ASSUME NEW seqs, NEW n \in Nat, n >= 1, Len(seqs) = n, NEW g, Flattens(g, seqs, n)
    PROVE  FlattenSeq(seqs) = g[n]
<1>. DEFINE f == CHOOSE s : Flattens(s, seqs, n)
<1>1. Flattens(f, seqs, n)
  OBVIOUS
<1>2. FlattenSeq(seqs) = f[n]
  BY DEF FlattenSeq, Flattens
<1>. HIDE DEF f
<1>. DEFINE T == {k \in 0 .. n : k = 0 \/ f[k] = g[k]}
<1>3. 0 \in T
  OBVIOUS
<1>4. ASSUME NEW k \in 1 .. n, k - 1 \in T PROVE k \in T
  <2>1. f[k] = IF k = 1 THEN seqs[k] ELSE f[k - 1] \o seqs[k]
    BY <1>1 DEF Flattens
  <2>2. g[k] = IF k = 1 THEN seqs[k] ELSE g[k - 1] \o seqs[k]
    BY DEF Flattens
  <2>3. k = 1 \/ f[k - 1] = g[k - 1]
    BY <1>4
  <2>4. f[k] = g[k]
    BY <2>1, <2>2, <2>3
  <2>. QED  BY <2>4
<1>5. n \in T
  <2>1. n \in 0 .. n
    OBVIOUS
  <2>. HIDE DEF T
  <2>. QED  BY <1>3, <1>4, <2>1, Induction
<1>. QED  BY <1>2, <1>5

(* Two sequences in a row.                                                 *)
LEMMA FlattenTwo ==
    ASSUME NEW p, NEW q PROVE FlattenSeq(<<p, q>>) = p \o q
<1>. DEFINE g == [i \in 1 .. 2 |-> IF i = 1 THEN p ELSE p \o q]
<1>1. g[1] = p /\ g[2] = p \o q
  OBVIOUS
<1>2. Flattens(g, <<p, q>>, 2)
  BY <1>1 DEF Flattens
<1>3. 2 \in Nat /\ 2 >= 1 /\ Len(<<p, q>>) = 2
  OBVIOUS
<1>. HIDE DEF g
<1>. QED  BY <1>1, <1>2, <1>3, Flattened

(* s is p, q and r, and b what p and q make together.                      *)
Three(s, p, q, r, b) == s = <<p, q, r>> /\ b = p \o q

(* Three sequences in a row.                                               *)
LEMMA FlattenThree ==
    ASSUME NEW p, NEW q, NEW r, NEW s, NEW b, Three(s, p, q, r, b)
    PROVE  FlattenSeq(s) = b \o r
<1>0. s = <<p, q, r>> /\ b = p \o q
  BY DEF Three
<1>. DEFINE g == [i \in 1 .. 3 |-> IF i = 1 THEN p ELSE IF i = 2 THEN b ELSE b \o r]
<1>1. g[1] = p /\ g[2] = b /\ g[3] = b \o r
  OBVIOUS
<1>2. Flattens(g, s, 3)
  BY <1>0, <1>1 DEF Flattens
<1>3. 3 \in Nat /\ 3 >= 1 /\ Len(s) = 3
  BY <1>0
<1>. HIDE DEF g
<1>. QED  BY <1>1, <1>2, <1>3, Flattened

(* Octets one by one.                                                      *)
LEMMA FlattenOnes ==
    ASSUME NEW a \in Seq(Nat), NEW n \in Nat, Len(a) = n
    PROVE  FlattenSeq([i \in 1 .. n |-> <<a[i]>>]) = a
<1>. DEFINE seqs == [i \in 1 .. n |-> <<a[i]>>]
            g == [i \in 1 .. n |-> [j \in 1 .. i |-> a[j]]]
<1>1. Len(seqs) = n
  OBVIOUS
<1>2. a = [j \in 1 .. n |-> a[j]] /\ \A j \in 1 .. n : a[j] \in Nat
  BY LenProperties, ElementOfSeq
<1>3. CASE n = 0
  <2>1. FlattenSeq(seqs) = seqs
    BY <1>1, <1>3 DEF FlattenSeq
  <2>2. seqs = <<>> /\ a = <<>>
    BY <1>2, <1>3
  <2>. QED  BY <2>1, <2>2
<1>4. CASE n # 0
  <2>1. ASSUME NEW i \in 1 .. n
        PROVE  g[i] = IF i = 1 THEN seqs[i] ELSE g[i - 1] \o seqs[i]
    <3>1. CASE i = 1
      <4>1. g[1] = [j \in 1 .. 1 |-> a[j]] /\ seqs[1] = <<a[1]>>
        BY <1>4
      <4>2. [j \in 1 .. 1 |-> a[j]] = <<a[1]>>
        OBVIOUS
      <4>. QED  BY <3>1, <4>1, <4>2
    <3>2. CASE i # 1
      <4>. DEFINE p == [j \in 1 .. i - 1 |-> a[j]]
                  q == <<a[i]>>
                  s == [j \in 1 .. i |-> a[j]]
      <4>1. i - 1 \in 1 .. n
        BY <3>2
      <4>2. g[i - 1] = p /\ seqs[i] = q /\ g[i] = s
        BY <4>1
      <4>3. \A j \in 1 .. i : a[j] \in Nat
        BY <1>2
      <4>4. p \in Seq(Nat) /\ Len(p) = i - 1 /\ \A j \in 1 .. i - 1 : p[j] = a[j]
        BY <4>1, <4>3
      <4>5. q \in Seq(Nat) /\ Len(q) = 1 /\ q[1] = a[i]
        BY <4>3
      <4>6. s \in Seq(Nat) /\ Len(s) = i /\ \A j \in 1 .. i : s[j] = a[j]
        BY <4>3
      <4>. HIDE DEF p, q, s
      <4>7. Joins(p \o q, Nat, p, i - 1, q, 1)
        BY <4>4, <4>5, Concat, Zenon
      <4>8. p \o q \in Seq(Nat) /\ Len(p \o q) = Len(s)
        <5>1. (i - 1) + 1 = i
          OBVIOUS
        <5>. QED  BY <4>6, <4>7, <5>1 DEF Joins
      <4>9. \A j \in 1 .. Len(p \o q) : (p \o q)[j] = s[j]
        <5>. TAKE j \in 1 .. Len(p \o q)
        <5>1. j \in 1 .. i /\ j \in 1 .. (i - 1) + 1
          BY <4>6, <4>8
        <5>2. CASE j <= i - 1
          <6>1. j \in 1 .. i - 1
            BY <5>1, <5>2
          <6>2. (p \o q)[j] = p[j]
            BY <4>7, <5>1, <5>2 DEF Joins
          <6>. QED  BY <4>4, <4>6, <5>1, <6>1, <6>2
        <5>3. CASE ~(j <= i - 1)
          <6>1. j = i /\ j - (i - 1) = 1
            BY <5>1, <5>3
          <6>2. (p \o q)[j] = q[j - (i - 1)]
            BY <4>7, <5>1, <5>3 DEF Joins
          <6>. QED  BY <4>5, <4>6, <5>1, <6>1, <6>2
        <5>. QED  BY <5>2, <5>3
      <4>10. p \o q = s
        BY <4>6, <4>8, <4>9, SeqEqual, Zenon
      <4>. QED  BY <3>2, <4>2, <4>10
    <3>. QED  BY <3>1, <3>2
  <2>2. Flattens(g, seqs, n)
    <3>1. g = [i \in 1 .. n |-> g[i]]
      OBVIOUS
    <3>. HIDE DEF g, seqs
    <3>. QED  BY <2>1, <3>1 DEF Flattens
  <2>3. n >= 1 /\ n \in 1 .. n
    BY <1>4
  <2>4. FlattenSeq(seqs) = g[n]
    <3>. HIDE DEF g, seqs
    <3>. QED  BY <1>1, <2>2, <2>3, Flattened
  <2>. QED  BY <1>2, <2>3, <2>4
<1>. QED  BY <1>3, <1>4

(* Which words of the table take more than an octet.                       *)
LEMMA RowKinds ==
    ASSUME NEW r \in 1 .. 16
    PROVE  /\ commands[r].run = "group_cfg" => commands[r].values = <<"FREQUENCY", "TIMER">>
           /\ commands[r].run = "channel_set" => commands[r].values = <<"DUTY", "PORT", "PIN">>
           /\ commands[r].run \notin {"group_cfg", "channel_set"} =>
                \A i \in DOMAIN commands[r].values : commands[r].values[i] \notin {"FREQUENCY", "DUTY"}
<1>. DEFINE run == commands[r].run
            values == commands[r].values
<1>1. /\ run \in Ops /\ values \in Seq(ValueKinds)
      /\ Passed[run] = [i \in DOMAIN values |-> Field(values[i])]
  BY TableIsSound DEF GoodRow, SoundRow
<1>2. Len(values) \in Nat /\ DOMAIN values = 1 .. Len(values)
  BY <1>1, LenProperties
<1>. HIDE DEF run, values
<1>3. \A i \in DOMAIN values : i \in DOMAIN Passed[run] /\ Passed[run][i] = Field(values[i])
  BY <1>1
<1>4. ASSUME run = "group_cfg" PROVE values = <<"FREQUENCY", "TIMER">>
  <2>1. Passed[run] = <<"FREQUENCY", "TIMER">>
    BY <1>4 DEF Passed
  <2>2. DOMAIN values = 1 .. 2
    <3>1. DOMAIN Passed[run] = 1 .. 2
      BY <2>1
    <3>2. DOMAIN Passed[run] = DOMAIN values
      BY <1>1
    <3>. QED  BY <3>1, <3>2
  <2>3. Len(values) = 2
    <3>1. 1 .. Len(values) = 1 .. 2
      BY <1>2, <2>2, Zenon
    <3>2. 2 \in 1 .. Len(values)
      BY <3>1
    <3>3. 3 \notin 1 .. Len(values)
      BY <3>1
    <3>. QED  BY <1>2, <3>2, <3>3
  <2>4. Field(values[1]) = "FREQUENCY" /\ Field(values[2]) = "TIMER"
    BY <1>3, <2>1, <2>2
  <2>5. values[1] = "FREQUENCY" /\ values[2] = "TIMER"
    BY <2>4 DEF Field
  <2>. QED  BY <1>1, <2>3, <2>5
<1>5. ASSUME run = "channel_set" PROVE values = <<"DUTY", "PORT", "PIN">>
  <2>1. Passed[run] = <<"DUTY", "PORT", "PIN">>
    BY <1>5 DEF Passed
  <2>2. DOMAIN values = 1 .. 3
    <3>1. DOMAIN Passed[run] = 1 .. 3
      BY <2>1
    <3>2. DOMAIN Passed[run] = DOMAIN values
      BY <1>1
    <3>. QED  BY <3>1, <3>2
  <2>3. Len(values) = 3
    <3>1. 1 .. Len(values) = 1 .. 3
      BY <1>2, <2>2, Zenon
    <3>2. 3 \in 1 .. Len(values)
      BY <3>1
    <3>3. 4 \notin 1 .. Len(values)
      BY <3>1
    <3>. QED  BY <1>2, <3>2, <3>3
  <2>4. Field(values[1]) = "DUTY" /\ Field(values[2]) = "PORT" /\ Field(values[3]) = "PIN"
    BY <1>3, <2>1, <2>2
  <2>5. values[1] = "DUTY" /\ values[2] = "PORT" /\ values[3] = "PIN"
    BY <2>4 DEF Field
  <2>. QED  BY <1>1, <2>3, <2>5
<1>6. ASSUME run \notin {"group_cfg", "channel_set"}, NEW i \in DOMAIN values
      PROVE  values[i] \notin {"FREQUENCY", "DUTY"}
  <2>1. Passed[run][i] \notin {"FREQUENCY", "DUTY"}
    <3>1. CASE run \in PlainOps
      <4>1. Passed[run] = <<>>
        BY <3>1 DEF Passed, PlainOps
      <4>. QED  BY <1>3, <1>6, <4>1
    <3>2. CASE run \in EnumOps
      <4>1. PICK e \in {"DIRECTION", "LEVEL", "EDGE", "POLARITY"} : Passed[run] = <<e, "PORT", "PIN">>
        BY <3>2 DEF Passed, EnumOps
      <4>. QED  BY <1>3, <1>6, <4>1
    <3>3. CASE run \in PinOps
      <4>1. Passed[run] = <<"PORT", "PIN">>
        BY <3>3 DEF Passed, PinOps
      <4>. QED  BY <1>3, <1>6, <4>1
    <3>4. CASE run \in GroupOps
      <4>1. Passed[run] = <<"TIMER">>
        BY <3>4 DEF Passed, GroupOps
      <4>. QED  BY <1>3, <1>6, <4>1
    <3>5. CASE run = "irq_bind"
      <4>1. Passed[run] = <<"EDGE", "PORT", "PIN", "ACTION", "OUT_PORT", "OUT_PIN">>
        BY <3>5 DEF Passed
      <4>. QED  BY <1>3, <1>6, <4>1
    <3>. QED  BY <1>1, <1>6, <3>1, <3>2, <3>3, <3>4, <3>5 DEF Ops
  <2>. QED  BY <1>3, <2>1 DEF Field
<1>. QED  BY <1>4, <1>5, <1>6 DEF run, values

(* What a frame carries between its head and its CRC is its payload.       *)
LEMMA FramePayload ==
    ASSUME NEW opcode \in 0 .. 255, NEW payload, IsOctets(payload), Len(payload) \in 0 .. 255,
           NEW f, f = build_frame(opcode, payload)
    PROVE  SubSeq(f, 4, Len(f) - 2) = payload
<1>. DEFINE n == Len(payload)
<1>1. PICK c \in Seq(0 .. 255) : f = Enclose(c, crc16_compute(c)) /\ Len(c) = 2 + n
  BY FrameEncloses
<1>2. crc16_compute(c) \in Nat
  BY CrcAgrees, NumberBound DEF crc16_compute
<1>3. f \in Seq(0 .. 255) /\ Len(f) = Len(c) + 3
  BY <1>1, <1>2, Enclosed DEF Framed
<1>4. Carries(f, opcode, payload)
  BY FrameCarries DEF IsOctets
<1>5. /\ payload \in Seq(Nat) /\ n \in Nat
      /\ \A i \in 1 .. n : payload[i] \in Nat /\ payload[i] < 256
  BY LenProperties, ElementOfSeq DEF IsOctets
<1>6. \A i \in 1 .. n : f[i + 3] = payload[i] % 256
  BY <1>4 DEF Carries
<1>. HIDE DEF n
<1>7. \A i \in 1 .. n : f[i + 3] = payload[i]
  BY <1>5, <1>6, UncutOctet
<1>8. Len(f) = n + 5 /\ Len(f) - 2 = n + 3
  BY <1>1, <1>3, <1>5
<1>9. \A i \in 4 .. n + 3 : f[i] \in Nat
  <2>. TAKE i \in 4 .. n + 3
  <2>1. i - 3 \in 1 .. n /\ (i - 3) + 3 = i
    BY <1>5
  <2>2. f[(i - 3) + 3] = payload[i - 3] /\ payload[i - 3] \in Nat
    BY <1>5, <1>7, <2>1
  <2>. QED  BY <2>1, <2>2
<1>. DEFINE s == SubSeq(f, 4, n + 3)
<1>10. 4 \in Int /\ n + 3 \in Int
  BY <1>5
<1>11. /\ s \in Seq(Nat) /\ Len(s) = (IF 4 <= n + 3 THEN (n + 3) - 4 + 1 ELSE 0)
       /\ \A i \in 1 .. (n + 3) - 4 + 1 : s[i] = f[4 + i - 1]
  BY <1>9, <1>10, SubSeqProperties
<1>. HIDE DEF s
<1>12. Len(s) = n
  BY <1>5, <1>11
<1>13. \A i \in 1 .. n : s[i] = payload[i]
  <2>. TAKE i \in 1 .. n
  <2>1. i \in 1 .. (n + 3) - 4 + 1 /\ 4 + i - 1 = i + 3
    BY <1>5
  <2>2. s[i] = f[4 + i - 1]
    BY <1>11, <2>1
  <2>. QED  BY <1>7, <2>1, <2>2
<1>14. s = payload
  BY <1>5, <1>11, <1>12, <1>13, SeqEqual, Zenon DEF n
<1>. QED  BY <1>8, <1>14 DEF s

\* No frequency of the command was typed with a minus sign.
NoneWrapped(ws, r) ==
    \A i \in DOMAIN commands[r].values :
        ~(commands[r].values[i] = "FREQUENCY" /\ Negative(ws[i + 2]))

(* Two sequences of one element.                                          *)
LEMMA JoinTwo == ASSUME NEW S, NEW u \in S, NEW v \in S PROVE <<u>> \o <<v>> = <<u, v>>
<1>. DEFINE p == <<u>>
            q == <<v>>
            w == <<u, v>>
<1>1. p \in Seq(S) /\ q \in Seq(S) /\ w \in Seq(S)
  OBVIOUS
<1>2. Len(p) = 1 /\ Len(q) = 1 /\ Len(w) = 2
  OBVIOUS
<1>3. p[1] = u /\ q[1] = v /\ w[1] = u /\ w[2] = v
  OBVIOUS
<1>. HIDE DEF p, q, w
<1>4. p \o q \in Seq(S)
  BY <1>1, ConcatProperties
<1>5. Len(p \o q) = 2
  BY <1>1, <1>2, ConcatProperties
<1>6. (p \o q)[1] = u
  BY <1>1, <1>2, <1>3, ConcatProperties
<1>7. (p \o q)[2] = v
  <2>1. \A i \in 1 .. Len(p) + Len(q) : (p \o q)[i] = IF i <= Len(p) THEN p[i] ELSE q[i - Len(p)]
    BY <1>1, ConcatProperties
  <2>2. 2 \in 1 .. Len(p) + Len(q) /\ ~(2 <= Len(p)) /\ 2 - Len(p) = 1
    BY <1>2
  <2>. QED  BY <1>3, <2>1, <2>2
<1>8. \A i \in 1 .. 2 : (p \o q)[i] = w[i]
  <2>. TAKE i \in 1 .. 2
  <2>1. i = 1 \/ i = 2
    OBVIOUS
  <2>. QED  BY <1>3, <1>6, <1>7, <2>1
<1>9. p \o q = w
  BY <1>1, <1>2, <1>4, <1>5, <1>8, SeqEqual
<1>. QED  BY <1>9 DEF p, q, w

(* Two octets put on a sequence together or one after the other.           *)
LEMMA PutTogether == ASSUME NEW S, NEW s \in Seq(S), NEW u \in S, NEW v \in S PROVE (s \o <<u>>) \o <<v>> = s \o <<u, v>>
<1>1. <<u>> \in Seq(S) /\ <<v>> \in Seq(S)
  OBVIOUS
<1>2. (s \o <<u>>) \o <<v>> = s \o (<<u>> \o <<v>>)
  BY <1>1, ConcatAssociative
<1>. QED  BY <1>2, JoinTwo

(* The payload is what the words stand for, in their order.                *)
LEMMA PayloadTyped ==
    ASSUME NEW ws \in Seq(Word), NEW r \in 1 .. 16, Accepts(ws, r), NoneWrapped(ws, r)
    PROVE  /\ \A i \in DOMAIN commands[r].values : ~Negative(ws[i + 2])
           /\ FlattenSeq([i \in DOMAIN commands[r].values |-> Octets(commands[r].values[i], ws[i + 2])])
                = Payload(commands[r].run, Parsed(r, ws))
<1>. DEFINE run == commands[r].run
            kinds == commands[r].values
            a == Parsed(r, ws)
            n == Len(kinds)
<1>1. /\ run \in Ops /\ Arguments(run, a) /\ Lawful(run, a) /\ Len(ws) = 2 + n
      /\ \A i \in DOMAIN kinds : a[i] # REJECT
  BY DEF Accepts
<1>2. kinds \in Seq(ValueKinds)
  BY TableIsSound DEF GoodRow, SoundRow
<1>3. n \in Nat /\ DOMAIN kinds = 1 .. n /\ \A i \in 1 .. n : kinds[i] \in ValueKinds
  BY <1>2, LenProperties, ElementOfSeq
<1>4. \A i \in 1 .. n : a[i] = parse_value(kinds[i], ws[i + 2])
  BY <1>3 DEF Parsed
<1>5. DOMAIN a = 1 .. n /\ a \in Seq(Nat)
  BY <1>1, <1>3 DEF Parsed, Arguments
<1>6. \A i \in 1 .. n : ~(kinds[i] = "FREQUENCY" /\ Negative(ws[i + 2]))
  BY <1>3 DEF NoneWrapped
<1>0. /\ run = "group_cfg" => kinds = <<"FREQUENCY", "TIMER">>
      /\ run = "channel_set" => kinds = <<"DUTY", "PORT", "PIN">>
      /\ run \notin {"group_cfg", "channel_set"} =>
           \A i \in 1 .. n : kinds[i] \notin {"FREQUENCY", "DUTY"}
  BY <1>3, RowKinds
<1>. DEFINE seqs == [i \in 1 .. n |-> Octets(kinds[i], ws[i + 2])]
<1>. HIDE DEF run, kinds, a, n
<1>7. ASSUME NEW i \in 1 .. n
      PROVE  ~Negative(ws[i + 2]) /\ Octets(kinds[i], ws[i + 2]) = Coded(kinds[i], a[i])
  <2>1. ws[i + 2] \in Word
    <3>1. i + 2 \in 1 .. Len(ws)
      BY <1>1, <1>3
    <3>. QED  BY <3>1, ElementOfSeq
  <2>2. kinds[i] \in ValueKinds /\ a[i] = parse_value(kinds[i], ws[i + 2]) /\ a[i] # REJECT
    BY <1>1, <1>3, <1>4
  <2>3. ~(kinds[i] = "FREQUENCY" /\ Negative(ws[i + 2]))
    BY <1>6
  <2>. QED  BY <2>1, <2>2, <2>3, WordOctets
<1>8. seqs = [i \in 1 .. n |-> Coded(kinds[i], a[i])]
  BY <1>7
<1>9. Len(a) = n
  <2>1. DOMAIN a = 1 .. Len(a) /\ Len(a) \in Nat
    BY <1>5, LenProperties
  <2>. QED  BY <1>3, <1>5, <2>1
<1>10. FlattenSeq(seqs) = Payload(run, a)
  <2>1. CASE run = "group_cfg"
    <3>1. kinds = <<"FREQUENCY", "TIMER">> /\ n = 2
      BY <1>0, <2>1 DEF n
    <3>2. Coded(kinds[1], a[1]) = put_u32_le(a[1]) /\ Coded(kinds[2], a[2]) = <<a[2]>>
      BY <3>1 DEF Coded
    <3>3. seqs = <<Coded(kinds[1], a[1]), Coded(kinds[2], a[2])>>
      BY <1>8, <3>1
    <3>4. FlattenSeq(seqs) = put_u32_le(a[1]) \o <<a[2]>>
      BY <3>2, <3>3, FlattenTwo
    <3>. QED  BY <2>1, <3>4 DEF Payload
  <2>2. CASE run = "channel_set"
    <3>1. kinds = <<"DUTY", "PORT", "PIN">> /\ n = 3
      BY <1>0, <2>2 DEF n
    <3>2. /\ Coded(kinds[1], a[1]) = put_u16_le(a[1]) /\ Coded(kinds[2], a[2]) = <<a[2]>>
          /\ Coded(kinds[3], a[3]) = <<a[3]>>
      BY <3>1 DEF Coded
    <3>3. seqs = <<Coded(kinds[1], a[1]), Coded(kinds[2], a[2]), Coded(kinds[3], a[3])>>
      BY <1>8, <3>1
    <3>4. FlattenSeq(seqs) = (put_u16_le(a[1]) \o <<a[2]>>) \o <<a[3]>>
      <4>. DEFINE x == Coded(kinds[1], a[1])
                  y == Coded(kinds[2], a[2])
                  z == Coded(kinds[3], a[3])
                  both == x \o y
      <4>. HIDE DEF x, y, z, seqs
      <4>1. seqs = <<x, y, z>>
        BY <3>3 DEF x, y, z
      <4>2. x = put_u16_le(a[1]) /\ y = <<a[2]>> /\ z = <<a[3]>>
        BY <3>2 DEF x, y, z
      <4>3. both = x \o y
        OBVIOUS
      <4>4. both = put_u16_le(a[1]) \o <<a[2]>>
        BY <4>2
      <4>. HIDE DEF both
      <4>5. FlattenSeq(seqs) = both \o z
        <5>1. Three(seqs, x, y, z, both)
          BY <4>1, <4>3 DEF Three
        <5>. QED  BY <5>1, FlattenThree
      <4>6. both \o z = (put_u16_le(a[1]) \o <<a[2]>>) \o <<a[3]>>
        BY <4>2, <4>4
      <4>. QED  BY <4>5, <4>6
    <3>5. (put_u16_le(a[1]) \o <<a[2]>>) \o <<a[3]>> = put_u16_le(a[1]) \o <<a[2], a[3]>>
      <4>. DEFINE x == Octet(a[1], 0)
                  y == Octet(a[1], 1)
                  S == {x, y, a[2], a[3]}
      <4>1. put_u16_le(a[1]) = <<x, y>>
        BY DEF put_u16_le
      <4>2. x \in S /\ y \in S /\ a[2] \in S /\ a[3] \in S
        OBVIOUS
      <4>. HIDE DEF x, y, S
      <4>3. <<x, y>> \in Seq(S)
        BY <4>2
      <4>4. (<<x, y>> \o <<a[2]>>) \o <<a[3]>> = <<x, y>> \o <<a[2], a[3]>>
        BY <4>2, <4>3, PutTogether
      <4>. QED  BY <4>1, <4>4
    <3>. QED  BY <2>2, <3>4, <3>5 DEF Payload
  <2>3. CASE run \notin {"group_cfg", "channel_set"}
    <3>1. \A i \in 1 .. n : Coded(kinds[i], a[i]) = <<a[i]>>
      BY <1>0, <2>3 DEF Coded
    <3>2. seqs = [i \in 1 .. n |-> <<a[i]>>]
      BY <1>8, <3>1
    <3>3. FlattenSeq([i \in 1 .. n |-> <<a[i]>>]) = a
      BY <1>3, <1>5, <1>9, FlattenOnes
    <3>4. Payload(run, a) = a
      BY <2>3 DEF Payload
    <3>. QED  BY <3>2, <3>3, <3>4
  <2>. QED  BY <2>1, <2>2, <2>3
<1>11. \A i \in DOMAIN kinds : ~Negative(ws[i + 2])
  BY <1>3, <1>7
<1>12. seqs = [i \in DOMAIN kinds |-> Octets(kinds[i], ws[i + 2])]
  BY <1>3
<1>. QED  BY <1>10, <1>11, <1>12 DEF run, kinds, a

(* The deadline that counts is the one typed last.                         *)
LEMMA DeadlineTyped ==
    ASSUME NEW l, CommandLine(l), NEW ms, Deadline(l, Len(l.argv) + 1, ms)
    PROVE  \/ l.timeout = <<>> /\ ms = 1000
           \/ l.timeout # <<>> /\ (Negative(l.timeout[1]) \/ ms = l.timeout[1].value)
<1>. DEFINE N == Len(l.argv)
<1>1. LineShape(l, N, Len(l.typed))
  BY LineFacts
<1>2. N \in Nat /\ \A k \in 1 .. N : l.argv[k] \in Word
  BY <1>1 DEF LineShape
<1>3. \A k \in Timeouts(l) : k \in 1 .. N /\ k < N
  BY <1>1 DEF Timeouts, LineShape
<1>4. LastTimeout(l) /\ Deadline(l, N + 1, ms)
  BY DEF CommandLine
<1>. HIDE DEF N
<1>5. \A k \in Timeouts(l) : k \in Nat /\ k < N + 1
  BY <1>2, <1>3
<1>6. CASE Timeouts(l) = {}
  BY <1>4, <1>6 DEF LastTimeout, Deadline
<1>7. CASE Timeouts(l) # {}
  <2>1. PICK k \in Timeouts(l) :
            (\A j \in Timeouts(l) : j <= k) /\ l.timeout = <<l.argv[k + 1]>>
    BY <1>4, <1>7 DEF LastTimeout
  <2>2. PICK m \in Timeouts(l) :
            /\ \A j \in Timeouts(l) : j <= m
            /\ ms = parse_timeout(l.argv[m + 1]) /\ ms # REJECT
    BY <1>4, <1>5, <1>7 DEF Deadline
  <2>3. m = k
    BY <1>5, <2>1, <2>2
  <2>. DEFINE w == l.argv[k + 1]
  <2>4. w \in Word
    <3>1. k + 1 \in 1 .. N
      BY <1>2, <1>3
    <3>. QED  BY <1>2, <3>1
  <2>5. ms = parse_timeout(w) /\ ms # REJECT /\ l.timeout = <<w>>
    BY <2>1, <2>2, <2>3
  <2>. HIDE DEF w
  <2>6. Negative(w) \/ ms = w.value
    BY <2>4, <2>5, TimeoutTyped
  <2>7. l.timeout # <<>> /\ l.timeout[1] = w
    BY <2>5
  <2>. QED  BY <2>6, <2>7
<1>. QED  BY <1>6, <1>7

(* What is typed is what is sent: wherever options stand, the payload is   *)
(* what the words of the command stand for, in their order, and the        *)
(* deadline is the one typed last.                                         *)
THEOREM SentAsTyped == Spec => []TypedIsSent
<1>1. GetoptInv => TypedIsSent
  <2>. SUFFICES ASSUME GetoptInv, pc = "sent" PROVE TypedIsSent
    BY DEF TypedIsSent
  <2>. DEFINE ws == line.typed
  <2>1. /\ CommandLine(line)
        /\ words = ws /\ Deadline(line, Len(line.argv) + 1, config.timeout)
        /\ args_parse_mcuco(ws) # NoCall
        /\ frame = Frame(args_parse_mcuco(ws))
    BY CliAssumption DEF GetoptInv
  <2>2. ws \in Seq(Word)
    BY <2>1 DEF CommandLine, Placed
  <2>3. PICK r \in 1 .. 16 : Accepts(ws, r)
    BY <2>1, <2>2, AcceptedCall
  <2>. DEFINE run == commands[r].run
              kinds == commands[r].values
              a == Parsed(r, ws)
              wrapped(i) == kinds[i] = "FREQUENCY" /\ Negative(ws[i + 2])
              octets == [i \in DOMAIN kinds |-> Octets(kinds[i], ws[i + 2])]
  <2>4. /\ r = mcuco_find_command(ws[1], ws[2]) /\ args_parse_mcuco(ws) = <<run, a>>
        /\ run \in Ops /\ Arguments(run, a) /\ Lawful(run, a)
    BY <2>3 DEF Accepts
  <2>5. TypedRow = commands[r]
    BY <2>4 DEF TypedRow
  <2>6. ASSUME ~\E i \in DOMAIN kinds : wrapped(i)
        PROVE  /\ \A i \in DOMAIN kinds : ~Negative(ws[i + 2])
               /\ FlattenSeq(octets) = Payload(run, a)
    <3>1. NoneWrapped(ws, r)
      BY <2>6 DEF NoneWrapped
    <3>. QED  BY <2>2, <2>3, <3>1, PayloadTyped
  <2>7. SubSeq(frame, 4, Len(frame) - 2) = Payload(run, a)
    <3>. DEFINE o == OpcodeOf[run]
                p == Payload(run, a)
    <3>1. frame = build_frame(o, p)
      BY <2>1, <2>4, FrameOf
    <3>2. IsOctets(p) /\ Len(p) \in 0 .. 255 /\ o \in 0 .. 255
      BY <2>4, PayloadOctets, PayloadLength
    <3>. HIDE DEF o, p
    <3>3. SubSeq(frame, 4, Len(frame) - 2) = p
      BY <3>1, <3>2, FramePayload
    <3>. QED  BY <3>3 DEF p
  <2>8. \/ line.timeout = <<>> /\ config.timeout = 1000
        \/ line.timeout # <<>> /\ (\/ Negative(line.timeout[1])
                                  \/ config.timeout = line.timeout[1].value)
    <3>. DEFINE ms == config.timeout
    <3>1. CommandLine(line) /\ Deadline(line, Len(line.argv) + 1, ms)
      BY <2>1
    <3>. HIDE DEF ms, ws, run, kinds, a, octets
    <3>2. \/ line.timeout = <<>> /\ ms = 1000
          \/ line.timeout # <<>> /\ (Negative(line.timeout[1]) \/ ms = line.timeout[1].value)
      BY <3>1, DeadlineTyped
    <3>. QED  BY <3>2 DEF ms
  <2>9. \/ \E i \in DOMAIN kinds : wrapped(i)
        \/ /\ \A i \in DOMAIN kinds : ~Negative(ws[i + 2])
           /\ SubSeq(frame, 4, Len(frame) - 2) = FlattenSeq(octets)
    BY <2>6, <2>7
  <2>. QED  BY <2>5, <2>8, <2>9 DEF TypedIsSent
<1>. QED  BY GetoptInvariance, <1>1, PTL

=============================================================================
