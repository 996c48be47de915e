--------------------------- MODULE DecoderTheorems ---------------------------
(***************************************************************************)
(* The decoder against the instruction formats, for every operand: the     *)
(* bits of numbers, where an assembled word carries them, and what the bit *)
(* slices of the decoder make of them.                                     *)
(***************************************************************************)
EXTENDS DecoderReference, DatapathTheorems

----------------------------------------------------------------------------
(* Positions in slices and shifted words.                                  *)

LEMMA InSlice ==
  ASSUME NEW X \in SUBSET Int, NEW hi \in Int, NEW lo \in Int
  PROVE  \A i : i \in Slice(X, hi, lo) <=> i \in 0 .. hi - lo /\ i + lo \in X
<1> SUFFICES ASSUME NEW i PROVE i \in Slice(X, hi, lo) <=> i \in 0 .. hi - lo /\ i + lo \in X
  OBVIOUS
<1>1. ASSUME i \in Slice(X, hi, lo) PROVE i \in 0 .. hi - lo /\ i + lo \in X
  <2>1. PICK j \in X : lo <= j /\ j <= hi /\ i = j - lo
    BY <1>1 DEF Slice
  <2>2. j = i + lo
    BY <2>1
  <2> QED
    BY <2>1, <2>2
<1>2. ASSUME i \in 0 .. hi - lo, i + lo \in X PROVE i \in Slice(X, hi, lo)
  <2>1. lo <= i + lo /\ i + lo <= hi /\ i = (i + lo) - lo
    BY <1>2
  <2> QED
    BY <1>2, <2>1 DEF Slice
<1> QED
  BY <1>1, <1>2

LEMMA InShift ==
  ASSUME NEW X \in SUBSET Int, NEW n \in Int
  PROVE  \A i \in Int : i \in ShiftLeft(X, n) <=> i - n \in X
<1> SUFFICES ASSUME NEW i \in Int PROVE i \in ShiftLeft(X, n) <=> i - n \in X
  OBVIOUS
<1>1. ASSUME i \in ShiftLeft(X, n) PROVE i - n \in X
  <2>1. PICK j \in X : i = j + n
    BY <1>1 DEF ShiftLeft
  <2>2. j = i - n
    BY <2>1
  <2> QED
    BY <2>1, <2>2
<1>2. ASSUME i - n \in X PROVE i \in ShiftLeft(X, n)
  <2>1. i = (i - n) + n
    OBVIOUS
  <2> QED
    BY <1>2, <2>1 DEF ShiftLeft
<1> QED
  BY <1>1, <1>2

LEMMA ShiftType ==
  ASSUME NEW X \in SUBSET Int, NEW n \in Int
  PROVE  ShiftLeft(X, n) \in SUBSET Int
BY DEF ShiftLeft

----------------------------------------------------------------------------
(* The bits of numbers.                                                    *)

\* Fewer bits are the low ones.
LEMMA FewerBits ==
  ASSUME NEW v \in Int, NEW w \in 0 .. 32
  PROVE  \A i : i \in FromInt(v, w) <=> i \in 0 .. w - 1 /\ i \in FromInt(v, 32)
BY DEF FromInt, Bits

\* The low five bits of a register number are the number.
LEMMA RegisterBits ==
  ASSUME NEW n \in RegIdx
  PROVE  Field(FromInt(n, 5)) = n
BY SMT DEF Field, FromInt, Bits, RegIdx

LEMMA FunctBits ==
  ASSUME NEW n \in 0 .. 7
  PROVE  Field(FromInt(n, 3)) = n
BY SMT DEF Field, FromInt, Bits

\* A bit is the parity of a quotient, or the sign.
LEMMA BitsOfInt ==
  ASSUME NEW v \in Int
  PROVE  /\ 0 \in FromInt(v, 32) <=> (v \div 1) % 2 = 1
         /\ 1 \in FromInt(v, 32) <=> (v \div 2) % 2 = 1
         /\ 2 \in FromInt(v, 32) <=> (v \div 4) % 2 = 1
         /\ 3 \in FromInt(v, 32) <=> (v \div 8) % 2 = 1
         /\ 4 \in FromInt(v, 32) <=> (v \div 16) % 2 = 1
         /\ 5 \in FromInt(v, 32) <=> (v \div 32) % 2 = 1
         /\ 6 \in FromInt(v, 32) <=> (v \div 64) % 2 = 1
         /\ 7 \in FromInt(v, 32) <=> (v \div 128) % 2 = 1
         /\ 8 \in FromInt(v, 32) <=> (v \div 256) % 2 = 1
         /\ 9 \in FromInt(v, 32) <=> (v \div 512) % 2 = 1
         /\ 10 \in FromInt(v, 32) <=> (v \div 1024) % 2 = 1
         /\ 11 \in FromInt(v, 32) <=> (v \div 2048) % 2 = 1
         /\ 12 \in FromInt(v, 32) <=> (v \div 4096) % 2 = 1
         /\ 13 \in FromInt(v, 32) <=> (v \div 8192) % 2 = 1
         /\ 14 \in FromInt(v, 32) <=> (v \div 16384) % 2 = 1
         /\ 15 \in FromInt(v, 32) <=> (v \div 32768) % 2 = 1
         /\ 16 \in FromInt(v, 32) <=> (v \div 65536) % 2 = 1
         /\ 17 \in FromInt(v, 32) <=> (v \div 131072) % 2 = 1
         /\ 18 \in FromInt(v, 32) <=> (v \div 262144) % 2 = 1
         /\ 19 \in FromInt(v, 32) <=> (v \div 524288) % 2 = 1
         /\ 20 \in FromInt(v, 32) <=> (v \div 1048576) % 2 = 1
         /\ 21 \in FromInt(v, 32) <=> (v \div 2097152) % 2 = 1
         /\ 22 \in FromInt(v, 32) <=> (v \div 4194304) % 2 = 1
         /\ 23 \in FromInt(v, 32) <=> (v \div 8388608) % 2 = 1
         /\ 24 \in FromInt(v, 32) <=> (v \div 16777216) % 2 = 1
         /\ 25 \in FromInt(v, 32) <=> (v \div 33554432) % 2 = 1
         /\ 26 \in FromInt(v, 32) <=> (v \div 67108864) % 2 = 1
         /\ 27 \in FromInt(v, 32) <=> (v \div 134217728) % 2 = 1
         /\ 28 \in FromInt(v, 32) <=> (v \div 268435456) % 2 = 1
         /\ 29 \in FromInt(v, 32) <=> (v \div 536870912) % 2 = 1
         /\ 30 \in FromInt(v, 32) <=> v < 0
         /\ 31 \in FromInt(v, 32) <=> v < 0
BY SMT DEF FromInt, Bits

\* A number of k bits and a sign has the sign as its bits from k on.
LEMMA QuotientSign ==
  ASSUME NEW d \in Nat \ {0}, NEW v \in Int, - d <= v, v < d
  PROVE  (v \div d) % 2 = 1 <=> v < 0
<1>1. CASE v >= 0
  <2>1. v \div d = 0
    BY <1>1
  <2> QED
    BY <1>1, <2>1
<1>2. CASE v < 0
  <2>1. v \div d = -1
    BY <1>2
  <2> QED
    BY <1>2, <2>1
<1> QED
  BY <1>1, <1>2

\* v fits into the bits below i and the sign.
Below(v, i) ==
  \/ i >= 11 /\ -2048 <= v /\ v < 2048
  \/ i >= 12 /\ -4096 <= v /\ v < 4096
  \/ i >= 19 /\ -524288 <= v /\ v < 524288

\* The bits above a number repeat its sign.
LEMMA SignBits ==
  ASSUME NEW v \in Int
  PROVE  \A i \in 11 .. 31 : Below(v, i) => (i \in FromInt(v, 32) <=> v < 0)
<1> DEFINE Odd(d) == (v \div d) % 2 = 1
           SignAt(d)   == - d <= v /\ v < d => (Odd(d) <=> v < 0)
           T(i)   == Below(v, i) => (i \in FromInt(v, 32) <=> v < 0)
<1>1. \A d \in Nat \ {0} : SignAt(d)
  BY QuotientSign
<1>2. /\ 11 \in FromInt(v, 32) <=> Odd(2048)
      /\ 12 \in FromInt(v, 32) <=> Odd(4096)
      /\ 13 \in FromInt(v, 32) <=> Odd(8192)
      /\ 14 \in FromInt(v, 32) <=> Odd(16384)
      /\ 15 \in FromInt(v, 32) <=> Odd(32768)
      /\ 16 \in FromInt(v, 32) <=> Odd(65536)
      /\ 17 \in FromInt(v, 32) <=> Odd(131072)
      /\ 18 \in FromInt(v, 32) <=> Odd(262144)
      /\ 19 \in FromInt(v, 32) <=> Odd(524288)
      /\ 20 \in FromInt(v, 32) <=> Odd(1048576)
      /\ 21 \in FromInt(v, 32) <=> Odd(2097152)
      /\ 22 \in FromInt(v, 32) <=> Odd(4194304)
      /\ 23 \in FromInt(v, 32) <=> Odd(8388608)
      /\ 24 \in FromInt(v, 32) <=> Odd(16777216)
      /\ 25 \in FromInt(v, 32) <=> Odd(33554432)
      /\ 26 \in FromInt(v, 32) <=> Odd(67108864)
      /\ 27 \in FromInt(v, 32) <=> Odd(134217728)
      /\ 28 \in FromInt(v, 32) <=> Odd(268435456)
      /\ 29 \in FromInt(v, 32) <=> Odd(536870912)
      /\ 30 \in FromInt(v, 32) <=> v < 0
      /\ 31 \in FromInt(v, 32) <=> v < 0
  BY BitsOfInt, SMT
<1> HIDE DEF Odd, SignAt
<1>3. /\ SignAt(2048)
      /\ SignAt(4096)
      /\ SignAt(8192)
      /\ SignAt(16384)
      /\ SignAt(32768)
      /\ SignAt(65536)
      /\ SignAt(131072)
      /\ SignAt(262144)
      /\ SignAt(524288)
      /\ SignAt(1048576)
      /\ SignAt(2097152)
      /\ SignAt(4194304)
      /\ SignAt(8388608)
      /\ SignAt(16777216)
      /\ SignAt(33554432)
      /\ SignAt(67108864)
      /\ SignAt(134217728)
      /\ SignAt(268435456)
      /\ SignAt(536870912)
  BY <1>1, SMT
<1>4. /\ T(11)
      /\ T(12)
      /\ T(13)
      /\ T(14)
      /\ T(15)
      /\ T(16)
      /\ T(17)
      /\ T(18)
      /\ T(19)
      /\ T(20)
      /\ T(21)
      /\ T(22)
      /\ T(23)
      /\ T(24)
      /\ T(25)
      /\ T(26)
      /\ T(27)
      /\ T(28)
      /\ T(29)
      /\ T(30)
      /\ T(31)
  BY <1>2, <1>3, SMT DEF SignAt, Below
<1> HIDE DEF T
<1>5. \A i \in 11 .. 31 : T(i)
  BY <1>4, SMT
<1> QED
  BY <1>5 DEF T

\* Twelve places up.
LEMMA ScaledBits ==
  ASSUME NEW v \in Int
  PROVE  /\ 0 \notin FromInt(4096 * v, 32)
         /\ 1 \notin FromInt(4096 * v, 32)
         /\ 2 \notin FromInt(4096 * v, 32)
         /\ 3 \notin FromInt(4096 * v, 32)
         /\ 4 \notin FromInt(4096 * v, 32)
         /\ 5 \notin FromInt(4096 * v, 32)
         /\ 6 \notin FromInt(4096 * v, 32)
         /\ 7 \notin FromInt(4096 * v, 32)
         /\ 8 \notin FromInt(4096 * v, 32)
         /\ 9 \notin FromInt(4096 * v, 32)
         /\ 10 \notin FromInt(4096 * v, 32)
         /\ 11 \notin FromInt(4096 * v, 32)
         /\ 12 \in FromInt(4096 * v, 32) <=> 0 \in FromInt(v, 32)
         /\ 13 \in FromInt(4096 * v, 32) <=> 1 \in FromInt(v, 32)
         /\ 14 \in FromInt(4096 * v, 32) <=> 2 \in FromInt(v, 32)
         /\ 15 \in FromInt(4096 * v, 32) <=> 3 \in FromInt(v, 32)
         /\ 16 \in FromInt(4096 * v, 32) <=> 4 \in FromInt(v, 32)
         /\ 17 \in FromInt(4096 * v, 32) <=> 5 \in FromInt(v, 32)
         /\ 18 \in FromInt(4096 * v, 32) <=> 6 \in FromInt(v, 32)
         /\ 19 \in FromInt(4096 * v, 32) <=> 7 \in FromInt(v, 32)
         /\ 20 \in FromInt(4096 * v, 32) <=> 8 \in FromInt(v, 32)
         /\ 21 \in FromInt(4096 * v, 32) <=> 9 \in FromInt(v, 32)
         /\ 22 \in FromInt(4096 * v, 32) <=> 10 \in FromInt(v, 32)
         /\ 23 \in FromInt(4096 * v, 32) <=> 11 \in FromInt(v, 32)
         /\ 24 \in FromInt(4096 * v, 32) <=> 12 \in FromInt(v, 32)
         /\ 25 \in FromInt(4096 * v, 32) <=> 13 \in FromInt(v, 32)
         /\ 26 \in FromInt(4096 * v, 32) <=> 14 \in FromInt(v, 32)
         /\ 27 \in FromInt(4096 * v, 32) <=> 15 \in FromInt(v, 32)
         /\ 28 \in FromInt(4096 * v, 32) <=> 16 \in FromInt(v, 32)
         /\ 29 \in FromInt(4096 * v, 32) <=> 17 \in FromInt(v, 32)
<1>1. 4096 * v \in Int
  OBVIOUS
<1> QED
  BY <1>1, BitsOfInt, SMT

----------------------------------------------------------------------------
(* Assembled words: which bits of which number a part of them carries.     *)

\* Bits lo .. hi of the word w are the bits of v from bit "from" on.
Carries(w, lo, hi, v, from) == \A i \in lo .. hi : i \in w <=> i - lo + from \in FromInt(v, 32)

\* Of the bits of x, those from pos on are the bits hi .. lo of v, and there are no others.
Holds(x, v, hi, lo, pos) ==
  /\ x \in SUBSET Int
  /\ \A i \in Int : i \in x <=> i \in pos .. pos + hi - lo /\ i - pos + lo \in FromInt(v, 32)

LEMMA PlaceHolds ==
  ASSUME NEW v \in Int, NEW n \in 0 .. 32, NEW pos \in Nat
  PROVE  Holds(Place(v, n, pos), v, n - 1, 0, pos)
<1>1. FromInt(v, n) \in SUBSET Int
  BY DEF FromInt, Bits
<1>2. Place(v, n, pos) \in SUBSET Int
  BY <1>1, ShiftType DEF Place
<1>3. ASSUME NEW i \in Int
      PROVE  i \in Place(v, n, pos) <=> i - pos \in 0 .. n - 1 /\ i - pos \in FromInt(v, 32)
  <2>1. i \in ShiftLeft(FromInt(v, n), pos) <=> i - pos \in FromInt(v, n)
    BY <1>1, InShift
  <2> QED
    BY <2>1, FewerBits DEF Place
<1> QED
  BY <1>2, <1>3 DEF Holds

LEMMA PartHolds ==
  ASSUME NEW v \in Int, NEW hi \in 0 .. 31, NEW lo \in 0 .. 31, NEW pos \in Nat
  PROVE  Holds(Part(v, hi, lo, pos), v, hi, lo, pos)
<1>1. FromInt(v, 32) \in SUBSET Int
  BY DEF FromInt, Bits
<1>2. /\ Slice(FromInt(v, 32), hi, lo) \in SUBSET Int
      /\ \A i : i \in Slice(FromInt(v, 32), hi, lo) <=>
               i \in 0 .. hi - lo /\ i + lo \in FromInt(v, 32)
  BY <1>1, InSlice
<1>3. Part(v, hi, lo, pos) \in SUBSET Int
  BY <1>2, ShiftType DEF Part
<1>4. ASSUME NEW i \in Int
      PROVE  i \in Part(v, hi, lo, pos) <=>
               i - pos \in 0 .. hi - lo /\ (i - pos) + lo \in FromInt(v, 32)
  BY <1>2, InShift DEF Part
<1> QED
  BY <1>3, <1>4 DEF Holds

\* Parts that lie above the opcode leave it as it is.
LEMMA OpcodeSlice ==
  ASSUME NEW opc \in SUBSET (0 .. 6), NEW high \in SUBSET Int, \A i \in high : 7 <= i
  PROVE  Slice(opc \cup high, 6, 0) = opc /\ opc \cup high \in SUBSET Int
<1>1. opc \cup high \in SUBSET Int
  OBVIOUS
<1>2. \A i : i \in Slice(opc \cup high, 6, 0) <=> i \in 0 .. 6 - 0 /\ i + 0 \in opc \cup high
  BY <1>1, InSlice
<1>3. \A i \in Slice(opc \cup high, 6, 0) : i \in opc
  BY <1>2
<1>4. \A i \in opc : i \in Slice(opc \cup high, 6, 0)
  BY <1>2
<1> QED
  BY <1>1, <1>3, <1>4

\* An instruction of each format carries its operands where the format says.
LEMMA FormatI ==
  ASSUME NEW opc \in SUBSET (0 .. 6), NEW n \in Int, NEW a \in Int, NEW f \in Int, NEW d \in Int
  PROVE  LET w == I(opc, n, a, f, d)
         IN  /\ w \in SUBSET Int /\ Slice(w, 6, 0) = opc
             /\ Carries(w, 7, 11, d, 0)
             /\ Carries(w, 12, 14, f, 0)
             /\ Carries(w, 15, 19, a, 0)
             /\ Carries(w, 20, 31, n, 0)
<1> DEFINE w    == I(opc, n, a, f, d)
           p1   == Place(d, 5, 7)
           p2   == Place(f, 3, 12)
           p3   == Place(a, 5, 15)
           p4   == Place(n, 12, 20)
           high == p1 \cup p2 \cup p3 \cup p4
<1>1. w = opc \cup high
  BY DEF I
<1>2. /\ Holds(p1, d, 4, 0, 7)
      /\ Holds(p2, f, 2, 0, 12)
      /\ Holds(p3, a, 4, 0, 15)
      /\ Holds(p4, n, 11, 0, 20)
  <2>1. Holds(p1, d, 4, 0, 7)
    BY PlaceHolds
  <2>2. Holds(p2, f, 2, 0, 12)
    BY PlaceHolds
  <2>3. Holds(p3, a, 4, 0, 15)
    BY PlaceHolds
  <2>4. Holds(p4, n, 11, 0, 20)
    BY PlaceHolds
  <2> QED
    BY <2>1, <2>2, <2>3, <2>4
<1> HIDE DEF p1, p2, p3, p4, w
<1>3. high \in SUBSET Int /\ \A i \in high : 7 <= i
  BY <1>2 DEF Holds
<1>4. Slice(w, 6, 0) = opc /\ w \in SUBSET Int
  <2> HIDE DEF high
  <2> QED
    BY <1>1, <1>3, OpcodeSlice
<1>5. Carries(w, 7, 11, d, 0)
  BY <1>1, <1>2, SMT DEF Carries, Holds
<1>6. Carries(w, 12, 14, f, 0)
  BY <1>1, <1>2, SMT DEF Carries, Holds
<1>7. Carries(w, 15, 19, a, 0)
  BY <1>1, <1>2, SMT DEF Carries, Holds
<1>8. Carries(w, 20, 31, n, 0)
  BY <1>1, <1>2, SMT DEF Carries, Holds
<1> QED
  BY <1>4, <1>5, <1>6, <1>7, <1>8 DEF w

LEMMA FormatR ==
  ASSUME NEW opc \in SUBSET (0 .. 6), NEW g \in Int, NEW b \in Int, NEW a \in Int,
         NEW f \in Int, NEW d \in Int
  PROVE  LET w == R(opc, g, b, a, f, d)
         IN  /\ w \in SUBSET Int /\ Slice(w, 6, 0) = opc
             /\ Carries(w, 7, 11, d, 0)
             /\ Carries(w, 12, 14, f, 0)
             /\ Carries(w, 15, 19, a, 0)
             /\ Carries(w, 20, 24, b, 0)
             /\ Carries(w, 25, 31, g, 0)
<1> DEFINE w    == R(opc, g, b, a, f, d)
           p1   == Place(d, 5, 7)
           p2   == Place(f, 3, 12)
           p3   == Place(a, 5, 15)
           p4   == Place(b, 5, 20)
           p5   == Place(g, 7, 25)
           high == p1 \cup p2 \cup p3 \cup p4 \cup p5
<1>1. w = opc \cup high
  BY DEF R
<1>2. /\ Holds(p1, d, 4, 0, 7)
      /\ Holds(p2, f, 2, 0, 12)
      /\ Holds(p3, a, 4, 0, 15)
      /\ Holds(p4, b, 4, 0, 20)
      /\ Holds(p5, g, 6, 0, 25)
  <2>1. Holds(p1, d, 4, 0, 7)
    BY PlaceHolds
  <2>2. Holds(p2, f, 2, 0, 12)
    BY PlaceHolds
  <2>3. Holds(p3, a, 4, 0, 15)
    BY PlaceHolds
  <2>4. Holds(p4, b, 4, 0, 20)
    BY PlaceHolds
  <2>5. Holds(p5, g, 6, 0, 25)
    BY PlaceHolds
  <2> QED
    BY <2>1, <2>2, <2>3, <2>4, <2>5
<1> HIDE DEF p1, p2, p3, p4, p5, w
<1>3. high \in SUBSET Int /\ \A i \in high : 7 <= i
  BY <1>2 DEF Holds
<1>4. Slice(w, 6, 0) = opc /\ w \in SUBSET Int
  <2> HIDE DEF high
  <2> QED
    BY <1>1, <1>3, OpcodeSlice
<1>5. Carries(w, 7, 11, d, 0)
  BY <1>1, <1>2, SMT DEF Carries, Holds
<1>6. Carries(w, 12, 14, f, 0)
  BY <1>1, <1>2, SMT DEF Carries, Holds
<1>7. Carries(w, 15, 19, a, 0)
  BY <1>1, <1>2, SMT DEF Carries, Holds
<1>8. Carries(w, 20, 24, b, 0)
  BY <1>1, <1>2, SMT DEF Carries, Holds
<1>9. Carries(w, 25, 31, g, 0)
  BY <1>1, <1>2, SMT DEF Carries, Holds
<1> QED
  BY <1>4, <1>5, <1>6, <1>7, <1>8, <1>9 DEF w

LEMMA FormatS ==
  ASSUME NEW opc \in SUBSET (0 .. 6), NEW n \in Int, NEW b \in Int, NEW a \in Int, NEW f \in Int
  PROVE  LET w == S(opc, n, b, a, f)
         IN  /\ w \in SUBSET Int /\ Slice(w, 6, 0) = opc
             /\ Carries(w, 7, 11, n, 0)
             /\ Carries(w, 12, 14, f, 0)
             /\ Carries(w, 15, 19, a, 0)
             /\ Carries(w, 20, 24, b, 0)
             /\ Carries(w, 25, 31, n, 5)
<1> DEFINE w    == S(opc, n, b, a, f)
           p1   == Part(n, 4, 0, 7)
           p2   == Place(f, 3, 12)
           p3   == Place(a, 5, 15)
           p4   == Place(b, 5, 20)
           p5   == Part(n, 11, 5, 25)
           high == p1 \cup p2 \cup p3 \cup p4 \cup p5
<1>1. w = opc \cup high
  BY DEF S
<1>2. /\ Holds(p1, n, 4, 0, 7)
      /\ Holds(p2, f, 2, 0, 12)
      /\ Holds(p3, a, 4, 0, 15)
      /\ Holds(p4, b, 4, 0, 20)
      /\ Holds(p5, n, 11, 5, 25)
  <2>1. Holds(p1, n, 4, 0, 7)
    BY PartHolds
  <2>2. Holds(p2, f, 2, 0, 12)
    BY PlaceHolds
  <2>3. Holds(p3, a, 4, 0, 15)
    BY PlaceHolds
  <2>4. Holds(p4, b, 4, 0, 20)
    BY PlaceHolds
  <2>5. Holds(p5, n, 11, 5, 25)
    BY PartHolds
  <2> QED
    BY <2>1, <2>2, <2>3, <2>4, <2>5
<1> HIDE DEF p1, p2, p3, p4, p5, w
<1>3. high \in SUBSET Int /\ \A i \in high : 7 <= i
  BY <1>2 DEF Holds
<1>4. Slice(w, 6, 0) = opc /\ w \in SUBSET Int
  <2> HIDE DEF high
  <2> QED
    BY <1>1, <1>3, OpcodeSlice
<1>5. Carries(w, 7, 11, n, 0)
  BY <1>1, <1>2, SMT DEF Carries, Holds
<1>6. Carries(w, 12, 14, f, 0)
  BY <1>1, <1>2, SMT DEF Carries, Holds
<1>7. Carries(w, 15, 19, a, 0)
  BY <1>1, <1>2, SMT DEF Carries, Holds
<1>8. Carries(w, 20, 24, b, 0)
  BY <1>1, <1>2, SMT DEF Carries, Holds
<1>9. Carries(w, 25, 31, n, 5)
  BY <1>1, <1>2, SMT DEF Carries, Holds
<1> QED
  BY <1>4, <1>5, <1>6, <1>7, <1>8, <1>9 DEF w

LEMMA FormatB ==
  ASSUME NEW opc \in SUBSET (0 .. 6), NEW n \in Int, NEW b \in Int, NEW a \in Int, NEW f \in Int
  PROVE  LET w == B(opc, n, b, a, f)
         IN  /\ w \in SUBSET Int /\ Slice(w, 6, 0) = opc
             /\ Carries(w, 7, 7, n, 11)
             /\ Carries(w, 8, 11, n, 1)
             /\ Carries(w, 12, 14, f, 0)
             /\ Carries(w, 15, 19, a, 0)
             /\ Carries(w, 20, 24, b, 0)
             /\ Carries(w, 25, 30, n, 5)
             /\ Carries(w, 31, 31, n, 12)
<1> DEFINE w    == B(opc, n, b, a, f)
           p1   == Part(n, 11, 11, 7)
           p2   == Part(n, 4, 1, 8)
           p3   == Place(f, 3, 12)
           p4   == Place(a, 5, 15)
           p5   == Place(b, 5, 20)
           p6   == Part(n, 10, 5, 25)
           p7   == Part(n, 12, 12, 31)
           high == p1 \cup p2 \cup p3 \cup p4 \cup p5 \cup p6 \cup p7
<1>1. w = opc \cup high
  BY DEF B
<1>2. /\ Holds(p1, n, 11, 11, 7)
      /\ Holds(p2, n, 4, 1, 8)
      /\ Holds(p3, f, 2, 0, 12)
      /\ Holds(p4, a, 4, 0, 15)
      /\ Holds(p5, b, 4, 0, 20)
      /\ Holds(p6, n, 10, 5, 25)
      /\ Holds(p7, n, 12, 12, 31)
  <2>1. Holds(p1, n, 11, 11, 7)
    BY PartHolds
  <2>2. Holds(p2, n, 4, 1, 8)
    BY PartHolds
  <2>3. Holds(p3, f, 2, 0, 12)
    BY PlaceHolds
  <2>4. Holds(p4, a, 4, 0, 15)
    BY PlaceHolds
  <2>5. Holds(p5, b, 4, 0, 20)
    BY PlaceHolds
  <2>6. Holds(p6, n, 10, 5, 25)
    BY PartHolds
  <2>7. Holds(p7, n, 12, 12, 31)
    BY PartHolds
  <2> QED
    BY <2>1, <2>2, <2>3, <2>4, <2>5, <2>6, <2>7
<1> HIDE DEF p1, p2, p3, p4, p5, p6, p7, w
<1>3. high \in SUBSET Int /\ \A i \in high : 7 <= i
  BY <1>2 DEF Holds
<1>4. Slice(w, 6, 0) = opc /\ w \in SUBSET Int
  <2> HIDE DEF high
  <2> QED
    BY <1>1, <1>3, OpcodeSlice
<1>5. Carries(w, 7, 7, n, 11)
  BY <1>1, <1>2, SMT DEF Carries, Holds
<1>6. Carries(w, 8, 11, n, 1)
  BY <1>1, <1>2, SMT DEF Carries, Holds
<1>7. Carries(w, 12, 14, f, 0)
  BY <1>1, <1>2, SMT DEF Carries, Holds
<1>8. Carries(w, 15, 19, a, 0)
  BY <1>1, <1>2, SMT DEF Carries, Holds
<1>9. Carries(w, 20, 24, b, 0)
  BY <1>1, <1>2, SMT DEF Carries, Holds
<1>10. Carries(w, 25, 30, n, 5)
  BY <1>1, <1>2, SMT DEF Carries, Holds
<1>11. Carries(w, 31, 31, n, 12)
  BY <1>1, <1>2, SMT DEF Carries, Holds
<1> QED
  BY <1>4, <1>5, <1>6, <1>7, <1>8, <1>9, <1>10, <1>11 DEF w

LEMMA FormatU ==
  ASSUME NEW opc \in SUBSET (0 .. 6), NEW n \in Int, NEW d \in Int
  PROVE  LET w == U(opc, n, d)
         IN  /\ w \in SUBSET Int /\ Slice(w, 6, 0) = opc
             /\ Carries(w, 7, 11, d, 0)
             /\ Carries(w, 12, 31, n, 0)
<1> DEFINE w    == U(opc, n, d)
           p1   == Place(d, 5, 7)
           p2   == Place(n, 20, 12)
           high == p1 \cup p2
<1>1. w = opc \cup high
  BY DEF U
<1>2. /\ Holds(p1, d, 4, 0, 7)
      /\ Holds(p2, n, 19, 0, 12)
  <2>1. Holds(p1, d, 4, 0, 7)
    BY PlaceHolds
  <2>2. Holds(p2, n, 19, 0, 12)
    BY PlaceHolds
  <2> QED
    BY <2>1, <2>2
<1> HIDE DEF p1, p2, w
<1>3. high \in SUBSET Int /\ \A i \in high : 7 <= i
  BY <1>2 DEF Holds
<1>4. Slice(w, 6, 0) = opc /\ w \in SUBSET Int
  <2> HIDE DEF high
  <2> QED
    BY <1>1, <1>3, OpcodeSlice
<1>5. Carries(w, 7, 11, d, 0)
  BY <1>1, <1>2, SMT DEF Carries, Holds
<1>6. Carries(w, 12, 31, n, 0)
  BY <1>1, <1>2, SMT DEF Carries, Holds
<1> QED
  BY <1>4, <1>5, <1>6 DEF w

LEMMA FormatJ ==
  ASSUME NEW opc \in SUBSET (0 .. 6), NEW n \in Int, NEW d \in Int
  PROVE  LET w == J(opc, n, d)
         IN  /\ w \in SUBSET Int /\ Slice(w, 6, 0) = opc
             /\ Carries(w, 7, 11, d, 0)
             /\ Carries(w, 12, 19, n, 12)
             /\ Carries(w, 20, 20, n, 11)
             /\ Carries(w, 21, 30, n, 1)
             /\ Carries(w, 31, 31, n, 20)
<1> DEFINE w    == J(opc, n, d)
           p1   == Place(d, 5, 7)
           p2   == Part(n, 19, 12, 12)
           p3   == Part(n, 11, 11, 20)
           p4   == Part(n, 10, 1, 21)
           p5   == Part(n, 20, 20, 31)
           high == p1 \cup p2 \cup p3 \cup p4 \cup p5
<1>1. w = opc \cup high
  BY DEF J
<1>2. /\ Holds(p1, d, 4, 0, 7)
      /\ Holds(p2, n, 19, 12, 12)
      /\ Holds(p3, n, 11, 11, 20)
      /\ Holds(p4, n, 10, 1, 21)
      /\ Holds(p5, n, 20, 20, 31)
  <2>1. Holds(p1, d, 4, 0, 7)
    BY PlaceHolds
  <2>2. Holds(p2, n, 19, 12, 12)
    BY PartHolds
  <2>3. Holds(p3, n, 11, 11, 20)
    BY PartHolds
  <2>4. Holds(p4, n, 10, 1, 21)
    BY PartHolds
  <2>5. Holds(p5, n, 20, 20, 31)
    BY PartHolds
  <2> QED
    BY <2>1, <2>2, <2>3, <2>4, <2>5
<1> HIDE DEF p1, p2, p3, p4, p5, w
<1>3. high \in SUBSET Int /\ \A i \in high : 7 <= i
  BY <1>2 DEF Holds
<1>4. Slice(w, 6, 0) = opc /\ w \in SUBSET Int
  <2> HIDE DEF high
  <2> QED
    BY <1>1, <1>3, OpcodeSlice
<1>5. Carries(w, 7, 11, d, 0)
  BY <1>1, <1>2, SMT DEF Carries, Holds
<1>6. Carries(w, 12, 19, n, 12)
  BY <1>1, <1>2, SMT DEF Carries, Holds
<1>7. Carries(w, 20, 20, n, 11)
  BY <1>1, <1>2, SMT DEF Carries, Holds
<1>8. Carries(w, 21, 30, n, 1)
  BY <1>1, <1>2, SMT DEF Carries, Holds
<1>9. Carries(w, 31, 31, n, 20)
  BY <1>1, <1>2, SMT DEF Carries, Holds
<1> QED
  BY <1>4, <1>5, <1>6, <1>7, <1>8, <1>9 DEF w

----------------------------------------------------------------------------
(* Decoding what carries the operands gives the operands.                  *)

\* Register numbers and function codes.
LEMMA RegisterDecodes ==
  ASSUME NEW w \in SUBSET Int, NEW n \in RegIdx, NEW lo \in Nat, Carries(w, lo, lo + 4, n, 0)
  PROVE  Field(Slice(w, lo + 4, lo)) = n
<1>1. ASSUME NEW j \in 0 .. 4 PROVE j \in Slice(w, lo + 4, lo) <=> j \in FromInt(n, 5)
  <2>1. j \in Slice(w, lo + 4, lo) <=> j + lo \in w
    BY InSlice
  <2>2. j + lo \in w <=> (j + lo) - lo + 0 \in FromInt(n, 32)
    BY DEF Carries
  <2>3. (j + lo) - lo + 0 = j
    OBVIOUS
  <2>4. j \in FromInt(n, 5) <=> j \in FromInt(n, 32)
    BY FewerBits DEF RegIdx
  <2> QED
    BY <2>1, <2>2, <2>3, <2>4
<1>2. Field(Slice(w, lo + 4, lo)) = Field(FromInt(n, 5))
  BY <1>1 DEF Field
<1> QED
  BY <1>2, RegisterBits

LEMMA FunctDecodes ==
  ASSUME NEW w \in SUBSET Int, NEW n \in 0 .. 7, Carries(w, 12, 14, n, 0)
  PROVE  Field(Slice(w, 14, 12)) = n
<1>1. ASSUME NEW j \in 0 .. 4 PROVE j \in Slice(w, 14, 12) <=> j \in FromInt(n, 3)
  <2>1. j \in Slice(w, 14, 12) <=> j \in 0 .. 2 /\ j + 12 \in w
    BY InSlice
  <2>2. j \in 0 .. 2 => (j + 12 \in w <=> j \in FromInt(n, 32))
    BY DEF Carries
  <2>3. j \in FromInt(n, 3) <=> j \in 0 .. 2 /\ j \in FromInt(n, 32)
    BY FewerBits
  <2> QED
    BY <2>1, <2>2, <2>3
<1>2. Field(Slice(w, 14, 12)) = Field(FromInt(n, 3))
  BY <1>1 DEF Field
<1> QED
  BY <1>2, FunctBits

\* The register numbers and the function code of a word that carries them.
LEMMA OperandsDecode ==
  ASSUME NEW w \in SUBSET Int, NEW n \in RegIdx, NEW f \in 0 .. 7
  PROVE  /\ Carries(w, 7, 11, n, 0) => Decode(w).rd = n
         /\ Carries(w, 15, 19, n, 0) => Decode(w).rs1 = n
         /\ Carries(w, 20, 24, n, 0) => Decode(w).rs2 = n
         /\ Carries(w, 12, 14, f, 0) => Decode(w).funct3 = f
<1>1. \A lo, hi \in Nat : hi = lo + 4 /\ Carries(w, lo, hi, n, 0) => Field(Slice(w, hi, lo)) = n
  BY RegisterDecodes
<1>2. Carries(w, 7, 11, n, 0) => Field(Slice(w, 11, 7)) = n
  BY <1>1
<1>3. Carries(w, 15, 19, n, 0) => Field(Slice(w, 19, 15)) = n
  BY <1>1
<1>4. Carries(w, 20, 24, n, 0) => Field(Slice(w, 24, 20)) = n
  BY <1>1
<1>5. Carries(w, 12, 14, f, 0) => Field(Slice(w, 14, 12)) = f
  BY FunctDecodes
<1> QED
  BY <1>2, <1>3, <1>4, <1>5 DEF Decode

\* An immediate is right when its bits are.
LEMMA BitsDecode ==
  ASSUME NEW v \in Int, NEW x \in SUBSET Int,
         \A i \in Int : i \in x => i \in 0 .. 31,
         \A i \in 0 .. 31 : i \in x <=> i \in FromInt(v, 32)
  PROVE  Truncate(x, XLEN) = FromInt(v, XLEN)
<1>1. XLEN \in 0 .. 32
  BY Widths
<1>2. \A i : i \in FromInt(v, XLEN) <=> i \in 0 .. XLEN - 1 /\ i \in FromInt(v, 32)
  BY <1>1, FewerBits
<1>3. \A i : i \in Truncate(x, XLEN) <=> i \in x /\ i < XLEN
  BY DEF Truncate
<1>4. ASSUME NEW i \in Truncate(x, XLEN) PROVE i \in FromInt(v, XLEN)
  <2>1. i \in x /\ i \in Int /\ i < XLEN
    BY <1>3
  <2>2. i \in 0 .. 31
    BY <2>1
  <2>3. i \in 0 .. XLEN - 1
    BY <1>1, <2>1, <2>2
  <2> QED
    BY <1>2, <2>1, <2>2, <2>3
<1>5. \A i \in FromInt(v, XLEN) : i \in Truncate(x, XLEN)
  BY <1>1, <1>2, <1>3
<1> QED
  BY <1>4, <1>5

\* A slice moved to another place.
LEMMA SlicePlaced ==
  ASSUME NEW w \in SUBSET Int, NEW hi \in Int, NEW lo \in Int, NEW n \in Int
  PROVE  /\ ShiftLeft(Slice(w, hi, lo), n) \in SUBSET Int
         /\ \A i \in Int : i \in ShiftLeft(Slice(w, hi, lo), n) <=>
              i \in n .. hi - lo + n /\ i + (lo - n) \in w
<1>1. /\ Slice(w, hi, lo) \in SUBSET Int
      /\ \A i : i \in Slice(w, hi, lo) <=> i \in 0 .. hi - lo /\ i + lo \in w
  BY InSlice
<1>2. ASSUME NEW i \in Int
      PROVE  i \in ShiftLeft(Slice(w, hi, lo), n) <=>
               i - n \in 0 .. hi - lo /\ (i - n) + lo \in w
  BY <1>1, InShift
<1>3. ShiftLeft(Slice(w, hi, lo), n) \in SUBSET Int
  BY <1>1, ShiftType
<1>4. ASSUME NEW i \in Int
      PROVE  /\ (i - n) + lo = i + (lo - n)
             /\ i - n \in 0 .. hi - lo <=> i \in n .. hi - lo + n
  OBVIOUS
<1> QED
  BY <1>2, <1>3, <1>4

\* The immediate of each format, from words that carry a number that fits.
LEMMA ImmIDecodes ==
  ASSUME NEW w \in SUBSET Int, NEW v \in Int, Below(v, 11),
         Carries(w, 20, 31, v, 0)
  PROVE  Decode(w).immI = FromInt(v, XLEN)
<1> DEFINE p1 == Slice(w, 31, 20)
           s  == FillFrom(31 \in w, 12, 32)
           x  == p1 \cup s
<1>1. p1 \in SUBSET Int /\ \A i \in Int : i \in p1 <=> i \in 0 .. 11 /\ i + 20 \in w
  BY InSlice DEF Slice
<1>2. s \in SUBSET Int /\ \A i \in Int : i \in s <=> i \in 12 .. 31 /\ 31 \in w
  BY DEF FillFrom
<1> HIDE DEF p1, s
<1>3. x \in SUBSET Int /\ \A i \in Int : i \in x => i \in 0 .. 31
  BY <1>1, <1>2
<1>4. \A i \in 11 .. 31 : i \in FromInt(v, 32) <=> 11 \in FromInt(v, 32)
  BY SignBits DEF Below
<1>5. \A i \in 0 .. 31 : i \in x <=> i \in FromInt(v, 32)
  BY <1>1, <1>2, <1>4, SMT DEF Carries
<1> HIDE DEF x
<1>6. Truncate(x, XLEN) = FromInt(v, XLEN)
  BY <1>3, <1>5, BitsDecode
<1> QED
  BY <1>6 DEF x, ImmI, Decode, p1, s

LEMMA ImmSDecodes ==
  ASSUME NEW w \in SUBSET Int, NEW v \in Int, Below(v, 11),
         Carries(w, 7, 11, v, 0), Carries(w, 25, 31, v, 5)
  PROVE  Decode(w).immS = FromInt(v, XLEN)
<1> DEFINE p1 == Slice(w, 11, 7)
           p2 == ShiftLeft(Slice(w, 31, 25), 5)
           s  == FillFrom(31 \in w, 12, 32)
           x  == p1 \cup p2 \cup s
<1>1. p1 \in SUBSET Int /\ \A i \in Int : i \in p1 <=> i \in 0 .. 4 /\ i + 7 \in w
  BY InSlice DEF Slice
<1>2. p2 \in SUBSET Int /\ \A i \in Int : i \in p2 <=> i \in 5 .. 11 /\ i + 20 \in w
  BY SlicePlaced
<1>3. s \in SUBSET Int /\ \A i \in Int : i \in s <=> i \in 12 .. 31 /\ 31 \in w
  BY DEF FillFrom
<1> HIDE DEF p1, p2, s
<1>4. x \in SUBSET Int /\ \A i \in Int : i \in x => i \in 0 .. 31
  BY <1>1, <1>2, <1>3
<1>5. \A i \in 11 .. 31 : i \in FromInt(v, 32) <=> 11 \in FromInt(v, 32)
  BY SignBits DEF Below
<1>6. \A i \in 0 .. 31 : i \in x <=> i \in FromInt(v, 32)
  BY <1>1, <1>2, <1>3, <1>5, SMT DEF Carries
<1> HIDE DEF x
<1>7. Truncate(x, XLEN) = FromInt(v, XLEN)
  BY <1>4, <1>6, BitsDecode
<1> QED
  BY <1>7 DEF x, ImmS, Decode, p1, p2, s

LEMMA ImmBDecodes ==
  ASSUME NEW w \in SUBSET Int, NEW v \in Int, Below(v, 12), v % 2 = 0,
         Carries(w, 7, 7, v, 11), Carries(w, 8, 11, v, 1),
         Carries(w, 25, 30, v, 5), Carries(w, 31, 31, v, 12)
  PROVE  Decode(w).immB = FromInt(v, XLEN)
<1> DEFINE p1 == ShiftLeft(Slice(w, 11, 8), 1)
           p2 == ShiftLeft(Slice(w, 30, 25), 5)
           p3 == ShiftLeft(Slice(w, 7, 7), 11)
           s  == FillFrom(31 \in w, 12, 32)
           x  == p1 \cup p2 \cup p3 \cup s
<1>1. p1 \in SUBSET Int /\ \A i \in Int : i \in p1 <=> i \in 1 .. 4 /\ i + 7 \in w
  BY SlicePlaced
<1>2. p2 \in SUBSET Int /\ \A i \in Int : i \in p2 <=> i \in 5 .. 10 /\ i + 20 \in w
  BY SlicePlaced
<1>3. p3 \in SUBSET Int /\ \A i \in Int : i \in p3 <=> i \in 11 .. 11 /\ i - 4 \in w
  BY SlicePlaced
<1>4. s \in SUBSET Int /\ \A i \in Int : i \in s <=> i \in 12 .. 31 /\ 31 \in w
  BY DEF FillFrom
<1> HIDE DEF p1, p2, p3, s
<1>5. x \in SUBSET Int /\ \A i \in Int : i \in x => i \in 0 .. 31
  BY <1>1, <1>2, <1>3, <1>4
<1>6. \A i \in 12 .. 31 : i \in FromInt(v, 32) <=> 12 \in FromInt(v, 32)
  BY SignBits DEF Below
<1>7. 0 \notin FromInt(v, 32)
  BY BitsOfInt
<1>8. \A i \in 0 .. 31 : i \in x <=> i \in FromInt(v, 32)
  BY <1>1, <1>2, <1>3, <1>4, <1>6, <1>7, SMT DEF Carries
<1> HIDE DEF x
<1>9. Truncate(x, XLEN) = FromInt(v, XLEN)
  BY <1>5, <1>8, BitsDecode
<1> QED
  BY <1>9 DEF x, ImmB, Decode, p1, p2, p3, s

LEMMA ImmJDecodes ==
  ASSUME NEW w \in SUBSET Int, NEW v \in Int, Below(v, 20), v % 2 = 0,
         Carries(w, 12, 19, v, 12), Carries(w, 20, 20, v, 11),
         Carries(w, 21, 30, v, 1), Carries(w, 31, 31, v, 20)
  PROVE  Decode(w).immJ = FromInt(v, XLEN)
<1> DEFINE p1 == ShiftLeft(Slice(w, 30, 21), 1)
           p2 == ShiftLeft(Slice(w, 20, 20), 11)
           p3 == ShiftLeft(Slice(w, 19, 12), 12)
           s  == FillFrom(31 \in w, 20, 32)
           x  == p1 \cup p2 \cup p3 \cup s
<1>1. p1 \in SUBSET Int /\ \A i \in Int : i \in p1 <=> i \in 1 .. 10 /\ i + 20 \in w
  BY SlicePlaced
<1>2. p2 \in SUBSET Int /\ \A i \in Int : i \in p2 <=> i \in 11 .. 11 /\ i + 9 \in w
  BY SlicePlaced
<1>3. p3 \in SUBSET Int /\ \A i \in Int : i \in p3 <=> i \in 12 .. 19 /\ i + 0 \in w
  BY SlicePlaced
<1>4. s \in SUBSET Int /\ \A i \in Int : i \in s <=> i \in 20 .. 31 /\ 31 \in w
  BY DEF FillFrom
<1> HIDE DEF p1, p2, p3, s
<1>5. x \in SUBSET Int /\ \A i \in Int : i \in x => i \in 0 .. 31
  BY <1>1, <1>2, <1>3, <1>4
<1>6. \A i \in 20 .. 31 : i \in FromInt(v, 32) <=> 20 \in FromInt(v, 32)
  BY SignBits DEF Below
<1>7. 0 \notin FromInt(v, 32)
  BY BitsOfInt
<1>8. \A i \in 0 .. 31 : i \in x <=> i \in FromInt(v, 32)
  BY <1>1, <1>2, <1>3, <1>4, <1>6, <1>7, SMT DEF Carries
<1> HIDE DEF x
<1>9. Truncate(x, XLEN) = FromInt(v, XLEN)
  BY <1>5, <1>8, BitsDecode
<1> QED
  BY <1>9 DEF x, ImmJ, Decode, p1, p2, p3, s

----------------------------------------------------------------------------
(* Opcodes.                                                                *)

\* The number a set of the seven bits of an opcode stands for.
Value(x) ==
  LET b(i) == IF i \in x THEN 1 ELSE 0
  IN  b(0) + 2 * b(1) + 4 * b(2) + 8 * b(3) + 16 * b(4) + 32 * b(5) + 64 * b(6)

LEMMA ValueOfBits ==
  ASSUME NEW o \in 0 .. 127
  PROVE  Value(FromInt(o, 7)) = o
BY SMT DEF Value, FromInt, Bits

LEMMA ValueIsOnce ==
  ASSUME NEW x \in SUBSET (0 .. 6), NEW y \in SUBSET (0 .. 6), Value(x) = Value(y)
  PROVE  x = y
<1> DEFINE b(z, i) == IF i \in z THEN 1 ELSE 0
<1>1. \A z, i : b(z, i) \in 0 .. 1 /\ (i \in z <=> b(z, i) = 1)
  OBVIOUS
<1>2. \A z : Value(z) = b(z, 0) + 2 * b(z, 1) + 4 * b(z, 2) + 8 * b(z, 3)
                     + 16 * b(z, 4) + 32 * b(z, 5) + 64 * b(z, 6)
  BY DEF Value
<1> HIDE DEF b
<1>3. /\ b(x, 0) = b(y, 0) /\ b(x, 1) = b(y, 1) /\ b(x, 2) = b(y, 2) /\ b(x, 3) = b(y, 3)
      /\ b(x, 4) = b(y, 4) /\ b(x, 5) = b(y, 5) /\ b(x, 6) = b(y, 6)
  BY <1>1, <1>2, SMT
<1>4. \A i \in 0 .. 6 : i \in x <=> i \in y
  BY <1>1, <1>3, SMT
<1> QED
  BY <1>4

LEMMA OpcodeIs ==
  ASSUME NEW o \in 0 .. 127, NEW x \in SUBSET (0 .. 6)
  PROVE  FromInt(o, 7) = x <=> o = Value(x)
<1>1. FromInt(o, 7) \in SUBSET (0 .. 6)
  BY DEF FromInt, Bits
<1> QED
  BY <1>1, ValueOfBits, ValueIsOnce

\* The bits of each opcode.
OpcodeBits(code, o) ==
  /\ code = {0, 1, 4, 5} <=> o = 51
  /\ code = {0, 1, 4} <=> o = 19
  /\ code = {0, 1} <=> o = 3
  /\ code = {0, 1, 5} <=> o = 35
  /\ code = {0, 1, 5, 6} <=> o = 99
  /\ code = {0, 1, 2, 4, 5} <=> o = 55
  /\ code = {0, 1, 2, 4} <=> o = 23
  /\ code = {0, 1, 2, 3, 5, 6} <=> o = 111
  /\ code = {0, 1, 2, 5, 6} <=> o = 103
  /\ code = {0, 1, 4, 5, 6} <=> o = 115
  /\ code = {0, 1, 2, 3} <=> o = 15
  /\ code = {0, 1, 3} <=> o = 11

LEMMA Opcodes ==
  ASSUME NEW o \in 0 .. 127, NEW code, code = FromInt(o, 7)
  PROVE  OpcodeBits(code, o)
<1>1. code = {0, 1, 4, 5} <=> o = 51
  <2> DEFINE x == {0, 1, 4, 5}
  <2>1. Value(x) = 51 /\ x \in SUBSET (0 .. 6)
    BY DEF Value
  <2> HIDE DEF x
  <2>2. code = x <=> o = 51
    BY <2>1, OpcodeIs
  <2> QED
    BY <2>2 DEF x
<1>2. code = {0, 1, 4} <=> o = 19
  <2> DEFINE x == {0, 1, 4}
  <2>1. Value(x) = 19 /\ x \in SUBSET (0 .. 6)
    BY DEF Value
  <2> HIDE DEF x
  <2>2. code = x <=> o = 19
    BY <2>1, OpcodeIs
  <2> QED
    BY <2>2 DEF x
<1>3. code = {0, 1} <=> o = 3
  <2> DEFINE x == {0, 1}
  <2>1. Value(x) = 3 /\ x \in SUBSET (0 .. 6)
    BY DEF Value
  <2> HIDE DEF x
  <2>2. code = x <=> o = 3
    BY <2>1, OpcodeIs
  <2> QED
    BY <2>2 DEF x
<1>4. code = {0, 1, 5} <=> o = 35
  <2> DEFINE x == {0, 1, 5}
  <2>1. Value(x) = 35 /\ x \in SUBSET (0 .. 6)
    BY DEF Value
  <2> HIDE DEF x
  <2>2. code = x <=> o = 35
    BY <2>1, OpcodeIs
  <2> QED
    BY <2>2 DEF x
<1>5. code = {0, 1, 5, 6} <=> o = 99
  <2> DEFINE x == {0, 1, 5, 6}
  <2>1. Value(x) = 99 /\ x \in SUBSET (0 .. 6)
    BY DEF Value
  <2> HIDE DEF x
  <2>2. code = x <=> o = 99
    BY <2>1, OpcodeIs
  <2> QED
    BY <2>2 DEF x
<1>6. code = {0, 1, 2, 4, 5} <=> o = 55
  <2> DEFINE x == {0, 1, 2, 4, 5}
  <2>1. Value(x) = 55 /\ x \in SUBSET (0 .. 6)
    BY DEF Value
  <2> HIDE DEF x
  <2>2. code = x <=> o = 55
    BY <2>1, OpcodeIs
  <2> QED
    BY <2>2 DEF x
<1>7. code = {0, 1, 2, 4} <=> o = 23
  <2> DEFINE x == {0, 1, 2, 4}
  <2>1. Value(x) = 23 /\ x \in SUBSET (0 .. 6)
    BY DEF Value
  <2> HIDE DEF x
  <2>2. code = x <=> o = 23
    BY <2>1, OpcodeIs
  <2> QED
    BY <2>2 DEF x
<1>8. code = {0, 1, 2, 3, 5, 6} <=> o = 111
  <2> DEFINE x == {0, 1, 2, 3, 5, 6}
  <2>1. Value(x) = 111 /\ x \in SUBSET (0 .. 6)
    BY DEF Value
  <2> HIDE DEF x
  <2>2. code = x <=> o = 111
    BY <2>1, OpcodeIs
  <2> QED
    BY <2>2 DEF x
<1>9. code = {0, 1, 2, 5, 6} <=> o = 103
  <2> DEFINE x == {0, 1, 2, 5, 6}
  <2>1. Value(x) = 103 /\ x \in SUBSET (0 .. 6)
    BY DEF Value
  <2> HIDE DEF x
  <2>2. code = x <=> o = 103
    BY <2>1, OpcodeIs
  <2> QED
    BY <2>2 DEF x
<1>10. code = {0, 1, 4, 5, 6} <=> o = 115
  <2> DEFINE x == {0, 1, 4, 5, 6}
  <2>1. Value(x) = 115 /\ x \in SUBSET (0 .. 6)
    BY DEF Value
  <2> HIDE DEF x
  <2>2. code = x <=> o = 115
    BY <2>1, OpcodeIs
  <2> QED
    BY <2>2 DEF x
<1>11. code = {0, 1, 2, 3} <=> o = 15
  <2> DEFINE x == {0, 1, 2, 3}
  <2>1. Value(x) = 15 /\ x \in SUBSET (0 .. 6)
    BY DEF Value
  <2> HIDE DEF x
  <2>2. code = x <=> o = 15
    BY <2>1, OpcodeIs
  <2> QED
    BY <2>2 DEF x
<1>12. code = {0, 1, 3} <=> o = 11
  <2> DEFINE x == {0, 1, 3}
  <2>1. Value(x) = 11 /\ x \in SUBSET (0 .. 6)
    BY DEF Value
  <2> HIDE DEF x
  <2>2. code = x <=> o = 11
    BY <2>1, OpcodeIs
  <2> QED
    BY <2>2 DEF x
<1> QED
  BY <1>1, <1>2, <1>3, <1>4, <1>5, <1>6, <1>7, <1>8, <1>9, <1>10, <1>11, <1>12
     DEF OpcodeBits

\* Twelve bits that are all zero, and those of 1.
LEMMA TwelveBits ==
  ASSUME NEW n \in Int, 0 <= n, n < 4096
  PROVE  (FromInt(n, 12) = {} <=> n = 0) /\ (FromInt(n, 12) = {0} <=> n = 1)
<1> DEFINE b(d) == (n \div d) % 2
<1>1. n = b(1) + 2 * b(2) + 4 * b(4) + 8 * b(8) + 16 * b(16) + 32 * b(32)
          + 64 * b(64) + 128 * b(128) + 256 * b(256)
          + 512 * b(512) + 1024 * b(1024) + 2048 * b(2048)
  <2>1. /\ n \div 1 = 2 * (n \div 2) + b(1)
        /\ n \div 2 = 2 * (n \div 4) + b(2)
        /\ n \div 4 = 2 * (n \div 8) + b(4)
        /\ n \div 8 = 2 * (n \div 16) + b(8)
        /\ n \div 16 = 2 * (n \div 32) + b(16)
        /\ n \div 32 = 2 * (n \div 64) + b(32)
        /\ n \div 64 = 2 * (n \div 128) + b(64)
        /\ n \div 128 = 2 * (n \div 256) + b(128)
        /\ n \div 256 = 2 * (n \div 512) + b(256)
        /\ n \div 512 = 2 * (n \div 1024) + b(512)
        /\ n \div 1024 = 2 * (n \div 2048) + b(1024)
        /\ n \div 2048 = 2 * (n \div 4096) + b(2048)
        /\ n \div 1 = n /\ n \div 4096 = 0
    OBVIOUS
  <2> HIDE DEF b
  <2>2. \A d \in {1, 2, 4, 8, 16, 32, 64, 128, 256, 512, 1024, 2048} : b(d) \in Int
    BY DEF b
  <2> QED
    BY <2>1, <2>2, SMT
<1>2. \A i : i \in FromInt(n, 12) <=> i \in 0 .. 11 /\ i \in FromInt(n, 32)
  BY FewerBits
<1>3. /\ 0 \in FromInt(n, 32) <=> b(1) = 1
      /\ 1 \in FromInt(n, 32) <=> b(2) = 1
      /\ 2 \in FromInt(n, 32) <=> b(4) = 1
      /\ 3 \in FromInt(n, 32) <=> b(8) = 1
      /\ 4 \in FromInt(n, 32) <=> b(16) = 1
      /\ 5 \in FromInt(n, 32) <=> b(32) = 1
      /\ 6 \in FromInt(n, 32) <=> b(64) = 1
      /\ 7 \in FromInt(n, 32) <=> b(128) = 1
      /\ 8 \in FromInt(n, 32) <=> b(256) = 1
      /\ 9 \in FromInt(n, 32) <=> b(512) = 1
      /\ 10 \in FromInt(n, 32) <=> b(1024) = 1
      /\ 11 \in FromInt(n, 32) <=> b(2048) = 1
  BY BitsOfInt
<1>4. /\ b(1) \in {0, 1}
      /\ b(2) \in {0, 1}
      /\ b(4) \in {0, 1}
      /\ b(8) \in {0, 1}
      /\ b(16) \in {0, 1}
      /\ b(32) \in {0, 1}
      /\ b(64) \in {0, 1}
      /\ b(128) \in {0, 1}
      /\ b(256) \in {0, 1}
      /\ b(512) \in {0, 1}
      /\ b(1024) \in {0, 1}
      /\ b(2048) \in {0, 1}
  OBVIOUS
<1> HIDE DEF b
<1>5. ASSUME FromInt(n, 12) = {} PROVE n = 0
  BY <1>1, <1>2, <1>3, <1>4, <1>5, SMT
<1>6. ASSUME FromInt(n, 12) = {0} PROVE n = 1
  BY <1>1, <1>2, <1>3, <1>4, <1>6, SMT
<1>7. ASSUME n = 0 PROVE FromInt(n, 12) = {}
  BY <1>1, <1>2, <1>3, <1>4, <1>7, SMT
<1>8. ASSUME n = 1 PROVE FromInt(n, 12) = {0}
  BY <1>1, <1>2, <1>3, <1>4, <1>8, SMT
<1> QED
  BY <1>5, <1>6, <1>7, <1>8

LEMMA ThreeBits ==
  ASSUME NEW f \in 0 .. 7
  PROVE  FromInt(f, 3) = {} <=> f = 0
<1>1. FromInt(f, 3) = {}
        <=> 0 \notin FromInt(f, 3) /\ 1 \notin FromInt(f, 3) /\ 2 \notin FromInt(f, 3)
  <2>1. FromInt(f, 3) \in SUBSET (0 .. 2)
    BY DEF FromInt, Bits
  <2>2. \A i \in 0 .. 2 : i = 0 \/ i = 1 \/ i = 2
    OBVIOUS
  <2> HIDE DEF FromInt
  <2> QED
    BY <2>1, <2>2
<1>2. /\ 0 \in FromInt(f, 3) <=> (f \div 1) % 2 = 1
      /\ 1 \in FromInt(f, 3) <=> (f \div 2) % 2 = 1
      /\ 2 \in FromInt(f, 3) <=> (f \div 4) % 2 = 1
  BY SMT DEF FromInt, Bits
<1> HIDE DEF FromInt
<1> QED
  BY <1>1, <1>2

\* A slice is the number whose bits its word carries there.
LEMMA SliceIsNumber ==
  ASSUME NEW w \in SUBSET Int, NEW n \in Int, NEW k \in 0 .. 32, NEW lo \in Nat, NEW hi \in Int,
         hi = lo + k - 1, Carries(w, lo, hi, n, 0)
  PROVE  Slice(w, hi, lo) = FromInt(n, k)
<1>1. \A i : i \in Slice(w, hi, lo) <=> i \in 0 .. k - 1 /\ i + lo \in w
  <2>1. hi - lo = k - 1
    OBVIOUS
  <2> QED
    BY <2>1, InSlice
<1>2. ASSUME NEW i \in 0 .. k - 1 PROVE i + lo \in w <=> i \in FromInt(n, 32)
  <2>1. i + lo \in lo .. hi
    OBVIOUS
  <2>2. i + lo \in w <=> (i + lo) - lo + 0 \in FromInt(n, 32)
    BY <2>1 DEF Carries
  <2>3. (i + lo) - lo + 0 = i
    OBVIOUS
  <2> QED
    BY <2>2, <2>3
<1>3. \A i : i \in FromInt(n, k) <=> i \in 0 .. k - 1 /\ i \in FromInt(n, 32)
  BY FewerBits
<1> QED
  BY <1>1, <1>2, <1>3

\* The kind of a word is that of its opcode number, function code and upper bits.
LEMMA KindOfWord ==
  ASSUME NEW o \in 0 .. 127, NEW f, NEW n, NEW w, Slice(w, 6, 0) = FromInt(o, 7),
         o = 115 => /\ Slice(w, 14, 12) = {} <=> f = 0
                    /\ Slice(w, 31, 20) = {} <=> n = 0
                    /\ Slice(w, 31, 20) = {0} <=> n = 1
  PROVE  Kind(w) = KindOf(o, f, n)
<1> DEFINE code == Slice(w, 6, 0)
<1>0. code = FromInt(o, 7)
  OBVIOUS
<1> HIDE DEF code
<1>1. OpcodeBits(code, o)
  BY <1>0, Opcodes
<1>2. o = 115 => (IsSystem(w) <=> f = 0)
  BY <1>1 DEF IsSystem, code, OpcodeBits
<1>3. o # 115 => ~ IsSystem(w)
  BY <1>1 DEF IsSystem, code, OpcodeBits
<1>4. CASE o = 115
  BY <1>1, <1>2, <1>4, SMT DEF Kind, KindOf, code, OpcodeBits
<1>5. CASE o # 115
  BY <1>1, <1>3, <1>5, SMT DEF Kind, KindOf, code, OpcodeBits
<1> QED
  BY <1>4, <1>5

----------------------------------------------------------------------------
(* The instruction formats.                                                 *)

\* The bits of a number that is moved up by twelve places.
LEMMA ScaledIsMoved ==
  ASSUME NEW v \in Int, Below(v, 11)
  PROVE  \A i \in 0 .. 31 : i \in FromInt(4096 * v, 32) <=> i >= 12 /\ i - 12 \in FromInt(v, 32)
<1> DEFINE F == FromInt(v, 32)
           G == FromInt(4096 * v, 32)
           T(i) == i \in G <=> i >= 12 /\ i - 12 \in F
<1>1. /\ 0 \notin G
      /\ 1 \notin G
      /\ 2 \notin G
      /\ 3 \notin G
      /\ 4 \notin G
      /\ 5 \notin G
      /\ 6 \notin G
      /\ 7 \notin G
      /\ 8 \notin G
      /\ 9 \notin G
      /\ 10 \notin G
      /\ 11 \notin G
      /\ 12 \in G <=> 0 \in F
      /\ 13 \in G <=> 1 \in F
      /\ 14 \in G <=> 2 \in F
      /\ 15 \in G <=> 3 \in F
      /\ 16 \in G <=> 4 \in F
      /\ 17 \in G <=> 5 \in F
      /\ 18 \in G <=> 6 \in F
      /\ 19 \in G <=> 7 \in F
      /\ 20 \in G <=> 8 \in F
      /\ 21 \in G <=> 9 \in F
      /\ 22 \in G <=> 10 \in F
      /\ 23 \in G <=> 11 \in F
      /\ 24 \in G <=> 12 \in F
      /\ 25 \in G <=> 13 \in F
      /\ 26 \in G <=> 14 \in F
      /\ 27 \in G <=> 15 \in F
      /\ 28 \in G <=> 16 \in F
      /\ 29 \in G <=> 17 \in F
  BY ScaledBits
<1>2. 30 \in G <=> 18 \in F
  <2>1. 30 \in G <=> 4096 * v < 0
    BY BitsOfInt
  <2>2. 18 \in F <=> v < 0
    BY SignBits DEF Below
  <2> QED
    BY <2>1, <2>2
<1>3. 31 \in G <=> 19 \in F
  <2>1. 31 \in G <=> 4096 * v < 0
    BY BitsOfInt
  <2>2. 19 \in F <=> v < 0
    BY SignBits DEF Below
  <2> QED
    BY <2>1, <2>2
<1> HIDE DEF F, G
<1>4. /\ T(0)
      /\ T(1)
      /\ T(2)
      /\ T(3)
      /\ T(4)
      /\ T(5)
      /\ T(6)
      /\ T(7)
      /\ T(8)
      /\ T(9)
      /\ T(10)
      /\ T(11)
      /\ T(12)
      /\ T(13)
      /\ T(14)
      /\ T(15)
      /\ T(16)
      /\ T(17)
      /\ T(18)
      /\ T(19)
      /\ T(20)
      /\ T(21)
      /\ T(22)
      /\ T(23)
      /\ T(24)
      /\ T(25)
      /\ T(26)
      /\ T(27)
      /\ T(28)
      /\ T(29)
      /\ T(30)
      /\ T(31)
  BY <1>1, <1>2, <1>3
<1> HIDE DEF T
<1>5. \A i \in 0 .. 31 : T(i)
  BY <1>4, SMT
<1> QED
  BY <1>5 DEF T, F, G

LEMMA ImmUDecodes ==
  ASSUME NEW w \in SUBSET Int, NEW v \in Int, Below(v, 11), Carries(w, 12, 31, v, 0)
  PROVE  Decode(w).immU = FromInt(4096 * v, XLEN)
<1> DEFINE x == ShiftLeft(Slice(w, 31, 12), 12)
<1>1. x \in SUBSET Int /\ \A i \in Int : i \in x <=> i \in 12 .. 31 /\ i + 0 \in w
  BY SlicePlaced
<1> HIDE DEF x
<1>2. \A i \in Int : i \in x => i \in 0 .. 31
  BY <1>1
<1>3. \A i \in 0 .. 31 : i \in x <=> i \in FromInt(4096 * v, 32)
  BY <1>1, ScaledIsMoved, SMT DEF Carries
<1>4. Truncate(x, XLEN) = FromInt(4096 * v, XLEN)
  BY <1>1, <1>2, <1>3, BitsDecode
<1> QED
  BY <1>4 DEF x, ImmU, Decode

\* The kinds of the opcodes that are not SYSTEM.
LEMMA KindDecodes ==
  ASSUME NEW w, NEW o \in 0 .. 127, o # 115, Slice(w, 6, 0) = FromInt(o, 7)
  PROVE  Decode(w).kind = KindOf(o, 0, 0)
BY KindOfWord DEF Decode

\* An opcode has seven bits.
LEMMA OpcodeType == \A o : FromInt(o, 7) \in SUBSET (0 .. 6)
BY DEF FromInt, Bits

LEMMA LoadDecodes ==
  ASSUME NEW n \in Int, Below(n, 11), NEW a \in RegIdx, NEW f \in 0 .. 7, NEW d \in RegIdx
  PROVE  Decodes(I(LOAD, n, a, f, d), "Load",
                 [rd |-> d, rs1 |-> a, funct3 |-> f, immI |-> FromInt(n, XLEN)])
<1> DEFINE w == I(LOAD, n, a, f, d)
<1>1. d \in Int /\ a \in Int /\ f \in Int
  BY DEF RegIdx
<1>2. /\ w \in SUBSET Int /\ Slice(w, 6, 0) = LOAD /\ Carries(w, 7, 11, d, 0)
      /\ Carries(w, 12, 14, f, 0) /\ Carries(w, 15, 19, a, 0) /\ Carries(w, 20, 31, n, 0)
  BY <1>1, FormatI, OpcodeType DEF LOAD
<1> HIDE DEF w
<1>3. Decode(w).kind = "Load"
  BY <1>2, KindDecodes DEF LOAD, KindOf
<1>4. Decode(w).rd = d /\ Decode(w).rs1 = a /\ Decode(w).funct3 = f
  BY <1>2, OperandsDecode
<1>5. Decode(w).immI = FromInt(n, XLEN)
  BY <1>2, ImmIDecodes
<1> QED
  BY <1>3, <1>4, <1>5 DEF Decodes, w

StoreComesApart(n, b, a, f) ==
  Decodes(S(STORE, n, b, a, f), "Store",
          [rs1 |-> a, rs2 |-> b, funct3 |-> f, immS |-> FromInt(n, XLEN)])

LEMMA StoreDecodes ==
  ASSUME NEW n \in Int, Below(n, 11), NEW b \in RegIdx, NEW a \in RegIdx, NEW f \in 0 .. 7
  PROVE  StoreComesApart(n, b, a, f)
<1> DEFINE w == S(STORE, n, b, a, f)
<1>1. a \in Int /\ b \in Int /\ f \in Int
  BY DEF RegIdx
<1>2. /\ w \in SUBSET Int /\ Slice(w, 6, 0) = STORE /\ Carries(w, 7, 11, n, 0)
      /\ Carries(w, 12, 14, f, 0) /\ Carries(w, 15, 19, a, 0) /\ Carries(w, 20, 24, b, 0)
      /\ Carries(w, 25, 31, n, 5)
  BY <1>1, FormatS, OpcodeType DEF STORE
<1> HIDE DEF w
<1>3. Decode(w).kind = "Store"
  BY <1>2, KindDecodes DEF STORE, KindOf
<1>4. Decode(w).rs1 = a /\ Decode(w).rs2 = b /\ Decode(w).funct3 = f
  BY <1>2, OperandsDecode
<1>5. Decode(w).immS = FromInt(n, XLEN)
  BY <1>2, ImmSDecodes
<1> QED
  BY <1>3, <1>4, <1>5 DEF StoreComesApart, Decodes, w

BranchComesApart(n, b, a, f) ==
  Decodes(B(BRANCH, n, b, a, f), "Branch",
          [rs1 |-> a, rs2 |-> b, funct3 |-> f, immB |-> FromInt(n, XLEN)])

LEMMA BranchDecodes ==
  ASSUME NEW n \in Int, Below(n, 12), n % 2 = 0,
         NEW b \in RegIdx, NEW a \in RegIdx, NEW f \in 0 .. 7
  PROVE  BranchComesApart(n, b, a, f)
<1> DEFINE w == B(BRANCH, n, b, a, f)
<1>1. a \in Int /\ b \in Int /\ f \in Int
  BY DEF RegIdx
<1>2. /\ w \in SUBSET Int /\ Slice(w, 6, 0) = BRANCH /\ Carries(w, 7, 7, n, 11)
      /\ Carries(w, 8, 11, n, 1) /\ Carries(w, 12, 14, f, 0) /\ Carries(w, 15, 19, a, 0)
      /\ Carries(w, 20, 24, b, 0) /\ Carries(w, 25, 30, n, 5) /\ Carries(w, 31, 31, n, 12)
  <2>1. BRANCH \in SUBSET (0 .. 6)
    BY OpcodeType DEF BRANCH
  <2> QED
    BY <1>1, <2>1, FormatB
<1> HIDE DEF w
<1>3. Decode(w).kind = "Branch"
  BY <1>2, KindDecodes DEF BRANCH, KindOf
<1>4. Decode(w).rs1 = a /\ Decode(w).rs2 = b /\ Decode(w).funct3 = f
  BY <1>2, OperandsDecode
<1>5. Decode(w).immB = FromInt(n, XLEN)
  BY <1>2, ImmBDecodes
<1> QED
  BY <1>3, <1>4, <1>5 DEF BranchComesApart, Decodes, w

LEMMA JumpDecodes ==
  ASSUME NEW n \in Int, Below(n, 20), n % 2 = 0, NEW d \in RegIdx
  PROVE  Decodes(jal(d, n), "JAL", [rd |-> d, immJ |-> FromInt(n, XLEN)])
<1> DEFINE w == jal(d, n)
<1>1. d \in Int
  BY DEF RegIdx
<1>2. /\ w \in SUBSET Int /\ Slice(w, 6, 0) = FromInt(111, 7) /\ Carries(w, 7, 11, d, 0)
      /\ Carries(w, 12, 19, n, 12) /\ Carries(w, 20, 20, n, 11) /\ Carries(w, 21, 30, n, 1)
      /\ Carries(w, 31, 31, n, 20)
  <2>1. FromInt(111, 7) \in SUBSET (0 .. 6)
    BY OpcodeType
  <2> QED
    BY <1>1, <2>1, FormatJ DEF jal
<1> HIDE DEF w
<1>3. Decode(w).kind = "JAL"
  BY <1>2, KindDecodes DEF KindOf
<1>4. Decode(w).rd = d
  BY <1>2, OperandsDecode
<1>5. Decode(w).immJ = FromInt(n, XLEN)
  BY <1>2, ImmJDecodes
<1> QED
  BY <1>3, <1>4, <1>5 DEF Decodes, w

LEMMA UpperDecodes ==
  ASSUME NEW n \in Int, Below(n, 11), NEW d \in RegIdx
  PROVE  Decodes(lui(d, n), "LUI", [rd |-> d, immU |-> FromInt(4096 * n, XLEN)])
<1> DEFINE w == lui(d, n)
<1>1. d \in Int
  BY DEF RegIdx
<1>2. /\ w \in SUBSET Int /\ Slice(w, 6, 0) = FromInt(55, 7) /\ Carries(w, 7, 11, d, 0)
      /\ Carries(w, 12, 31, n, 0)
  BY <1>1, FormatU, OpcodeType DEF lui
<1> HIDE DEF w
<1>3. Decode(w).kind = "LUI"
  BY <1>2, KindDecodes DEF KindOf
<1>4. Decode(w).rd = d
  BY <1>2, OperandsDecode
<1>5. Decode(w).immU = FromInt(4096 * n, XLEN)
  BY <1>2, ImmUDecodes
<1> QED
  BY <1>3, <1>4, <1>5 DEF Decodes, w

----------------------------------------------------------------------------
(* rlwimi.                                                                 *)

\* A custom field has the low bits of the number its five bits are.
LEMMA CustomDecodes ==
  ASSUME NEW x \in SUBSET Int, NEW n \in RegIdx, NEW lo \in Nat,
         \A j \in 0 .. 4 : j + lo \in x <=> j \in FromInt(n, 32)
  PROVE  Field(Slice(x, lo + SHAMTW - 1, lo)) = n % XLEN
<1> DEFINE y == Slice(x, lo + SHAMTW - 1, lo)
           b(j) == IF j \in y THEN 1 ELSE 0
<1>1. \A j \in 0 .. 4 : j \in y <=> j < SHAMTW /\ j \in FromInt(n, 32)
  <2>1. lo + SHAMTW - 1 \in Int /\ (lo + SHAMTW - 1) - lo = SHAMTW - 1
    BY Widths
  <2>2. \A j : j \in y <=> j \in 0 .. SHAMTW - 1 /\ j + lo \in x
    BY <2>1, InSlice
  <2> QED
    BY <2>2, Widths
<1>2. Field(y) = b(0) + 2 * b(1) + 4 * b(2) + 8 * b(3) + 16 * b(4)
  BY DEF Field
<1>3. n \in Int /\ 0 <= n /\ n <= 31
  BY DEF RegIdx
<1>4. /\ b(0) = IF 0 < SHAMTW THEN (n \div 1) % 2 ELSE 0
      /\ b(1) = IF 1 < SHAMTW THEN (n \div 2) % 2 ELSE 0
      /\ b(2) = IF 2 < SHAMTW THEN (n \div 4) % 2 ELSE 0
      /\ b(3) = IF 3 < SHAMTW THEN (n \div 8) % 2 ELSE 0
      /\ b(4) = IF 4 < SHAMTW THEN (n \div 16) % 2 ELSE 0
  <2>1. /\ 0 \in FromInt(n, 32) <=> (n \div 1) % 2 = 1
        /\ 1 \in FromInt(n, 32) <=> (n \div 2) % 2 = 1
        /\ 2 \in FromInt(n, 32) <=> (n \div 4) % 2 = 1
        /\ 3 \in FromInt(n, 32) <=> (n \div 8) % 2 = 1
        /\ 4 \in FromInt(n, 32) <=> (n \div 16) % 2 = 1
    BY <1>3, BitsOfInt
  <2> HIDE DEF y
  <2> QED
    BY <1>1, <1>3, <2>1, SMT
<1> HIDE DEF b, y
<1> DEFINE q(d) == (n \div d) % 2
<1>5. /\ n % 4 = q(1) + 2 * q(2)
      /\ n % 8 = q(1) + 2 * q(2) + 4 * q(4)
  BY <1>3
<1>6. /\ n % 16 = q(1) + 2 * q(2) + 4 * q(4) + 8 * q(8)
      /\ n % 32 = q(1) + 2 * q(2) + 4 * q(4) + 8 * q(8) + 16 * q(16)
  BY <1>3
<1>7. \A k \in {1, 2, 4, 8, 16} : q(k) \in Int
  BY <1>3
<1>8. /\ b(0) = IF 0 < SHAMTW THEN q(1) ELSE 0
      /\ b(1) = IF 1 < SHAMTW THEN q(2) ELSE 0
      /\ b(2) = IF 2 < SHAMTW THEN q(4) ELSE 0
      /\ b(3) = IF 3 < SHAMTW THEN q(8) ELSE 0
      /\ b(4) = IF 4 < SHAMTW THEN q(16) ELSE 0
  BY <1>4
<1> HIDE DEF q
<1>9. Field(y) = n % XLEN
  <2>1. CASE SHAMTW = 2 /\ XLEN = 4
    BY <1>2, <1>5, <1>7, <1>8, <2>1, SMT
  <2>2. CASE SHAMTW = 3 /\ XLEN = 8
    BY <1>2, <1>5, <1>7, <1>8, <2>2, SMT
  <2>3. CASE SHAMTW = 4 /\ XLEN = 16
    BY <1>2, <1>6, <1>7, <1>8, <2>3, SMT
  <2>4. CASE SHAMTW = 5 /\ XLEN = 32
    BY <1>2, <1>6, <1>7, <1>8, <2>4, SMT
  <2> QED
    BY <2>1, <2>2, <2>3, <2>4, DatapathAssumption DEF DatapathAssumption
<1> QED
  BY <1>9 DEF y

\* How encode_rlwimi cuts the fifteen bits of SH, MB and ME.
LEMMA RlwimiParts ==
  ASSUME NEW d, NEW a, NEW b \in RegIdx, NEW m \in RegIdx, NEW e \in RegIdx
  PROVE  encode_rlwimi(d, a, b, m, e) =
           R(FromInt(11, 7), 4 * b + (m \div 8), 4 * (m % 8) + (e \div 8), a, e % 8, d)
<1> DEFINE n == b * 1024 + m * 32 + e
<1>1. n \div 256 = 4 * b + (m \div 8)
  BY DEF RegIdx
<1>2. (n \div 8) % 32 = 4 * (m % 8) + (e \div 8)
  <2>1. n \div 8 = 32 * (4 * b + (m \div 8)) + (4 * (m % 8) + (e \div 8))
    BY DEF RegIdx
  <2>2. 4 * (m % 8) + (e \div 8) \in 0 .. 31
    BY DEF RegIdx
  <2> DEFINE h == 4 * b + (m \div 8)
             l == 4 * (m % 8) + (e \div 8)
  <2>3. h \in Int
    BY DEF RegIdx
  <2> HIDE DEF h, l, n
  <2>4. n \div 8 = 32 * h + l /\ l \in 0 .. 31
    BY <2>1, <2>2 DEF h, l
  <2>5. (32 * h + l) % 32 = l
    BY <2>3, <2>4
  <2> QED
    BY <2>4, <2>5 DEF l
<1>3. n % 8 = e % 8
  BY DEF RegIdx
<1> QED
  BY <1>1, <1>2, <1>3 DEF encode_rlwimi

\* The bits of the three parts are those of SH, MB and ME.
LEMMA RlwimiBits ==
  ASSUME NEW b \in RegIdx, NEW m \in RegIdx, NEW e \in RegIdx,
         NEW g, g = 4 * b + (m \div 8),
         NEW r, r = 4 * (m % 8) + (e \div 8),
         NEW f, f = e % 8
  PROVE  /\ \A j \in 0 .. 2 : j \in FromInt(f, 32) <=> j \in FromInt(e, 32)
         /\ \A j \in 3 .. 4 : j - 3 \in FromInt(r, 32) <=> j \in FromInt(e, 32)
         /\ \A j \in 0 .. 2 : j + 2 \in FromInt(r, 32) <=> j \in FromInt(m, 32)
         /\ \A j \in 3 .. 4 : j - 3 \in FromInt(g, 32) <=> j \in FromInt(m, 32)
         /\ \A j \in 0 .. 4 : j + 2 \in FromInt(g, 32) <=> j \in FromInt(b, 32)
<1>1. g \in Int /\ r \in Int /\ f \in Int /\ b \in Int /\ m \in Int /\ e \in Int
  BY DEF RegIdx
<1>2. /\ (f \div 1) % 2 = (e \div 1) % 2
      /\ (f \div 2) % 2 = (e \div 2) % 2
      /\ (f \div 4) % 2 = (e \div 4) % 2
  BY DEF RegIdx
<1>3. /\ (r \div 1) % 2 = (e \div 8) % 2
      /\ (r \div 2) % 2 = (e \div 16) % 2
      /\ (r \div 4) % 2 = (m \div 1) % 2
      /\ (r \div 8) % 2 = (m \div 2) % 2
      /\ (r \div 16) % 2 = (m \div 4) % 2
  <2> DEFINE q == m % 8
             h == e \div 8
  <2>1. q \in 0 .. 7 /\ h \in 0 .. 3
    BY DEF RegIdx
  <2>2. h % 2 = (e \div 8) % 2 /\ (h \div 2) % 2 = (e \div 16) % 2
    BY DEF RegIdx
  <2>3. q % 2 = m % 2
    BY DEF RegIdx
  <2>4. (q \div 2) % 2 = (m \div 2) % 2
    BY DEF RegIdx
  <2>5. (q \div 4) % 2 = (m \div 4) % 2
    BY DEF RegIdx
  <2>6. r = 4 * q + h /\ m \div 1 = m
    BY DEF RegIdx
  <2> HIDE DEF q, h
  <2>7. h = 0 \/ h = 1 \/ h = 2 \/ h = 3
    BY ONLY <2>1
  <2>8. r \div 4 = q /\ r \div 1 = r
    BY ONLY <2>1, <2>6, <2>7
  <2>9. r % 2 = h % 2
    BY ONLY <2>1, <2>6
  <2>10. (r \div 2) % 2 = (h \div 2) % 2
    <3>1. r \div 2 = 2 * q + (h \div 2)
      BY ONLY <2>1, <2>6, <2>7
    <3> QED
      BY ONLY <2>1, <2>7, <3>1
  <2>11. r \div 8 = q \div 2 /\ r \div 16 = q \div 4
    BY ONLY <2>1, <2>6, <2>7
  <2> QED
    BY ONLY <2>2, <2>3, <2>4, <2>5, <2>6, <2>8, <2>9, <2>10, <2>11
<1>4. /\ (g \div 1) % 2 = (m \div 8) % 2
      /\ (g \div 2) % 2 = (m \div 16) % 2
      /\ (g \div 4) % 2 = (b \div 1) % 2
      /\ (g \div 8) % 2 = (b \div 2) % 2
      /\ (g \div 16) % 2 = (b \div 4) % 2
      /\ (g \div 32) % 2 = (b \div 8) % 2
      /\ (g \div 64) % 2 = (b \div 16) % 2
  <2>1. (g \div 1) % 2 = (m \div 8) % 2
    BY DEF RegIdx
  <2>2. (g \div 2) % 2 = (m \div 16) % 2
    BY DEF RegIdx
  <2>3. (g \div 4) % 2 = (b \div 1) % 2
    BY DEF RegIdx
  <2>4. (g \div 8) % 2 = (b \div 2) % 2
    BY DEF RegIdx
  <2>5. (g \div 16) % 2 = (b \div 4) % 2
    BY DEF RegIdx
  <2>6. (g \div 32) % 2 = (b \div 8) % 2
    BY DEF RegIdx
  <2>7. (g \div 64) % 2 = (b \div 16) % 2
    BY DEF RegIdx
  <2> QED
    BY <2>1, <2>2, <2>3, <2>4, <2>5, <2>6, <2>7
<1> DEFINE Parity(v, i, k) == i \in FromInt(v, 32) <=> (v \div k) % 2 = 1
           Parities(v) == /\ Parity(v, 0, 1) /\ Parity(v, 1, 2) /\ Parity(v, 2, 4)
                          /\ Parity(v, 3, 8) /\ Parity(v, 4, 16)
<1>5. \A v \in Int : Parities(v) /\ Parity(v, 5, 32) /\ Parity(v, 6, 64)
  <2> SUFFICES ASSUME NEW v \in Int
               PROVE  Parities(v) /\ Parity(v, 5, 32) /\ Parity(v, 6, 64)
    OBVIOUS
  <2> QED
    BY BitsOfInt
<1>6. /\ Parities(g) /\ Parity(g, 5, 32) /\ Parity(g, 6, 64)
      /\ Parities(r) /\ Parities(f) /\ Parities(b) /\ Parities(m) /\ Parities(e)
  <2> HIDE DEF Parity, Parities
  <2> QED
    BY ONLY <1>1, <1>5
<1>7. /\ 0 \in FromInt(f, 32) <=> 0 \in FromInt(e, 32)
      /\ 1 \in FromInt(f, 32) <=> 1 \in FromInt(e, 32)
      /\ 2 \in FromInt(f, 32) <=> 2 \in FromInt(e, 32)
      /\ 0 \in FromInt(r, 32) <=> 3 \in FromInt(e, 32)
      /\ 1 \in FromInt(r, 32) <=> 4 \in FromInt(e, 32)
  BY ONLY <1>2, <1>3, <1>6
<1>8. /\ 2 \in FromInt(r, 32) <=> 0 \in FromInt(m, 32)
      /\ 3 \in FromInt(r, 32) <=> 1 \in FromInt(m, 32)
      /\ 4 \in FromInt(r, 32) <=> 2 \in FromInt(m, 32)
      /\ 0 \in FromInt(g, 32) <=> 3 \in FromInt(m, 32)
      /\ 1 \in FromInt(g, 32) <=> 4 \in FromInt(m, 32)
  BY ONLY <1>3, <1>4, <1>6
<1>9. /\ 2 \in FromInt(g, 32) <=> 0 \in FromInt(b, 32)
      /\ 3 \in FromInt(g, 32) <=> 1 \in FromInt(b, 32)
      /\ 4 \in FromInt(g, 32) <=> 2 \in FromInt(b, 32)
      /\ 5 \in FromInt(g, 32) <=> 3 \in FromInt(b, 32)
      /\ 6 \in FromInt(g, 32) <=> 4 \in FromInt(b, 32)
  BY ONLY <1>4, <1>6
<1> HIDE DEF Parity, Parities
<1>10. /\ \A j \in 0 .. 2 : j = 0 \/ j = 1 \/ j = 2
       /\ \A j \in 3 .. 4 : j = 3 \/ j = 4
       /\ \A j \in 0 .. 4 : j = 0 \/ j = 1 \/ j = 2 \/ j = 3 \/ j = 4
  OBVIOUS
<1>11. \A j \in 0 .. 2 : j \in FromInt(f, 32) <=> j \in FromInt(e, 32)
  BY ONLY <1>7, <1>10
<1>12. \A j \in 3 .. 4 : j - 3 \in FromInt(r, 32) <=> j \in FromInt(e, 32)
  BY ONLY <1>7, <1>10
<1>13. \A j \in 0 .. 2 : j + 2 \in FromInt(r, 32) <=> j \in FromInt(m, 32)
  BY ONLY <1>8, <1>10
<1>14. \A j \in 3 .. 4 : j - 3 \in FromInt(g, 32) <=> j \in FromInt(m, 32)
  BY ONLY <1>8, <1>10
<1>15. \A j \in 0 .. 4 : j + 2 \in FromInt(g, 32) <=> j \in FromInt(b, 32)
  BY ONLY <1>9, <1>10
<1> QED
  BY ONLY <1>11, <1>12, <1>13, <1>14, <1>15

LEMMA RlwimiDecode ==
  ASSUME NEW d \in RegIdx, NEW a \in RegIdx, NEW b \in RegIdx,
         NEW m \in RegIdx, NEW e \in RegIdx
  PROVE  Decodes(encode_rlwimi(d, a, b, m, e), "Custom",
                 [rd |-> d, rs1 |-> a, customSH |-> b % XLEN, customMB |-> m % XLEN,
                  customME |-> e % XLEN])
<1> DEFINE w  == encode_rlwimi(d, a, b, m, e)
           g  == 4 * b + (m \div 8)
           r  == 4 * (m % 8) + (e \div 8)
           f  == e % 8
           p1 == Slice(w, 14, 12)
           p2 == ShiftLeft(Slice(w, 24, 20), 3)
           p3 == ShiftLeft(Slice(w, 31, 25), 8)
           x  == CustomImm(w)
<1>1. d \in Int /\ a \in Int /\ g \in Int /\ r \in Int /\ f \in Int
  BY DEF RegIdx
<1>2. w = R(FromInt(11, 7), g, r, a, f, d)
  BY RlwimiParts
<1>3. /\ \A j \in 0 .. 2 : j \in FromInt(f, 32) <=> j \in FromInt(e, 32)
      /\ \A j \in 3 .. 4 : j - 3 \in FromInt(r, 32) <=> j \in FromInt(e, 32)
      /\ \A j \in 0 .. 2 : j + 2 \in FromInt(r, 32) <=> j \in FromInt(m, 32)
      /\ \A j \in 3 .. 4 : j - 3 \in FromInt(g, 32) <=> j \in FromInt(m, 32)
      /\ \A j \in 0 .. 4 : j + 2 \in FromInt(g, 32) <=> j \in FromInt(b, 32)
  <2>1. g = 4 * b + (m \div 8) /\ r = 4 * (m % 8) + (e \div 8) /\ f = e % 8
    OBVIOUS
  <2> HIDE DEF g, r, f
  <2> QED
    BY ONLY <2>1, RlwimiBits, b \in RegIdx, m \in RegIdx, e \in RegIdx
<1> HIDE DEF g, r, f, w
<1>4. /\ w \in SUBSET Int /\ Slice(w, 6, 0) = FromInt(11, 7) /\ Carries(w, 7, 11, d, 0)
      /\ Carries(w, 12, 14, f, 0) /\ Carries(w, 15, 19, a, 0) /\ Carries(w, 20, 24, r, 0)
      /\ Carries(w, 25, 31, g, 0)
  <2>1. FromInt(11, 7) \in SUBSET (0 .. 6)
    BY OpcodeType
  <2> QED
    BY <1>1, <1>2, <2>1, FormatR
<1>5. Decode(w).kind = "Custom"
  BY <1>4, KindDecodes DEF KindOf
<1>6. Decode(w).rd = d /\ Decode(w).rs1 = a
  BY <1>4, OperandsDecode
<1>7. p1 \in SUBSET Int /\ \A i \in Int : i \in p1 <=> i \in 0 .. 2 /\ i + 12 \in w
  BY <1>4, InSlice DEF Slice
<1>8. p2 \in SUBSET Int /\ \A i \in Int : i \in p2 <=> i \in 3 .. 7 /\ i + 17 \in w
  BY <1>4, SlicePlaced
<1>9. p3 \in SUBSET Int /\ \A i \in Int : i \in p3 <=> i \in 8 .. 14 /\ i + 17 \in w
  BY <1>4, SlicePlaced
<1>10. x = p1 \cup p2 \cup p3
  BY DEF CustomImm
<1> HIDE DEF p1, p2, p3, x
<1>11. x \in SUBSET Int
  BY <1>7, <1>8, <1>9, <1>10
<1>12. \A j \in 0 .. 4 : j + 0 \in x <=> j \in FromInt(e, 32)
  BY <1>3, <1>4, <1>7, <1>8, <1>9, <1>10, SMT DEF Carries
<1>13. \A j \in 0 .. 4 : j + 5 \in x <=> j \in FromInt(m, 32)
  BY <1>3, <1>4, <1>7, <1>8, <1>9, <1>10, SMT DEF Carries
<1>14. \A j \in 0 .. 4 : j + 10 \in x <=> j \in FromInt(b, 32)
  BY <1>3, <1>4, <1>7, <1>8, <1>9, <1>10, SMT DEF Carries
<1>15. /\ CustomField(w, 0) = e % XLEN
       /\ CustomField(w, 5) = m % XLEN
       /\ CustomField(w, 10) = b % XLEN
  BY <1>11, <1>12, <1>13, <1>14, CustomDecodes DEF CustomField, x
<1>16. /\ Decode(w).customME = e % XLEN
       /\ Decode(w).customMB = m % XLEN
       /\ Decode(w).customSH = b % XLEN
  BY <1>15 DEF Decode
<1> QED
  BY <1>5, <1>6, <1>16 DEF Decodes, w

----------------------------------------------------------------------------
(* The decoder inverts the assembler.                                      *)

OperandsTyped ==
  /\ rd \in RegIdx /\ rs1 \in RegIdx /\ rs2 \in RegIdx
  /\ funct3 \in 0 .. 7 /\ field \in 0 .. 4095 /\ opcode \in 0 .. 127

LEMMA OperandsInvariant == Spec => []OperandsTyped
<1>1. Init => OperandsTyped
  BY DEF Init, OperandsTyped, RegIdx
<1>2. OperandsTyped /\ [Next]_vars => OperandsTyped'
  <2> SUFFICES ASSUME OperandsTyped, [Next]_vars PROVE OperandsTyped'
    OBVIOUS
  <2>1. CASE NextOperand
    <3>1. Registers \subseteq RegIdx /\ Immediates \subseteq 0 .. 4095
      BY OperandAssumption DEF OperandAssumption
    <3>2. /\ rd' \in Registers \/ rd' = rd
          /\ rs1' \in Registers \/ rs1' = rs1
          /\ rs2' \in Registers \/ rs2' = rs2
          /\ funct3' \in 0 .. 7 \/ funct3' = funct3
          /\ field' \in Immediates \/ field' = field
          /\ opcode' = opcode
      BY <2>1 DEF NextOperand
    <3>3. rd' \in RegIdx /\ rs1' \in RegIdx /\ rs2' \in RegIdx
      BY <3>1, <3>2 DEF OperandsTyped
    <3>4. funct3' \in 0 .. 7 /\ opcode' \in 0 .. 127
      BY <3>2 DEF OperandsTyped
    <3>5. field' \in 0 .. 4095
      <4>1. CASE field' \in Immediates
        BY <3>1, <4>1
      <4>2. CASE field' = field
        BY <4>2 DEF OperandsTyped
      <4> QED
        BY <3>2, <4>1, <4>2
    <3> QED
      BY <3>3, <3>4, <3>5 DEF OperandsTyped
  <2>2. CASE NextOpcode
    BY <2>2 DEF NextOpcode, operands, OperandsTyped
  <2>3. CASE UNCHANGED vars
    BY <2>3 DEF vars, OperandsTyped
  <2> QED
    BY <2>1, <2>2, <2>3 DEF Next
<1> QED
  BY <1>1, <1>2, PTL DEF Spec

LEMMA ImmRange == field \in 0 .. 4095 => imm \in Int /\ -2048 <= imm /\ imm < 2048
BY DEF imm

\* FormatsDecode of DecoderReference: the word assembled from any registers, function
\* code and immediate, in each of the formats I, S, B, U and J, is taken apart into
\* these operands by the bit slices of class Decoder.
THEOREM FormatsDecodeCorrect == Spec => []FormatsDecode
<1>1. OperandsTyped => FormatsDecode
  <2> SUFFICES ASSUME OperandsTyped PROVE FormatsDecode
    OBVIOUS
  <2>1. /\ rd \in RegIdx /\ rs1 \in RegIdx /\ rs2 \in RegIdx /\ funct3 \in 0 .. 7
        /\ imm \in Int /\ -2048 <= imm /\ imm < 2048
    BY ImmRange DEF OperandsTyped
  <2> HIDE DEF imm
  <2>2. Below(imm, 11)
    BY <2>1 DEF Below
  <2>3. 2 * imm \in Int /\ (2 * imm) % 2 = 0 /\ Below(2 * imm, 12) /\ Below(2 * imm, 20)
    BY <2>1 DEF Below
  <2>4. 256 * imm \in Int /\ (256 * imm) % 2 = 0 /\ Below(256 * imm, 20)
    BY <2>1 DEF Below
  <2>5. Decodes(I(LOAD, imm, rs1, funct3, rd), "Load",
                [rd |-> rd, rs1 |-> rs1, funct3 |-> funct3, immI |-> FromInt(imm, XLEN)])
    BY <2>1, <2>2, LoadDecodes
  <2>6. Decodes(S(STORE, imm, rs2, rs1, funct3), "Store",
                [rs1 |-> rs1, rs2 |-> rs2, funct3 |-> funct3, immS |-> FromInt(imm, XLEN)])
    <3>1. StoreComesApart(imm, rs2, rs1, funct3)
      BY <2>1, <2>2, StoreDecodes
    <3> QED
      BY <3>1 DEF StoreComesApart
  <2>7. Decodes(B(BRANCH, 2 * imm, rs2, rs1, funct3), "Branch",
                [rs1 |-> rs1, rs2 |-> rs2, funct3 |-> funct3, immB |-> FromInt(2 * imm, XLEN)])
    <3>1. BranchComesApart(2 * imm, rs2, rs1, funct3)
      BY <2>1, <2>3, BranchDecodes
    <3> QED
      BY <3>1 DEF BranchComesApart
  <2>8. Decodes(jal(rd, 256 * imm), "JAL", [rd |-> rd, immJ |-> FromInt(256 * imm, XLEN)])
    BY <2>1, <2>4, JumpDecodes
  <2>9. Decodes(jal(rd, 2 * imm), "JAL", [rd |-> rd, immJ |-> FromInt(2 * imm, XLEN)])
    BY <2>1, <2>3, JumpDecodes
  <2>10. Decodes(lui(rd, imm), "LUI", [rd |-> rd, immU |-> FromInt(4096 * imm, XLEN)])
    BY <2>1, <2>2, UpperDecodes
  <2> QED
    BY <2>5, <2>6, <2>7, <2>8, <2>9, <2>10 DEF FormatsDecode
<1> QED
  BY <1>1, OperandsInvariant, PTL

\* RlwimiDecodes of DecoderReference: SH, MB and ME, which the testbenches pack across
\* funct7, rs2 and funct3, come out of customImm as the low SHAMTW bits of each.
THEOREM RlwimiDecodesCorrect == Spec => []RlwimiDecodes
<1>1. OperandsTyped => RlwimiDecodes
  <2> SUFFICES ASSUME OperandsTyped, NEW mb \in Registers
               PROVE  Decodes(encode_rlwimi(rd, rs1, rs2, mb, rd), "Custom",
                        [rd |-> rd, rs1 |-> rs1, customSH |-> rs2 % XLEN,
                         customMB |-> mb % XLEN, customME |-> rd % XLEN])
    BY DEF RlwimiDecodes
  <2>1. mb \in RegIdx
    BY OperandAssumption DEF OperandAssumption
  <2> QED
    BY <2>1, RlwimiDecode DEF OperandsTyped
<1> QED
  BY <1>1, OperandsInvariant, PTL

\* The bits of a word at the place of funct3 are the number it carries there.
LEMMA Funct3IsNumber ==
  ASSUME NEW w \in SUBSET Int, NEW n \in Int, Carries(w, 12, 14, n, 0)
  PROVE  Slice(w, 14, 12) = FromInt(n, 3)
<1> DEFINE lo == 12
           hi == 14
           k  == 3
<1>1. hi = lo + k - 1 /\ k \in 0 .. 32 /\ lo \in Nat /\ hi \in Int
  OBVIOUS
<1>2. Carries(w, lo, hi, n, 0)
  OBVIOUS
<1> HIDE DEF lo, hi, k
<1>3. Slice(w, hi, lo) = FromInt(n, k)
  BY ONLY <1>1, <1>2, SliceIsNumber, Zenon
<1> QED
  BY ONLY <1>3 DEF lo, hi, k

\* And the upper twelve bits.
LEMMA UpperIsNumber ==
  ASSUME NEW w \in SUBSET Int, NEW n \in Int, Carries(w, 20, 31, n, 0)
  PROVE  Slice(w, 31, 20) = FromInt(n, 12)
<1> DEFINE lo == 20
           hi == 31
           k  == 12
<1>1. hi = lo + k - 1 /\ k \in 0 .. 32 /\ lo \in Nat /\ hi \in Int
  OBVIOUS
<1>2. Carries(w, lo, hi, n, 0)
  OBVIOUS
<1> HIDE DEF lo, hi, k
<1>3. Slice(w, hi, lo) = FromInt(n, k)
  BY ONLY <1>1, <1>2, SliceIsNumber, Zenon
<1> QED
  BY ONLY <1>3 DEF lo, hi, k

\* KindIsByOpcode of DecoderReference: the kind, that is which one of the flags isRType
\* .. isCustom and illegal is set, depends on the opcode, and for SYSTEM on funct3 and
\* the upper twelve bits, as a table of opcode numbers says.
THEOREM KindIsByOpcodeCorrect == Spec => []KindIsByOpcode
<1>1. OperandsTyped => KindIsByOpcode
  <2> SUFFICES ASSUME OperandsTyped, NEW f \in 0 .. 7, NEW n \in {0, 1} \cup Immediates
               PROVE  Kind(I(FromInt(opcode, 7), n, 0, f, 0)) = KindOf(opcode, f, n)
    BY DEF KindIsByOpcode
  <2> DEFINE w == I(FromInt(opcode, 7), n, 0, f, 0)
  <2>1. n \in Int /\ 0 <= n /\ n < 4096
    BY OperandAssumption DEF OperandAssumption
  <2>2. opcode \in 0 .. 127 /\ FromInt(opcode, 7) \in SUBSET (0 .. 6)
    BY OpcodeType DEF OperandsTyped
  <2>3. /\ w \in SUBSET Int /\ Slice(w, 6, 0) = FromInt(opcode, 7)
        /\ Carries(w, 12, 14, f, 0) /\ Carries(w, 20, 31, n, 0)
    BY <2>1, <2>2, FormatI
  <2> HIDE DEF w
  <2>4. Slice(w, 14, 12) = FromInt(f, 3)
    BY <2>3, Funct3IsNumber
  <2>5. Slice(w, 31, 20) = FromInt(n, 12)
    BY <2>1, <2>3, UpperIsNumber
  <2>6. Slice(w, 14, 12) = {} <=> f = 0
    BY <2>4, ThreeBits
  <2>7. (Slice(w, 31, 20) = {} <=> n = 0) /\ (Slice(w, 31, 20) = {0} <=> n = 1)
    BY <2>1, <2>5, TwelveBits
  <2>8. Kind(w) = KindOf(opcode, f, n)
    BY <2>2, <2>3, <2>6, <2>7, KindOfWord
  <2> QED
    BY <2>8 DEF w
<1> QED
  BY <1>1, OperandsInvariant, PTL

==============================================================================
