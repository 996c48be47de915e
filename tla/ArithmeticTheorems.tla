------------------------- MODULE ArithmeticTheorems -------------------------
(***************************************************************************)
(* The combinational blocks compute what the reference says of them, at    *)
(* every register width: ALU and BranchUnit are the arithmetic of numbers, *)
(* a load reads back what the store of its width wrote, and rlwimi inserts *)
(* the field it is asked to insert.                                        *)
(*                                                                         *)
(* The number of a word is a sum over its bits, a recursive function.      *)
(* What it is follows by induction on the number of bits, and induction    *)
(* and recursion over the natural numbers from their well-foundedness.     *)
(***************************************************************************)
EXTENDS DatapathReference, WellFoundedInduction, TLAPS

----------------------------------------------------------------------------
(* Induction and recursion over the natural numbers.                       *)

\* "Less than" on the natural numbers, as a relation.
LEMMA LessThan == \E R : IsWellFoundedOn(R, Nat) /\ \A m, n \in Nat : <<m, n>> \in R <=> m < n
<1> DEFINE R == OpToRel(<, Nat)
<1>1. IsWellFoundedOn(R, Nat)
  BY NatLessThanWellFounded
<1>2. \A m, n \in Nat : <<m, n>> \in R <=> m < n
  BY DEF OpToRel
<1> HIDE DEF R
<1> QED
  BY <1>1, <1>2

\* A set of numbers has a least one.
LEMMA LeastElement ==
  ASSUME NEW T, T \subseteq Nat, T # {}
  PROVE  \E m \in T : \A n \in T : m <= n
<1>1. PICK R : IsWellFoundedOn(R, Nat) /\ \A m, n \in Nat : <<m, n>> \in R <=> m < n
  BY LessThan
<1>2. PICK m \in T : \A n \in T : ~ (<<n, m>> \in R)
  <2>1. IsWellFoundedOn(R, Nat) /\ T \subseteq Nat /\ T # {}
    BY <1>1
  <2> QED
    BY ONLY <2>1, WFMin
<1>3. \A n \in T : n \in Nat /\ ~ (n < m)
  BY <1>1, <1>2
<1>4. \A n \in T : m <= n
  BY <1>3
<1> QED
  BY <1>4

\* Induction, on a set of numbers.
LEMMA Induction ==
  ASSUME NEW S, S \subseteq Nat, 0 \in S, \A n \in S : n + 1 \in S
  PROVE  S = Nat
<1> SUFFICES ASSUME Nat \ S # {} PROVE FALSE
  OBVIOUS
<1>1. PICK m \in Nat \ S : \A n \in Nat \ S : m <= n
  BY LeastElement
<1>2. m - 1 \in Nat /\ m - 1 \notin Nat \ S
  BY <1>1
<1> QED
  BY <1>1, <1>2

\* A function on the numbers is given by its first value and by its steps, here
\* step[n][r] from the value r at n to the one at n + 1.
Follows(f, a, step) ==
  f = [n \in Nat |-> IF n = 0 THEN a ELSE step[n - 1][f[n - 1]]]

LEMMA Recursion ==
  ASSUME NEW a \in Int, NEW step \in [Nat -> [Int -> Int]]
  PROVE  \E f \in [Nat -> Int] : Follows(f, a, step)
<1> DEFINE Part(g, n) == /\ g \in [0 .. n -> Int] /\ g[0] = a
                         /\ \A k \in 0 .. n - 1 : g[k + 1] = step[k][g[k]]
           S == {n \in Nat : \E g : Part(g, n)}
<1>1. 0 \in S
  <2>1. Part([k \in 0 .. 0 |-> a], 0)
    OBVIOUS
  <2> QED
    BY <2>1
<1>2. ASSUME NEW n \in S PROVE n + 1 \in S
  <2>0. n \in Nat
    BY <1>2
  <2>1. PICK g : Part(g, n)
    BY <1>2
  <2> HIDE DEF S
  <2> DEFINE h == [k \in 0 .. n + 1 |-> IF k = n + 1 THEN step[n][g[n]] ELSE g[k]]
  <2>2. h \in [0 .. n + 1 -> Int] /\ h[0] = a
    <3>1. step[n][g[n]] \in Int /\ \A k \in 0 .. n : g[k] \in Int
      BY <2>0, <2>1
    <3>2. \A k \in 0 .. n + 1 : k # n + 1 => k \in 0 .. n
      BY <2>0
    <3>3. 0 \in 0 .. n + 1 /\ 0 # n + 1
      BY <2>0
    <3> QED
      BY <2>1, <3>1, <3>2, <3>3
  <2>3. ASSUME NEW k \in 0 .. (n + 1) - 1 PROVE h[k + 1] = step[k][h[k]]
    <3>1. /\ k \in 0 .. n + 1 /\ k # n + 1 /\ k + 1 \in 0 .. n + 1 /\ (k + 1 = n + 1 <=> k = n)
          /\ k # n => k \in 0 .. n - 1
      BY <2>0
    <3>2. h[k] = g[k]
      BY <3>1
    <3>3. k = n => h[k + 1] = step[n][g[n]]
      BY <3>1
    <3>4. k # n => h[k + 1] = g[k + 1]
      BY <3>1
    <3> QED
      BY <2>1, <3>1, <3>2, <3>3, <3>4
  <2>4. Part(h, n + 1)
    BY <2>2, <2>3
  <2> HIDE DEF Part, h
  <2> QED
    BY <2>0, <2>4 DEF S
<1>3. S = Nat
  <2> HIDE DEF S
  <2>1. S \subseteq Nat
    BY DEF S
  <2> QED
    BY <1>1, <1>2, <2>1, Induction
<1>4. ASSUME NEW n \in Nat, NEW m \in 0 .. n, NEW g, NEW h, Part(g, m), Part(h, n)
      PROVE  g[m] = h[m]
  <2> DEFINE E == {k \in Nat : k <= m => g[k] = h[k]}
  <2>1. 0 \in E
    BY <1>4
  <2>2. ASSUME NEW k \in E PROVE k + 1 \in E
    <3> SUFFICES ASSUME k + 1 <= m PROVE g[k + 1] = h[k + 1]
      OBVIOUS
    <3>1. k \in 0 .. m - 1 /\ k \in 0 .. n - 1 /\ k <= m
      OBVIOUS
    <3> QED
      BY <1>4, <2>2, <3>1
  <2>3. E = Nat
    <3> HIDE DEF E
    <3>1. E \subseteq Nat
      BY DEF E
    <3> QED
      BY <2>1, <2>2, <3>1, Induction
  <2> QED
    BY <2>3
<1> DEFINE G(n) == CHOOSE g : Part(g, n)
           f == [n \in Nat |-> G(n)[n]]
<1>5. \A n \in Nat : Part(G(n), n)
  BY <1>3
<1> HIDE DEF S
<1>6. f \in [Nat -> Int]
  <2>1. ASSUME NEW n \in Nat PROVE G(n)[n] \in Int
    <3>1. n \in 0 .. n
      OBVIOUS
    <3>2. \A g : Part(g, n) => g[n] \in Int
      BY <3>1
    <3> HIDE DEF G, Part
    <3> QED
      BY <1>5, <3>2
  <2> HIDE DEF G
  <2> QED
    BY <2>1
<1>7. f[0] = a
  BY <1>5
<1>8. ASSUME NEW n \in Nat, n # 0 PROVE f[n] = step[n - 1][f[n - 1]]
  <2>1. n - 1 \in Nat /\ n - 1 \in 0 .. n /\ n - 1 \in 0 .. n - 1 /\ (n - 1) + 1 = n
    BY <1>8
  <2>2. Part(G(n), n) /\ Part(G(n - 1), n - 1)
    BY <1>5, <2>1
  <2> HIDE DEF G
  <2>3. G(n)[n] = step[n - 1][G(n)[n - 1]]
    BY <2>1, <2>2
  <2>4. G(n - 1)[n - 1] = G(n)[n - 1]
    <3> HIDE DEF Part
    <3> QED
      BY <1>4, <2>1, <2>2
  <2> QED
    BY <2>1, <2>3, <2>4
<1> HIDE DEF f
<1>9. f = [n \in Nat |-> IF n = 0 THEN a ELSE step[n - 1][f[n - 1]]]
  BY <1>6, <1>7, <1>8
<1> QED
  BY <1>6, <1>9 DEF Follows

----------------------------------------------------------------------------
(* Numbers of words.                                                       *)

\* The powers of two, as Pow2 defines them.
LEMMA Powers ==
  /\ Pow2[0] = 1
  /\ \A n \in Nat : Pow2[n] \in Nat \ {0} /\ Pow2[n + 1] = 2 * Pow2[n]
<1> DEFINE step == [n \in Nat |-> [r \in Int |-> 2 * r]]
           D(f) == f = [n \in Nat |-> IF n = 0 THEN 1 ELSE 2 * f[n - 1]]
<1>1. \E f : D(f)
  <2>1. step \in [Nat -> [Int -> Int]]
    OBVIOUS
  <2> HIDE DEF step
  <2>2. PICK f \in [Nat -> Int] : Follows(f, 1, step)
    BY <2>1, Recursion
  <2>3. \A n \in Nat \ {0} : step[n - 1][f[n - 1]] = 2 * f[n - 1]
    BY DEF step
  <2>4. D(f)
    BY <2>2, <2>3 DEF Follows
  <2> QED
    BY <2>4
<1> HIDE DEF step
<1>2. D(Pow2)
  BY <1>1 DEF Pow2
<1>3. Pow2[0] = 1 /\ DOMAIN Pow2 = Nat
  BY <1>2
<1>4. ASSUME NEW n \in Nat PROVE Pow2[n + 1] = 2 * Pow2[n]
  <2>1. n + 1 \in Nat /\ n + 1 # 0 /\ (n + 1) - 1 = n
    OBVIOUS
  <2> QED
    BY <1>2, <2>1
<1>5. Pow2 = [n \in Nat |-> Pow2[n]]
  BY <1>2
<1>6. \A n \in Nat : Pow2[n] \in Nat \ {0}
  <2> DEFINE E == {n \in Nat : Pow2[n] \in Nat \ {0}}
  <2>1. 0 \in E
    BY <1>3
  <2>2. ASSUME NEW n \in E PROVE n + 1 \in E
    <3>1. n \in Nat /\ Pow2[n] \in Nat \ {0} /\ Pow2[n + 1] = 2 * Pow2[n]
      BY <1>4
    <3> QED
      BY <3>1
  <2>3. E \subseteq Nat
    OBVIOUS
  <2> HIDE DEF E
  <2>4. E = Nat
    BY <2>1, <2>2, <2>3, Induction
  <2> QED
    BY <2>4 DEF E
<1> QED
  BY <1>3, <1>4, <1>6

\* The number of the low bits of a word, bit by bit.
Bit(w, n) == IF n \in w THEN Pow2[n] ELSE 0

LEMMA LowBits ==
  ASSUME NEW w
  PROVE  /\ Low(w, 0) = 0
         /\ \A n \in Nat : Low(w, n) \in Nat /\ Low(w, n + 1) = Low(w, n) + Bit(w, n)
<1> DEFINE step == [n \in Nat |-> [r \in Int |-> r + Bit(w, n)]]
           D(f) == f = [k \in Nat |-> IF k = 0 THEN 0
                                      ELSE f[k - 1] + (IF k - 1 \in w THEN Pow2[k - 1] ELSE 0)]
           sum == CHOOSE f : D(f)
<1>0. \A n \in Nat : Bit(w, n) \in Nat
  BY Powers DEF Bit
<1>1. \E f : D(f)
  <2>1. step \in [Nat -> [Int -> Int]]
    BY <1>0
  <2> HIDE DEF step
  <2>2. PICK f \in [Nat -> Int] : Follows(f, 0, step)
    BY <2>1, Recursion
  <2>3. \A k \in Nat \ {0} : step[k - 1][f[k - 1]] = f[k - 1] + Bit(w, k - 1)
    <3> SUFFICES ASSUME NEW k \in Nat \ {0}
                 PROVE  step[k - 1][f[k - 1]] = f[k - 1] + Bit(w, k - 1)
      OBVIOUS
    <3>1. k - 1 \in Nat /\ f[k - 1] \in Int
      OBVIOUS
    <3> QED
      BY <3>1 DEF step
  <2>4. D(f)
    BY <2>2, <2>3 DEF Follows, Bit
  <2> QED
    BY <2>4
<1> HIDE DEF step
<1>2. D(sum)
  BY <1>1
<1>3. \A n : Low(w, n) = sum[n]
  BY DEF Low
<1> HIDE DEF sum
<1>4. sum[0] = 0
  BY <1>2
<1>5. ASSUME NEW n \in Nat PROVE sum[n + 1] = sum[n] + Bit(w, n)
  <2>1. n + 1 \in Nat /\ n + 1 # 0 /\ (n + 1) - 1 = n
    OBVIOUS
  <2> QED
    BY <1>2, <2>1 DEF Bit
<1>6. \A n \in Nat : sum[n] \in Nat
  <2> DEFINE E == {n \in Nat : sum[n] \in Nat}
  <2>1. 0 \in E
    BY <1>4
  <2>2. ASSUME NEW n \in E PROVE n + 1 \in E
    <3>1. n \in Nat /\ sum[n] \in Nat /\ sum[n + 1] = sum[n] + Bit(w, n) /\ Bit(w, n) \in Nat
      BY <1>0, <1>5
    <3> QED
      BY <3>1
  <2>3. E \subseteq Nat
    OBVIOUS
  <2> HIDE DEF E
  <2>4. E = Nat
    BY <2>1, <2>2, <2>3, Induction
  <2> QED
    BY <2>4 DEF E
<1> QED
  BY <1>3, <1>4, <1>5, <1>6

\* The same at one position.
LEMMA LowStep ==
  ASSUME NEW w, NEW n \in Nat
  PROVE  /\ Low(w, 0) = 0 /\ Low(w, n) \in Nat
         /\ Low(w, n + 1) = Low(w, n) + Bit(w, n)
BY LowBits

\* n bits stand for a number below 2^n.
LEMMA LowRange ==
  ASSUME NEW w
  PROVE  \A n \in Nat : Low(w, n) \in 0 .. Pow2[n] - 1
<1> DEFINE E == {n \in Nat : Low(w, n) < Pow2[n]}
<1>1. 0 \in E
  BY LowBits, Powers
<1>2. ASSUME NEW n \in E PROVE n + 1 \in E
  <2>1. /\ n \in Nat /\ Low(w, n) < Pow2[n] /\ Low(w, n) \in Nat
        /\ Low(w, n + 1) = Low(w, n) + Bit(w, n)
        /\ Pow2[n] \in Nat /\ Pow2[n + 1] = 2 * Pow2[n]
    BY LowBits, Powers
  <2>2. Bit(w, n) \in {0, Pow2[n]}
    BY DEF Bit
  <2>3. Low(w, n + 1) < Pow2[n + 1]
    BY <2>1, <2>2
  <2> QED
    BY <2>1, <2>3
<1>3. E \subseteq Nat
  OBVIOUS
<1> HIDE DEF E
<1>4. E = Nat
  BY <1>1, <1>2, <1>3, Induction
<1>5. \A n \in Nat : Low(w, n) < Pow2[n] /\ Low(w, n) \in Nat /\ Pow2[n] \in Nat
  BY <1>4, LowBits, Powers DEF E
<1> QED
  BY <1>5

\* Only the bits count.
LEMMA SameBits ==
  ASSUME NEW v, NEW w, NEW m \in Nat, \A i \in 0 .. m - 1 : i \in v <=> i \in w
  PROVE  Low(v, m) = Low(w, m)
<1> DEFINE E == {n \in Nat : n <= m => Low(v, n) = Low(w, n)}
<1>1. 0 \in E
  BY LowBits
<1>2. ASSUME NEW n \in E PROVE n + 1 \in E
  <2>1. n \in Nat
    OBVIOUS
  <2>2. ASSUME n + 1 <= m PROVE Low(v, n + 1) = Low(w, n + 1)
    <3>1. n \in 0 .. m - 1 /\ n <= m
      BY <2>1, <2>2
    <3>2. Low(v, n) = Low(w, n) /\ Bit(v, n) = Bit(w, n)
      BY <3>1 DEF Bit
    <3>3. Low(v, n + 1) = Low(v, n) + Bit(v, n)
      BY <2>1, LowBits
    <3>4. Low(w, n + 1) = Low(w, n) + Bit(w, n)
      BY <2>1, LowBits
    <3> QED
      BY <3>2, <3>3, <3>4
  <2> QED
    BY <2>1, <2>2
<1>3. E \subseteq Nat
  OBVIOUS
<1> HIDE DEF E
<1>4. E = Nat
  BY <1>1, <1>2, <1>3, Induction
<1> QED
  BY <1>4 DEF E

\* Powers multiply.
LEMMA PowerOfSum ==
  ASSUME NEW m \in Nat
  PROVE  \A k \in Nat : Pow2[m + k] = Pow2[m] * Pow2[k]
<1> DEFINE E == {k \in Nat : Pow2[m + k] = Pow2[m] * Pow2[k]}
<1>1. 0 \in E
  BY Powers
<1>2. ASSUME NEW k \in E PROVE k + 1 \in E
  <2>1. /\ k \in Nat /\ Pow2[m + k] = Pow2[m] * Pow2[k]
        /\ Pow2[m] \in Int /\ Pow2[k] \in Int /\ Pow2[k + 1] = 2 * Pow2[k]
    BY Powers
  <2>2. Pow2[(m + k) + 1] = 2 * Pow2[m + k] /\ (m + k) + 1 = m + (k + 1)
    BY <2>1, Powers
  <2>3. \A a, b \in Int : 2 * (a * b) = a * (2 * b)
    OBVIOUS
  <2>4. Pow2[m + (k + 1)] = Pow2[m] * Pow2[k + 1]
    BY <2>1, <2>2, <2>3
  <2> QED
    BY <2>1, <2>4
<1>3. E \subseteq Nat
  OBVIOUS
<1> HIDE DEF E
<1>4. E = Nat
  BY <1>1, <1>2, <1>3, Induction
<1> QED
  BY <1>4 DEF E

\* The bits from m on, moved to the bottom, stand for the quotient by 2^m.
LEMMA LowAndHigh ==
  ASSUME NEW w, NEW v, NEW m \in Nat, NEW k \in Nat,
         \A i \in 0 .. k - 1 : i \in v <=> i + m \in w
  PROVE  Low(w, m + k) = Low(w, m) + Pow2[m] * Low(v, k)
<1> DEFINE E == {n \in Nat : n <= k => Low(w, m + n) = Low(w, m) + Pow2[m] * Low(v, n)}
<1>0. Pow2[m] \in Nat /\ Pow2[m] * 0 = 0
  <2>1. Pow2[m] \in Nat
    BY Powers
  <2> QED
    BY <2>1
<1>1. 0 \in E
  <2> HIDE DEF E
  <2>1. m + 0 = m /\ Low(w, m) \in Nat
    BY LowStep
  <2>3. Low(v, 0) = 0
    BY LowStep
  <2> USE DEF E
  <2>2. Low(w, m + 0) = Low(w, m) + Pow2[m] * Low(v, 0)
    BY <1>0, <2>1, <2>3
  <2> QED
    BY <2>2
<1>2. ASSUME NEW n \in E PROVE n + 1 \in E
  <2>1. n \in Nat
    OBVIOUS
  <2>2. ASSUME n + 1 <= k PROVE Low(w, m + (n + 1)) = Low(w, m) + Pow2[m] * Low(v, n + 1)
    <3>1. n \in 0 .. k - 1 /\ n <= k /\ m + n \in Nat /\ (m + n) + 1 = m + (n + 1) /\ n + m = m + n
      BY <2>1, <2>2
    <3>2. Low(w, m + n) = Low(w, m) + Pow2[m] * Low(v, n)
      BY <3>1
    <3>3. Bit(w, m + n) = Pow2[m] * Bit(v, n)
      <4>1. Pow2[m + n] = Pow2[m] * Pow2[n]
        BY <2>1, PowerOfSum
      <4>2. n \in v <=> m + n \in w
        BY <3>1
      <4> QED
        BY <1>0, <4>1, <4>2 DEF Bit
    <3>4. /\ Low(w, (m + n) + 1) = Low(w, m + n) + Bit(w, m + n)
          /\ Low(v, n + 1) = Low(v, n) + Bit(v, n)
      BY <2>1, <3>1, LowBits
    <3>5. \A a, b, c, d \in Int : (a + b * c) + b * d = a + b * (c + d)
      OBVIOUS
    <3>6. Low(w, m) \in Int /\ Pow2[m] \in Int /\ Low(v, n) \in Int /\ Bit(v, n) \in Int
      <4> HIDE DEF E
      <4>1. Low(w, m) \in Int
        BY LowStep
      <4>2. Low(v, n) \in Int
        BY <2>1, LowStep
      <4>3. Bit(v, n) \in Int
        BY <2>1, Powers DEF Bit
      <4> QED
        BY <1>0, <4>1, <4>2, <4>3
    <3>7. Low(w, m + (n + 1)) = (Low(w, m) + Pow2[m] * Low(v, n)) + Pow2[m] * Bit(v, n)
      BY <3>1, <3>2, <3>3, <3>4
    <3> QED
      BY <3>4, <3>5, <3>6, <3>7
  <2> QED
    BY <2>1, <2>2
<1>3. E \subseteq Nat
  OBVIOUS
<1> HIDE DEF E
<1>4. E = Nat
  BY <1>1, <1>2, <1>3, Induction
<1> QED
  BY <1>4 DEF E

\* Quotient and remainder are what they have to be.
LEMMA Division ==
  ASSUME NEW d \in Nat \ {0}, NEW q \in Int, NEW r \in 0 .. d - 1
  PROVE  (r + d * q) \div d = q /\ (r + d * q) % d = r
<1>0. ASSUME NEW n \in Int, n = r + d * q PROVE n \div d = q /\ n % d = r
  <2> DEFINE e == n \div d
             o == n % d
  <2>1. e \in Int /\ o \in 0 .. d - 1 /\ n = d * e + o
    OBVIOUS
  <2> HIDE DEF e, o
  <2>2. d * (q - e) = o - r
    BY <1>0, <2>1
  <2>3. \A t \in Int : t >= 1 => d * t >= d
    OBVIOUS
  <2>4. \A t \in Int : t <= -1 => d * t <= - d
    OBVIOUS
  <2>5. o - r < d /\ o - r > - d
    BY <2>1
  <2>6. q - e \in Int /\ ~ (q - e >= 1) /\ ~ (q - e <= -1)
    BY <2>1, <2>2, <2>3, <2>4, <2>5
  <2>7. q = e
    BY <2>1, <2>6
  <2>8. o = r
    BY <1>0, <2>1, <2>7
  <2> QED
    BY <2>7, <2>8 DEF e, o
<1>1. r + d * q \in Int
  OBVIOUS
<1> QED
  BY <1>0, <1>1

----------------------------------------------------------------------------
(* rlwimi.                                                                 *)

\* XLEN is a natural number for which remainders are known.
LEMMA Remainders ==
  /\ XLEN \in Nat /\ 4 <= XLEN
  /\ \A n \in 0 .. XLEN - 1 : n % XLEN = n
  /\ \A n \in XLEN .. 2 * XLEN - 1 : n % XLEN = n - XLEN
BY DatapathAssumption DEF DatapathAssumption

\* The mask holds bits MB .. ME, numbered from the most significant one.
LEMMA MaskBits ==
  ASSUME NEW mb \in BitNumber, NEW me \in BitNumber, mb <= me, ~ (mb = 0 /\ me = XLEN - 1),
         NEW i \in BitNumber
  PROVE  XLEN - 1 - i \in PpcMask(mb, me) <=> mb <= i /\ i <= me
<1>1. (me - mb + 1) % XLEN = me - mb + 1
  BY Remainders DEF BitNumber
<1>2. PpcMask(mb, me) = {l + (XLEN - 1 - me) : l \in 0 .. me - mb}
  <2>1. PpcMask(mb, me) = ShiftLeft(Bits(me - mb + 1), XLEN - 1 - me)
    BY <1>1 DEF PpcMask
  <2>2. (me - mb + 1) - 1 = me - mb
    BY Remainders DEF BitNumber
  <2> QED
    BY <2>1, <2>2 DEF ShiftLeft, Bits
<1>3. ASSUME mb <= i, i <= me PROVE XLEN - 1 - i \in PpcMask(mb, me)
  <2>1. me - i \in 0 .. me - mb /\ (me - i) + (XLEN - 1 - me) = XLEN - 1 - i
    BY <1>3, Remainders DEF BitNumber
  <2> QED
    BY <1>2, <2>1
<1>4. ASSUME XLEN - 1 - i \in PpcMask(mb, me) PROVE mb <= i /\ i <= me
  <2>1. PICK l \in 0 .. me - mb : XLEN - 1 - i = l + (XLEN - 1 - me)
    BY <1>2, <1>4
  <2> QED
    BY <2>1, Remainders DEF BitNumber
<1> QED
  BY <1>3, <1>4

\* Rotation to the left by sh moves bit i + sh to bit i, around the end.
LEMMA RotatedBits ==
  ASSUME NEW w \in Data, NEW sh \in BitNumber, NEW i \in BitNumber
  PROVE  XLEN - 1 - i \in Rotl(w, sh) <=> MsbBit(w, (i + sh) % XLEN)
<1> DEFINE k == XLEN - 1 - i
           doubled == w \cup ShiftLeft(w, XLEN)
<1>0. w \in SUBSET (0 .. XLEN - 1)
  BY DEF Data, Word, Bits
<1>1. k \in Rotl(w, sh) <=> k + (XLEN - sh) \in doubled
  <2>1. doubled \in SUBSET Int
    <3>1. \A j \in w : j \in Int /\ j + XLEN \in Int
      BY <1>0, Remainders
    <3> QED
      BY <3>1 DEF ShiftLeft
  <2> HIDE DEF doubled
  <2>2. k \in ShiftRight(doubled, XLEN - sh) <=> k + (XLEN - sh) \in doubled
    <3>1. ASSUME k \in ShiftRight(doubled, XLEN - sh) PROVE k + (XLEN - sh) \in doubled
      <4>1. PICK j \in doubled : k = j - (XLEN - sh)
        BY <3>1 DEF ShiftRight
      <4>2. j = k + (XLEN - sh)
        BY <4>1, <2>1, Remainders DEF BitNumber
      <4> QED
        BY <4>1, <4>2
    <3>2. ASSUME k + (XLEN - sh) \in doubled PROVE k \in ShiftRight(doubled, XLEN - sh)
      <4>1. XLEN - sh <= k + (XLEN - sh) /\ k = (k + (XLEN - sh)) - (XLEN - sh)
        BY Remainders DEF BitNumber
      <4> QED
        BY <3>2, <4>1 DEF ShiftRight
    <3> QED
      BY <3>1, <3>2
  <2>3. k < XLEN
    BY Remainders DEF BitNumber
  <2>4. Rotl(w, sh) = Truncate(ShiftRight(doubled, XLEN - sh), XLEN)
    BY DEF Rotl, doubled
  <2> QED
    BY <2>2, <2>3, <2>4 DEF Truncate
<1>2. k + (XLEN - sh) \in ShiftLeft(w, XLEN) <=> k - sh \in w
  <2>1. ASSUME k + (XLEN - sh) \in ShiftLeft(w, XLEN) PROVE k - sh \in w
    <3>1. PICK j \in w : k + (XLEN - sh) = j + XLEN
      BY <2>1 DEF ShiftLeft
    <3>2. j = k - sh
      BY <3>1, <1>0, Remainders DEF BitNumber
    <3> QED
      BY <3>1, <3>2
  <2>2. ASSUME k - sh \in w PROVE k + (XLEN - sh) \in ShiftLeft(w, XLEN)
    <3>1. k + (XLEN - sh) = (k - sh) + XLEN
      BY Remainders DEF BitNumber
    <3> QED
      BY <2>2, <3>1 DEF ShiftLeft
  <2> QED
    BY <2>1, <2>2
<1>3. k \in Rotl(w, sh) <=> k + (XLEN - sh) \in w \/ k - sh \in w
  BY <1>1, <1>2
<1>4. CASE i + sh < XLEN
  <2>1. (i + sh) % XLEN = i + sh
    BY <1>4, Remainders DEF BitNumber
  <2>2. k + (XLEN - sh) \notin w /\ k - sh = XLEN - 1 - (i + sh)
    BY <1>4, <1>0, Remainders DEF BitNumber
  <2> QED
    BY <1>3, <2>1, <2>2 DEF MsbBit
<1>5. CASE i + sh >= XLEN
  <2>1. (i + sh) % XLEN = i + sh - XLEN
    BY <1>5, Remainders DEF BitNumber
  <2>2. k - sh \notin w /\ k + (XLEN - sh) = XLEN - 1 - (i + sh - XLEN)
    BY <1>5, <1>0, Remainders DEF BitNumber
  <2> QED
    BY <1>3, <2>1, <2>2 DEF MsbBit
<1> QED
  BY <1>4, <1>5, Remainders DEF BitNumber

\* The operands stay words.
LEMMA OperandsAreWords == Spec => [](x \in Data /\ y \in Data)
<1>1. Init => x \in Data /\ y \in Data
  BY DEF Init, Data, Word
<1>2. (x \in Data /\ y \in Data) /\ [Next]_vars => (x \in Data /\ y \in Data)'
  BY DEF Next, vars
<1> QED
  BY <1>1, <1>2, PTL DEF Spec

\* rlwimi inserts bits MB .. ME of the rotated source into rd and keeps the other
\* bits of rd, for every pair of operands and every field but the whole word, at
\* every register width (object CustomOp).
THEOREM RlwimiCorrect == Spec => []RlwimiInsertsField
<1>1. x \in Data /\ y \in Data => RlwimiInsertsField
  <2> SUFFICES ASSUME x \in Data, y \in Data,
                      NEW sh \in BitNumber, NEW mb \in BitNumber, NEW me \in BitNumber,
                      mb <= me, ~ (mb = 0 /\ me = XLEN - 1), NEW i \in BitNumber
               PROVE  MsbBit(CustomOp[sh][mb][me][x][y], i) =
                        IF mb <= i /\ i <= me THEN MsbBit(x, (i + sh) % XLEN) ELSE MsbBit(y, i)
    BY DEF RlwimiInsertsField, InsertsField
  <2>1. CustomOp[sh][mb][me][x][y] =
          (Rotl(x, sh) \cap PpcMask(mb, me)) \cup (y \ PpcMask(mb, me))
    BY DEF CustomOp
  <2>2. XLEN - 1 - i \in PpcMask(mb, me) <=> mb <= i /\ i <= me
    BY MaskBits
  <2>3. XLEN - 1 - i \in Rotl(x, sh) <=> MsbBit(x, (i + sh) % XLEN)
    BY RotatedBits
  <2> QED
    BY <2>1, <2>2, <2>3 DEF MsbBit
<1> QED
  BY <1>1, OperandsAreWords, PTL

----------------------------------------------------------------------------
(* Comparisons.                                                            *)

\* At the highest of the low n positions where they differ, b has a 1.
Below(a, b, n) ==
  \E i \in 0 .. n - 1 : /\ i \in b /\ i \notin a
                        /\ \A j \in i + 1 .. n - 1 : j \in a <=> j \in b

\* Adding a position to two words that are compared.
LEMMA CompareStep ==
  ASSUME NEW a, NEW b, NEW n \in Nat, Low(a, n) < Low(b, n) <=> Below(a, b, n)
  PROVE  Low(a, n + 1) < Low(b, n + 1) <=> Below(a, b, n + 1)
<1>1. Low(a, n) \in 0 .. Pow2[n] - 1 /\ Low(b, n) \in 0 .. Pow2[n] - 1 /\ Pow2[n] \in Nat
  BY LowRange, Powers
<1>2. Low(a, n + 1) = Low(a, n) + Bit(a, n)
  BY LowStep
<1>3. Low(b, n + 1) = Low(b, n) + Bit(b, n)
  BY LowStep
<1>4. CASE n \in b /\ n \notin a
  <2>1. Low(a, n + 1) < Low(b, n + 1)
    BY <1>1, <1>2, <1>3, <1>4 DEF Bit
  <2>2. Below(a, b, n + 1)
    <3>1. n \in 0 .. (n + 1) - 1 /\ n + 1 .. (n + 1) - 1 = {}
      OBVIOUS
    <3> QED
      BY <1>4, <3>1 DEF Below
  <2> QED
    BY <2>1, <2>2
<1>5. CASE n \in a /\ n \notin b
  <2>1. ~ (Low(a, n + 1) < Low(b, n + 1))
    BY <1>1, <1>2, <1>3, <1>5 DEF Bit
  <2>2. ~ Below(a, b, n + 1)
    <3>1. \A i \in 0 .. (n + 1) - 1 : i = n \/ n \in i + 1 .. (n + 1) - 1
      OBVIOUS
    <3> QED
      BY <1>5, <3>1 DEF Below
  <2> QED
    BY <2>1, <2>2
<1>6. CASE n \in a <=> n \in b
  <2>1. Low(a, n + 1) < Low(b, n + 1) <=> Low(a, n) < Low(b, n)
    <3>1. Bit(a, n) = Bit(b, n) /\ Bit(a, n) \in Nat
      BY <1>1, <1>6 DEF Bit
    <3> QED
      BY <1>1, <1>2, <1>3, <3>1
  <2>2. Below(a, b, n + 1) <=> Below(a, b, n)
    <3>1. \A i : i \in 0 .. (n + 1) - 1 <=> i = n \/ i \in 0 .. n - 1
      OBVIOUS
    <3>2. \A i \in 0 .. n - 1 : \A j : j \in i + 1 .. (n + 1) - 1 <=> j = n \/ j \in i + 1 .. n - 1
      OBVIOUS
    <3> QED
      BY <1>6, <3>1, <3>2, Zenon DEF Below
  <2> QED
    BY <2>1, <2>2
<1> QED
  BY <1>4, <1>5, <1>6

LEMMA Compare ==
  ASSUME NEW a, NEW b
  PROVE  \A n \in Nat : Low(a, n) < Low(b, n) <=> Below(a, b, n)
<1> DEFINE E == {n \in Nat : Low(a, n) < Low(b, n) <=> Below(a, b, n)}
<1>1. 0 \in E
  <2>1. ~ Below(a, b, 0)
    BY DEF Below
  <2>2. Low(a, 0) = 0 /\ Low(b, 0) = 0
    BY ONLY LowBits
  <2> QED
    BY <2>1, <2>2
<1>2. ASSUME NEW n \in E PROVE n + 1 \in E
  BY CompareStep
<1>3. E \subseteq Nat
  OBVIOUS
<1> HIDE DEF E
<1>4. E = Nat
  BY <1>1, <1>2, <1>3, Induction
<1> QED
  BY <1>4 DEF E

\* Words that stand for the same number are the same.
LEMMA SameNumber ==
  ASSUME NEW a \in Data, NEW b \in Data, Unsigned(a) = Unsigned(b)
  PROVE  a = b
<1> DEFINE E == {n \in Nat : Low(a, n) = Low(b, n) => \A i \in 0 .. n - 1 : i \in a <=> i \in b}
<1>1. 0 \in E
  OBVIOUS
<1>2. ASSUME NEW n \in E PROVE n + 1 \in E
  <2>0. n \in Nat /\ (Low(a, n) = Low(b, n) => \A i \in 0 .. n - 1 : i \in a <=> i \in b)
    OBVIOUS
  <2> HIDE DEF E
  <2>1. Low(a, n) \in 0 .. Pow2[n] - 1 /\ Low(b, n) \in 0 .. Pow2[n] - 1 /\ Pow2[n] \in Nat
    BY <2>0, LowRange, Powers
  <2>2. Low(a, n + 1) = Low(a, n) + Bit(a, n)
    BY <2>0, LowStep
  <2>3. Low(b, n + 1) = Low(b, n) + Bit(b, n)
    BY <2>0, LowStep
  <2>4. Low(a, n + 1) = Low(b, n + 1) => Low(a, n) = Low(b, n) /\ (n \in a <=> n \in b)
    BY <2>1, <2>2, <2>3 DEF Bit
  <2>5. \A i \in 0 .. (n + 1) - 1 : i = n \/ i \in 0 .. n - 1
    BY <2>0
  <2> QED
    BY <2>0, <2>4, <2>5 DEF E
<1>3. E \subseteq Nat
  OBVIOUS
<1> HIDE DEF E
<1>4. E = Nat
  BY <1>1, <1>2, <1>3, Induction
<1>5. XLEN \in Nat
  BY Remainders
<1>6. \A i \in 0 .. XLEN - 1 : i \in a <=> i \in b
  BY <1>4, <1>5 DEF E, Unsigned
<1> QED
  BY <1>6 DEF Data, Word, Bits

\* The unsigned comparison of words is that of their numbers.
LEMMA UnsignedCompare ==
  ASSUME NEW a \in Data, NEW b \in Data
  PROVE  ULess(a, b) <=> Unsigned(a) < Unsigned(b)
<1>1. XLEN \in Nat
  BY Remainders
<1>2. a \in SUBSET (0 .. XLEN - 1) /\ b \in SUBSET (0 .. XLEN - 1)
  BY DEF Data, Word, Bits
<1>3. ASSUME ULess(a, b) PROVE Below(a, b, XLEN)
  <2>1. PICK i \in b \ a : \A j \in Xor(a, b) : j <= i
    BY <1>3 DEF ULess
  <2>2. i \in 0 .. XLEN - 1 /\ \A j \in i + 1 .. XLEN - 1 : ~ (j <= i)
    BY <1>1, <1>2
  <2>3. \A j \in i + 1 .. XLEN - 1 : j \in a <=> j \in b
    BY <2>1, <2>2 DEF Xor
  <2> QED
    BY <2>1, <2>2, <2>3 DEF Below
<1>4. ASSUME Below(a, b, XLEN) PROVE ULess(a, b)
  <2>1. PICK i \in 0 .. XLEN - 1 : i \in b /\ i \notin a /\ \A j \in i + 1 .. XLEN - 1 : j \in a <=> j \in b
    BY <1>4 DEF Below
  <2>2. \A j \in 0 .. XLEN - 1 : j <= i \/ j \in i + 1 .. XLEN - 1
    BY <1>1
  <2>3. \A j \in Xor(a, b) : j <= i
    BY <1>2, <2>1, <2>2 DEF Xor
  <2> QED
    BY <2>1, <2>3 DEF ULess
<1> QED
  BY <1>1, <1>3, <1>4, Compare DEF Unsigned

\* The top bit of a word counts 2^(XLEN - 1) up, or down in two's complement.
LEMMA SignBit ==
  ASSUME NEW w
  PROVE  /\ XLEN - 1 \in Nat /\ Modulus = 2 * Pow2[XLEN - 1] /\ Pow2[XLEN - 1] \in Nat \ {0}
         /\ Low(w, XLEN - 1) \in 0 .. Pow2[XLEN - 1] - 1
         /\ Unsigned(w) = Low(w, XLEN - 1) + Bit(w, XLEN - 1)
         /\ Signed(w) = Low(w, XLEN - 1) - Bit(w, XLEN - 1)
<1>1. XLEN - 1 \in Nat /\ XLEN = (XLEN - 1) + 1
  BY Remainders
<1>2. Modulus = 2 * Pow2[XLEN - 1] /\ Pow2[XLEN - 1] \in Nat \ {0}
  BY <1>1, Powers DEF Modulus
<1>3. Low(w, XLEN - 1) \in 0 .. Pow2[XLEN - 1] - 1
  BY <1>1, LowRange
<1>4. Unsigned(w) = Low(w, XLEN - 1) + Bit(w, XLEN - 1)
  <2>1. Low(w, (XLEN - 1) + 1) = Low(w, XLEN - 1) + Bit(w, XLEN - 1)
    BY <1>1, LowStep
  <2> QED
    BY <1>1, <2>1 DEF Unsigned
<1>5. Signed(w) = Low(w, XLEN - 1) - Bit(w, XLEN - 1)
  BY <1>2, <1>3, <1>4 DEF Signed, Bit
<1> QED
  BY <1>1, <1>2, <1>3, <1>4, <1>5

\* The signed comparison of words is that of their two's complement numbers.
LEMMA SignedCompare ==
  ASSUME NEW a \in Data, NEW b \in Data
  PROVE  SLess(a, b, XLEN) <=> Signed(a) < Signed(b)
<1> DEFINE Flip(w) == Xor(w, {XLEN - 1})
<1>1. ASSUME NEW w \in Data PROVE Flip(w) \in Data /\ Unsigned(Flip(w)) = Signed(w) + Pow2[XLEN - 1]
  <2>0. XLEN - 1 \in Nat
    BY Remainders
  <2>1. Flip(w) \in Data
    <3>1. w \subseteq 0 .. XLEN - 1 /\ XLEN - 1 \in 0 .. XLEN - 1
      BY <2>0 DEF Data, Word, Bits
    <3>2. Flip(w) \subseteq 0 .. XLEN - 1
      BY <3>1 DEF Xor
    <3> QED
      BY <3>2 DEF Data, Word, Bits
  <2>2. Low(Flip(w), XLEN - 1) = Low(w, XLEN - 1)
    <3>1. \A i \in 0 .. (XLEN - 1) - 1 : i \in Flip(w) <=> i \in w
      BY <2>0 DEF Xor
    <3> HIDE DEF Flip
    <3> QED
      BY <2>0, <3>1, SameBits
  <2>3. XLEN - 1 \in Flip(w) <=> XLEN - 1 \notin w
    BY DEF Xor
  <2> HIDE DEF Flip
  <2>4. Unsigned(Flip(w)) = Low(w, XLEN - 1) + Bit(Flip(w), XLEN - 1)
    BY <2>2, SignBit
  <2>5. Pow2[XLEN - 1] \in Nat /\ Low(w, XLEN - 1) \in Nat
    BY SignBit
  <2>6. Signed(w) = Low(w, XLEN - 1) - Bit(w, XLEN - 1)
    BY SignBit
  <2> QED
    BY <2>1, <2>3, <2>4, <2>5, <2>6 DEF Bit
<1>2. SLess(a, b, XLEN) <=> ULess(Flip(a), Flip(b))
  BY DEF SLess
<1>3. Signed(a) \in Int /\ Signed(b) \in Int /\ Pow2[XLEN - 1] \in Nat
  <2>1. Signed(a) = Low(a, XLEN - 1) - Bit(a, XLEN - 1) /\ Low(a, XLEN - 1) \in Nat
    BY SignBit
  <2>2. Signed(b) = Low(b, XLEN - 1) - Bit(b, XLEN - 1) /\ Low(b, XLEN - 1) \in Nat
    BY SignBit
  <2>3. Pow2[XLEN - 1] \in Nat
    BY SignBit
  <2> QED
    BY <2>1, <2>2, <2>3 DEF Bit
<1> HIDE DEF Flip
<1>4. ULess(Flip(a), Flip(b)) <=> Unsigned(Flip(a)) < Unsigned(Flip(b))
  BY <1>1, UnsignedCompare
<1> QED
  BY <1>1, <1>2, <1>3, <1>4

\* Every branch condition is the comparison of numbers that RV32I gives it, for
\* every pair of operands at every width (class BranchUnit).
THEOREM BranchesCompareCorrect == Spec => []BranchesCompare
<1>1. x \in Data /\ y \in Data => BranchesCompare
  <2> SUFFICES ASSUME x \in Data, y \in Data PROVE BranchesCompare
    OBVIOUS
  <2>1. x = y <=> Unsigned(x) = Unsigned(y)
    BY SameNumber
  <2>2. LessUnsigned(x, y) <=> Unsigned(x) < Unsigned(y)
    BY UnsignedCompare DEF LessUnsigned
  <2>3. LessSigned(x, y) <=> Signed(x) < Signed(y)
    BY SignedCompare DEF LessSigned
  <2>4. \A w : Unsigned(w) \in Int /\ Signed(w) \in Int
    <3>1. ASSUME NEW w PROVE Unsigned(w) \in Int /\ Signed(w) \in Int
      <4>1. /\ Signed(w) = Low(w, XLEN - 1) - Bit(w, XLEN - 1)
            /\ Unsigned(w) = Low(w, XLEN - 1) + Bit(w, XLEN - 1)
            /\ Low(w, XLEN - 1) \in Nat /\ Pow2[XLEN - 1] \in Nat
        BY SignBit
      <4> QED
        BY <4>1 DEF Bit
    <3> QED
      BY <3>1
  <2>5. /\ Unsigned(x) >= Unsigned(y) <=> ~ (Unsigned(x) < Unsigned(y))
        /\ Signed(x) >= Signed(y) <=> ~ (Signed(x) < Signed(y))
    BY <2>4
  <2>6. /\ BranchUnit[0][x][y] <=> x = y
        /\ BranchUnit[1][x][y] <=> x # y
        /\ BranchUnit[4][x][y] <=> LessSigned(x, y)
        /\ BranchUnit[5][x][y] <=> ~ LessSigned(x, y)
        /\ BranchUnit[6][x][y] <=> LessUnsigned(x, y)
        /\ BranchUnit[7][x][y] <=> ~ LessUnsigned(x, y)
    BY DEF BranchUnit
  <2>7. ASSUME NEW f \in 0 .. 7 PROVE BranchUnit[f][x][y] \in BOOLEAN
    <3> DEFINE Taken == \/ f = 0 /\ x = y
                        \/ f = 1 /\ x # y
                        \/ f = 4 /\ LessSigned(x, y)
                        \/ f = 5 /\ ~ LessSigned(x, y)
                        \/ f = 6 /\ LessUnsigned(x, y)
                        \/ f = 7 /\ ~ LessUnsigned(x, y)
    <3>1. BranchUnit[f][x][y] = Taken
      BY Zenon DEF BranchUnit
    <3>2. Taken \in BOOLEAN
      BY Zenon
    <3> QED
      BY <3>1, <3>2, Zenon
  <2>8. {0, 1, 4, 5, 6, 7} \subseteq 0 .. 7
    OBVIOUS
  <2> HIDE DEF BranchUnit
  <2> QED
    BY <2>1, <2>2, <2>3, <2>5, <2>6, <2>7, <2>8 DEF BranchesCompare
<1> QED
  BY <1>1, OperandsAreWords, PTL

----------------------------------------------------------------------------
(* Parts of words, and loads and stores.                                   *)

\* A word without bits in the low n positions has nothing there to count.
LEMMA NoBits ==
  ASSUME NEW w, NEW n \in Nat, \A i \in 0 .. n - 1 : i \notin w
  PROVE  Low(w, n) = 0
<1> DEFINE E == {k \in Nat : k <= n => Low(w, k) = 0}
<1>1. 0 \in E
  <2>1. Low(w, 0) = 0
    BY ONLY LowBits
  <2> QED
    BY <2>1
<1>2. ASSUME NEW k \in E PROVE k + 1 \in E
  <2>1. k \in Nat /\ (k <= n => Low(w, k) = 0)
    OBVIOUS
  <2> HIDE DEF E
  <2>2. ASSUME k + 1 <= n PROVE Low(w, k + 1) = 0
    <3>1. k \in 0 .. n - 1 /\ k <= n
      BY <2>1, <2>2
    <3>2. Low(w, k + 1) = Low(w, k) + Bit(w, k)
      BY <2>1, LowStep
    <3> QED
      BY <2>1, <3>1, <3>2 DEF Bit
  <2> QED
    BY <2>1, <2>2 DEF E
<1>3. E \subseteq Nat
  OBVIOUS
<1> HIDE DEF E
<1>4. E = Nat
  BY <1>1, <1>2, <1>3, Induction
<1> QED
  BY <1>4 DEF E

\* n ones stand for 2^n - 1.
LEMMA AllOnes ==
  ASSUME NEW w, NEW n \in Nat, \A i \in 0 .. n - 1 : i \in w
  PROVE  Low(w, n) = Pow2[n] - 1
<1> DEFINE E == {k \in Nat : k <= n => Low(w, k) = Pow2[k] - 1}
<1>1. 0 \in E
  <2>1. Low(w, 0) = 0
    BY ONLY LowBits
  <2> QED
    BY <2>1, Powers
<1>2. ASSUME NEW k \in E PROVE k + 1 \in E
  <2>1. k \in Nat /\ (k <= n => Low(w, k) = Pow2[k] - 1)
    OBVIOUS
  <2> HIDE DEF E
  <2>2. ASSUME k + 1 <= n PROVE Low(w, k + 1) = Pow2[k + 1] - 1
    <3>1. k \in 0 .. n - 1 /\ k <= n
      BY <2>1, <2>2
    <3>2. Low(w, k + 1) = Low(w, k) + Bit(w, k)
      BY <2>1, LowStep
    <3>3. Pow2[k + 1] = 2 * Pow2[k] /\ Pow2[k] \in Nat
      BY <2>1, Powers
    <3> QED
      BY <2>1, <3>1, <3>2, <3>3 DEF Bit
  <2> QED
    BY <2>1, <2>2 DEF E
<1>3. E \subseteq Nat
  OBVIOUS
<1> HIDE DEF E
<1>4. E = Nat
  BY <1>1, <1>2, <1>3, Induction
<1> QED
  BY <1>4 DEF E

\* w, cut at position m: its low bits and the bits of v, which are those of w from
\* m on.
Cut(w, v, m) == \A i \in Nat : i \in v <=> i + m \in w

LEMMA CutParts ==
  ASSUME NEW w, NEW v, NEW m \in 0 .. XLEN, Cut(w, v, m)
  PROVE  /\ Unsigned(w) = Low(w, m) + Pow2[m] * Low(v, XLEN - m)
         /\ Low(w, m) \in 0 .. Pow2[m] - 1 /\ Low(v, XLEN - m) \in 0 .. Pow2[XLEN - m] - 1
         /\ Pow2[m] \in Nat \ {0} /\ Pow2[XLEN - m] \in Nat \ {0}
         /\ Modulus = Pow2[m] * Pow2[XLEN - m]
         /\ Unsigned(w) \div Pow2[m] = Low(v, XLEN - m)
         /\ Unsigned(w) % Pow2[m] = Low(w, m)
<1>1. XLEN \in Nat /\ m \in Nat /\ XLEN - m \in Nat /\ m + (XLEN - m) = XLEN
  BY Remainders
<1>2. Low(w, m + (XLEN - m)) = Low(w, m) + Pow2[m] * Low(v, XLEN - m)
  <2>1. \A i \in 0 .. (XLEN - m) - 1 : i \in v <=> i + m \in w
    BY <1>1 DEF Cut
  <2> QED
    BY <1>1, <2>1, LowAndHigh
<1>3. Low(w, m) \in 0 .. Pow2[m] - 1
  BY <1>1, LowRange
<1>4. Low(v, XLEN - m) \in 0 .. Pow2[XLEN - m] - 1
  BY <1>1, LowRange
<1>5. Pow2[m] \in Nat \ {0} /\ Pow2[XLEN - m] \in Nat \ {0}
  BY <1>1, Powers
<1>6. Pow2[m + (XLEN - m)] = Pow2[m] * Pow2[XLEN - m]
  BY <1>1, PowerOfSum
<1>7. Low(v, XLEN - m) \in Int
  BY <1>4, <1>5
<1>8. /\ (Low(w, m) + Pow2[m] * Low(v, XLEN - m)) \div Pow2[m] = Low(v, XLEN - m)
      /\ (Low(w, m) + Pow2[m] * Low(v, XLEN - m)) % Pow2[m] = Low(w, m)
  BY <1>3, <1>5, <1>7, Division
<1> QED
  BY <1>1, <1>2, <1>3, <1>4, <1>5, <1>6, <1>8 DEF Unsigned, Modulus

LEMMA RightIsCut ==
  ASSUME NEW w, w \subseteq Nat, NEW m \in Nat
  PROVE  Cut(w, ShiftRight(w, m), m)
<1> SUFFICES ASSUME NEW i \in Nat PROVE i \in ShiftRight(w, m) <=> i + m \in w
  BY DEF Cut
<1>1. ASSUME i \in ShiftRight(w, m) PROVE i + m \in w
  <2>1. PICK j \in w : m <= j /\ i = j - m
    BY <1>1 DEF ShiftRight
  <2>2. j = i + m
    BY <2>1
  <2> QED
    BY <2>1, <2>2
<1>2. ASSUME i + m \in w PROVE i \in ShiftRight(w, m)
  <2>1. m <= i + m /\ i = (i + m) - m
    OBVIOUS
  <2> QED
    BY <1>2, <2>1 DEF ShiftRight
<1> QED
  BY <1>1, <1>2

\* Bits taken to bit n and on, all alike: zeros, or the ones of a negative number.
LEMMA Extended ==
  ASSUME NEW w, NEW n \in 1 .. XLEN, NEW b \in BOOLEAN, \A i \in n .. XLEN - 1 : i \in w <=> b
  PROVE  Unsigned(w) = IF b THEN Low(w, n) + Modulus - Pow2[n] ELSE Low(w, n)
<1> DEFINE v == {i \in Nat : i + n \in w}
<1>0. n \in 0 .. XLEN /\ XLEN - n \in Nat
  BY Remainders
<1>1. Cut(w, v, n)
  BY DEF Cut
<1>2. \A i \in 0 .. (XLEN - n) - 1 : i \in v <=> b
  <2>1. \A i \in 0 .. (XLEN - n) - 1 : i \in Nat /\ i + n \in n .. XLEN - 1
    BY Remainders
  <2> QED
    BY <2>1
<1> HIDE DEF v
<1>3. /\ Unsigned(w) = Low(w, n) + Pow2[n] * Low(v, XLEN - n)
      /\ Modulus = Pow2[n] * Pow2[XLEN - n]
      /\ Pow2[n] \in Nat /\ Pow2[XLEN - n] \in Nat
      /\ Low(w, n) \in Nat
  <2>1. Low(w, n) \in Nat
    BY <1>0, LowRange
  <2> QED
    BY <1>0, <1>1, <2>1, CutParts
<1>4. CASE ~ b
  <2>1. Low(v, XLEN - n) = 0
    BY <1>0, <1>2, <1>4, NoBits
  <2>2. Pow2[n] * 0 = 0
    BY <1>3
  <2> QED
    BY <1>3, <1>4, <2>1, <2>2
<1>5. CASE b
  <2>1. Low(v, XLEN - n) = Pow2[XLEN - n] - 1
    BY <1>0, <1>2, <1>5, AllOnes
  <2>2. \A p, q \in Nat : p * (q - 1) = p * q - p
    OBVIOUS
  <2>3. Pow2[n] * (Pow2[XLEN - n] - 1) = Modulus - Pow2[n]
    BY <1>3, <2>2
  <2>4. Modulus \in Nat
    BY SignBit
  <2> QED
    BY <1>3, <1>5, <2>1, <2>3, <2>4
<1> QED
  BY <1>4, <1>5

\* A word with the low m bits of one word and the others of another.
LEMMA MergedNumber ==
  ASSUME NEW a \in Data, NEW b \in Data, NEW c \in Data, NEW m \in 0 .. XLEN,
         \A i \in 0 .. XLEN - 1 : i \in c <=> IF i < m THEN i \in b ELSE i \in a
  PROVE  /\ Low(c, m) = Unsigned(b) % Pow2[m]
         /\ Unsigned(c) = (Unsigned(a) \div Pow2[m]) * Pow2[m] + (Unsigned(b) % Pow2[m])
<1> DEFINE v == ShiftRight(a, m)
           u == ShiftRight(b, m)
<1>0. XLEN \in Nat /\ m \in Nat /\ XLEN - m \in Nat /\ m + (XLEN - m) = XLEN
  BY Remainders
<1>1. a \subseteq Nat /\ b \subseteq Nat
  BY <1>0 DEF Data, Word, Bits
<1>2. Cut(a, v, m)
  BY <1>0, <1>1, RightIsCut
<1>3. Cut(b, u, m)
  BY <1>0, <1>1, RightIsCut
<1> HIDE DEF v, u
<1>4. Low(c, m) = Low(b, m)
  <2>1. \A i \in 0 .. m - 1 : i \in c <=> i \in b
    BY <1>0
  <2> QED
    BY <1>0, <2>1, SameBits
<1>5. Low(c, m + (XLEN - m)) = Low(c, m) + Pow2[m] * Low(v, XLEN - m)
  <2>1. \A i \in 0 .. (XLEN - m) - 1 : i \in v <=> i + m \in c
    <3>1. \A i \in 0 .. (XLEN - m) - 1 : i \in Nat /\ i + m \in 0 .. XLEN - 1 /\ ~ (i + m < m)
      BY <1>0
    <3> QED
      BY <1>2, <3>1 DEF Cut
  <2> QED
    BY <1>0, <2>1, LowAndHigh
<1>6. Unsigned(b) % Pow2[m] = Low(b, m) /\ Low(b, m) \in Int
  BY <1>3, CutParts
<1>7. Unsigned(a) \div Pow2[m] = Low(v, XLEN - m) /\ Pow2[m] \in Int /\ Low(v, XLEN - m) \in Int
  <2>1. Unsigned(a) \div Pow2[m] = Low(v, XLEN - m) /\ Pow2[m] \in Nat
    BY <1>2, CutParts
  <2>2. Low(v, XLEN - m) \in Nat
    BY <1>0, LowStep
  <2> QED
    BY <2>1, <2>2
<1>8. Unsigned(c) = Low(b, m) + Pow2[m] * Low(v, XLEN - m)
  BY <1>0, <1>4, <1>5 DEF Unsigned
<1>9. \A p, q, r \in Int : r + p * q = q * p + r
  OBVIOUS
<1> QED
  BY <1>4, <1>6, <1>7, <1>8, <1>9

\* The low m bits of c, zero-extended.
LEMMA ZeroExtension ==
  ASSUME NEW c, NEW w, NEW m \in 1 .. XLEN,
         \A i \in 0 .. XLEN - 1 : i \in w <=> i < m /\ i \in c
  PROVE  Unsigned(w) = Low(c, m)
<1>1. m \in Nat /\ \A i \in m .. XLEN - 1 : i \in 0 .. XLEN - 1 /\ ~ (i < m)
  BY Remainders
<1>2. \A i \in m .. XLEN - 1 : i \in w <=> FALSE
  BY <1>1
<1>3. Unsigned(w) = Low(w, m)
  BY <1>2, Extended
<1>4. \A i \in 0 .. m - 1 : i \in w <=> i \in c
  BY <1>1, Remainders
<1>5. Low(w, m) = Low(c, m)
  BY <1>1, <1>4, SameBits
<1> QED
  BY <1>3, <1>5

\* The low m bits of c, sign-extended.
LEMMA SignExtension ==
  ASSUME NEW c, NEW w, NEW m \in 1 .. XLEN,
         \A i \in 0 .. XLEN - 1 : i \in w <=> IF i < m THEN i \in c ELSE m - 1 \in c
  PROVE  Signed(w) = IF Low(c, m) < Pow2[m - 1] THEN Low(c, m) ELSE Low(c, m) - Pow2[m]
<1> DEFINE b == m - 1 \in c
<1>0. /\ XLEN \in Nat /\ m \in Nat /\ m - 1 \in Nat /\ (m - 1) + 1 = m
      /\ \A i \in m .. XLEN - 1 : i \in 0 .. XLEN - 1 /\ ~ (i < m)
      /\ \A i \in 0 .. m - 1 : i \in 0 .. XLEN - 1 /\ i < m
      /\ XLEN - 1 \in 0 .. XLEN - 1
      /\ XLEN - 1 < m => XLEN - 1 = m - 1
  BY Remainders
<1>1. Low(w, m) = Low(c, m)
  <2>1. \A i \in 0 .. m - 1 : i \in w <=> i \in c
    BY <1>0
  <2> QED
    BY <1>0, <2>1, SameBits
<1>2. b \in BOOLEAN /\ \A i \in m .. XLEN - 1 : i \in w <=> b
  BY <1>0
<1>3. XLEN - 1 \in w <=> b
  BY <1>0
<1>4. /\ Low(c, m) = Low(c, m - 1) + Bit(c, m - 1)
      /\ Pow2[m] = 2 * Pow2[m - 1] /\ Pow2[m - 1] \in Nat
      /\ Low(c, m - 1) \in 0 .. Pow2[m - 1] - 1
  <2>1. Low(c, (m - 1) + 1) = Low(c, m - 1) + Bit(c, m - 1)
    BY <1>0, LowStep
  <2>2. Pow2[(m - 1) + 1] = 2 * Pow2[m - 1] /\ Pow2[m - 1] \in Nat
    BY <1>0, Powers
  <2>3. Low(c, m - 1) \in 0 .. Pow2[m - 1] - 1
    BY <1>0, LowRange
  <2> QED
    BY <1>0, <2>1, <2>2, <2>3
<1>5. Low(c, m) < Pow2[m - 1] <=> ~ b
  BY <1>4 DEF Bit
<1> HIDE DEF b
<1>6. Unsigned(w) = IF b THEN Low(w, m) + Modulus - Pow2[m] ELSE Low(w, m)
  BY <1>2, Extended
<1>7. Modulus \in Int /\ Low(c, m) \in Int /\ Pow2[m] \in Int
  <2>1. Modulus \in Int
    BY SignBit
  <2>2. Low(c, m) \in Int /\ Pow2[m] \in Int
    BY <1>0, LowStep, Powers
  <2> QED
    BY <2>1, <2>2
<1> QED
  BY <1>1, <1>3, <1>5, <1>6, <1>7 DEF Signed

\* The bytes that a store of n bytes writes are the low ones.
LEMMA StoredBits ==
  ASSUME NEW a \in Data, NEW b \in Data, NEW n \in {1, 2, 4}
  PROVE  /\ MergeLanes[0 .. n - 1][a][b] \in Data
         /\ \A i \in 0 .. XLEN - 1 :
              i \in MergeLanes[0 .. n - 1][a][b] <=> IF i < n * BYTE THEN i \in b ELSE i \in a
<1>1. 0 .. n - 1 \in SUBSET Lane
  BY DEF Lane
<1>2. MergeLanes[0 .. n - 1][a][b] =
        {i \in Bits(XLEN) : IF i \div BYTE \in 0 .. n - 1 THEN i \in b ELSE i \in a}
  BY <1>1 DEF MergeLanes
<1>3. \A i \in 0 .. XLEN - 1 : i \div BYTE \in 0 .. n - 1 <=> i < n * BYTE
  BY DatapathAssumption DEF DatapathAssumption
<1> QED
  BY <1>2, <1>3 DEF Data, Word, Bits

\* What a store leaves in memory is what the load of the same width reads back,
\* sign- or zero-extended, and the rest of the word keeps its value, at every
\* width (object MemAccess).
THEOREM StoredIsLoadedCorrect == Spec => []StoredIsLoaded
<1>1. x \in Data /\ y \in Data => StoredIsLoaded
  <2> SUFFICES ASSUME x \in Data, y \in Data PROVE StoredIsLoaded
    OBVIOUS
  <2>0. XLEN \in Nat /\ BYTE \in Nat \ {0} /\ XLEN = 4 * BYTE
    BY DatapathAssumption DEF DatapathAssumption
  <2> DEFINE merged(n) == MergeLanes[0 .. n - 1][x][y]
             part(m)   == Unsigned(y) % Pow2[m]
             Reads(w, m) == Signed(w) = IF part(m) < Pow2[m - 1] THEN part(m) ELSE part(m) - Pow2[m]
  <2>1. ASSUME NEW n \in {1, 2, 4}
        PROVE  /\ merged(n) \in Data
               /\ Low(merged(n), n * BYTE) = part(n * BYTE)
               /\ Unsigned(merged(n)) =
                    (Unsigned(x) \div Pow2[n * BYTE]) * Pow2[n * BYTE] + part(n * BYTE)
    <3>1. n * BYTE \in 0 .. XLEN
      BY <2>0
    <3>2. /\ merged(n) \in Data
          /\ \A i \in 0 .. XLEN - 1 : i \in merged(n) <=> IF i < n * BYTE THEN i \in y ELSE i \in x
      BY StoredBits
    <3> HIDE DEF merged
    <3> QED
      BY <3>1, <3>2, MergedNumber
  <2>2. ASSUME NEW n \in {1, 2}, NEW w \in Data
        PROVE  Signed(SignExtended(w, n)) =
                 IF Low(w, n * BYTE) < Pow2[n * BYTE - 1] THEN Low(w, n * BYTE)
                                                          ELSE Low(w, n * BYTE) - Pow2[n * BYTE]
    <3>1. n * BYTE \in 1 .. XLEN
      BY <2>0
    <3>2. \A i \in 0 .. XLEN - 1 :
            i \in SignExtended(w, n) <=> IF i < n * BYTE THEN i \in w ELSE n * BYTE - 1 \in w
      BY <2>0, <3>1 DEF SignExtended, Truncate, FillFrom
    <3> QED
      BY <3>1, <3>2, SignExtension
  <2>3. ASSUME NEW n \in {1, 2}, NEW w \in Data
        PROVE  Unsigned(ZeroExtended(w, n)) = Low(w, n * BYTE)
    <3>1. n * BYTE \in 1 .. XLEN
      BY <2>0
    <3>2. \A i \in 0 .. XLEN - 1 : i \in ZeroExtended(w, n) <=> i < n * BYTE /\ i \in w
      BY <3>1 DEF ZeroExtended, Truncate
    <3> QED
      BY <3>1, <3>2, ZeroExtension
  <2>4. ASSUME NEW w \in Data
        PROVE  Signed(w) = IF Low(w, XLEN) < Pow2[XLEN - 1] THEN Low(w, XLEN)
                                                            ELSE Low(w, XLEN) - Pow2[XLEN]
    <3>1. XLEN \in 1 .. XLEN
      BY <2>0
    <3>2. \A i \in 0 .. XLEN - 1 : i \in w <=> IF i < XLEN THEN i \in w ELSE XLEN - 1 \in w
      BY <2>0
    <3> QED
      BY <3>1, <3>2, SignExtension
  <2>5. /\ LoadData[0][merged(1)] = SignExtended(merged(1), 1)
        /\ LoadData[4][merged(1)] = ZeroExtended(merged(1), 1)
    BY <2>1 DEF LoadData
  <2>6. /\ LoadData[1][merged(2)] = SignExtended(merged(2), 2)
        /\ LoadData[5][merged(2)] = ZeroExtended(merged(2), 2)
    BY <2>1 DEF LoadData
  <2>7. LoadData[2][merged(4)] = merged(4)
    BY <2>1 DEF LoadData
  <2>8. /\ 0 .. 1 - 1 = {0} /\ 0 .. 2 - 1 = {0, 1} /\ 0 .. 4 - 1 = 0 .. 3
        /\ 1 * BYTE = BYTE /\ 4 * BYTE = XLEN
    BY <2>0
  <2>9. /\ MergeLanes[StoreMask(0)][x][y] = merged(1)
        /\ MergeLanes[StoreMask(1)][x][y] = merged(2)
        /\ MergeLanes[StoreMask(2)][x][y] = merged(4)
    BY <2>8 DEF StoreMask, Lane
  <2> DEFINE Stored(f, n, m) ==
               LET w == MergeLanes[StoreMask(f)][x][y]
               IN  /\ Unsigned(w) = (Unsigned(x) \div Pow2[m]) * Pow2[m] + part(m)
                   /\ Reads(LoadData[f][w], m)
                   /\ f < 2 => Unsigned(LoadData[f + 4][w]) = part(m)
  <2> HIDE DEF merged, part
  <2>10. Stored(0, 1, BYTE)
    BY <2>1, <2>2, <2>3, <2>5, <2>8, <2>9
  <2>11. Stored(1, 2, 2 * BYTE)
    BY <2>1, <2>2, <2>3, <2>6, <2>9
  <2>12. Stored(2, 4, XLEN)
    BY <2>1, <2>4, <2>7, <2>8, <2>9
  <2> USE DEF part
  <2> QED
    BY <2>10, <2>11, <2>12 DEF StoredIsLoaded
<1> QED
  BY <1>1, OperandsAreWords, PTL

----------------------------------------------------------------------------
(* The ALU.                                                                *)

\* A position passes a carry on when it generates one, or gets and propagates one.
LEMMA CarryStep ==
  ASSUME NEW a, NEW b, NEW cin, NEW n \in Nat
  PROVE  /\ Carry(a, b, cin, 0) <=> cin
         /\ Carry(a, b, cin, n + 1) <=> \/ n \in a /\ n \in b
                                        \/ (n \in a \/ n \in b) /\ Carry(a, b, cin, n)
<1>1. Carry(a, b, cin, 0) <=> cin
  <2>1. 0 .. 0 - 1 = {}
    OBVIOUS
  <2> QED
    BY <2>1, Zenon DEF Carry
<1>2. \A i : i \in 0 .. (n + 1) - 1 <=> i = n \/ i \in 0 .. n - 1
  OBVIOUS
<1>3. \A j \in 0 .. n - 1 : \A k : k \in j + 1 .. (n + 1) - 1 <=> k = n \/ k \in j + 1 .. n - 1
  OBVIOUS
<1>4. \A k : ~ (k \in n + 1 .. (n + 1) - 1)
  OBVIOUS
<1>5. Carry(a, b, cin, n + 1) <=> \/ n \in a /\ n \in b
                                  \/ (n \in a \/ n \in b) /\ Carry(a, b, cin, n)
  BY <1>2, <1>3, <1>4, Zenon DEF Carry
<1> QED
  BY <1>1, <1>5

\* Unequal truth values.
LEMMA Unequal ==
  ASSUME NEW S, NEW n, NEW p \in BOOLEAN
  PROVE  ((n \in S) # p) <=> ~ (n \in S <=> p)
BY SMT

\* The adder adds: the sum and the carry out of n positions.
LEMMA Added ==
  ASSUME NEW a, NEW b, NEW cin \in BOOLEAN
  PROVE  /\ AddCarry(a, b, cin, XLEN) \in Data
         /\ Unsigned(AddCarry(a, b, cin, XLEN)) + (IF Carry(a, b, cin, XLEN) THEN Modulus ELSE 0)
              = Unsigned(a) + Unsigned(b) + (IF cin THEN 1 ELSE 0)
<1> DEFINE s == AddCarry(a, b, cin, XLEN)
           C(n) == Carry(a, b, cin, n)
           Sum(n) == Low(s, n) + (IF C(n) THEN Pow2[n] ELSE 0)
                       = Low(a, n) + Low(b, n) + (IF cin THEN 1 ELSE 0)
           E == {n \in Nat : n <= XLEN => Sum(n)}
<1>0. XLEN \in Nat
  BY Remainders
<1>1. 0 \in E
  <2>1. C(0) <=> cin
    BY CarryStep
  <2>2. Low(s, 0) = 0 /\ Low(a, 0) = 0 /\ Low(b, 0) = 0
    BY ONLY LowBits
  <2>3. Pow2[0] = 1
    BY Powers
  <2> HIDE DEF C, s
  <2> QED
    BY <2>1, <2>2, <2>3
<1>2. ASSUME NEW n \in E PROVE n + 1 \in E
  <2>1. n \in Nat /\ (n <= XLEN => Sum(n))
    OBVIOUS
  <2> HIDE DEF E
  <2>2. ASSUME n + 1 <= XLEN PROVE Sum(n + 1)
    <3>1. n \in Bits(XLEN) /\ Sum(n)
      BY <1>0, <2>1, <2>2 DEF Bits
    <3>2. C(n + 1) <=> \/ n \in a /\ n \in b
                       \/ (n \in a \/ n \in b) /\ C(n)
      BY <2>1, CarryStep
    <3>3. n \in s <=> ((n \in a <=> n \in b) <=> C(n))
      <4>1. n \in s <=> ((n \in Xor(a, b)) # C(n))
        BY <3>1 DEF AddCarry
      <4>2. C(n) \in BOOLEAN
        BY Zenon DEF Carry
      <4>3. n \in Xor(a, b) <=> ~ (n \in a <=> n \in b)
        BY DEF Xor
      <4> HIDE DEF s, C
      <4>4. ((n \in Xor(a, b)) # C(n)) <=> ~ (n \in Xor(a, b) <=> C(n))
        BY <4>2, Unequal
      <4> QED
        BY <4>1, <4>3, <4>4
    <3> HIDE DEF s, C
    <3>4. Low(s, n + 1) = Low(s, n) + Bit(s, n) /\ Low(s, n) \in Int
      BY <2>1, LowStep
    <3>5. Low(a, n + 1) = Low(a, n) + Bit(a, n) /\ Low(a, n) \in Int
      BY <2>1, LowStep
    <3>6. Low(b, n + 1) = Low(b, n) + Bit(b, n) /\ Low(b, n) \in Int
      BY <2>1, LowStep
    <3>7. Pow2[n + 1] = 2 * Pow2[n] /\ Pow2[n] \in Int
      BY <2>1, Powers
    <3> QED
      BY <3>1, <3>2, <3>3, <3>4, <3>5, <3>6, <3>7 DEF Bit
  <2> HIDE DEF Sum
  <2> QED
    BY <2>1, <2>2 DEF E
<1>3. E \subseteq Nat
  OBVIOUS
<1> HIDE DEF E
<1>4. E = Nat
  BY <1>1, <1>2, <1>3, Induction
<1>5. Sum(XLEN)
  BY <1>0, <1>4 DEF E
<1>6. s \in Data
  BY DEF AddCarry, Data, Word
<1> QED
  BY <1>5, <1>6 DEF Unsigned, Modulus

\* A word stands for a number below the modulus.
LEMMA WordRange ==
  ASSUME NEW w
  PROVE  Unsigned(w) \in 0 .. Modulus - 1 /\ Modulus \in Nat \ {0}
<1>1. XLEN \in Nat
  BY Remainders
<1> QED
  BY <1>1, LowRange, Powers DEF Unsigned, Modulus

\* A number that differs from that of a word by a multiple of the modulus has it as
\* remainder.
LEMMA Wrapped ==
  ASSUME NEW w, NEW q \in Int, NEW n \in Int, n = Unsigned(w) + Modulus * q
  PROVE  n % Modulus = Unsigned(w)
BY WordRange, Division

\* a +% b is the sum, wrapped.
LEMMA SumWraps ==
  ASSUME NEW a \in Data, NEW b \in Data
  PROVE  Unsigned(Plus(a, b, XLEN)) = (Unsigned(a) + Unsigned(b)) % Modulus
<1> DEFINE c == Carry(a, b, FALSE, XLEN)
<1>1. Unsigned(Plus(a, b, XLEN)) + (IF c THEN Modulus ELSE 0) = Unsigned(a) + Unsigned(b) + 0
  BY Added DEF Plus
<1>2. Unsigned(a) \in Int /\ Unsigned(b) \in Int /\ Unsigned(Plus(a, b, XLEN)) \in Int
  BY WordRange
<1>3. Modulus \in Int /\ Modulus * 1 = Modulus /\ Modulus * 0 = 0
  <2>1. Modulus \in Nat
    BY WordRange
  <2> QED
    BY <2>1
<1> HIDE DEF c
<1>4. \E q \in {0, 1} : Unsigned(a) + Unsigned(b) = Unsigned(Plus(a, b, XLEN)) + Modulus * q
  BY <1>1, <1>2, <1>3
<1> QED
  BY <1>2, <1>4, Wrapped

\* The complement of a word.
LEMMA Complement ==
  ASSUME NEW b
  PROVE  Unsigned(Not(b, XLEN)) = Modulus - 1 - Unsigned(b)
<1> DEFINE v == Not(b, XLEN)
           E == {n \in Nat : n <= XLEN => Low(v, n) = Pow2[n] - 1 - Low(b, n)}
<1>0. XLEN \in Nat
  BY Remainders
<1>1. 0 \in E
  <2>1. Low(v, 0) = 0 /\ Low(b, 0) = 0
    BY ONLY LowBits
  <2>2. Pow2[0] = 1
    BY Powers
  <2> QED
    BY <2>1, <2>2
<1>2. ASSUME NEW n \in E PROVE n + 1 \in E
  <2>1. n \in Nat /\ (n <= XLEN => Low(v, n) = Pow2[n] - 1 - Low(b, n))
    OBVIOUS
  <2> HIDE DEF E
  <2>2. ASSUME n + 1 <= XLEN PROVE Low(v, n + 1) = Pow2[n + 1] - 1 - Low(b, n + 1)
    <3>1. n <= XLEN /\ (n \in v <=> n \notin b)
      BY <1>0, <2>1, <2>2 DEF Not, Bits
    <3> HIDE DEF v
    <3>2. Low(v, n + 1) = Low(v, n) + Bit(v, n)
      BY <2>1, LowStep
    <3>3. Low(b, n + 1) = Low(b, n) + Bit(b, n) /\ Low(b, n) \in Int
      BY <2>1, LowStep
    <3>4. Pow2[n + 1] = 2 * Pow2[n] /\ Pow2[n] \in Int
      BY <2>1, Powers
    <3> QED
      BY <2>1, <3>1, <3>2, <3>3, <3>4 DEF Bit
  <2> QED
    BY <2>1, <2>2 DEF E
<1>3. E \subseteq Nat
  OBVIOUS
<1> HIDE DEF E
<1>4. E = Nat
  BY <1>1, <1>2, <1>3, Induction
<1> QED
  BY <1>0, <1>4 DEF E, Unsigned, Modulus

\* a -% b is the difference, wrapped.
LEMMA DifferenceWraps ==
  ASSUME NEW a \in Data, NEW b \in Data
  PROVE  Unsigned(Minus(a, b, XLEN)) = (Unsigned(a) - Unsigned(b)) % Modulus
<1> DEFINE c == Carry(a, Not(b, XLEN), TRUE, XLEN)
<1>1. Unsigned(Minus(a, b, XLEN)) + (IF c THEN Modulus ELSE 0)
        = Unsigned(a) + Unsigned(Not(b, XLEN)) + 1
  BY Added DEF Minus
<1>2. Unsigned(a) \in Int /\ Unsigned(b) \in Int /\ Unsigned(Minus(a, b, XLEN)) \in Int
  BY WordRange
<1>3. Unsigned(Not(b, XLEN)) = Modulus - 1 - Unsigned(b)
  BY Complement
<1>4. Modulus \in Int /\ Modulus * (-1) = - Modulus /\ Modulus * 0 = 0
  <2>1. Modulus \in Nat
    BY WordRange
  <2> QED
    BY <2>1
<1> HIDE DEF c
<1>5. \E q \in {-1, 0} : Unsigned(a) - Unsigned(b) = Unsigned(Minus(a, b, XLEN)) + Modulus * q
  BY <1>1, <1>2, <1>3, <1>4
<1> QED
  BY <1>2, <1>5, Wrapped

\* XLEN is 2^SHAMTW.
LEMMA WidthIsPower ==
  /\ SHAMTW \in 2 .. 5 /\ SHAMTW \in 0 .. XLEN /\ Pow2[SHAMTW] = XLEN
  /\ Pow2[1] = 2 /\ Pow2[2] = 4 /\ Pow2[3] = 8 /\ Pow2[4] = 16
<1>1. Pow2[0] = 1 /\ \A n \in Nat : Pow2[n + 1] = 2 * Pow2[n]
  BY Powers
<1>2. Pow2[1] = 2
  <2>1. 0 + 1 = 1
    OBVIOUS
  <2> QED
    BY <1>1, <2>1
<1>3. Pow2[2] = 4
  <2>1. 1 + 1 = 2
    OBVIOUS
  <2> QED
    BY <1>1, <1>2, <2>1
<1>4. Pow2[3] = 8
  <2>1. 2 + 1 = 3
    OBVIOUS
  <2> QED
    BY <1>1, <1>3, <2>1
<1>5. Pow2[4] = 16
  <2>1. 3 + 1 = 4
    OBVIOUS
  <2> QED
    BY <1>1, <1>4, <2>1
<1>6. Pow2[5] = 32
  <2>1. 4 + 1 = 5
    OBVIOUS
  <2> QED
    BY <1>1, <1>5, <2>1
<1>7. /\ SHAMTW \in 2 .. 5 /\ SHAMTW \in 0 .. XLEN
      /\ \/ SHAMTW = 2 /\ XLEN = 4
         \/ SHAMTW = 3 /\ XLEN = 8
         \/ SHAMTW = 4 /\ XLEN = 16
         \/ SHAMTW = 5 /\ XLEN = 32
  BY DatapathAssumption DEF DatapathAssumption
<1> QED
  BY <1>2, <1>3, <1>4, <1>5, <1>6, <1>7

\* A field is the number of its five bits.
LEMMA FieldNumber ==
  ASSUME NEW f
  PROVE  Field(f) = Low(f, 5)
<1>1. Low(f, 0) = 0 /\ \A n \in Nat : Low(f, n + 1) = Low(f, n) + Bit(f, n)
  BY LowBits
<1>2. /\ Low(f, 1) = 0 + Bit(f, 0) /\ Low(f, 2) = Low(f, 1) + Bit(f, 1)
      /\ Low(f, 3) = Low(f, 2) + Bit(f, 2) /\ Low(f, 4) = Low(f, 3) + Bit(f, 3)
      /\ Low(f, 5) = Low(f, 4) + Bit(f, 4)
  <2>1. 0 + 1 = 1 /\ 1 + 1 = 2 /\ 2 + 1 = 3 /\ 3 + 1 = 4 /\ 4 + 1 = 5
    OBVIOUS
  <2> QED
    BY <1>1, <2>1
<1>3. Pow2[0] = 1
  BY Powers
<1> QED
  BY <1>2, <1>3, WidthIsPower DEF Field, Bit

\* The shift amount is the second operand modulo the width.
LEMMA ShiftAmount ==
  ASSUME NEW b \in Data
  PROVE  /\ Field(Slice(b, SHAMTW - 1, 0)) = Unsigned(b) % XLEN
         /\ Unsigned(b) % XLEN \in 0 .. XLEN - 1
<1> DEFINE f == Slice(b, SHAMTW - 1, 0)
           s == SHAMTW
           v == ShiftRight(b, s)
<1>0. s \in Nat /\ 5 - s \in Nat /\ s + (5 - s) = 5 /\ s \in 0 .. XLEN /\ Pow2[s] = XLEN
  BY WidthIsPower
<1>1. b \subseteq Nat
  BY Remainders DEF Data, Word, Bits
<1>2. Cut(b, v, s)
  BY <1>0, <1>1, RightIsCut
<1>3. \A i \in Nat : i \in f <=> i \in b /\ i <= s - 1
  <2>1. f = {i - 0 : i \in {j \in b : 0 <= j /\ j <= s - 1}}
    BY DEF Slice
  <2>2. \A i \in b : i - 0 = i /\ i \in Nat /\ 0 <= i
    BY <1>1
  <2> QED
    BY <2>1, <2>2
<1> HIDE DEF f, v
<1>4. Unsigned(b) % XLEN = Low(b, s) /\ Low(b, s) \in 0 .. XLEN - 1
  <2>1. Unsigned(b) % Pow2[s] = Low(b, s) /\ Low(b, s) \in 0 .. Pow2[s] - 1
    BY <1>0, <1>2, CutParts
  <2> QED
    BY <1>0, <2>1
<1>5. Low(f, s) = Low(b, s)
  <2>1. \A i \in 0 .. s - 1 : i \in f <=> i \in b
    BY <1>0, <1>3
  <2> QED
    BY <1>0, <2>1, SameBits
<1> DEFINE none == {}
<1>5a. \A i : i \notin none
  OBVIOUS
<1> HIDE DEF none
<1>6. Low(f, s + (5 - s)) = Low(f, s) + Pow2[s] * Low(none, 5 - s)
  <2>1. \A i \in 0 .. (5 - s) - 1 : i \in none <=> i + s \in f
    BY <1>0, <1>3, <1>5a
  <2> QED
    BY <1>0, <2>1, LowAndHigh
<1>7. Low(none, 5 - s) = 0
  BY <1>0, <1>5a, NoBits
<1>8. Field(f) = Low(f, 5)
  BY FieldNumber
<1>9. Field(f) = Low(b, s)
  <2>1. XLEN * 0 = 0 /\ Low(b, s) \in Int
    BY <1>4, Remainders
  <2> QED
    BY <1>0, <1>5, <1>6, <1>7, <1>8, <2>1
<1> QED
  BY <1>4, <1>9 DEF f

\* A left shift multiplies, wrapped.
LEMMA LeftShift ==
  ASSUME NEW a \in Data, NEW n \in 0 .. XLEN - 1
  PROVE  Unsigned(Truncate(ShiftLeft(a, n), XLEN)) = (Unsigned(a) * Pow2[n]) % Modulus
<1> DEFINE m == XLEN - n
           h == ShiftRight(a, m)
           l == Truncate(ShiftLeft(a, n), XLEN)
<1>0. XLEN \in Nat /\ n \in Nat /\ m \in 0 .. XLEN /\ m \in Nat /\ n + m = XLEN /\ XLEN - m = n
  BY Remainders
<1>1. a \subseteq Nat
  BY <1>0 DEF Data, Word, Bits
<1>2. Cut(a, h, m)
  BY <1>0, <1>1, RightIsCut
<1>3. \A i \in 0 .. XLEN - 1 : i \in l <=> i - n \in a
  <2> SUFFICES ASSUME NEW i \in 0 .. XLEN - 1 PROVE i \in l <=> i - n \in a
    OBVIOUS
  <2>1. ASSUME i \in l PROVE i - n \in a
    <3>1. PICK j \in a : i = j + n
      BY <2>1 DEF Truncate, ShiftLeft
    <3>2. j = i - n
      BY <1>0, <1>1, <3>1
    <3> QED
      BY <3>1, <3>2
  <2>2. ASSUME i - n \in a PROVE i \in l
    <3>1. i = (i - n) + n /\ i < XLEN
      BY <1>0
    <3> QED
      BY <2>2, <3>1 DEF Truncate, ShiftLeft
  <2> QED
    BY <2>1, <2>2
<1> HIDE DEF m, h, l
<1>4. Low(l, n) = 0
  <2>1. \A i \in 0 .. n - 1 : i \in 0 .. XLEN - 1 /\ i - n \notin Nat
    BY <1>0
  <2>2. \A i \in 0 .. n - 1 : i \notin l
    BY <1>1, <1>3, <2>1
  <2> QED
    BY <1>0, <2>2, NoBits
<1>5. Low(l, n + m) = Low(l, n) + Pow2[n] * Low(a, m)
  <2>1. \A i \in 0 .. m - 1 : i + n \in 0 .. XLEN - 1 /\ (i + n) - n = i
    BY <1>0
  <2>2. \A i \in 0 .. m - 1 : i \in a <=> i + n \in l
    BY <1>3, <2>1
  <2> QED
    BY <1>0, <2>2, LowAndHigh
<1>6. /\ Unsigned(a) = Low(a, m) + Pow2[m] * Low(h, n)
      /\ Modulus = Pow2[m] * Pow2[n]
      /\ Pow2[m] \in Nat /\ Pow2[n] \in Nat
  BY <1>0, <1>2, CutParts
<1>7. Low(a, m) \in Nat /\ Low(h, n) \in Nat
  <2>1. Low(a, m) \in Nat
    BY <1>0, LowStep
  <2>2. Low(h, n) \in Nat
    BY <1>0, LowStep
  <2> QED
    BY <2>1, <2>2
<1>8. Unsigned(l) = Pow2[n] * Low(a, m)
  <2>1. Unsigned(l) = 0 + Pow2[n] * Low(a, m)
    BY <1>0, <1>4, <1>5 DEF Unsigned
  <2>2. Pow2[n] * Low(a, m) \in Int
    BY <1>6, <1>7
  <2> QED
    BY <2>1, <2>2
<1>9. Unsigned(a) * Pow2[n] = Unsigned(l) + Modulus * Low(h, n)
  <2>1. \A p, q, r, t \in Int : (p + q * r) * t = t * p + (q * t) * r
    OBVIOUS
  <2> QED
    BY <1>6, <1>7, <1>8, <2>1
<1>10. Unsigned(a) * Pow2[n] \in Int
  BY <1>6, <1>7
<1> QED
  BY <1>7, <1>9, <1>10, Wrapped DEF l

\* A right shift divides: with zeros the unsigned number, with copies of the sign
\* the signed one, wrapped.
LEMMA RightShift ==
  ASSUME NEW a \in Data, NEW n \in 0 .. XLEN - 1
  PROVE  /\ Unsigned(LogicalShiftRight(a, n)) = Unsigned(a) \div Pow2[n]
         /\ Unsigned(ArithmeticShiftRight(a, n)) = (Signed(a) \div Pow2[n]) % Modulus
<1> DEFINE m == XLEN - n
           h == ShiftRight(a, n)
           r == ArithmeticShiftRight(a, n)
           b == XLEN - 1 \in a
<1>0. /\ XLEN \in Nat /\ n \in 0 .. XLEN /\ n \in Nat /\ m \in 1 .. XLEN /\ m \in Nat /\ m + n = XLEN
      /\ XLEN - n = m
  BY Remainders
<1>1. a \in SUBSET (0 .. XLEN - 1) /\ a \subseteq Nat
  BY <1>0 DEF Data, Word, Bits
<1>2. Cut(a, h, n)
  BY <1>0, <1>1, RightIsCut
<1>3. \A i \in m .. XLEN - 1 : i \in h <=> FALSE
  <2>1. \A i \in m .. XLEN - 1 : i \in Nat /\ ~ (i + n \in 0 .. XLEN - 1)
    BY <1>0
  <2> QED
    BY <1>1, <1>2, <2>1 DEF Cut
<1>4. /\ \A i \in 0 .. m - 1 : i \in r <=> i \in h
      /\ \A i \in m .. XLEN - 1 : i \in r <=> b
  <2>1. r = h \cup FillFrom(b, m, XLEN)
    BY DEF ArithmeticShiftRight
  <2>2. \A i : i \in FillFrom(b, m, XLEN) <=> b /\ i \in m .. XLEN - 1
    BY DEF FillFrom
  <2>3. \A i \in 0 .. m - 1 : ~ (i \in m .. XLEN - 1)
    BY <1>0
  <2> HIDE DEF r, b, h, m
  <2> QED
    BY <1>3, <2>1, <2>2, <2>3
<1>5. b \in BOOLEAN
  OBVIOUS
<1> HIDE DEF m, h, r
<1>6. /\ Unsigned(a) = Low(a, n) + Pow2[n] * Low(h, m)
      /\ Low(a, n) \in 0 .. Pow2[n] - 1 /\ Low(h, m) \in 0 .. Pow2[m] - 1
      /\ Pow2[n] \in Nat \ {0} /\ Pow2[m] \in Nat \ {0}
      /\ Modulus = Pow2[n] * Pow2[m]
      /\ Unsigned(a) \div Pow2[n] = Low(h, m)
  BY <1>0, <1>2, CutParts
<1>7. Unsigned(h) = Low(h, m)
  BY <1>0, <1>3, Extended
<1>8. Unsigned(r) = (Signed(a) \div Pow2[n]) % Modulus
  <2>1. Low(r, m) = Low(h, m)
    BY <1>0, <1>4, SameBits
  <2>2. Unsigned(r) = IF b THEN Low(r, m) + Modulus - Pow2[m] ELSE Low(r, m)
    <3> HIDE DEF b
    <3> QED
      BY <1>0, <1>4, <1>5, Extended
  <2>3. Modulus \in Nat \ {0}
    BY WordRange
  <2>4. CASE ~ b
    <3>1. Signed(a) = Unsigned(a)
      BY <2>4 DEF Signed
    <3>2. Low(h, m) = Unsigned(r) + Modulus * 0
      BY <1>6, <2>1, <2>2, <2>3, <2>4
    <3>3. Low(h, m) \in Int
      BY <1>6
    <3>4. Low(h, m) % Modulus = Unsigned(r)
      BY <3>2, <3>3, Wrapped
    <3> QED
      BY <1>6, <3>1, <3>4
  <2>5. CASE b
    <3>1. Signed(a) = Unsigned(a) - Modulus
      BY <2>5 DEF Signed
    <3> DEFINE q == Low(h, m) - Pow2[m]
    <3>2. q \in Int
      BY <1>6
    <3>3. Signed(a) = Low(a, n) + Pow2[n] * q
      <4>1. \A d, e, f, g \in Int : d + e * f - e * g = d + e * (f - g)
        OBVIOUS
      <4> QED
        BY <1>6, <3>1, <4>1
    <3>4. q = Unsigned(r) + Modulus * (-1)
      BY <1>6, <2>1, <2>2, <2>3, <2>5
    <3> HIDE DEF q
    <3>5. (Low(a, n) + Pow2[n] * q) \div Pow2[n] = q
      BY <1>6, <3>2, Division
    <3>6. q % Modulus = Unsigned(r)
      BY <3>2, <3>4, Wrapped
    <3> QED
      BY <3>3, <3>5, <3>6
  <2> QED
    BY <2>4, <2>5
<1> QED
  BY <1>6, <1>7, <1>8 DEF LogicalShiftRight, h, r

\* The word of a truth value.
LEMMA FlagNumber ==
  ASSUME NEW p
  PROVE  Unsigned(Flag(p)) = IF p THEN 1 ELSE 0
<1>0. 1 \in Nat /\ 1 \in 1 .. XLEN /\ 0 + 1 = 1 /\ 0 \in Nat
  BY Remainders
<1>1. \A i \in 1 .. XLEN - 1 : i \in Flag(p) <=> FALSE
  BY DEF Flag
<1>2. Unsigned(Flag(p)) = Low(Flag(p), 1)
  BY <1>0, <1>1, Extended
<1>3. Low(Flag(p), 0 + 1) = Low(Flag(p), 0) + Bit(Flag(p), 0)
  BY <1>0, LowStep
<1>4. Low(Flag(p), 0) = 0 /\ Pow2[0] = 1
  BY <1>0, LowStep, Powers
<1>5. 0 \in Flag(p) <=> p
  BY DEF Flag
<1>6. Bit(Flag(p), 0) = IF p THEN 1 ELSE 0
  BY <1>4, <1>5 DEF Bit
<1>7. Bit(Flag(p), 0) \in Nat
  BY <1>6
<1> QED
  BY <1>0, <1>2, <1>3, <1>4, <1>6, <1>7

\* The bits of the number of a word are those of the word.
LEMMA BitOfWord ==
  ASSUME NEW w \in Data, NEW i \in BitNumber
  PROVE  BitOf(Unsigned(w), i) = IF i \in w THEN 1 ELSE 0
<1> DEFINE h == ShiftRight(w, i)
           g == ShiftRight(h, 1)
           k == XLEN - i
<1>0. /\ XLEN \in Nat /\ i \in Nat /\ i \in 0 .. XLEN /\ k \in Nat /\ k - 1 \in Nat
      /\ 1 + (k - 1) = k /\ 0 + 1 = 1 /\ 0 + i = i
  BY Remainders DEF BitNumber
<1>1. w \subseteq Nat
  BY <1>0 DEF Data, Word, Bits
<1>2. h \subseteq Nat
  BY <1>0, <1>1 DEF ShiftRight
<1>3. Cut(w, h, i)
  BY <1>0, <1>1, RightIsCut
<1>4. Cut(h, g, 1)
  <2> HIDE DEF h
  <2> QED
    BY <1>2, RightIsCut
<1> HIDE DEF h, g, k
<1>5. Unsigned(w) \div Pow2[i] = Low(h, k)
  BY <1>0, <1>3, CutParts DEF k
<1>6. Low(h, 1 + (k - 1)) = Low(h, 1) + Pow2[1] * Low(g, k - 1)
  <2>1. \A j \in 0 .. (k - 1) - 1 : j \in g <=> j + 1 \in h
    BY <1>0, <1>4 DEF Cut
  <2> QED
    BY <1>0, <2>1, LowAndHigh
<1>7. Low(h, 1) = IF i \in w THEN 1 ELSE 0
  <2>1. Low(h, 0 + 1) = Low(h, 0) + Bit(h, 0)
    BY <1>0, LowStep
  <2>2. Low(h, 0) = 0
    BY <1>0, LowStep
  <2>3. Bit(h, 0) = IF i \in w THEN 1 ELSE 0
    BY <1>0, <1>3, Powers DEF Bit, Cut
  <2> QED
    BY <1>0, <2>1, <2>2, <2>3
<1>8. Low(g, k - 1) \in Int /\ Pow2[1] = 2
  <2>1. Low(g, k - 1) \in Int
    BY <1>0, LowStep
  <2> QED
    BY <2>1, WidthIsPower
<1>9. \A q \in Int : (1 + 2 * q) % 2 = 1 /\ (0 + 2 * q) % 2 = 0
  OBVIOUS
<1> QED
  BY <1>0, <1>5, <1>6, <1>7, <1>8, <1>9 DEF BitOf

\* Every ALU operation computes the arithmetic RV32I gives it, wrapping at the
\* width of a register, for every pair of operands at every width (object ALU).
THEOREM ALUIsArithmeticCorrect == Spec => []ALUIsArithmetic
<1>1. x \in Data /\ y \in Data => ALUIsArithmetic
  <2> SUFFICES ASSUME x \in Data, y \in Data PROVE ALUIsArithmetic
    OBVIOUS
  <2> DEFINE Right(op) == Unsigned(ALU[op][x][y]) = RefALU(op)
             sh == Unsigned(y) % XLEN
             B(w, i) == IF i \in w THEN 1 ELSE 0
  <2>0. sh \in 0 .. XLEN - 1 /\ Field(Slice(y, SHAMTW - 1, 0)) = sh
    BY ShiftAmount
  <2>1. Right("ADD")
    <3>1. ALU["ADD"][x][y] = Plus(x, y, XLEN)
      BY DEF ALU, AluOp
    <3>2. RefALU("ADD") = (Unsigned(x) + Unsigned(y)) % Modulus
      BY DEF RefALU
    <3> QED
      BY <3>1, <3>2, SumWraps
  <2>2. Right("SUB")
    <3>1. ALU["SUB"][x][y] = Minus(x, y, XLEN)
      BY DEF ALU, AluOp
    <3>2. RefALU("SUB") = (Unsigned(x) - Unsigned(y)) % Modulus
      BY DEF RefALU
    <3> QED
      BY <3>1, <3>2, DifferenceWraps
  <2>3. Right("SLL")
    <3>1. ALU["SLL"][x][y] = Truncate(ShiftLeft(x, sh), XLEN)
      BY <2>0 DEF ALU, AluOp
    <3>2. RefALU("SLL") = (Unsigned(x) * Pow2[sh]) % Modulus
      BY DEF RefALU
    <3> HIDE DEF sh
    <3> QED
      BY <2>0, <3>1, <3>2, LeftShift
  <2>4. Right("SLT")
    <3>1. ALU["SLT"][x][y] = Flag(LessSigned(x, y))
      BY DEF ALU, AluOp
    <3>2. RefALU("SLT") = IF Signed(x) < Signed(y) THEN 1 ELSE 0
      BY DEF RefALU
    <3>3. Unsigned(Flag(LessSigned(x, y))) = IF LessSigned(x, y) THEN 1 ELSE 0
      BY FlagNumber
    <3>4. LessSigned(x, y) <=> Signed(x) < Signed(y)
      BY SignedCompare DEF LessSigned
    <3> QED
      BY <3>1, <3>2, <3>3, <3>4
  <2>5. Right("SLTU")
    <3>1. ALU["SLTU"][x][y] = Flag(LessUnsigned(x, y))
      BY DEF ALU, AluOp
    <3>2. RefALU("SLTU") = IF Unsigned(x) < Unsigned(y) THEN 1 ELSE 0
      BY DEF RefALU
    <3>3. Unsigned(Flag(LessUnsigned(x, y))) = IF LessUnsigned(x, y) THEN 1 ELSE 0
      BY FlagNumber
    <3>4. LessUnsigned(x, y) <=> Unsigned(x) < Unsigned(y)
      BY UnsignedCompare DEF LessUnsigned
    <3> QED
      BY <3>1, <3>2, <3>3, <3>4
  <2>6. Right("SRL")
    <3>1. ALU["SRL"][x][y] = LogicalShiftRight(x, sh)
      BY <2>0 DEF ALU, AluOp
    <3>2. RefALU("SRL") = Unsigned(x) \div Pow2[sh]
      BY DEF RefALU
    <3> HIDE DEF sh
    <3> QED
      BY <2>0, <3>1, <3>2, RightShift
  <2>7. Right("SRA")
    <3>1. ALU["SRA"][x][y] = ArithmeticShiftRight(x, sh)
      BY <2>0 DEF ALU, AluOp
    <3>2. RefALU("SRA") = (Signed(x) \div Pow2[sh]) % Modulus
      BY DEF RefALU
    <3> HIDE DEF sh
    <3> QED
      BY <2>0, <3>1, <3>2, RightShift
  <2>8. \A i \in BitNumber : BitOf(Unsigned(x), i) = B(x, i) /\ BitOf(Unsigned(y), i) = B(y, i)
    BY BitOfWord
  <2>9. x \in SUBSET BitNumber /\ y \in SUBSET BitNumber
    BY DEF BitNumber, Data, Word, Bits
  <2>10. Right("XOR")
    <3>1. ALU["XOR"][x][y] = Xor(x, y)
      BY DEF ALU, AluOp
    <3>2. RefALU("XOR") =
            Unsigned({i \in BitNumber : (BitOf(Unsigned(x), i) + BitOf(Unsigned(y), i)) % 2 = 1})
      BY DEF RefALU, Bitwise2
    <3>3. \A i \in BitNumber : (B(x, i) + B(y, i)) % 2 = 1 <=> ~ (i \in x <=> i \in y)
      OBVIOUS
    <3>4. {i \in BitNumber : (BitOf(Unsigned(x), i) + BitOf(Unsigned(y), i)) % 2 = 1} = Xor(x, y)
      BY <2>8, <2>9, <3>3 DEF Xor
    <3> QED
      BY <3>1, <3>2, <3>4
  <2>11. Right("OR")
    <3>1. ALU["OR"][x][y] = x \cup y
      BY DEF ALU, AluOp
    <3>2. RefALU("OR") =
            Unsigned({i \in BitNumber :
                        (IF BitOf(Unsigned(x), i) + BitOf(Unsigned(y), i) = 0 THEN 0 ELSE 1) = 1})
      BY DEF RefALU, Bitwise2
    <3>3. \A i \in BitNumber : (IF B(x, i) + B(y, i) = 0 THEN 0 ELSE 1) = 1 <=> i \in x \/ i \in y
      OBVIOUS
    <3>4. {i \in BitNumber :
             (IF BitOf(Unsigned(x), i) + BitOf(Unsigned(y), i) = 0 THEN 0 ELSE 1) = 1} = x \cup y
      BY <2>8, <2>9, <3>3
    <3> QED
      BY <3>1, <3>2, <3>4
  <2>12. Right("AND")
    <3>1. ALU["AND"][x][y] = x \cap y
      BY DEF ALU, AluOp
    <3>2. RefALU("AND") =
            Unsigned({i \in BitNumber : BitOf(Unsigned(x), i) * BitOf(Unsigned(y), i) = 1})
      BY DEF RefALU, Bitwise2
    <3>3. \A i \in BitNumber : B(x, i) * B(y, i) = 1 <=> i \in x /\ i \in y
      OBVIOUS
    <3>4. {i \in BitNumber : BitOf(Unsigned(x), i) * BitOf(Unsigned(y), i) = 1} = x \cap y
      BY <2>8, <2>9, <3>3
    <3> QED
      BY <3>1, <3>2, <3>4
  <2> HIDE DEF Right
  <2>13. \A op \in AluOp : Right(op)
    BY <2>1, <2>2, <2>3, <2>4, <2>5, <2>6, <2>7, <2>10, <2>11, <2>12 DEF AluOp
  <2> QED
    BY <2>13 DEF ALUIsArithmetic, Right
<1> QED
  BY <1>1, OperandsAreWords, PTL

=============================================================================
