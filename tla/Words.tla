-------------------------------- MODULE Words --------------------------------
(***************************************************************************)
(* Machine words as the sets of the positions of their 1 bits.             *)
(*                                                                         *)
(* The hardware description builds everything from bit slices,             *)
(* concatenations and bitwise logic; on sets of positions these are        *)
(* comprehensions, unions and intersections, at every width and without a  *)
(* number ever exceeding the range of TLC's integers.                      *)
(***************************************************************************)
EXTENDS Integers

Bits(w) == 0 .. w - 1

Word(w) == SUBSET Bits(w)

\* The w-bit two's complement word of the integer n (|n| < 2^30).
FromInt(n, w) == {i \in Bits(w) : (IF i < 30 THEN (n \div 2^i) % 2 = 1 ELSE n < 0)}

\* x(hi, lo)
Slice(x, hi, lo) == {i - lo : i \in {j \in x : lo <= j /\ j <= hi}}

ShiftLeft(x, n) == {i + n : i \in x}

ShiftRight(x, n) == {i - n : i \in {j \in x : n <= j}}

\* The low w bits of x.
Truncate(x, w) == {i \in x : i < w}

\* Bits lo, lo + 1, ..., w - 1, all equal to b: Fill(w - lo, b) moved to lo.
FillFrom(b, lo, w) == IF b THEN lo .. w - 1 ELSE {}

Not(x, w) == Bits(w) \ x

Xor(a, b) == (a \ b) \cup (b \ a)

(***************************************************************************)
(* Addition.  A carry enters position i when a lower position generates    *)
(* one and every position between them propagates it, or when the carry    *)
(* into position 0 is propagated all the way.                              *)
(***************************************************************************)
Carry(a, b, cin, i) ==
  \/ \E j \in 0 .. i - 1 : j \in a \cap b /\ \A k \in j + 1 .. i - 1 : k \in a \cup b
  \/ cin /\ \A k \in 0 .. i - 1 : k \in a \cup b

AddCarry(a, b, cin, w) == {i \in Bits(w) : (i \in Xor(a, b)) # Carry(a, b, cin, i)}

\* a +% b and a -% b on w bits.
Plus(a, b, w) == AddCarry(a, b, FALSE, w)

Minus(a, b, w) == AddCarry(a, Not(b, w), TRUE, w)

\* a < b, unsigned: the highest position where they differ is set in b.
ULess(a, b) == \E i \in b \ a : \A j \in Xor(a, b) : j <= i

\* a.asSInt < b.asSInt: unsigned comparison with the sign bits exchanged.
SLess(a, b, w) == ULess(Xor(a, {w - 1}), Xor(b, {w - 1}))

(***************************************************************************)
(* The number a field of at most five bits stands for: register numbers,   *)
(* function codes, shift amounts and mask bounds.                          *)
(***************************************************************************)
Field(x) ==
  LET b(i) == IF i \in x THEN 1 ELSE 0
  IN  b(0) + 2 * b(1) + 4 * b(2) + 8 * b(3) + 16 * b(4)

==============================================================================
