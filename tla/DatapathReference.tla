-------------------------- MODULE DatapathReference --------------------------
(***************************************************************************)
(* The combinational blocks against what RV32I and the rlwimi comment say  *)
(* of them, in the arithmetic of numbers, for every pair of operands of a  *)
(* small width.                                                            *)
(***************************************************************************)
EXTENDS Datapath, FiniteSets

VARIABLES x, y   \* two operands

vars == <<x, y>>

Init == x = {} /\ y = {}

\* New operands.
Next == x' \in Data /\ y' \in Data

Spec == Init /\ [][Next]_vars

----------------------------------------------------------------------------
(* Words as numbers.                                                       *)

Pow2[n \in Nat] == IF n = 0 THEN 1 ELSE 2 * Pow2[n - 1]

\* The number that the low n bits of w stand for.
Low(w, n) ==
  LET sum[k \in Nat] ==
        IF k = 0 THEN 0 ELSE sum[k - 1] + (IF k - 1 \in w THEN Pow2[k - 1] ELSE 0)
  IN  sum[n]

Modulus == Pow2[XLEN]

Unsigned(w) == Low(w, XLEN)

Signed(w) == IF XLEN - 1 \in w THEN Unsigned(w) - Modulus ELSE Unsigned(w)

BitOf(n, i) == (n \div Pow2[i]) % 2

\* The number with bit i equal to f(BitOf(m, i), BitOf(n, i)).
Bitwise2(f(_, _), m, n) ==
  Unsigned({i \in BitNumber : f(BitOf(m, i), BitOf(n, i)) = 1})

RefALU(op) ==
  LET m  == Unsigned(x)
      n  == Unsigned(y)
      sh == n % XLEN
      AsNumber(p) == IF p THEN 1 ELSE 0
  IN  CASE op = "ADD"  -> (m + n) % Modulus
        [] op = "SUB"  -> (m - n) % Modulus
        [] op = "SLL"  -> (m * Pow2[sh]) % Modulus
        [] op = "SLT"  -> AsNumber(Signed(x) < Signed(y))
        [] op = "SLTU" -> AsNumber(m < n)
        [] op = "XOR"  -> Bitwise2(LAMBDA a, b : (a + b) % 2, m, n)
        [] op = "SRL"  -> m \div Pow2[sh]
        [] op = "SRA"  -> (Signed(x) \div Pow2[sh]) % Modulus
        [] op = "OR"   -> Bitwise2(LAMBDA a, b : IF a + b = 0 THEN 0 ELSE 1, m, n)
        [] op = "AND"  -> Bitwise2(LAMBDA a, b : a * b, m, n)

\* Every ALU operation computes the arithmetic RV32I gives it, wrapping at the
\* width of a register (object ALU, SRV32I.scala:10-37).
ALUIsArithmetic == \A op \in AluOp : Unsigned(ALU[op][x][y]) = RefALU(op)

\* Every branch condition is the comparison RV32I gives it
\* (class BranchUnit, SRV32I.scala:39-60).
BranchesCompare ==
  /\ BranchUnit[0][x][y] = (Unsigned(x) = Unsigned(y))
  /\ BranchUnit[1][x][y] = (Unsigned(x) # Unsigned(y))
  /\ BranchUnit[4][x][y] = (Signed(x) < Signed(y))
  /\ BranchUnit[5][x][y] = (Signed(x) >= Signed(y))
  /\ BranchUnit[6][x][y] = (Unsigned(x) < Unsigned(y))
  /\ BranchUnit[7][x][y] = (Unsigned(x) >= Unsigned(y))

\* What a store leaves in memory is what the load of the same width reads back,
\* sign- or zero-extended, and the rest of the word keeps its value
\* (object MemAccess, SRV32I.scala:167-181).
StoredIsLoaded ==
  \A f \in {0, 1, 2} :
    LET bits   == CASE f = 0 -> BYTE [] f = 1 -> 2 * BYTE [] f = 2 -> XLEN
        merged == MergeLanes[StoreMask(f)][x][y]
        part   == Unsigned(y) % Pow2[bits]
    IN  /\ Unsigned(merged) = (Unsigned(x) \div Pow2[bits]) * Pow2[bits] + part
        /\ Signed(LoadData[f][merged]) = IF part < Pow2[bits - 1] THEN part ELSE part - Pow2[bits]
        /\ f < 2 => Unsigned(LoadData[f + 4][merged]) = part

\* Bit i of x counted from the most significant one, as PowerPC does.
MsbBit(w, i) == XLEN - 1 - i \in w

InsertsField(sh, mb, me) ==
  LET result == CustomOp[sh][mb][me][x][y]
  IN  \A i \in BitNumber :
        MsbBit(result, i) = IF mb <= i /\ i <= me THEN MsbBit(x, (i + sh) % XLEN)
                                                  ELSE MsbBit(y, i)

\* rlwimi inserts bits MB .. ME of the rotated source and keeps the others, for
\* every field but the whole word (SRV32I.scala:192-213).
RlwimiInsertsField ==
  \A sh, mb, me \in BitNumber :
    mb <= me /\ ~ (mb = 0 /\ me = XLEN - 1) => InsertsField(sh, mb, me)

\* "width = me -% mb +% 1.U  // 1..32" (SRV32I.scala:203): every field MB <= ME
\* has a mask of between one and XLEN bits.
MaskWidthIsPositive ==
  \A mb, me \in BitNumber : mb <= me => Cardinality(PpcMask(mb, me)) \in 1 .. XLEN

==============================================================================
