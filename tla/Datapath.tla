------------------------------ MODULE Datapath -------------------------------
(***************************************************************************)
(* The combinational blocks of the core: ALU, BranchUnit, MemAccess and    *)
(* CustomOp of SRV32I.scala.                                               *)
(***************************************************************************)
EXTENDS Words

CONSTANTS
  XLEN,     \* width of a register: 32 in the code
  SHAMTW,   \* width of a shift amount or mask bound: 5 in the code
  BYTE      \* width of a memory byte: 8 in the code

\* XLEN = 2^SHAMTW and XLEN = 4 * BYTE, as in the code, up to the code's widths.
ASSUME DatapathAssumption ==
  \/ SHAMTW = 2 /\ BYTE = 1 /\ XLEN = 4
  \/ SHAMTW = 3 /\ BYTE = 2 /\ XLEN = 8
  \/ SHAMTW = 4 /\ BYTE = 4 /\ XLEN = 16
  \/ SHAMTW = 5 /\ BYTE = 8 /\ XLEN = 32

Data == Word(XLEN)

Four == {2}

\* a +% b
Adder == [a \in Data |-> [b \in Data |-> Plus(a, b, XLEN)]]

Add(a, b) == Adder[a][b]

----------------------------------------------------------------------------
(* object ALU                                                              *)

AluOp == {"ADD", "SUB", "SLL", "SLT", "SLTU", "XOR", "SRL", "SRA", "OR", "AND"}

Flag(p) == IF p THEN {0} ELSE {}

LessUnsigned(a, b) == ULess(a, b)

LessSigned(a, b) == SLess(a, b, XLEN)

LogicalShiftRight(a, n) == ShiftRight(a, n)

ArithmeticShiftRight(a, n) == ShiftRight(a, n) \cup FillFrom(XLEN - 1 \in a, XLEN - n, XLEN)

ALU ==
  [op \in AluOp |-> [a \in Data |-> [b \in Data |->
     LET shamt == Field(Slice(b, SHAMTW - 1, 0))
     IN  CASE op = "ADD"  -> Plus(a, b, XLEN)
           [] op = "SUB"  -> Minus(a, b, XLEN)
           [] op = "SLL"  -> Truncate(ShiftLeft(a, shamt), XLEN)
           [] op = "SLT"  -> Flag(LessSigned(a, b))
           [] op = "SLTU" -> Flag(LessUnsigned(a, b))
           [] op = "XOR"  -> Xor(a, b)
           [] op = "SRL"  -> LogicalShiftRight(a, shamt)
           [] op = "SRA"  -> ArithmeticShiftRight(a, shamt)
           [] op = "OR"   -> a \cup b
           [] op = "AND"  -> a \cap b]]]

----------------------------------------------------------------------------
(* class BranchUnit, for an instruction that is a branch: funct3 values 2  *)
(* and 3 select no comparison and are never taken.                         *)

\* A mutant: bge and bgeu not taken between equal operands.
BranchUnitStrict ==
  [funct3 \in 0 .. 7 |-> [rs1Data \in Data |-> [rs2Data \in Data |->
     \/ funct3 = 0 /\ rs1Data = rs2Data
     \/ funct3 = 1 /\ rs1Data # rs2Data
     \/ funct3 = 4 /\ LessSigned(rs1Data, rs2Data)
     \/ funct3 = 5 /\ LessSigned(rs2Data, rs1Data)
     \/ funct3 = 6 /\ LessUnsigned(rs1Data, rs2Data)
     \/ funct3 = 7 /\ LessUnsigned(rs2Data, rs1Data)]]]

BranchUnit ==
  [funct3 \in 0 .. 7 |-> [rs1Data \in Data |-> [rs2Data \in Data |->
     \/ funct3 = 0 /\ rs1Data = rs2Data
     \/ funct3 = 1 /\ rs1Data # rs2Data
     \/ funct3 = 4 /\ LessSigned(rs1Data, rs2Data)
     \/ funct3 = 5 /\ ~ LessSigned(rs1Data, rs2Data)
     \/ funct3 = 6 /\ LessUnsigned(rs1Data, rs2Data)
     \/ funct3 = 7 /\ ~ LessUnsigned(rs1Data, rs2Data)]]]

----------------------------------------------------------------------------
(* object MemAccess.  The low bits of the address take no part in it.      *)

Lane == 0 .. 3

\* A mutant: a store that writes every lane.
WholeWordMask(funct3) == Lane

\* The byte lanes a store writes.
StoreMask(funct3) ==
  CASE funct3 = 0            -> {0}
    [] funct3 = 1            -> {0, 1}
    [] funct3 \notin {0, 1} -> Lane

\* The word in memory after a store of wdata over old (masked SyncReadMem write).
MergeLanes ==
  [lanes \in SUBSET Lane |-> [old \in Data |-> [wdata \in Data |->
     {i \in Bits(XLEN) : IF i \div BYTE \in lanes THEN i \in wdata ELSE i \in old}]]]

\* The low n bytes of rdata, zero- or sign-extended.
ZeroExtended(rdata, n) == Truncate(rdata, n * BYTE)

SignExtended(rdata, n) ==
  Truncate(rdata, n * BYTE) \cup FillFrom(n * BYTE - 1 \in rdata, n * BYTE, XLEN)

LoadData ==
  [funct3 \in 0 .. 7 |-> [rdata \in Data |->
     CASE funct3 = 0 -> SignExtended(rdata, 1)
       [] funct3 = 1 -> SignExtended(rdata, 2)
       [] funct3 = 4 -> ZeroExtended(rdata, 1)
       [] funct3 = 5 -> ZeroExtended(rdata, 2)
       [] funct3 \notin {0, 1, 4, 5} -> rdata]]

----------------------------------------------------------------------------
(* object CustomOp: rlwimi.  Mask bounds number the bits from the most     *)
(* significant one.  me -% mb +% 1 is computed on SHAMTW bits.             *)

BitNumber == 0 .. XLEN - 1

Rotl(x, sh) ==
  LET doubled == x \cup ShiftLeft(x, XLEN)
  IN  Truncate(ShiftRight(doubled, XLEN - sh), XLEN)

\* A mutant: a mask without its first bit.
PpcMaskShort(mb, me) == ShiftLeft(Bits((me - mb) % XLEN), XLEN - 1 - me)

PpcMask(mb, me) ==
  LET width == (me - mb + 1) % XLEN
      low   == XLEN - 1 - me
  IN  ShiftLeft(Bits(width), low)

CustomOp ==
  [sh \in BitNumber |-> [mb \in BitNumber |-> [me \in BitNumber |->
   [rs1Data \in Data |-> [rdData \in Data |->
     LET mask == PpcMask(mb, me)
     IN  (Rotl(rs1Data, sh) \cap mask) \cup (rdData \ mask)]]]]]

==============================================================================
