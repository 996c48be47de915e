--------------------------- MODULE DatapathTheorems --------------------------
(***************************************************************************)
(* What the words, the combinational blocks and the decoder return, for    *)
(* every width the assumptions allow.                                      *)
(***************************************************************************)
EXTENDS Decoder, TLAPS

\* The widths are natural numbers, a word has more than three bits and a shift
\* amount counts fewer than XLEN positions.
LEMMA Widths ==
  /\ XLEN \in Nat /\ SHAMTW \in Nat /\ BYTE \in Nat
  /\ 4 <= XLEN /\ XLEN <= 32 /\ XLEN = 4 * BYTE /\ SHAMTW \in 2 .. 5
BY DatapathAssumption DEF DatapathAssumption

LEMMA DataIsSubset == Data = SUBSET (0 .. XLEN - 1)
BY DEF Data, Word, Bits

----------------------------------------------------------------------------
(* Words.                                                                  *)

\* A field of five bits is a register number.
LEMMA FieldType == \A x : Field(x) \in 0 .. 31
<1> SUFFICES ASSUME NEW x PROVE Field(x) \in 0 .. 31
  OBVIOUS
<1> DEFINE b(i) == IF i \in x THEN 1 ELSE 0
<1>1. Field(x) = b(0) + 2 * b(1) + 4 * b(2) + 8 * b(3) + 16 * b(4)
  BY DEF Field
<1>2. \A i : b(i) \in 0 .. 1
  OBVIOUS
<1> HIDE DEF b
<1> QED
  BY <1>1, <1>2

\* The bits above the slice are not in it.
LEMMA SliceBounds ==
  \A x \in SUBSET Int, hi, lo \in Int : Slice(x, hi, lo) \in SUBSET (0 .. hi - lo)
BY DEF Slice

\* A field of SHAMTW bits is a bit number.
LEMMA ShamtType == \A x \in SUBSET (0 .. SHAMTW - 1) : Field(x) \in BitNumber
<1> SUFFICES ASSUME NEW x \in SUBSET (0 .. SHAMTW - 1) PROVE Field(x) \in BitNumber
  OBVIOUS
<1> DEFINE b(i) == IF i \in x THEN 1 ELSE 0
<1>1. Field(x) = b(0) + 2 * b(1) + 4 * b(2) + 8 * b(3) + 16 * b(4)
  BY DEF Field
<1>2. \A i \in 0 .. 4 : b(i) \in 0 .. 1 /\ (i >= SHAMTW => b(i) = 0)
  BY Widths
<1> HIDE DEF b
<1>3. Field(x) \in 0 .. XLEN - 1
  BY <1>1, <1>2, DatapathAssumption DEF DatapathAssumption
<1> QED
  BY <1>3 DEF BitNumber

\* A field of three bits is a function code.
LEMMA Funct3Type == \A x \in SUBSET (0 .. 2) : Field(x) \in 0 .. 7
<1> SUFFICES ASSUME NEW x \in SUBSET (0 .. 2) PROVE Field(x) \in 0 .. 7
  OBVIOUS
<1> DEFINE b(i) == IF i \in x THEN 1 ELSE 0
<1>1. Field(x) = b(0) + 2 * b(1) + 4 * b(2) + 8 * b(3) + 16 * b(4)
  BY DEF Field
<1>2. \A i \in 0 .. 4 : b(i) \in 0 .. 1 /\ (i >= 3 => b(i) = 0)
  OBVIOUS
<1> HIDE DEF b
<1> QED
  BY <1>1, <1>2

\* Unequal truth values.
LEMMA Differ == ASSUME NEW S, NEW i, NEW p \in BOOLEAN
                PROVE  ((i \in S) # p) <=> ~ (i \in S <=> p)
BY SMT

LEMMA PlusType == \A a, b : Plus(a, b, XLEN) \in Data
BY DEF Plus, AddCarry, Data, Word

LEMMA MinusType == \A a, b : Minus(a, b, XLEN) \in Data
BY DEF Minus, AddCarry, Data, Word

LEMMA TruncateType == \A x \in SUBSET Nat : Truncate(x, XLEN) \in Data
<1> SUFFICES ASSUME NEW x \in SUBSET Nat, NEW i \in Truncate(x, XLEN) PROVE i \in 0 .. XLEN - 1
  BY DataIsSubset
<1> QED
  BY Widths DEF Truncate

LEMMA ShiftRightType ==
  \A x \in Data, n \in Nat : ShiftRight(x, n) \in Data
BY Widths, DataIsSubset DEF ShiftRight

LEMMA ShiftLeftType == \A x \in SUBSET Nat, n \in Nat : ShiftLeft(x, n) \in SUBSET Nat
BY DEF ShiftLeft

LEMMA SliceType == \A x \in SUBSET Nat, hi, lo \in Nat : Slice(x, hi, lo) \in SUBSET Nat
<1> SUFFICES ASSUME NEW x \in SUBSET Nat, NEW hi \in Nat, NEW lo \in Nat,
                    NEW k \in Slice(x, hi, lo)
             PROVE  k \in Nat
  OBVIOUS
<1>1. PICK j \in x : lo <= j /\ k = j - lo
  BY DEF Slice
<1> QED
  BY <1>1

----------------------------------------------------------------------------
(* The combinational blocks.                                               *)

\* The adder returns a word.
LEMMA AddType == \A a, b \in Data : Add(a, b) \in Data
BY PlusType DEF Add, Adder

LEMMA FourType == Four \in Data
BY Widths, DataIsSubset DEF Four

\* A register-wide shift amount taken from a word.
LEMMA DataShamt == \A b \in Data : Field(Slice(b, SHAMTW - 1, 0)) \in BitNumber
<1> SUFFICES ASSUME NEW b \in Data PROVE Field(Slice(b, SHAMTW - 1, 0)) \in BitNumber
  OBVIOUS
<1>1. b \in SUBSET Int /\ SHAMTW - 1 \in Int
  BY Widths, DataIsSubset
<1>2. Slice(b, SHAMTW - 1, 0) \in SUBSET (0 .. (SHAMTW - 1) - 0)
  BY <1>1, SliceBounds
<1> QED
  BY <1>2, ShamtType, Widths

\* Every operation of the ALU returns a word.
LEMMA ALUType == \A op \in AluOp, a, b \in Data : ALU[op][a][b] \in Data
<1> SUFFICES ASSUME NEW op \in AluOp, NEW a \in Data, NEW b \in Data PROVE ALU[op][a][b] \in Data
  OBVIOUS
<1> DEFINE shamt == Field(Slice(b, SHAMTW - 1, 0))
<1>1. shamt \in Nat /\ shamt < XLEN
  BY DataShamt, Widths DEF BitNumber
<1>2. ALU[op][a][b] =
        CASE op = "ADD"  -> Plus(a, b, XLEN)
          [] op = "SUB"  -> Minus(a, b, XLEN)
          [] op = "SLL"  -> Truncate(ShiftLeft(a, shamt), XLEN)
          [] op = "SLT"  -> Flag(LessSigned(a, b))
          [] op = "SLTU" -> Flag(LessUnsigned(a, b))
          [] op = "XOR"  -> Xor(a, b)
          [] op = "SRL"  -> LogicalShiftRight(a, shamt)
          [] op = "SRA"  -> ArithmeticShiftRight(a, shamt)
          [] op = "OR"   -> a \cup b
          [] op = "AND"  -> a \cap b
  BY DEF ALU, shamt
<1> HIDE DEF shamt
<1>3. Plus(a, b, XLEN) \in Data /\ Minus(a, b, XLEN) \in Data
  BY PlusType, MinusType
<1>4. Truncate(ShiftLeft(a, shamt), XLEN) \in Data
  BY <1>1, TruncateType, ShiftLeftType, DataIsSubset, Widths
<1>5. \A p : Flag(p) \in Data
  BY Widths, DataIsSubset DEF Flag
<1>6. Xor(a, b) \in Data /\ a \cup b \in Data /\ a \cap b \in Data
  BY DataIsSubset DEF Xor
<1>7. LogicalShiftRight(a, shamt) \in Data
  BY <1>1, ShiftRightType DEF LogicalShiftRight
<1>8. ArithmeticShiftRight(a, shamt) \in Data
  <2>1. ShiftRight(a, shamt) \in Data
    BY <1>1, ShiftRightType
  <2>2. FillFrom(XLEN - 1 \in a, XLEN - shamt, XLEN) \in Data
    BY <1>1, Widths, DataIsSubset DEF FillFrom
  <2> QED
    BY <2>1, <2>2, DataIsSubset DEF ArithmeticShiftRight
<1> QED
  BY <1>2, <1>3, <1>4, <1>5, <1>6, <1>7, <1>8 DEF AluOp

\* A store leaves a word in memory.
LEMMA MergeLanesType ==
  \A old, wdata \in Data, lanes \in SUBSET Lane : MergeLanes[lanes][old][wdata] \in Data
BY DEF MergeLanes, Data, Word

LEMMA StoreMaskType == \A f \in 0 .. 7 : StoreMask(f) \in SUBSET Lane
BY DEF StoreMask, Lane

\* A load returns a word.
LEMMA LoadDataType == \A f \in 0 .. 7, w \in Data : LoadData[f][w] \in Data
<1> SUFFICES ASSUME NEW f \in 0 .. 7, NEW w \in Data PROVE LoadData[f][w] \in Data
  OBVIOUS
<1>1. \A n \in {1, 2} : ZeroExtended(w, n) \in Data
  BY DataIsSubset DEF ZeroExtended, Truncate
<1>2. \A n \in {1, 2} : FillFrom(n * BYTE - 1 \in w, n * BYTE, XLEN) \in Data
  BY Widths, DataIsSubset DEF FillFrom
<1>3. \A n \in {1, 2} : SignExtended(w, n) \in Data
  BY <1>1, <1>2, DataIsSubset DEF SignExtended, ZeroExtended
<1> QED
  BY <1>1, <1>3 DEF LoadData

\* rlwimi returns a word.
LEMMA CustomOpType ==
  \A sh, mb, me \in BitNumber, s, r \in Data : CustomOp[sh][mb][me][s][r] \in Data
<1> SUFFICES ASSUME NEW sh \in BitNumber, NEW mb \in BitNumber, NEW me \in BitNumber,
                    NEW s \in Data, NEW r \in Data
             PROVE  CustomOp[sh][mb][me][s][r] \in Data
  OBVIOUS
<1>1. s \in SUBSET Nat /\ s \cup ShiftLeft(s, XLEN) \in SUBSET Nat
  <2>1. s \in SUBSET Nat
    BY DataIsSubset
  <2>2. ShiftLeft(s, XLEN) \in SUBSET Nat
    BY <2>1, ShiftLeftType, Widths
  <2> QED
    BY <2>1, <2>2
<1>2. ShiftRight(s \cup ShiftLeft(s, XLEN), XLEN - sh) \in SUBSET Nat
  BY <1>1, Widths DEF ShiftRight, BitNumber
<1>3. Rotl(s, sh) \in Data
  BY <1>2, TruncateType DEF Rotl
<1> QED
  BY <1>3, DataIsSubset DEF CustomOp

----------------------------------------------------------------------------
(* The decoder.                                                            *)

\* Every piece of an instruction word that an immediate is made of.
LEMMA PieceType ==
  \A w \in Inst, hi, lo, n \in Nat :
    Slice(w, hi, lo) \in SUBSET Nat /\ ShiftLeft(Slice(w, hi, lo), n) \in SUBSET Nat
<1>1. \A w \in Inst : w \in SUBSET Nat
  BY DEF Inst, Word, Bits
<1> QED
  BY <1>1, SliceType, ShiftLeftType

\* The five immediates are words.
LEMMA ImmediateType ==
  \A w \in Inst : /\ ImmI(w) \in Data /\ ImmS(w) \in Data /\ ImmB(w) \in Data
                  /\ ImmU(w) \in Data /\ ImmJ(w) \in Data
<1> SUFFICES ASSUME NEW w \in Inst
             PROVE  /\ ImmI(w) \in Data /\ ImmS(w) \in Data /\ ImmB(w) \in Data
                    /\ ImmU(w) \in Data /\ ImmJ(w) \in Data
  OBVIOUS
<1>0. \A b : FillFrom(b, 12, 32) \in SUBSET Nat /\ FillFrom(b, 20, 32) \in SUBSET Nat
  BY DEF FillFrom
<1>1. ImmI(w) \in Data
  <2>1. Slice(w, 31, 20) \in SUBSET Nat
    BY PieceType
  <2> QED
    BY <2>1, <1>0, TruncateType DEF ImmI
<1>2. ImmS(w) \in Data
  <2>1. Slice(w, 11, 7) \in SUBSET Nat /\ ShiftLeft(Slice(w, 31, 25), 5) \in SUBSET Nat
    BY PieceType
  <2> QED
    BY <2>1, <1>0, TruncateType DEF ImmS
<1>3. ImmB(w) \in Data
  <2>1. /\ ShiftLeft(Slice(w, 11, 8), 1) \in SUBSET Nat
        /\ ShiftLeft(Slice(w, 30, 25), 5) \in SUBSET Nat
        /\ ShiftLeft(Slice(w, 7, 7), 11) \in SUBSET Nat
    BY PieceType
  <2> QED
    BY <2>1, <1>0, TruncateType DEF ImmB
<1>4. ImmU(w) \in Data
  <2>1. ShiftLeft(Slice(w, 31, 12), 12) \in SUBSET Nat
    BY PieceType
  <2> QED
    BY <2>1, TruncateType DEF ImmU
<1>5. ImmJ(w) \in Data
  <2>1. /\ ShiftLeft(Slice(w, 30, 21), 1) \in SUBSET Nat
        /\ ShiftLeft(Slice(w, 20, 20), 11) \in SUBSET Nat
        /\ ShiftLeft(Slice(w, 19, 12), 12) \in SUBSET Nat
    BY PieceType
  <2> QED
    BY <2>1, <1>0, TruncateType DEF ImmJ
<1> QED
  BY <1>1, <1>2, <1>3, <1>4, <1>5

\* The fields of rlwimi are bit numbers.
LEMMA CustomFieldType == \A w \in Inst, lo \in Nat : CustomField(w, lo) \in BitNumber
<1> SUFFICES ASSUME NEW w \in Inst, NEW lo \in Nat PROVE CustomField(w, lo) \in BitNumber
  OBVIOUS
<1>1. CustomImm(w) \in SUBSET Nat
  <2>1. /\ Slice(w, 14, 12) \in SUBSET Nat /\ ShiftLeft(Slice(w, 24, 20), 3) \in SUBSET Nat
        /\ ShiftLeft(Slice(w, 31, 25), 8) \in SUBSET Nat
    BY PieceType
  <2> QED
    BY <2>1 DEF CustomImm
<1>2. Slice(CustomImm(w), lo + SHAMTW - 1, lo) \in SUBSET (0 .. SHAMTW - 1)
  <2> SUFFICES ASSUME NEW k \in Slice(CustomImm(w), lo + SHAMTW - 1, lo)
               PROVE  k \in 0 .. SHAMTW - 1
    OBVIOUS
  <2>1. PICK j \in CustomImm(w) : lo <= j /\ j <= lo + SHAMTW - 1 /\ k = j - lo
    BY DEF Slice
  <2> QED
    BY <2>1, <1>1, Widths
<1> QED
  BY <1>2, ShamtType DEF CustomField

\* Every instruction word has one kind.
LEMMA KindType == \A w : Kind(w) \in Kinds
BY Zenon DEF Kind, Kinds

\* Decoding is total and of the type DecodedInst describes.
LEMMA DecodeType == \A w \in InstWord : DecodeOf[w] \in DecodedInst
<1> SUFFICES ASSUME NEW w \in InstWord PROVE Decode(w) \in DecodedInst
  BY DEF DecodeOf
<1>1. w \in Inst
  BY DecoderAssumption DEF DecoderAssumption
<1>2. Slice(w, 14, 12) \in SUBSET (0 .. 2) /\ Slice(w, 31, 25) \in Word(7)
  BY <1>1 DEF Slice, Inst, Word, Bits
<1>3. Field(Slice(w, 14, 12)) \in 0 .. 7
  BY <1>2, Funct3Type
<1>4. /\ Field(Slice(w, 11, 7)) \in RegIdx /\ Field(Slice(w, 19, 15)) \in RegIdx
      /\ Field(Slice(w, 24, 20)) \in RegIdx
  BY FieldType DEF RegIdx
<1>5. /\ CustomField(w, 10) \in BitNumber /\ CustomField(w, 5) \in BitNumber
      /\ CustomField(w, 0) \in BitNumber
  BY <1>1, CustomFieldType
<1> QED
  BY <1>1, <1>2, <1>3, <1>4, <1>5, KindType, ImmediateType DEF Decode, DecodedInst

\* Every instruction selects an operation the ALU has.
LEMMA AluControlType == \A e \in DecodedInst : AluControl(e) \in AluOp
BY DEF AluControl, AluOp, DecodedInst

==============================================================================
