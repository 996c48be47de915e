------------------------------- MODULE Decoder -------------------------------
(***************************************************************************)
(* class Decoder of SRV32I.scala: what a 32-bit instruction word means.    *)
(*                                                                         *)
(* The one-hot flags isRType .. isCustom and illegal of DecodedInst are    *)
(* the field "kind", since at most one of them is set for any word.        *)
(* Immediates keep their low XLEN bits, which is all of them when XLEN is  *)
(* 32.                                                                     *)
(***************************************************************************)
EXTENDS Datapath

CONSTANT InstWord   \* the instruction words that occur in the instruction memory

Inst == Word(32)

ASSUME DecoderAssumption == InstWord \subseteq Inst

RegIdx == 0 .. 31

Kinds == {"RType", "IType", "Load", "Store", "Branch", "LUI", "AUIPC", "JAL", "JALR",
          "ECALL", "EBREAK", "Fence", "Custom", "illegal"}

DecodedInst ==
  [kind : Kinds, rd : RegIdx, rs1 : RegIdx, rs2 : RegIdx, funct3 : 0 .. 7,
   funct7 : Word(7),
   immI : Data, immS : Data, immB : Data, immU : Data, immJ : Data,
   customSH : BitNumber, customMB : BitNumber, customME : BitNumber]

ImmI(inst) == Truncate(Slice(inst, 31, 20) \cup FillFrom(31 \in inst, 12, 32), XLEN)

ImmS(inst) ==
  Truncate(Slice(inst, 11, 7) \cup ShiftLeft(Slice(inst, 31, 25), 5)
             \cup FillFrom(31 \in inst, 12, 32), XLEN)

ImmB(inst) ==
  Truncate(ShiftLeft(Slice(inst, 11, 8), 1) \cup ShiftLeft(Slice(inst, 30, 25), 5)
             \cup ShiftLeft(Slice(inst, 7, 7), 11) \cup FillFrom(31 \in inst, 12, 32), XLEN)

ImmU(inst) == Truncate(ShiftLeft(Slice(inst, 31, 12), 12), XLEN)

\* A mutant: the immediate of a jump laid out like that of a branch.
ImmJLikeB(inst) ==
  Truncate(ShiftLeft(Slice(inst, 30, 21), 1) \cup ShiftLeft(Slice(inst, 20, 20), 12)
             \cup ShiftLeft(Slice(inst, 19, 12), 13)
             \cup FillFrom(31 \in inst, 21, 32), XLEN)

ImmJ(inst) ==
  Truncate(ShiftLeft(Slice(inst, 30, 21), 1) \cup ShiftLeft(Slice(inst, 20, 20), 11)
             \cup ShiftLeft(Slice(inst, 19, 12), 12)
             \cup FillFrom(31 \in inst, 20, 32), XLEN)

\* A mutant: funct7 ## funct3 ## rs2.
CustomImmSwapped(inst) ==
  Slice(inst, 24, 20) \cup ShiftLeft(Slice(inst, 14, 12), 5)
    \cup ShiftLeft(Slice(inst, 31, 25), 8)

\* funct7 ## rs2 ## funct3
CustomImm(inst) ==
  Slice(inst, 14, 12) \cup ShiftLeft(Slice(inst, 24, 20), 3)
    \cup ShiftLeft(Slice(inst, 31, 25), 8)

\* The five-bit field of customImm at bit lo, of which SHAMTW bits count.
CustomField(inst, lo) == Field(Slice(CustomImm(inst), lo + SHAMTW - 1, lo))

\* A mutant: SYSTEM instructions of every funct3 (the CSR instructions).
IsSystemOpcode(inst) == Slice(inst, 6, 0) = {0, 1, 4, 5, 6}

IsSystem(inst) == Slice(inst, 6, 0) = {0, 1, 4, 5, 6} /\ Slice(inst, 14, 12) = {}

\* The opcode, written with the bits of the code's binary literals.
Kind(inst) ==
  LET opcode == Slice(inst, 6, 0)
      imm12  == Slice(inst, 31, 20)
  IN  CASE opcode = {0, 1, 4, 5}           -> "RType"
        [] opcode = {0, 1, 4}              -> "IType"
        [] opcode = {0, 1}                 -> "Load"
        [] opcode = {0, 1, 5}              -> "Store"
        [] opcode = {0, 1, 5, 6}           -> "Branch"
        [] opcode = {0, 1, 2, 4, 5}        -> "LUI"
        [] opcode = {0, 1, 2, 4}           -> "AUIPC"
        [] opcode = {0, 1, 2, 3, 5, 6}     -> "JAL"
        [] opcode = {0, 1, 2, 5, 6}        -> "JALR"
        [] IsSystem(inst) /\ imm12 = {}    -> "ECALL"
        [] IsSystem(inst) /\ imm12 = {0}   -> "EBREAK"
        [] opcode = {0, 1, 2, 3}           -> "Fence"
        [] opcode = {0, 1, 3}              -> "Custom"
        [] OTHER                           -> "illegal"

Decode(inst) ==
  [kind     |-> Kind(inst),
   rd       |-> Field(Slice(inst, 11, 7)),
   rs1      |-> Field(Slice(inst, 19, 15)),
   rs2      |-> Field(Slice(inst, 24, 20)),
   funct3   |-> Field(Slice(inst, 14, 12)),
   funct7   |-> Slice(inst, 31, 25),
   immI     |-> ImmI(inst),
   immS     |-> ImmS(inst),
   immB     |-> ImmB(inst),
   immU     |-> ImmU(inst),
   immJ     |-> ImmJ(inst),
   customSH |-> CustomField(inst, 10),
   customMB |-> CustomField(inst, 5),
   customME |-> CustomField(inst, 0)]

\* The decoder as a table: TLC evaluates it once.
DecodeOf == [w \in InstWord |-> Decode(w)]

----------------------------------------------------------------------------
(* What the decoded fields select: the ALU operation (aluCtrl) and whether *)
(* the instruction writes rd in EX (writesRd).                             *)

AluControl(d) ==
  IF d.kind \notin {"RType", "IType"} THEN "ADD"
  ELSE CASE d.funct3 = 0 -> IF d.kind = "RType" /\ 5 \in d.funct7 THEN "SUB" ELSE "ADD"
         [] d.funct3 = 1 -> "SLL"
         [] d.funct3 = 2 -> "SLT"
         [] d.funct3 = 3 -> "SLTU"
         [] d.funct3 = 4 -> "XOR"
         [] d.funct3 = 5 -> IF 5 \in d.funct7 THEN "SRA" ELSE "SRL"
         [] d.funct3 = 6 -> "OR"
         [] d.funct3 = 7 -> "AND"

WritesRd(d) == d.kind \in {"RType", "IType", "LUI", "AUIPC", "JAL", "JALR", "Custom"}

IsHalt(d) == d.kind \in {"illegal", "ECALL", "EBREAK"}

==============================================================================
