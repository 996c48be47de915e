-------------------------- MODULE DecoderReference ---------------------------
(***************************************************************************)
(* The decoder against the instruction formats: a word assembled from its  *)
(* operands decodes to these operands.                                     *)
(***************************************************************************)
EXTENDS Decoder, Asm

CONSTANTS
  Registers,   \* register numbers to assemble
  Immediates   \* immediates to assemble, as 12-bit fields

ASSUME OperandAssumption == Registers \subseteq RegIdx /\ Immediates \subseteq 0 .. 4095

VARIABLES
  rd, rs1, rs2, funct3, field,   \* operands of an instruction to assemble
  opcode                         \* any seven bits

vars == <<rd, rs1, rs2, funct3, field, opcode>>

Init == rd = 0 /\ rs1 = 0 /\ rs2 = 0 /\ funct3 = 0 /\ field = 0 /\ opcode = 0

operands == <<rd, rs1, rs2, funct3, field>>

\* Another value for one operand ...
NextOperand ==
  /\ opcode = 0
  /\ \/ rd' \in Registers /\ UNCHANGED <<rs1, rs2, funct3, field>>
     \/ rs1' \in Registers /\ UNCHANGED <<rd, rs2, funct3, field>>
     \/ rs2' \in Registers /\ UNCHANGED <<rd, rs1, funct3, field>>
     \/ funct3' \in 0 .. 7 /\ UNCHANGED <<rd, rs1, rs2, field>>
     \/ field' \in Immediates /\ UNCHANGED <<rd, rs1, rs2, funct3>>
  /\ UNCHANGED opcode

\* ... or, with all operands zero, another opcode.
NextOpcode ==
  /\ operands = <<0, 0, 0, 0, 0>>
  /\ opcode' \in 0 .. 127
  /\ UNCHANGED operands

Next == NextOperand \/ NextOpcode

Spec == Init /\ [][Next]_vars

----------------------------------------------------------------------------

\* The number the field stands for.
imm == IF field < 2048 THEN field ELSE field - 4096

Decodes(word, kind, fields) ==
  LET decoded == Decode(word)
  IN  decoded.kind = kind /\ \A f \in DOMAIN fields : decoded[f] = fields[f]

\* The instructions with an immediate, of each format, come apart into the
\* register numbers and the sign-extended immediate they were assembled from
\* (class Decoder, SRV32I.scala:99-117).
FormatsDecode ==
  LET value == FromInt(imm, XLEN)
  IN  /\ Decodes(I(LOAD, imm, rs1, funct3, rd), "Load",
                 [rd |-> rd, rs1 |-> rs1, funct3 |-> funct3, immI |-> value])
      /\ Decodes(S(STORE, imm, rs2, rs1, funct3), "Store",
                 [rs1 |-> rs1, rs2 |-> rs2, funct3 |-> funct3, immS |-> value])
      /\ Decodes(B(BRANCH, 2 * imm, rs2, rs1, funct3), "Branch",
                 [rs1 |-> rs1, rs2 |-> rs2, funct3 |-> funct3, immB |-> FromInt(2 * imm, XLEN)])
      /\ Decodes(jal(rd, 256 * imm), "JAL", [rd |-> rd, immJ |-> FromInt(256 * imm, XLEN)])
      /\ Decodes(jal(rd, 2 * imm), "JAL", [rd |-> rd, immJ |-> FromInt(2 * imm, XLEN)])
      /\ Decodes(lui(rd, imm), "LUI", [rd |-> rd, immU |-> FromInt(4096 * imm, XLEN)])

\* rlwimi's SH, MB and ME arrive as the testbenches pack them: any values, in
\* bits that are rs2, funct3 and funct7 elsewhere (SRV32I.scala:119-123).
RlwimiDecodes ==
  \A mb \in Registers :
    Decodes(encode_rlwimi(rd, rs1, rs2, mb, rd), "Custom",
            [rd |-> rd, rs1 |-> rs1, customSH |-> rs2 % XLEN, customMB |-> mb % XLEN,
             customME |-> rd % XLEN])

\* What the opcode number o of RV32I, the function code f and the upper twelve bits
\* n make of an instruction.
KindOf(o, f, n) ==
  CASE o = 51 -> "RType" [] o = 19 -> "IType" [] o = 3 -> "Load" [] o = 35 -> "Store"
    [] o = 99 -> "Branch" [] o = 55 -> "LUI" [] o = 23 -> "AUIPC" [] o = 111 -> "JAL"
    [] o = 103 -> "JALR" [] o = 15 -> "Fence" [] o = 11 -> "Custom"
    [] o = 115 /\ f = 0 /\ n = 0 -> "ECALL"
    [] o = 115 /\ f = 0 /\ n = 1 -> "EBREAK"
    [] OTHER -> "illegal"

\* Of the 128 opcodes exactly these eleven, ECALL and EBREAK are executed;
\* everything else is illegal, the other SYSTEM instructions included
\* (SRV32I.scala:125-164).
KindIsByOpcode ==
  \A f \in 0 .. 7, n \in {0, 1} \cup Immediates :
    Kind(I(FromInt(opcode, 7), n, 0, f, 0)) = KindOf(opcode, f, n)

==============================================================================
