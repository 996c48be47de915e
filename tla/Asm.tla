--------------------------------- MODULE Asm ---------------------------------
(***************************************************************************)
(* Instruction words for the programs of the MC modules: the instruction   *)
(* formats of RV32I, and the immediate form of rlwimi as the testbenches   *)
(* encode it.  Operands are numbers, words are sets of bit positions.      *)
(***************************************************************************)
EXTENDS Words

\* The low w bits of the integer v, placed at bit pos.
Place(v, w, pos) == ShiftLeft(FromInt(v, w), pos)

\* Bits hi .. lo of the integer v, placed at bit pos.
Part(v, hi, lo, pos) == ShiftLeft(Slice(FromInt(v, 32), hi, lo), pos)

\* The 32-bit word written in hexadecimal as two halves.
Hex(hi, lo) == Place(hi, 16, 16) \cup Place(lo, 16, 0)

R(opcode, funct7, rs2, rs1, funct3, rd) ==
  opcode \cup Place(rd, 5, 7) \cup Place(funct3, 3, 12) \cup Place(rs1, 5, 15) \cup Place(rs2, 5, 20)
    \cup Place(funct7, 7, 25)

I(opcode, imm, rs1, funct3, rd) ==
  opcode \cup Place(rd, 5, 7) \cup Place(funct3, 3, 12) \cup Place(rs1, 5, 15) \cup Place(imm, 12, 20)

S(opcode, imm, rs2, rs1, funct3) ==
  opcode \cup Part(imm, 4, 0, 7) \cup Place(funct3, 3, 12) \cup Place(rs1, 5, 15)
    \cup Place(rs2, 5, 20) \cup Part(imm, 11, 5, 25)

B(opcode, imm, rs2, rs1, funct3) ==
  opcode \cup Part(imm, 11, 11, 7) \cup Part(imm, 4, 1, 8) \cup Place(funct3, 3, 12)
    \cup Place(rs1, 5, 15) \cup Place(rs2, 5, 20) \cup Part(imm, 10, 5, 25) \cup Part(imm, 12, 12, 31)

\* imm: the upper twenty bits.
U(opcode, imm, rd) == opcode \cup Place(rd, 5, 7) \cup Place(imm, 20, 12)

J(opcode, imm, rd) ==
  opcode \cup Place(rd, 5, 7) \cup Part(imm, 19, 12, 12) \cup Part(imm, 11, 11, 20)
    \cup Part(imm, 10, 1, 21) \cup Part(imm, 20, 20, 31)

----------------------------------------------------------------------------

OP     == FromInt(51, 7)    \* 0x33
OPIMM  == FromInt(19, 7)    \* 0x13
LOAD   == FromInt(3, 7)
STORE  == FromInt(35, 7)    \* 0x23
BRANCH == FromInt(99, 7)    \* 0x63

add(rd, rs1, rs2)    == R(OP, 0, rs2, rs1, 0, rd)
sub(rd, rs1, rs2)    == R(OP, 32, rs2, rs1, 0, rd)
addi(rd, rs1, imm)   == I(OPIMM, imm, rs1, 0, rd)
lb(rd, imm, rs1)     == I(LOAD, imm, rs1, 0, rd)
lw(rd, imm, rs1)     == I(LOAD, imm, rs1, 2, rd)
sb(rs2, imm, rs1)    == S(STORE, imm, rs2, rs1, 0)
sw(rs2, imm, rs1)    == S(STORE, imm, rs2, rs1, 2)
beq(rs1, rs2, imm)   == B(BRANCH, imm, rs2, rs1, 0)
bne(rs1, rs2, imm)   == B(BRANCH, imm, rs2, rs1, 1)
bge(rs1, rs2, imm)   == B(BRANCH, imm, rs2, rs1, 5)
bltu(rs1, rs2, imm)  == B(BRANCH, imm, rs2, rs1, 6)
lui(rd, imm)         == U(FromInt(55, 7), imm, rd)
auipc(rd, imm)       == U(FromInt(23, 7), imm, rd)
jal(rd, imm)         == J(FromInt(111, 7), imm, rd)
jalr(rd, rs1, imm)   == I(FromInt(103, 7), imm, rs1, 0, rd)
fence                == FromInt(15, 7)
ecall                == FromInt(115, 7)
ebreak               == FromInt(115, 7) \cup {20}
nop                  == addi(0, 0, 0)

\* encode_rlwimi: SH, MB and ME packed into funct7 ## rs2 ## funct3.
encode_rlwimi(rd, rs1, sh, mb, me) ==
  LET imm15 == sh * 1024 + mb * 32 + me
  IN  R(FromInt(11, 7), imm15 \div 256, (imm15 \div 8) % 32, rs1, imm15 % 8, rd)

==============================================================================
