------------------------------ MODULE Testbenches ----------------------------
(***************************************************************************)
(* The repository's own tests on the 32-bit core: each program with the    *)
(* results its test asserts.  Programs the tests give in hexadecimal are   *)
(* given so here; those they compile are written as the assembler and gcc  *)
(* (without -O) translate them.  The rest of imem holds zeros.             *)
(***************************************************************************)
EXTENDS CoreSystem, Asm, Sequences

\* A program, the cycles its test has patience for, and the registers and words of
\* data memory that it asserts.
Test(words, cycles, results, stored) ==
  [words |-> words, cycles |-> cycles, results |-> results, stored |-> stored]

\* The words of a program given in the assembler's order of operands.
Assemble(lines) ==
  LET Word32(l) == CASE l[1] = "addi"  -> addi(l[2], l[3], l[4])
                     [] l[1] = "add"   -> add(l[2], l[3], l[4])
                     [] l[1] = "lw"    -> lw(l[2], l[3], l[4])
                     [] l[1] = "sw"    -> sw(l[2], l[3], l[4])
                     [] l[1] = "bge"   -> bge(l[2], l[3], l[4])
                     [] l[1] = "jal"   -> jal(l[2], l[3])
                     [] l[1] = "jalr"  -> jalr(l[2], l[3], l[4])
                     [] l[1] = "auipc" -> auipc(l[2], l[3])
                     [] l[1] = "ecall" -> ecall
  IN  [i \in DOMAIN lines |-> Word32(lines[i])]

Sum100 == FromInt(4950, 32)   \* sum(range(100))

----------------------------------------------------------------------------
(* SRV32ISpec.scala                                                        *)

Basic == <<Hex(\h0050, \h0093), Hex(\h00a0, \h0113), Hex(\h0020, \h81b3), Hex(\h0000, \h0073)>>

basictest ==
  Test(Basic, 100, {<<1, FromInt(5, 32)>>, <<2, FromInt(10, 32)>>, <<3, FromInt(15, 32)>>}, {})

----------------------------------------------------------------------------
(* tb_loop_hex.py, tb_loop_asm.py with loop.s, tb_embeddedasm.py           *)

Loop == <<Hex(\h0000, \h0093), Hex(\h0000, \h0113), Hex(\h0640, \h0193), Hex(\h0031, \h5863),
          Hex(\h0020, \h80b3), Hex(\h0011, \h0113), Hex(\hff5f, \hf06f), ecall>>

tb_loop == Test(Loop, 600, {<<1, Sum100>>, <<2, FromInt(100, 32)>>, <<3, FromInt(100, 32)>>}, {})

LoopAsm ==
  <<<<"addi", 1, 0, 0>>, <<"addi", 2, 0, 0>>, <<"addi", 3, 0, 100>>, <<"bge", 2, 3, 16>>,
    <<"add", 1, 1, 2>>, <<"addi", 2, 2, 1>>, <<"jal", 0, -12>>, <<"ecall">>>>

tb_loop_asm == Test(Assemble(LoopAsm), 600, {<<1, Sum100>>}, {})

\* The same instructions, embedded in the test.
tb_embeddedasm == Test(Assemble(LoopAsm), 600, {<<1, Sum100>>}, {})

----------------------------------------------------------------------------
(* tb_rlwimi.py, tb_rlwimieq.py: the inserted field is computed in Python. *)

rotl32(v, sh) == (ShiftLeft(v, sh) \cup ShiftRight(v, 32 - sh)) \cap Bits(32)

ppc_mask(mb, me) == ShiftLeft(Bits(me - mb + 1), 31 - me)

CONST1 == Hex(\h1234, \h5678)
CONST2 == Hex(\habcd, \hef01)
SH == 8
MB == 16
ME == 23
MASK == Hex(\h0000, \hff00)

expected_rA(mask) == (CONST1 \ mask) \cup (rotl32(CONST2, SH) \cap mask)

Constants ==
  <<Hex(\h1234, \h5537), Hex(\h6785, \h0513), Hex(\habcd, \hf5b7), Hex(\hf015, \h8593)>>

Rlwimi == Constants \o <<encode_rlwimi(10, 11, SH, MB, ME), ecall>>

tb_rlwimi == Test(Rlwimi, 100, {<<11, CONST2>>, <<10, expected_rA(ppc_mask(MB, ME))>>}, {})

RlwimiEq ==
  Constants \o
  <<Hex(\h0001, \h03b7), Hex(\hf003, \h8393), Hex(\h0085, \h9e13), Hex(\h0185, \hde93),
    Hex(\h01de, \h6e33), Hex(\h007e, \h7e33), Hex(\hfff3, \hc393), Hex(\h0075, \h7533),
    Hex(\h01c5, \h6533), ecall>>

tb_rlwimieq == Test(RlwimiEq, 100, {<<11, CONST2>>, <<10, expected_rA(MASK)>>}, {})

----------------------------------------------------------------------------
(* tb_sum_c.py: sum.c behind the startup code of rv32i_compile.py.         *)

\* `call main`, without relaxation, and `ecall`; main follows.
crt0 == <<<<"auipc", 1, 0>>, <<"jalr", 1, 1, 12>>, <<"ecall">>>>

\* sp is x2, s0 is x8, a0, a4 and a5 are x10, x14 and x15; sum, i and out are at
\* -20, -24 and -28 of s0.
main ==
  <<<<"addi", 2, 2, -32>>, <<"sw", 8, 28, 2>>, <<"addi", 8, 2, 32>>,
    <<"sw", 0, -28, 8>>, <<"sw", 0, -20, 8>>, <<"sw", 0, -24, 8>>, <<"jal", 0, 32>>,
    <<"lw", 14, -20, 8>>, <<"lw", 15, -24, 8>>, <<"add", 15, 14, 15>>, <<"sw", 15, -20, 8>>,
    <<"lw", 15, -24, 8>>, <<"addi", 15, 15, 1>>, <<"sw", 15, -24, 8>>,        \* i++
    <<"lw", 14, -24, 8>>, <<"addi", 15, 0, 99>>, <<"bge", 15, 14, -36>>,      \* i < 100
    <<"lw", 15, -28, 8>>, <<"lw", 14, -20, 8>>, <<"sw", 14, 0, 15>>,          \* *out = sum
    <<"addi", 15, 0, 0>>, <<"addi", 10, 15, 0>>, <<"lw", 8, 28, 2>>,
    <<"addi", 2, 2, 32>>, <<"jalr", 0, 1, 0>>>>

tb_sum_c == Test(Assemble(crt0 \o main), 4000, {}, {<<{}, Sum100>>})

----------------------------------------------------------------------------

Tests ==
  {basictest, tb_loop, tb_loop_asm, tb_embeddedasm, tb_rlwimi, tb_rlwimieq, tb_sum_c}

Contents(words) ==
  [i \in ImemIndex |-> IF Field(i) < Len(words) THEN words[Field(i) + 1] ELSE {}]

TestPrograms == {Contents(t.words) : t \in Tests}

TestWords ==
  LET all == Basic \o Loop \o RlwimiEq \o Rlwimi \o Assemble(LoopAsm \o crt0 \o main)
  IN  {all[i] : i \in DOMAIN all} \cup {{}}

ZeroRegs == {[i \in RegIdx |-> {}]}

ZeroDmem == {[i \in DmemIndex |-> {}]}

Zero == {{}}

\* run(): the core is enabled until the host sees it halted, and disabled then.
TestNext == Next /\ ~ softReset' /\ enable' = ~ haltedReg

TestSpec == AnyRunInit /\ [][TestNext]_vars

\* Every test program halts by ECALL within the cycles allowed, and the registers and the
\* memory words its test looks at then hold what it asserts, and keep it, as does the cycle
\* counter that it asserts to be positive (SRV32ISpec.scala:79-85, the assertions of
\* the tb_*.py, srv32i_bridge.py:91-95).
TestsPass ==
  \A t \in Tests :
    imem = Contents(t.words) =>
      /\ cycleReg < t.cycles
      /\ haltedReg => /\ ecallReg /\ ~ illegalReg /\ cycleReg > 0
                      /\ \A r \in t.results : regs[r[1]] = r[2]
                      /\ \A m \in t.stored : dmem[m[1]] = m[2]

==============================================================================
