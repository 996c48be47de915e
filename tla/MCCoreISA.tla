------------------------------ MODULE MCCoreISA ------------------------------
(***************************************************************************)
(* Programs whose first words are drawn from a small alphabet, on a core   *)
(* with 8-bit registers, sixteen bits of dmem and eight words of imem.     *)
(***************************************************************************)
EXTENDS CoreSystem, Asm

\* addi(1, 0, 2) has the bits of x2 where other instructions have rs2.
MCAlphabet ==
  {addi(1, 0, 12), addi(1, 0, 2), add(2, 1, 1), lw(2, 4, 0), lb(1, 0, 2), sw(1, 4, 0),
   beq(1, 2, 8), jal(1, -4), jalr(1, 1, 0), encode_rlwimi(2, 1, 1, 2, 5), nop, ecall, {}}

MCThird ==
  {lb(1, 0, 2), sw(1, 4, 0), beq(1, 2, 8), jal(1, -4), jalr(1, 1, 0),
   encode_rlwimi(2, 1, 1, 2, 5), nop}

MCTail == <<ecall, nop, fence, ebreak, nop>>

MCInstWord == MCAlphabet \cup {MCTail[i] : i \in DOMAIN MCTail}

MCPrograms ==
  {[i \in Word(3) |-> IF Field(i) < 3 THEN p[Field(i) + 1] ELSE MCTail[Field(i) - 2]] :
     p \in {q \in [1 .. 3 -> MCAlphabet] : q[3] \in MCThird}}

MCRegs == {[i \in RegIdx |-> IF i = 2 THEN {1, 7} ELSE {}]}

MCDmem == {[i \in Word(1) |-> IF i = {} THEN {1} ELSE {2, 7}]}

\* Decoding gives what the type of the decoder's output says, and a sum of words is
\* a word (and TLC has the tables).
ASSUME DecoderTyped == DecodeOf \in [InstWord -> DecodedInst]
ASSUME AdderTyped == Adder \in [Data -> [Data -> Data]]

MCNop == {nop}

MCGarbage == {{0}}

MCEntry == {{2}}

==============================================================================
