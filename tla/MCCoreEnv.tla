------------------------------ MODULE MCCoreEnv ------------------------------
(***************************************************************************)
(* Programs of three words from an alphabet of loads, dependent            *)
(* instructions, jumps and halts, on a core whose control inputs change    *)
(* freely.                                                                 *)
(***************************************************************************)
EXTENDS CoreSystem, Asm

MCAlphabet == {lw(1, 0, 0), encode_rlwimi(1, 2, 1, 1, 2), sw(1, 0, 0), jal(0, -4), ecall, {}}

MCInstWord == MCAlphabet \cup {ebreak, nop}

MCThird == {lw(1, 0, 0), sw(1, 0, 0), ecall}

MCPrograms ==
  {[i \in Word(2) |-> IF Field(i) < 3 THEN p[Field(i) + 1] ELSE ebreak] :
     p \in {q \in [1 .. 3 -> MCAlphabet] : q[3] \in MCThird}}

MCRegs == {[i \in RegIdx |-> IF i = 2 THEN {1, 3} ELSE {}]}

MCDmem == {[i \in Word(0) |-> {1}]}

MCNop == {nop}

MCGarbage == {{0}}

MCEntry == {{2}}

\* Decoding gives what the type of the decoder's output says (and TLC has the table).
ASSUME DecoderTyped == DecodeOf \in [InstWord -> DecodedInst]

==============================================================================
