---------------------------- MODULE PipelineHazards --------------------------
(***************************************************************************)
(* Programs that the source's comments and notes allow and that the        *)
(* pipeline does not run as they say.                                      *)
(***************************************************************************)
EXTENDS CoreSystem, Asm, Sequences

Contents(words) ==
  [i \in ImemIndex |-> IF Field(i) < Len(words) THEN words[Field(i) + 1] ELSE nop]

\* Two loads around an instruction that uses no register, but has 1 and 2 in the bits of
\* its immediate that are rs1 and rs2 elsewhere.
LoadUpperLoad == <<lw(1, 0, 0), lui(3, 8 + 512), lw(2, 0, 0), ecall>>

\* A halt with a store behind it.
HaltStore == <<ecall, sw(2, 0, 0)>>

LoadUpperLoadProgram == {Contents(LoadUpperLoad)}
HaltStoreProgram     == {Contents(HaltStore)}

ProgramWords ==
  {nop} \cup UNION {{words[i] : i \in DOMAIN words} : words \in {LoadUpperLoad, HaltStore}}

StartRegs == {[i \in RegIdx |-> IF i = 2 THEN {1, 7} ELSE {}]}

StartDmem == {[i \in DmemIndex |-> {1}]}

Nop == {nop}

Zero == {{}}

\* An instruction that has to wait for a load is executed when the load has landed: "if
\* the very next instruction actually reads (or writes) that same register, `stall`
\* re-issues it for one extra cycle" (SRV32I.scala:285-286), "so it's the one that shows
\* up again next cycle" (lines 449-450); an instruction that uses no loaded register does
\* not wait at all.
StallEnds ==
  \A a \in Data :
    (active /\ stall /\ pcExReg = a) ~> (active /\ instrValid /\ pcExReg = a)

\* "ECALL is the halt instruction" (NOTES.md:7): no instruction of a halted core
\* writes a register or memory.
HaltFreezes == [][haltedReg => UNCHANGED <<regs, dmem>>]_vars

==============================================================================
