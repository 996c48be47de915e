---------------------------- MODULE CoreContract -----------------------------
(***************************************************************************)
(* What holds of the core and its memories in every clock, whatever drives *)
(* the control inputs; the programs the pipeline is made for; and the      *)
(* state of the sequential machine that the pipeline stands for.           *)
(***************************************************************************)
EXTENDS TightMemory

CONSTANT EntryAddr   \* values of entryAddr

ASSUME CoreSystemAssumption == EntryAddr \subseteq Data

----------------------------------------------------------------------------
(* The registers of the pipeline and of the halt, against each other.      *)

\* pcExReg is the address of the instruction in EX whenever an active core
\* executes one, through redirects, stalls, pauses and resets: pcExReg "labels
\* whichever instruction io.imem.inst is currently showing" (SRV32I.scala:269-272).
LabelTracksInst ==
  active /\ ~ bubbleReg => inst = imem[ImemWordAddr(pcExReg)]

\* A halted core has exactly one cause to report, a core that is not halted
\* has none, and no load is still under way when the halt is reported, over any
\* sequence of runs, pauses and resets (SRV32I.scala:462-466 and 475-485).
HaltReport ==
  /\ haltedReg <=> illegalReg \/ ecallReg \/ ebreakReg
  /\ ~ (illegalReg /\ ecallReg) /\ ~ (illegalReg /\ ebreakReg) /\ ~ (ecallReg /\ ebreakReg)
  /\ haltedReg => ~ loadPendReg

----------------------------------------------------------------------------
(* The programs the pipeline is made for.                                  *)

\* The instruction that program p has at address a.
At(p, a) == DecodeOf[p[ImemWordAddr(a)]]

\* Whether e takes the stall that a pending load of register rd calls for.  The fields of
\* the word are compared, also where e has no such operand: the bits of an immediate that
\* spell rd call for the stall as well.
Conflict(e, rd) ==
  /\ rd # 0
  /\ \/ e.rs1 = rd
     \/ e.rs2 = rd
     \/ (WritesRd(e) \/ e.kind = "Load") /\ e.rd = rd

\* An instruction that only goes on to the next one.
Inert(e) ==
  \/ e.kind = "Fence"
  \/ e.kind \in {"RType", "IType", "LUI", "AUIPC", "Custom"} /\ e.rd = 0

\* The word behind one that stalls is inert: it is executed before that one, and again.
StallPadded(p) ==
  \A a \in Data :
    At(p, a).kind = "Load" /\ Conflict(At(p, Add(a, Four)), At(p, a).rd)
      => Inert(At(p, Add(Add(a, Four), Four)))

Harmless(e) == e.kind # "Store" /\ (WritesRd(e) => e.rd = 0)

\* The two words behind an instruction that halts neither store nor write a register.
HaltPadded(p) ==
  \A a \in Data :
    IsHalt(At(p, a)) => /\ Harmless(At(p, Add(a, Four)))
                        /\ Harmless(At(p, Add(Add(a, Four), Four)))

IsPrepared(p) == StallPadded(p) /\ HaltPadded(p)

----------------------------------------------------------------------------
(* The sequential machine.                                                 *)

\* EX holds the word fetched before the one being fetched.
inStep == pcFetchReg = Add(pcExReg, Four)

\* The instruction to execute next: in EX, or still to be fetched when EX is empty or, behind
\* a stall, shows the word after it.  After a halt it is the one behind the instruction that
\* halted, also with EX emptied.
archPc == IF ~ haltedReg /\ (bubbleReg \/ ~ inStep) THEN pcFetchReg ELSE pcExReg

\* A load that has left EX has happened, although its register is not yet written.
archRegs == RegsAfterLoad

archMode ==
  CASE ~ enable                -> "idle"
    [] enable /\ ~ haltedReg   -> "running"
    [] enable /\ haltedReg     -> IF illegalReg THEN "illegal"
                                  ELSE IF ecallReg THEN "ECALL" ELSE "EBREAK"

Sequential == INSTANCE ISA WITH pc <- archPc, regs <- archRegs, mode <- archMode

\* A load or a store whose address is not that of a word.
OffLane ==
  Sequential!instr.kind \in {"Load", "Store"} /\ Sequential!DataAddress \cap {0, 1} # {}

\* What a clock of the running core does to the sequential machine, if anything: an
\* instruction of RV32I, but for accesses off the lanes of a word, which the memories
\* make at the word (dmemWordAddr, AxiSRV32I.scala:161).
SequentialStep == IF OffLane THEN Sequential!WordStep ELSE Sequential!Step

==============================================================================
