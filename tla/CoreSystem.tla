------------------------------ MODULE CoreSystem -----------------------------
(***************************************************************************)
(* The core with its memories, under control inputs that are free to       *)
(* change in every clock (Spec), and under the inputs of one complete      *)
(* program run (RunSpec): started once, neither paused nor reset, which    *)
(* implements the sequential machine.                                      *)
(***************************************************************************)
EXTENDS CoreContract

vars == <<controlVars, coreVars, memVars>>

ControlTypeOK ==
  /\ enable \in BOOLEAN /\ softReset \in BOOLEAN
  /\ entryAddr \in EntryAddr /\ entryAddr_we \in BOOLEAN

TypeOK == CoreTypeOK /\ MemoryTypeOK /\ ControlTypeOK

PowerUp == ControlTypeOK /\ PowerUpCore

Init == imem \in Programs /\ PowerUp

FreeInputs ==
  /\ enable' \in BOOLEAN /\ softReset' \in BOOLEAN
  /\ entryAddr' \in EntryAddr /\ entryAddr_we' \in BOOLEAN

Surroundings == MemoryClock /\ FreeInputs

Next ==
  \/ BubbleCycle /\ Surroundings
  \/ StallCycle /\ Surroundings
  \/ ExecuteCycle /\ Surroundings
  \/ RedirectCycle /\ Surroundings
  \/ HaltCycle /\ Surroundings
  \/ HaltedCycle /\ Surroundings
  \/ IdleCycle /\ Surroundings
  \/ SoftResetCycle /\ Surroundings

Spec == Init /\ [][Next]_vars

----------------------------------------------------------------------------
(* Properties under free inputs.                                           *)

\* The registers whose old value an instruction needs, and the one it changes.
Sources(e) ==
  (IF e.kind \in {"RType", "IType", "Load", "Store", "Branch", "JALR", "Custom"}
     THEN {e.rs1} ELSE {})
  \cup (IF e.kind \in {"RType", "Store", "Branch"} THEN {e.rs2} ELSE {})
  \cup (IF e.kind = "Custom" THEN {e.rd} ELSE {})

Target(e) == IF WritesRd(e) \/ e.kind = "Load" THEN {e.rd} ELSE {}

\* An instruction never takes effect while a register it needs, or writes itself,
\* is still to receive an earlier load: the two write ports never meet and no
\* stale operand is read (the hazard check, SRV32I.scala:349-360).
OperandsSettled ==
  instrValid /\ loadPendReg /\ loadPendRdReg # 0
    => loadPendRdReg \notin Sources(dec) \cup Target(dec)

\* With EX empty nothing is on its way to a register or to memory: from its second
\* paused or reset clock on, the core changes neither (SRV32I.scala:352-360, 468-485).
EmptyIsQuiet ==
  [][bubbleReg => UNCHANGED <<regs, dmem>>]_vars

\* What the host polls after a halt stays as it is until a soft reset, whatever
\* the host does with enable and the entry address (SRV32I.scala:443-472, 488-494).
HaltReportStays ==
  [][haltedReg /\ ~ softReset => UNCHANGED <<pcExReg, statusVars, cycleReg>>]_vars

----------------------------------------------------------------------------
(* One run of a program.                                                   *)

Prepared == {p \in Programs : IsPrepared(p)}

RunInputs == ~ softReset' /\ (enable => enable')

RunInit == imem \in Prepared /\ PowerUp /\ ~ softReset

AnyRunInit == imem \in Programs /\ PowerUp /\ ~ softReset

RunNext == Next /\ RunInputs

\* The clock never stops.
RunSpec == RunInit /\ [][RunNext]_vars /\ WF_vars(RunNext)

\* The same for programs that were not prepared for this pipeline.
AnyRunSpec == AnyRunInit /\ [][RunNext]_vars /\ WF_vars(RunNext)

\* Every program in which an inert word follows each word that stalls, and two harmless
\* ones each word that halts, runs as on the sequential machine: every instruction once,
\* in order, with all its effects and no others, through bubbles, squashed instructions,
\* stalls and the second execution of the inert words.  A word stalls when its rs1, rs2 or
\* written rd field is the register of a load right before it, whether or not the
\* instruction has that operand (the pipeline comment, SRV32I.scala:265-289, and
\* lines 356-358).
ImplementsISA ==
  Sequential!Init /\ [][Sequential!Idle \/ SequentialStep]_(Sequential!vars)

\* An active core never goes on for ever without completing the instruction that its
\* program is at: neither squashed instructions nor stalls and what they let into EX come
\* without end (SRV32I.scala:416-419 and 453-456).
KeepsExecuting == active ~> (active /\ instrValid /\ inStep)

==============================================================================
