------------------------------- MODULE SRV32I --------------------------------
(***************************************************************************)
(* The two-stage (IF/EX) pipeline of class SRV32I, one step per clock.     *)
(*                                                                         *)
(* The registers carry the code's names.  enable .. rdata are the inputs   *)
(* the core sees during a cycle: its surroundings choose their next        *)
(* values.  A definition without a prime is a wire of the current cycle.   *)
(***************************************************************************)
EXTENDS Decoder

CONSTANT CycleMod   \* the cycle counter counts modulo this: 2^64 in the code

ASSUME CycleAssumption == CycleMod \in Nat \ {0}

VARIABLES
  enable, softReset, entryAddr, entryAddr_we,     \* control inputs
  inst, rdata,                                    \* io.imem.inst, io.dmem.rdata
  pcFetchReg, pcExReg, bubbleReg,
  loadPendReg, loadPendRdReg, loadPendF3Reg,
  haltedReg, illegalReg, ecallReg, ebreakReg,
  cycleReg,
  regs                                            \* RegFile.regs

controlVars == <<enable, softReset, entryAddr, entryAddr_we>>
pcVars      == <<pcFetchReg, pcExReg, bubbleReg>>
loadVars    == <<loadPendReg, loadPendRdReg, loadPendF3Reg>>
statusVars  == <<haltedReg, illegalReg, ecallReg, ebreakReg>>
coreVars    == <<pcVars, loadVars, statusVars, cycleReg, regs>>

CoreTypeOK ==
  /\ pcFetchReg \in Data /\ pcExReg \in Data /\ bubbleReg \in BOOLEAN
  /\ loadPendReg \in BOOLEAN /\ loadPendRdReg \in RegIdx /\ loadPendF3Reg \in 0 .. 7
  /\ haltedReg \in BOOLEAN /\ illegalReg \in BOOLEAN
  /\ ecallReg \in BOOLEAN /\ ebreakReg \in BOOLEAN
  /\ cycleReg \in 0 .. CycleMod - 1
  /\ regs \in [RegIdx -> Data]

----------------------------------------------------------------------------
(* Decode and hazard check.                                                *)

dec == DecodeOf[inst]

\* A mutant: halting does not stop the pipeline.
activeWhenEnabled == enable

active == enable /\ ~ haltedReg

\* A mutant: a pending load is not ordered before a write of its register.
StallWithoutRd ==
  /\ ~ bubbleReg /\ loadPendReg /\ loadPendRdReg # 0
  /\ \/ dec.rs1 = loadPendRdReg
     \/ dec.rs2 = loadPendRdReg

\* A mutant: whether the load is still pending is not looked at.
StallWithoutPending ==
  /\ ~ bubbleReg /\ loadPendRdReg # 0
  /\ \/ dec.rs1 = loadPendRdReg
     \/ dec.rs2 = loadPendRdReg
     \/ (WritesRd(dec) \/ dec.kind = "Load") /\ dec.rd = loadPendRdReg

stall ==
  /\ ~ bubbleReg /\ loadPendReg /\ loadPendRdReg # 0
  /\ \/ dec.rs1 = loadPendRdReg
     \/ dec.rs2 = loadPendRdReg
     \/ (WritesRd(dec) \/ dec.kind = "Load") /\ dec.rd = loadPendRdReg

\* A mutant: the instruction fetched behind a redirect is not squashed.
instrValidInBubble == ~ stall

instrValid == ~ bubbleReg /\ ~ stall

----------------------------------------------------------------------------
(* Operands, results and the next PC.                                      *)

RegRead(i) == IF i = 0 THEN {} ELSE regs[i]

rs1Data == RegRead(dec.rs1)
rs2Data == RegRead(dec.rs2)

aluOp2 ==
  CASE dec.kind = "Store"              -> dec.immS
    [] dec.kind \in {"IType", "Load"}  -> dec.immI
    [] OTHER                           -> rs2Data

aluOut == ALU[AluControl(dec)][rs1Data][aluOp2]

customOut ==
  CustomOp[dec.customSH][dec.customMB][dec.customME][rs1Data][RegRead(dec.rd)]

branchTaken == dec.kind = "Branch" /\ BranchUnit[dec.funct3][rs1Data][rs2Data]

pcPlus4 == Add(pcExReg, Four)

\* A mutant: a jump does not redirect.
flushRedirectBranchOnly == instrValid /\ branchTaken

flushRedirect == instrValid /\ (branchTaken \/ dec.kind \in {"JAL", "JALR"})

redirectTarget ==
  CASE branchTaken        -> Add(pcExReg, dec.immB)
    [] dec.kind = "JAL"   -> Add(pcExReg, dec.immJ)
    [] dec.kind = "JALR"  -> Add(rs1Data, dec.immI) \ {0}
    [] OTHER              -> pcPlus4

wbData ==
  CASE dec.kind = "LUI"              -> dec.immU
    [] dec.kind = "AUIPC"            -> Add(pcExReg, dec.immU)
    [] dec.kind \in {"JAL", "JALR"}  -> pcPlus4
    [] dec.kind = "Custom"           -> customOut
    [] OTHER                         -> aluOut

----------------------------------------------------------------------------
(* The ports to the memories and to the register file.                     *)

imem_addr  == pcFetchReg
dmem_addr  == Add(rs1Data, IF dec.kind = "Store" THEN dec.immS ELSE dec.immI)
dmem_wdata == rs2Data
dmem_wen   == instrValid /\ dec.kind = "Store"
dmem_wmask == StoreMask(dec.funct3)

wen     == instrValid /\ WritesRd(dec)
wenLoad == loadPendReg

\* RegFile.regs after the load port and then the primary port have written.
RegsAfterLoad ==
  IF wenLoad /\ loadPendRdReg # 0
  THEN [regs EXCEPT ![loadPendRdReg] = LoadData[loadPendF3Reg][rdata]]
  ELSE regs

RegFileClock ==
  regs' = IF wen /\ dec.rd # 0 THEN [RegsAfterLoad EXCEPT ![dec.rd] = wbData]
                               ELSE RegsAfterLoad

----------------------------------------------------------------------------
(* Pipeline advance.  The register file and, through dmem_wen, the data    *)
(* memory are written in every cycle, whether or not the core is active.   *)

\* A mutant: a cycle counter without a width.
CycleNextUnbounded == cycleReg + 1

CycleNext == (cycleReg + 1) % CycleMod

\* when(io.enable) { when(!haltedReg) ... : what every active cycle does.
Advance(nextFetch) ==
  /\ active /\ ~ softReset
  /\ cycleReg' = CycleNext
  /\ pcFetchReg' = nextFetch
  /\ pcExReg' = pcFetchReg
  /\ bubbleReg' = flushRedirect
  /\ loadPendReg' = (instrValid /\ dec.kind = "Load")
  /\ loadPendRdReg' = dec.rd
  /\ loadPendF3Reg' = dec.funct3
  /\ RegFileClock

NextSequential == Add(pcFetchReg, Four)

\* EX holds no instruction: after start-up or a redirect.
BubbleCycle ==
  /\ bubbleReg
  /\ Advance(NextSequential)
  /\ UNCHANGED statusVars

\* A mutant: the stalled instruction is not fetched again.
StallCycleSkipping ==
  /\ stall
  /\ Advance(NextSequential)
  /\ UNCHANGED statusVars

\* EX waits for the pending load and points the fetch at its own address.
StallCycle ==
  /\ stall
  /\ Advance(pcExReg)
  /\ UNCHANGED statusVars

\* EX completes an instruction that neither redirects nor halts.
ExecuteCycle ==
  /\ instrValid /\ ~ flushRedirect /\ ~ IsHalt(dec)
  /\ Advance(NextSequential)
  /\ UNCHANGED statusVars

\* EX completes a taken branch or a jump.
RedirectCycle ==
  /\ flushRedirect
  /\ Advance(redirectTarget)
  /\ UNCHANGED statusVars

\* EX completes an instruction that halts the core.
HaltCycle ==
  /\ instrValid /\ IsHalt(dec)
  /\ Advance(NextSequential)
  /\ haltedReg'  = TRUE
  /\ illegalReg' = (illegalReg \/ dec.kind = "illegal")
  /\ ecallReg'   = (ecallReg \/ dec.kind = "ECALL")
  /\ ebreakReg'  = (ebreakReg \/ dec.kind = "EBREAK")

\* Enabled and halted: no pipeline register changes.
HaltedCycle ==
  /\ enable /\ haltedReg /\ ~ softReset
  /\ RegFileClock
  /\ UNCHANGED <<pcVars, loadVars, statusVars, cycleReg>>

\* A mutant: the cycle counter runs on while the core is not enabled.
IdleCycleCounting ==
  /\ ~ enable /\ ~ softReset
  /\ pcFetchReg' = IF entryAddr_we THEN entryAddr ELSE pcFetchReg
  /\ bubbleReg' = TRUE
  /\ loadPendReg' = FALSE
  /\ cycleReg' = CycleNext
  /\ RegFileClock
  /\ UNCHANGED <<pcExReg, loadPendRdReg, loadPendF3Reg, statusVars>>

\* Not enabled: the entry address may be loaded, the pipeline is emptied.
IdleCycle ==
  /\ ~ enable /\ ~ softReset
  /\ pcFetchReg' = IF entryAddr_we THEN entryAddr ELSE pcFetchReg
  /\ bubbleReg' = TRUE
  /\ loadPendReg' = FALSE
  /\ RegFileClock
  /\ UNCHANGED <<pcExReg, loadPendRdReg, loadPendF3Reg, statusVars, cycleReg>>

\* A mutant: soft reset leaves the halt and its cause as they are.
SoftResetCycleStatusKept ==
  /\ softReset
  /\ pcFetchReg' = {} /\ pcExReg' = {} /\ bubbleReg' = TRUE
  /\ loadPendReg' = FALSE
  /\ cycleReg' = 0
  /\ RegFileClock
  /\ UNCHANGED <<loadPendRdReg, loadPendF3Reg, statusVars>>

\* Soft reset overrides the above, except for what it does not assign.
SoftResetCycle ==
  /\ softReset
  /\ pcFetchReg' = {} /\ pcExReg' = {} /\ bubbleReg' = TRUE
  /\ loadPendReg' = FALSE
  /\ IF active THEN loadPendRdReg' = dec.rd /\ loadPendF3Reg' = dec.funct3
               ELSE UNCHANGED <<loadPendRdReg, loadPendF3Reg>>
  /\ haltedReg' = FALSE /\ illegalReg' = FALSE /\ ecallReg' = FALSE /\ ebreakReg' = FALSE
  /\ cycleReg' = 0
  /\ RegFileClock

Clock ==
  \/ BubbleCycle \/ StallCycle \/ ExecuteCycle \/ RedirectCycle \/ HaltCycle
  \/ HaltedCycle \/ IdleCycle \/ SoftResetCycle

==============================================================================
