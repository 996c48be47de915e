---------------------------- MODULE CoreTheorems -----------------------------
(***************************************************************************)
(* The core, for every program, every width and every content of the       *)
(* memories at power-up: invariants under free control inputs, and that a  *)
(* run on a program prepared for the pipeline is a run of the sequential   *)
(* machine.                                                                *)
(***************************************************************************)
EXTENDS CoreSystem, ClockTheorems

----------------------------------------------------------------------------
(* Type correctness.                                                       *)

\* In every clock the core takes one of its cycles.
LEMMA NextIsClock ==
  Next => Clock /\ MemoryClock /\ FreeInputs
BY DEF Next, Surroundings, Clock

\* Every register, wire and memory word stays within its width, and an
\* instruction number within the register file, under any control inputs.
THEOREM TypeCorrect == Spec => []TypeOK
<1>1. Init => TypeOK
  BY PowerUpType DEF Init, PowerUp, TypeOK, PartsTypeOK
<1>2. TypeOK /\ [Next]_vars => TypeOK'
  <2> SUFFICES ASSUME TypeOK, [Next]_vars PROVE TypeOK'
    OBVIOUS
  <2>1. CASE Next
    <3>1. CoreTypeOK'
      <4>1. entryAddr \in Data
        BY CoreSystemAssumption DEF CoreSystemAssumption, TypeOK, ControlTypeOK
      <4> QED
        BY <2>1, <4>1, NextIsClock, ClockType DEF TypeOK, PartsTypeOK
    <3>2. MemoryTypeOK'
      BY <2>1, NextIsClock, MemoryType DEF TypeOK, PartsTypeOK
    <3>3. ControlTypeOK'
      BY <2>1, NextIsClock DEF FreeInputs, ControlTypeOK
    <3> QED
      BY <3>1, <3>2, <3>3 DEF TypeOK
  <2>2. CASE UNCHANGED vars
    BY <2>2 DEF vars, controlVars, coreVars, memVars, pcVars, loadVars, statusVars,
                TypeOK, CoreTypeOK, MemoryTypeOK, ControlTypeOK
  <2> QED
    BY <2>1, <2>2
<1> QED
  BY <1>1, <1>2, PTL DEF Spec

----------------------------------------------------------------------------
(* The label of the instruction in EX.                                     *)

\* pcExReg is the address of the instruction that an active core executes.
THEOREM LabelCorrect == Spec => []LabelTracksInst
<1>1. Init => Label
  BY DEF Init, PowerUp, PowerUpCore, Label
<1>2. Label /\ [Next]_vars => Label'
  <2>1. Next => Label'
    BY LabelClock, NextIsClock
  <2>2. Label /\ UNCHANGED vars => Label'
    BY DEF vars, coreVars, pcVars, statusVars, memVars, Label
  <2> QED
    BY <2>1, <2>2
<1>3. Label => LabelTracksInst
  BY DEF Label, LabelTracksInst, active
<1> QED
  BY <1>1, <1>2, <1>3, PTL DEF Spec

----------------------------------------------------------------------------
(* The hazard check.                                                       *)

\* What the stall condition compares covers every register an instruction
\* needs or writes.
LEMMA StallCovers ==
  ASSUME NEW e, NEW r,
         e.rs1 # r, e.rs2 # r, ~ ((WritesRd(e) \/ e.kind = "Load") /\ e.rd = r)
  PROVE  r \notin Sources(e) \cup Target(e)
<1>1. e.kind = "Custom" => WritesRd(e)
  BY DEF WritesRd
<1> QED
  BY <1>1 DEF Sources, Target

\* An instruction that takes effect never shares a register with a pending load.
THEOREM OperandsCorrect == Spec => []OperandsSettled
<1>1. OperandsSettled
  BY StallCovers DEF OperandsSettled, instrValid, stall
<1> QED
  BY <1>1, PTL

----------------------------------------------------------------------------
(* Halting.                                                                *)

\* A halted core reports exactly one cause, a running one none, and a load is
\* never left behind by a halt.
THEOREM HaltCorrect == Spec => []HaltReport
<1>1. Init => HaltReport
  BY DEF Init, PowerUp, PowerUpCore, HaltReport
<1>2. HaltReport /\ [Next]_vars => HaltReport'
  <2>1. HaltReport /\ Next => HaltReport'
    BY HaltReportClock, NextIsClock
  <2>2. HaltReport /\ UNCHANGED vars => HaltReport'
    BY DEF vars, coreVars, statusVars, loadVars, HaltReport
  <2> QED
    BY <2>1, <2>2
<1> QED
  BY <1>1, <1>2, PTL DEF Spec

\* The registers a host polls after a halt change only by a soft reset.
THEOREM HaltReportKept == Spec => HaltReportStays
<1> DEFINE Kept == haltedReg /\ ~ softReset => UNCHANGED <<pcExReg, statusVars, cycleReg>>
<1>1. [Next]_vars => Kept
  <2>1. ASSUME NEW next, Advance(next) PROVE Kept
    BY <2>1 DEF Advance, active
  <2>2. CASE HaltedCycle
    BY <2>2 DEF HaltedCycle, pcVars
  <2>3. CASE IdleCycle
    BY <2>3 DEF IdleCycle
  <2>4. CASE SoftResetCycle
    BY <2>4 DEF SoftResetCycle
  <2>5. CASE UNCHANGED vars
    BY <2>5 DEF vars, coreVars, pcVars
  <2> QED
    BY <2>1, <2>2, <2>3, <2>4, <2>5, NextIsClock
       DEF Clock, BubbleCycle, StallCycle, ExecuteCycle, RedirectCycle, HaltCycle
<1> QED
  BY <1>1, PTL DEF Spec, HaltReportStays

----------------------------------------------------------------------------
(* An empty EX.                                                            *)

LEMMA NothingPendingInvariant == Spec => []NothingPending
<1>1. Init => NothingPending
  BY DEF Init, PowerUp, PowerUpCore, NothingPending
<1>2. NothingPending /\ [Next]_vars => NothingPending'
  <2>1. NothingPending /\ Next => NothingPending'
    BY NothingPendingClock, NextIsClock
  <2>2. NothingPending /\ UNCHANGED vars => NothingPending'
    BY DEF vars, coreVars, pcVars, loadVars, NothingPending
  <2> QED
    BY <2>1, <2>2
<1> QED
  BY <1>1, <1>2, PTL DEF Spec

\* The core writes neither a register nor memory in a clock that finds EX empty.
THEOREM QuietCorrect == Spec => EmptyIsQuiet
<1> DEFINE Quiet == bubbleReg => UNCHANGED <<regs, dmem>>
<1>1. NothingPending /\ [Next]_vars => Quiet
  <2> SUFFICES ASSUME NothingPending, [Next]_vars, bubbleReg PROVE UNCHANGED <<regs, dmem>>
    OBVIOUS
  <2>1. CASE Next
    <3>1. ~ wen /\ ~ wenLoad /\ ~ dmem_wen
      BY DEF NothingPending, wen, wenLoad, dmem_wen, instrValid
    <3>2. MemoryClock => UNCHANGED dmem
      BY <3>1 DEF MemoryClock, DmemAfterCore
    <3>3. RegFileClock => UNCHANGED regs
      BY <3>1 DEF RegFileClock, RegsAfterLoad
    <3>4. RegFileClock /\ MemoryClock
      BY <2>1, NextIsClock
         DEF Clock, BubbleCycle, StallCycle, ExecuteCycle, RedirectCycle, HaltCycle, Advance,
             HaltedCycle, IdleCycle, SoftResetCycle
    <3> QED
      BY <3>2, <3>3, <3>4
  <2>2. CASE UNCHANGED vars
    BY <2>2 DEF vars, coreVars, memVars
  <2> QED
    BY <2>1, <2>2
<1> QED
  BY <1>1, NothingPendingInvariant, PTL DEF Spec, EmptyIsQuiet

----------------------------------------------------------------------------
(* What a run adds to the invariants of the core under free inputs.        *)

\* Before its start the core is empty.
NotStarted == ~ enable => bubbleReg /\ ~ haltedReg

RunInv == TypeOK /\ PipeInv /\ ~ softReset /\ NotStarted

\* A step of a run is a clock without a reset, and an enabled core stays enabled.
LEMMA RunNextIsClock ==
  RunNext => Clock /\ MemoryClock /\ FreeInputs /\ ~ softReset' /\ (enable => enable')
BY NextIsClock DEF RunNext, RunInputs

LEMMA RunIsSpec == RunSpec => Spec
<1>1. RunInit => Init
  BY DEF RunInit, Init, Prepared
<1>2. [RunNext]_vars => [Next]_vars
  BY DEF RunNext
<1> QED
  BY <1>1, <1>2, PTL DEF RunSpec, Spec

LEMMA CoreInvariant == Spec => [](TypeOK /\ CoreInv)
<1>1. TypeOK => PartsTypeOK
  BY DEF TypeOK, PartsTypeOK
<1> QED
  BY <1>1, TypeCorrect, LabelCorrect, HaltCorrect, NothingPendingInvariant, PTL DEF CoreInv

LEMMA RunInvStep == RunInv /\ [RunNext]_vars /\ TypeOK' => RunInv'
<1> SUFFICES ASSUME RunInv, [RunNext]_vars, TypeOK' PROVE RunInv'
  OBVIOUS
<1>1. CASE RunNext
  <2>1. Clock /\ MemoryClock /\ ~ softReset' /\ (enable => enable')
    BY <1>1, RunNextIsClock
  <2>2. entryAddr \in Data
    BY CoreSystemAssumption DEF RunInv, TypeOK, ControlTypeOK
  <2>3. PipeInv'
    BY <2>1, <2>2, PipeInvClock DEF RunInv
  <2>4. NotStarted'
    <3>1. ~ enable' => IdleCycle /\ ~ haltedReg
      BY <2>1 DEF Clock, BubbleCycle, StallCycle, ExecuteCycle, RedirectCycle, HaltCycle,
                  HaltedCycle, SoftResetCycle, Advance, active, RunInv, NotStarted
    <3> QED
      BY <3>1 DEF IdleCycle, statusVars, NotStarted
  <2> QED
    BY <2>1, <2>3, <2>4 DEF RunInv
<1>2. CASE UNCHANGED vars
  <2>1. UNCHANGED <<dec, At(imem, pcFetchReg), IsPrepared(imem)>>
    BY <1>2 DEF vars, memVars, coreVars, pcVars, dec, At, IsPrepared, StallPadded, HaltPadded
  <2>2. CoreInv'
    BY <1>2 DEF vars, controlVars, coreVars, memVars, pcVars, loadVars, statusVars, RunInv,
                PipeInv, CoreInv, PartsTypeOK, CoreTypeOK, MemoryTypeOK, LabelTracksInst,
                HaltReport, NothingPending, active
  <2> QED
    BY <1>2, <2>1, <2>2
       DEF vars, controlVars, coreVars, memVars, pcVars, loadVars, statusVars,
           RunInv, PipeInv, EmptyWhileIdle, NotStarted, InStep, inStep, Replay, Stopped, active
<1> QED
  BY <1>1, <1>2

LEMMA RunInvariant == RunSpec => []RunInv
<1>1. RunInit /\ TypeOK /\ CoreInv => RunInv
  BY DEF RunInit, PowerUp, PowerUpCore, Prepared, RunInv, PipeInv, EmptyWhileIdle, NotStarted,
         InStep, Stopped
<1> QED
  BY <1>1, RunIsSpec, CoreInvariant, RunInvStep, PTL DEF RunSpec

----------------------------------------------------------------------------
(* Every clock of a run is a step of the sequential machine or none.       *)

LEMMA StepRefines ==
  ASSUME RunInv, [RunNext]_vars
  PROVE  [Sequential!Idle \/ SequentialStep]_(Sequential!vars)
<1> USE DEF Sequential!vars
<1>1. CASE RunNext /\ enable
  <2>1. Clock /\ MemoryClock /\ ~ softReset /\ enable'
    BY <1>1, RunNextIsClock DEF RunInv
  <2> QED
    BY <1>1, <2>1, ClockRefines DEF RunInv
<1>2. CASE RunNext /\ ~ enable
  <2>1. Clock /\ MemoryClock
    BY <1>2, RunNextIsClock
  <2>2. bubbleReg /\ ~ loadPendReg /\ ~ haltedReg /\ IdleCycle
    BY <1>2, <2>1
       DEF RunInv, PipeInv, CoreInv, NothingPending, NotStarted, Clock, BubbleCycle,
           StallCycle, ExecuteCycle, RedirectCycle, HaltCycle, HaltedCycle, SoftResetCycle,
           Advance, active
  <2>3. UNCHANGED <<regs, dmem, imem>> /\ archRegs = regs
    BY <2>1, <2>2, NoInstruction DEF RunInv, IdleCycle, instrValid
  <2>4. archRegs' = archRegs
    BY <2>2, <2>3 DEF IdleCycle, archRegs, RegsAfterLoad, wenLoad
  <2>5. archPc = pcFetchReg /\ archPc' = pcFetchReg' /\ pcFetchReg' \in EntryAddr \cup {archPc}
    BY <2>2 DEF IdleCycle, statusVars, archPc, RunInv, TypeOK, ControlTypeOK
  <2>6. archMode = "idle" /\ archMode' \in {"idle", "running"}
    BY <1>2, <2>2 DEF IdleCycle, statusVars, archMode
  <2> QED
    BY <2>3, <2>4, <2>5, <2>6 DEF Sequential!Idle
<1>3. CASE UNCHANGED vars
  BY <1>3 DEF vars, controlVars, coreVars, memVars, pcVars, loadVars, statusVars,
              archPc, inStep, archRegs, archMode, RegsAfterLoad, wenLoad
<1> QED
  BY <1>1, <1>2, <1>3

LEMMA InitRefines == RunInit /\ TypeOK => Sequential!Init
<1> SUFFICES ASSUME RunInit, TypeOK PROVE Sequential!Init
  OBVIOUS
<1>1. archPc = {} /\ archMode \in {"idle", "running"}
  BY DEF RunInit, PowerUp, PowerUpCore, archPc, archMode
<1>2. Sequential!TypeOK
  <2>1. archPc \in Sequential!Data
    BY <1>1, WordZero, SameData
  <2>2. archRegs \in [Sequential!RegIdx -> Sequential!Data]
    BY ArchRegsType, SameData, SameRegIdx DEF TypeOK, PartsTypeOK
  <2>3. /\ imem \in [Sequential!Word(IMEMW) -> InstWord]
        /\ dmem \in [Sequential!Word(DMEMW) -> Sequential!Data]
    BY SameWord, SameData DEF TypeOK, MemoryTypeOK, ImemIndex, DmemIndex
  <2> QED
    BY <1>1, <2>1, <2>2, <2>3 DEF Sequential!TypeOK, Sequential!Mode
<1> QED
  BY <1>1, <1>2 DEF Sequential!Init

\* Every program in which an inert word follows each word that stalls, and two harmless
\* ones each word that halts, runs on the pipeline as on the sequential machine, whatever
\* its length, the widths, the entry addresses and what the memories and registers hold at
\* power-up: instruction by instruction as RV32I has it, but for loads and stores that go
\* off the lanes of a word, which are made at the word.
THEOREM Refinement == RunSpec => ImplementsISA
<1>1. RunInit /\ RunInv => Sequential!Init
  BY InitRefines DEF RunInv
<1>2. RunInv /\ [RunNext]_vars => [Sequential!Idle \/ SequentialStep]_(Sequential!vars)
  BY StepRefines
<1> QED
  BY <1>1, <1>2, RunInvariant, PTL DEF RunSpec, ImplementsISA

==============================================================================
