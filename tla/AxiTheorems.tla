----------------------------- MODULE AxiTheorems -----------------------------
(***************************************************************************)
(* The register map's safety properties, for every master, every memory    *)
(* and every length of the reset.                                          *)
(***************************************************************************)
EXTENDS AxiSystem, ClockTheorems

\* The parts of a clock, by name.
LEMMA SysNextIsClock ==
  SysNext => Clock /\ SoftResetFsm /\ ControlRegisters /\ SharedMemories
               /\ WritePath(WriteAddr, WriteBeat)
BY DEF SysNext, AxiClock

LEMMA AnswerIsGiven == bresp # None
BY AxiAssumption DEF bresp

----------------------------------------------------------------------------
(* Types.                                                                  *)

\* What the master writes is a word, and its low bits are a register's content.
LEMMA BeatType ==
  AxiTypeOK /\ wHoldReg # None =>
    wHoldReg.data \in InstWord /\ Truncate(wHoldReg.data, XLEN) \in Data
<1> SUFFICES ASSUME NEW b \in WriteBeat
             PROVE  b.data \in InstWord /\ Truncate(b.data, XLEN) \in Data
  BY DEF AxiTypeOK
<1>1. b.data \in InstWord
  BY AxiAssumption DEF AxiAssumption, WriteBeat
<1>2. b.data \in SUBSET Nat
  BY <1>1, WordsAreNat
<1> QED
  BY <1>1, <1>2, TruncateType

LEMMA SlotType == \A a : ImemSlot(a) \in ImemIndex /\ DmemSlot(a) \in DmemIndex
BY DEF ImemSlot, DmemSlot, ImemIndex, DmemIndex, FromInt, Word

LEMMA CoreStoreType ==
  PartsTypeOK => \A m \in [DmemIndex -> Data] : CoreStore(m) \in [DmemIndex -> Data]
BY StoredType DEF CoreStore

LEMMA HostStoreType ==
  AxiTypeOK => \A m \in [DmemIndex -> Data] : HostStore(m) \in [DmemIndex -> Data]
BY BeatType, SlotType DEF HostStore, hostWritesDmem, Writes, doWrite

\* Both ports of both memories keep to the types.
LEMMA SharedMemoriesType == PartsTypeOK /\ AxiTypeOK /\ SharedMemories => MemoryTypeOK'
<1> SUFFICES ASSUME PartsTypeOK, AxiTypeOK, SharedMemories PROVE MemoryTypeOK'
  OBVIOUS
<1>1. imem' \in [ImemIndex -> InstWord]
  BY BeatType, SlotType
     DEF SharedMemories, hostWritesImem, Writes, doWrite, PartsTypeOK, MemoryTypeOK
<1>2. dmem' \in [DmemIndex -> Data]
  BY CoreStoreType, HostStoreType DEF SharedMemories, PartsTypeOK, MemoryTypeOK
<1>3. inst' \in InstWord
  <2>1. ImemWordAddr(imem_addr) \in ImemIndex
    BY IndexType DEF imem_addr, PartsTypeOK, CoreTypeOK
  <2> QED
    BY <1>1, <2>1 DEF SharedMemories, PartsTypeOK, MemoryTypeOK
<1>4. rdata' \in Data
  <2>1. DmemWordAddr(dmem_addr) \in DmemIndex
    BY AddressType, IndexType
  <2> QED
    BY <1>2, <2>1, MemoryAssumption
       DEF MemoryAssumption, SharedMemories, PartsTypeOK, MemoryTypeOK
<1> QED
  BY <1>1, <1>2, <1>3, <1>4 DEF MemoryTypeOK

LEMMA DataIsInst == Data \subseteq Inst
<1>1. 0 .. XLEN - 1 \subseteq 0 .. 32 - 1
  BY Widths
<1> QED
  BY <1>1, DataIsSubset, Zenon DEF Inst, Word, Bits

\* The registers of the debug window are those of the core.
LEMMA RegSlotType == \A a \in Address : Selected(a) = "debug_regs" => RegSlot(a) \in RegIdx
<1> SUFFICES ASSUME NEW a \in Address, Selected(a) = "debug_regs" PROVE RegSlot(a) \in RegIdx
  OBVIOUS
<1>1. InWindow(a, debug_regs_base_r, 32)
  BY DEF Selected
<1>2. a \in Int /\ a - 512 \in 0 .. 511
  <2>1. a \in Int
    BY SMT DEF Address
  <2>2. 512 <= a /\ a < 512 + 32 * 16
    BY <1>1, Zenon DEF InWindow, debug_regs_base_r
  <2> QED
    BY <2>1, <2>2, SMT
<1>3. \A n \in 0 .. 511 : n \div 16 \in 0 .. 31
  BY SMT
<1> QED
  BY <1>2, <1>3, SMT DEF debug_regs_base_r, RegSlot, RegIdx

\* Every register fits the 32 bits of an answer.
LEMMA RegisterReadType ==
  PartsTypeOK /\ AxiTypeOK =>
    \A a \in Address : Selected(a) \notin {"imem", "dmem"} => RegisterRead(a) \in Inst
<1> SUFFICES ASSUME PartsTypeOK, AxiTypeOK, NEW a \in Address,
                    Selected(a) \notin {"imem", "dmem"}
             PROVE  RegisterRead(a) \in Inst
  OBVIOUS
<1>1. \A p \in BOOLEAN : Flag(p) \in Inst
  BY DEF Flag, Inst, Word, Bits
<1>2. \A n : FromInt(n, 32) \in Inst
  BY DEF FromInt, Inst, Word
<1>3. StatusWord \in Inst
  <2>1. StatusWord \subseteq 0 .. 3
    BY Zenon DEF StatusWord
  <2>2. 0 .. 3 \subseteq 0 .. 32 - 1
    OBVIOUS
  <2> QED
    BY <2>1, <2>2, Zenon DEF Inst, Word, Bits
<1>4. {20, 22, 23, 25, 27, 28, 29, 31} \cup FromInt(a, 20) \in Inst
  BY DEF FromInt, Inst, Word, Bits
<1>5. entryAddr \in Inst /\ pcExReg \in Inst
  BY DataIsInst DEF AxiTypeOK, PartsTypeOK, CoreTypeOK
<1>6. Selected(a) = "debug_regs" => RegRead(RegSlot(a)) \in Inst
  BY DataIsInst, RegSlotType, RegReadType
<1>7. Selected(a) \in {"soft_reset", "enable", "entry_addr", "entry_addr_we", "status",
                       "debug_pc", "debug_cycles_lo", "debug_cycles_hi", "debug_regs", "unmapped"}
  BY DEF Selected
<1> QED
  BY <1>1, <1>2, <1>3, <1>4, <1>5, <1>6, <1>7 DEF RegisterRead, AxiTypeOK

ReadTypeOK ==
  /\ rstateReg \in RState /\ rdataReg \in {None} \cup Inst
  /\ pendingImem \in BOOLEAN /\ pendingDmem \in BOOLEAN
  /\ hostImemRdVec \in {None} \cup InstWord /\ hostDmemRdVec \in {None} \cup Data

\* Every clock of the read path.
LEMMA ReadPathType ==
  ASSUME PartsTypeOK, AxiTypeOK, MemoryTypeOK',
         \/ ReadIdle \/ ReadTaken \/ ReadCapture \/ ReadHeld
         \/ \E a \in ReadAddr : ReadRegister(a) \/ ReadImem(a) \/ ReadDmem(a)
  PROVE  ReadTypeOK'
<1> USE DEF ReadTypeOK, NoHostRead, RState
<1>1. CASE ReadIdle \/ ReadTaken \/ ReadHeld
  BY <1>1 DEF ReadIdle, ReadTaken, ReadHeld, AxiTypeOK
<1>2. CASE ReadCapture
  BY <1>2, DataIsInst, WordsAreNat DEF ReadCapture, AxiTypeOK
<1>3. ASSUME NEW a \in ReadAddr, ReadRegister(a) PROVE ReadTypeOK'
  BY <1>3, AxiAssumption, RegisterReadType DEF AxiAssumption, ReadRegister, AxiTypeOK
<1>4. ASSUME NEW a \in ReadAddr, ReadImem(a) PROVE ReadTypeOK'
  BY <1>4, SlotType DEF ReadImem, AxiTypeOK, PartsTypeOK, MemoryTypeOK
<1>5. ASSUME NEW a \in ReadAddr, ReadDmem(a) PROVE ReadTypeOK'
  BY <1>5, SlotType DEF ReadDmem, AxiTypeOK, PartsTypeOK, MemoryTypeOK
<1> QED
  BY <1>1, <1>2, <1>3, <1>4, <1>5

\* The wrapper's registers, the core's and the memories keep their widths under every
\* master: what a host writes and reads fits the word it is for.
THEOREM AxiTypeCorrect == Spec => []TypeOK
<1>1. SysInit => TypeOK
  <2> SUFFICES ASSUME SysInit PROVE TypeOK
    OBVIOUS
  <2>1. PartsTypeOK
    BY PowerUpType DEF SysInit, AxiInit
  <2>2. AxiTypeOK
    <3>1. resetCounterReg \in 0 .. ResetCycles /\ entryAddr \in Data
      BY WordZero, AxiAssumption DEF AxiAssumption, SysInit, AxiInit
    <3> QED
      BY <3>1, Zenon DEF SysInit, AxiInit, AxiTypeOK, RState
  <2> QED
    BY <2>1, <2>2 DEF PartsTypeOK, TypeOK
<1>2. TypeOK /\ [SysNext]_sysVars => TypeOK'
  <2> SUFFICES ASSUME TypeOK, [SysNext]_sysVars PROVE TypeOK'
    OBVIOUS
  <2>1. CASE SysNext
    <3>1. PartsTypeOK /\ AxiTypeOK
      BY DEF TypeOK, PartsTypeOK
    <3>2. CoreTypeOK'
      BY <2>1, <3>1, SysNextIsClock, ClockType DEF AxiTypeOK
    <3>3. MemoryTypeOK'
      BY <2>1, <3>1, SysNextIsClock, SharedMemoriesType
    <3>4. ReadTypeOK'
      BY <2>1, <3>1, <3>3, ReadPathType DEF SysNext
    <3>5. softReset' \in BOOLEAN /\ softResetDoneReg' \in BOOLEAN
          /\ resetCounterReg' \in 0 .. ResetCycles
      <4>1. resetCounterReg \in 0 .. ResetCycles /\ softReset \in BOOLEAN
            /\ softResetDoneReg \in BOOLEAN
        BY <3>1 DEF AxiTypeOK
      <4>2. \/ softReset' = TRUE /\ softResetDoneReg' = FALSE /\ resetCounterReg' = ResetCycles
            \/ /\ resetCounterReg > 0 /\ resetCounterReg' = resetCounterReg - 1
               /\ UNCHANGED <<softReset, softResetDoneReg>>
            \/ softReset' = FALSE /\ softResetDoneReg' = TRUE /\ UNCHANGED resetCounterReg
        BY <2>1, SysNextIsClock, Zenon DEF SoftResetFsm
      <4>3. resetCounterReg' \in 0 .. ResetCycles
        BY <4>1, <4>2, AxiAssumption
      <4> QED
        BY <4>1, <4>2, <4>3, Zenon
    <3>6. enable' \in BOOLEAN /\ entryAddr' \in Data /\ entryAddr_we' \in BOOLEAN
      <4>1. Writes("entry_addr") => Truncate(wHoldReg.data, XLEN) \in Data
        BY <3>1, BeatType DEF Writes, doWrite
      <4>2. enable' \in BOOLEAN /\ entryAddr_we' \in BOOLEAN
        <5>1. /\ enable' = (IF Writes("enable") THEN 0 \in wHoldReg.data ELSE enable)
              /\ entryAddr_we' = (Writes("entry_addr_we") /\ 0 \in wHoldReg.data)
          BY <2>1, SysNextIsClock DEF ControlRegisters
        <5>2. enable \in BOOLEAN
          BY <3>1 DEF AxiTypeOK
        <5>3. entryAddr_we' \in BOOLEAN
          BY <5>1, Zenon
        <5>4. CASE Writes("enable")
          <6>1. enable' = (0 \in wHoldReg.data)
            BY <5>1, <5>4
          <6>2. (0 \in wHoldReg.data) \in BOOLEAN
            OBVIOUS
          <6> QED
            BY <5>3, <6>1, <6>2
        <5>5. CASE ~ Writes("enable")
          BY <5>1, <5>2, <5>3, <5>5, Zenon
        <5> QED
          BY <5>4, <5>5
      <4> QED
        BY <2>1, <3>1, <4>1, <4>2, SysNextIsClock DEF ControlRegisters, AxiTypeOK
    <3>7. /\ awHoldAddrReg' \in {None} \cup WriteAddr
          /\ wHoldReg' \in {None} \cup WriteBeat
          /\ brespReg' \in {"OKAY", "SLVERR", None}
      BY <2>1, <3>1, SysNextIsClock DEF WritePath, bresp, AxiTypeOK
    <3> QED
      BY <3>2, <3>3, <3>4, <3>5, <3>6, <3>7 DEF ReadTypeOK, TypeOK, AxiTypeOK
  <2>2. CASE UNCHANGED sysVars
    BY <2>2 DEF sysVars, axiVars, controlVars, coreVars, memVars, pcVars, loadVars, statusVars,
                resetVars, writeVars, readVars, TypeOK, CoreTypeOK, MemoryTypeOK, AxiTypeOK
  <2> QED
    BY <2>1, <2>2
<1> QED
  BY <1>1, <1>2, PTL DEF Spec

----------------------------------------------------------------------------
(* Who uses the memories.                                                  *)

\* A load is pending only behind the instruction that issued it.
LoadHasIssued == bubbleReg => ~ loadPendReg

\* A disabled core that still has an instruction in EX was enabled in the clock
\* before, so the answer to the write that disabled it is waiting.
PauseIsAnswered == ~ enable /\ ~ bubbleReg => brespReg # None

LEMMA LoadHasIssuedStep == LoadHasIssued /\ [SysNext]_sysVars => LoadHasIssued'
<1> SUFFICES ASSUME LoadHasIssued, [SysNext]_sysVars PROVE LoadHasIssued'
  OBVIOUS
<1>1. ASSUME NEW next, Advance(next) PROVE LoadHasIssued'
  BY <1>1, RedirectIsNoLoad, Zenon DEF Advance, LoadHasIssued
<1>2. CASE HaltedCycle
  BY <1>2 DEF HaltedCycle, pcVars, loadVars, LoadHasIssued
<1>3. CASE IdleCycle \/ SoftResetCycle
  BY <1>3 DEF IdleCycle, SoftResetCycle, LoadHasIssued
<1>4. CASE UNCHANGED sysVars
  BY <1>4 DEF sysVars, axiVars, coreVars, pcVars, loadVars, LoadHasIssued
<1> QED
  BY <1>1, <1>2, <1>3, <1>4, SysNextIsClock
     DEF Clock, BubbleCycle, StallCycle, ExecuteCycle, RedirectCycle, HaltCycle

LEMMA PauseIsAnsweredStep == PauseIsAnswered /\ [SysNext]_sysVars => PauseIsAnswered'
<1> SUFFICES ASSUME PauseIsAnswered, [SysNext]_sysVars, ~ enable', ~ bubbleReg'
             PROVE  brespReg' # None
  BY DEF PauseIsAnswered
<1>1. CASE SysNext
  <2>1. enable
    \* Otherwise this clock empties EX.
    <3>1. IdleCycle \/ SoftResetCycle => bubbleReg'
      BY DEF IdleCycle, SoftResetCycle
    <3>2. Clock => enable \/ IdleCycle \/ SoftResetCycle
      BY DEF Clock, BubbleCycle, StallCycle, ExecuteCycle, RedirectCycle, HaltCycle,
             Advance, HaltedCycle, active
    <3> QED
      BY <1>1, <3>1, <3>2, SysNextIsClock
  <2>2. Writes("enable")
    BY <1>1, <2>1, SysNextIsClock, Zenon DEF ControlRegisters
  <2>3. brespReg' = bresp
    BY <1>1, <2>2, SysNextIsClock DEF Writes, WritePath
  <2> QED
    BY <2>3, AnswerIsGiven
<1>2. CASE UNCHANGED sysVars
  BY <1>2 DEF sysVars, axiVars, controlVars, coreVars, pcVars, writeVars, PauseIsAnswered
<1> QED
  BY <1>1, <1>2

\* A host write to a memory never meets an instruction in EX or a pending load.
THEOREM HostOwnsMemoryCorrect == Spec => []HostOwnsMemory
<1>1. SysInit => LoadHasIssued /\ PauseIsAnswered
  BY DEF SysInit, AxiInit, PowerUpCore, LoadHasIssued, PauseIsAnswered
<1>2. LoadHasIssued /\ PauseIsAnswered => HostOwnsMemory
  BY DEF LoadHasIssued, PauseIsAnswered, HostOwnsMemory, hostWritesImem, hostWritesDmem,
         Writes, doWrite
<1> QED
  BY <1>1, <1>2, LoadHasIssuedStep, PauseIsAnsweredStep, PTL DEF Spec

----------------------------------------------------------------------------
(* The reset.                                                              *)

\* The range of the reset counter.
CounterType == resetCounterReg \in 0 .. ResetCycles

\* The report and the state of a reset agree in every clock.
THEOREM ResetReportCorrect == Spec => []ResetReport
<1>1. SysInit => CounterType /\ ResetReport
  BY AxiAssumption DEF SysInit, AxiInit, CounterType, ResetReport
<1>2. CounterType /\ ResetReport /\ [SysNext]_sysVars => (CounterType /\ ResetReport)'
  <2> SUFFICES ASSUME CounterType, ResetReport, [SysNext]_sysVars
               PROVE  CounterType' /\ ResetReport'
    OBVIOUS
  <2>1. CASE SysNext
    <3>1. CASE Writes("soft_reset")
      BY <2>1, <3>1, SysNextIsClock, AxiAssumption
         DEF SoftResetFsm, CounterType, ResetReport
    <3>2. CASE ~ Writes("soft_reset") /\ resetCounterReg > 0
      <4>1. softReset /\ ~ softResetDoneReg
        BY <3>2 DEF ResetReport
      <4>2. SoftResetCycle
        BY <2>1, <4>1, SysNextIsClock
           DEF Clock, BubbleCycle, StallCycle, ExecuteCycle, RedirectCycle, HaltCycle,
               Advance, HaltedCycle, IdleCycle
      <4>3. /\ bubbleReg' /\ ~ loadPendReg' /\ ~ haltedReg'
            /\ pcFetchReg' = {} /\ pcExReg' = {} /\ cycleReg' = 0
        BY <4>2 DEF SoftResetCycle
      <4>4. /\ resetCounterReg' = resetCounterReg - 1
            /\ UNCHANGED <<softReset, softResetDoneReg>>
        BY <2>1, <3>2, SysNextIsClock, Zenon DEF SoftResetFsm
      <4> QED
        BY <3>2, <4>1, <4>3, <4>4, AxiAssumption DEF CounterType, ResetReport
    <3>3. CASE ~ Writes("soft_reset") /\ ~ resetCounterReg > 0
      <4>1. softReset' = FALSE /\ softResetDoneReg' = TRUE /\ UNCHANGED resetCounterReg
        BY <2>1, <3>3, SysNextIsClock, Zenon DEF SoftResetFsm
      <4> QED
        BY <3>3, <4>1, AxiAssumption DEF CounterType, ResetReport
    <3> QED
      BY <3>1, <3>2, <3>3
  <2>2. CASE UNCHANGED sysVars
    BY <2>2 DEF sysVars, axiVars, controlVars, coreVars, pcVars, loadVars, statusVars,
               resetVars, CounterType, ResetReport
  <2> QED
    BY <2>1, <2>2
<1> QED
  BY <1>1, <1>2, PTL DEF Spec

----------------------------------------------------------------------------
(* The answers.                                                            *)

\* The word on its way from a memory is one that the request may be answered with.
WordIsFresh ==
  rstateReg = "WAIT_MEM" =>
    \/ pendingImem /\ hostImemRdVec \in fresh
    \/ ~ pendingImem /\ pendingDmem /\ hostDmemRdVec \in fresh

\* The content of an address, by what the address selects.
LEMMA Contents ==
  ASSUME NEW a
  PROVE  /\ Selected(a) = "imem" => ContentAt(a) = imem[ImemSlot(a)]
         /\ Selected(a) = "dmem" => ContentAt(a) = dmem[DmemSlot(a)]
         /\ Selected(a) \notin {"imem", "dmem"} => ContentAt(a) = RegisterRead(a)
<1>1. "imem" # "dmem"
  OBVIOUS
<1> QED
  BY <1>1, Zenon DEF ContentAt

LEMMA ContentsNext ==
  ASSUME NEW a
  PROVE  /\ Selected(a) = "imem" => ContentAt(a)' = imem'[ImemSlot(a)]
         /\ Selected(a) = "dmem" => ContentAt(a)' = dmem'[DmemSlot(a)]
<1>1. "imem" # "dmem"
  OBVIOUS
<1> QED
  BY <1>1, Zenon DEF ContentAt, Selected, InWindow, ImemSlot, DmemSlot

\* Every answer is the content of its address in the clock of the request or after it.
THEOREM ReadIsFreshCorrect == Spec => []ReadIsFresh
<1>1. SysInit => WordIsFresh /\ ReadIsFresh
  BY DEF SysInit, AxiInit, WordIsFresh, ReadIsFresh
<1>2. WordIsFresh /\ ReadIsFresh /\ [SysNext]_sysVars => (WordIsFresh /\ ReadIsFresh)'
  <2> SUFFICES ASSUME WordIsFresh, ReadIsFresh, [SysNext]_sysVars
               PROVE  WordIsFresh' /\ ReadIsFresh'
    OBVIOUS
  <2>1. CASE ReadIdle \/ ReadTaken
    BY <2>1 DEF ReadIdle, ReadTaken, WordIsFresh, ReadIsFresh
  <2>2. CASE ReadCapture /\ UNCHANGED fresh
    BY <2>2 DEF ReadCapture, WordIsFresh, ReadIsFresh
  <2>3. CASE ReadHeld /\ UNCHANGED fresh
    BY <2>3 DEF ReadHeld, WordIsFresh, ReadIsFresh
  <2>4. ASSUME NEW a \in ReadAddr, fresh' = {ContentAt(a), ContentAt(a)'}, ReadRegister(a)
        PROVE  WordIsFresh' /\ ReadIsFresh'
    BY <2>4, Contents DEF ReadRegister, WordIsFresh, ReadIsFresh
  <2>5. ASSUME NEW a \in ReadAddr, fresh' = {ContentAt(a), ContentAt(a)'}, ReadImem(a)
        PROVE  WordIsFresh' /\ ReadIsFresh'
    BY <2>5, Contents, ContentsNext DEF ReadImem, WordIsFresh, ReadIsFresh
  <2>6. ASSUME NEW a \in ReadAddr, fresh' = {ContentAt(a), ContentAt(a)'}, ReadDmem(a)
        PROVE  WordIsFresh' /\ ReadIsFresh'
    BY <2>6, Contents, ContentsNext DEF ReadDmem, WordIsFresh, ReadIsFresh
  <2>7. CASE UNCHANGED sysVars
    BY <2>7 DEF sysVars, axiVars, readVars, WordIsFresh, ReadIsFresh
  <2> QED
    BY <2>1, <2>2, <2>3, <2>4, <2>5, <2>6, <2>7 DEF SysNext
<1> QED
  BY <1>1, <1>2, PTL DEF Spec

==============================================================================
