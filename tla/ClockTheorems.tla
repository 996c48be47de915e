---------------------------- MODULE ClockTheorems ----------------------------
(***************************************************************************)
(* What one clock does to the core and its memories, whatever drives the   *)
(* control inputs: to their types, to the halt and its cause, to the label *)
(* of the instruction in EX; and that a clock of an enabled core on a      *)
(* prepared program is a step of the sequential machine or none.           *)
(***************************************************************************)
EXTENDS CoreContract, DatapathTheorems

PartsTypeOK == CoreTypeOK /\ MemoryTypeOK

----------------------------------------------------------------------------
(* The types of the wires.                                                 *)

LEMMA WordZero == {} \in Data
BY DEF Data, Word

LEMMA CycleZero == 0 \in 0 .. CycleMod - 1
BY CycleAssumption DEF CycleAssumption

LEMMA DecType == PartsTypeOK => dec \in DecodedInst
BY DecodeType DEF PartsTypeOK, MemoryTypeOK, dec

LEMMA DecFields ==
  PartsTypeOK =>
    /\ dec.kind \in Kinds /\ dec.rd \in RegIdx /\ dec.rs1 \in RegIdx /\ dec.rs2 \in RegIdx
    /\ dec.funct3 \in 0 .. 7
    /\ dec.immI \in Data /\ dec.immS \in Data /\ dec.immB \in Data
    /\ dec.immU \in Data /\ dec.immJ \in Data
    /\ dec.customSH \in BitNumber /\ dec.customMB \in BitNumber /\ dec.customME \in BitNumber
<1> SUFFICES ASSUME NEW e \in DecodedInst
             PROVE  /\ e.kind \in Kinds /\ e.rd \in RegIdx /\ e.rs1 \in RegIdx
                    /\ e.rs2 \in RegIdx /\ e.funct3 \in 0 .. 7
                    /\ e.immI \in Data /\ e.immS \in Data /\ e.immB \in Data
                    /\ e.immU \in Data /\ e.immJ \in Data
                    /\ e.customSH \in BitNumber /\ e.customMB \in BitNumber
                    /\ e.customME \in BitNumber
  BY DecType
<1> QED
  BY DEF DecodedInst

LEMMA RegReadType == PartsTypeOK => \A i \in RegIdx : RegRead(i) \in Data
BY WordZero DEF PartsTypeOK, CoreTypeOK, RegRead

LEMMA OperandType == PartsTypeOK => rs1Data \in Data /\ rs2Data \in Data /\ aluOp2 \in Data
<1> SUFFICES ASSUME PartsTypeOK PROVE rs1Data \in Data /\ rs2Data \in Data /\ aluOp2 \in Data
  OBVIOUS
<1>1. rs1Data \in Data /\ rs2Data \in Data
  BY RegReadType, DecFields DEF rs1Data, rs2Data
<1> QED
  BY <1>1, DecFields, Zenon DEF aluOp2

LEMMA ResultType == PartsTypeOK => aluOut \in Data /\ customOut \in Data
<1> SUFFICES ASSUME PartsTypeOK PROVE aluOut \in Data /\ customOut \in Data
  OBVIOUS
<1>1. AluControl(dec) \in AluOp
  BY DecType, AluControlType
<1>2. aluOut \in Data
  BY <1>1, OperandType, ALUType DEF aluOut
<1>3. RegRead(dec.rd) \in Data
  BY RegReadType, DecFields
<1>4. customOut \in Data
  BY <1>3, OperandType, DecFields, CustomOpType DEF customOut
<1> QED
  BY <1>2, <1>4

LEMMA TargetType == PartsTypeOK => pcPlus4 \in Data /\ redirectTarget \in Data
<1> SUFFICES ASSUME PartsTypeOK PROVE pcPlus4 \in Data /\ redirectTarget \in Data
  OBVIOUS
<1>1. pcExReg \in Data
  BY DEF PartsTypeOK, CoreTypeOK
<1>2. /\ Add(pcExReg, Four) \in Data /\ Add(pcExReg, dec.immB) \in Data
      /\ Add(pcExReg, dec.immJ) \in Data /\ Add(rs1Data, dec.immI) \in Data
  BY <1>1, AddType, FourType, DecFields, OperandType
<1>3. Add(rs1Data, dec.immI) \ {0} \in Data
  BY <1>2, DataIsSubset
<1> QED
  BY <1>2, <1>3, Zenon DEF pcPlus4, redirectTarget

LEMMA WriteBackType == PartsTypeOK => wbData \in Data
<1> SUFFICES ASSUME PartsTypeOK PROVE wbData \in Data
  OBVIOUS
<1>1. Add(pcExReg, dec.immU) \in Data
  BY AddType, DecFields DEF PartsTypeOK, CoreTypeOK
<1> QED
  BY <1>1, DecFields, ResultType, TargetType, Zenon DEF wbData

LEMMA AddressType == PartsTypeOK => dmem_addr \in Data
<1> SUFFICES ASSUME PartsTypeOK PROVE dmem_addr \in Data
  OBVIOUS
<1>1. (IF dec.kind = "Store" THEN dec.immS ELSE dec.immI) \in Data
  BY DecFields
<1> QED
  BY <1>1, OperandType, AddType DEF dmem_addr

\* A word of the instruction memory holds bit positions.
LEMMA WordsAreNat == InstWord \subseteq SUBSET Nat /\ InstWord \subseteq Inst
<1>1. InstWord \subseteq Inst
  BY DecoderAssumption DEF DecoderAssumption
<1>2. Inst \subseteq SUBSET Nat
  BY DEF Inst, Word, Bits
<1> QED
  BY <1>1, <1>2

\* An address selects a word that the memory has.
LEMMA IndexType ==
  \A a \in Data : ImemWordAddr(a) \in ImemIndex /\ DmemWordAddr(a) \in DmemIndex
<1> SUFFICES ASSUME NEW a \in Data, NEW w \in Nat, NEW k \in Slice(a, w + 1, 2)
             PROVE  k \in 0 .. w - 1
  BY MemoryAssumption DEF MemoryAssumption, ImemWordAddr, DmemWordAddr, ImemIndex, DmemIndex,
                          Word, Bits
<1>1. PICK j \in a : 2 <= j /\ j <= w + 1 /\ k = j - 2
  BY DEF Slice
<1>2. j \in Int
  BY DataIsSubset, Widths
<1> QED
  BY <1>1, <1>2

LEMMA RegsAfterLoadType == PartsTypeOK => RegsAfterLoad \in [RegIdx -> Data]
<1> SUFFICES ASSUME PartsTypeOK PROVE RegsAfterLoad \in [RegIdx -> Data]
  OBVIOUS
<1>1. LoadData[loadPendF3Reg][rdata] \in Data
  BY LoadDataType DEF PartsTypeOK, CoreTypeOK, MemoryTypeOK
<1> QED
  BY <1>1 DEF RegsAfterLoad, PartsTypeOK, CoreTypeOK

LEMMA RegFileType == PartsTypeOK /\ RegFileClock => regs' \in [RegIdx -> Data]
BY RegsAfterLoadType, WriteBackType DEF RegFileClock

\* What the core stores in a memory of words.
LEMMA StoredType ==
  ASSUME PartsTypeOK, NEW m \in [DmemIndex -> Data]
  PROVE  [m EXCEPT ![DmemWordAddr(dmem_addr)] = MergeLanes[dmem_wmask][@][dmem_wdata]]
           \in [DmemIndex -> Data]
<1>1. DmemWordAddr(dmem_addr) \in DmemIndex
  BY AddressType, IndexType
<1>2. MergeLanes[dmem_wmask][m[DmemWordAddr(dmem_addr)]][dmem_wdata] \in Data
  BY <1>1, MergeLanesType, StoreMaskType, DecFields, OperandType DEF dmem_wmask, dmem_wdata
<1> QED
  BY <1>1, <1>2

LEMMA MemoryType == PartsTypeOK /\ MemoryClock => MemoryTypeOK'
<1> SUFFICES ASSUME PartsTypeOK, MemoryClock PROVE MemoryTypeOK'
  OBVIOUS
<1>1. inst' \in InstWord
  BY IndexType DEF MemoryClock, FetchPort, imem_addr, PartsTypeOK, CoreTypeOK, MemoryTypeOK
<1>2. DmemWordAddr(dmem_addr) \in DmemIndex
  BY AddressType, IndexType
<1>3. rdata' \in Data
  BY <1>2, MemoryAssumption DEF MemoryAssumption, MemoryClock, LoadPort, PartsTypeOK, MemoryTypeOK
<1>4. DmemAfterCore \in [DmemIndex -> Data]
  BY StoredType DEF DmemAfterCore, PartsTypeOK, MemoryTypeOK
<1> QED
  BY <1>1, <1>3, <1>4 DEF MemoryClock, PartsTypeOK, MemoryTypeOK

----------------------------------------------------------------------------
(* Type correctness.                                                       *)

\* At power-up everything has its type, with or without an initial value.
LEMMA PowerUpType == PowerUpCore /\ imem \in Programs => PartsTypeOK
<1> SUFFICES ASSUME PowerUpCore, imem \in Programs PROVE CoreTypeOK /\ MemoryTypeOK
  BY DEF PartsTypeOK
<1>1. CoreTypeOK
  <2>1. loadPendRdReg \in RegIdx /\ loadPendF3Reg \in 0 .. 7 /\ regs \in [RegIdx -> Data]
    BY PowerUpAssumption DEF PowerUpAssumption, PowerUpCore
  <2>2. pcFetchReg \in Data /\ pcExReg \in Data /\ cycleReg \in 0 .. CycleMod - 1
    BY WordZero, CycleZero DEF PowerUpCore
  <2> QED
    BY <2>1, <2>2, Zenon DEF PowerUpCore, CoreTypeOK
<1>2. MemoryTypeOK
  BY PowerUpAssumption, MemoryAssumption
     DEF PowerUpAssumption, MemoryAssumption, PowerUpCore, MemoryTypeOK
<1> QED
  BY <1>1, <1>2

\* What every active cycle leaves behind.
LEMMA AdvanceType ==
  ASSUME PartsTypeOK, NEW next \in Data, Advance(next)
  PROVE  /\ pcFetchReg' \in Data /\ pcExReg' \in Data /\ bubbleReg' \in BOOLEAN
         /\ loadPendReg' \in BOOLEAN /\ loadPendRdReg' \in RegIdx
         /\ loadPendF3Reg' \in 0 .. 7
         /\ cycleReg' \in 0 .. CycleMod - 1 /\ regs' \in [RegIdx -> Data]
<1>1. bubbleReg' \in BOOLEAN /\ loadPendReg' \in BOOLEAN
  BY Zenon DEF Advance, flushRedirect, instrValid
<1>2. cycleReg' \in 0 .. CycleMod - 1
  BY CycleAssumption DEF CycleAssumption, Advance, CycleNext, PartsTypeOK, CoreTypeOK
<1> QED
  BY <1>1, <1>2, DecFields, RegFileType DEF Advance, PartsTypeOK, CoreTypeOK

LEMMA NextSequentialType == PartsTypeOK => NextSequential \in Data
BY AddType, FourType DEF NextSequential, PartsTypeOK, CoreTypeOK

\* Every cycle of the core keeps its registers in their types.
LEMMA ClockType ==
  ASSUME PartsTypeOK, entryAddr \in Data, Clock
  PROVE  CoreTypeOK'
<1>1. CASE BubbleCycle
  BY <1>1, AdvanceType, NextSequentialType
     DEF BubbleCycle, statusVars, PartsTypeOK, CoreTypeOK
<1>2. CASE StallCycle
  BY <1>2, AdvanceType DEF StallCycle, statusVars, PartsTypeOK, CoreTypeOK
<1>3. CASE ExecuteCycle
  BY <1>3, AdvanceType, NextSequentialType DEF ExecuteCycle, statusVars, PartsTypeOK, CoreTypeOK
<1>4. CASE RedirectCycle
  BY <1>4, AdvanceType, TargetType DEF RedirectCycle, statusVars, PartsTypeOK, CoreTypeOK
<1>5. CASE HaltCycle
  <2>1. /\ pcFetchReg' \in Data /\ pcExReg' \in Data /\ bubbleReg' \in BOOLEAN
        /\ loadPendReg' \in BOOLEAN /\ loadPendRdReg' \in RegIdx
        /\ loadPendF3Reg' \in 0 .. 7
        /\ cycleReg' \in 0 .. CycleMod - 1 /\ regs' \in [RegIdx -> Data]
    BY <1>5, AdvanceType, NextSequentialType DEF HaltCycle
  <2>2. /\ haltedReg' \in BOOLEAN /\ illegalReg' \in BOOLEAN
        /\ ecallReg' \in BOOLEAN /\ ebreakReg' \in BOOLEAN
    <3>1. /\ haltedReg' = TRUE
          /\ illegalReg' = (illegalReg \/ dec.kind = "illegal")
          /\ ecallReg' = (ecallReg \/ dec.kind = "ECALL")
          /\ ebreakReg' = (ebreakReg \/ dec.kind = "EBREAK")
      BY <1>5, Zenon DEF HaltCycle
    <3> QED
      BY <3>1, Zenon DEF PartsTypeOK, CoreTypeOK
  <2> QED
    BY <2>1, <2>2 DEF CoreTypeOK
<1>6. CASE HaltedCycle
  BY <1>6, RegFileType DEF HaltedCycle, pcVars, loadVars, statusVars, PartsTypeOK, CoreTypeOK
<1>7. CASE IdleCycle
  BY <1>7, RegFileType DEF IdleCycle, statusVars, PartsTypeOK, CoreTypeOK
<1>8. CASE SoftResetCycle
  <2>1. regs' \in [RegIdx -> Data]
    BY <1>8, RegFileType DEF SoftResetCycle
  <2>2. loadPendRdReg' \in RegIdx /\ loadPendF3Reg' \in 0 .. 7
    BY <1>8, DecFields DEF SoftResetCycle, PartsTypeOK, CoreTypeOK
  <2> QED
    BY <1>8, <2>1, <2>2, WordZero, CycleZero DEF SoftResetCycle, CoreTypeOK
<1> QED
  BY <1>1, <1>2, <1>3, <1>4, <1>5, <1>6, <1>7, <1>8 DEF Clock

\* An instruction that redirects is no load.
LEMMA RedirectIsNoLoad == flushRedirect => dec.kind # "Load"
BY DEF flushRedirect, branchTaken

----------------------------------------------------------------------------
(* The registers of the pipeline and of the halt, against each other.      *)

\* LabelTracksInst without enable: a core that is paused loses the instruction.
Label == ~ bubbleReg /\ ~ haltedReg => inst = imem[ImemWordAddr(pcExReg)]

LEMMA LabelClock ==
  ASSUME Clock, MemoryClock
  PROVE  Label'
<1>1. ASSUME NEW next, Advance(next) PROVE Label'
  BY <1>1 DEF Advance, MemoryClock, FetchPort, imem_addr, Label
<1>2. CASE HaltedCycle
  BY <1>2 DEF HaltedCycle, statusVars, Label
<1>3. CASE IdleCycle \/ SoftResetCycle
  BY <1>3 DEF IdleCycle, SoftResetCycle, Label
<1> QED
  BY <1>1, <1>2, <1>3
     DEF Clock, BubbleCycle, StallCycle, ExecuteCycle, RedirectCycle, HaltCycle

LEMMA HaltReportClock ==
  ASSUME HaltReport, Clock
  PROVE  HaltReport'
<1>1. ASSUME NEW next, Advance(next), UNCHANGED statusVars PROVE HaltReport'
  BY <1>1 DEF Advance, active, statusVars, HaltReport
<1>2. CASE HaltCycle
  <2>1. ~ haltedReg /\ ~ illegalReg /\ ~ ecallReg /\ ~ ebreakReg
    BY <1>2 DEF HaltCycle, Advance, active, HaltReport
  <2>2. dec.kind \in {"illegal", "ECALL", "EBREAK"}
    BY <1>2 DEF HaltCycle, IsHalt
  <2>3. /\ haltedReg' /\ (illegalReg' <=> dec.kind = "illegal")
        /\ (ecallReg' <=> dec.kind = "ECALL") /\ (ebreakReg' <=> dec.kind = "EBREAK")
        /\ (loadPendReg' <=> dec.kind = "Load")
    <3>1. instrValid
      BY <1>2, Zenon DEF HaltCycle
    <3> QED
      BY <1>2, <2>1, <3>1, Zenon DEF HaltCycle, Advance
  <2> QED
    BY <2>2, <2>3 DEF HaltReport
<1>3. CASE HaltedCycle
  BY <1>3 DEF HaltedCycle, statusVars, loadVars, HaltReport
<1>4. CASE IdleCycle
  BY <1>4 DEF IdleCycle, statusVars, HaltReport
<1>5. CASE SoftResetCycle
  BY <1>5 DEF SoftResetCycle, HaltReport
<1> QED
  BY <1>1, <1>2, <1>3, <1>4, <1>5
     DEF Clock, BubbleCycle, StallCycle, ExecuteCycle, RedirectCycle

\* No load is left over when EX is emptied: a redirect is not a load, and a
\* pause or a reset drops the load that is pending.
NothingPending == bubbleReg => ~ loadPendReg

LEMMA NothingPendingClock ==
  ASSUME NothingPending, Clock
  PROVE  NothingPending'
<1>1. ASSUME NEW next, Advance(next) PROVE NothingPending'
  BY <1>1, RedirectIsNoLoad, Zenon DEF Advance, NothingPending
<1>2. CASE HaltedCycle
  BY <1>2 DEF HaltedCycle, pcVars, loadVars, NothingPending
<1>3. CASE IdleCycle \/ SoftResetCycle
  BY <1>3 DEF IdleCycle, SoftResetCycle, NothingPending
<1> QED
  BY <1>1, <1>2, <1>3
     DEF Clock, BubbleCycle, StallCycle, ExecuteCycle, RedirectCycle, HaltCycle

----------------------------------------------------------------------------
(* The sequential machine computes with the same words, decoder and        *)
(* datapath.                                                               *)

LEMMA SameSlice == \A x, hi, lo : Sequential!Slice(x, hi, lo) = Slice(x, hi, lo)
BY DEF Sequential!Slice, Slice

LEMMA SameWord == \A w : Sequential!Word(w) = Word(w)
BY DEF Sequential!Word, Word, Sequential!Bits, Bits

LEMMA SameData == Sequential!Data = Data
BY DEF Sequential!Data, Data, Sequential!Word, Word, Sequential!Bits, Bits

LEMMA SameRegIdx == Sequential!RegIdx = RegIdx
BY DEF Sequential!RegIdx, RegIdx

LEMMA SameAdd == \A a, b : Sequential!Add(a, b) = Add(a, b)
BY DEF Sequential!Add, Add, Sequential!Adder, Adder, Sequential!Data, Data, Sequential!Word,
       Word, Sequential!Bits, Bits, Sequential!Plus, Plus, Sequential!AddCarry, AddCarry,
       Sequential!Carry, Carry, Sequential!Xor, Xor

LEMMA SameFour == Sequential!Four = Four
BY DEF Sequential!Four, Four

LEMMA SameALU == Sequential!ALU = ALU
BY DEF Sequential!ALU, ALU, Sequential!AluOp, AluOp, Sequential!Data, Data, Sequential!Word,
       Word, Sequential!Bits, Bits, Sequential!Plus, Plus, Sequential!AddCarry, AddCarry,
       Sequential!Carry, Carry, Sequential!Xor, Xor, Sequential!Minus, Minus, Sequential!Not,
       Not, Sequential!Truncate, Truncate, Sequential!ShiftLeft, ShiftLeft,
       Sequential!ShiftRight, ShiftRight, Sequential!Flag, Flag, Sequential!LessUnsigned,
       LessUnsigned, Sequential!LessSigned, LessSigned, Sequential!ULess, ULess,
       Sequential!SLess, SLess, Sequential!LogicalShiftRight, LogicalShiftRight,
       Sequential!ArithmeticShiftRight, ArithmeticShiftRight, Sequential!FillFrom, FillFrom,
       Sequential!Field, Field, Sequential!Slice, Slice

LEMMA SameBranchUnit == Sequential!BranchUnit = BranchUnit
BY DEF Sequential!BranchUnit, BranchUnit, Sequential!Data, Data, Sequential!Word, Word,
       Sequential!Bits, Bits, Sequential!LessUnsigned, LessUnsigned, Sequential!LessSigned,
       LessSigned, Sequential!ULess, ULess, Sequential!SLess, SLess, Sequential!Xor, Xor

LEMMA SameStoreMask == \A f : Sequential!StoreMask(f) = StoreMask(f)
BY DEF Sequential!StoreMask, StoreMask, Sequential!Lane, Lane

LEMMA SameMergeLanes == Sequential!MergeLanes = MergeLanes
BY DEF Sequential!MergeLanes, MergeLanes, Sequential!Lane, Lane, Sequential!Data, Data,
       Sequential!Word, Word, Sequential!Bits, Bits

LEMMA SameLoadData == Sequential!LoadData = LoadData
BY DEF Sequential!LoadData, LoadData, Sequential!Data, Data, Sequential!Word, Word,
       Sequential!Bits, Bits, Sequential!SignExtended, SignExtended, Sequential!ZeroExtended,
       ZeroExtended, Sequential!Truncate, Truncate, Sequential!FillFrom, FillFrom

LEMMA SameCustomOp == Sequential!CustomOp = CustomOp
BY DEF Sequential!CustomOp, CustomOp, Sequential!Data, Data, Sequential!Word, Word,
       Sequential!Bits, Bits, Sequential!BitNumber, BitNumber, Sequential!PpcMask, PpcMask,
       Sequential!Rotl, Rotl, Sequential!ShiftLeft, ShiftLeft, Sequential!ShiftRight,
       ShiftRight, Sequential!Truncate, Truncate

LEMMA SameDecodeOf == Sequential!DecodeOf = DecodeOf
BY DEF Sequential!DecodeOf, DecodeOf, Sequential!Decode, Decode, Sequential!Kind, Kind,
       Sequential!IsSystem, IsSystem, Sequential!ImmI, ImmI, Sequential!ImmS, ImmS,
       Sequential!ImmB, ImmB, Sequential!ImmU, ImmU, Sequential!ImmJ, ImmJ,
       Sequential!CustomField, CustomField, Sequential!CustomImm, CustomImm, Sequential!Slice,
       Slice, Sequential!Truncate, Truncate, Sequential!FillFrom, FillFrom,
       Sequential!ShiftLeft, ShiftLeft, Sequential!Field, Field

LEMMA SameAluControl == \A e : Sequential!AluControl(e) = AluControl(e)
BY DEF Sequential!AluControl, AluControl

LEMMA SameIsHalt == \A e : Sequential!IsHalt(e) = IsHalt(e)
BY DEF Sequential!IsHalt, IsHalt

----------------------------------------------------------------------------
(* The pipeline on a prepared program.                                     *)

\* A core that is not enabled is emptied.
EmptyWhileIdle == ~ enable => bubbleReg

\* Behind a stall EX shows the word after the one that stalled, which is inert, while the
\* one that stalled is fetched again.
Replay == pcExReg = Add(pcFetchReg, Four) /\ ~ loadPendReg /\ Inert(dec)

\* Fetch is one instruction ahead of EX, and where EX has to wait for a load the word
\* being fetched is inert; or the fetch is going back to the instruction that waited.
InStep ==
  active /\ ~ bubbleReg =>
    \/ inStep /\ (loadPendReg /\ Conflict(dec, loadPendRdReg) => Inert(At(imem, pcFetchReg)))
    \/ Replay

\* What a halted core still shows in EX, now and after its next fetch, does nothing.
Stopped ==
  haltedReg /\ ~ bubbleReg => Harmless(dec) /\ Harmless(At(imem, pcFetchReg))

CoreInv == PartsTypeOK /\ LabelTracksInst /\ HaltReport /\ NothingPending

PipeInv == CoreInv /\ IsPrepared(imem) /\ EmptyWhileIdle /\ InStep /\ Stopped

\* The instruction in EX is the program's at pcExReg.
LEMMA DecIsAt == CoreInv /\ active /\ ~ bubbleReg => dec = At(imem, pcExReg)
BY DEF CoreInv, LabelTracksInst, dec, At

\* Two instructions further is another address.
LEMMA TwoFurther == \A x \in Data : Add(Add(x, Four), Four) # x
<1> SUFFICES ASSUME NEW x \in Data PROVE Add(Add(x, Four), Four) # x
  OBVIOUS
<1>1. 0 \in Bits(XLEN) /\ 1 \in Bits(XLEN) /\ 2 \in Bits(XLEN) /\ 3 \in Bits(XLEN)
  BY Widths DEF Bits
<1>2. ASSUME NEW y \in Data
      PROVE  /\ 2 \in Add(y, Four) <=> 2 \notin y
             /\ 3 \in Add(y, Four) <=> ~ (3 \in y <=> 2 \in y)
  <2>1. Add(y, Four) = AddCarry(y, {2}, FALSE, XLEN)
    BY FourType DEF Add, Adder, Plus, Four
  <2>2. ~ Carry(y, {2}, FALSE, 2)
    BY DEF Carry
  <2>3. Carry(y, {2}, FALSE, 3) <=> 2 \in y
    BY DEF Carry
  <2>4. 2 \in Xor(y, {2}) <=> 2 \notin y
    BY DEF Xor
  <2>5. 3 \in Xor(y, {2}) <=> 3 \in y
    BY DEF Xor
  <2>6. \A i \in Bits(XLEN) :
          i \in Add(y, Four) <=> ~ (i \in Xor(y, {2}) <=> Carry(y, {2}, FALSE, i))
    <3> DEFINE c(i) == Carry(y, {2}, FALSE, i)
    <3>1. \A i \in Bits(XLEN) : c(i) \in BOOLEAN
      BY DEF Carry
    <3>2. Add(y, Four) = {i \in Bits(XLEN) : (i \in Xor(y, {2})) # c(i)}
      BY <2>1 DEF AddCarry
    <3> HIDE DEF c
    <3>3. ASSUME NEW i \in Bits(XLEN)
          PROVE  i \in Add(y, Four) <=> ~ (i \in Xor(y, {2}) <=> c(i))
      <4>1. i \in Add(y, Four) <=> ((i \in Xor(y, {2})) # c(i))
        BY <3>2, Zenon
      <4>2. ((i \in Xor(y, {2})) # c(i)) <=> ~ (i \in Xor(y, {2}) <=> c(i))
        BY <3>1, Differ
      <4> QED
        BY <4>1, <4>2
    <3> QED
      BY <3>3 DEF c
  <2> QED
    BY <1>1, <2>2, <2>3, <2>4, <2>5, <2>6, Zenon
<1>3. Add(x, Four) \in Data
  BY AddType, FourType
<1> QED
  BY <1>2, <1>3

\* An inert instruction neither loads, stores, redirects nor halts, and writes nothing.
LEMMA InertIsQuiet ==
  ASSUME Inert(dec)
  PROVE  /\ dec.kind # "Load" /\ dec.kind # "Store" /\ ~ flushRedirect /\ ~ IsHalt(dec)
         /\ WritesRd(dec) => dec.rd = 0
BY DEF Inert, flushRedirect, branchTaken, IsHalt, WritesRd

\* While EX waits for a load, fetch is one instruction ahead of it.
LEMMA StallInStep ==
  PipeInv /\ stall => active /\ ~ bubbleReg /\ inStep /\ Inert(At(imem, pcFetchReg))
<1> SUFFICES ASSUME PipeInv, stall
             PROVE  active /\ ~ bubbleReg /\ inStep /\ Inert(At(imem, pcFetchReg))
  OBVIOUS
<1>1. ~ bubbleReg /\ loadPendReg /\ Conflict(dec, loadPendRdReg)
  BY DEF stall, Conflict
<1>2. active
  BY <1>1 DEF PipeInv, CoreInv, HaltReport, EmptyWhileIdle, active
<1> QED
  BY <1>1, <1>2 DEF PipeInv, InStep, Replay

\* A clock that fetches the next address and fills EX.
LEMMA FillsInStep ==
  ASSUME PipeInv, MemoryClock, Advance(NextSequential),
         loadPendReg' => instrValid /\ dec.kind = "Load"
  PROVE  inStep' /\ InStep'
<1>1. inStep'
  BY DEF Advance, NextSequential, inStep
<1> SUFFICES ASSUME loadPendReg', Conflict(dec', loadPendRdReg')
             PROVE  Inert(At(imem, pcFetchReg)')
  BY <1>1 DEF InStep, Inert
<1>2. dec' = At(imem, pcFetchReg) /\ At(imem, pcFetchReg)' = At(imem, Add(pcFetchReg, Four))
  BY DEF MemoryClock, FetchPort, imem_addr, dec, At, Advance, NextSequential
<1>3. active /\ ~ bubbleReg /\ dec.kind = "Load" /\ loadPendRdReg' = dec.rd
  BY DEF Advance, instrValid
<1>4. pcFetchReg = Add(pcExReg, Four) /\ dec = At(imem, pcExReg)
  BY <1>3, DecIsAt, InertIsQuiet DEF PipeInv, InStep, Replay, inStep
<1>5. pcExReg \in Data /\ StallPadded(imem)
  BY DEF PipeInv, CoreInv, PartsTypeOK, CoreTypeOK, IsPrepared
<1> QED
  BY <1>2, <1>3, <1>4, <1>5 DEF StallPadded

\* A stall brings the inert word behind the instruction that waits into EX.
LEMMA StallReplays == PipeInv /\ MemoryClock /\ StallCycle => Replay' /\ ~ bubbleReg'
<1> SUFFICES ASSUME PipeInv, MemoryClock, StallCycle PROVE Replay' /\ ~ bubbleReg'
  OBVIOUS
<1>1. stall /\ Advance(pcExReg) /\ ~ instrValid
  BY DEF StallCycle, instrValid
<1>2. inStep /\ Inert(At(imem, pcFetchReg))
  BY <1>1, StallInStep
<1>3. dec' = At(imem, pcFetchReg)
  BY DEF MemoryClock, FetchPort, imem_addr, dec, At
<1>4. pcExReg' = Add(pcFetchReg', Four) /\ ~ loadPendReg' /\ ~ bubbleReg'
  BY <1>1, <1>2 DEF Advance, inStep, flushRedirect
<1> QED
  BY <1>2, <1>3, <1>4 DEF Replay

\* A halt is followed by two words that do nothing.
LEMMA HaltStops == PipeInv /\ MemoryClock /\ HaltCycle => Stopped'
<1> SUFFICES ASSUME PipeInv, MemoryClock, HaltCycle PROVE Stopped'
  OBVIOUS
<1>1. active /\ ~ bubbleReg /\ IsHalt(dec)
  BY DEF HaltCycle, Advance, instrValid
<1>2. pcFetchReg = Add(pcExReg, Four) /\ dec = At(imem, pcExReg)
  BY <1>1, DecIsAt, InertIsQuiet DEF PipeInv, InStep, Replay, inStep
<1>3. pcExReg \in Data /\ HaltPadded(imem)
  BY DEF PipeInv, CoreInv, PartsTypeOK, CoreTypeOK, IsPrepared
<1>4. /\ Harmless(At(imem, pcFetchReg))
      /\ Harmless(At(imem, Add(pcFetchReg, Four)))
  BY <1>1, <1>2, <1>3 DEF HaltPadded
<1>5. dec' = At(imem, pcFetchReg) /\ pcFetchReg' = Add(pcFetchReg, Four) /\ imem' = imem
  BY DEF MemoryClock, FetchPort, imem_addr, dec, At, HaltCycle, Advance, NextSequential
<1>6. ~ bubbleReg'
  BY <1>1 DEF HaltCycle, Advance, flushRedirect, branchTaken, IsHalt
<1>7. At(imem, pcFetchReg)' = At(imem, Add(pcFetchReg, Four))
  BY <1>5 DEF At
<1> QED
  BY <1>4, <1>5, <1>6, <1>7 DEF Stopped

\* Every clock without a reset keeps to it, and leaves the program as it is.
LEMMA PipeInvClock ==
  ASSUME PipeInv, Clock, MemoryClock, ~ softReset, entryAddr \in Data
  PROVE  /\ CoreInv' /\ IsPrepared(imem)' /\ InStep' /\ Stopped'
         /\ (enable => enable') => PipeInv'
<1>1. CoreInv'
  <2>1. PartsTypeOK'
    BY ClockType, MemoryType DEF PipeInv, CoreInv, PartsTypeOK
  <2>2. LabelTracksInst'
    BY LabelClock DEF Label, LabelTracksInst, active
  <2> QED
    BY <2>1, <2>2, HaltReportClock, NothingPendingClock DEF PipeInv, CoreInv
<1>2. IsPrepared(imem)'
  BY DEF MemoryClock, PipeInv, IsPrepared, StallPadded, HaltPadded, At
<1>3. CASE BubbleCycle \/ ExecuteCycle
  <2>1. enable /\ ~ haltedReg' /\ Advance(NextSequential)
    BY <1>3 DEF BubbleCycle, ExecuteCycle, Advance, active, statusVars
  <2>2. InStep'
    BY <2>1, FillsInStep DEF Advance
  <2> QED
    BY <1>1, <1>2, <2>1, <2>2 DEF PipeInv, EmptyWhileIdle, Stopped
<1>4. CASE StallCycle
  <2>1. enable /\ ~ haltedReg'
    BY <1>4 DEF StallCycle, Advance, active, statusVars
  <2>2. InStep'
    BY <1>4, StallReplays DEF InStep
  <2> QED
    BY <1>1, <1>2, <2>1, <2>2 DEF PipeInv, EmptyWhileIdle, Stopped
<1>5. CASE RedirectCycle
  BY <1>1, <1>2, <1>5
     DEF RedirectCycle, Advance, active, statusVars, PipeInv, EmptyWhileIdle, InStep, Stopped
<1>6. CASE HaltCycle
  BY <1>1, <1>2, <1>6, HaltStops
     DEF HaltCycle, Advance, active, PipeInv, EmptyWhileIdle, InStep
<1>7. CASE HaltedCycle
  <2>1. /\ enable /\ haltedReg /\ haltedReg'
        /\ UNCHANGED <<pcFetchReg, imem, bubbleReg>>
    BY <1>7 DEF HaltedCycle, pcVars, statusVars, MemoryClock
  <2>2. dec' = At(imem, pcFetchReg)
    BY DEF MemoryClock, FetchPort, imem_addr, dec, At
  <2>3. At(imem, pcFetchReg)' = At(imem, pcFetchReg)
    BY <2>1 DEF At
  <2> QED
    BY <1>1, <1>2, <2>1, <2>2, <2>3 DEF PipeInv, EmptyWhileIdle, InStep, Stopped, active
<1>8. CASE IdleCycle
  BY <1>1, <1>2, <1>8 DEF IdleCycle, PipeInv, EmptyWhileIdle, InStep, Stopped
<1> QED
  BY <1>3, <1>4, <1>5, <1>6, <1>7, <1>8 DEF Clock, SoftResetCycle

----------------------------------------------------------------------------
(* The clock in which EX completes an instruction, as the sequential       *)
(* machine sees it.                                                        *)

Completes(next) ==
  /\ PipeInv /\ MemoryClock /\ instrValid /\ inStep /\ Advance(next) /\ enable'
  /\ IF flushRedirect THEN ~ haltedReg' ELSE next = NextSequential

\* The registers are ahead of the register file by the load that is pending.
LEMMA ArchRegsType == PartsTypeOK => archRegs \in [RegIdx -> Data]
BY RegsAfterLoadType DEF archRegs

LEMMA SameInstr ==
  ASSUME NEW next, Completes(next)
  PROVE  Sequential!instr = dec /\ archPc = pcExReg /\ Sequential!PcPlus4 = pcPlus4
<1>1. archPc = pcExReg
  BY DEF Completes, instrValid, archPc
<1>2. dec = At(imem, pcExReg)
  BY DecIsAt DEF Completes, PipeInv, instrValid, Advance
<1>3. Sequential!instr = dec
  BY <1>1, <1>2, SameSlice, SameDecodeOf DEF Sequential!instr, At, ImemWordAddr
<1>4. Sequential!PcPlus4 = pcPlus4
  BY <1>1, SameAdd, SameFour DEF Sequential!PcPlus4, pcPlus4
<1> QED
  BY <1>1, <1>3, <1>4

\* No operand is one that the pending load is still to write.
LEMMA SameOperands ==
  ASSUME NEW next, Completes(next)
  PROVE  /\ Sequential!R(dec.rs1) = rs1Data /\ Sequential!R(dec.rs2) = rs2Data
         /\ WritesRd(dec) => Sequential!R(dec.rd) = RegRead(dec.rd)
<1>1. loadPendReg => ~ Conflict(dec, loadPendRdReg)
  BY DEF Completes, instrValid, stall, Conflict
<1>2. PartsTypeOK
  BY DEF Completes, PipeInv, CoreInv
<1>3. dec.rs1 \in RegIdx /\ dec.rs2 \in RegIdx /\ dec.rd \in RegIdx
  BY <1>2, DecFields
<1>4. ASSUME NEW i \in RegIdx, loadPendReg /\ loadPendRdReg # 0 => i # loadPendRdReg
      PROVE  Sequential!R(i) = RegRead(i)
  BY <1>2, <1>4 DEF Sequential!R, RegRead, archRegs, RegsAfterLoad, wenLoad, PartsTypeOK, CoreTypeOK
<1> QED
  BY <1>1, <1>3, <1>4 DEF Conflict, rs1Data, rs2Data

\* Where execution goes on.
LEMMA SamePc ==
  ASSUME NEW next, Completes(next)
  PROVE  archPc' = IF flushRedirect THEN next ELSE pcPlus4
<1>1. CASE flushRedirect
  BY <1>1 DEF Completes, Advance, archPc
<1>2. CASE ~ flushRedirect
  <2>1. ~ bubbleReg' /\ pcExReg' = pcFetchReg /\ pcFetchReg' = Add(pcFetchReg, Four)
    BY <1>2 DEF Completes, Advance, NextSequential
  <2> QED
    BY <1>2, <2>1 DEF Completes, archPc, inStep, pcPlus4
<1> QED
  BY <1>1, <1>2

\* What is written to the registers.
LEMMA SameWrites ==
  ASSUME NEW next, Completes(next)
  PROVE  /\ WritesRd(dec) => Sequential!WriteRd(wbData)
         /\ dec.kind = "Load" =>
              Sequential!WriteRd(LoadData[dec.funct3][dmem[DmemWordAddr(dmem_addr)]])
         /\ ~ WritesRd(dec) /\ dec.kind # "Load" => archRegs' = archRegs
<1>1. Sequential!instr = dec
  BY SameInstr
<1>2. /\ regs' = IF WritesRd(dec) /\ dec.rd # 0 THEN [archRegs EXCEPT ![dec.rd] = wbData]
                                                ELSE archRegs
      /\ loadPendReg' <=> dec.kind = "Load"
      /\ loadPendRdReg' = dec.rd /\ loadPendF3Reg' = dec.funct3
  BY DEF Completes, Advance, RegFileClock, wen, archRegs
<1>3. dec.kind = "Load" => ~ WritesRd(dec)
  BY DEF WritesRd
<1>4. dec.kind = "Load" => rdata' = dmem[DmemWordAddr(dmem_addr)]
  BY DEF Completes, MemoryClock, LoadPort, dmem_wen
<1>5. archRegs' = IF loadPendReg' /\ loadPendRdReg' # 0
                  THEN [regs' EXCEPT ![loadPendRdReg'] = LoadData[loadPendF3Reg'][rdata']]
                  ELSE regs'
  BY DEF archRegs, RegsAfterLoad, wenLoad
<1>6. ASSUME WritesRd(dec) PROVE Sequential!WriteRd(wbData)
  BY <1>1, <1>2, <1>3, <1>5, <1>6 DEF Sequential!WriteRd
<1>7. ASSUME dec.kind = "Load"
      PROVE  Sequential!WriteRd(LoadData[dec.funct3][dmem[DmemWordAddr(dmem_addr)]])
  BY <1>1, <1>2, <1>3, <1>4, <1>5, <1>7 DEF Sequential!WriteRd
<1>8. ASSUME ~ WritesRd(dec), dec.kind # "Load" PROVE archRegs' = archRegs
  BY <1>2, <1>5, <1>8
<1> QED
  BY <1>6, <1>7, <1>8

LEMMA SameMode == ASSUME NEW next, Completes(next) PROVE archMode = "running"
BY DEF Completes, Advance, active, archMode

LEMMA SameMemory ==
  ASSUME NEW next, Completes(next)
  PROVE  imem' = imem /\ dmem' = DmemAfterCore /\ (dec.kind # "Store" => dmem' = dmem)
BY DEF Completes, MemoryClock, DmemAfterCore, dmem_wen

----------------------------------------------------------------------------
(* Each instruction is the step of the sequential machine for its kind.    *)

LEMMA ComputeStep ==
  ASSUME NEW next, Completes(next), dec.kind \in {"RType", "IType"}
  PROVE  Sequential!Compute
<1>1. WritesRd(dec) /\ ~ flushRedirect /\ wbData = aluOut
  BY DEF WritesRd, flushRedirect, branchTaken, wbData
<1>2. aluOp2 = IF dec.kind = "IType" THEN dec.immI ELSE rs2Data
  BY DEF aluOp2
<1>3. Sequential!WriteRd(wbData) /\ archPc' = Sequential!PcPlus4 /\ dmem' = dmem
  BY <1>1, SameInstr, SamePc, SameWrites, SameMemory
<1> QED
  BY <1>1, <1>2, <1>3, SameInstr, SameOperands, SameALU, SameAluControl
     DEF Sequential!Compute, aluOut

LEMMA UpperImmediateStep ==
  ASSUME NEW next, Completes(next), dec.kind \in {"LUI", "AUIPC"}
  PROVE  Sequential!UpperImmediate
<1>1. WritesRd(dec) /\ ~ flushRedirect
  BY DEF WritesRd, flushRedirect, branchTaken
<1>2. wbData = IF dec.kind = "LUI" THEN dec.immU ELSE Add(pcExReg, dec.immU)
  BY DEF wbData
<1>3. Sequential!WriteRd(wbData) /\ archPc' = Sequential!PcPlus4 /\ dmem' = dmem
  BY <1>1, SameInstr, SamePc, SameWrites, SameMemory
<1> QED
  BY <1>2, <1>3, SameInstr, SameAdd DEF Sequential!UpperImmediate

LEMMA RotateInsertStep ==
  ASSUME NEW next, Completes(next), dec.kind = "Custom"
  PROVE  Sequential!RotateInsert
<1>1. WritesRd(dec) /\ ~ flushRedirect /\ wbData = customOut
  BY DEF WritesRd, flushRedirect, branchTaken, wbData
<1>2. Sequential!WriteRd(wbData) /\ archPc' = Sequential!PcPlus4 /\ dmem' = dmem
  BY <1>1, SameInstr, SamePc, SameWrites, SameMemory
<1> QED
  BY <1>1, <1>2, SameInstr, SameOperands, SameCustomOp DEF Sequential!RotateInsert, customOut

\* At the address of a word, bit k from there on is bit k of that word.
LEMMA PlaceInWord ==
  ASSUME NEW a, a \cap {0, 1} = {}, NEW k \in Bits(XLEN)
  PROVE  Sequential!Place(a, k) = <<DmemWordAddr(a), k>>
<1>1. Sequential!Field(a \cap {0, 1}) = 0
  BY DEF Sequential!Field
<1>2. k + BYTE * 0 = k /\ k < XLEN
  BY Widths DEF Bits
<1> QED
  BY <1>1, <1>2, SameSlice DEF Sequential!Place, DmemWordAddr

\* The address of the word that an access is made at, whatever byte it names.
LEMMA SameAddress ==
  ASSUME NEW next, Completes(next)
  PROVE  LET a == Sequential!DataAddress \ {0, 1}
         IN  a \cap {0, 1} = {} /\ DmemWordAddr(a) = DmemWordAddr(dmem_addr)
<1>1. Sequential!DataAddress = dmem_addr
  BY SameInstr, SameOperands, SameAdd DEF Sequential!DataAddress, dmem_addr
<1>2. Slice(dmem_addr \ {0, 1}, DMEMW + 1, 2) = Slice(dmem_addr, DMEMW + 1, 2)
  BY DEF Slice
<1> QED
  BY <1>1, <1>2 DEF DmemWordAddr

LEMMA LoadStep ==
  ASSUME NEW next, Completes(next), dec.kind = "Load"
  PROVE  Sequential!Load(Sequential!DataAddress \ {0, 1})
<1> DEFINE a == Sequential!DataAddress \ {0, 1}
<1>1. ~ flushRedirect
  BY DEF flushRedirect, branchTaken
<1>2. /\ Sequential!WriteRd(LoadData[dec.funct3][dmem[DmemWordAddr(dmem_addr)]])
      /\ archPc' = Sequential!PcPlus4 /\ dmem' = dmem
  BY <1>1, SameInstr, SamePc, SameWrites, SameMemory
<1>3. a \cap {0, 1} = {} /\ DmemWordAddr(a) = DmemWordAddr(dmem_addr)
  BY SameAddress
<1>4. dmem[DmemWordAddr(dmem_addr)] \in SUBSET Bits(XLEN)
  BY AddressType, IndexType
     DEF Completes, PipeInv, CoreInv, PartsTypeOK, MemoryTypeOK, Data, Word
<1> HIDE DEF a
<1>5. Sequential!Datum(a) = dmem[DmemWordAddr(dmem_addr)]
  <2>1. Sequential!Datum(a) =
          {k \in Bits(XLEN) : Sequential!Place(a, k)[2] \in dmem[Sequential!Place(a, k)[1]]}
    BY DEF Sequential!Datum, Sequential!Bits, Bits
  <2>2. \A k \in Bits(XLEN) : Sequential!Place(a, k) = <<DmemWordAddr(dmem_addr), k>>
    BY <1>3, PlaceInWord
  <2>3. Sequential!Datum(a) = {k \in Bits(XLEN) : k \in dmem[DmemWordAddr(dmem_addr)]}
    BY <2>1, <2>2
  <2> QED
    BY <1>4, <2>3
<1> QED
  BY <1>2, <1>5, SameInstr, SameLoadData DEF Sequential!Load, a

LEMMA StoreStep ==
  ASSUME NEW next, Completes(next), dec.kind = "Store"
  PROVE  Sequential!Store(Sequential!DataAddress \ {0, 1})
<1> DEFINE a == Sequential!DataAddress \ {0, 1}
           W == DmemWordAddr(dmem_addr)
           stored == MergeLanes[StoreMask(dec.funct3)][dmem[W]][rs2Data]
<1>1. ~ flushRedirect /\ ~ WritesRd(dec) /\ dmem_wen
  BY DEF flushRedirect, branchTaken, WritesRd, dmem_wen, Completes
<1>2. archRegs' = archRegs /\ archPc' = Sequential!PcPlus4 /\ dmem' = DmemAfterCore
  BY <1>1, SameInstr, SamePc, SameWrites, SameMemory
<1>3. a \cap {0, 1} = {} /\ DmemWordAddr(a) = W
  BY SameAddress
<1>4. W \in Word(DMEMW) /\ dmem \in [Word(DMEMW) -> SUBSET Bits(XLEN)]
  BY AddressType, IndexType
     DEF Completes, PipeInv, CoreInv, PartsTypeOK, MemoryTypeOK, DmemIndex, Data, Word
<1>5. stored \in SUBSET Bits(XLEN)
  <2>1. rs2Data \in Data /\ StoreMask(dec.funct3) \in SUBSET Lane /\ dmem[W] \in Data
    BY <1>4, OperandType, StoreMaskType, DecFields
       DEF Completes, PipeInv, CoreInv, PartsTypeOK, MemoryTypeOK, DmemIndex
  <2> QED
    BY <2>1, MergeLanesType DEF Data, Word
<1>6. dmem' = [dmem EXCEPT ![W] = stored]
  BY <1>1, <1>2 DEF DmemAfterCore, dmem_wmask, dmem_wdata
<1> HIDE DEF a, W, stored
<1>7. \A k \in Bits(XLEN) : Sequential!Place(a, k) = <<W, k>>
  BY <1>3, PlaceInWord
<1>8. Sequential!Datum(a) = dmem[W]
  <2>1. Sequential!Datum(a) =
          {k \in Bits(XLEN) : Sequential!Place(a, k)[2] \in dmem[Sequential!Place(a, k)[1]]}
    BY DEF Sequential!Datum, Sequential!Bits, Bits
  <2>2. Sequential!Datum(a) = {k \in Bits(XLEN) : k \in dmem[W]}
    BY <1>7, <2>1
  <2> QED
    BY <1>4, <2>2
<1>9. dmem' = Sequential!WithDatum(a, stored)
  <2> DEFINE after(w) ==
        {j \in Bits(XLEN) :
           \/ \E k \in stored : Sequential!Place(a, k) = <<w, j>>
           \/ j \in dmem[w] /\ \A k \in Bits(XLEN) : Sequential!Place(a, k) # <<w, j>>}
  <2>1. after(W) = stored
    BY <1>5, <1>7
  <2>2. \A w \in Word(DMEMW) : w # W => after(w) = dmem[w]
    BY <1>4, <1>5, <1>7
  <2> HIDE DEF after
  <2>3. dmem' = [w \in Word(DMEMW) |-> after(w)]
    BY <1>4, <1>6, <2>1, <2>2
  <2> QED
    BY <2>3, SameWord DEF after, Sequential!WithDatum, Sequential!Bits, Bits
<1>10. Sequential!MergeLanes[Sequential!StoreMask(dec.funct3)][Sequential!Datum(a)][rs2Data]
         = stored
  BY <1>8, SameMergeLanes, SameStoreMask DEF stored
<1> QED
  BY <1>2, <1>9, <1>10, SameInstr, SameOperands DEF Sequential!Store, a

LEMMA BranchStep ==
  ASSUME NEW next, Completes(next), dec.kind = "Branch",
         flushRedirect => next = redirectTarget
  PROVE  Sequential!Branch
<1>1. ~ WritesRd(dec)
  BY DEF WritesRd
<1>2. flushRedirect <=> BranchUnit[dec.funct3][rs1Data][rs2Data]
  BY DEF flushRedirect, branchTaken, Completes
<1>3. flushRedirect => redirectTarget = Add(pcExReg, dec.immB)
  BY DEF flushRedirect, redirectTarget
<1>4. archRegs' = archRegs /\ dmem' = dmem
  BY <1>1, SameWrites, SameMemory
<1>5. archPc' = IF flushRedirect THEN Add(pcExReg, dec.immB) ELSE Sequential!PcPlus4
  BY <1>3, SameInstr, SamePc
<1> QED
  BY <1>2, <1>4, <1>5, SameInstr, SameOperands, SameBranchUnit, SameAdd DEF Sequential!Branch

LEMMA JumpStep ==
  ASSUME NEW next, Completes(next), dec.kind \in {"JAL", "JALR"},
         flushRedirect => next = redirectTarget
  PROVE  Sequential!Jump
<1>1. WritesRd(dec) /\ flushRedirect /\ wbData = pcPlus4
  BY DEF WritesRd, flushRedirect, Completes, wbData
<1>2. redirectTarget = IF dec.kind = "JAL" THEN Add(pcExReg, dec.immJ)
                                           ELSE Add(rs1Data, dec.immI) \ {0}
  BY DEF redirectTarget, branchTaken
<1>3. Sequential!WriteRd(Sequential!PcPlus4) /\ archPc' = redirectTarget /\ dmem' = dmem
  BY <1>1, SameInstr, SamePc, SameWrites, SameMemory
<1> QED
  BY <1>2, <1>3, SameInstr, SameOperands, SameAdd DEF Sequential!Jump

LEMMA FenceStep ==
  ASSUME NEW next, Completes(next), dec.kind = "Fence"
  PROVE  Sequential!Fence
<1>1. ~ flushRedirect /\ ~ WritesRd(dec)
  BY DEF flushRedirect, branchTaken, WritesRd
<1> QED
  BY <1>1, SameInstr, SamePc, SameWrites, SameMemory DEF Sequential!Fence

LEMMA HaltStep ==
  ASSUME Completes(NextSequential), HaltCycle
  PROVE  Sequential!Halt
<1>1. ~ flushRedirect /\ ~ WritesRd(dec) /\ dec.kind \notin {"Load", "Store"} /\ IsHalt(dec)
  BY DEF HaltCycle, IsHalt, flushRedirect, branchTaken, WritesRd
<1>2. archMode' = dec.kind
  <2>1. ~ illegalReg /\ ~ ecallReg /\ ~ ebreakReg
    BY DEF HaltCycle, Advance, active, Completes, PipeInv, CoreInv, HaltReport
  <2>2. /\ haltedReg' /\ (illegalReg' <=> dec.kind = "illegal")
        /\ (ecallReg' <=> dec.kind = "ECALL")
    BY <2>1, Zenon DEF HaltCycle
  <2> QED
    BY <1>1, <2>2 DEF IsHalt, archMode, Completes
<1> QED
  BY <1>1, <1>2, SameInstr, SamePc, SameWrites, SameMemory, SameIsHalt DEF Sequential!Halt

----------------------------------------------------------------------------
(* Every clock of an enabled core is a step of the sequential machine or   *)
(* none.                                                                   *)

\* An instruction that completes without halting the core.
LEMMA ContinueStep ==
  ASSUME NEW next, Completes(next), ~ IsHalt(dec), UNCHANGED statusVars,
         flushRedirect => next = redirectTarget
  PROVE  Sequential!WordStep
<1> DEFINE a == Sequential!DataAddress \ {0, 1}
<1>1. dec.kind \in Kinds
  BY DecFields DEF Completes, PipeInv, CoreInv
<1>2. \/ Sequential!Compute \/ Sequential!UpperImmediate \/ Sequential!RotateInsert
      \/ Sequential!Load(a) \/ Sequential!Store(a) \/ Sequential!Branch \/ Sequential!Jump
      \/ Sequential!Fence
  BY <1>1, ComputeStep, UpperImmediateStep, RotateInsertStep, LoadStep, StoreStep, BranchStep,
     JumpStep, FenceStep DEF Kinds, IsHalt
<1>3. archMode' = "running"
  BY DEF Completes, Advance, active, statusVars, archMode
<1> HIDE DEF a
<1>4. Sequential!StepAt(a)
  BY <1>2, <1>3, SameMode, SameMemory DEF Sequential!StepAt, Sequential!Continue
<1> QED
  BY <1>4 DEF Sequential!WordStep, a

\* An instruction that does not go off the lanes of a word is one of RV32I.
LEMMA OnLaneStep ==
  ASSUME NEW next, Completes(next), Sequential!WordStep
  PROVE  SequentialStep
<1>1. CASE OffLane
  BY <1>1 DEF SequentialStep
<1>2. CASE ~ OffLane /\ dec.kind \in {"Load", "Store"}
  <2>1. Sequential!DataAddress \ {0, 1} = Sequential!DataAddress
    BY <1>2, SameInstr DEF OffLane
  <2> QED
    BY <1>2, <2>1 DEF SequentialStep, Sequential!WordStep, Sequential!Step
<1>3. CASE ~ OffLane /\ dec.kind \notin {"Load", "Store"}
  <2>1. \A a : ~ Sequential!Load(a) /\ ~ Sequential!Store(a)
    BY <1>3, SameInstr DEF Sequential!Load, Sequential!Store
  <2> QED
    BY <1>3, <2>1
       DEF SequentialStep, Sequential!WordStep, Sequential!Step, Sequential!StepAt,
           Sequential!Continue
<1> QED
  BY <1>1, <1>2, <1>3

\* Before the start, and in a clock in which nothing completes.

\* A clock in which nothing completes and no load arrives.
LEMMA NoInstruction ==
  ASSUME PipeInv, MemoryClock, RegFileClock, ~ instrValid, bubbleReg \/ ~ loadPendReg
  PROVE  UNCHANGED <<regs, dmem, imem>> /\ archRegs = regs
BY DEF MemoryClock, RegFileClock, DmemAfterCore, dmem_wen, wen, PipeInv, CoreInv, NothingPending,
       archRegs, RegsAfterLoad, wenLoad

\* A halted core changes nothing that its program has left, enabled or not.
LEMMA HaltedIsStill ==
  ASSUME HaltReport, Stopped, haltedReg, Clock, MemoryClock, ~ softReset
  PROVE  UNCHANGED <<archPc, archRegs, imem, dmem>> /\ haltedReg'
<1>1. HaltedCycle \/ IdleCycle
  BY DEF Clock, BubbleCycle, StallCycle, ExecuteCycle, RedirectCycle, HaltCycle,
         SoftResetCycle, Advance, active
<1>2. /\ UNCHANGED statusVars /\ RegFileClock /\ pcExReg' = pcExReg /\ haltedReg'
      /\ ~ loadPendReg /\ ~ loadPendReg'
  <2>1. CASE HaltedCycle
    BY <2>1 DEF HaltedCycle, pcVars, loadVars, statusVars, HaltReport
  <2>2. CASE IdleCycle
    BY <2>2 DEF IdleCycle, statusVars, HaltReport
  <2> QED
    BY <1>1, <2>1, <2>2
<1>3. (~ wen \/ dec.rd = 0) /\ ~ dmem_wen
  BY DEF Stopped, Harmless, wen, dmem_wen, instrValid
<1>4. UNCHANGED <<regs, dmem, imem>> /\ archRegs = regs
  BY <1>2, <1>3
     DEF RegFileClock, MemoryClock, DmemAfterCore, archRegs, RegsAfterLoad, wenLoad
<1>5. archRegs' = archRegs /\ archPc' = archPc
  BY <1>2, <1>4 DEF archRegs, RegsAfterLoad, wenLoad, archPc
<1> QED
  BY <1>2, <1>4, <1>5

\* A clock that brings the next instruction into EX, none having completed.
LEMMA NextInStep ==
  ASSUME Advance(NextSequential), ~ flushRedirect, ~ loadPendReg'
  PROVE  archPc' = pcFetchReg /\ archRegs' = regs'
<1>1. ~ bubbleReg' /\ inStep'
  BY DEF Advance, NextSequential, inStep
<1> QED
  BY <1>1 DEF Advance, archPc, archRegs, RegsAfterLoad, wenLoad

LEMMA BubbleStutters ==
  ASSUME PipeInv, MemoryClock, BubbleCycle, enable'
  PROVE  UNCHANGED Sequential!vars
<1>1. ~ instrValid /\ ~ flushRedirect /\ bubbleReg /\ ~ haltedReg /\ RegFileClock
  BY DEF BubbleCycle, Advance, active, flushRedirect, instrValid
<1>2. UNCHANGED <<regs, dmem, imem>> /\ archRegs = regs
  BY <1>1, NoInstruction
<1>3. archPc' = archPc /\ archRegs' = archRegs
  BY <1>1, <1>2, NextInStep DEF BubbleCycle, Advance, archPc
<1>4. archMode' = archMode
  BY DEF BubbleCycle, Advance, active, statusVars, archMode
<1> QED
  BY <1>2, <1>3, <1>4 DEF Sequential!vars

\* The instruction that waits is still to be executed, with the load it waits for done.
LEMMA StallStutters ==
  ASSUME PipeInv, MemoryClock, StallCycle, enable'
  PROVE  UNCHANGED Sequential!vars
<1>1. /\ ~ instrValid /\ active /\ ~ bubbleReg /\ inStep /\ ~ haltedReg'
      /\ Advance(pcExReg) /\ pcFetchReg' = pcExReg /\ pcExReg' = pcFetchReg
  BY StallInStep DEF StallCycle, Advance, instrValid, active, statusVars
<1>2. ~ inStep'
  <2>1. pcExReg \in Data
    BY DEF PipeInv, CoreInv, PartsTypeOK, CoreTypeOK
  <2> QED
    BY <1>1, <2>1, TwoFurther DEF inStep
<1>3. archPc' = archPc
  BY <1>1, <1>2 DEF archPc
<1>4. archRegs' = archRegs
  <2>1. regs' = archRegs
    BY <1>1 DEF Advance, RegFileClock, wen, archRegs
  <2>2. ~ loadPendReg'
    BY <1>1 DEF Advance
  <2> QED
    BY <2>1, <2>2 DEF archRegs, RegsAfterLoad, wenLoad
<1>5. UNCHANGED <<dmem, imem>>
  BY <1>1 DEF MemoryClock, DmemAfterCore, dmem_wen
<1>6. archMode' = archMode
  BY <1>1 DEF StallCycle, active, statusVars, archMode
<1> QED
  BY <1>3, <1>4, <1>5, <1>6 DEF Sequential!vars

\* The first execution of the inert word behind an instruction that waited.
LEMMA ReplayStutters ==
  ASSUME PipeInv, MemoryClock, ExecuteCycle, Replay, enable'
  PROVE  UNCHANGED Sequential!vars
<1>1. /\ active /\ Advance(NextSequential) /\ ~ bubbleReg /\ ~ flushRedirect
      /\ ~ loadPendReg /\ dec.kind # "Load" /\ dec.kind # "Store"
      /\ WritesRd(dec) => dec.rd = 0
  BY InertIsQuiet DEF ExecuteCycle, Advance, instrValid, Replay
<1>2. ~ inStep
  <2>1. pcFetchReg \in Data
    BY DEF PipeInv, CoreInv, PartsTypeOK, CoreTypeOK
  <2> QED
    BY <2>1, TwoFurther DEF Replay, inStep
<1>3. regs' = regs /\ archRegs = regs
  BY <1>1 DEF Advance, RegFileClock, wen, archRegs, RegsAfterLoad, wenLoad
<1>4. archPc' = archPc /\ archRegs' = archRegs
  BY <1>1, <1>2, <1>3, NextInStep DEF Advance, active, archPc
<1>5. UNCHANGED <<dmem, imem>>
  BY <1>1 DEF MemoryClock, DmemAfterCore, dmem_wen
<1>6. archMode' = archMode
  BY <1>1 DEF ExecuteCycle, active, statusVars, archMode
<1> QED
  BY <1>4, <1>5, <1>6 DEF Sequential!vars

LEMMA ClockRefines ==
  ASSUME PipeInv, Clock, MemoryClock, ~ softReset, enable, enable'
  PROVE  [SequentialStep]_(Sequential!vars)
<1>1. CASE BubbleCycle
  BY <1>1, BubbleStutters
<1>2. CASE StallCycle
  BY <1>2, StallStutters
<1>3. CASE ExecuteCycle /\ Replay
  BY <1>3, ReplayStutters
<1>4. CASE ExecuteCycle /\ ~ Replay
  <2>1. Completes(NextSequential) /\ ~ IsHalt(dec) /\ UNCHANGED statusVars
    BY <1>4 DEF ExecuteCycle, Completes, PipeInv, InStep, Advance, instrValid
  <2> QED
    BY <1>4, <2>1, ContinueStep, OnLaneStep DEF ExecuteCycle
<1>5. CASE RedirectCycle
  <2>1. ~ Replay
    BY <1>5, InertIsQuiet DEF RedirectCycle, Replay
  <2>2. Completes(redirectTarget) /\ ~ IsHalt(dec) /\ UNCHANGED statusVars
    BY <1>5, <2>1
       DEF RedirectCycle, flushRedirect, branchTaken, IsHalt, Advance, active, statusVars,
           Completes, PipeInv, InStep, instrValid
  <2> QED
    BY <2>2, ContinueStep, OnLaneStep
<1>6. CASE HaltCycle
  <2>1. ~ flushRedirect /\ ~ Replay /\ instrValid /\ Advance(NextSequential)
    BY <1>6, InertIsQuiet DEF HaltCycle, IsHalt, flushRedirect, branchTaken, Replay
  <2>2. Completes(NextSequential)
    BY <1>6, <2>1 DEF Completes, PipeInv, InStep, Advance, instrValid
  <2>3. Sequential!WordStep
    BY <1>6, <2>2, HaltStep, SameMode, SameMemory DEF Sequential!WordStep, Sequential!StepAt
  <2> QED
    BY <2>2, <2>3, OnLaneStep
<1>7. CASE HaltedCycle
  <2>1. haltedReg /\ HaltReport /\ Stopped
    BY <1>7 DEF HaltedCycle, PipeInv, CoreInv
  <2>2. UNCHANGED <<archPc, archRegs, imem, dmem>>
    BY <2>1, HaltedIsStill
  <2>3. archMode' = archMode
    BY <1>7 DEF HaltedCycle, statusVars, archMode
  <2> QED
    BY <2>2, <2>3 DEF Sequential!vars
<1> QED
  BY <1>1, <1>2, <1>3, <1>4, <1>5, <1>6, <1>7 DEF Clock, IdleCycle, SoftResetCycle

==============================================================================
