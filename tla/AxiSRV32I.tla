------------------------------ MODULE AxiSRV32I ------------------------------
(***************************************************************************)
(* class AxiSRV32I: the core, its memories and the AXI4-Lite register map, *)
(* one step per clock.                                                     *)
(*                                                                         *)
(* The registers carry the code's names.  enableReg, softResetReg,         *)
(* entryAddrReg and entryAddrWeReg drive the core's inputs and are the     *)
(* variables enable, softReset, entryAddr and entryAddr_we.  A holding     *)
(* register whose valid flag is clear is None: what it still contains is   *)
(* never looked at.                                                        *)
(*                                                                         *)
(* The bus master is free: in a clock in which a channel is ready it may   *)
(* or may not complete the handshake, with any address and data it has.    *)
(***************************************************************************)
EXTENDS TightMemory

CONSTANTS
  None,          \* the content of an empty holding register
  WriteAddr,     \* addresses the master writes to
  ReadAddr,      \* addresses the master reads from
  WriteData,     \* words the master writes
  WriteStrb,     \* byte strobes the master writes with
  ResetCycles,   \* p.reset_cycles: 8 in the code
  CycleLo        \* debug_cycles_lo counts modulo this: 2^32 in the code

Address == 0 .. 2^20 - 1   \* addr(19, 0)

ASSUME AxiAssumption ==
  /\ WriteAddr \subseteq Address /\ ReadAddr \subseteq Address
  /\ WriteData \subseteq InstWord /\ WriteStrb \subseteq SUBSET Lane
  /\ ResetCycles \in Nat \ {0} /\ CycleLo \in Nat \ {0}
  /\ None \notin WriteAddr /\ None \notin {"OKAY", "SLVERR"}

VARIABLES
  softResetDoneReg, resetCounterReg,
  awHoldAddrReg, wHoldReg, brespReg,                   \* write path; wHoldReg: data and strobes
  rstateReg, rdataReg, pendingImem, pendingDmem,       \* read path
  hostImemRdVec, hostDmemRdVec                         \* the host's read ports of the memories

resetVars == <<softResetDoneReg, resetCounterReg>>
writeVars == <<awHoldAddrReg, wHoldReg, brespReg>>
readVars  == <<rstateReg, rdataReg, pendingImem, pendingDmem, hostImemRdVec, hostDmemRdVec>>
axiVars   == <<controlVars, coreVars, memVars, resetVars, writeVars, readVars>>

WriteBeat == [data : WriteData, strb : WriteStrb]

RState == {"READY2READ", "WAIT_MEM", "COMPLETED"}

AxiTypeOK ==
  /\ enable \in BOOLEAN /\ softReset \in BOOLEAN
  /\ entryAddr \in Data /\ entryAddr_we \in BOOLEAN
  /\ softResetDoneReg \in BOOLEAN /\ resetCounterReg \in 0 .. ResetCycles
  /\ awHoldAddrReg \in {None} \cup WriteAddr
  /\ wHoldReg \in {None} \cup WriteBeat
  /\ brespReg \in {"OKAY", "SLVERR", None}
  /\ rstateReg \in RState /\ rdataReg \in {None} \cup Inst
  /\ pendingImem \in BOOLEAN /\ pendingDmem \in BOOLEAN
  /\ hostImemRdVec \in {None} \cup InstWord /\ hostDmemRdVec \in {None} \cup Data

TypeOK == CoreTypeOK /\ MemoryTypeOK /\ AxiTypeOK

----------------------------------------------------------------------------
(* The register map, at the addresses of SRV32IModuleParams.default().     *)

imem_depth == 2 ^ IMEMW
dmem_depth == 2 ^ DMEMW

debug_regs_base_r == 512     \* 0x0200
imem_base_rw      == 4096    \* 0x1000
dmem_base_rw      == 20480   \* 0x5000

InWindow(a, base, depth) == base <= a /\ a < base + depth * 16

\* What an address selects: a control register only by its exact address, a
\* word of a window by any address of its sixteen.
Selected(a) ==
  CASE a = 0    -> "soft_reset"
    [] a = 16   -> "enable"
    [] a = 32   -> "entry_addr"
    [] a = 48   -> "entry_addr_we"
    [] a = 64   -> "status"
    [] a = 80   -> "debug_pc"
    [] a = 96   -> "debug_cycles_lo"
    [] a = 112  -> "debug_cycles_hi"
    [] InWindow(a, debug_regs_base_r, 32)      -> "debug_regs"
    [] InWindow(a, imem_base_rw, imem_depth)   -> "imem"
    [] InWindow(a, dmem_base_rw, dmem_depth)   -> "dmem"
    [] OTHER    -> "unmapped"

RegSlot(a)  == (a - debug_regs_base_r) \div 16
ImemSlot(a) == FromInt((a - imem_base_rw) \div 16, IMEMW)
DmemSlot(a) == FromInt((a - dmem_base_rw) \div 16, DMEMW)

----------------------------------------------------------------------------
(* Write path.                                                             *)

\* A mutant: a write waits for the answer of the one before instead of its absence.
doWriteWhileAnswering == awHoldAddrReg # None /\ wHoldReg # None /\ brespReg # None

doWrite == awHoldAddrReg # None /\ wHoldReg # None /\ brespReg = None

\* A complete write of the register or window r is performed in this clock.
Writes(r) == doWrite /\ wHoldReg.strb = Lane /\ Selected(awHoldAddrReg) = r

hostWritesImem == Writes("imem") /\ ~ enable

\* A mutant: the window of dmem open while the core is enabled.
HostWritesDmemAlways == Writes("dmem")

hostWritesDmem == Writes("dmem") /\ ~ enable

bresp ==
  IF \/ \E r \in {"soft_reset", "enable", "entry_addr", "entry_addr_we"} : Writes(r)
     \/ hostWritesImem \/ hostWritesDmem
  THEN "OKAY" ELSE "SLVERR"

\* One clock of the write channels, on which the master offers the addresses aw
\* and the beats w; it may always wait, also before it takes the answer.
WritePath(aw, w) ==
  /\ awHoldAddrReg' \in IF doWrite THEN {None}
                        ELSE IF awHoldAddrReg = None /\ brespReg = None
                        THEN {None} \cup aw ELSE {awHoldAddrReg}
  /\ wHoldReg' \in IF doWrite THEN {None}
                   ELSE IF wHoldReg = None /\ brespReg = None
                   THEN {None} \cup w ELSE {wHoldReg}
  /\ brespReg' \in IF doWrite THEN {bresp} ELSE {brespReg, None}

\* A mutant: soft_reset reads 1 while the reset is under way.
SoftResetFsmDone ==
  IF Writes("soft_reset")
  THEN softReset' = TRUE /\ resetCounterReg' = ResetCycles /\ UNCHANGED softResetDoneReg
  ELSE IF resetCounterReg > 0
  THEN resetCounterReg' = resetCounterReg - 1 /\ UNCHANGED <<softReset, softResetDoneReg>>
  ELSE softReset' = FALSE /\ softResetDoneReg' = TRUE /\ UNCHANGED resetCounterReg

\* A mutant: the counter is decremented once too often.
SoftResetFsmBelowZero ==
  IF Writes("soft_reset")
  THEN softReset' = TRUE /\ softResetDoneReg' = FALSE /\ resetCounterReg' = ResetCycles
  ELSE IF softReset
  THEN /\ resetCounterReg' = resetCounterReg - 1
       /\ softReset' = (resetCounterReg > 0) /\ softResetDoneReg' = (resetCounterReg = 0)
  ELSE softReset' = FALSE /\ softResetDoneReg' = TRUE /\ UNCHANGED resetCounterReg

\* A write starts the reset anew, also while it is under way.
SoftResetFsm ==
  IF Writes("soft_reset")
  THEN softReset' = TRUE /\ softResetDoneReg' = FALSE /\ resetCounterReg' = ResetCycles
  ELSE IF resetCounterReg > 0
  THEN resetCounterReg' = resetCounterReg - 1 /\ UNCHANGED <<softReset, softResetDoneReg>>
  ELSE softReset' = FALSE /\ softResetDoneReg' = TRUE /\ UNCHANGED resetCounterReg

ControlRegisters ==
  /\ enable' = IF Writes("enable") THEN 0 \in wHoldReg.data ELSE enable
  /\ entryAddr' = IF Writes("entry_addr") THEN Truncate(wHoldReg.data, XLEN) ELSE entryAddr
  /\ entryAddr_we' = (Writes("entry_addr_we") /\ 0 \in wHoldReg.data)

----------------------------------------------------------------------------
(* The memories with the host's ports.  Two writes of one word in a clock, *)
(* and a read of a word that is being written, have either outcome.        *)

HostStore(m) ==
  IF hostWritesDmem
  THEN [m EXCEPT ![DmemSlot(awHoldAddrReg)] = Truncate(wHoldReg.data, XLEN)] ELSE m

CoreStore(m) ==
  IF dmem_wen
  THEN [m EXCEPT ![DmemWordAddr(dmem_addr)] = MergeLanes[dmem_wmask][@][dmem_wdata]] ELSE m

SharedMemories ==
  /\ imem' = IF hostWritesImem
             THEN [imem EXCEPT ![ImemSlot(awHoldAddrReg)] = wHoldReg.data] ELSE imem
  /\ dmem' \in {HostStore(CoreStore(dmem)), CoreStore(HostStore(dmem))}
  /\ LET i == ImemWordAddr(imem_addr) IN inst' \in {imem[i], imem'[i]}
  /\ LET i == DmemWordAddr(dmem_addr)
     IN  rdata' \in IF dmem_wen THEN UndefinedRead ELSE {dmem[i], dmem'[i]}

----------------------------------------------------------------------------
(* Read path.                                                              *)

StatusWord ==
  {i \in 0 .. 3 : CASE i = 0 -> active [] i = 1 -> haltedReg
                    [] i = 2 -> illegalReg [] i = 3 -> ecallReg}

\* rdataReg for a request that needs no memory.
RegisterRead(a) ==
  CASE Selected(a) = "soft_reset"      -> Flag(softResetDoneReg)
    [] Selected(a) = "enable"          -> Flag(enable)
    [] Selected(a) = "entry_addr"      -> entryAddr
    [] Selected(a) = "entry_addr_we"   -> Flag(entryAddr_we)
    [] Selected(a) = "status"          -> StatusWord
    [] Selected(a) = "debug_pc"        -> pcExReg
    [] Selected(a) = "debug_cycles_lo" -> FromInt(cycleReg % CycleLo, 32)
    [] Selected(a) = "debug_cycles_hi" -> FromInt(cycleReg \div CycleLo, 32)
    [] Selected(a) = "debug_regs"      -> RegRead(RegSlot(a))
    [] Selected(a) = "unmapped"        -> {20, 22, 23, 25, 27, 28, 29, 31} \cup FromInt(a, 20)

NoHostRead == hostImemRdVec' = None /\ hostDmemRdVec' = None

\* No request is outstanding and none arrives.
ReadIdle ==
  /\ rstateReg = "READY2READ"
  /\ UNCHANGED <<rstateReg, rdataReg, pendingImem, pendingDmem>> /\ NoHostRead

\* arFire for a register.
ReadRegister(a) ==
  /\ rstateReg = "READY2READ" /\ Selected(a) \notin {"imem", "dmem"}
  /\ rstateReg' = "COMPLETED" /\ rdataReg' = RegisterRead(a)
  /\ UNCHANGED <<pendingImem, pendingDmem>> /\ NoHostRead

\* arFire for a word of a memory, whatever enable is.
ReadImem(a) ==
  /\ rstateReg = "READY2READ" /\ Selected(a) = "imem"
  /\ rstateReg' = "WAIT_MEM" /\ pendingImem' = TRUE /\ pendingDmem' = FALSE
  /\ hostImemRdVec' \in {imem[ImemSlot(a)], imem'[ImemSlot(a)]} /\ hostDmemRdVec' = None
  /\ UNCHANGED rdataReg

ReadDmem(a) ==
  /\ rstateReg = "READY2READ" /\ Selected(a) = "dmem"
  /\ rstateReg' = "WAIT_MEM" /\ pendingImem' = FALSE /\ pendingDmem' = TRUE
  /\ hostDmemRdVec' \in {dmem[DmemSlot(a)], dmem'[DmemSlot(a)]} /\ hostImemRdVec' = None
  /\ UNCHANGED rdataReg

\* A mutant: the word read from dmem is not captured.
ReadCaptureImemOnly ==
  /\ rstateReg = "WAIT_MEM"
  /\ rstateReg' = "COMPLETED"
  /\ rdataReg' = IF pendingImem THEN hostImemRdVec ELSE rdataReg
  /\ pendingImem' = FALSE /\ pendingDmem' = FALSE /\ NoHostRead

\* The word read in the clock before is captured.
ReadCapture ==
  /\ rstateReg = "WAIT_MEM"
  /\ rstateReg' = "COMPLETED"
  /\ rdataReg' = IF pendingImem THEN hostImemRdVec
                 ELSE IF pendingDmem THEN hostDmemRdVec ELSE rdataReg
  /\ pendingImem' = FALSE /\ pendingDmem' = FALSE /\ NoHostRead

\* The answer waits for rready, or is taken.
ReadHeld ==
  /\ rstateReg = "COMPLETED"
  /\ UNCHANGED <<rstateReg, rdataReg, pendingImem, pendingDmem>> /\ NoHostRead

ReadTaken ==
  /\ rstateReg = "COMPLETED"
  /\ rstateReg' = "READY2READ" /\ rdataReg' = None
  /\ UNCHANGED <<pendingImem, pendingDmem>> /\ NoHostRead

----------------------------------------------------------------------------

AxiInit ==
  /\ enable = FALSE /\ softReset = FALSE /\ entryAddr = {} /\ entryAddr_we = FALSE
  /\ imem \in Programs /\ PowerUpCore
  /\ softResetDoneReg = FALSE /\ resetCounterReg = 0
  /\ awHoldAddrReg = None /\ wHoldReg = None /\ brespReg = None
  /\ rstateReg = "READY2READ" /\ rdataReg = None
  /\ pendingImem = FALSE /\ pendingDmem = FALSE
  /\ hostImemRdVec = None /\ hostDmemRdVec = None

\* One clock of everything but the read path.
AxiClock(aw, w) ==
  Clock /\ SoftResetFsm /\ ControlRegisters /\ SharedMemories /\ WritePath(aw, w)

==============================================================================
