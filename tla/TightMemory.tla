----------------------------- MODULE TightMemory -----------------------------
(***************************************************************************)
(* The instruction and data memories of AxiSRV32I.scala and the ports that *)
(* connect them to the core.  Both are SyncReadMem: the address is taken   *)
(* in one cycle, the word read is there in the next.                       *)
(***************************************************************************)
EXTENDS SRV32I

CONSTANTS
  IMEMW,          \* width of a word index of imem: log2(imem_depth), 9 in the code
  DMEMW,          \* width of a word index of dmem: log2(dmem_depth), 8 in the code
  UndefinedRead,  \* what dmem may show after a cycle in which its read was disabled
  Programs,       \* contents of imem at power-up
  PowerUpRegs,    \* the same for the register file, dmem, the read port of imem and
  PowerUpDmem,    \* the registers without an initial value: all undefined in the code
  PowerUpInst,
  PowerUpRd,
  PowerUpF3

ASSUME MemoryAssumption ==
  /\ IMEMW \in Nat /\ DMEMW \in Nat
  /\ UndefinedRead \subseteq Data /\ UndefinedRead # {}

VARIABLES imem, dmem

memVars == <<imem, dmem, inst, rdata>>

ImemIndex == Word(IMEMW)
DmemIndex == Word(DMEMW)

MemoryTypeOK ==
  /\ imem \in [ImemIndex -> InstWord] /\ inst \in InstWord
  /\ dmem \in [DmemIndex -> Data] /\ rdata \in Data

\* addr >> 2, of which the memory takes the bits it has an index for: a byte
\* offset within a word and an address beyond the memory are not noticed.
ImemWordAddr(addr) == Slice(addr, IMEMW + 1, 2)
DmemWordAddr(addr) == Slice(addr, DMEMW + 1, 2)

ASSUME PowerUpAssumption ==
  /\ Programs \subseteq [ImemIndex -> InstWord]
  /\ PowerUpRegs \subseteq [RegIdx -> Data]
  /\ PowerUpDmem \subseteq [DmemIndex -> Data]
  /\ PowerUpInst \subseteq InstWord
  /\ PowerUpRd \subseteq RegIdx
  /\ PowerUpF3 \subseteq 0 .. 7

\* RegInit values; everything without one is open.
PowerUpCore ==
  /\ pcFetchReg = {} /\ pcExReg = {} /\ bubbleReg = TRUE
  /\ loadPendReg = FALSE /\ loadPendRdReg \in PowerUpRd /\ loadPendF3Reg \in PowerUpF3
  /\ haltedReg = FALSE /\ illegalReg = FALSE /\ ecallReg = FALSE /\ ebreakReg = FALSE
  /\ cycleReg = 0
  /\ regs \in PowerUpRegs
  /\ inst \in PowerUpInst
  /\ dmem \in PowerUpDmem /\ rdata \in UndefinedRead

\* A mutant: the fetch of the next cycle's address.
FetchPortAhead == inst' = imem[ImemWordAddr(pcFetchReg')]

\* imem.read(imemWordAddr): enabled in every cycle.
FetchPort == inst' = imem[ImemWordAddr(imem_addr)]

\* dmem.read(dmemWordAddr, !wen).
LoadPort ==
  rdata' \in IF dmem_wen THEN UndefinedRead ELSE {dmem[DmemWordAddr(dmem_addr)]}

\* dmem after dmem.write(dmemWordAddr, wdata, wmask), if the core stores.
DmemAfterCore ==
  IF dmem_wen
  THEN [dmem EXCEPT ![DmemWordAddr(dmem_addr)] = MergeLanes[dmem_wmask][@][dmem_wdata]]
  ELSE dmem

\* A clock in which nothing but the core uses the memories.
MemoryClock ==
  /\ FetchPort
  /\ LoadPort
  /\ dmem' = DmemAfterCore
  /\ UNCHANGED imem

==============================================================================
