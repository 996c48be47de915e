--------------------------------- MODULE ISA ---------------------------------
(***************************************************************************)
(* What the core promises its programs: instructions executed one at a     *)
(* time, in program order, each completely, until one of them halts.       *)
(* Nothing of the pipeline is left: no bubbles, no pending loads.  Memory  *)
(* is that of RV32I, bytes in words, lowest byte first.                    *)
(***************************************************************************)
EXTENDS Decoder

CONSTANTS
  IMEMW, DMEMW,   \* widths of a word index of the two memories
  EntryAddr       \* the addresses a program may be started at

VARIABLES pc, regs, imem, dmem, mode

vars == <<pc, regs, imem, dmem, mode>>

Mode == {"idle", "running", "illegal", "ECALL", "EBREAK"}

TypeOK ==
  /\ pc \in Data
  /\ regs \in [RegIdx -> Data]
  /\ imem \in [Word(IMEMW) -> InstWord]
  /\ dmem \in [Word(DMEMW) -> Data]
  /\ mode \in Mode

Init == TypeOK /\ pc = {} /\ mode \in {"idle", "running"}

\* The instruction at pc and its operands; register 0 reads as zero.
instr == DecodeOf[imem[Slice(pc, IMEMW + 1, 2)]]

R(i) == IF i = 0 THEN {} ELSE regs[i]

WriteRd(value) == regs' = IF instr.rd = 0 THEN regs ELSE [regs EXCEPT ![instr.rd] = value]

\* The byte address of a load or a store.
DataAddress == Add(R(instr.rs1), IF instr.kind = "Store" THEN instr.immS ELSE instr.immI)

\* Bit k of the four bytes from address a on is bit Place(a, k)[2] of the word of dmem
\* with index Place(a, k)[1]: the low two bits of a byte's address are its place in the
\* word, and bytes may reach into the next word.
Place(a, k) ==
  LET i == k + BYTE * Field(a \cap {0, 1})
  IN  IF i < XLEN THEN <<Slice(a, DMEMW + 1, 2), i>>
                  ELSE <<Slice(Add(a, Four), DMEMW + 1, 2), i - XLEN>>

\* The four bytes from address a on.
Datum(a) == {k \in Bits(XLEN) : Place(a, k)[2] \in dmem[Place(a, k)[1]]}

\* The memory after the four bytes from address a on have become those of x.
WithDatum(a, x) ==
  [w \in Word(DMEMW) |->
     {j \in Bits(XLEN) :
        \/ \E k \in x : Place(a, k) = <<w, j>>
        \/ j \in dmem[w] /\ \A k \in Bits(XLEN) : Place(a, k) # <<w, j>>}]

PcPlus4 == Add(pc, Four)

\* The host has not started the program: it may still choose the first address.
Idle ==
  /\ mode = "idle"
  /\ mode' \in {"idle", "running"}
  /\ pc' \in EntryAddr \cup {pc}
  /\ UNCHANGED <<regs, imem, dmem>>

Compute ==
  /\ instr.kind \in {"RType", "IType"}
  /\ WriteRd(ALU[AluControl(instr)][R(instr.rs1)]
                [IF instr.kind = "IType" THEN instr.immI ELSE R(instr.rs2)])
  /\ pc' = PcPlus4
  /\ UNCHANGED dmem

UpperImmediate ==
  /\ instr.kind \in {"LUI", "AUIPC"}
  /\ WriteRd(IF instr.kind = "LUI" THEN instr.immU ELSE Add(pc, instr.immU))
  /\ pc' = PcPlus4
  /\ UNCHANGED dmem

RotateInsert ==
  /\ instr.kind = "Custom"
  /\ WriteRd(CustomOp[instr.customSH][instr.customMB][instr.customME][R(instr.rs1)][R(instr.rd)])
  /\ pc' = PcPlus4
  /\ UNCHANGED dmem

Load(a) ==
  /\ instr.kind = "Load"
  /\ WriteRd(LoadData[instr.funct3][Datum(a)])
  /\ pc' = PcPlus4
  /\ UNCHANGED dmem

Store(a) ==
  /\ instr.kind = "Store"
  /\ dmem' = WithDatum(a, MergeLanes[StoreMask(instr.funct3)][Datum(a)][R(instr.rs2)])
  /\ pc' = PcPlus4
  /\ UNCHANGED regs

Branch ==
  /\ instr.kind = "Branch"
  /\ pc' = IF BranchUnit[instr.funct3][R(instr.rs1)][R(instr.rs2)] THEN Add(pc, instr.immB) ELSE PcPlus4
  /\ UNCHANGED <<regs, dmem>>

Jump ==
  /\ instr.kind \in {"JAL", "JALR"}
  /\ WriteRd(PcPlus4)
  /\ pc' = IF instr.kind = "JAL" THEN Add(pc, instr.immJ) ELSE Add(R(instr.rs1), instr.immI) \ {0}
  /\ UNCHANGED dmem

Fence ==
  /\ instr.kind = "Fence"
  /\ pc' = PcPlus4
  /\ UNCHANGED <<regs, dmem>>

\* The next-state relation of an instruction that lets the program go on, accessing memory
\* at address a if it does, ...
Continue(a) ==
  /\ Compute \/ UpperImmediate \/ RotateInsert \/ Load(a) \/ Store(a) \/ Branch \/ Jump \/ Fence
  /\ mode' = "running"

\* ... and of one that ends it.
Halt ==
  /\ IsHalt(instr)
  /\ mode' = instr.kind
  /\ pc' = PcPlus4
  /\ UNCHANGED <<regs, dmem>>

StepAt(a) ==
  /\ mode = "running"
  /\ Continue(a) \/ Halt
  /\ UNCHANGED imem

\* An instruction of RV32I: memory is addressed by bytes.
Step == StepAt(DataAddress)

\* The same on a memory that takes no notice of a byte's place in its word.
WordStep == StepAt(DataAddress \ {0, 1})

Next == Idle \/ Step

Spec == Init /\ [][Next]_vars

==============================================================================
