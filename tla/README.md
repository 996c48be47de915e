# SRV32I in TLA+

A verification development for the repository: the SRV32I core (RV32I, two-stage
pipeline, written in Chisel), its AXI4-Lite wrapper, the Python bridge through which
testbenches drive it, the test programs, and the scripts that compile programs and
generate testbenches and bridges. The modules are checked with TLC on small instances,
and the central theorems are proved with TLAPS for all values of the constants.

File names are those of the repository: `SRV32I.scala` and `AxiSRV32I.scala` in
`src/main/scala/srv32i/`, the bridge, the testbenches, `rv32i_compile.py` and
`gen_tb.py` in `gwtests/`, `benchgen.py` in `scripts/`.

## 1. The system

    testbench  --->  SRV32I_Bridge  --->  AxiSRV32I  --->  SRV32I (core)
    (gwtests)        (srv32i_bridge.py)   (register map)   IF / EX pipeline
                     run, setEntry,       imem, dmem,      Decoder, RegFile,
                     waitForHalt          soft reset       ALU, BranchUnit, ...
        ^
        | programs, testbenches
    rv32i_compile.py (gcc, objcopy)    gen_tb.py, benchgen.py (a language model, git)

| component | state | operations | what makes it correct |
|---|---|---|---|
| ALU, BranchUnit, MemAccess, CustomOp | none | combinational | agree with RV32I arithmetic; rlwimi inserts exactly its field |
| Decoder | none | combinational | each format comes apart into its operands; one kind per word, everything else illegal |
| SRV32I pipeline and RegFile | fetch and EX PCs, bubble, pending load, halt causes, cycle count, registers | one clock: bubble, stall, execute, redirect, halt, halted, idle, soft reset | every instruction once, in order, with all its effects; halt cause reported once; nothing moves in an empty pipeline |
| AxiSRV32I | control registers, holding registers of the write channels, read state, reset counter, imem, dmem | write path, read path, reset logic, all in every clock | no host write meets a core access; answers are fresh; "reset done" means done |
| SRV32I_Bridge and testbenches | accesses still to be made, status, results | run, softReset, loadProg, waitForHalt, readReg, readPC, readCycles, readData, writeData | a run returns the result of its program or the right exception, and returns at all |
| test programs | none | the programs of seven tests | each halts and leaves what its test asserts |
| rv32i_compile.py | its variables, a temporary directory and file | find a compiler, write sources, gcc, objcopy, read, remove, unpack | the words are those of this source; nothing is left behind |
| gen_tb.py, benchgen.py | their variables, files of the current directory | read arguments and inputs, ask twice, take the answers apart, write files | program, checks, bridge and testbench belong together; a failure destroys no test |

Interaction is by wires inside a clock (core, memories, register map), by handshakes
between the host and the register map, and by the order of accesses in the bridge.
What is hard: two instructions in flight, of which one may stall or be squashed; a
pending load that lands a clock later; control inputs that change in any clock; two
users of each memory; independent handshakes of address, data and answer; a host that
polls a core that may be halted, paused, still executing an earlier program or in reset;
scripts that share directories with other processes and the user, and whose tools and
answers fail in the middle. `PROJECT.json` lists each hazard
at its line with the properties that would catch it.

Not modelled, and why:

- Verilog emission, the JSON of module parameters, debug printing, the build and the
  continuous integration: no run-time behaviour. The parameters the emission writes are
  the addresses that `AxiSRV32I` has.
- GarageWorks (`COCOTB_Bridge`, `AxiLite32IO`) is a package that the repository takes from
  PyPI and Maven (its `README.md`, `build.sbt:16`) and does not contain: its `writeWord`, `readWord` and `softReset` are modelled as `srv32i_bridge.py` and the
  comment at `AxiSRV32I.scala:11` use them, and are marked external. Its `setup()`, the
  simulator and what a second `@cocotb.test` in one simulation finds are not.
- gcc, objcopy, git and the language model: external. A compiler takes a file in the
  language of its suffix and may fail; objcopy keeps the code; an answer to
  `gen_tb.py` has no text, or one with or without its fences, perhaps behind a block of
  another type; one to `benchgen.py` is any list of file blocks, the bridge, the testbench,
  the Makefile and a further file in any order, a name several times or not at all, the last
  block perhaps cut off by `max_tokens`. An unclosed block in the middle of an answer is not
  modelled.
- The wording of prompts and messages, and of the long instructions to the model in
  `benchgen.py`, which have no effect on what the script does with the answer: neither
  script checks that the answer is what its prompt asks for, and no answer is left out for
  not being that.
- A process that is killed, and an interrupt outside of the waits for gcc, objcopy, git
  and answers.

## 2. The modules

| module | models |
|---|---|
| `Words` | machine words as sets of the positions of their 1 bits; slices, shifts, addition by carries, comparison |
| `Datapath` | `ALU`, `BranchUnit`, `MemAccess`, `CustomOp` |
| `Decoder` | `class Decoder`, `aluCtrl`, `writesRd` |
| `SRV32I` | `class SRV32I` and `RegFile`: wires as definitions, registers as variables, one action per kind of clock |
| `TightMemory` | imem and dmem as `SyncReadMem`, with the core's ports |
| `ISA` | the abstract machine: one whole instruction per step, on a memory of bytes as RV32I has it (`Step`), or of words (`WordStep`) |
| `CoreContract` | what `CoreSystem` and `SRV32IBridge` both state of the core: label and halt report, prepared programs, the refinement mapping to `ISA`, what a clock does to it (`SequentialStep`) |
| `CoreSystem` | core and memories under free control inputs (`Spec`), or during one run (`RunSpec`, `AnyRunSpec`) |
| `AxiSRV32I` | `class AxiSRV32I`, clock by clock, around the core of `SRV32I` |
| `AxiSystem` | `AxiSRV32I` under an arbitrary bus master |
| `SRV32IBridge` | `AxiSRV32I` under a host that calls the methods of `SRV32I_Bridge` |
| `Scripts` | what the three scripts share: statements, exceptions and their unwinding, temporary names, files |
| `Compile` | `rv32i_compile.py` |
| `GenTb` | `gen_tb.py` |
| `BenchGen` | `benchgen.py` |
| `Tools` | the three side by side, with a user who edits their input |
| `DatapathReference`, `DecoderReference` | reference definitions for the combinational modules |
| `Asm`, `Testbenches`, `PipelineHazards` | instruction words, the repository's programs and assertions, programs that show the findings |
| `DatapathTheorems`, `ArithmeticTheorems`, `ClockTheorems`, `CoreTheorems`, `DecoderTheorems`, `AxiTheorems`, `BridgeTheorems`, `ToolTheorems` | proofs |
| `MC...` | constants for TLC |

How state corresponds. Variables have the names of the code's registers. `inst` and
`rdata` are the registered outputs of the two memories. `enable`, `softReset`,
`entryAddr`, `entryAddr_we` are the core's inputs: free in `CoreSystem`, and in
`AxiSRV32I` the registers `enableReg` and so on that drive them. A valid flag and its
holding register are one variable that is `None` when the flag is clear. The flags
`isRType .. illegal` of `DecodedInst` are one field `kind`, since at most one is set.

How actions correspond. A step of `SRV32I!Clock` is a clock edge. The nested `when`s of
the pipeline advance (lines 443-485) become eight actions whose guards are disjoint and
together always true; each writes every register of the core. The register file and
the data memory are written in *every* action, halted and paused ones included, because
their write enables do not depend on `active` in the code. `AxiClock` conjoins this
clock with the write path, the reset logic, the control registers and the memories,
and each read action with it: everything in the wrapper happens in the same clock.

The host is a list of accesses (`todo`): every method of the bridge is a sequence of
them, `run` the concatenation of its calls, and a job is a run with what a testbench does
before and after it. An access is carried out in the clocks it takes: address and data of a
write in any order, then its answer; a read request, then its answer. The checks are
attached to accesses: `loadProg` insists on the word it wrote, `waitForHalt` polls and
gives up, `run` asserts a clean halt after its last write. An exception ends the job, and
the testbench catches it and goes on with the next on the board as it is.

The scripts are processes that execute one statement per step, `at` names the next one and
`local` holds the variables. An exception continues at the `finally` or the end of the
`with` that the process is in (`Unwind`), as Python does. Files of the current directory and
of the temporary directory are shared. A source text is what code and compiler distinguish
in it (language, braces, bytes of code, other bytes, whether it links); an answer is its
blocks; a generated file is what it was generated from, so that properties can follow it.

Undefined behaviour is a choice: what a disabled dmem read shows (`UndefinedRead`),
power-up contents (`PowerUp...`), a read of a word being written, two writes of one word.

## 3. What is checked

Runs that pass:

| run | question | instance |
|---|---|---|
| `datapath` | do the combinational blocks compute RV32I's arithmetic and rlwimi's field? | all pairs of 4-bit words, all fields |
| `decoder` | does each format decode to what it was assembled from, and which opcodes are accepted? | 32-bit words, four registers, six immediates (zero, the largest and smallest, -1, alternating bits), all 128 opcodes |
| `testbenches` | do the repository's programs pass their tests? | all seven: the four given as words, `loop.s`, the embedded assembly and `sum.c` as compiled; full 32-bit core |
| `core_env` | pipeline invariants under any sequence of enable, reset and entry writes | 108 programs of three words (load, its user, store, jump, halt, illegal), 4-bit registers |
| `core_isa` | does a run of a prepared program equal a run of the sequential machine, and does it go on? | three free words out of thirteen (seven in the third place) before a fixed tail, among them words that stall on a register and on the bits of an immediate; 8-bit registers, eight words of imem, two of dmem |
| `axi` | host and core on shared memories, reset logic, freshness of answers | one word of each memory, 4-bit registers, two data words, a full and a partial strobe |
| `host` | does the bridge's protocol execute each program as the sequential machine does, deliver the right results or exceptions, and end? | six jobs, 8-bit core: a program that never halts; a loop with its entry behind a halting word, before which a store into dmem is refused because the core is still enabled; a run without a reset; an illegal word under `check_halt`; EBREAK without it; load, add (which stalls), store on preloaded data, in the second word of dmem |
| `tools` | do the scripts keep together what belongs together, and clean up? | two processes, ten compilations, four command lines of each generator, six kinds of tools, two names for each temporary object, one edit of each input, all answers of up to two files |

Properties, beyond the type invariants:

- `LabelTracksInst`: `pcExReg` labels the word that imem shows.
- `OperandsSettled`: no instruction takes effect while a register it needs or writes is
  still to receive an earlier load.
- `HaltReport`, `HaltReportStays`: a halted core has one cause, no load under way, and
  keeps what the host polls until a soft reset.
- `EmptyIsQuiet`: with EX empty neither registers nor dmem change.
- `ImplementsISA`: refinement of the sequential machine. A load counts as done when it
  leaves EX, although its register is written a clock later (`archRegs`); the machine is at
  the instruction that waits, while behind a stall EX shows the word after it (`archPc`).
  Loads and stores address bytes, as RV32I has it, unless the address is not that of a word
  (`OffLane`), where `SequentialStep` has what the memories do. The exception is a
  divergence, listed below.
- `KeepsExecuting`: an active core always completes another instruction of its program,
  through squashed instructions, stalls and what is executed a second time behind a stall.
- `HostOwnsMemory`: a host write never happens beside an instruction in EX or a load.
- `ResetReport`: "done" is read only after the reset, and a reset leaves the core initial.
- `ReadIsFresh`: an answer is the content at or right after the request.
- `RunsEndAsExpected`, `ResultsAreTheProgram`, `CyclesBelongTogether`, `TestbenchEnds`: how
  each `run()` ends and what is found after it, for every bus timing. After a reset that is
  what the job's program makes of the registers and of the data that are there, the stores
  that were refused missing. After the job without a reset it is not: the halted core
  executes nothing of the program, `run` returns the status of the run before, its assertions
  pass, and the testbench finds the results of the run before. The property states what the
  code does in that job; that it is not what the documentation of `run` says is listed below.
- `ResultsAreOneState`: what the testbench gets of a run in six accesses (status, cycle count,
  register, PC, data) is one state of the board, although the status is polled before the
  write that disables the core, and words behind the halt are executed until then.
- `RunsAreSequential`: from the write that enables the core to the last look at what it has
  left, the board is the sequential machine: the run starts at its entry address with the
  registers, program and data the host has put or left there, each clock of the enabled core
  is a step of `ISA` or none, and the halted machine stays as it is while the host polls,
  disables the core and reads.
- `ProgramIsWhole`: an enabled core that is not halted has the whole program of the job under
  way, also when the job before left it executing.
- `TestsPass`: every assertion of the seven tests, within the cycles they can take.
- `NothingLeftBehind`: temporary objects belong to a running process, on every path.
- `WordsAreOfSource`: compiled words are the code of this call's source, with startup code for
  C, low byte first, padded; whatever a process next to it compiles.
- `TestIsOfOneSpec`: both parts of a generated test have one origin, with edits in between.
- `TestbenchIsOfItsBridge`: so have a generated testbench and the bridge on disk, with edits,
  drafts, further files and cut-off answers, when the first answer begins with the bridge
  and the second brings none. `first_file` shows that the first condition is needed: a bridge
  in the second place of its answer is enough for a testbench of something else.
- `FailureKeepsTests`: a generator that fails has not touched the testbench that was there,
  except for test files that the first answer of `benchgen.py` brings itself, which are
  written before the second question (`benchgen.py:394-395`).

`ImplementsISA`, `KeepsExecuting` and `RunsAreSequential` are stated for *prepared* programs
only, the last for the whole content of imem, words of earlier programs included:

- `StallPadded`: behind a word that stalls there is an inert one, which computes nothing but
  register 0 (`Inert`). It is executed before the word that waits, and again after it. A word
  stalls when its rs1, rs2 or written rd *field* is the register of a load right before it
  (`Conflict`), as in `SRV32I.scala:356-358`: the bits of an immediate are enough, and so
  `lw x4; addi x5,x0,4` is not prepared unless an inert word follows, although it uses no
  loaded register.
- `HaltPadded`: two words that neither store nor write a register behind every halting word.

What happens to other programs is shown by the runs `stall` and `halt_shadow` below: this
is what a program has to observe on this core, not what the documentation says it has to.
The runs contain programs that stall, on registers and on immediates, loads at distance
two, jumps into jumps, and stores behind jumps.

Runs that find a violation, each a statement of the source's own comments or notes:

| run | statement | what happens |
|---|---|---|
| `stall` | only an instruction that reads or writes the loaded register stalls, shows up again next cycle and goes on after one (`SRV32I.scala:285-286`, `:449-450`, `NOTES.md:14-15`) | `lw x1; lui x3; lw x2`: the rs1 and rs2 bits are compared in every format, so the lui stalls on its immediate; `pcExReg` and imem have moved on, so that the second lw is executed before it; the lui comes back, stalls on that load, and the two take turns for ever |
| `halt_shadow` | ECALL is the halt instruction (`NOTES.md:7`) | the word behind ECALL stays valid in EX of the halted core: its store or register write is performed, again in every clock |
| `mask_width` | width is 1..32 (`SRV32I.scala:203`) | 0 for MB = 0, ME = 31: rlwimi of the whole word leaves rd unchanged |
| `first_file` | the testbench is "for that bridge" (`benchgen.py:7-9`) | `bridge_src` is the first file of the answer, whatever its name (line 396): with notes in front the testbench is one of the notes |

Other divergences from the documentation show in runs that pass:

- rlwimi is not "decoded but stubbed (passthrough of rd, no computation)"
  (`NOTES.md:33-34`, `:42`): `RlwimiInsertsField` says that it computes the rotated field.
- RV32I loads and stores (`NOTES.md:5`) address bytes. Here the low two address bits are
  dropped (`AxiSRV32I.scala:161`) and byte and halfword accesses are made at the start of
  the word: `lb` of byte 1 loads byte 0. `ImplementsISA` holds of the core only with the
  exception `OffLane`.
- `readData` and `writeData` do not take a "byte address" (`gen_tb.py:24`): the window has a
  word per sixteen addresses. What the last job of `host` loads and stores at byte address 4
  the testbench writes and reads at 16 (`SecondWord`, `ResultsAreTheProgram`).
- `run` does not always execute the program it loads, and the PC after it need not point
  past that program's ECALL (`gen_tb.py:19-23`): without a reset the core is still halted,
  and status, PC and results are those of the run before (third job of `host`,
  `ResultsAreTheProgram`).
- The register map comment says that the memories are "accessible only while enable=0"
  (`AxiSRV32I.scala:28-34`), but only writes are refused; `ReadIsFresh` covers what such a
  read returns.

Each property of a passing run is tested the other way round by a mutant: a definition
of the model replaced by a plausible bug, for which TLC finds the property violated.

### Bounds, and why they are enough

- Word width 4 or 8 instead of 32 (`XLEN`, `SHAMTW`, `BYTE` keep the code's ratios):
  the blocks are uniform in the bit position; what `datapath` checks is proved at the
  widths 4, 8, 16 and 32, and `testbenches` and `decoder` run at 32. Instruction words always have 32 bits.
- imem of 1 to 16 words, dmem of 1 or 2: a pipeline hazard involves at most a load, its
  successor and the word behind it; wrap-around of addresses is included.
- `CycleMod` 1 to 8192 instead of 2^64: the counter influences nothing else, and is longer
  than any program that halts. `CycleLo` 8 in `host`, so that a run passes the boundary
  between the two halves.
- `ResetCycles` 1 or 3 instead of 8: the values that differ are "none left" and "some left".
- `Timeout` 8 polls in `host`: enough for every program that halts under every bus timing.
- `TestSpec` enables the core until it has halted, as a host does that polls fast, and
  disables it then. `sum.c` has no words behind its startup code's ECALL that a longer
  enabled time would leave alone: the words of `main` move the stack pointer in the halted
  core, after everything the test reads has been stored.
- `tools`: two processes and two temporary names of each kind, so that names can be taken,
  free or, in the mutant, shared. Files have at most five bytes of code, enough for a whole
  word and a padded one. An answer to `benchgen.py` has at most two files
  (`MaxBlocks`): two are enough for a draft and its final text, for a file in front of or
  behind the bridge, and for a closed file before one that is cut off. The run may stop: the
  scripts end (`CHECK_DEADLOCK FALSE`). Its properties are proved without these bounds, for
  any `MaxBlocks` among them.
- `host` has eight words of imem, so that its longest program fills them and shorter ones lie
  among leftovers; imem is prepared in every state in which the core is enabled, so that
  `RunsAreSequential` speaks of every run.
- `core_isa` and `host` have zeros or defined words behind the programs: the two words
  behind a halt are part of the program (`HaltPadded`).
- `axi` starts from one power-up content of registers and dmem, with two programs; its safety
  properties other than the types are proved for all.

### Fairness

- `RunSpec` and `AnyRunSpec`: weak fairness of the clock (`RunNext`). The clock is free
  running and some action is always enabled. With `enable` only going up, this says
  nothing about the host ever starting the core, so `KeepsExecuting` is stated from an
  active core.
- `FairSpec` in `SRV32IBridge`: weak fairness of a clock in which the access under way goes
  on (`Advances`): a handshake is made, a write performed, or a word captured. `writeWord`
  and `readWord` are awaited one after the other, so a cocotb master keeps valid or ready
  asserted until the handshake, and the clock is free running. Nothing is assumed of the
  core's progress: that it halts before the timeout follows.
- `AxiSystem` and `Tools` have no fairness: their properties are safety. Whether a compiler
  or a model ever answers is not for the scripts to say.

## 4. What is proved

Assumptions: those named in the modules, which TLC evaluates in the runs.

- `DatapathAssumption` fixes the ratio of the three widths at 4, 8, 16 or 32 bits;
  `DecoderAssumption`, `CycleAssumption`, `MemoryAssumption`, `PowerUpAssumption`
  and `AxiAssumption` say that the other constants are sets of the right kind,
  `CoreSystemAssumption` (in `CoreContract`) that entry addresses are words. Sizes of memories, programs, power-up contents and entry addresses are
  arbitrary.
- `OperandAssumption`: the registers and immediates assembled are numbers of five and twelve
  bits.
- `BridgeAssumption`: the jobs are a list of jobs of any length, the timeout is a positive
  number of polls, and every program fits into imem (`Fits`). `loadProg` does not check
  the length: the words of a longer program go to addresses behind the window, which no
  memory answers, so that its verification fails and such a program is not enabled. The window
  of imem lies below that of dmem, as in the default parameters (0x1000 and 512
  words of 16 addresses, below 0x5000), and the entry addresses are those of the jobs.
- `ScriptsAssumption`: no temporary file has the name `None`. `CompileAssumption`: the startup
  code consists of bytes. `BenchGenAssumption`: `MaxBlocks`, the
  number of files an answer has at most, is a natural number.
- `ToolsAssumption`: scripts that run side by side write different files, the user edits what
  the generators read and not what they write or what the compiler reads, and sources are
  compiled to bytes. Without the first, two `gen_tb.py` for one test name, or two
  `benchgen.py` in one directory (both write `Makefile`), overwrite each other's files, and
  none of the properties of generated files could hold; the scripts take no lock.

`DatapathTheorems` holds the typing lemmas of every combinational block (that shifts,
sums, masks, sign extension and the fields of an instruction stay within their widths).

`ClockTheorems` does the same for one clock of the core and its memories, whatever drives
the control inputs: one lemma per port (`RegsAfterLoadType`, `RegFileType`, `MemoryType`,
`AdvanceType`), combined by the kind of clock in `ClockType`. The core alone, the core
behind its register map and the core under the host all rest on it, and likewise on what a clock
does to label, halt report and pending load (`LabelClock`, `HaltReportClock`,
`NothingPendingClock`), and on the refinement of a clock:

- `PipeInv` is what the pipeline needs on a prepared program. Either fetch is one instruction
  ahead of EX (`inStep`), and if the instruction in EX has to wait for a load the word being
  fetched is inert; or EX shows such an inert word and fetch is going back to the instruction
  that waits (`Replay`): together `InStep`. What a halted core shows in EX now and after its
  next fetch is harmless (`Stopped`); a core that is not enabled is emptied
  (`EmptyWhileIdle`). A clock without a reset keeps it (`PipeInvClock`). `StallPadded` is
  needed in `FillsInStep`, where a load and the word behind it come into the pipeline, and
  `HaltPadded` in `HaltStops`, and neither anywhere else: these two are what the pipeline asks
  of a program. From `inStep` a stall leads to `Replay` (`StallReplays`), and from there the
  next clock back to `inStep`, with the load no longer pending. An inert word behind
  a stall, with no load pending, neither waits, redirects nor halts (`InertIsQuiet`).
- One lemma per instruction of `ISA` shows that a clock that completes an instruction of its
  kind is that step (`ComputeStep` .. `HaltStep`). They share what the sequential machine
  sees of such a clock: the instruction, the operands, the next PC, the writes (`SameInstr`,
  `SameOperands`, `SamePc`, `SameWrites`). `Load` and `Store` are shown for the address
  without its low two bits, where the four bytes addressed are those of one word
  (`PlaceInWord`, `SameAddress`); `OnLaneStep` makes of that a step of RV32I unless the
  access goes off the lanes. `ClockRefines` goes through the kinds of clock; a bubble, a stall,
  the first execution of the inert word and a halted clock are stutters (`BubbleStutters`,
  `StallStutters`, `ReplayStutters`, `HaltedIsStill`).
- `ISA` extends the decoder and the datapath too, and an instance's definitions are other
  definitions to the prover: the lemmas before say that the two computations are the same.

`CoreTheorems`:

- `TypeCorrect`: `Spec => []TypeOK`. `TypeOK` is inductive, by `ClockTheorems`.
- `LabelCorrect`: inductive by itself, given that an empty EX is announced by `bubbleReg`:
  each action that keeps EX non-empty moves `pcFetchReg` to `pcExReg` in the clock in
  which imem answers for it, and imem does not change under the core.
- `HaltCorrect`: the invariant is inductive with `TypeOK`, since only `HaltCycle` sets a
  cause, it does so from a core that is not halted, and a halting instruction is no load.
- `HaltReportKept`: an action property, by cases on the kind of clock.
- `QuietCorrect`: an empty EX with a load still pending would write a register, so the proof
  needs the invariant `NothingPending` (`bubbleReg => ~loadPendReg`), proved first: a
  redirecting instruction is no load, and pausing and resetting clear both.
- `OperandsCorrect`: combinational; the stall condition covers `Sources` and `Target`.

`CoreTheorems` then has `Refinement`, `RunSpec => ImplementsISA`, for every prepared program
of any length and any widths, memories and entry addresses, programs that stall included.

- Its inductive invariant, `RunInv`, is `PipeInv` with two facts about such a run: no reset
  comes, and before its start the core is empty and not halted (`NotStarted`). An enabled clock
  is a step by `ClockRefines`, and the clocks before the start are those of an idle machine.

`AxiTheorems`, for any master, any reset length and any memories:

- `AxiTypeCorrect`: `TypeOK` is inductive. Beyond `ClockTheorems` it needs that what the
  master hands over is one of its beats (`BeatType`), that a window's address selects a word
  the memory has (`SlotType`, `RegSlotType`), and that both orders of two writes in one clock
  keep the memory's type (`CoreStoreType`, `HostStoreType`).
- `HostOwnsMemoryCorrect`: the host's write needs `enable` clear and no answer waiting. The
  proof needs two facts about the core: a disabled core that still has an instruction in EX
  was disabled in the clock before, so the answer to the write that did it is waiting
  (`PauseIsAnswered`); and with EX empty no load is pending (`LoadHasIssued`).
- `ResetReportCorrect`: inductive with the range of the counter (`CounterType`).
- `ReadIsFreshCorrect`: needs that the word on its way from a memory, in the clock between
  request and capture, is a permitted answer and that the pending flags say which memory
  it comes from (`WordIsFresh`).

`DecoderTheorems`, for any registers and any twelve-bit immediates of 32-bit words:

- `FormatsDecodeCorrect`, `RlwimiDecodesCorrect`: three layers. The bits of a number are the
  parities of its quotients by powers of two (`BitsOfInt`), a negative number's bits are ones
  from its sign on (`SignBits`), and a multiple of a power of two has its bits moved up
  (`ScaledBits`). A lemma per format (`FormatI` .. `FormatJ`) says which bits of which operand
  an assembled word carries where (`Carries`), with nothing of two fields overlapping. A lemma
  per immediate (`ImmIDecodes` .. `ImmUDecodes`) says that the slices the decoder takes there,
  put together and sign-extended, have exactly the bits of the number.
- `KindIsByOpcodeCorrect`: seven bits are determined by the number they stand for (`Opcodes`),
  so a comparison of opcodes is one of numbers; the upper twelve bits tell ECALL and EBREAK
  apart (`TwelveBits`).

`BridgeTheorems`, for any list of jobs, any programs that fit, any widths, any timeout and
any delays of the bus:

- `ProgramIsWholeCorrect` and `CyclesBelongTogetherCorrect` follow from one inductive
  invariant, `HostInv`, that relates the host to the hardware it talks to. Neither property
  is inductive: a write still on its way could enable the core early or replace a word late,
  an answer could be of an older read, a reset could still be going on. `TodoIsTheRest` says
  where in its list of accesses a job is; `WriteIsCurrent` and `ReadIsCurrent` that the
  channels carry the access under way and nothing else, and that an answer is still true;
  `ResetIsAwaited` that no reset outlasts the accesses that wait for it; `CoreIsDisabled` at
  which accesses the core cannot be enabled; `VerifiedIsLoaded` and `CountIsKept` what the
  host has learnt from its answers. Every access goes on, or ends and the next one begins
  (`GoesOn`, `BeginsNext`), and each part of the invariant has a lemma for both.

- `ResultsAreOneStateCorrect` needs a second invariant on top, `LookInv`: with the first look the
  core has been disabled for a clock, so EX is empty and no load is pending (`BoardIsStill`),
  and then neither registers nor dmem nor PC change (`BoardStands`); a halted core keeps its
  status, enabled or not (`StatusStands`), so the status polled three accesses earlier is
  still true (`StatusIsKept`); the answers on their way are too (`LookIsCurrent`).

- `RunsAreSequentialCorrect` carries the refinement of `ClockTheorems` over to the runs of the
  host, for all of its jobs, of any length, one after the other on the same board. Its
  invariant `RunInv` has, beside the types of the board (`BoardTypeOK`), the halt report and
  `NothingPending`: the entry address written has reached `pcFetchReg` before the core is
  enabled, although the pulse that passes it on is lost on a core in reset or enabled
  (`EntryIsLatched`, `StartIsReady`); and from the write that enables the core to the one that
  disables it the pipeline is in step on a prepared imem (`RunIsInStep`); it is not claimed
  of a core that a timeout has left executing, which the next job resets or disables in the
  middle of its program. `ClockOfRun` says which
  clocks the host leaves to the core: no reset, no store of the host, `enable` as the access
  under way has it. `LookInv` covers the rest, from the emptied pipeline to the last look.

`ArithmeticTheorems`, for the widths 4, 8, 16 and 32 and every operand:

- `RlwimiCorrect`: from the position of the mask's bits and of the rotated word's bits.
- `BranchesCompareCorrect`: the highest position at which two words differ decides how their
  numbers compare (`Unsigned`), and an exchanged sign bit moves both by half the modulus.
- `StoredIsLoadedCorrect`: a word's number is its high part times a power of two plus its low
  part, whose quotient and remainder the lanes and the extension are.
- `ALUIsArithmeticCorrect`: addition by the recurrence of the carries, subtraction as addition
  of the complement, shifts as products and quotients, logic bit by bit.
- The number a word stands for is a recursive function. Its equations and the inductions over
  bit positions are derived from the well-foundedness of `<` on the natural numbers
  (`NatLessThanWellFounded`), since the library's induction rule cannot be instantiated.

`ToolTheorems`, for any number of processes, command lines, tools and files:

- `NothingLeftBehindCorrect`: the inductive invariant `Ownership` adds to the property that
  a process owns a temporary directory exactly at the statements inside its `with`, and a
  temporary file exactly inside the `try` (`OwnedWhere`), that what it owns exists, and that
  no two own the same (`OwnedExists`, `OwnedAlone`). Every statement of the scripts is one of a
  few kinds of steps (`QuietStep`, `FillStep`, ...), each of which keeps it and leaves the
  variables and temporary objects of the other processes alone (`OnlyOwn`).
- The other four need what each script knows and has written at each statement (`CompileInv`,
  `GenTbInv`, `BenchGenInv`), with two arguments for each: its own statements keep that, and
  statements of other processes and edits of the user do not disturb it (`InvLeftAlone`).
- `WordsAreOfSourceCorrect`: the linked code is followed from the source through the
  temporary directory, the temporary file and the variables (`Progress`). That the compiler
  found the language it was told is what makes the startup code right (`LinkedText`);
  `WordsOfBytes` is padding and `struct.unpack`.
- `TestIsOfOneSpecCorrect`: both questions are about the text in `spec_text`.
- `TestbenchIsOfItsBridgeCorrect`: whatever the answer, `extract_files` makes of it a
  dictionary with each name once and content about the subject that was asked for
  (`FilesOfAnswer`, with `LeastNumber` and `GreatestNumber` for the first and the last block
  of a name). `BenchGenInv` says of both loops over such a dictionary which files are in the
  directory already (`FileWritten`), and of the second that only what it names is replaced
  (`NotReplaced`). The first file being the bridge, the subject of the second question is what
  the directory has under the bridge's name, and stays there when the second answer brings
  no bridge. Neither condition is on the number, order or repetition of other files.
- `FailureKeepsTestsCorrect`: before the last question is answered, the testbench files are
  those of the start, but for those that the first answer has brought (`OldTests`).

Only model-checked: the test programs (`TestsPass`), which are single executions; how every
`run()` of the host ends and what it returns (`RunsEndAsExpected`, `ResultsAreTheProgram`),
which depend on what the jobs' programs compute and how long they take, where
`RunsAreSequentialCorrect` says that it is what the sequential machine computes; and liveness (`KeepsExecuting`, `TestbenchEnds`), which
the prover does not handle.

## 5. Plan

Done in this order: words and datapath, decoder, pipeline and memories, free inputs and
invariants, sequential machine and refinement, register map, host script, typing and
safety proofs of the pipeline, safety proofs of the register map.

Then: the host's whole interface with timeouts, missing resets and exceptions, the compiled
test programs, the scripts and their first theorem, the refinement as a theorem and the types
of the register map.

Then: the program and cycle-count invariants of the host, the arithmetic of the datapath and
the properties of the scripts as theorems.

Then: the decoder against its reference, the results of a run, and every run under the host as
a run of the sequential machine, as theorems.

Next:

1. A host that pauses a core in the middle of a program, and what the pause may lose.
2. A refinement of the register map to an atomic memory and register interface.
