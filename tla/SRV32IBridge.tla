---------------------------- MODULE SRV32IBridge -----------------------------
(***************************************************************************)
(* The host: a testbench that drives the core through SRV32I_Bridge.  It   *)
(* runs a sequence of jobs, each one program with or without a soft reset  *)
(* and stores into dmem before it, catches what the job raises, and looks  *)
(* at the results of a job that raises nothing.  Every call is a list of   *)
(* accesses to the register map that the host waits for one after the      *)
(* other; the bus may delay each handshake.                                *)
(***************************************************************************)
EXTENDS AxiSRV32I, CoreContract, Sequences

CONSTANTS
  Jobs,      \* what the testbench runs, see Job
  Timeout    \* waitForHalt(timeout): 50000 in the code

Exception == {"TimeoutError", "AssertionError"}

\* The arguments of a job's calls, and what the testbench expects of it.
Job ==
  [reset : BOOLEAN, preload : Seq(Nat \X Data), prog : Seq(InstWord), entry : Data,
   check_halt : BOOLEAN, reg : RegIdx, addr : Nat,
   ends : {"passed"} \cup Exception, st : SUBSET (0 .. 3),
   value : Data, stored : Data, pc : Data]

\* The words of a program have addresses in the window of imem, and those of dmem
\* have others.
Fits(prog) == \A i \in DOMAIN prog : Selected(imem_base_rw + (i - 1) * 16) = "imem"

ASSUME BridgeAssumption ==
  /\ Timeout \in Nat \ {0} /\ Jobs \in Seq(Job)
  /\ \A j \in DOMAIN Jobs : Fits(Jobs[j].prog)
  /\ imem_base_rw + imem_depth * 16 <= dmem_base_rw
  /\ EntryAddr = {Jobs[j].entry : j \in DOMAIN Jobs}

VARIABLES
  job,       \* the job under way; Len(Jobs) + 1 when the testbench is done
  todo,      \* the accesses of the job that are left, the one under way first
  awSent, wSent,   \* what the master has already handed over of a write
  polls,     \* how often the register was read in vain
  st,        \* the status waitForHalt returned
  result,    \* rdata of the accesses whose answers the testbench looks at
  outcome    \* of each job: "none" yet, "passed" or the exception it raised

hostVars   == <<job, todo, awSent, wSent, polls, st, result, outcome>>
bridgeVars == <<axiVars, hostVars>>

----------------------------------------------------------------------------
(* The accesses of a job.                                                  *)

One == {0}

writeWord(addr, data) == [op |-> "write", addr |-> addr, data |-> data, as |-> "none"]

\* The host insists on the answer data.
expectWord(addr, data) == [op |-> "expect", addr |-> addr, data |-> data, as |-> "none"]

\* The host keeps the answer under a name.
readWord(addr, as) == [op |-> "read", addr |-> addr, data |-> {}, as |-> as]

\* The host reads until a bit of the answer is set.
awaitBits(addr, bits, as) == [op |-> "await", addr |-> addr, data |-> bits, as |-> as]

\* softReset() of the GarageWorks bridge: "Write 1 to trigger soft reset; read 1
\* when done" (AxiSRV32I.scala:11).
resetCore == <<writeWord(0, One), awaitBits(0, One, "none")>>

setEnable(en) == writeWord(16, Flag(en))

writeInst(idx, data) == writeWord(imem_base_rw + idx * 16, data)

verifyInst(idx, data) == expectWord(imem_base_rw + idx * 16, data)

\* loadProg(insts), with verify=True.
loadProg(insts) ==
  [i \in DOMAIN insts |-> writeInst(i - 1, insts[i])]
    \o [i \in DOMAIN insts |-> verifyInst(i - 1, insts[i])]

writeData(addr, val) == writeWord(dmem_base_rw + addr, val)

readData(addr) == readWord(dmem_base_rw + addr, "dmem")

\* A mutant: the entry address is written but not latched.
setEntryNotLatched(addr) == <<writeWord(32, addr)>>

setEntry(addr) == <<writeWord(32, addr), writeWord(48, One)>>

ST_RUNNING == {0}
ST_HALTED  == {1}
ST_ILLEGAL == {2}
ST_ECALL   == {3}

\* A mutant: the first status is returned, whatever it says.
waitForHaltOnce == awaitBits(64, {}, "st")

waitForHalt == awaitBits(64, ST_HALTED, "st")

readReg(idx) == readWord(debug_regs_base_r + idx * 16, "reg")

readPC == readWord(80, "pc")

readCycles == <<readWord(96, "lo"), readWord(112, "hi")>>

\* run(prog, entry, timeout, check_halt): a last access that is to be followed by
\* the assertions on st carries the name "check".
lastAccess(check_halt) ==
  [op |-> "write", addr |-> 16, data |-> {}, as |-> IF check_halt THEN "check" ELSE "none"]

\* A mutant: the core is enabled before its program is there.
runEnablingFirst(prog, entry, check_halt) ==
  <<setEnable(FALSE)>> \o setEntry(entry) \o <<setEnable(TRUE)>> \o loadProg(prog)
    \o <<waitForHalt, lastAccess(check_halt)>>

run(prog, entry, check_halt) ==
  <<setEnable(FALSE)>> \o loadProg(prog) \o setEntry(entry)
    \o <<setEnable(TRUE), waitForHalt, lastAccess(check_halt)>>

\* "assert st & ST_ECALL", "st & ST_HALTED", "not (st & ST_ILLEGAL)" and
\* "not (st & ST_RUNNING)".
CleanHalt(status) ==
  ST_ECALL \cup ST_HALTED \subseteq status /\ (ST_ILLEGAL \cup ST_RUNNING) \cap status = {}

Before(j) ==
  (IF Jobs[j].reset THEN resetCore ELSE << >>)
    \o [i \in DOMAIN Jobs[j].preload |->
          writeData(Jobs[j].preload[i][1], Jobs[j].preload[i][2])]

\* What the testbenches read after run(): five accesses.
LookAt(j) == readCycles \o <<readReg(Jobs[j].reg), readPC, readData(Jobs[j].addr)>>

Access(j) == Before(j) \o run(Jobs[j].prog, Jobs[j].entry, Jobs[j].check_halt) \o LookAt(j)

----------------------------------------------------------------------------
(* One access at a time.                                                   *)

working == job \in DOMAIN Jobs

current == Head(todo)

Doing(ops) == working /\ current.op \in ops

NoResult == [n \in {"lo", "hi", "reg", "pc", "dmem"} |-> {}]

\* The job is over, and the next one starts on the board as it is.
End(how) ==
  /\ outcome' = [outcome EXCEPT ![job] = how]
  /\ job' = job + 1
  /\ todo' = IF job = Len(Jobs) THEN << >> ELSE Access(job + 1)
  /\ awSent' = FALSE /\ wSent' = FALSE /\ polls' = 0
  /\ st' = {} /\ result' = NoResult

\* The access is complete, with s for st and r for result.
Proceed(s, r) ==
  IF Tail(todo) = << >> THEN End("passed")
  ELSE /\ todo' = Tail(todo) /\ st' = s /\ result' = r
       /\ awSent' = FALSE /\ wSent' = FALSE /\ polls' = 0
       /\ UNCHANGED <<job, outcome>>

\* What the write channels carry: address and data are handed over in any order.
AddressOffered == IF Doing({"write"}) /\ ~ awSent THEN {current.addr} ELSE {}

BeatOffered ==
  IF Doing({"write"}) /\ ~ wSent THEN {[data |-> current.data, strb |-> Lane]} ELSE {}

\* The answer ends a write; run() asserts a clean halt after its last one.
HostWrites ==
  /\ Doing({"write"})
  /\ ReadIdle
  /\ IF brespReg # None /\ brespReg' = None
     THEN IF current.as = "check" /\ ~ CleanHalt(st)
          THEN End("AssertionError") ELSE Proceed(st, result)
     ELSE /\ awSent' = (awSent \/ awHoldAddrReg' # None)
          /\ wSent' = (wSent \/ wHoldReg' # None)
          /\ UNCHANGED <<job, todo, polls, st, result, outcome>>

\* The request is accepted, or has to wait.
HostAsks ==
  /\ Doing({"expect", "read", "await"})
  /\ ReadIdle \/ ReadRegister(current.addr) \/ ReadImem(current.addr) \/ ReadDmem(current.addr)
  /\ UNCHANGED hostVars

\* The answer is on its way, or waits for rready.
HostWaits ==
  /\ Doing({"expect", "read", "await"})
  /\ ReadCapture \/ ReadHeld
  /\ UNCHANGED hostVars

HostChecksAnswer ==
  /\ Doing({"expect"})
  /\ ReadTaken
  /\ IF rdataReg = current.data THEN Proceed(st, result) ELSE End("AssertionError")

HostKeepsAnswer ==
  /\ Doing({"read"})
  /\ ReadTaken
  /\ Proceed(st, [result EXCEPT ![current.as] = rdataReg])

\* A poll; only waitForHalt gives up.
HostPolls ==
  /\ Doing({"await"})
  /\ ReadTaken
  /\ IF current.data \subseteq rdataReg
     THEN Proceed(IF current.as = "st" THEN rdataReg ELSE st, result)
     ELSE IF current.as = "st" /\ polls + 1 = Timeout
     THEN End("TimeoutError")
     ELSE /\ polls' = IF current.as = "st" THEN polls + 1 ELSE polls
          /\ UNCHANGED <<job, todo, awSent, wSent, st, result, outcome>>

\* The testbench is over; the clock goes on.
HostIdle ==
  /\ ~ working
  /\ ReadIdle
  /\ UNCHANGED hostVars

BridgeInit ==
  /\ AxiInit
  /\ job = 1 /\ todo = Access(1) /\ awSent = FALSE /\ wSent = FALSE /\ polls = 0
  /\ st = {} /\ result = NoResult
  /\ outcome = [j \in DOMAIN Jobs |-> "none"]

\* One clock of the hardware and of the host.
BridgeNext ==
  /\ AxiClock(AddressOffered, BeatOffered)
  /\ \/ HostWrites \/ HostAsks \/ HostWaits
     \/ HostChecksAnswer \/ HostKeepsAnswer \/ HostPolls \/ HostIdle

Spec == BridgeInit /\ [][BridgeNext]_bridgeVars

----------------------------------------------------------------------------

\* The accesses with which the testbench looks at what a job has left.
Looks == 5

\* The host looks at what the job under way has left.
Returned == working /\ Len(todo) <= Looks

\* run() of the job under way has disabled the core, and has not returned.
InRun ==
  /\ working
  /\ Looks < Len(todo)
  /\ Len(todo) < Len(run(Jobs[job].prog, Jobs[job].entry, Jobs[job].check_halt)) + Looks

\* Every job ends as its program does, with the exception its testbench expects or
\* none: the words loaded are read back, a program that halts is never timed out
\* and one that does not always is, and run() returns the status of this halt and
\* asserts that it is clean (srv32i_bridge.py:36-39, 59-68, 91-95).
RunsEndAsExpected ==
  /\ \A j \in DOMAIN Jobs : outcome[j] = IF j < job THEN Jobs[j].ends ELSE "none"
  /\ Returned => st = Jobs[job].st

\* What the testbench reads after run() is what its jobs leave on the board: with a reset
\* what the program, executed from its entry address, makes of the registers and the data
\* before it, on a core that earlier jobs have left halted or still executing and whatever
\* became of the stores into dmem before it, with the debug PC past the instruction that
\* halted it; without a reset what the run before has left, the program not having been
\* executed at all (tb_loop_hex.py:24-28, tb_sum_c.py, gen_tb.py:23,
\* SRV32I.scala:443-472).
ResultsAreTheProgram ==
  Returned /\ Len(todo) = 1 =>
    /\ result["reg"] = Jobs[job].value
    /\ result["pc"] = Jobs[job].pc
    /\ (rstateReg = "COMPLETED" => rdataReg = Jobs[job].stored)

\* The halves of the cycle counter, read one after the other, belong together and
\* are those of the completed run (srv32i_bridge.py:76-79).
CyclesBelongTogether ==
  Returned /\ Len(todo) <= Looks - 2 =>
    /\ result["lo"] = FromInt(cycleReg % CycleLo, 32)
    /\ result["hi"] = FromInt(cycleReg \div CycleLo, 32)

\* What a testbench gets in six accesses is one state of the board.  The status was
\* polled before the write that disables the core, and is still the core's: it has
\* halted, for the same cause, and what check_halt asserts of the earlier status is
\* true of the core looked at.  The register, the PC and the word of dmem, each read in
\* an access of its own, are still what the board holds, although words behind the halt
\* were being executed until the core was disabled (srv32i_bridge.py:88-101).
ResultsAreOneState ==
  Returned =>
    /\ haltedReg /\ st = StatusWord
    /\ Jobs[job].check_halt => ecallReg /\ ~ illegalReg
    /\ Len(todo) <= 2 => result["reg"] = RegRead(Jobs[job].reg)
    /\ Len(todo) <= 1 => result["pc"] = pcExReg
    /\ Selected(current.addr) = "dmem" /\ rstateReg = "COMPLETED" =>
         rdataReg = dmem[DmemSlot(current.addr)]

\* A program is never replaced under a core that may be executing it, also not the
\* program of a job that was timed out, and the core is never enabled before the
\* host has read back the whole program (srv32i_bridge.py:83-87).
ProgramIsWhole ==
  InRun /\ active =>
    \A i \in DOMAIN Jobs[job].prog : imem[FromInt(i - 1, IMEMW)] = Jobs[job].prog[i]

\* A run starts at its entry address with the registers, the program and the data that
\* the host has left on the board, each clock in which the core is enabled is a step of
\* the sequential machine (SequentialStep) or none, and what the program has come to when
\* it halts stays as it is while the host polls, disables the core and looks: for a
\* program prepared for the pipeline, among the words that earlier programs have left in
\* imem (srv32i_bridge.py:83-101, SRV32I.scala:475-485).
RunsAreSequential ==
  [][working /\ Len(todo) <= Looks + 3 =>
       /\ ~ enable /\ enable' =>
            /\ UNCHANGED <<archRegs, imem, dmem>>
            /\ ~ haltedReg => archPc' = Jobs[job].entry
       /\ enable /\ enable' =>
            [SequentialStep]_(Sequential!vars) \/ ~ IsPrepared(imem)
       /\ haltedReg =>
            UNCHANGED <<archPc, archRegs, imem, dmem>> \/ ~ IsPrepared(imem)]_bridgeVars

\* The testbench comes to its end.
TestbenchEnds == <>(~ working)

\* The access under way goes on: a handshake is made, a write performed or a word of
\* memory captured.
Advances ==
  \/ awHoldAddrReg = None /\ awHoldAddrReg' # None
  \/ wHoldReg = None /\ wHoldReg' # None
  \/ brespReg # brespReg'
  \/ rstateReg # rstateReg'

\* The clock does not stop, and no handshake waits forever.
FairSpec == Spec /\ WF_bridgeVars(BridgeNext /\ Advances)

==============================================================================
