------------------------------ MODULE MCBridge -------------------------------
(***************************************************************************)
(* The jobs of a testbench on an eight-bit core.                           *)
(***************************************************************************)
EXTENDS SRV32IBridge, Asm, Functions

\* A loop whose entry lies behind an instruction that would halt the core.
MCLoop ==
  <<ebreak, nop, nop, addi(2, 0, 3), addi(1, 1, 1), addi(2, 2, -1), bne(2, 0, -8), ecall>>

\* Adds what it finds in memory to what earlier programs have left in x1, waiting for
\* the load.  The word is that of byte address 4, the second one.
MCAdd == <<lw(3, 4, 0), add(1, 1, 3), nop, sw(1, 4, 0), ecall, nop, nop, nop>>

MCSpin == <<jal(0, 0)>>

MCIllegal == <<{}, nop, nop>>

MCBreak == <<ebreak, nop, nop>>   \* also the first words of MCLoop

\* The window of dmem has one word per sixteen addresses: what the program calls byte
\* address 4 is 16 in writeData and readData, although gen_tb.py:24 speaks of a
\* "byte address" (srv32i_bridge.py:42-46, AxiSRV32I.scala:233).
SecondWord == 16

Preloaded == <<SecondWord, {0}>>

\* A timeout that leaves the core executing; a run after it, before which a word stored in
\* dmem is refused because the core is enabled; a run without a reset (the core is still
\* halted and executes nothing: the testbench finds what the run before has left); a halt
\* that the assertions refuse; a halt by EBREAK that the testbench asks for; and a run on
\* preloaded data.
MCJobs ==
  <<[reset |-> TRUE, preload |-> << >>, prog |-> MCSpin, entry |-> {}, check_halt |-> TRUE,
     reg |-> 1, addr |-> SecondWord, ends |-> "TimeoutError",
     st |-> {}, value |-> {}, stored |-> {}, pc |-> {}],
    [reset |-> TRUE, preload |-> <<Preloaded>>, prog |-> MCLoop, entry |-> {2, 3},
     check_halt |-> TRUE,
     reg |-> 1, addr |-> SecondWord, ends |-> "passed",
     st |-> {1, 3}, value |-> {0, 1}, stored |-> {3}, pc |-> {5}],
    [reset |-> FALSE, preload |-> << >>, prog |-> MCAdd, entry |-> {}, check_halt |-> TRUE,
     reg |-> 1, addr |-> SecondWord, ends |-> "passed",
     st |-> {1, 3}, value |-> {0, 1}, stored |-> {3}, pc |-> {5}],
    [reset |-> TRUE, preload |-> << >>, prog |-> MCIllegal, entry |-> {}, check_halt |-> TRUE,
     reg |-> 1, addr |-> SecondWord, ends |-> "AssertionError",
     st |-> {}, value |-> {}, stored |-> {}, pc |-> {}],
    [reset |-> TRUE, preload |-> << >>, prog |-> MCBreak, entry |-> {}, check_halt |-> FALSE,
     reg |-> 1, addr |-> SecondWord, ends |-> "passed",
     st |-> {1}, value |-> {0, 1}, stored |-> {3}, pc |-> {2}],
    [reset |-> TRUE, preload |-> <<Preloaded>>, prog |-> MCAdd, entry |-> {}, check_halt |-> TRUE,
     reg |-> 1, addr |-> SecondWord, ends |-> "passed",
     st |-> {1, 3}, value |-> {2}, stored |-> {2}, pc |-> {2, 4}]>>

\* Every word of a program, of the register writes and of the preload.
MCInstWord == Range(MCLoop \o MCAdd \o MCSpin) \cup {{}, {0}, {2}}

MCEntries == {Jobs[j].entry : j \in DOMAIN Jobs}

MCPrograms == {[i \in Word(3) |-> {}]}

MCRegs == {[i \in RegIdx |-> {}]}

MCDmem == {[i \in DmemIndex |-> {3}]}

MCGarbage == {{1}}

MCZero == {{}}

MCWriteAddr == {0, 16, 32, 48, dmem_base_rw + SecondWord} \cup {4096 + 16 * i : i \in 0 .. 7}

MCWriteData == MCInstWord

MCStrobes == {0 .. 3}

\* Decoding gives what the type of the decoder's output says (and TLC has the table).
ASSUME DecoderTyped == DecodeOf \in [InstWord -> DecodedInst]

==============================================================================
