-------------------------------- MODULE MCAxi --------------------------------
(***************************************************************************)
(* The wrapped core with one word of imem and one of dmem, four-bit        *)
(* registers, and a master that enables, pauses and resets the core and    *)
(* rewrites the memories: a store, or a word that is no instruction.       *)
(***************************************************************************)
EXTENDS AxiSystem, Asm

MCStore == sw(2, 0, 0)

MCWriteData == {MCStore, {}}

MCInstWord == MCWriteData \cup {lw(0, 0, 0)}

MCPrograms == {[i \in Word(0) |-> w] : w \in {MCStore, lw(0, 0, 0)}}

MCRegs == {[i \in RegIdx |-> {}]}

MCDmem == {[i \in Word(0) |-> {}]}

MCEmpty == {{}}

MCStrobes == {0 .. 3, {0}}

\* soft_reset, enable, imem[0] and dmem[0].
MCWriteAddr == {0, 16, 4096, 20480}

\* soft_reset, status, imem[0] and dmem[0].
MCReadAddr == {0, 64, 4096, 20480}

\* Decoding gives what the type of the decoder's output says (and TLC has the table).
ASSUME DecoderTyped == DecodeOf \in [InstWord -> DecodedInst]

==============================================================================
