------------------------------ MODULE AxiSystem ------------------------------
(***************************************************************************)
(* AxiSRV32I under a bus master that may write and read anything at any    *)
(* time, with the history a reader of its answers needs.                   *)
(***************************************************************************)
EXTENDS AxiSRV32I

VARIABLE fresh   \* what the read that is under way may be answered with

sysVars == <<axiVars, fresh>>

\* What the register or word at address a contains.
ContentAt(a) ==
  CASE Selected(a) = "imem" -> imem[ImemSlot(a)]
    [] Selected(a) = "dmem" -> dmem[DmemSlot(a)]
    [] OTHER                -> RegisterRead(a)

SysInit == AxiInit /\ fresh = {}

\* One clock.  A request that is accepted may be answered with what its address
\* contains in that clock or after it.
SysNext ==
  /\ AxiClock(WriteAddr, WriteBeat)
  /\ \/ (ReadIdle \/ ReadTaken) /\ fresh' = {}
     \/ (ReadCapture \/ ReadHeld) /\ UNCHANGED fresh
     \/ \E a \in ReadAddr :
          /\ ReadRegister(a) \/ ReadImem(a) \/ ReadDmem(a)
          /\ fresh' = {ContentAt(a), ContentAt(a)'}

Spec == SysInit /\ [][SysNext]_sysVars

----------------------------------------------------------------------------

\* A write of the host to a memory is performed only when the core has nothing in
\* EX and no load under way: it meets neither a store of the instruction that the
\* pause let finish nor a read the core still uses (AxiSRV32I.scala:222, 232;
\* SRV32I.scala:407, 468-472).
HostOwnsMemory ==
  hostWritesImem \/ hostWritesDmem => bubbleReg /\ ~ loadPendReg

\* soft_reset reads 1 only when the reset is over, and from its second clock on a
\* reset has put the core into its initial state, also when it is requested again
\* while it is under way (AxiSRV32I.scala:105-114, 209-212; SRV32I.scala:475-485).
ResetReport ==
  /\ softResetDoneReg => ~ softReset /\ resetCounterReg = 0
  /\ resetCounterReg > 0 => softReset
  /\ softReset /\ resetCounterReg < ResetCycles =>
       /\ bubbleReg /\ ~ loadPendReg /\ ~ haltedReg
       /\ pcFetchReg = {} /\ pcExReg = {} /\ cycleReg = 0

\* An answer is what the address contained in the clock of the request or right
\* after it, whatever is written by the host or the core in the meantime, and
\* never a leftover of an earlier read (AxiSRV32I.scala:290-359).
ReadIsFresh == rstateReg = "COMPLETED" => rdataReg \in fresh

==============================================================================
