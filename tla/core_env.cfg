SPECIFICATION Spec
CONSTANTS
  XLEN = 4
  SHAMTW = 2
  BYTE = 1
  InstWord <- MCInstWord
  CycleMod = 2
  IMEMW = 2
  DMEMW = 0
  UndefinedRead <- MCGarbage
  Programs <- MCPrograms
  PowerUpRegs <- MCRegs
  PowerUpDmem <- MCDmem
  PowerUpInst <- MCNop
  PowerUpRd = {1}
  PowerUpF3 = {2}
  EntryAddr <- MCEntry
INVARIANT TypeOK LabelTracksInst OperandsSettled HaltReport
PROPERTY HaltReportStays EmptyIsQuiet
