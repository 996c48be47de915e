SPECIFICATION FairSpec
CONSTANTS
  XLEN = 8
  SHAMTW = 3
  BYTE = 2
  InstWord <- MCInstWord
  CycleMod = 32
  IMEMW = 3
  DMEMW = 1
  UndefinedRead <- MCGarbage
  Programs <- MCPrograms
  PowerUpRegs <- MCRegs
  PowerUpDmem <- MCDmem
  PowerUpInst <- MCZero
  PowerUpRd = {0}
  PowerUpF3 = {2}
  None = None
  WriteAddr <- MCWriteAddr
  ReadAddr = {}
  WriteData <- MCWriteData
  WriteStrb <- MCStrobes
  ResetCycles = 3
  CycleLo = 8
  Jobs <- MCJobs
  EntryAddr <- MCEntries
  Timeout = 8
INVARIANT RunsEndAsExpected ResultsAreTheProgram CyclesBelongTogether ResultsAreOneState ProgramIsWhole
PROPERTY RunsAreSequential TestbenchEnds
