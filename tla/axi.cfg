SPECIFICATION Spec
CONSTANTS
  XLEN = 4
  SHAMTW = 2
  BYTE = 1
  InstWord <- MCInstWord
  CycleMod = 1
  IMEMW = 0
  DMEMW = 0
  UndefinedRead <- MCEmpty
  Programs <- MCPrograms
  PowerUpRegs <- MCRegs
  PowerUpDmem <- MCDmem
  PowerUpInst <- MCEmpty
  PowerUpRd = {0}
  PowerUpF3 = {2}
  None = None
  WriteAddr <- MCWriteAddr
  ReadAddr <- MCReadAddr
  WriteData <- MCWriteData
  WriteStrb <- MCStrobes
  ResetCycles = 1
  CycleLo = 1
INVARIANT TypeOK HostOwnsMemory ResetReport ReadIsFresh
