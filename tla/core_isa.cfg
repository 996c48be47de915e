SPECIFICATION RunSpec
CONSTANTS
  XLEN = 8
  SHAMTW = 3
  BYTE = 2
  InstWord <- MCInstWord
  CycleMod = 2
  IMEMW = 3
  DMEMW = 1
  UndefinedRead <- MCGarbage
  Programs <- MCPrograms
  PowerUpRegs <- MCRegs
  PowerUpDmem <- MCDmem
  PowerUpInst <- MCNop
  PowerUpRd = {0}
  PowerUpF3 = {2}
  EntryAddr <- MCEntry
PROPERTY ImplementsISA KeepsExecuting
