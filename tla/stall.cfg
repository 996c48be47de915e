SPECIFICATION AnyRunSpec
CONSTANTS
  XLEN = 8
  SHAMTW = 3
  BYTE = 2
  InstWord <- ProgramWords
  CycleMod = 2
  IMEMW = 3
  DMEMW = 0
  UndefinedRead <- Zero
  Programs <- LoadUpperLoadProgram
  PowerUpRegs <- StartRegs
  PowerUpDmem <- StartDmem
  PowerUpInst <- Nop
  PowerUpRd = {0}
  PowerUpF3 = {2}
  EntryAddr <- Zero
PROPERTY StallEnds
