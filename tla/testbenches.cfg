SPECIFICATION TestSpec
CONSTANTS
  XLEN = 32
  SHAMTW = 5
  BYTE = 8
  InstWord <- TestWords
  CycleMod = 8192
  IMEMW = 5
  DMEMW = 4
  UndefinedRead <- Zero
  Programs <- TestPrograms
  PowerUpRegs <- ZeroRegs
  PowerUpDmem <- ZeroDmem
  PowerUpInst <- Zero
  PowerUpRd = {0}
  PowerUpF3 = {2}
  EntryAddr <- Zero
INVARIANT TestsPass
