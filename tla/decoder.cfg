SPECIFICATION Spec
CONSTANTS
  XLEN = 32
  SHAMTW = 5
  BYTE = 8
  InstWord = {}
  Registers = {0, 1, 10, 31}
  Immediates = {0, 2, 1365, 2047, 2048, 4095}
INVARIANT FormatsDecode RlwimiDecodes KindIsByOpcode
