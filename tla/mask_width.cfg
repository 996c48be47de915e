SPECIFICATION Spec
CONSTANTS
  XLEN = 32
  SHAMTW = 5
  BYTE = 8
INVARIANT MaskWidthIsPositive
