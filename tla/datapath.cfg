SPECIFICATION Spec
CONSTANTS
  XLEN = 4
  SHAMTW = 2
  BYTE = 1
INVARIANT ALUIsArithmetic BranchesCompare StoredIsLoaded RlwimiInsertsField
