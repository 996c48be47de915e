SPECIFICATION Spec
CONSTANTS
  p1 = p1
  p2 = p2
  None = None
  Procs = {p1, p2}
  TempDirs = {d1, d2}
  TempFiles = {f1, f2}
  CFiles <- MCCFiles
  Crt0Code <- MCCrt0Code
  BaseName <- MCBaseName
  Stem <- MCStem
  BridgeFile <- MCBridgeFile
  TbFile <- MCTbFile
  Examples = {"cmd"}
  MaxBlocks = 2
  CommandLines <- MCCommandLines
  StartDir <- MCStartDir
  Edits <- MCEdits
INVARIANT NothingLeftBehind WordsAreOfSource TestIsOfOneSpec TestbenchIsOfItsBridge FailureKeepsTests
CHECK_DEADLOCK FALSE
