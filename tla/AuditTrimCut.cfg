SPECIFICATION Spec
CONSTANTS
  Proc = {d, c}
  NoProc = NoProc
  Budget <- OneCut
  VerifyChain = FALSE
  InitKey = 1
  MaxKey = 1
  MaxEmits = 4
  MaxInFlight = 0
  BatchCap = 2
  LogMaxLines = 3
  LogTrimTo = 2
PROPERTY TrimKeepsNewest
CHECK_DEADLOCK FALSE
