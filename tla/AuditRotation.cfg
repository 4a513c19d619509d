SPECIFICATION Spec
CONSTANTS
  Proc = {d, c}
  NoProc = NoProc
  Budget <- NoFaults
  VerifyChain = FALSE
  InitKey = 1
  MaxKey = 2
  MaxEmits = 3
  MaxInFlight = 0
  BatchCap = 2
  LogMaxLines = 3
  LogTrimTo = 2
INVARIANT ChainRestartsOnRotation
CHECK_DEADLOCK FALSE
