SPECIFICATION Spec
CONSTANTS
  Proc = {d, c}
  NoProc = NoProc
  Budget <- NoFaults
  VerifyChain = FALSE
  InitKey = 1
  MaxKey = 1
  MaxEmits = 4
  MaxInFlight = 2
  BatchCap = 2
  LogMaxLines = 3
  LogTrimTo = 2
INVARIANT RemovedOnlyAfterAck
CHECK_DEADLOCK FALSE
