SPECIFICATION Spec
CONSTANTS
  Proc = {d, c}
  NoProc = NoProc
  Budget <- OneShort
  VerifyChain = FALSE
  InitKey = 1
  MaxKey = 1
  MaxEmits = 3
  MaxInFlight = 0
  BatchCap = 2
  LogMaxLines = 3
  LogTrimTo = 2
INVARIANT AppendIsDurable
CHECK_DEADLOCK FALSE
