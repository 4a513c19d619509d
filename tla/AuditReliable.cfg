SPECIFICATION FairSpec
CONSTANTS
  Proc = {d, c}
  NoProc = NoProc
  Budget <- NoFaults
  VerifyChain = TRUE
  InitKey = 0
  MaxKey = 1
  MaxEmits = 3
  MaxInFlight = 2
  BatchCap = 2
  LogMaxLines = 3
  LogTrimTo = 2
INVARIANTS AckedMeansDelivered ChainLinked
PROPERTY EventuallyShipped
CHECK_DEADLOCK FALSE
