\* One process dies once.
\* Each of these properties fails; leave one of them in to see how.
SPECIFICATION Spec
CONSTANTS
  Proc = {d, c}
  NoProc = NoProc
  Budget <- OneCrash
  VerifyChain = FALSE
  InitKey = 1
  MaxKey = 1
  MaxEmits = 3
  MaxInFlight = 2
  BatchCap = 2
  LogMaxLines = 3
  LogTrimTo = 2
INVARIANTS SeqNeverReused ChainLinked AckedMeansDelivered
CHECK_DEADLOCK FALSE
