SPECIFICATION Spec
CONSTANTS
  Proc = {d, c}
  NoProc = NoProc
  Budget <- OneOfEach
  VerifyChain = FALSE
  InitKey = 1
  MaxKey = 1
  MaxEmits = 3
  MaxInFlight = 2
  BatchCap = 1
  LogMaxLines = 2
  LogTrimTo = 1
SYMMETRY ProcSymmetry
INVARIANTS NoSilentGap AckedIsHeld IInv
PROPERTY DeliverySpec
CHECK_DEADLOCK FALSE
