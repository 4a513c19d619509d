SPECIFICATION Spec
CONSTANTS
  Slot = {s1}
  Pid = {p1, p2}
  NoPid = NoPid
  SourceIsNetwork = TRUE
  ReusePids = FALSE
  MayStop = FALSE
  MaxKills = 0
  MaxFails = 0
SYMMETRY PidSymmetry
INVARIANTS NetworkSourceRuns
