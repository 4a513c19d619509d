SPECIFICATION Spec
CONSTANTS
  Slot = {s1, s2}
  Pid = {p1, p2, p3}
  NoPid = NoPid
  SourceIsNetwork = FALSE
  ReusePids = FALSE
  MayStop = TRUE
  MaxKills = 1
  MaxFails = 2
SYMMETRY Symmetry
INVARIANTS SeenRunningIsRunning
