SPECIFICATION Spec
CONSTANTS
  Slot = {s1}
  Pid = {p1, p2, p3}
  NoPid = NoPid
  SourceIsNetwork = TRUE
  ReusePids = FALSE
  MayStop = FALSE
  MaxKills = 2
  MaxFails = 2
SYMMETRY PidSymmetry
INVARIANTS MountedWhileRunning MountedOnce Released
