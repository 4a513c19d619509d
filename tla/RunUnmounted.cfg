SPECIFICATION Spec
CONSTANTS
  Slot = {s1, s2}
  Pid = {p1, p2}
  NoPid = NoPid
  SourceIsNetwork = FALSE
  ReusePids = FALSE
  MayStop = FALSE
  MaxKills = 0
  MaxFails = 0
SYMMETRY Symmetry
INVARIANTS MountedWhileRunning
