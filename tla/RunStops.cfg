\* `job stop' races with the end of the run and with the next one; process IDs
\* are used again.
\* Each of these properties fails; leave one of them in to see how.
SPECIFICATION Spec
CONSTANTS
  Slot = {s1}
  Pid = {p1, p2, p3}
  NoPid = NoPid
  SourceIsNetwork = FALSE
  ReusePids = TRUE
  MayStop = TRUE
  MaxKills = 1
  MaxFails = 0
SYMMETRY PidSymmetry
INVARIANTS RunDetected SeenRunningIsRunning
PROPERTIES StopHitsRunner
