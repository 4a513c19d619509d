\* Overlapping starts, halves of key pairs, recycled PIDs, torn copies, what the
\* uninstaller leaves.
\* Each of these properties fails; leave one of them in to see how.
SPECIFICATION FairSpec
CONSTANTS
  Pid = {p1, p2, p3}
  NoPid = NoPid
  Key = {2, 3, 4, 5}
  MaxFaults = 2
  MaxCommands = 2
INVARIANTS NeverTwoDaemons ToldIsDone DestroyedStays UnregisteredIsGone
PROPERTIES KeyPairHeals TunnelSurvivesFullDisk StaleLockIsOverwritten
  ProgramIsWhole UninstallIsTold
CHECK_DEADLOCK FALSE
