\* One operator at a time: commands and menus, failures to write and crashes,
\* and the daemon's reloads and backups underneath.
SPECIFICATION Spec
CONSTANTS
  Id = {1, 2}
  NoId = 0
  Session = {p}
  Absent = Absent
  Blank = Blank
  Overlap = FALSE
  MayRestore = TRUE
  MaxBirths = 2
  MaxOps = 3
  MaxFaults = 1
INVARIANTS NeverAnothersSecrets OnlyBrokenIdsStick
PROPERTY DaemonFollowsDisk
