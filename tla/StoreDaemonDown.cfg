\* One operator at a time; --dr-restore is killed while it has the daemon stopped.
SPECIFICATION Spec
CONSTANTS
  Id = {1, 2}
  NoId = 0
  Session = {p}
  Absent = Absent
  Blank = Blank
  Overlap = FALSE
  MayRestore = TRUE
  MaxBirths = 2
  MaxOps = 3
  MaxFaults = 1
PROPERTY DaemonComesBack
