\* Two sessions that may work on one job at a time, without restores and faults:
\* both create one ID, or one saves over the other's edit.
SPECIFICATION Spec
CONSTANTS
  Id = {1, 2}
  NoId = 0
  Session = {p, q}
  Absent = Absent
  Blank = Blank
  Overlap = TRUE
  MayRestore = FALSE
  MaxBirths = 3
  MaxOps = 2
  MaxFaults = 0
INVARIANT NeverAnothersSecrets
PROPERTY SaveKeepsOthers
