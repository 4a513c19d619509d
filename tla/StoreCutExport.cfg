\* One operator at a time, without restores: an export fails or is killed between
\* its files, in a directory that was used before, and is imported.
SPECIFICATION Spec
CONSTANTS
  Id = {1, 2}
  NoId = 0
  Session = {p}
  Absent = Absent
  Blank = Blank
  Overlap = FALSE
  MayRestore = FALSE
  MaxBirths = 2
  MaxOps = 3
  MaxFaults = 1
INVARIANT AlwaysWhole
