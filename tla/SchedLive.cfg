SPECIFICATION FairSpec
CONSTANTS
  j1 = j1  j2 = j2  often = often  late = late  manual = manual
  NoJob = NoJob  NoConf = NoConf  Unscheduled = Unscheduled
  Job = {j1, j2}
  Expr = {often}
  Times <- JustOften
  Cycle = 3
  ReloadEvery = 2
  StartAt <- OddTime
  MayWait = TRUE
  MaxRuns = 2
  MaxEdits = 0
  MaxExits = 0
PROPERTIES EveryJobRuns EveryRunIsOver
