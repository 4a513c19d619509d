\* The instance of JobsRun.cfg, with what it does not promise.
\* Each of these properties fails; leave one of them in to see how.
SPECIFICATION Spec
CONSTANTS
  Clock <- MCClock
  DayLists <- MCDayLists
  Doms <- MCDoms
  Crons <- MCCrons
  Counts <- MCCounts
  Durations <- MCDurations
  Tier = {"daily", "weekly"}
  Days <- MCDays
  Taken <- MCTaken
  NoJob = NoJob
  MaxEdits = 2
  File = {a, top}
  Top = top
  Sub = a
  Gone = Gone
  Policies <- MCPolicies
  MaxRuns = 2
  MaxDay = 1
INVARIANTS AllPlanned AllPrunedAsDescribed GoingBackChangesNothing RestoreTopName
  RestoreAfterLoss RestoreAfterEdit ToldIsThere DownloadWhole SuccessIsOnShare MirrorExact
PROPERTY DryRunWritesNothing
CHECK_DEADLOCK FALSE
