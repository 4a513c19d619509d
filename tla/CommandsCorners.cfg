\* Each of these properties fails; leave one of them in to see how.
SPECIFICATION FairSpec
CONSTANTS
  MaxConn = 2
  DRConfig = {on, off}
  Disabled = {off}
  NoConfig = NoConfig
  Commands = {"update", "export", "sizes", "retain data", "destroy data"}
  MaxAsks = 2
  MaxFaults = 1
INVARIANTS OneDRConfig
PROPERTIES DRFollowsServer
CHECK_DEADLOCK FALSE
