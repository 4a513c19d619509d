SPECIFICATION FairSpec
CONSTANTS
  MaxConn = 2
  DRConfig = {on, off}
  Disabled = {off}
  NoConfig = NoConfig
  Commands = {"update", "export", "sizes", "retain data", "destroy data"}
  MaxAsks = 2
  MaxFaults = 1
INVARIANTS DROnDisk DestroyedOnRequest
PROPERTIES RequestsAreMet ChangesAreTried
CHECK_DEADLOCK FALSE
