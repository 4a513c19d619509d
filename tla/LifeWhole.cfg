\* One node through starts, updates, restarts, an uninstall and three accidents.
SPECIFICATION FairSpec
CONSTANTS
  Pid = {p1, p2}
  NoPid = NoPid
  Key = {2, 3, 4, 5}
  MaxFaults = 3
  MaxCommands = 2
INVARIANTS LifeInv OneDaemon UpdatedMeansAll ServerKnows
PROPERTIES DaemonComesBack TunnelComesUp
CHECK_DEADLOCK FALSE
