CONSTANTS
  MaxPairings = 2
  MaxSaves = 3
  MaxFaults = 2
  None = None
SPECIFICATION FairSpec
INVARIANTS
  SessionIsKept
PROPERTIES
  LoggedOutIsQuiet
  NewSessionLoads
CHECK_DEADLOCK FALSE
