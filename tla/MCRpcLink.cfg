CONSTANTS
  Clients = {c1}
  Broadcasters = {b1, b2}
  MaxCalls = 2
  MaxEvents = 2
  SocketCap = 1
  QueueCap = 1
  None = None
SPECIFICATION FairSpec
INVARIANTS
  NoSilentGap
PROPERTIES
  BroadcastEnds
  CallsEnd
CHECK_DEADLOCK FALSE
