CONSTANTS
  gui = gui
  t1 = t1
  t2 = t2
  Tools = {t1, t2}
  Conns <- MCConns
  PingOf <- MCPingOf
  CallOf <- MCCallOf
  Period = 2
  Off = Off
  MaxCallbacks = 2
  Patience = 1
  MaxCalls = 3
SPECIFICATION McpFairSpec
INVARIANTS
  RetirementPending
PROPERTIES
  ToolReturns
  Retires
CHECK_DEADLOCK FALSE
