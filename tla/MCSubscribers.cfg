CONSTANTS
  pump = pump
  broadcaster = broadcaster
  waiter = waiter
  s1 = s1
  s2 = s2
  Nobody = Nobody
  Permanent <- DaemonStayers
  Callers = {s1, s2}
  Script <- DaemonScript
  Exclusive = TRUE
  MaxEvents = 5
SPECIFICATION FanOutSpec
INVARIANTS
  EveryEventIsHeard
  EchoIsHeard
PROPERTY
  RemovesOnlyOwn
CHECK_DEADLOCK FALSE
