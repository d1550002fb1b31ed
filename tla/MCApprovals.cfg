CONSTANTS
  Ids = {a1}
  Handlers = {h1, h2}
  None = None
  MaxRestarts = 1
  MaxFaults = 1
SPECIFICATION FairSpec
INVARIANTS
  ResentOnlyIfUnrecorded
  RepliesAreTrue
PROPERTIES
  ImplementsOutbox
  Answered
  DeliveriesRecorded
