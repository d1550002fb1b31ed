CONSTANTS
  c1 = c1
  m1 = m1
  m2 = m2
  None = None
  Msgs = {m1, m2}
  Chats = {c1}
  Time <- MCTime
  ChatOf <- MCChatOf
  PageSize = 1
  RefreshChats = 1
  MaxRequests = 2
  Startup = TRUE
  MaxChanges = 1
  MaxJobs = 2
  MaxRestarts = 1
SPECIFICATION Spec
INVARIANTS
  
  PushedIsStored
  BackfillIsComplete
CHECK_DEADLOCK FALSE
