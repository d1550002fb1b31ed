CONSTANTS
  Calls = {c1, sub}
  Subscribe = sub
  MaxDeaths = 3
SPECIFICATION FairSpec
INVARIANT
  OneReconnect
PROPERTIES
  OnlyLateAdoptionForgets
  BroughtBackIfSettled
  
CHECK_DEADLOCK FALSE
