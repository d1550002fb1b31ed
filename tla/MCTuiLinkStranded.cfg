CONSTANTS
  Calls = {c1, sub}
  Subscribe = sub
  MaxDeaths = 2
SPECIFICATION FairSpec
PROPERTY
  BroughtBack
CHECK_DEADLOCK FALSE
