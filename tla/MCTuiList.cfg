CONSTANTS
  Calls = {sub}
  Subscribe = sub
  MaxDeaths = 2
  Ids = {a1}
  Page = 1
  MaxKeys = 1
SPECIFICATION ListsFairSpec
INVARIANT
  ListIsRight
PROPERTY
  CountHeals
CHECK_DEADLOCK FALSE
