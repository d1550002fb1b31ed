CONSTANTS
  Daemons = {d1, d2}
  Clients = {t1, g1}
  GoClients = {g1}
  None = None
  Stale = Stale
  MaxQuits = 1
SPECIFICATION FairSpec
INVARIANTS
  OneDaemonUnlessRaced
PROPERTIES
  
  ServedOrTold
