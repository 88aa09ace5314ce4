SPECIFICATION FairServerSpec
CONSTANTS
  Clients = {c1, c2}
  Nobody = Nobody
  EpochLimit = 2
  MaxIDs = 2
  MaxRuns = 2
INVARIANTS OneConnPerAddr 
PROPERTIES ServerCloseReturns
CHECK_DEADLOCK FALSE
