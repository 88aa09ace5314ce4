SPECIFICATION SFairSpec
CONSTANTS
  Jobs <- OneJob
  NTasks <- TwoChunks
  Conns = {c1}
  Nil = Nil
  WalModes <- WithoutLog
  CompactAbove = 3
  DiskFaults = FALSE
  ReuseIDs = TRUE
  MaxCrashes = 0
  Workers = {w1, w2}
  Immortal = {w1}
  Window = 1
  NQCap = 1
  PQCap = 1
  ResultCap = 1
  MayStop = FALSE
INVARIANTS TaskConserved
PROPERTIES JobsEnd DispatcherFree
