SPECIFICATION SSpec
CONSTANTS
  Jobs <- OneJob
  NTasks <- ThreeChunks
  Conns = {c1}
  Nil = Nil
  WalModes <- WithLog
  CompactAbove = 3
  DiskFaults = FALSE
  ReuseIDs = FALSE
  MaxCrashes = 1
  Workers = {w1}
  Immortal = {}
  Window = 2
  NQCap = 1
  PQCap = 1
  ResultCap = 1
  MayStop = TRUE
INVARIANTS TaskConserved WindowRespected StopReachesAll
CHECK_DEADLOCK FALSE
