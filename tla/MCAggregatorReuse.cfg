SPECIFICATION Spec
CONSTANTS
  Jobs <- OneJob
  NTasks <- NTasksOne
  Conns = {c1, c2}
  Nil = Nil
  WalModes <- WithLog
  CompactAbove = 3
  DiskFaults = FALSE
  ReuseIDs = TRUE
  MaxCrashes = 1
SYMMETRY ConnSymmetry
INVARIANTS NoTaskLost
