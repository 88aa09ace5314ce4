SPECIFICATION Spec
CONSTANTS
  Jobs <- OneJob
  NTasks <- NTasksOne
  Conns = {c1, c2}
  Nil = Nil
  WalModes <- WithLog
  CompactAbove = 3
  DiskFaults = FALSE
  ReuseIDs = FALSE
  MaxCrashes = 0
SYMMETRY ConnSymmetry
INVARIANTS EveryWaiterAttached
