SPECIFICATION FairSpec
CONSTANTS
  Jobs <- TwoJobs
  NTasks <- NTasksTwo
  Conns = {c1, c2}
  Nil = Nil
  WalModes <- WithOrWithout
  CompactAbove = 3
  DiskFaults = TRUE
  ReuseIDs = FALSE
  MaxCrashes = 2
INVARIANTS TypeOK ExactlyOnce AnswersComplete OneResultPerConn RunningXorStored AttachmentConsistent LossWillBeNoticed WaitingIsAttached NoTaskLost StateMatchesLog DurableBeforeUse
PROPERTIES AbandonedJobEnds NobodyWaitsForever
