SPECIFICATION FairSpec
CONSTANTS
  Ends = {"a", "b"}
  Window = 1
  EpochLimit = 2
  SeqSpace = 8
  Modes <- Default
  MaxWrites <- OneWay
  MaxBacklog = 1
  MaxDups = 0
INVARIANTS BacklogOnlyWhenFull
PROPERTIES EventuallyRead NoHalfOpen CloseEnds
CHECK_DEADLOCK FALSE
