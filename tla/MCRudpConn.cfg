SPECIFICATION Spec
CONSTANTS
  Ends = {"a", "b"}
  Window = 2
  EpochLimit = 2
  SeqSpace = 8
  Modes <- BothModes
  MaxWrites <- OneWay
  MaxBacklog = 1
  MaxDups = 1
INVARIANTS AtLeastOnce InOrder
PROPERTIES ImplementsContract
CHECK_DEADLOCK FALSE
