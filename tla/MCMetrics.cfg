SPECIFICATION FairSpec
CONSTANTS
  Owners = {o1, o2}
  Nil = Nil
  StaleAfter = 2
  ChanCap = 1
  MayBeLate = {o2}
  MaxCount = 2
INVARIANTS CountedOnce
PROPERTIES NeverDown EndedLeaves
CHECK_DEADLOCK FALSE
