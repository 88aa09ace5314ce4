SPECIFICATION FairSpec
CONSTANTS
  Conns = {k1}
  MaxWrites <- Few
  SockBuf = 1
  MayBreak = {k1}
INVARIANTS CloseDelivers
PROPERTIES CloseEnds ServerCloseEnds EndReported
CHECK_DEADLOCK FALSE
