SPECIFICATION FairSpec
CONSTANTS
  ConnId = {c1, c2}
  ConnTimeout = 2
  ExpandSize = 1
  MaxReleased = 2
  MaxStall = 2
INVARIANTS TypeOK OnePlace NoTimeReversal SessionHasConn OneEnd
PROPERTY Forgotten
