CONSTANTS
  Requests = {q1, q2}
  Instances = {y1, y2, y3, y4}
  None = None
  CacheTime = 10
  RefreshDiff = 9
  Patience = 1
SPECIFICATION FairSpec
CHECK_DEADLOCK FALSE
INVARIANTS TypeOK OneInstance UsedIsOpen
PROPERTIES Answered IdleCloses Implements
