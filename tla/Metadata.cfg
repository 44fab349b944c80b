CONSTANTS
  Keys = {nodes, edges}
  Calls = {s1, s2}
  NoKey = NoKey
  MaxAmount = 1
  MaxChanges = 2
  MaxFails = 1
SPECIFICATION FairSpec
CHECK_DEADLOCK FALSE
INVARIANTS TypeOK CleanExact ReadExact CloseFlushes
PROPERTIES EventuallyFlushed
