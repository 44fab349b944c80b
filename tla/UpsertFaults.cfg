CONSTANTS
  n1 = n1
  n2 = n2
  Nodes = {n1, n2}
  Relations = {0, 1}
  Requests = {q1}
  Bodies <- MixedBodies
  LeftEdge = TRUE
  RightEdge = TRUE
  Removals = TRUE
  Evictions = FALSE
  MaxFails = 3
SPECIFICATION FairSpec
CHECK_DEADLOCK FALSE
INVARIANTS AtMostThrice RelationWritten
PROPERTIES Answered
