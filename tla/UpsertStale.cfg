CONSTANTS
  n1 = n1
  n2 = n2
  Nodes = {n1, n2}
  Relations = {0, 1}
  Requests = {q1, q2, q3}
  Bodies <- OneBody
  LeftEdge = TRUE
  RightEdge = TRUE
  Removals = TRUE
  Evictions = FALSE
  MaxFails = 0
SPECIFICATION Spec
SYMMETRY Symmetry
CHECK_DEADLOCK FALSE
INVARIANTS WillBeCreated
