CONSTANTS
  Items = {i1, i2}
  Writers = {w1}
  Jobs = {j1}
  NoRef = NoRef
  Lifetime = 3
  Patience = 1
  Limit = 1
  Kinds = {"create", "bump", "plain"}
  MaxTime = 6
  MaxFails = 1
SPECIFICATION Spec
SYMMETRY ItemSymmetry
CHECK_DEADLOCK FALSE
INVARIANTS NoImmortal SerialExact SerialOnTime
