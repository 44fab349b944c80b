CONSTANTS
  Items = {i1}
  Writers = {w1, w2}
  Jobs = {j1}
  NoRef = NoRef
  Lifetime = 3
  Patience = 1
  Limit = 1
  Kinds = {"create", "bump"}
  MaxTime = 5
  MaxFails = 1
SPECIFICATION FairSpec
CHECK_DEADLOCK FALSE
INVARIANTS TypeOK NoImmortal
PROPERTIES Expires
