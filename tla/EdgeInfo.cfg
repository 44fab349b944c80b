CONSTANTS
  k1 = k1
  k2 = k2
  info = info
  other = other
  Keys = {k1, k2}
  Right <- Pair
  Kind <- Resolving
  AlwaysAwaiting = TRUE
  MaxEvents = 2
SPECIFICATION Spec
SYMMETRY Symmetry
INVARIANTS TypeOK Complete KeyHasRow
