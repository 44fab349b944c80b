CONSTANTS
  k1 = k1
  k2 = k2
  info = info
  other = other
  Keys = {k1, k2}
  Right <- Pair
  Kind <- Bumping
  AlwaysAwaiting = FALSE
  MaxEvents = 2
SPECIFICATION Spec
PROPERTIES Answered
