\* Two workers that take the lease from each other, and a position reading.
SPECIFICATION Spec
CONSTANTS
  Workers = {w1, w2}
  None = None
  Capacity = 2
  BatchSize = 2
  MaxTrade = 3
  MaxVoid = 0
  Follow = TRUE
  MaxSession = 1
SYMMETRY Symmetry
INVARIANTS
  NothingAppearsBehind
  NothingUnseen
CHECK_DEADLOCK FALSE
