\* The negative delta that the documentation allows.
CONSTANTS
  WgUsers = {g1, g2, g3}
  Deltas <- SignedDeltas
  MaxCnt = 3
SPECIFICATION WgSpec
INVARIANTS
  NobodyStrandedAtZero
CHECK_DEADLOCK FALSE
