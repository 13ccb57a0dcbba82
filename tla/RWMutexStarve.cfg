\* Two readers and one writer are enough to keep the writer out.
CONSTANTS
  Goroutines = {g1, g2, g3}
  Free = Free
SPECIFICATION LiveSpec
PROPERTIES
  LockReturns
