\* Three callers over two keys: a caller can wait for two others at once, and
\* two waiters can compete for the keys that one release frees.
CONSTANTS
  Goroutines = {g1, g2, g3}
  Keys = {k1, k2}
  Free = Free
SPECIFICATION LiveSpec
INVARIANTS
  LockInv
  BookkeepingExact
  NoLostWakeup
PROPERTIES
  ImplementsLiveness
  CancelReturns
