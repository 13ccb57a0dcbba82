\* Four goroutines at a wait group, five at a Once; four programs over a tree
\* of four directories, two of which may be read at a time; six caches with
\* three callers and two keys; two merged channels; three chatters.
CONSTANTS
  WgUsers = {g1, g2, g3, g4}
  Deltas = {1, 2}
  MaxCnt = 3
  OnceUsers = {g1, g2, g3, g4, g5}
  Dirs = {1, 2, 3, 4}
  Root = 1
  Subdirs <- Tree
  NumFilesIn <- TreeFiles
  SemaCap = 2
  Getters = {g1, g2, g3}
  MemoKeys = {k1, k2}
  Inputs = {i1, i2}
  MaxInputCap = 1
  MaxSent = 2
  Conns = {n1, n2, n3}
  MaxLines = 1
SPECIFICATION ConcSpec
INVARIANTS
  ConcTypeOK
  LetGoInTime
  ChannelsKeepAll
  ComputedOnce
PROPERTIES
  ReleasedOnlyAtZero
  CalledOnce
  NobodyIsLeftBehind
\* Every program but the wait group ends.
CHECK_DEADLOCK FALSE
