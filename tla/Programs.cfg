\* Two callers of UpdateValue and of the ledger, three users of the cache,
\* two files of three characters at most; two peers and an address that never
\* answers; two clients of the web services, three requests through the
\* middleware; three files in git; two tasks to grade; an LRU cache of at most
\* two of three keys; the inputs of MCAlgorithms for the algorithms, with small
\* integers, and four rows of forth; two publishers and two subscriptions, which
\* come and go while both publish and the bus is closed; channels of one place.
CONSTANTS
  Updaters = {c1, c2}
  MaxUUID = 5
  MaxRemovals = 1
  CacheUsers = {u1, u2, u3}
  Artifacts = {a1}
  MaxWrites = 3
  MaxFaults = 2
  Clients = {c1, c2}
  Accounts = {1, 2}
  Amounts = {1}
  MaxMoney = 2
  MaxNoRow = 1
  Letters = {1, 2}
  NumFiles = 2
  MaxFile = 3
  BufLen = 2
  Peers = {p1, p2}
  Ghosts = {g}
  MaxMeta = 1
  MaxJobs = 2
  MaxLosses = 1
  MaxStops = 1
  Callers = {c1, c2}
  Urls = {l1, l2}
  MaxDraws = 3
  MaxTodos = 2
  GitFiles = {1, 2, 3}
  Blame <- BlameOf
  LastCommit <- LastOf
  Author <- AuthorOf
  Committer <- CommitterOf
  Ext <- ExtOf
  SemCap = 2
  Requests = {r1, r2, r3}
  Routes = {t1}
  NoRoute = none
  Groups <- TaskGroups
  Watched <- WatchedBy
  Stmts <- StmtsIn
  MinCoverage = 50
  LruKeys = {1, 2, 3}
  LruValues = {1, 2}
  MaxCap = 2
  MaxUses = 4
  LimitInt = 7
  OctetBits = 5
  NumLimit = 330
  DurBits = 7
  DurUnits <- UnitLengths
  Rows <- ForthRows
  Numbers <- ForthNumbers
  MaxRows = 4
  MaxLen = 6
  Publishers = {q1, q2}
  Subs = {s1, s2}
  Closers = {d}
  Subjects = {t}
  Chan = 1
  MaxMsgs = 2
  Free = Free
SPECIFICATION ProgramsSpec
INVARIANTS
  ServicesTypeOK
  AppliedOnce
  LocksAreExact
  ArtifactsAreWhole
  MoneyConserved
  DeadlockNeedsANewRow
  SortIsRight
  MembersAreReal
  AnswersAreTrue
  GradeIsHonest
  ResultsAreRight
  InOrder
  ChannelsSafe
  CloseIsFinal
PROPERTIES
  NothingOverwritten
\* UpdateValue, Sort, gitfame, the grader and the algorithms end, a closed bus leaves
\* nothing to do, and bounds are used up.
CHECK_DEADLOCK FALSE
