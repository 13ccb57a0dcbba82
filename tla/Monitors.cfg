\* Four goroutines, each reader or writer as it likes: two writers compete with
\* two overlapping readers.  At the condition two consumers can sleep while a
\* third barges in; two producers signal in either order, each with or without L.
CONSTANTS
  Goroutines = {g1, g2, g3, g4}
  Free = Free
  CondUsers = {c1, c2, c3, p1, p2}
  Consumers = {c1, c2, c3}
  Producers = {p1, p2}
  MaxAvail = 2
  Nobody = Nobody
SPECIFICATION MonitorsSpec
INVARIANTS
  RWInv
  MonitorInv
PROPERTIES
  ReadersGoOn
  NoSleepOnItems
  SignalsReachEverybody
