\* Two peers, one of which may stop, and an address that never answers.
CONSTANTS
  Peers = {p1, p2}
  Ghosts = {g}
  MaxMeta = 1
  MaxJobs = 3
  MaxLosses = 1
  MaxStops = 1
SPECIFICATION GossipSpec
INVARIANTS
  DeadMembersArePinged
\* Calls and goroutines are bounded.
CHECK_DEADLOCK FALSE
