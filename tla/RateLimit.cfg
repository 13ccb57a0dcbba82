\* Two callers that come again and again to a limiter with two tokens, so that
\* one has to wait while two timers run, are due or have fired; either of two
\* others, one of them an acquirer too, may stop it.
CONSTANTS
  Acquirers = {g1, g2}
  Stoppers = {g2, s}
  maxCount = 2
  interval = 2
SPECIFICATION RlLiveSpec
INVARIANTS
  RateBound
  TokensConserved
  StopLeavesNothing
PROPERTIES
  NobodyStaysInside
