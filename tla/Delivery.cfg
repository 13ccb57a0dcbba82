\* batcher: three loaders that call for ever; one reads alone, two share the
\* next reading, and the first comes back while they do.  pubsub: one
\* subscription with a handler as slow as can be; five messages are more than
\* the channels of one place and the worker hold, so that only the buffer
\* between them lets the publisher go on.
CONSTANTS
  Loaders = {g1, g2, g3}
  MaxStores = 1
  Publishers = {p}
  Subs = {s}
  Closers = {c}
  Subjects = {t}
  Chan = 1
  MaxMsgs = 5
  Free = Free
SPECIFICATION DeliverySpec
INVARIANTS
  BatchesApart
  NoStaleRead
PROPERTIES
  LoadReturns
  NothingHangs
\* When the bus is closed everybody is done.
CHECK_DEADLOCK FALSE
