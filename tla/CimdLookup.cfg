\* Three clients and a cache of two, two requests and one slot, under fairness of
\* clock and timers.
SPECIFICATION FairSpec
CONSTANTS
  Ids = {i1, i2, i3}
  Docs = {d1}
  Lookups = {l1, l2}
  Cap = 2
  Slots = 1
  TTL = 3
  NegativeTTL = 2
  Deadline = 1
  Addresses = 1
  MaxTime = 3
CHECK_DEADLOCK FALSE
INVARIANTS
  TypeOK
  AnswersAreRecent
PROPERTIES
  EvictionNeedsChurn
  LookupsEnd
