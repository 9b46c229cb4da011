SPECIFICATION Spec
CONSTANTS
  Client = {c1, c2, c3}
  MaxTrades = 3
INVARIANTS
  FeedComplete
  WritersAlive
PROPERTIES
  ListsGetSent
\* All trades may have been sent.
CHECK_DEADLOCK FALSE
