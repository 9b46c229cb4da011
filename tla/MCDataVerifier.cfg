SPECIFICATION Spec
CONSTANTS
  Trade <- FourTrades
  MaxA = 4
  MaxB = 3
  EachTurn = {0, 2}
  MaxFailures = 1
INVARIANTS
  NoFalseAlarm
  ComparedPartAgrees
  ReadsInBounds
\* The verifier ends.
CHECK_DEADLOCK FALSE
