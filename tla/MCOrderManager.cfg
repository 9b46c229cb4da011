SPECIFICATION Spec
CONSTANTS
  Worker = {w1, w2}
  Amount = {1, 2}
  MaxOrders = 3
  MaxRestarts = 0
  MaxFailures = 0
  ClockSteps = {1}
  TestMode = {FALSE, TRUE}
SYMMETRY WorkerSymmetry
INVARIANTS
  TypeOK
  EveryTradeCounted
  TradesFindOrders
  RecordIsTrue
\* All orders may have been placed and traded: nothing is left to do.
CHECK_DEADLOCK FALSE
