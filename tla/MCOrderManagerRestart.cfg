SPECIFICATION Spec
CONSTANTS
  Worker = {w1, w2}
  Amount = {1, 2}
  MaxOrders = 2
  MaxRestarts = 1
  MaxFailures = 1
  ClockSteps = {0, 1}
  TestMode = {FALSE}
INVARIANTS
  RecordIsTrue
PROPERTIES
  RecordsOnlyAdvance
  StreamDrains
\* All orders may have been placed and traded: nothing is left to do.
CHECK_DEADLOCK FALSE
