SPECIFICATION Spec
CONSTANTS
  Worker = {w1, w2}
  Amount = {1}
  MaxOrders = 2
  MaxRestarts = 0
  MaxFailures = 0
  ClockSteps = {1}
  TestMode = {FALSE}
INVARIANTS
  SubmittedMeansNoResult
\* All orders may have been placed and traded: nothing is left to do.
CHECK_DEADLOCK FALSE
