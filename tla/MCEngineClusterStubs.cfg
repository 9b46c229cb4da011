SPECIFICATION Spec
CONSTANTS
  n1 = n1
  n2 = n2
  s1 = s1
  s2 = s2
  Node = {n1, n2}
  Symbol = {s1, s2}
  Home <- HomeOfTwo
  ResultHost = n1
  Stubs <- TwoStubs
  MaxOrders = 2
  MaxRestarts = 0
  MaxTimeouts = 0
  MaxSwitches = 0
INVARIANTS
  InSubmissionOrder
\* All orders may have been sent: nothing is left to do.
CHECK_DEADLOCK FALSE
