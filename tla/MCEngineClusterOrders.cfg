SPECIFICATION Spec
CONSTANTS
  n1 = n1
  n2 = n2
  s1 = s1
  s2 = s2
  Node = {n1, n2}
  Symbol = {s2}
  Home <- HomeOfOne
  ResultHost = n1
  Stubs <- OneStub
  MaxOrders = 2
  MaxRestarts = 0
  MaxTimeouts = 1
  MaxSwitches = 1
INVARIANTS
  InSubmissionOrder
  ClosedLetsNoneIn
  ResultActorKnown
\* All orders may have been sent: nothing is left to do.
CHECK_DEADLOCK FALSE
