SPECIFICATION Spec
CONSTANTS
  n1 = n1
  n2 = n2
  s1 = s1
  s2 = s2
  Node = {n1, n2}
  Symbol = {s2}
  Home <- HomeOfOne
  ResultHost = n1
  Stubs <- OneStub
  MaxOrders = 0
  MaxRestarts = 1
  MaxTimeouts = 0
  MaxSwitches = 0
INVARIANTS
  RoutersComplete
  ResultActorKnown
PROPERTIES
  EveryNodeServes
\* All nodes may serve: nothing is left to do.
CHECK_DEADLOCK FALSE
