SPECIFICATION Spec
CONSTANTS
  c1 = c1
  c2 = c2
  Caller = {c1, c2}
  Worker = {w}
  Bounds <- Both
INVARIANT
  LatencyOfTheRecording
\* Two threads in a vector, or a division by zero, end the behaviour.
CHECK_DEADLOCK FALSE
