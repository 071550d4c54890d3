SPECIFICATION Spec
CONSTANTS
  Sessions = {s1, s2}
  Operators = {o1}
  TripStrikes = 2
  MaxPassword = 2
  MaxPipelined = 0
INVARIANTS
  SuspendedMeansClosed
CHECK_DEADLOCK FALSE
