SPECIFICATION Spec
CONSTANTS
  Sessions = {s1}
  Operators = {o1}
  TripStrikes = 2
  MaxPassword = 2
  MaxPipelined = 0
PROPERTIES
  DisconnectedClientDenies
CHECK_DEADLOCK FALSE
