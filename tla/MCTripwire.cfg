SPECIFICATION Spec
CONSTANTS
  Sessions = {s1, s2}
  Operators = {o1}
  TripStrikes = 2
  MaxPassword = 3
  MaxPipelined = 1
INVARIANTS
  TypeOK
  OnlyStartersSurvive
  LimitMeansSuspending
  CompromisedPasswordStaysDead
PROPERTIES
  SweptSessionsEnd
CHECK_DEADLOCK FALSE
