CONSTANTS
  Actors = {p1, p2}
  MaxHandle = 2
  Daemons = {d1, d2, d3}
  MaxFlows = 6
  LogLimit = 2
  Requests = {q1, q2}
  Tokens = {t1, t2}
  Orgs = {o1}
SPECIFICATION BrokerSpec
INVARIANTS
  BrokerTypeOK
  CondemnedHandleStaysDead
  SoloCommandWiresVM
  ServingDaemonCanBeFound
  EveryFlowCountedOnce
  ShownTokensCanBeRevoked
PROPERTY CondemnedHandleOpensNothing
SYMMETRY Interchangeable
CHECK_DEADLOCK FALSE
