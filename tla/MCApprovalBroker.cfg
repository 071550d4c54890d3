SPECIFICATION Spec
CONSTANTS
  Requests = {r1, r2}
  Deciders = {d1, d2}
  Watchers = {w1}
  NoRequest = NoRequest
INVARIANTS
  TypeOK
  FailClosed
  RefusalJustified
  BadgeMatchesVersion
PROPERTIES
  ApproveReturns
  DashboardCatchesUp
  ImplementsGate
CHECK_DEADLOCK FALSE
