SPECIFICATION Spec
CONSTANTS
  Requests = {r1, r2}
  Deciders = {d1, d2}
  Watchers = {w1}
  NoRequest = NoRequest
INVARIANTS
  AcceptedDecisionTakesEffect
CHECK_DEADLOCK FALSE
