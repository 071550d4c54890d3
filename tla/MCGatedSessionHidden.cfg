SPECIFICATION Spec
CONSTANTS
  Names = {n1}
  Portals = {p1}
  Statements <- ClientTexts
  SetMayFail = FALSE
  None = None
INVARIANTS
  HiddenWritesAreStopped
CHECK_DEADLOCK FALSE
