SPECIFICATION Spec
CONSTANTS
  Names = {n1, n2}
  Portals = {p1}
  Statements <- ClientTexts
  SetMayFail = TRUE
  None = None
INVARIANTS
  TypeOK
  MutationsAreApproved
  ReadOnlyIsOwed
  UnapprovedWritesAreOverdueOrChained
CHECK_DEADLOCK FALSE
