CONSTANTS
  Registries = {r1, r2}
  Vaults = {v1}
  Rows = {a, b}
  MaxKeys = 2
  Clients = {c1, c2}
  Slots = {fly, doppler}
  MaxConns = 2
  MaxTime = 3
  Intervals = {1}
  Sandboxes = {s1, s2}
  Enablers = {e1, e2}
  MaxPort = 2
  MaxGlob = 3
  Aliases = {"x"}
SPECIFICATION HostSpec
INVARIANTS
  HostTypeOK
  OneKeySealsEverything
  OpenRegistryHasItsKey
  ScrubFlagTellsResidue
  ImportUndoesNothing
  RulesFollowPolicy
  TrafficIsAttributed
  
  
PROPERTY SweepRotatesOnlyWhatIsDue
SYMMETRY Interchangeable
CHECK_DEADLOCK FALSE
