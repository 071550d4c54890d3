SPECIFICATION Spec
CONSTANTS
  Jobs = {j1}
  Names = {n1}
  StepCount = 3
  Soft = {3}
  Destroyable = {}
  MaxLostSaves = 0
  None = None
PROPERTY
  RetryKeepsWhatIsDone
CHECK_DEADLOCK FALSE
