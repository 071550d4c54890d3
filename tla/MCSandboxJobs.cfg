SPECIFICATION Spec
CONSTANTS
  Jobs = {j1, j2}
  Names = {n1}
  StepCount = 3
  Soft = {3}
  Destroyable = {n1}
  MaxLostSaves = 1
  None = None
INVARIANTS
  TypeOK
  OneCreationAtATime
  SucceededMeansDone
  CleanedMeansGone
PROPERTIES
  JobsLiveUpToIt
  JobsSettle
CHECK_DEADLOCK FALSE
