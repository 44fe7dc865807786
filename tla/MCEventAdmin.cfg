SPECIFICATION AdminSpec
CONSTANTS
  Events = {1}
  DemoEvents = {}
  Workers = {w1, w2}
  MaxTime = 1
  Grace = 0
  BatchSize = 1
  MaxReceives = 2
  MaxLockWait = 0
  MaxAttempts = 3
  Deletable = {1}
  MaxSaves = 2
SYMMETRY WorkerSymmetry
INVARIANTS
  AdminTypeOK
  OneSubmissionPerReset
  PendingSavesAreHarmless
  EverySubmissionIsAudited
CHECK_DEADLOCK FALSE
