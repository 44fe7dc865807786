SPECIFICATION AdminSpec
CONSTANTS
  Events = {1}
  DemoEvents = {}
  Workers = {w1, w2}
  MaxTime = 2
  Grace = 1
  BatchSize = 1
  MaxReceives = 2
  MaxLockWait = 0
  MaxAttempts = 2
  Deletable = {}
  MaxSaves = 1
SYMMETRY WorkerSymmetry
CHECK_DEADLOCK FALSE
PROPERTIES
  LegalTransitions
