SPECIFICATION CallsSpec
CONSTANTS
  Calls = {c1}
  MaxReceives = 4
  RetryBase = 30
  RetryMax = 100
INVARIANTS
  CallsTypeOK
  NewestIsStored
  BackoffIsOrdered
  FailuresAreClassified
  PlacedIsNeverRefused
PROPERTIES
  OutcomeIsStored
CHECK_DEADLOCK FALSE
