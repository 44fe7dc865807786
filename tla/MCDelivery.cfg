SPECIFICATION Spec
CONSTANTS
  Events = {1, 2}
  DemoEvents = {2}
  Workers = {w1, w2}
  MaxTime = 3
  Grace = 0
  BatchSize = 2
  MaxReceives = 2
  MaxLockWait = 1
  MaxAttempts = 2
SYMMETRY WorkerSymmetry
INVARIANTS
  TypeOK
  ExclusiveClaims
  SubmissionMatchesRow
  AuditMatchesProvider
  AttemptsMatchRow
  OutcomeIsTruthful
  RecordIsNeverRefused
CHECK_DEADLOCK FALSE
PROPERTIES
  LegalTransitions
  HistoryIsImmutable
  QuarantineHolds
  RefinesLifecycle
