SPECIFICATION FairQueueSpec
CONSTANTS
  Events = {1}
  DemoEvents = {}
  Workers = {w1, w2}
  MaxTime = 1
  Grace = 1
  BatchSize = 1
  MaxReceives = 2
  MaxLockWait = 0
  MaxAttempts = 6
  Messages = {m1, m2, m3}
  RealWorkers = {w1}
  ReceiveBatch = 2
  ExternalTypes = {"dispatch_due_events", "malformed"}
  UserChannels = {"sms"}
  MaxFaults = 1
INVARIANTS
  QueueTypeOK
  ClaimsUnderMessage
  RetryKeepsMessageUntilFault
PROPERTIES
  ClaimedEventsConclude
  ExhaustionSurfaces
  MessagesDrain
  QuarantineSurfaces
