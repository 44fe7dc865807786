SPECIFICATION QueueSpec
CONSTANTS
  Events = {1}
  DemoEvents = {1}
  Workers = {w1}
  MaxTime = 1
  Grace = 1
  BatchSize = 1
  MaxReceives = 2
  MaxLockWait = 0
  MaxAttempts = 6
  Messages = {m1, m2, m3}
  RealWorkers = {}
  ReceiveBatch = 1
  ExternalTypes = {"dispatch_due_events"}
  UserChannels = {"sms"}
  MaxFaults = 1
INVARIANTS
  RetryHasMessage
