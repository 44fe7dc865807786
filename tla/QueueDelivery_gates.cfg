SPECIFICATION FairQueueSpec
CONSTANTS
  Events = {1, 2}
  DemoEvents = {2}
  Workers = {w1, w2}
  MaxTime = 1
  Grace = 1
  BatchSize = 1
  MaxReceives = 1
  MaxLockWait = 0
  MaxAttempts = 6
  Messages = {m1, m2, m3}
  RealWorkers = {w1}
  ReceiveBatch = 1
  ExternalTypes = {"dispatch_due_events"}
  UserChannels = {"sms"}
  MaxFaults = 1
PROPERTIES
  DueEventsAreClaimed
