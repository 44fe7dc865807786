SPECIFICATION FairReplySpec
CONSTANTS
  Events = {1, 2}
  DemoEvents = {}
  MaxTime = 2
  Users = {u1, u2}
  Nobody = nobody
  EventOwner <- EventsOfOne
  Calls = {c1}
  CallOwner <- CallsOfOne
  Sids = {s1}
  Handlers = {h1, h2}
  AskedTimes = {2}
  UserChannels = {"voice"}
INVARIANTS
  ReplyTypeOK
  EffectsMatchRecord
  TargetIsNextUnlessChanged
PROPERTIES
  TransactionsEnd
  RefinesRequestOnce
