SPECIFICATION ReplySpec
CONSTANTS
  Events = {1, 2}
  DemoEvents = {}
  MaxTime = 2
  Users = {u1}
  Nobody = nobody
  EventOwner <- EventsOfOne
  Calls = {c1}
  CallOwner <- CallsOfOne
  Sids = {}
  Handlers = {h1, h2}
  AskedTimes = {1, 2}
  UserChannels = {"voice"}
INVARIANTS
  TargetIsNext
