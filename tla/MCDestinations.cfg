SPECIFICATION RouteSpec
CONSTANTS
  Phones = {p1, p2}
  Numbers = {n1, n2}
  NoNumber = NoNumber
  Checks = {c1}
  StaffEdits = "any"
  MaxForms = 2
  Events = {e1}
  Authorized = n1
  Commands = {"sms", "worker"}
  MaxDrafts = 2
SYMMETRY RouteSymmetry
INVARIANTS
  PhoneTypeOK
  MarkIsEarned
CHECK_DEADLOCK FALSE
PROPERTIES
  DestinationsWereApproved
  
