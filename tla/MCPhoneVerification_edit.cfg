SPECIFICATION PhoneSpec
CONSTANTS
  Phones = {p1, p2}
  Numbers = {n1, n2, n3}
  NoNumber = NoNumber
  Checks = {c1, c2}
  StaffEdits = "number"
  MaxForms = 2
SYMMETRY PhoneSymmetry
INVARIANT VerifiedWasApproved
