------------------------ MODULE MCPhoneVerification ------------------------
(***************************************************************************)
(* Model values for PhoneVerification: interchangeable rows, numbers and   *)
(* requests.                                                               *)
(***************************************************************************)
EXTENDS PhoneVerification, TLC

PhoneSymmetry ==
  Permutations(Phones) \cup Permutations(Numbers) \cup Permutations(Checks)
=============================================================================
