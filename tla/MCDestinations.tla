--------------------------- MODULE MCDestinations ---------------------------
(***************************************************************************)
(* Model values for Destinations: interchangeable rows, and numbers but    *)
(* for the authorized one.                                                 *)
(***************************************************************************)
EXTENDS Destinations, TLC

RouteSymmetry == Permutations(Phones) \cup Permutations(Numbers \ {Authorized})
=============================================================================
