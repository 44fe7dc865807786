---------------------------- MODULE MCEventAdmin ----------------------------
(* Small instances of EventAdmin for TLC. *)
EXTENDS EventAdmin, TLC

\* Executors differ only by the call they are in.
WorkerSymmetry == Permutations(Workers)
=============================================================================
