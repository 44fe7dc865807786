----------------------------- MODULE MCDelivery -----------------------------
(* Small instances of Delivery for TLC. *)
EXTENDS Delivery, TLC

\* Executors differ only by the call they are in.
WorkerSymmetry == Permutations(Workers)
=============================================================================
