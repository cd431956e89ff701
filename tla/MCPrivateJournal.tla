-------------------------- MODULE MCPrivateJournal --------------------------
(* PrivateJournal for TLC. *)
EXTENDS PrivateJournal, TLC

(* Calls are compared for equality only, so they are interchangeable. *)
CallSymmetry == Permutations(Calls)

=============================================================================
