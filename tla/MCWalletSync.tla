---------------------------- MODULE MCWalletSync ----------------------------
(* WalletSync for TLC. *)
EXTENDS WalletSync, TLC

(* The callers take no part in any ordering, so they are interchangeable. *)
CallerSymmetry == Permutations(Callers)

=============================================================================
