--------------------------- MODULE MCReservations ---------------------------
(* Reservations for TLC. *)
EXTENDS Reservations, TLC

(* The builds take no part in any ordering, so they are interchangeable. *)
BuildSymmetry == Permutations(Builds)

=============================================================================
