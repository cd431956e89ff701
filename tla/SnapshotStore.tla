--------------------------- MODULE SnapshotStore ---------------------------
(***************************************************************************)
(* What a wallet's snapshot directory promises: a load returns one whole   *)
(* snapshot.  A save replaces it at one step, or not at all.  A replaced   *)
(* snapshot can come back only after a loss of power, and only until the   *)
(* replacement is on stable storage, which it is before the save returns.  *)
(***************************************************************************)
EXTENDS Integers

VARIABLES
    loaded,     \* the snapshot a load returns; 0: there is none
    stable      \* the snapshot a load returns after a loss of power, at least

vars == <<loaded, stable>>

Init == loaded = 0 /\ stable = 0

(* The one step at which a save takes effect: to a later snapshot. *)
Commit ==
    /\ loaded' > loaded
    /\ UNCHANGED stable

(* The directory reaches the disk. *)
Settle ==
    /\ stable' = loaded
    /\ UNCHANGED loaded

LosePower ==
    /\ loaded' \in {loaded, stable}
    /\ stable' = loaded'

Next == Commit \/ Settle \/ LosePower

Spec == Init /\ [][Next]_vars

=============================================================================
