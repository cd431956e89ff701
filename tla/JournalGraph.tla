---------------------------- MODULE JournalGraph ----------------------------
(***************************************************************************)
(* The graph of a private-state journal: one snapshot per transaction,     *)
(* each naming the snapshot whose state its call started from.             *)
(***************************************************************************)
EXTENDS Naturals, FiniteSets

CONSTANT NoSnapshot     \* the parent of the first snapshot, the head of an empty journal

(* The record for `hash`, started from `parent`. *)
PendingSnapshot(hash, parent) == [hash |-> hash, parent |-> parent, status |-> "Pending"]

Hashes(S) == {s.hash : s \in S}

(* The snapshots that nothing in S depends on. *)
Leaves(S) == {s \in S : \A t \in S : t.parent # s.hash}

Roots(S) == {s \in S : s.parent = NoSnapshot}

(* walk_children: the hashes reachable from `starts` along child edges. *)
Walk(S, starts) ==
    LET reach[n \in 0..Cardinality(S)] ==
            IF n = 0 THEN starts
            ELSE reach[n - 1] \cup {s.hash : s \in {t \in S : t.parent \in reach[n - 1]}}
    IN  reach[Cardinality(S)]

(* find_leaf succeeds: no snapshot at all, or one leaf and every snapshot  *)
(* reachable from a root.                                                  *)
FindsLeaf(S) ==
    \/ S = {}
    \/ /\ Cardinality(Leaves(S)) = 1
       /\ Walk(S, Hashes(Roots(S))) = Hashes(S)

(* Mutant of JournalHead: the oldest snapshot. *)
HeadOldest(S) == IF S = {} THEN NoSnapshot ELSE (CHOOSE s \in Roots(S) : TRUE).hash

(* The leaf it returns. *)
JournalHead(S) == IF S = {} THEN NoSnapshot ELSE (CHOOSE s \in Leaves(S) : TRUE).hash

(* Mutant of CascadeOrder: a parent may go before its child. *)
CascadeAnyOrder(S, doomed) == doomed

(* cascade_drop deletes child first: what may go next, of the doomed. *)
CascadeOrder(S, doomed) ==
    {h \in doomed : \A s \in S : s.hash \in doomed => s.parent # h}

=============================================================================
