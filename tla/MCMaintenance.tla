--------------------------- MODULE MCMaintenance ---------------------------
(* Instances of Maintenance for TLC. *)
EXTENDS Maintenance

CONSTANTS a, b, m1, m2

MCCandidates == {[committee |-> <<a>>, threshold |-> 1],
                 [committee |-> <<a, b>>, threshold |-> 2],
                 [committee |-> <<b, b>>, threshold |-> 2],
                 [committee |-> <<b>>, threshold |-> 0]}

Insert(slot) == [kind |-> "insert", circuit |-> "inc", slot |-> slot]
RemoveIt     == [kind |-> "remove", circuit |-> "inc"]
Replace(c)   == [kind |-> "replace", to |-> c]
Retire       == [kind |-> "retire"]

MCBatches == {<<Insert("V3")>>, <<Insert("V3"), Insert("V3")>>,
              <<RemoveIt, Insert("V4")>>, <<Insert("V3"), RemoveIt>>,
              <<RemoveIt, Insert("V4"), RemoveIt>>, <<Retire>>}
             \cup {<<Replace(c)>> : c \in MCCandidates}
=============================================================================
