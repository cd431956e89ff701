------------------------------ MODULE MCCalls ------------------------------
(***************************************************************************)
(* A contract call without its chain: a circuit of the grammar runs, or    *)
(* the transactions of a few parties are built and paid for.  The two do   *)
(* not meet: the ledger library turns what a circuit recorded into the     *)
(* transcripts that a build starts from, and both of its sides are here.   *)
(***************************************************************************)
EXTENDS MCCircuits, MCBuilds

vars == <<circuitVars, buildVars>>

Init ==
  \/ InitCircuit /\ asked = <<>> /\ made = NothingMade
  \/ InitBuilds /\ job = NoJob /\ outcome = NoRun

Next ==
  \/ CircuitNext /\ UNCHANGED buildVars
  \/ (Build \/ Pay) /\ UNCHANGED circuitVars

Spec == Init /\ [][Next]_vars

=============================================================================
