---------------------------- MODULE MCContracts ----------------------------
(***************************************************************************)
(* What a client does to a contract: a call or a deploy, from its build to *)
(* its verdict, or the updates of its verifier keys and its authority.     *)
(* The two meet on the chain only, in transactions that each side has as   *)
(* far as it needs them, so a behaviour is of one of the two.              *)
(***************************************************************************)
EXTENDS MCMaintenance, ContractTx

VARIABLE client     \* what the client of this behaviour does

NoOperation == [kind |-> "call", changes |-> FALSE, store |-> FALSE, declares |-> FALSE]

InitContracts ==
  /\ Init
  /\ InitMaintenance
  /\ client \in {"operates", "maintains"}
  /\ client = "maintains" => op = NoOperation

NextContracts ==
  /\ \/ client = "operates" /\ Next /\ UNCHANGED maintenanceVars
     \/ client = "maintains" /\ NextMaintenance /\ UNCHANGED vars
  /\ UNCHANGED client

\* No timer runs before an operation starts, and then the fairness asks for nothing.
Contracts ==
  /\ InitContracts
  /\ [][NextContracts]_<<vars, maintenanceVars, client>>
  /\ Fairness

=============================================================================
