------------------------------ MODULE MCStores ------------------------------
(***************************************************************************)
(* The two stores that a process keeps on its disk: the private-state      *)
(* journal of a contract and the snapshot directory of the wallet.  They   *)
(* are directories of their own, written by crates that share no state, so *)
(* a behaviour has one of them run while the other one stays empty.        *)
(***************************************************************************)
EXTENDS MCPrivateJournal, WalletStore

VARIABLE store      \* the store of this behaviour

InitStores ==
    /\ Init
    /\ InitStore
    /\ store \in {"journal", "wallet"}

NextStores ==
    /\ \/ store = "journal" /\ Next /\ UNCHANGED storeVars
       \/ store = "wallet" /\ NextStore /\ UNCHANGED vars
    /\ UNCHANGED store

(* No call starts while the wallet's store runs, and then the fairness of  *)
(* the journal asks for nothing.                                           *)
Stores ==
    /\ InitStores
    /\ [][NextStores]_<<vars, storeVars, store>>
    /\ Fairness

=============================================================================
