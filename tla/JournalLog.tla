----------------------------- MODULE JournalLog -----------------------------
(***************************************************************************)
(* What the private-state journal of a contract promises to a caller that  *)
(* settles each call before the next: a log of the calls that reached the  *)
(* chain.  A call is appended at the end, confirmed in place, or, as long  *)
(* as it is not confirmed, taken off the end.                              *)
(***************************************************************************)
EXTENDS Sequences, FiniteSets, SequencesExt

CONSTANT Calls

VARIABLES log, confirmed

(* append_pending *)
AppendPending(c) ==
    /\ c \notin ToSet(log)
    /\ log' = Append(log, c)
    /\ UNCHANGED confirmed

(* confirm *)
Confirm(c) ==
    /\ c \in ToSet(log)
    /\ confirmed' = confirmed \cup {c}
    /\ UNCHANGED log

(* mark_failed *)
MarkFailed ==
    /\ log # <<>>
    /\ Last(log) \notin confirmed
    /\ log' = Front(log)
    /\ UNCHANGED confirmed

Init == log = <<>> /\ confirmed = {}

Next == (\E c \in Calls : AppendPending(c) \/ Confirm(c)) \/ MarkFailed

Spec == Init /\ [][Next]_<<log, confirmed>>

=============================================================================
