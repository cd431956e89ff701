----------------------------- MODULE ContractTx -----------------------------
(***************************************************************************)
(* One contract operation from the first read to the last answer: a call,  *)
(* a build-only call or a deploy.  The caller's handle reserves inputs,    *)
(* records the private state, submits, and reads the node's status stream  *)
(* while the chain includes, retracts and finalizes the transaction.       *)
(* Deadlines, failed reads, a dropped future and a crash fall anywhere in  *)
(* between.                                                                *)
(***************************************************************************)
EXTENDS Naturals, SequencesExt

CONSTANTS
  Kinds,       \* the operations explored
  Deadline,    \* the finality and deploy deadlines, in ticks
  MaxReorgs    \* the most times the chain takes the transaction back

ASSUME ContractTxAssumption ==
  /\ Kinds \subseteq {"call", "build", "deploy"}
  /\ Deadline \in Nat \ {0}
  /\ MaxReorgs \in Nat

NoLimit  == 2 * Deadline + 1
Verdicts == {"success", "partial", "failure"}

VARIABLES
  op,       \* what is asked: its kind, whether its private state changes,
            \* whether a store is attached, and whether the handle declares
            \* witnesses
  step,     \* where the caller's handle is
  wait,     \* the wait in hand: the status awaited, for whom, its limit, and
            \* the verdict of the block it has landed at
  elapsed,  \* ticks since the deadline in hand started
  result,   \* what the caller was told
  held,     \* the wallet keeps the inputs of the build reserved
  guard,    \* which value gives them back: the future, the handle, or none
  snap,     \* the private-state snapshot of the operation
  place,    \* where the node has the transaction
  verdict,  \* what the chain made of it in its block
  wire,     \* a submit call was made
  stream,   \* the statuses the node sent and the handle has not read
  open,     \* the status stream goes on
  reorgs,   \* how often the chain took the transaction back
  seen      \* the verdict of the applied inclusion a deploy's wait returned

handle == <<op, step, wait, result, held, guard, snap, seen>>
node   == <<place, verdict, stream, open, reorgs>>
vars   == <<handle, elapsed, node, wire>>

NoWait == [for |-> "best", then |-> "caller", limit |-> NoLimit, at |-> "none"]

Init ==
  /\ op \in [kind : Kinds, changes : BOOLEAN, store : BOOLEAN, declares : BOOLEAN]
  /\ step = "start" /\ wait = NoWait /\ elapsed = 0 /\ result = "none"
  /\ held = FALSE /\ guard = "none"
  /\ snap = "none"
  /\ place = "away" /\ verdict = "none" /\ wire = FALSE
  /\ stream = <<>> /\ open = TRUE /\ reorgs = 0
  /\ seen = "none"

Ends(answer) == step' = "done" /\ result' = answer

\* Give the inputs back, if the value in hand still may.
HandBack == held' = FALSE /\ guard' = "none"

---------------------------------------------------------------------------
(***************************************************************************)
(* Up to the submit.                                                       *)
(***************************************************************************)
\* A deploy with a private state, and a call of a handle that declares witnesses,
\* need a store to record it in.
RequireStore == (IF op.kind = "deploy" THEN op.changes ELSE op.declares) => op.store

(***************************************************************************)
(* The state is read, the key checked and the circuit run before anything  *)
(* is reserved; each can refuse.  A build-only call also refuses a private *)
(* state it could not record.                                              *)
(***************************************************************************)
RunForBuild ==
  /\ step = "start"
  /\ \/ Ends("refused") /\ UNCHANGED <<held, guard>>
     \/ /\ RequireStore /\ op.kind = "build" /\ op.changes
        /\ Ends("unrecorded") /\ UNCHANGED <<held, guard>>
     \/ /\ RequireStore /\ ~(op.kind = "build" /\ op.changes)
        /\ step' = "built" /\ held' = TRUE /\ guard' = "future"
        /\ UNCHANGED result
  /\ UNCHANGED <<op, wait, snap, seen, elapsed, node, wire>>

(***************************************************************************)
(* The build's guard passes to the prepared transaction.  The bytes of a   *)
(* build-only call name no inputs, so nothing can hand them back.          *)
(***************************************************************************)
PrepareReserved ==
  /\ step = "built"
  /\ \/ op.kind = "build" /\ Ends("bytes") /\ guard' = "none" /\ UNCHANGED held
     \/ op.kind # "build" /\ Ends("not_prepared") /\ HandBack
     \/ op.kind # "build" /\ step' = "prepared" /\ UNCHANGED <<held, guard, result>>
  /\ UNCHANGED <<op, wait, snap, seen, elapsed, node, wire>>

\* A call decodes its result before anything is recorded or sent.
Decode ==
  /\ step = "prepared"
  /\ \/ op.kind = "call" /\ Ends("undecodable") /\ HandBack
     \/ step' = "decoded" /\ UNCHANGED <<held, guard, result>>
  /\ UNCHANGED <<op, wait, snap, seen, elapsed, node, wire>>

Persist == op.store /\ op.changes

Record ==
  /\ step = "decoded"
  /\ \/ ~Persist /\ step' = "recorded" /\ UNCHANGED <<held, guard, result, snap>>
     \/ Persist /\ step' = "recorded" /\ snap' = "pending" /\ UNCHANGED <<held, guard, result>>
     \/ Persist /\ Ends("not_recorded") /\ HandBack /\ UNCHANGED snap
  /\ UNCHANGED <<op, wait, seen, elapsed, node, wire>>

\* Once the call starts the node can hold the transaction: disarm first.
SubmitStarts ==
  /\ step = "recorded"
  /\ step' = "submitting"
  /\ guard' = "none"
  /\ wire' = TRUE
  /\ UNCHANGED <<op, wait, result, held, snap, seen, elapsed, node>>

SubmitReturns ==
  /\ step = "submitting"
  /\ \/ place # "away" /\ step' = "sent" /\ guard' = "pending" /\ UNCHANGED result
     \/ Ends("submit_rpc") /\ UNCHANGED guard
  /\ UNCHANGED <<op, wait, held, snap, seen, elapsed, node, wire>>

\* The caller submits the bytes of a build-only call, with no reservation.
SubmitBytes ==
  /\ step = "done" /\ result = "bytes"
  /\ wire' = TRUE
  /\ UNCHANGED <<handle, elapsed, node>>

---------------------------------------------------------------------------
(***************************************************************************)
(* The node and the chain, external: the submit call can deliver and fail, *)
(* a dropped transaction can still land from another pool, and the stream  *)
(* can break while the transaction goes on.                                *)
(***************************************************************************)
Send(status) == stream' = IF open THEN Append(stream, status) ELSE stream
Status(kind) == [kind |-> kind, verdict |-> verdict]

Deliver ==
  /\ wire /\ place = "away"
  /\ place' = "pool"
  /\ UNCHANGED <<handle, elapsed, wire, verdict, stream, open, reorgs>>

Include ==
  /\ place = "pool"
  /\ place' = "block"
  /\ \E v \in Verdicts : /\ verdict' = v
                         /\ Send([kind |-> "InBestBlock", verdict |-> v])
  /\ UNCHANGED <<handle, elapsed, wire, open, reorgs>>

Retract ==
  /\ place = "block" /\ reorgs < MaxReorgs
  /\ place' = "pool" /\ verdict' = "none" /\ reorgs' = reorgs + 1
  /\ Send(Status("NoLongerInBestBlock"))
  /\ UNCHANGED <<handle, elapsed, wire, open>>

Finalize ==
  /\ place = "block"
  /\ place' = "final"
  /\ Send(Status("InFinalizedBlock")) /\ open' = FALSE
  /\ UNCHANGED <<handle, elapsed, wire, verdict, reorgs>>

Reject ==
  /\ place = "pool"
  /\ place' = "dead"
  /\ Send(Status("Invalid")) /\ open' = FALSE
  /\ UNCHANGED <<handle, elapsed, wire, verdict, reorgs>>

\* Dropped from this pool, a node error, or the watch broke or timed out.
LoseTrack ==
  /\ place \in {"pool", "block"} /\ open
  /\ \E kind \in {"Dropped", "Error", "broken", "ended"} : Send(Status(kind))
  /\ open' = FALSE
  /\ UNCHANGED <<handle, elapsed, wire, place, verdict, reorgs>>

---------------------------------------------------------------------------
(***************************************************************************)
(* Waiting.  A call waits for finality, with the deadline or without one.  *)
(* A deploy's handle can wait for the best block, for finality, or turn    *)
(* into the contract, which waits for the best block under its deadline    *)
(* unless a wait has already seen an applied inclusion.                    *)
(***************************************************************************)
Wait(w) ==
  /\ step = "sent"
  /\ step' = "waiting" /\ wait' = w /\ elapsed' = 0
  /\ UNCHANGED <<op, result, held, guard, snap, seen, node, wire>>

Finish ==
  /\ op.kind = "call"
  /\ \E limit \in {Deadline, NoLimit} :
       Wait([for |-> "final", then |-> "settle", limit |-> limit, at |-> "none"])

WaitBest ==
  /\ op.kind = "deploy"
  /\ Wait([for |-> "best", then |-> "caller", limit |-> NoLimit, at |-> "none"])

WaitFinalized ==
  /\ op.kind = "deploy"
  /\ Wait([for |-> "final", then |-> "settle", limit |-> NoLimit, at |-> "none"])

\* A plausible slip: the read gets the deadline anew.
RemainingAnew(spent) == Deadline

Remaining(spent) == Deadline - spent

\* The deadline of into_contract starts here, whichever stage comes first.
IntoContract ==
  /\ op.kind = "deploy" /\ step = "sent"
  /\ step' = IF seen = "none" THEN "waiting" ELSE "reading"
  /\ wait' = [for |-> "best", then |-> "contract", limit |-> Remaining(0), at |-> "none"]
  /\ elapsed' = 0
  /\ UNCHANGED <<op, result, held, guard, snap, seen, node, wire>>

\* A plausible slip: any inclusion counts as the one awaited.
LandedAnywhere(status, for) == status.kind \in {"InBestBlock", "InFinalizedBlock"}

Landed(status, for) ==
  status.kind = IF for = "best" THEN "InBestBlock" ELSE "InFinalizedBlock"

FromTerminalStatus(status) ==
  status.kind \in {"Invalid", "Dropped", "Error", "broken", "ended"}

\* A plausible slip: a drop from the pool counts as a rejection.
RejectionOrDrop(kind) == kind \in {"Invalid", "Dropped"}

RejectionIsDefinitive(kind) == kind = "Invalid"

(***************************************************************************)
(* The wait is over: a call settles, a deploy waiting for finality settles *)
(* too, into_contract goes on to read, and the others answer the caller.   *)
(***************************************************************************)
Waited(answer) ==
  IF wait.then = "settle" THEN step' = "settling" /\ result' = answer
  ELSE IF answer # "applied" THEN Ends(answer)
  ELSE step' = (IF wait.then = "contract" THEN "reading" ELSE "sent") /\ UNCHANGED result

ReadStatus ==
  /\ step = "waiting" /\ stream # <<>>
  /\ stream' = Tail(stream)
  /\ LET status == Head(stream) IN
     \/ /\ FromTerminalStatus(status)
        /\ IF RejectionIsDefinitive(status.kind) /\ guard = "pending"
           THEN HandBack ELSE UNCHANGED <<held, guard>>
        /\ Waited(status.kind)
        /\ UNCHANGED wait
     \/ /\ Landed(status, wait.for)
        /\ step' = "fetching"
        /\ wait' = [wait EXCEPT !.at = status.verdict]
        /\ UNCHANGED <<held, guard, result>>
     \/ /\ ~FromTerminalStatus(status) /\ ~Landed(status, wait.for)
        /\ UNCHANGED <<step, wait, held, guard, result>>
  /\ UNCHANGED <<op, snap, seen, elapsed, place, verdict, open, reorgs, wire>>

\* The stream was read to its end by an earlier wait.
StreamOver ==
  /\ step = "waiting" /\ stream = <<>> /\ ~open
  /\ Waited("ended")
  /\ UNCHANGED <<op, wait, held, guard, snap, seen, elapsed, node, wire>>

\* The block's events give the verdict; only a success is applied.
FetchEvents ==
  /\ step = "fetching"
  /\ \/ /\ wait.at = "success"
        /\ Waited("applied")
        /\ wait' = IF wait.then = "contract"
                   THEN [wait EXCEPT !.limit = elapsed + Remaining(elapsed)] ELSE wait
        /\ seen' = IF op.kind = "deploy" THEN "success" ELSE seen
     \/ wait.at # "success" /\ Waited("not_applied") /\ UNCHANGED <<wait, seen>>
     \/ Waited("verdict_unknown") /\ UNCHANGED <<wait, seen>>
  /\ UNCHANGED <<op, held, guard, snap, elapsed, node, wire>>

(***************************************************************************)
(* An applied transaction confirms its snapshot, one that was not applied  *)
(* drops it, and a wait with no verdict keeps it.  The store may fail.     *)
(***************************************************************************)
AfterSettle ==
  IF op.kind = "deploy" /\ result = "applied"
  THEN step' = "sent" /\ result' = "none" ELSE step' = "done" /\ UNCHANGED result

SettleSnapshot ==
  /\ step = "settling"
  /\ \/ /\ snap = "pending" /\ result \in {"applied", "not_applied"}
        /\ \/ /\ snap' = IF result = "applied" THEN "confirmed" ELSE "failed"
              /\ AfterSettle
           \/ Ends("store_failed") /\ UNCHANGED snap
     \/ /\ snap # "pending" \/ result \notin {"applied", "not_applied"}
        /\ AfterSettle /\ UNCHANGED snap
  /\ UNCHANGED <<op, wait, held, guard, seen, elapsed, node, wire>>

---------------------------------------------------------------------------
(***************************************************************************)
(* Reading the deployed contract, again after each failure, in what the    *)
(* wait left of the deadline.                                              *)
(***************************************************************************)
ReadContract ==
  /\ step = "reading"
  /\ Ends("contract") \/ Ends("state_fetch")
  /\ UNCHANGED <<op, wait, held, guard, snap, seen, elapsed, node, wire>>

Bounded == step \in {"waiting", "fetching", "reading"} /\ wait.limit # NoLimit

Tick ==
  /\ Bounded /\ elapsed < wait.limit
  /\ elapsed' = elapsed + 1
  /\ UNCHANGED <<handle, node, wire>>

\* A plausible slip: only the wait for a status has the deadline.
OverdueWait == step = "waiting" /\ elapsed = wait.limit

Overdue == Bounded /\ elapsed = wait.limit

TimeOut ==
  /\ Overdue
  /\ Ends(IF op.kind = "call" THEN "finalize_timeout"
          ELSE IF step = "reading" THEN "read_timeout" ELSE "deploy_timeout")
  /\ UNCHANGED <<op, wait, held, guard, snap, seen, elapsed, node, wire>>

---------------------------------------------------------------------------
(***************************************************************************)
(* The caller drops the future or the handle.  Before the submit the guard *)
(* hands the inputs back; afterwards they stay reserved.                   *)
(***************************************************************************)
Drop ==
  /\ step \notin {"start", "done"}
  /\ Ends("dropped")
  /\ IF guard = "future" THEN HandBack ELSE UNCHANGED <<held, guard>>
  /\ UNCHANGED <<op, wait, snap, seen, elapsed, node, wire>>

\* The process ends.  Reservations and snapshots are on disk.
Crash ==
  /\ step \notin {"start", "done"}
  /\ Ends("crashed")
  /\ guard' = "none"
  /\ UNCHANGED <<op, wait, held, snap, seen, elapsed, node, wire>>

Next ==
  \/ RunForBuild \/ PrepareReserved \/ Decode \/ Record \/ SubmitStarts \/ SubmitReturns
  \/ SubmitBytes
  \/ Deliver \/ Include \/ Retract \/ Finalize \/ Reject \/ LoseTrack
  \/ Finish \/ WaitBest \/ WaitFinalized \/ IntoContract
  \/ ReadStatus \/ StreamOver \/ FetchEvents \/ SettleSnapshot
  \/ ReadContract \/ Tick \/ TimeOut \/ Drop \/ Crash

(***************************************************************************)
(* Time passes and a timer that is due fires.  Nothing else is owed: the   *)
(* node may stay silent, and a read may hang or fail for ever.             *)
(***************************************************************************)
Fairness == WF_vars(Tick) /\ WF_vars(TimeOut)

Spec == Init /\ [][Next]_vars /\ Fairness

---------------------------------------------------------------------------
\* Every part of the state has its shape, and a handle past the submit knows
\* that a submit was made.
TypeOK ==
  /\ step \in {"start", "built", "prepared", "decoded", "recorded", "submitting", "sent",
               "waiting", "fetching", "settling", "reading", "done"}
  /\ guard \in {"none", "future", "pending"}
  /\ snap \in {"none", "pending", "confirmed", "failed"}
  /\ place \in {"away", "pool", "block", "final", "dead"}
  /\ verdict \in Verdicts \cup {"none"} /\ seen \in {"none", "success"}
  /\ wait.limit \in 0..NoLimit /\ elapsed \in 0..NoLimit
  /\ reorgs \in 0..MaxReorgs
  /\ step \in {"sent", "waiting", "fetching", "settling", "reading"} => wire
  /\ guard # "none" => held

\* Inputs are handed back only when the transaction can never spend them, and
\* nothing that never left the process keeps them: whatever is decoded,
\* recorded, submitted, dropped or rejected, and in whichever order the node
\* reports it (rejection_is_definitive, HeldInputs, PreparedTx::submit).
InputsFollowTheFate ==
  /\ ~held => place = "dead" \/ (place = "away" /\ ~wire)
  /\ step = "done" /\ ~wire /\ result \notin {"bytes", "crashed"} => ~held
  /\ result = "Invalid" => ~held

\* The private state to be recorded.
MustRecord == op.changes /\ (op.kind = "deploy" \/ op.declares \/ op.store)

\* The snapshot says what the finalized chain says, through reorgs that change
\* the verdict; nothing that changes the private state is on the wire without
\* one, but the calls of a handle that neither declares witnesses nor has a store;
\* and a verdict reaches the caller of a call only once it is settled
\* (record_and_submit, settle_snapshot, build_call_with_inner).
SnapshotFollowsTheFate ==
  /\ snap = "confirmed" => place = "final" /\ verdict = "success"
  /\ snap = "failed" => place = "final" /\ verdict # "success"
  /\ place # "away" /\ MustRecord => snap # "none"
  /\ step = "done" /\ result = "applied" => snap \in {"none", "confirmed"}
  /\ step = "done" /\ result = "not_applied" /\ op.kind = "call" => snap \in {"none", "failed"}

\* The wait for the block and the read of the contract share one deadline
\* (PendingDeploy::into_contract, deployed_state), and a call's wait keeps its
\* own (PendingCall::finish).
OneDeadline == Bounded => elapsed <= Deadline

\* A wait or a read with a deadline ends, also when the node falls silent after
\* it has announced the block and never serves its events.
BoundedWaitsEnd == Bounded ~> ~Bounded

\* "None: no block included the deploy before the deadline": a deploy timeout
\* without an inclusion is never given by a handle that has read one
\* (ContractError::DeployTimeout).
TimeoutMeansNoBlock ==
  [][result # "deploy_timeout" /\ result' = "deploy_timeout" => step # "fetching"]_vars

===========================================================================
