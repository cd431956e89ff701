-------------------------- MODULE ContractTxProofs --------------------------
(***************************************************************************)
(* The proofs about one contract operation: its reservation, its snapshot  *)
(* and its deadline, whatever the chain does with the transaction.         *)
(***************************************************************************)
EXTENDS ContractTx, SequenceTheorems, TLAPS

-----------------------------------------------------------------------------
(* The inductive invariant *)

Kind     == {"call", "build", "deploy"}
Stages   == {"start", "built", "prepared", "decoded", "recorded", "submitting", "sent",
             "waiting", "fetching", "settling", "reading", "done"}
Building == {"built", "prepared", "decoded", "recorded"}
Sent     == {"sent", "waiting", "fetching", "reading"}
Statuses == [kind : {"InBestBlock", "NoLongerInBestBlock", "InFinalizedBlock", "Invalid",
                     "Dropped", "Error", "broken", "ended"},
             verdict : Verdicts \cup {"none"}]
Waits    == [for : {"best", "final"}, then : {"caller", "settle", "contract"},
             limit : {Deadline, NoLimit}, at : Verdicts \cup {"none"}]

(* Every variable has its shape; no deadline is overrun. *)
Shape ==
  /\ TypeOK
  /\ op \in [kind : Kind, changes : BOOLEAN, store : BOOLEAN, declares : BOOLEAN]
  /\ wait \in Waits
  /\ elapsed \in 0..Deadline
  /\ held \in BOOLEAN /\ wire \in BOOLEAN /\ open \in BOOLEAN
  /\ stream \in Seq(Statuses)

(* Who may give the inputs back, at each stage of the handle. *)
GuardSound ==
  /\ step = "start" => ~held /\ guard = "none" /\ ~wire
  /\ step \in Building => held /\ guard = "future" /\ ~wire
  /\ step = "submitting" => held /\ guard = "none" /\ wire
  /\ step \in Sent => held /\ guard = "pending" /\ wire /\ place # "away"
  /\ step = "settling" => /\ wire /\ place # "away"
                          /\ result # "Invalid" => held /\ guard = "pending"
  /\ step = "done" => guard # "future"

(* What was answered, and what the answer says of the transaction. *)
AnswerSound ==
  /\ step \notin {"settling", "done"} => result = "none"
  /\ result = "Invalid" => ~held
  /\ result = "bytes" => held /\ op.kind = "build" /\ ~op.changes
  /\ step = "done" /\ ~wire /\ result \notin {"bytes", "crashed"} => ~held
  /\ ~held => place = "dead" \/ (place = "away" /\ ~wire)
  /\ ~wire => place = "away"
  /\ step = "settling" /\ result = "applied" => place = "final" /\ verdict = "success"
  /\ step = "settling" /\ result = "not_applied" => place = "final" /\ verdict # "success"

(* A wait that settles is for finality, and the block it has landed at is  *)
(* then the final one; a wait for the contract has the deadline.           *)
WaitSound ==
  /\ wait.then = "settle" => wait.for = "final"
  /\ wait.then = "contract" => wait.limit = Deadline
  /\ op.kind = "call" /\ step \in {"waiting", "fetching"} => wait.then = "settle"
  /\ op.kind = "call" => step # "reading"
  /\ op.kind = "build" => step \in {"start", "built", "done"}
  /\ step = "fetching" /\ wait.for = "final" => place = "final" /\ wait.at = verdict

(* The decisive statuses that are not read yet are true. *)
StreamSound ==
  \A i \in 1..Len(stream) :
    /\ stream[i].kind = "Invalid" => place = "dead"
    /\ stream[i].kind = "InFinalizedBlock" => place = "final" /\ stream[i].verdict = verdict

(* The snapshot is there before the transaction can be, and is settled by  *)
(* the final verdict only.                                                 *)
SnapSound ==
  /\ step \in {"start", "built", "prepared", "decoded"} => snap = "none"
  /\ step \notin {"start", "done"} => RequireStore
  /\ step = "built" /\ op.kind = "build" => ~op.changes
  /\ step = "recorded" /\ MustRecord => snap # "none"
  /\ wire /\ MustRecord => snap # "none"
  /\ snap = "confirmed" => place = "final" /\ verdict = "success"
  /\ snap = "failed" => place = "final" /\ verdict # "success"
  /\ step = "done" /\ result = "applied" => snap \in {"none", "confirmed"}
  /\ step = "done" /\ result = "not_applied" /\ op.kind = "call" => snap \in {"none", "failed"}

TxInv == Shape /\ GuardSound /\ AnswerSound /\ WaitSound /\ StreamSound /\ SnapSound

-----------------------------------------------------------------------------
(* The shapes *)

(* What a step must keep for every variable to keep its shape: the parts   *)
(* that it changes.                                                        *)
LEMMA KeepsShape ==
  ASSUME op' = op, op \in [kind : Kind, changes : BOOLEAN, store : BOOLEAN, declares : BOOLEAN],
         step' \in Stages, wait' \in Waits, elapsed' \in 0..Deadline,
         held' \in BOOLEAN, guard' \in {"none", "future", "pending"}, guard' # "none" => held',
         snap' \in {"none", "pending", "confirmed", "failed"},
         place' \in {"away", "pool", "block", "final", "dead"},
         verdict' \in Verdicts \cup {"none"}, wire' \in BOOLEAN, open' \in BOOLEAN,
         reorgs' \in 0..MaxReorgs, seen' \in {"none", "success"}, stream' \in Seq(Statuses),
         step' \in Sent \cup {"settling"} => wire'
  PROVE  Shape'
<1>1. Deadline \in Nat \ {0} /\ NoLimit = 2 * Deadline + 1
      BY ContractTxAssumption DEF NoLimit
<1>2. wait'.limit \in {Deadline, NoLimit}
      BY DEF Waits
<1>3. wait'.limit \in 0..NoLimit /\ elapsed' \in 0..NoLimit
      BY <1>1, <1>2
<1>4. TypeOK'
      BY <1>3 DEF TypeOK, Stages, Sent
<1> QED BY <1>4 DEF Shape

(* The types, one by one. *)
LEMMA Shapes ==
  ASSUME TxInv
  PROVE  /\ op \in [kind : Kind, changes : BOOLEAN, store : BOOLEAN, declares : BOOLEAN]
         /\ step \in Stages /\ wait \in Waits /\ elapsed \in 0..Deadline
         /\ held \in BOOLEAN /\ guard \in {"none", "future", "pending"}
         /\ guard # "none" => held
         /\ snap \in {"none", "pending", "confirmed", "failed"}
         /\ place \in {"away", "pool", "block", "final", "dead"}
         /\ verdict \in Verdicts \cup {"none"} /\ wire \in BOOLEAN /\ open \in BOOLEAN
         /\ reorgs \in 0..MaxReorgs /\ seen \in {"none", "success"}
         /\ stream \in Seq(Statuses)
BY DEF TxInv, Shape, TypeOK, Stages

(* A step of the handle that leaves the wait and the node alone.           *)
LEMMA HandleKeeps ==
  ASSUME TxInv, UNCHANGED <<op, wait, seen, elapsed, place, verdict, stream, open, reorgs>>,
         step' \in Stages, held' \in BOOLEAN, guard' \in {"none", "future", "pending"},
         guard' # "none" => held', snap' \in {"none", "pending", "confirmed", "failed"},
         wire' \in BOOLEAN, step' \in Sent \cup {"settling"} => wire'
  PROVE  Shape' /\ StreamSound'
<1>1. Shape'
      BY Shapes, KeepsShape
<1>2. StreamSound'
      BY DEF TxInv, StreamSound
<1> QED BY <1>1, <1>2

-----------------------------------------------------------------------------
(* The ends *)

(* The operation ends with an answer that says nothing of the chain but    *)
(* what the transaction is: with the reservation as it is past the submit, *)
(* handed back before it, or left behind by a crash.                       *)
LEMMA EndKeeps ==
  ASSUME TxInv, step # "done", step' = "done",
         UNCHANGED <<op, wait, snap, seen, elapsed, place, verdict, open, reorgs, wire>>,
         stream' \in Seq(Statuses), StreamSound',
         result' \notin {"bytes", "applied"},
         result' = "Invalid" => ~held',
         result' = "not_applied" => op.kind # "call",
         \/ held' = held /\ guard' = guard /\ guard # "future" /\ (wire \/ ~held)
         \/ held' = FALSE /\ guard' = "none" /\ (~wire \/ place = "dead")
         \/ held' = held /\ guard' = "none" /\ result' = "crashed"
  PROVE  TxInv'
<1>1. held' \in BOOLEAN /\ guard' \in {"none", "future", "pending"} /\ (guard' # "none" => held')
      <2>1. CASE held' = held /\ guard' = guard
            BY <2>1, Shapes, Zenon
      <2>2. CASE held' = FALSE /\ guard' = "none"
            BY <2>2
      <2>3. CASE held' = held /\ guard' = "none"
            BY <2>3, Shapes, Zenon
      <2> QED BY <2>1, <2>2, <2>3
<1>2. Shape'
      BY <1>1, Shapes, KeepsShape DEF Stages, Sent
<1>3. GuardSound'
      BY Shapes DEF GuardSound, Building, Sent
<1>4. AnswerSound'
      BY Shapes DEF TxInv, AnswerSound
<1>5. WaitSound'
      BY DEF TxInv, WaitSound
<1>6. SnapSound'
      BY DEF TxInv, SnapSound, MustRecord
<1> QED BY <1>2, <1>3, <1>4, <1>5, <1>6 DEF TxInv

-----------------------------------------------------------------------------
(* Up to the submit *)

(* Running the circuit reserves, or refuses. *)
LEMMA RunForBuildStep ==
  ASSUME TxInv, RunForBuild
  PROVE  TxInv'
<1>1. /\ step = "start"
      /\ UNCHANGED <<op, wait, snap, seen, elapsed, place, verdict, stream, open, reorgs, wire>>
      BY DEF RunForBuild, node
<1>2. ~held /\ guard = "none" /\ ~wire /\ result = "none"
      BY <1>1 DEF TxInv, GuardSound, AnswerSound
<1>3. CASE step' = "done" /\ result' \in {"refused", "unrecorded"} /\ UNCHANGED <<held, guard>>
      <2>1. StreamSound' /\ stream' \in Seq(Statuses)
            BY <1>1, Shapes DEF TxInv, StreamSound
      <2> QED BY <1>1, <1>2, <1>3, <2>1, EndKeeps
<1>4. CASE /\ RequireStore /\ ~(op.kind = "build" /\ op.changes)
           /\ step' = "built" /\ held' = TRUE /\ guard' = "future" /\ result' = result
      <2>1. Shape' /\ StreamSound'
            BY <1>1, <1>4, Shapes, HandleKeeps DEF Stages, Sent
      <2>2. GuardSound' /\ AnswerSound'
            BY <1>1, <1>2, <1>4 DEF TxInv, GuardSound, AnswerSound, Building, Sent
      <2>3. WaitSound'
            BY <1>1, <1>4 DEF TxInv, WaitSound
      <2>4. SnapSound'
            BY <1>1, <1>2, <1>4 DEF TxInv, SnapSound, RequireStore
      <2> QED BY <2>1, <2>2, <2>3, <2>4 DEF TxInv
<1> QED BY <1>3, <1>4 DEF RunForBuild, Ends

(* The reservation passes to the prepared transaction, or is left to the   *)
(* bytes.                                                                  *)
LEMMA PrepareReservedStep ==
  ASSUME TxInv, PrepareReserved
  PROVE  TxInv'
<1>1. /\ step = "built"
      /\ UNCHANGED <<op, wait, snap, seen, elapsed, place, verdict, stream, open, reorgs, wire>>
      BY DEF PrepareReserved, node
<1>2. /\ held /\ guard = "future" /\ ~wire /\ result = "none" /\ snap = "none" /\ RequireStore
      /\ place = "away" /\ (op.kind = "build" => ~op.changes)
      BY <1>1 DEF TxInv, GuardSound, AnswerSound, SnapSound, Building
<1>3. CASE op.kind = "build" /\ step' = "done" /\ result' = "bytes" /\ guard' = "none" /\ held' = held
      <2>1. Shape' /\ StreamSound'
            BY <1>1, <1>3, Shapes, HandleKeeps DEF Stages, Sent
      <2>2. GuardSound'
            BY <1>3 DEF GuardSound, Building, Sent
      <2>3. AnswerSound'
            BY <1>1, <1>2, <1>3 DEF TxInv, AnswerSound
      <2>4. WaitSound'
            BY <1>1, <1>3 DEF TxInv, WaitSound
      <2>5. SnapSound'
            BY <1>1, <1>2, <1>3 DEF TxInv, SnapSound
      <2> QED BY <2>1, <2>2, <2>3, <2>4, <2>5 DEF TxInv
<1>4. CASE step' = "done" /\ result' = "not_prepared" /\ held' = FALSE /\ guard' = "none"
      <2>1. StreamSound' /\ stream' \in Seq(Statuses)
            BY <1>1, Shapes DEF TxInv, StreamSound
      <2> QED BY <1>1, <1>2, <1>4, <2>1, EndKeeps
<1>5. CASE op.kind # "build" /\ step' = "prepared" /\ UNCHANGED <<held, guard, result>>
      <2>1. Shape' /\ StreamSound'
            BY <1>1, <1>5, Shapes, HandleKeeps DEF Stages, Sent
      <2>2. GuardSound' /\ AnswerSound'
            BY <1>1, <1>2, <1>5 DEF TxInv, GuardSound, AnswerSound, Building, Sent
      <2>3. WaitSound'
            BY <1>1, <1>5 DEF TxInv, WaitSound
      <2>4. SnapSound'
            BY <1>1, <1>2, <1>5 DEF TxInv, SnapSound, RequireStore
      <2> QED BY <2>1, <2>2, <2>3, <2>4 DEF TxInv
<1> QED BY <1>3, <1>4, <1>5 DEF PrepareReserved, Ends, HandBack

(* The result is decoded. *)
LEMMA DecodeStep ==
  ASSUME TxInv, Decode
  PROVE  TxInv'
<1>1. /\ step = "prepared"
      /\ UNCHANGED <<op, wait, snap, seen, elapsed, place, verdict, stream, open, reorgs, wire>>
      BY DEF Decode, node
<1>2. /\ held /\ guard = "future" /\ ~wire /\ result = "none" /\ snap = "none" /\ RequireStore
      /\ place = "away" /\ op.kind # "build"
      BY <1>1 DEF TxInv, GuardSound, AnswerSound, SnapSound, WaitSound, Building
<1>3. CASE step' = "done" /\ result' = "undecodable" /\ held' = FALSE /\ guard' = "none"
      <2>1. StreamSound' /\ stream' \in Seq(Statuses)
            BY <1>1, Shapes DEF TxInv, StreamSound
      <2> QED BY <1>1, <1>2, <1>3, <2>1, EndKeeps
<1>4. CASE step' = "decoded" /\ UNCHANGED <<held, guard, result>>
      <2>1. Shape' /\ StreamSound'
            BY <1>1, <1>4, Shapes, HandleKeeps DEF Stages, Sent
      <2>2. GuardSound' /\ AnswerSound'
            BY <1>1, <1>2, <1>4 DEF TxInv, GuardSound, AnswerSound, Building, Sent
      <2>3. WaitSound'
            BY <1>1, <1>2, <1>4 DEF TxInv, WaitSound
      <2>4. SnapSound'
            BY <1>1, <1>2, <1>4 DEF TxInv, SnapSound, RequireStore
      <2> QED BY <2>1, <2>2, <2>3, <2>4 DEF TxInv
<1> QED BY <1>3, <1>4 DEF Decode, Ends, HandBack

(* The private state is recorded, where it changes. *)
LEMMA RecordStep ==
  ASSUME TxInv, Record
  PROVE  TxInv'
<1>1. /\ step = "decoded"
      /\ UNCHANGED <<op, wait, seen, elapsed, place, verdict, stream, open, reorgs, wire>>
      BY DEF Record, node
<1>2. /\ held /\ guard = "future" /\ ~wire /\ result = "none" /\ snap = "none" /\ RequireStore
      /\ place = "away" /\ op.kind # "build"
      BY <1>1 DEF TxInv, GuardSound, AnswerSound, SnapSound, WaitSound, Building
<1>3. CASE step' = "done" /\ result' = "not_recorded" /\ held' = FALSE /\ guard' = "none" /\ snap' = snap
      <2>1. StreamSound' /\ stream' \in Seq(Statuses)
            BY <1>1, Shapes DEF TxInv, StreamSound
      <2> QED BY <1>1, <1>2, <1>3, <2>1, EndKeeps
<1>4. CASE /\ step' = "recorded" /\ UNCHANGED <<held, guard, result>>
           /\ snap' \in {"none", "pending"} /\ (MustRecord => snap' # "none")
      <2>1. Shape' /\ StreamSound'
            BY <1>1, <1>4, Shapes, HandleKeeps DEF Stages, Sent
      <2>2. GuardSound' /\ AnswerSound'
            BY <1>1, <1>2, <1>4 DEF TxInv, GuardSound, AnswerSound, Building, Sent
      <2>3. WaitSound'
            BY <1>1, <1>2, <1>4 DEF TxInv, WaitSound
      <2>4. SnapSound'
            BY <1>1, <1>2, <1>4 DEF SnapSound, RequireStore, MustRecord
      <2> QED BY <2>1, <2>2, <2>3, <2>4 DEF TxInv
<1>5. Persist \/ ~MustRecord
      BY <1>2 DEF Persist, RequireStore, MustRecord
<1> QED BY <1>2, <1>3, <1>4, <1>5 DEF Record, Persist, Ends, HandBack

(* From here on nobody may hand the inputs back but a rejection. *)
LEMMA SubmitStartsStep ==
  ASSUME TxInv, SubmitStarts
  PROVE  TxInv'
<1>1. /\ step = "recorded" /\ step' = "submitting" /\ guard' = "none" /\ wire' = TRUE
      /\ UNCHANGED <<op, wait, result, held, snap, seen, elapsed, place, verdict, stream, open, reorgs>>
      BY DEF SubmitStarts, node
<1>2. Shape' /\ StreamSound'
      BY <1>1, Shapes, HandleKeeps DEF Stages, Sent
<1>3. held /\ ~wire /\ result = "none" /\ RequireStore /\ op.kind # "build"
      /\ (MustRecord => snap # "none")
      BY <1>1 DEF TxInv, GuardSound, AnswerSound, SnapSound, WaitSound, Building
<1>4. GuardSound' /\ AnswerSound'
      BY <1>1, <1>3 DEF TxInv, GuardSound, AnswerSound, Building, Sent
<1>5. WaitSound'
      BY <1>1, <1>3 DEF TxInv, WaitSound
<1>6. SnapSound'
      BY <1>1, <1>3 DEF TxInv, SnapSound, RequireStore, MustRecord
<1> QED BY <1>2, <1>4, <1>5, <1>6 DEF TxInv

(* The submit call returns. *)
LEMMA SubmitReturnsStep ==
  ASSUME TxInv, SubmitReturns
  PROVE  TxInv'
<1>1. /\ step = "submitting"
      /\ UNCHANGED <<op, wait, held, snap, seen, elapsed, place, verdict, stream, open, reorgs, wire>>
      BY DEF SubmitReturns, node
<1>2. held /\ guard = "none" /\ wire /\ result = "none" /\ RequireStore /\ op.kind # "build"
      BY <1>1 DEF TxInv, GuardSound, AnswerSound, SnapSound, WaitSound
<1>3. CASE step' = "done" /\ result' = "submit_rpc" /\ guard' = guard
      <2>1. StreamSound' /\ stream' \in Seq(Statuses)
            BY <1>1, Shapes DEF TxInv, StreamSound
      <2> QED BY <1>1, <1>2, <1>3, <2>1, EndKeeps
<1>4. CASE place # "away" /\ step' = "sent" /\ guard' = "pending" /\ result' = result
      <2>1. Shape' /\ StreamSound'
            BY <1>1, <1>2, <1>4, Shapes, HandleKeeps DEF Stages
      <2>2. GuardSound' /\ AnswerSound'
            BY <1>1, <1>2, <1>4 DEF TxInv, GuardSound, AnswerSound, Building, Sent
      <2>3. WaitSound'
            BY <1>1, <1>2, <1>4 DEF TxInv, WaitSound
      <2>4. SnapSound'
            BY <1>1, <1>2, <1>4 DEF TxInv, SnapSound, RequireStore, MustRecord
      <2> QED BY <2>1, <2>2, <2>3, <2>4 DEF TxInv
<1> QED BY <1>3, <1>4 DEF SubmitReturns, Ends

(* The bytes of a build-only call are submitted. *)
LEMMA SubmitBytesStep ==
  ASSUME TxInv, SubmitBytes
  PROVE  TxInv'
<1>1. /\ step = "done" /\ result = "bytes" /\ wire' = TRUE
      /\ UNCHANGED <<op, step, wait, result, held, guard, snap, seen, elapsed,
                     place, verdict, stream, open, reorgs>>
      BY DEF SubmitBytes, handle, node
<1>2. Shape' /\ StreamSound'
      BY <1>1, Shapes, HandleKeeps DEF Stages
<1>3. held /\ ~op.changes
      BY <1>1 DEF TxInv, AnswerSound
<1>4. GuardSound' /\ AnswerSound'
      BY <1>1, <1>3 DEF TxInv, GuardSound, AnswerSound, Building, Sent
<1>5. WaitSound'
      BY <1>1 DEF TxInv, WaitSound
<1>6. SnapSound'
      BY <1>1, <1>3 DEF TxInv, SnapSound, RequireStore, MustRecord
<1> QED BY <1>2, <1>4, <1>5, <1>6 DEF TxInv

-----------------------------------------------------------------------------
(* The chain *)

(* What is sent is at the end of the stream, or nowhere. *)
LEMMA SendKeeps ==
  ASSUME NEW status \in Statuses, stream \in Seq(Statuses), Send(status)
  PROVE  /\ stream' \in Seq(Statuses)
         /\ \A i \in 1..Len(stream') :
                stream'[i] = status \/ (i \in 1..Len(stream) /\ stream'[i] = stream[i])
<1>1. CASE stream' = stream
      BY <1>1
<1>2. CASE stream' = Append(stream, status)
      BY <1>2
<1> QED BY <1>1, <1>2 DEF Send

(* The chain moves a transaction that it has not decided: nothing the      *)
(* handle knows becomes untrue.                                            *)
LEMMA ChainKeeps ==
  ASSUME TxInv, UNCHANGED <<op, step, wait, result, held, guard, snap, seen, elapsed, wire>>,
         wire, place \notin {"final", "dead"},
         place' \in {"pool", "block", "final", "dead"}, verdict' \in Verdicts \cup {"none"},
         open' \in BOOLEAN, reorgs' \in 0..MaxReorgs, stream' \in Seq(Statuses), StreamSound'
  PROVE  TxInv'
<1>1. wire' \in BOOLEAN /\ held' \in BOOLEAN
      BY Shapes, Zenon
<1>2. Shape'
      BY <1>1, Shapes, KeepsShape
<1>3. held
      BY Shapes DEF TxInv, AnswerSound
<1>4. GuardSound' /\ AnswerSound'
      BY <1>3 DEF TxInv, GuardSound, AnswerSound
<1>5. WaitSound'
      BY DEF TxInv, WaitSound
<1>6. SnapSound'
      BY DEF TxInv, SnapSound, RequireStore, MustRecord
<1> QED BY <1>2, <1>4, <1>5, <1>6 DEF TxInv

(* The submit call delivers. *)
LEMMA DeliverStep ==
  ASSUME TxInv, Deliver
  PROVE  TxInv'
<1>1. /\ wire /\ place = "away" /\ place' = "pool"
      /\ UNCHANGED <<op, step, wait, result, held, guard, snap, seen, elapsed, wire,
                     verdict, stream, open, reorgs>>
      BY DEF Deliver, handle
<1>2. StreamSound'
      BY <1>1 DEF TxInv, StreamSound
<1> QED BY <1>1, <1>2, Shapes, ChainKeeps

(* A transaction in the pool, or in a block, is on the wire. *)
LEMMA KnownIsOnTheWire ==
  ASSUME TxInv, place # "away"
  PROVE  wire
BY DEF TxInv, AnswerSound

(* A block includes the transaction, with any verdict: no earlier status   *)
(* in the stream spoke of the final block.                                 *)
LEMMA IncludeStep ==
  ASSUME TxInv, Include
  PROVE  TxInv'
<1>1. /\ place = "pool" /\ place' = "block"
      /\ UNCHANGED <<op, step, wait, result, held, guard, snap, seen, elapsed, wire, open, reorgs>>
      BY DEF Include, handle
<1>2. PICK v \in Verdicts : verdict' = v /\ Send([kind |-> "InBestBlock", verdict |-> v])
      BY DEF Include
<1>3. [kind |-> "InBestBlock", verdict |-> v] \in Statuses
      BY <1>2 DEF Statuses
<1>4. /\ stream' \in Seq(Statuses)
      /\ \A i \in 1..Len(stream') : stream'[i] = [kind |-> "InBestBlock", verdict |-> v]
                                    \/ (i \in 1..Len(stream) /\ stream'[i] = stream[i])
      BY <1>2, <1>3, Shapes, SendKeeps
<1>5. StreamSound'
      BY <1>1, <1>4 DEF TxInv, StreamSound
<1> QED BY <1>1, <1>2, <1>4, <1>5, Shapes, KnownIsOnTheWire, ChainKeeps

(* A reorg takes the transaction back. *)
LEMMA RetractStep ==
  ASSUME TxInv, Retract
  PROVE  TxInv'
<1>1. /\ place = "block" /\ place' = "pool" /\ verdict' = "none"
      /\ reorgs < MaxReorgs /\ reorgs' = reorgs + 1
      /\ UNCHANGED <<op, step, wait, result, held, guard, snap, seen, elapsed, wire, open>>
      BY DEF Retract, handle
<1>2. [kind |-> "NoLongerInBestBlock", verdict |-> verdict] \in Statuses
      BY Shapes DEF Statuses
<1>3. Send([kind |-> "NoLongerInBestBlock", verdict |-> verdict])
      BY DEF Retract, Status
<1>4. /\ stream' \in Seq(Statuses)
      /\ \A i \in 1..Len(stream') : stream'[i] = [kind |-> "NoLongerInBestBlock", verdict |-> verdict]
                                    \/ (i \in 1..Len(stream) /\ stream'[i] = stream[i])
      BY <1>2, <1>3, Shapes, SendKeeps
<1>5. StreamSound'
      BY <1>1, <1>4 DEF TxInv, StreamSound
<1>6. reorgs' \in 0..MaxReorgs
      BY <1>1, Shapes, ContractTxAssumption
<1> QED BY <1>1, <1>4, <1>5, <1>6, Shapes, KnownIsOnTheWire, ChainKeeps

(* The block is final: the status says its verdict. *)
LEMMA FinalizeStep ==
  ASSUME TxInv, Finalize
  PROVE  TxInv'
<1>1. /\ place = "block" /\ place' = "final" /\ open' = FALSE
      /\ UNCHANGED <<op, step, wait, result, held, guard, snap, seen, elapsed, wire, verdict, reorgs>>
      BY DEF Finalize, handle
<1>2. [kind |-> "InFinalizedBlock", verdict |-> verdict] \in Statuses
      BY Shapes DEF Statuses
<1>3. Send([kind |-> "InFinalizedBlock", verdict |-> verdict])
      BY DEF Finalize, Status
<1>4. /\ stream' \in Seq(Statuses)
      /\ \A i \in 1..Len(stream') : stream'[i] = [kind |-> "InFinalizedBlock", verdict |-> verdict]
                                    \/ (i \in 1..Len(stream) /\ stream'[i] = stream[i])
      BY <1>2, <1>3, Shapes, SendKeeps
<1>5. StreamSound'
      BY <1>1, <1>4 DEF TxInv, StreamSound
<1> QED BY <1>1, <1>4, <1>5, Shapes, KnownIsOnTheWire, ChainKeeps

(* The node rejects the transaction for good. *)
LEMMA RejectStep ==
  ASSUME TxInv, Reject
  PROVE  TxInv'
<1>1. /\ place = "pool" /\ place' = "dead" /\ open' = FALSE
      /\ UNCHANGED <<op, step, wait, result, held, guard, snap, seen, elapsed, wire, verdict, reorgs>>
      BY DEF Reject, handle
<1>2. [kind |-> "Invalid", verdict |-> verdict] \in Statuses
      BY Shapes DEF Statuses
<1>3. Send([kind |-> "Invalid", verdict |-> verdict])
      BY DEF Reject, Status
<1>4. /\ stream' \in Seq(Statuses)
      /\ \A i \in 1..Len(stream') : stream'[i] = [kind |-> "Invalid", verdict |-> verdict]
                                    \/ (i \in 1..Len(stream) /\ stream'[i] = stream[i])
      BY <1>2, <1>3, Shapes, SendKeeps
<1>5. StreamSound'
      BY <1>1, <1>4 DEF TxInv, StreamSound
<1> QED BY <1>1, <1>4, <1>5, Shapes, KnownIsOnTheWire, ChainKeeps

(* The stream ends while the transaction goes on. *)
LEMMA LoseTrackStep ==
  ASSUME TxInv, LoseTrack
  PROVE  TxInv'
<1>1. /\ place \in {"pool", "block"} /\ place' = place /\ open' = FALSE
      /\ UNCHANGED <<op, step, wait, result, held, guard, snap, seen, elapsed, wire, verdict, reorgs>>
      BY DEF LoseTrack, handle
<1>2. PICK k \in {"Dropped", "Error", "broken", "ended"} :
          Send([kind |-> k, verdict |-> verdict])
      BY DEF LoseTrack, Status
<1>3. [kind |-> k, verdict |-> verdict] \in Statuses
      BY <1>2, Shapes DEF Statuses
<1>4. /\ stream' \in Seq(Statuses)
      /\ \A i \in 1..Len(stream') : stream'[i] = [kind |-> k, verdict |-> verdict]
                                    \/ (i \in 1..Len(stream) /\ stream'[i] = stream[i])
      BY <1>2, <1>3, Shapes, SendKeeps
<1>5. StreamSound'
      BY <1>1, <1>4 DEF TxInv, StreamSound
<1> QED BY <1>1, <1>4, <1>5, Shapes, KnownIsOnTheWire, ChainKeeps

-----------------------------------------------------------------------------
(* The waits *)

(* A wait starts with its deadline whole, and settles only what is final. *)
LEMMA WaitStarts ==
  ASSUME TxInv, NEW w \in Waits, Wait(w), op.kind # "build",
         op.kind = "call" => w.then = "settle",
         w.then = "settle" => w.for = "final", w.then # "contract"
  PROVE  TxInv'
<1>1. /\ step = "sent" /\ step' = "waiting" /\ wait' = w /\ elapsed' = 0
      /\ UNCHANGED <<op, result, held, guard, snap, seen, place, verdict, stream, open, reorgs, wire>>
      BY DEF Wait, node
<1>2. /\ held /\ guard = "pending" /\ wire /\ place # "away" /\ result = "none" /\ RequireStore
      BY <1>1 DEF TxInv, GuardSound, AnswerSound, SnapSound, Sent
<1>3. held' \in BOOLEAN /\ wire' \in BOOLEAN /\ open' \in BOOLEAN /\ 0 \in 0..Deadline
      BY <1>1, Shapes, ContractTxAssumption
<1>4. Shape'
      BY <1>1, <1>2, <1>3, Shapes, KeepsShape DEF Stages
<1>5. GuardSound' /\ AnswerSound'
      BY <1>1, <1>2 DEF TxInv, GuardSound, AnswerSound, Building, Sent
<1>6. WaitSound'
      BY <1>1 DEF WaitSound
<1>7. StreamSound'
      BY <1>1 DEF TxInv, StreamSound
<1>8. SnapSound'
      BY <1>1, <1>2 DEF TxInv, SnapSound, RequireStore, MustRecord
<1> QED BY <1>4, <1>5, <1>6, <1>7, <1>8 DEF TxInv

(* A call waits for finality and settles; a deploy waits as it is asked.   *)
LEMMA WaitSteps ==
  ASSUME TxInv, Finish \/ WaitBest \/ WaitFinalized
  PROVE  TxInv'
<1>1. PICK w \in Waits :
          /\ Wait(w) /\ op.kind # "build" /\ (op.kind = "call" => w.then = "settle")
          /\ (w.then = "settle" => w.for = "final") /\ w.then # "contract"
      <2>1. CASE Finish
            <3>1. PICK limit \in {Deadline, NoLimit} :
                      Wait([for |-> "final", then |-> "settle", limit |-> limit, at |-> "none"])
                  BY <2>1 DEF Finish
            <3>2. [for |-> "final", then |-> "settle", limit |-> limit, at |-> "none"] \in Waits
                  BY <3>1 DEF Waits
            <3> QED BY <2>1, <3>1, <3>2 DEF Finish
      <2>2. CASE WaitBest
            <3>1. [for |-> "best", then |-> "caller", limit |-> NoLimit, at |-> "none"] \in Waits
                  BY DEF Waits
            <3> QED BY <2>2, <3>1 DEF WaitBest
      <2>3. CASE WaitFinalized
            <3>1. [for |-> "final", then |-> "settle", limit |-> NoLimit, at |-> "none"] \in Waits
                  BY DEF Waits
            <3> QED BY <2>3, <3>1 DEF WaitFinalized
      <2> QED BY <2>1, <2>2, <2>3
<1> QED BY <1>1, WaitStarts

(* A deploy turns into the contract under its deadline. *)
LEMMA IntoContractStep ==
  ASSUME TxInv, IntoContract
  PROVE  TxInv'
<1>1. /\ op.kind = "deploy" /\ step = "sent" /\ step' \in {"waiting", "reading"}
      /\ wait' = [for |-> "best", then |-> "contract", limit |-> Remaining(0), at |-> "none"]
      /\ elapsed' = 0
      /\ UNCHANGED <<op, result, held, guard, snap, seen, place, verdict, stream, open, reorgs, wire>>
      BY DEF IntoContract, node
<1>2. Remaining(0) = Deadline /\ 0 \in 0..Deadline
      BY ContractTxAssumption DEF Remaining
<1>3. wait' \in Waits /\ wait'.then = "contract" /\ wait'.for = "best" /\ wait'.limit = Deadline
      BY <1>1, <1>2 DEF Waits
<1>4. /\ held /\ guard = "pending" /\ wire /\ place # "away" /\ result = "none" /\ RequireStore
      BY <1>1 DEF TxInv, GuardSound, AnswerSound, SnapSound, Sent
<1>5. held' \in BOOLEAN /\ wire' \in BOOLEAN /\ open' \in BOOLEAN
      BY <1>1, Shapes
<1>6. Shape'
      BY <1>1, <1>2, <1>3, <1>4, <1>5, Shapes, KeepsShape DEF Stages
<1>7. GuardSound' /\ AnswerSound'
      BY <1>1, <1>4 DEF TxInv, GuardSound, AnswerSound, Building, Sent
<1>8. WaitSound'
      BY <1>1, <1>3 DEF WaitSound
<1>9. StreamSound'
      BY <1>1 DEF TxInv, StreamSound
<1>10. SnapSound'
      BY <1>1, <1>4 DEF TxInv, SnapSound, RequireStore, MustRecord
<1> QED BY <1>6, <1>7, <1>8, <1>9, <1>10 DEF TxInv

(* A wait that ends without an applied inclusion answers, or settles what  *)
(* it has learned: a rejection gives the inputs back, and a block that did *)
(* not apply the transaction counts only when it is final.                 *)
LEMMA WaitFails ==
  ASSUME TxInv, step \in {"waiting", "fetching"},
         NEW answer, answer \notin {"applied", "bytes"}, Waited(answer),
         UNCHANGED <<op, wait, snap, seen, elapsed, place, verdict, open, reorgs, wire>>,
         stream' \in Seq(Statuses), StreamSound',
         answer = "not_applied" => step = "fetching" /\ wait.at # "success",
         \/ answer = "Invalid" /\ place = "dead" /\ held' = FALSE /\ guard' = "none"
         \/ answer # "Invalid" /\ held' = held /\ guard' = guard
  PROVE  TxInv'
<1>1. /\ held /\ guard = "pending" /\ wire /\ place # "away" /\ RequireStore /\ op.kind # "build"
      BY DEF TxInv, GuardSound, SnapSound, WaitSound, Sent
<1>2. CASE wait.then = "settle"
      <2>1. step' = "settling" /\ result' = answer
            BY <1>2 DEF Waited
      <2>2. answer = "not_applied" => place = "final" /\ verdict # "success"
            BY <1>2 DEF TxInv, WaitSound
      <2>3. wire' \in BOOLEAN /\ open' \in BOOLEAN /\ held' \in BOOLEAN
            <3>1. held' = held \/ held' = FALSE
                  OBVIOUS
            <3> QED BY <3>1, Shapes, Zenon
      <2>4. guard' \in {"none", "future", "pending"} /\ (guard' # "none" => held')
            BY <1>1
      <2>5. Shape'
            BY <1>1, <2>1, <2>3, <2>4, Shapes, KeepsShape DEF Stages
      <2>6. GuardSound'
            BY <1>1, <2>1 DEF GuardSound, Building, Sent
      <2>7. AnswerSound'
            BY <1>1, <2>1, <2>2 DEF AnswerSound
      <2>8. WaitSound'
            BY <1>1, <2>1 DEF TxInv, WaitSound
      <2>9. SnapSound'
            BY <1>1, <2>1 DEF TxInv, SnapSound, RequireStore, MustRecord
      <2> QED BY <2>5, <2>6, <2>7, <2>8, <2>9 DEF TxInv
<1>3. CASE wait.then # "settle"
      <2>1. step' = "done" /\ result' = answer /\ op.kind # "call"
            BY <1>3 DEF Waited, Ends, TxInv, WaitSound
      <2> QED BY <1>1, <2>1, EndKeeps
<1> QED BY <1>2, <1>3

(* What is left of the stream is as true as before. *)
LEMMA TailKeeps ==
  ASSUME TxInv, stream # <<>>, stream' = Tail(stream), UNCHANGED <<place, verdict>>
  PROVE  /\ Head(stream) \in Statuses /\ Head(stream) = stream[1] /\ Len(stream) >= 1
         /\ stream' \in Seq(Statuses) /\ StreamSound'
<1>1. stream \in Seq(Statuses)
      BY Shapes
<1>2. /\ Len(stream) \in Nat /\ Len(stream) >= 1 /\ Head(stream) = stream[1]
      /\ Head(stream) \in Statuses /\ stream' \in Seq(Statuses) /\ Len(stream') = Len(stream) - 1
      /\ \A i \in 1..Len(stream') : stream'[i] = stream[i + 1]
      BY <1>1
<1>3. \A i \in 1..Len(stream') : i + 1 \in 1..Len(stream)
      BY <1>2
<1>4. StreamSound'
      BY <1>2, <1>3 DEF TxInv, StreamSound
<1> QED BY <1>2, <1>4

(* A status is read: it ends the wait, or is the one awaited, or neither.  *)
LEMMA ReadStatusStep ==
  ASSUME TxInv, ReadStatus
  PROVE  TxInv'
<1> DEFINE status == Head(stream)
<1>1. /\ step = "waiting" /\ stream # <<>> /\ stream' = Tail(stream)
      /\ UNCHANGED <<op, snap, seen, elapsed, place, verdict, open, reorgs, wire>>
      BY DEF ReadStatus
<1>2. /\ status \in Statuses /\ status = stream[1] /\ Len(stream) >= 1
      /\ stream' \in Seq(Statuses) /\ StreamSound'
      BY <1>1, TailKeeps
<1>3. /\ status.kind = "Invalid" => place = "dead"
      /\ status.kind = "InFinalizedBlock" => place = "final" /\ status.verdict = verdict
      <2>1. 1 \in 1..Len(stream)
            BY <1>2, Shapes
      <2> QED BY <1>2, <2>1 DEF TxInv, StreamSound
<1>4. /\ held /\ guard = "pending" /\ wire /\ place # "away" /\ result = "none" /\ RequireStore
      BY <1>1 DEF TxInv, GuardSound, AnswerSound, SnapSound, Sent
<1>5. CASE /\ FromTerminalStatus(status) /\ Waited(status.kind) /\ wait' = wait
           /\ IF RejectionIsDefinitive(status.kind) /\ guard = "pending"
              THEN HandBack ELSE UNCHANGED <<held, guard>>
      <2>1. \/ status.kind = "Invalid" /\ place = "dead" /\ held' = FALSE /\ guard' = "none"
            \/ status.kind # "Invalid" /\ held' = held /\ guard' = guard
            BY <1>3, <1>4, <1>5 DEF RejectionIsDefinitive, HandBack
      <2>2. status.kind \notin {"applied", "bytes", "not_applied"}
            BY <1>5 DEF FromTerminalStatus
      <2> HIDE DEF status
      <2> QED BY <1>1, <1>2, <1>5, <2>1, <2>2, WaitFails
<1>6. CASE /\ Landed(status, wait.for) /\ step' = "fetching"
           /\ wait' = [wait EXCEPT !.at = status.verdict]
           /\ UNCHANGED <<held, guard, result>>
      <2>1. /\ wait' \in Waits /\ wait'.for = wait.for /\ wait'.then = wait.then
            /\ wait'.limit = wait.limit /\ wait'.at = status.verdict
            BY <1>2, <1>6, Shapes DEF Waits, Statuses
      <2>2. wait.for = "final" => place = "final" /\ status.verdict = verdict
            BY <1>3, <1>6 DEF Landed
      <2>3. held' \in BOOLEAN /\ wire' \in BOOLEAN /\ open' \in BOOLEAN
            BY <1>1, <1>6, Shapes, Zenon
      <2>4. Shape'
            BY <1>1, <1>2, <1>4, <1>6, <2>1, <2>3, Shapes, KeepsShape DEF Stages
      <2>5. GuardSound' /\ AnswerSound'
            BY <1>1, <1>4, <1>6 DEF TxInv, GuardSound, AnswerSound, Building, Sent
      <2>6. WaitSound'
            BY <1>1, <1>6, <2>1, <2>2 DEF TxInv, WaitSound
      <2>7. SnapSound'
            BY <1>1, <1>4, <1>6 DEF TxInv, SnapSound, RequireStore, MustRecord
      <2> QED BY <1>2, <2>4, <2>5, <2>6, <2>7 DEF TxInv
<1>7. CASE UNCHANGED <<step, wait, held, guard, result>>
      <2>1. held' \in BOOLEAN /\ wire' \in BOOLEAN /\ open' \in BOOLEAN
            BY <1>1, <1>7, Shapes, Zenon
      <2>2. Shape'
            BY <1>1, <1>2, <1>4, <1>7, <2>1, Shapes, KeepsShape
      <2>3. GuardSound' /\ AnswerSound'
            BY <1>1, <1>7 DEF TxInv, GuardSound, AnswerSound
      <2>4. WaitSound' /\ SnapSound'
            BY <1>1, <1>7 DEF TxInv, WaitSound, SnapSound, RequireStore, MustRecord
      <2> QED BY <1>2, <2>2, <2>3, <2>4 DEF TxInv
<1>8. \/ /\ FromTerminalStatus(status) /\ Waited(status.kind) /\ wait' = wait
         /\ IF RejectionIsDefinitive(status.kind) /\ guard = "pending"
            THEN HandBack ELSE UNCHANGED <<held, guard>>
      \/ /\ Landed(status, wait.for) /\ step' = "fetching"
         /\ wait' = [wait EXCEPT !.at = status.verdict]
         /\ UNCHANGED <<held, guard, result>>
      \/ UNCHANGED <<step, wait, held, guard, result>>
      BY DEF ReadStatus
<1> QED BY <1>5, <1>6, <1>7, <1>8

(* The stream is over: the wait fails. *)
LEMMA StreamOverStep ==
  ASSUME TxInv, StreamOver
  PROVE  TxInv'
<1>1. /\ step = "waiting" /\ Waited("ended")
      /\ UNCHANGED <<op, wait, held, guard, snap, seen, elapsed, place, verdict, stream, open, reorgs, wire>>
      BY DEF StreamOver, node
<1>2. StreamSound' /\ stream' \in Seq(Statuses)
      BY <1>1, Shapes DEF TxInv, StreamSound
<1> QED BY <1>1, <1>2, WaitFails

(* The block's events were read and say success: a settlement knows that   *)
(* it is the final block, and the contract is read in what is left of the  *)
(* deadline.                                                               *)
LEMMA AppliedStep ==
  ASSUME TxInv, step = "fetching", wait.at = "success", Waited("applied"),
         wait' = IF wait.then = "contract"
                 THEN [wait EXCEPT !.limit = elapsed + Remaining(elapsed)] ELSE wait,
         seen' \in {seen, "success"},
         UNCHANGED <<op, held, guard, snap, elapsed, place, verdict, stream, open, reorgs, wire>>
  PROVE  TxInv'
<1>1. /\ held /\ guard = "pending" /\ wire /\ place # "away" /\ RequireStore /\ op.kind # "build"
      /\ result = "none"
      BY DEF TxInv, GuardSound, AnswerSound, SnapSound, WaitSound, Sent
<1>2. elapsed + Remaining(elapsed) = Deadline
      BY Shapes, ContractTxAssumption DEF Remaining
<1>3. /\ wait' \in Waits /\ wait'.for = wait.for /\ wait'.then = wait.then /\ wait'.at = wait.at
      /\ (wait.then = "contract" => wait'.limit = Deadline)
      <2>1. CASE wait.then = "contract"
            BY <1>2, <2>1, Shapes DEF Waits
      <2>2. CASE wait.then # "contract"
            BY <2>2, Shapes
      <2> QED BY <2>1, <2>2
<1>4. \/ /\ step' = "settling" /\ result' = "applied" /\ place = "final" /\ verdict = "success"
         /\ wait.then = "settle"
      \/ step' \in {"sent", "reading"} /\ result' = result /\ op.kind # "call"
      <2>1. CASE wait.then = "settle"
            BY <2>1 DEF Waited, TxInv, WaitSound
      <2>2. CASE wait.then # "settle"
            BY <2>2 DEF Waited, TxInv, WaitSound
      <2> QED BY <2>1, <2>2
<1>5. held' \in BOOLEAN /\ wire' \in BOOLEAN /\ open' \in BOOLEAN
      BY Shapes, Zenon
<1>6. Shape'
      BY <1>1, <1>3, <1>4, <1>5, Shapes, KeepsShape DEF Stages
<1>7. GuardSound' /\ AnswerSound'
      BY <1>1, <1>4 DEF TxInv, GuardSound, AnswerSound, Building, Sent
<1>8. WaitSound'
      BY <1>1, <1>3, <1>4 DEF TxInv, WaitSound
<1>9. StreamSound'
      BY DEF TxInv, StreamSound
<1>10. SnapSound'
      BY <1>1, <1>4 DEF TxInv, SnapSound, RequireStore, MustRecord
<1> QED BY <1>6, <1>7, <1>8, <1>9, <1>10 DEF TxInv

(* The events of the block give the verdict, or cannot be read. *)
LEMMA FetchEventsStep ==
  ASSUME TxInv, FetchEvents
  PROVE  TxInv'
<1>1. /\ step = "fetching"
      /\ UNCHANGED <<op, held, guard, snap, elapsed, place, verdict, stream, open, reorgs, wire>>
      BY DEF FetchEvents, node
<1>2. StreamSound' /\ stream' \in Seq(Statuses)
      BY <1>1, Shapes DEF TxInv, StreamSound
<1>3. CASE /\ wait.at = "success" /\ Waited("applied")
           /\ wait' = IF wait.then = "contract"
                      THEN [wait EXCEPT !.limit = elapsed + Remaining(elapsed)] ELSE wait
           /\ seen' = IF op.kind = "deploy" THEN "success" ELSE seen
      BY <1>1, <1>3, AppliedStep
<1>4. CASE wait.at # "success" /\ Waited("not_applied") /\ UNCHANGED <<wait, seen>>
      BY <1>1, <1>2, <1>4, WaitFails
<1>5. CASE Waited("verdict_unknown") /\ UNCHANGED <<wait, seen>>
      BY <1>1, <1>2, <1>5, WaitFails
<1> QED BY <1>3, <1>4, <1>5 DEF FetchEvents

(* A snapshot is settled by the verdict of the final block, and the caller *)
(* of a call hears a verdict only when it is.                              *)
LEMMA SettleSnapshotStep ==
  ASSUME TxInv, SettleSnapshot
  PROVE  TxInv'
<1>1. /\ step = "settling"
      /\ UNCHANGED <<op, wait, held, guard, seen, elapsed, place, verdict, stream, open, reorgs, wire>>
      BY DEF SettleSnapshot, node
<1>2. /\ wire /\ place # "away" /\ RequireStore /\ op.kind # "build"
      /\ (result # "Invalid" => held /\ guard = "pending") /\ (result = "Invalid" => ~held)
      /\ (result = "applied" => place = "final" /\ verdict = "success")
      /\ (result = "not_applied" => place = "final" /\ verdict # "success")
      BY <1>1 DEF TxInv, GuardSound, AnswerSound, SnapSound, WaitSound
<1>3. result # "bytes"
      BY <1>2 DEF TxInv, AnswerSound
<1>4. StreamSound' /\ stream' \in Seq(Statuses)
      BY <1>1, Shapes DEF TxInv, StreamSound
<1>5. held' \in BOOLEAN /\ wire' \in BOOLEAN /\ open' \in BOOLEAN
      BY <1>1, Shapes, Zenon
<1>6. guard = "pending" \/ ~held
      BY <1>2
<1>7. CASE step' = "done" /\ result' = "store_failed" /\ snap' = snap
      BY <1>1, <1>2, <1>4, <1>6, <1>7, Shapes, EndKeeps
<1>8. CASE /\ AfterSettle
           /\ \/ /\ snap = "pending" /\ result \in {"applied", "not_applied"}
                 /\ snap' = IF result = "applied" THEN "confirmed" ELSE "failed"
              \/ snap' = snap /\ (snap # "pending" \/ result \notin {"applied", "not_applied"})
      <2>1. /\ snap' \in {"none", "pending", "confirmed", "failed"}
            /\ (snap # "none" => snap' # "none")
            /\ (snap' = "confirmed" => place = "final" /\ verdict = "success")
            /\ (snap' = "failed" => place = "final" /\ verdict # "success")
            /\ (result \in {"applied", "not_applied"} => snap' # "pending")
            BY <1>2, <1>8, Shapes DEF TxInv, SnapSound
      <2>2. CASE op.kind = "deploy" /\ result = "applied" /\ step' = "sent" /\ result' = "none"
            <3>1. Shape'
                  BY <1>1, <1>2, <1>5, <2>1, <2>2, Shapes, KeepsShape DEF Stages
            <3>2. GuardSound' /\ AnswerSound'
                  BY <1>1, <1>2, <2>2 DEF TxInv, GuardSound, AnswerSound, Building, Sent
            <3>3. WaitSound'
                  BY <1>1, <2>2 DEF TxInv, WaitSound
            <3>4. SnapSound'
                  BY <1>1, <1>2, <2>1, <2>2 DEF TxInv, SnapSound, RequireStore, MustRecord
            <3> QED BY <1>4, <3>1, <3>2, <3>3, <3>4 DEF TxInv
      <2>3. CASE step' = "done" /\ result' = result
            <3>1. Shape'
                  BY <1>1, <1>2, <1>5, <2>1, <2>3, Shapes, KeepsShape DEF Stages, Sent
            <3>2. GuardSound'
                  BY <1>1, <1>6, <2>3, Shapes DEF GuardSound, Building, Sent
            <3>3. AnswerSound'
                  BY <1>1, <1>2, <1>3, <2>3 DEF TxInv, AnswerSound
            <3>4. WaitSound'
                  BY <1>1, <2>3 DEF TxInv, WaitSound
            <3>5. SnapSound'
                  BY <1>1, <1>2, <2>1, <2>3 DEF TxInv, SnapSound, MustRecord
            <3> QED BY <1>4, <3>1, <3>2, <3>3, <3>4, <3>5 DEF TxInv
      <2> QED BY <1>8, <2>2, <2>3 DEF AfterSettle
<1> QED BY <1>7, <1>8 DEF SettleSnapshot, Ends

-----------------------------------------------------------------------------
(* The ends that nothing of the chain brings *)

(* Past the submit, the guard that hands back at a drop is gone; before,   *)
(* the inputs were never on the wire.                                      *)
LEMMA Underway ==
  ASSUME TxInv, step \notin {"start", "done"}
  PROVE  \/ guard = "future" /\ ~wire /\ held
         \/ guard # "future" /\ wire
<1>1. CASE step \in Building
      BY <1>1 DEF TxInv, GuardSound
<1>2. CASE step = "submitting" \/ step \in Sent
      BY <1>2 DEF TxInv, GuardSound
<1>3. CASE step = "settling"
      <2>1. wire /\ (result # "Invalid" => guard = "pending") /\ (result = "Invalid" => ~held)
            BY <1>3 DEF TxInv, GuardSound, AnswerSound
      <2>2. guard # "none" => held
            BY Shapes
      <2> QED BY <2>1, <2>2
<1> QED BY <1>1, <1>2, <1>3, Shapes DEF Stages, Building, Sent

(* The contract is read, a deadline fires, the caller drops the value in   *)
(* hand, or the process ends.                                              *)
LEMMA EndSteps ==
  ASSUME TxInv, ReadContract \/ TimeOut \/ Drop \/ Crash
  PROVE  TxInv'
<1>1. /\ step \notin {"start", "done"}
      /\ UNCHANGED <<op, wait, snap, seen, elapsed, place, verdict, stream, open, reorgs, wire>>
      /\ step' = "done"
      /\ result' \in {"contract", "state_fetch", "finalize_timeout", "read_timeout",
                      "deploy_timeout", "dropped", "crashed"}
      BY DEF ReadContract, TimeOut, Drop, Crash, Ends, Overdue, Bounded, node
<1>2. \/ held' = held /\ guard' = guard /\ guard # "future"
      \/ held' = FALSE /\ guard' = "none" /\ guard = "future"
      \/ held' = held /\ guard' = "none" /\ result' = "crashed"
      <2>1. CASE ReadContract \/ TimeOut
            <3>1. step \in Sent
                  BY <2>1 DEF ReadContract, TimeOut, Overdue, Bounded, Sent
            <3>2. guard = "pending"
                  BY <3>1 DEF TxInv, GuardSound
            <3> QED BY <2>1, <3>2 DEF ReadContract, TimeOut
      <2>2. CASE Drop
            BY <2>2 DEF Drop, HandBack
      <2>3. CASE Crash
            BY <2>3 DEF Crash, Ends
      <2> QED BY <2>1, <2>2, <2>3
<1>3. \/ held' = held /\ guard' = guard /\ guard # "future" /\ (wire \/ ~held)
      \/ held' = FALSE /\ guard' = "none" /\ (~wire \/ place = "dead")
      \/ held' = held /\ guard' = "none" /\ result' = "crashed"
      BY <1>1, <1>2, Underway
<1>4. StreamSound' /\ stream' \in Seq(Statuses)
      BY <1>1, Shapes DEF TxInv, StreamSound
<1> QED BY <1>1, <1>3, <1>4, EndKeeps

(* A tick is under the limit of the wait, which is the deadline. *)
LEMMA TickStep ==
  ASSUME TxInv, Tick
  PROVE  TxInv'
<1>1. /\ Bounded /\ elapsed < wait.limit /\ elapsed' = elapsed + 1
      /\ UNCHANGED <<op, step, wait, result, held, guard, snap, seen,
                     place, verdict, stream, open, reorgs, wire>>
      BY DEF Tick, handle, node
<1>2. wait.limit = Deadline
      BY <1>1, Shapes DEF Bounded, Waits
<1>3. elapsed' \in 0..Deadline
      BY <1>1, <1>2, Shapes, ContractTxAssumption
<1>4. held' \in BOOLEAN /\ wire' \in BOOLEAN /\ open' \in BOOLEAN
      BY <1>1, Shapes, Zenon
<1>5. step \in Sent \cup {"settling"} => wire
      BY DEF TxInv, GuardSound
<1>6. Shape'
      BY <1>1, <1>3, <1>4, <1>5, Shapes, KeepsShape
<1>7. GuardSound' /\ AnswerSound'
      BY <1>1 DEF TxInv, GuardSound, AnswerSound
<1>8. WaitSound' /\ StreamSound' /\ SnapSound'
      BY <1>1 DEF TxInv, WaitSound, StreamSound, SnapSound, RequireStore, MustRecord
<1> QED BY <1>6, <1>7, <1>8 DEF TxInv

-----------------------------------------------------------------------------
(* The theorems *)

(* Nothing is reserved, recorded or sent at first. *)
LEMMA InitStep ==
  ASSUME Init
  PROVE  TxInv
<1>1. Deadline \in Nat \ {0} /\ MaxReorgs \in Nat /\ NoLimit = 2 * Deadline + 1
      /\ Kinds \subseteq Kind
      BY ContractTxAssumption DEF NoLimit, Kind
<1>2. wait \in Waits /\ wait.limit = NoLimit /\ wait.then = "caller"
      BY DEF Init, NoWait, Waits
<1>3. op \in [kind : Kind, changes : BOOLEAN, store : BOOLEAN, declares : BOOLEAN]
      BY <1>1 DEF Init
<1>4. TypeOK
      BY <1>1, <1>2 DEF Init, TypeOK
<1>5. Shape
      <2>1. held \in BOOLEAN /\ wire \in BOOLEAN /\ open \in BOOLEAN
            BY DEF Init
      <2>2. elapsed \in 0..Deadline /\ stream \in Seq(Statuses)
            BY <1>1 DEF Init
      <2> QED BY <1>2, <1>3, <1>4, <2>1, <2>2, Zenon DEF Shape
<1>6. GuardSound /\ AnswerSound
      BY DEF Init, GuardSound, AnswerSound, Building, Sent
<1>7. WaitSound
      BY <1>2 DEF Init, WaitSound
<1>8. StreamSound
      BY DEF Init, StreamSound
<1>9. SnapSound
      BY DEF Init, SnapSound
<1> QED BY <1>5, <1>6, <1>7, <1>8, <1>9 DEF TxInv

(* Every step keeps the invariant. *)
LEMMA NextStep ==
  ASSUME TxInv, [Next]_vars
  PROVE  TxInv'
<1>1. CASE RunForBuild \/ PrepareReserved \/ Decode \/ Record \/ SubmitStarts \/ SubmitReturns \/ SubmitBytes
      BY <1>1, RunForBuildStep, PrepareReservedStep, DecodeStep, RecordStep, SubmitStartsStep,
         SubmitReturnsStep, SubmitBytesStep
<1>2. CASE Deliver \/ Include \/ Retract \/ Finalize \/ Reject \/ LoseTrack
      BY <1>2, DeliverStep, IncludeStep, RetractStep, FinalizeStep, RejectStep, LoseTrackStep
<1>3. CASE Finish \/ WaitBest \/ WaitFinalized \/ IntoContract
      BY <1>3, WaitSteps, IntoContractStep
<1>4. CASE ReadStatus \/ StreamOver \/ FetchEvents \/ SettleSnapshot
      BY <1>4, ReadStatusStep, StreamOverStep, FetchEventsStep, SettleSnapshotStep
<1>5. CASE ReadContract \/ Tick \/ TimeOut \/ Drop \/ Crash
      BY <1>5, EndSteps, TickStep
<1>6. CASE UNCHANGED vars
      <2>1. UNCHANGED <<op, step, wait, result, held, guard, snap, seen, elapsed,
                        place, verdict, stream, open, reorgs, wire>>
            BY <1>6 DEF vars, handle, node
      <2>2. Shape'
            BY <2>1 DEF TxInv, Shape, TypeOK
      <2>3. GuardSound' /\ AnswerSound'
            BY <2>1 DEF TxInv, GuardSound, AnswerSound
      <2>4. WaitSound' /\ StreamSound' /\ SnapSound'
            BY <2>1 DEF TxInv, WaitSound, StreamSound, SnapSound, RequireStore, MustRecord
      <2> QED BY <2>2, <2>3, <2>4 DEF TxInv
<1> QED BY <1>1, <1>2, <1>3, <1>4, <1>5, <1>6 DEF Next

(* At every step the reservation, the answer, the wait, the statuses not   *)
(* yet read and the snapshot agree with where the chain has the            *)
(* transaction.                                                            *)
THEOREM OperationIsSound == Spec => []TxInv
<1>1. Init => TxInv
      BY InitStep
<1>2. TxInv /\ [Next]_vars => TxInv'
      BY NextStep
<1> QED BY <1>1, <1>2, PTL DEF Spec

(* Every variable of the operation keeps its type.                         *)
THEOREM TypeCorrect == Spec => []TypeOK
<1>1. TxInv => TypeOK
      BY DEF TxInv, Shape
<1> QED BY <1>1, OperationIsSound, PTL

(* Inputs are handed back only when the transaction can never spend them,  *)
(* and what never left the process keeps none.                             *)
THEOREM HandsBackWhatIsFree == Spec => []InputsFollowTheFate
<1>1. TxInv => InputsFollowTheFate
      BY DEF TxInv, AnswerSound, InputsFollowTheFate
<1> QED BY <1>1, OperationIsSound, PTL

(* A snapshot says what the finalized chain says, and nothing that changes *)
(* the private state is on the wire without one.                           *)
THEOREM SettlesWhatIsFinal == Spec => []SnapshotFollowsTheFate
<1>1. TxInv => SnapshotFollowsTheFate
      BY DEF TxInv, AnswerSound, SnapSound, SnapshotFollowsTheFate
<1> QED BY <1>1, OperationIsSound, PTL

(* The wait for the block and the read of the contract share one deadline. *)
THEOREM DeadlineIsShared == Spec => []OneDeadline
<1>1. TxInv => OneDeadline
      BY Shapes, ContractTxAssumption DEF OneDeadline
<1> QED BY <1>1, OperationIsSound, PTL
=============================================================================
