------------------------------- MODULE Replay -------------------------------
(***************************************************************************)
(* The replay of one event stream into a wallet, over subscriptions that   *)
(* drop, repeat, stall and end, with the checkpoints and the restarts that *)
(* resume it.                                                              *)
(*                                                                         *)
(* The chain's events are 1..tip.  Those from ForkAt on are of the later   *)
(* ledger generation: the shielded stream stops there and starts again in  *)
(* the later generation, the Dust stream of the later generation consumes  *)
(* the earlier events without applying them.  An unshielded transaction is *)
(* an event too, and the progress frames that announce the largest one are *)
(* frames of their own.                                                    *)
(***************************************************************************)
EXTENDS Subscription

CONSTANTS
    Streams,        \* the streams to replay, one in a behaviour
    ForkAt,         \* the first event of the later generation
    MaxRetries,     \* RECONNECT_MAX_RETRIES; 4 in the code
    BatchSize,      \* REPLAY_BATCH; 1000 in the code
    CheckpointEvery \* DUST_CHECKPOINT_INTERVAL; 50000 in the code

ASSUME ReplayAssumption ==
    /\ Streams \subseteq {"zswap", "dust", "unshielded"}
    /\ ForkAt \in 1..(MaxId + 1)
    /\ MaxRetries \in Nat
    /\ BatchSize \in Nat \ {0}
    /\ CheckpointEvery \in Nat \ {0}

VARIABLES
    stream,     \* the stream of this behaviour
    tip,        \* the chain's last event
    next,       \* the server: the next event of this subscription
    replay,     \* the replay loop and what it has of the stream
    mem,        \* the wallet in memory
    disk,       \* the last snapshot
    asked,      \* history: the tip when the replay began
    attempts    \* history: connections since the last progress

vars == <<conn, queue, stream, tip, next, replay, mem, disk, asked, attempts>>
walletVars == <<mem, disk>>
historyVars == <<asked, attempts>>

-----------------------------------------------------------------------------
IsLedger == stream # "unshielded"
Gens     == {8, 9}
GenOf(id) == IF id >= ForkAt THEN 9 ELSE 8

(* What a wallet has of a stream: the events applied, the cursor, and the  *)
(* generation it is in.                                                    *)
State   == [applied: BoundedSeq(1..MaxId, MaxId), cursor: 0..MaxId, gen: Gens]
NoState == [applied |-> <<>>, cursor |-> -1, gen |-> 8]

(* idle: no replay.  subscribing, waiting: in the two loops.  backoff:     *)
(* sleeps before a reconnect.  done: returned, for the caller to commit.   *)
(* chain: the generation of the chain when the sync began.  gen: the       *)
(* generation replayed in.  last: the cursor.  count: events consumed.     *)
(* high: the largest id of this connection, or -1.  target: the largest    *)
(* transaction announced, or -1.  since: ticks spent waiting for an item.  *)
(* by: what ended the replay.                                              *)
Loop == [st: {"idle", "subscribing", "waiting", "backoff", "done"},
         start: 0..MaxId + 1, resuming: BOOLEAN, chain: Gens, gen: Gens,
         last: 0..MaxId, count: 0..MaxId, retries: 0..MaxRetries, high: -1..MaxId,
         target: -1..MaxId, since: 0..3, applied: BoundedSeq(1..MaxId, MaxId),
         batch: BoundedSeq(1..MaxId, BatchSize), by: {"none", "event", "silence", "empty"}]

NoLoop == [st |-> "idle", start |-> 0, resuming |-> FALSE, chain |-> 8, gen |-> 8, last |-> 0,
           count |-> 0, retries |-> 0, high |-> -1, target |-> -1, since |-> 0,
           applied |-> <<>>, batch |-> <<>>, by |-> "none"]

(* The types, and what holds of a clock and a counter at their limits. *)
TypeOK ==
    /\ SubTypeOK
    /\ stream \in Streams
    /\ tip \in 0..MaxId
    /\ next \in 1..MaxId + 1
    /\ replay \in Loop
    /\ mem \in State \cup {NoState}
    /\ disk \in State \cup {NoState}
    /\ asked \in 0..MaxId
    /\ attempts \in Nat

-----------------------------------------------------------------------------
(* Cursors *)

LastAppliedBefore(start) == IF start = 0 THEN 0 ELSE start - 1

(* Where a (re)connect asks the server to start. *)
ResumeId(r) ==
    CASE r.count > 0            -> r.last + 1
      [] r.count = 0 /\ IsLedger -> r.last
      [] OTHER                  -> r.start

AlreadyApplied(id, r) == (r.count > 0 \/ r.start > 0) /\ id <= r.last

OrderRegression(id, r) == r.high # -1 /\ id < r.high

EventTimeout(r) == IF r.resuming THEN 1 ELSE 3

-----------------------------------------------------------------------------
(* Starting a replay *)

(* The generation of the chain's latest block. *)
ChainGen == GenOf(tip)

(* From the state in memory, or from the first event.  The Dust replay     *)
(* runs in the chain's generation, and starts over in a later one; the     *)
(* shielded replay starts in the wallet's and crosses.                     *)
Begin(s) ==
    LET start == s.cursor + 1
        gen   == IF stream = "dust" THEN ChainGen ELSE s.gen
    IN  replay' = [NoLoop EXCEPT
            !.st = "subscribing",
            !.start = start,
            !.resuming = s # NoState,
            !.chain = ChainGen,
            !.gen = gen,
            !.last = LastAppliedBefore(start),
            !.applied = IF stream = "dust" /\ gen # s.gen THEN <<>> ELSE s.applied]

StartReplay ==
    /\ replay.st = "idle"
    /\ Begin(mem)
    /\ asked' = tip
    /\ attempts' = 0
    /\ UNCHANGED <<conn, queue, stream, tip, next, walletVars>>

Subscribe ==
    /\ replay.st = "subscribing"
    /\ conn.st = "none"
    /\ Connect
    /\ attempts' = attempts + 1
    /\ UNCHANGED <<stream, tip, next, replay, walletVars, asked>>

(* The server starts at the id asked for, or at an earlier one. *)
Subscribed ==
    /\ replay.st = "subscribing"
    /\ Acknowledged
    /\ next' \in {1} \cup 1..ResumeId(replay)
    /\ replay' = [replay EXCEPT !.st = "waiting", !.high = -1, !.since = 0]
    /\ UNCHANGED <<stream, tip, walletVars, historyVars>>

MayRetry(r) == r.retries < MaxRetries

GiveUp == replay' = NoLoop /\ DropHandle

(* After a retryable failure: back off, and reconnect, up to the bound. *)
ReconnectOrGiveUp ==
    /\ IF MayRetry(replay)
       THEN replay' = [replay EXCEPT !.st = "backoff", !.retries = @ + 1, !.since = 0]
       ELSE replay' = NoLoop
    /\ DropHandle

HandshakeWrite ==
    /\ replay.st = "subscribing"
    /\ Writes \/ Written
    /\ UNCHANGED <<stream, tip, next, replay, walletVars, historyVars>>

(* The handshake failed; an unexpected message is not retryable. *)
SubscribeFails ==
    /\ replay.st = "subscribing"
    /\ Shaking
    /\ ReconnectOrGiveUp \/ GiveUp
    /\ UNCHANGED <<stream, tip, next, walletVars, historyVars>>

SubscribeTimesOut ==
    /\ HandshakeDue
    /\ ReconnectOrGiveUp
    /\ UNCHANGED <<stream, tip, next, walletVars, historyVars>>

BackoffOver ==
    /\ replay.st = "backoff"
    /\ replay' = [replay EXCEPT !.st = "subscribing"]
    /\ UNCHANGED <<conn, queue, stream, tip, next, walletVars, historyVars>>

-----------------------------------------------------------------------------
(* The server *)

(* The next event of the subscription, or one it already sent, as often as *)
(* it likes, each with the tip of that moment.  A chain without events     *)
(* says so.                                                                *)
ServerEvent ==
    /\ \/ /\ next <= tip
          /\ FrameItem(Event(next, tip))
          /\ next' = next + 1
       \/ \E id \in 1..(next - 1) :
            /\ id <= tip
            /\ FrameItem(Event(id, tip))
            /\ UNCHANGED next
       \/ /\ IsLedger /\ tip = 0
          /\ FrameItem(Event(0, 0))
          /\ UNCHANGED next
    /\ UNCHANGED <<stream, tip, replay, walletVars, historyVars>>

ServerProgress ==
    /\ ~IsLedger
    /\ FrameItem(Progress(tip))
    /\ UNCHANGED <<stream, tip, next, replay, walletVars, historyVars>>

(* Everything else the server does to the reader. *)
ServerOther ==
    /\ FrameQuiet \/ FrameFails \/ FrameEnds \/ FrameItem(Failure("bad"))
    /\ UNCHANGED <<stream, tip, next, replay, walletVars, historyVars>>

ReaderStep ==
    /\ Reader
    /\ UNCHANGED <<stream, tip, next, replay, walletVars, historyVars>>

NewEvent ==
    /\ tip < MaxId
    /\ tip' = tip + 1
    /\ UNCHANGED <<conn, queue, stream, next, replay, walletVars, historyVars>>

-----------------------------------------------------------------------------
(* The wait for an item *)

Waiting == replay.st = "waiting" /\ queue = <<>> /\ conn.st # "ended"

(* Mutant of TimedOut: only a resume stops waiting. *)
TimedOutResumed == Waiting /\ replay.resuming /\ replay.since >= EventTimeout(replay)

TimedOut == Waiting /\ replay.since >= EventTimeout(replay)

Tick ==
    /\ SubMayTick
    /\ ~TimedOut
    /\ conn' = Older
    /\ replay' = IF Waiting /\ replay.since < 3 THEN [replay EXCEPT !.since = @ + 1]
                  ELSE replay
    /\ <<conn', replay'>> # <<conn, replay>>
    /\ UNCHANGED <<queue, stream, tip, next, walletVars, historyVars>>

(* The replay returns; the caller gets what it consumed, with the waiting  *)
(* batch applied.                                                          *)
Return(r, by) == [r EXCEPT !.st = "done", !.by = by, !.high = -1, !.since = 0, !.retries = 0,
                           !.applied = r.applied \o r.batch, !.batch = <<>>]

(* Mutant of AtTip: silence ends a replay that has nothing to resume. *)
AtTipFresh(r) == r.count = 0

(* A stream that ends, or stays silent, before the first new event of a    *)
(* resumed ledger replay is at the tip.                                    *)
AtTip(r) == r.resuming /\ r.count = 0

StreamEnds ==
    /\ replay.st = "waiting"
    /\ Closed
    /\ IF IsLedger /\ AtTip(replay)
       THEN replay' = Return(replay, "silence") /\ DropHandle
       ELSE ReconnectOrGiveUp
    /\ UNCHANGED <<stream, tip, next, walletVars, historyVars>>

(* The unshielded replay takes silence for the tip on every resume. *)
WaitTimesOut ==
    /\ TimedOut
    /\ DropHandle
    /\ replay' = IF IF IsLedger THEN AtTip(replay) ELSE replay.resuming
                 THEN Return(replay, "silence")
                 ELSE NoLoop
    /\ UNCHANGED <<stream, tip, next, walletVars, historyVars>>

-----------------------------------------------------------------------------
(* One item *)

Taken      == Head(queue)
NextItem   == replay.st = "waiting" /\ HasNext
TakeItem   == queue' = Tail(queue) /\ UNCHANGED conn
Heard(r)   == [r EXCEPT !.since = 0]

ItemFails ==
    /\ NextItem
    /\ Taken.k \in {"transport", "bad", "refused"}
    /\ IF IsRetryable(Taken) THEN ReconnectOrGiveUp ELSE GiveUp
    /\ UNCHANGED <<stream, tip, next, walletVars, historyVars>>

(* Mutant of Flushed: a checkpoint takes the state without the batch. *)
FlushedNot(r) == r

(* The batch into the state. *)
Flushed(r) == [r EXCEPT !.applied = @ \o r.batch, !.batch = <<>>]

(* Consume an event of this generation or, for Dust, of an earlier one,    *)
(* which is not applied.                                                   *)
Consume(r, id) ==
    LET own    == stream = "unshielded" \/ GenOf(id) = r.gen
        pushed == IF own THEN [r EXCEPT !.batch = Append(@, id)] ELSE r
        full   == IF stream = "unshielded" \/ Len(pushed.batch) >= BatchSize
                  THEN Flushed(pushed) ELSE pushed
        \* the counters after it
    IN  [full EXCEPT !.retries = 0, !.last = id, !.count = @ + 1, !.high = id, !.since = 0]

CheckpointDue(r) == stream = "dust" /\ r.count % CheckpointEvery = 0

(* An event at the largest id the server knows of ends the replay. *)
EndsAt(id, max) == id >= max

(* The shielded replay crosses into the generation of the event, and       *)
(* starts over at it; the Dust replay does not.                            *)
Cross(r, id) ==
    IF stream = "zswap"
    THEN [Return(r, "none") EXCEPT !.st = "subscribing", !.start = id, !.gen = GenOf(id),
                                   !.last = LastAppliedBefore(id), !.count = 0]
    ELSE NoLoop

(* The outcome of a new event, in the order of the code.  The caller may   *)
(* have dropped the progress receiver, and the event may be malformed:     *)
(* both end the replay (ReplayStops).                                      *)
NewLedgerEvent(id, max) ==
    CASE GenOf(id) > replay.gen ->
            /\ replay' = Cross(replay, id)
            /\ DropHandle
            /\ attempts' = 0
            /\ UNCHANGED disk
      [] GenOf(id) < replay.gen /\ stream = "zswap" ->
            /\ GiveUp
            /\ UNCHANGED <<disk, attempts>>
      [] OTHER ->
            LET consumed == Consume(replay, id)
                kept     == IF CheckpointDue(consumed) THEN Flushed(consumed) ELSE consumed
            IN  /\ disk' = IF CheckpointDue(consumed)
                           THEN [applied |-> kept.applied, cursor |-> id, gen |-> kept.gen]
                           ELSE disk
                /\ attempts' = 0
                /\ IF EndsAt(id, max)
                   THEN replay' = Return(kept, "event") /\ DropHandle
                   ELSE replay' = kept /\ TakeItem

LedgerItem ==
    /\ IsLedger
    /\ NextItem
    /\ Taken.k = "event"
    /\ CASE OrderRegression(Taken.id, replay) -> GiveUp /\ UNCHANGED <<disk, attempts>>
         [] ~OrderRegression(Taken.id, replay) /\ Taken.max = 0 ->
                replay' = Return(replay, "empty") /\ DropHandle /\ UNCHANGED <<disk, attempts>>
         [] ~OrderRegression(Taken.id, replay) /\ Taken.max > 0
                /\ AlreadyApplied(Taken.id, replay) ->
                /\ IF EndsAt(Taken.id, Taken.max)
                   THEN replay' = Return(replay, "event") /\ DropHandle
                   ELSE replay' = [Heard(replay) EXCEPT !.high = Taken.id] /\ TakeItem
                /\ UNCHANGED <<disk, attempts>>
         [] OTHER -> NewLedgerEvent(Taken.id, Taken.max)
    /\ UNCHANGED <<stream, tip, next, mem, asked>>

(* A transaction that is not new is skipped, also when it is the target. *)
TransactionItem ==
    /\ ~IsLedger
    /\ NextItem
    /\ Taken.k = "event"
    /\ CASE OrderRegression(Taken.id, replay) -> GiveUp /\ UNCHANGED attempts
         [] ~OrderRegression(Taken.id, replay) /\ AlreadyApplied(Taken.id, replay) ->
                replay' = [Heard(replay) EXCEPT !.high = Taken.id] /\ TakeItem /\ UNCHANGED attempts
         [] OTHER ->
                LET consumed == Consume(replay, Taken.id)
                IN  /\ attempts' = 0
                    /\ IF replay.target # -1 /\ Taken.id >= replay.target
                       THEN replay' = Return(consumed, "event") /\ DropHandle
                       ELSE replay' = consumed /\ TakeItem
    /\ UNCHANGED <<stream, tip, next, walletVars, asked>>

(* Every progress frame resets the reconnect bound; the target survives    *)
(* reconnects.                                                             *)
ProgressItem ==
    /\ NextItem
    /\ Taken.k = "progress"
    /\ attempts' = 0
    /\ IF Taken.max = 0 \/ replay.last >= Taken.max
       THEN replay' = Return(replay, "event") /\ DropHandle
       ELSE replay' = [Heard(replay) EXCEPT !.retries = 0, !.target = Taken.max] /\ TakeItem
    /\ UNCHANGED <<stream, tip, next, walletVars, asked>>

(* A malformed event, an event the state refuses, or a consumer that went  *)
(* away: the replay ends with an error and its state is dropped.           *)
ReplayStops ==
    /\ NextItem
    /\ Taken.k = "event"
    /\ ~AlreadyApplied(Taken.id, replay)
    /\ GiveUp
    /\ UNCHANGED <<stream, tip, next, walletVars, historyVars>>

-----------------------------------------------------------------------------
(* What the caller does with it *)

(* The state goes to the generation of the chain; a state already past it  *)
(* fails the sync.                                                         *)
Commit ==
    /\ replay.st = "done"
    /\ replay' = NoLoop
    /\ IF replay.gen > replay.chain
       THEN UNCHANGED mem
       ELSE mem' = [applied |-> replay.applied, cursor |-> replay.last, gen |-> replay.chain]
    /\ UNCHANGED <<conn, queue, stream, tip, next, disk, historyVars>>

(* A save writes what is in memory. *)
Save ==
    /\ replay.st = "idle"
    /\ mem # NoState
    /\ disk' = mem
    /\ UNCHANGED <<conn, queue, stream, tip, next, replay, mem, historyVars>>

(* The process stops, at any step, and a new one loads the snapshot. *)
Restart ==
    /\ mem' = disk
    /\ replay' = NoLoop
    /\ DropHandle
    /\ UNCHANGED <<stream, tip, next, disk, historyVars>>

-----------------------------------------------------------------------------
Init ==
    /\ SubInit
    /\ stream \in Streams
    /\ tip \in 0..MaxId
    /\ next = 1
    /\ replay = NoLoop
    /\ mem = NoState
    /\ disk = NoState
    /\ asked = 0
    /\ attempts = 0

(* The task of the replay. *)
Task ==
    \/ Subscribe \/ SubscribeTimesOut \/ BackoffOver
    \/ StreamEnds \/ WaitTimesOut \/ ItemFails
    \/ LedgerItem \/ TransactionItem \/ ProgressItem
    \/ Commit

Environment ==
    \/ Subscribed \/ SubscribeFails \/ HandshakeWrite
    \/ ServerEvent \/ ServerProgress \/ ServerOther \/ NewEvent
    \/ ReplayStops \/ StartReplay \/ Save \/ Restart

Next == Task \/ ReaderStep \/ Tick \/ Environment

Spec == Init /\ [][Next]_vars

(* The runtime runs the two tasks, and time passes.  Nothing is assumed of *)
(* the server, which may fall silent for ever at any step.                 *)
FairSpec == Spec /\ WF_vars(Task) /\ WF_vars(ReaderStep) /\ WF_vars(Tick)

-----------------------------------------------------------------------------
(* Properties *)

Range1(first, last) == [i \in 1..(IF last < first THEN 0 ELSE last - first + 1) |-> first + i - 1]

(* The events a state of this generation with this cursor must hold. *)
Wanted(gen, cursor) == Range1(IF stream = "dust" /\ gen = 9 THEN ForkAt ELSE 1, cursor)

Whole(s) == s # NoState => s.applied = Wanted(s.gen, s.cursor)

(* In memory, on disk and in the replay at work, the state holds every     *)
(* event up to its cursor exactly once and in order, whatever the server   *)
(* repeats, wherever a connection drops and whichever checkpoint a restart *)
(* resumes from.  (already_applied, order_regression, the reconnect's      *)
(* resume id, and the flush before a checkpoint.)                          *)
EventsOnceInOrder ==
    /\ Whole(mem)
    /\ Whole(disk)
    /\ replay.st # "idle" => replay.applied \o replay.batch = Wanted(replay.gen, replay.last)

(* A replay that returns has every event the chain had when it began, or   *)
(* took the silence of a resume for the tip; a sync from genesis never     *)
(* takes silence for the tip.                                              *)
CaughtUp ==
    replay.st = "done" =>
        \/ replay.last >= asked
        \/ replay.by = "silence" /\ replay.resuming

(* A replay that makes no progress connects at most once more than the     *)
(* retries allow, however the server mixes refusals, drops, early ends and *)
(* repeated events (the retries in replay_ledger_events).                  *)
ReconnectsBounded == attempts <= MaxRetries + 1

(* A sync from genesis that gives up on an open subscription had a live    *)
(* socket and a server that sends no event: a dead socket is torn down by  *)
(* the keepalive before, and reconnected (event_timeout, the idle timeout).*)
StallHasLiveSocket == TimedOut /\ ~replay.resuming => conn.st = "reading" /\ conn.age < replay.since

(* An event the wallet already has, which the replay passes over. *)
Skip ==
    /\ LedgerItem \/ TransactionItem
    /\ replay'.st = "waiting"
    /\ AlreadyApplied(Taken.id, replay)

(* A replay returns, over a server that falls silent, ends, fails and      *)
(* drops its connections in any order.  Three servers can keep it: one     *)
(* that sends events the wallet has for ever, each of which starts the     *)
(* wait anew (the continue after already_applied), one that announces      *)
(* progress for ever, and one that never takes in a message of the         *)
(* handshake, which is not under the deadline.                             *)
ReplayReturns ==
    \/ replay.st \notin {"idle", "done"} ~> replay.st \in {"idle", "done"}
    \/ []<><<Skip>>_vars
    \/ []<><<ProgressItem>>_vars
    \/ <>[](conn.st = "writing")

(* A wallet stored before the fork resumes and crosses on the way: no      *)
(* shielded state of the later generation has events of the earlier one    *)
(* still to come, which a replay in the later generation refuses           *)
(* (expect_ledger in the shielded replay).                                 *)
CrossesAtTheFork == stream = "zswap" /\ mem.gen = 9 /\ mem # NoState => mem.cursor >= ForkAt - 1

=============================================================================
