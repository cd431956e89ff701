---------------------------- MODULE Subscription ----------------------------
(***************************************************************************)
(* One GraphQL subscription of the indexer client: the handshake under one *)
(* deadline, the reader task with its keepalive, and the channel on which  *)
(* it hands items to the replay.  Time passes in ticks of ten seconds.     *)
(*                                                                         *)
(* The server is free: it may send any frame at any time, drop the socket, *)
(* close it, or leave it open and say nothing.  What an event frame may    *)
(* carry is the business of the module that extends this one.              *)
(***************************************************************************)
EXTENDS Integers, Sequences, SequencesExt

CONSTANTS
    MaxId,          \* bound: the largest event id
    QueueSize       \* capacity of the channel; 64 in the code

ASSUME SubscriptionAssumption ==
    /\ MaxId \in Nat \ {0}
    /\ QueueSize \in Nat \ {0}

VARIABLES
    conn,       \* the handshake or the reader task
    queue       \* the channel from the reader to the handle

subVars == <<conn, queue>>

-----------------------------------------------------------------------------
ConnectTimeout == 1
PingAfter      == 1
IdleTimeout    == 2

(* event: a ledger event or a transaction, with the largest id the server  *)
(* knows of.  progress: the largest transaction id.  The rest is an error: *)
(* retryable (transport) or not (bad: it does not deserialize; refused: a  *)
(* GraphQL or a protocol error).                                           *)
Item == [k: {"event", "progress", "transport", "bad", "refused"}, id: 0..MaxId, max: 0..MaxId]

Event(id, max)   == [k |-> "event", id |-> id, max |-> max]
Progress(target) == [k |-> "progress", id |-> 0, max |-> target]
Failure(kind)    == [k |-> kind, id |-> 0, max |-> 0]

IsRetryable(item) == item.k = "transport"

(* none: no handle.  connecting: in the handshake, waiting for the server; *)
(* writing: in the handshake, with a message of it on its way out.         *)
(* reading: in the select.  sending: blocked on a full channel with held,  *)
(* and ends after it if last.  ended: the task is over and the channel     *)
(* closed.  age: ticks since the handshake began, or since the last frame. *)
Conn == [st: {"none", "connecting", "writing", "reading", "sending", "ended"},
         age: 0..IdleTimeout + 1, pinged: BOOLEAN, held: Item, last: BOOLEAN]

NoItem == Failure("bad")
At(st) == [st |-> st, age |-> 0, pinged |-> FALSE, held |-> NoItem, last |-> FALSE]

SubTypeOK ==
    /\ conn \in Conn
    /\ queue \in BoundedSeq(Item, QueueSize)

SubInit == conn = At("none") /\ queue = <<>>

-----------------------------------------------------------------------------
(* The handshake *)

Connect == conn' = At("connecting") /\ queue' = <<>>

Shaking == conn.st \in {"connecting", "writing"}

(* The one deadline over connecting and waiting for the acknowledgement.   *)
(* It is not over the messages the handshake sends: connection_init, a     *)
(* pong, subscribe.                                                        *)
HandshakeDue == conn.st = "connecting" /\ conn.age >= ConnectTimeout

(* A message starts on its way out, and went out. *)
Writes ==
    /\ conn.st = "connecting"
    /\ ~HandshakeDue
    /\ conn' = [conn EXCEPT !.st = "writing"]
    /\ UNCHANGED queue

Written ==
    /\ conn.st = "writing"
    /\ conn' = [conn EXCEPT !.st = "connecting"]
    /\ UNCHANGED queue

(* connection_ack arrived, and the last message, subscribe, went out. *)
Acknowledged ==
    /\ conn.st = "writing"
    /\ conn' = At("reading")
    /\ UNCHANGED queue

-----------------------------------------------------------------------------
(* The reader task *)

(* A frame resets the clock and the ping. *)
Reading == At("reading")

(* Hand an item to the handle; with the channel full, block until it has   *)
(* room.                                                                   *)
Send(item, last) ==
    IF Len(queue) < QueueSize
    THEN /\ queue' = Append(queue, item)
         /\ conn' = IF last THEN At("ended") ELSE Reading
    ELSE /\ conn' = [conn EXCEPT !.st = "sending", !.age = 0, !.pinged = FALSE,
                                 !.held = item, !.last = last]
         /\ UNCHANGED queue

SendDue == conn.st = "sending" /\ Len(queue) < QueueSize

SendUnblocked ==
    /\ SendDue
    /\ queue' = Append(queue, conn.held)
    /\ conn' = IF conn.last THEN At("ended")
               ELSE [conn EXCEPT !.st = "reading", !.held = NoItem]

(* A `next` frame for this subscription. *)
FrameItem(item) == conn.st = "reading" /\ Send(item, FALSE)

(* A frame that carries no item: a ping, a pong, a frame for another id,   *)
(* a `next` with no data.                                                  *)
FrameQuiet ==
    /\ conn.st = "reading"
    /\ conn' = Reading
    /\ UNCHANGED queue

(* A GraphQL error, an `error` message or a failed read: one item, and the *)
(* subscription is over.                                                   *)
FrameFails == conn.st = "reading" /\ \E k \in {"transport", "refused"} : Send(Failure(k), TRUE)

(* `complete`, a close frame or the end of the socket: no item. *)
FrameEnds ==
    /\ conn.st = "reading"
    /\ conn' = At("ended")
    /\ UNCHANGED queue

(* Mutant of KeepAliveDue: the second deadline is never reached. *)
KeepAliveDueOnce == conn.st = "reading" /\ conn.age >= PingAfter /\ ~conn.pinged

(* The deadline of the select: the ping first, then the idle timeout. *)
KeepAliveDue ==
    /\ conn.st = "reading"
    /\ conn.age >= IF conn.pinged THEN IdleTimeout ELSE PingAfter

(* The ping, which may fail to go out. *)
KeepAlivePing ==
    /\ KeepAliveDue
    /\ ~conn.pinged
    /\ \/ conn' = [conn EXCEPT !.pinged = TRUE] /\ UNCHANGED queue
       \/ Send(Failure("transport"), TRUE)

KeepAliveIdle ==
    /\ KeepAliveDue
    /\ conn.pinged
    /\ Send(Failure("transport"), TRUE)

Reader == SendUnblocked \/ KeepAlivePing \/ KeepAliveIdle

(* Time does not pass a deadline that is due, nor a reader that can go on. *)
SubMayTick == ~HandshakeDue /\ ~KeepAliveDue /\ ~SendDue

(* A clock that runs next to the reader, also while it is blocked. *)
Older == IF conn.st \in {"connecting", "writing", "reading", "sending"} /\ conn.age <= IdleTimeout
         THEN [conn EXCEPT !.age = @ + 1]
         ELSE conn

-----------------------------------------------------------------------------
(* The handle *)

Closed   == conn.st = "ended" /\ queue = <<>>
HasNext  == queue # <<>>

(* Dropping the handle ends the reader. *)
DropHandle == conn' = At("none") /\ queue' = <<>>

=============================================================================
