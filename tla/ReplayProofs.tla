----------------------------- MODULE ReplayProofs -----------------------------
(***************************************************************************)
(* The proofs about the replay of an event stream.                         *)
(***************************************************************************)
EXTENDS Replay, SequenceTheorems, TLAPS

-----------------------------------------------------------------------------
(* The inductive invariant *)

(* What a replay consists of, its sequences without their bounds. *)
LoopShape ==
    [st: {"idle", "subscribing", "waiting", "backoff", "done"},
     start: 0..MaxId + 1, resuming: BOOLEAN, chain: Gens, gen: Gens,
     last: 0..MaxId, count: 0..MaxId, retries: 0..MaxRetries, high: -1..MaxId,
     target: -1..MaxId, since: 0..3, applied: Seq(1..MaxId),
     batch: Seq(1..MaxId), by: {"none", "event", "silence", "empty"}]

(* What the reader holds for the replay: the channel, and the item it is   *)
(* blocked on.                                                             *)
Pipe(c, q) == IF c.st = "sending" THEN Append(q, c.held) ELSE q

(* The items are of the chain: an event the chain has, announced with a    *)
(* tip that is not older than the replay.                                  *)
FromTheChain(pipe, str, ask) ==
    \A k \in 1..Len(pipe) :
        /\ pipe[k].k = "event" =>
              /\ ask <= pipe[k].max
              /\ pipe[k].id <= pipe[k].max
              /\ pipe[k].id >= 1 \/ (pipe[k].max = 0 /\ str # "unshielded")
        /\ pipe[k].k = "progress" => ask <= pipe[k].max

(* No event overtakes the one before it: it is at most the next one to     *)
(* consume, or its predecessor is further ahead in the pipe.               *)
InStep(pipe, last) ==
    \A k \in 1..Len(pipe) :
        pipe[k].k = "event" =>
            \/ pipe[k].id <= last + 1
            \/ \E j \in 1..(k - 1) : pipe[j].k = "event" /\ pipe[j].id = pipe[k].id - 1

(* The server has sent every event between the cursor and its own.         *)
Covers(pipe, last, nxt) ==
    \A m \in (last + 1)..(nxt - 1) :
        \E k \in 1..Len(pipe) : pipe[k].k = "event" /\ pipe[k].id = m

(* The events of a stream in a generation, up to a cursor.                 *)
From(str, gen)         == IF str = "dust" /\ gen = 9 THEN ForkAt ELSE 1
Complete(str, gen, to) == Range1(From(str, gen), to)

(* A Dust state of the earlier generation is before the fork, and the      *)
(* chain has forked under one of the later.                                *)
DustPlaced(str, gen, cursor, top) ==
    str = "dust" => (gen = 8 => cursor < ForkAt) /\ (gen = 9 => ForkAt <= top)

(* A replay at work or at rest. *)
LoopSound(r, str, top, ask) ==
    /\ r.applied \o r.batch = Complete(str, r.gen, r.last)
    /\ Len(r.batch) < BatchSize
    /\ r.count <= r.last
    /\ r.count = 0 => r.start = r.last + 1 \/ (r.start = 0 /\ r.last = 0)
    /\ str = "dust" => r.gen = r.chain
    /\ DustPlaced(str, r.gen, r.last, top)
    /\ r.target # -1 => ask <= r.target
    /\ r.st = "done" =>
          /\ r.batch = <<>>
          /\ r.last >= ask \/ (r.by = "silence" /\ r.resuming)

(* A wallet in memory or in a snapshot. *)
StateSound(s, str, top) ==
    \/ s = NoState
    \/ /\ s \in [applied: Seq(1..MaxId), cursor: 0..MaxId, gen: Gens]
       /\ s.applied = Complete(str, s.gen, s.cursor)
       /\ DustPlaced(str, s.gen, s.cursor, top)

(* The connection a step of the replay may find. *)
PhaseSound ==
    /\ replay.st = "waiting" => conn.st \in {"reading", "sending", "ended"}
    /\ replay.st = "subscribing" => conn.st \in {"none", "connecting", "writing"} /\ queue = <<>>
    /\ replay.st \notin {"waiting", "subscribing"} => conn.st = "none" /\ queue = <<>>

(* While nothing is in the channel, the keepalive or the blocked reader    *)
(* holds the clock of the wait back.                                       *)
ClockSound ==
    replay.st = "waiting" /\ queue = <<>> =>
        /\ conn.st = "reading" => conn.age <= IdleTimeout \/ replay.since = 0
        /\ conn.st = "sending" => replay.since = 0

PipeSound ==
    LET pipe == Pipe(conn, queue)
    IN  /\ FromTheChain(pipe, stream, asked)
        /\ InStep(pipe, replay.last)
        /\ replay.st = "waiting" => Covers(pipe, replay.last, next)

ShapeOK ==
    /\ conn \in Conn
    /\ queue \in Seq(Item) /\ Len(queue) <= QueueSize
    /\ stream \in Streams
    /\ tip \in 0..MaxId
    /\ next \in 1..MaxId + 1
    /\ replay \in LoopShape
    /\ asked \in 0..tip
    /\ attempts \in Nat

ReplayInv ==
    /\ ShapeOK
    /\ PhaseSound
    /\ ClockSound
    /\ PipeSound
    /\ LoopSound(replay, stream, tip, asked)
    /\ StateSound(mem, stream, tip)
    /\ StateSound(disk, stream, tip)

-----------------------------------------------------------------------------
(* Sequences *)

(* A sequence within its bound. *)
LEMMA WithinBound ==
    ASSUME NEW S, NEW s \in Seq(S), NEW n \in Nat, Len(s) <= n
    PROVE  s \in BoundedSeq(S, n)
<1>1. s \in [1..Len(s) -> S] /\ Len(s) \in 0..n
      BY LenProperties
<1> QED BY <1>1 DEF BoundedSeq, SeqOf

(* The numbers from one to another, in order. *)
LEMMA RangeShape ==
    ASSUME NEW first \in 1..(MaxId + 1), NEW to \in 0..MaxId
    PROVE  /\ Range1(first, to) \in Seq(1..MaxId)
           /\ Len(Range1(first, to)) = IF to < first THEN 0 ELSE to - first + 1
           /\ \A i \in 1..Len(Range1(first, to)) : Range1(first, to)[i] = first + i - 1
BY SubscriptionAssumption DEF Range1

(* The next number goes at the end. *)
LEMMA RangeNext ==
    ASSUME NEW first \in 1..(MaxId + 1), NEW to \in 0..(MaxId - 1), first <= to + 1
    PROVE  Range1(first, to + 1) = Append(Range1(first, to), to + 1)
<1> DEFINE a == Range1(first, to)
<1> DEFINE b == Range1(first, to + 1)
<1>1. to \in 0..MaxId /\ to + 1 \in 0..MaxId /\ to \in Int /\ first \in Int
      BY SubscriptionAssumption
<1>2. /\ a \in Seq(1..MaxId) /\ Len(a) = to - first + 1
      /\ \A i \in 1..Len(a) : a[i] = first + i - 1
      BY <1>1, RangeShape
<1>3. /\ b \in Seq(1..MaxId) /\ Len(b) = to - first + 2
      /\ \A i \in 1..Len(b) : b[i] = first + i - 1
      BY <1>1, RangeShape
<1>4. to + 1 \in 1..MaxId
      BY SubscriptionAssumption
<1> HIDE DEF a, b
<1>5. Append(a, to + 1) \in Seq(1..MaxId) /\ Len(Append(a, to + 1)) = Len(b)
      BY <1>1, <1>2, <1>3, <1>4
<1>7. \A i \in 1..Len(b) : Append(a, to + 1)[i] = b[i]
      <2>1. \A i \in 1..Len(a) : Append(a, to + 1)[i] = a[i]
            BY <1>2
      <2>2. Append(a, to + 1)[Len(a) + 1] = to + 1
            BY <1>2
      <2> QED BY <1>1, <1>2, <1>3, <2>1, <2>2
<1>6. b = Append(a, to + 1)
      BY <1>3, <1>5, <1>7, SeqEqual
<1> QED BY <1>6 DEF a, b

(* Up to a number before the first there is none. *)
LEMMA RangeEmpty ==
    ASSUME NEW first \in 1..(MaxId + 1), NEW to \in 0..MaxId, to < first
    PROVE  Range1(first, to) = <<>>
BY RangeShape, SubscriptionAssumption

(* Appending to the second of two sequences. *)
LEMMA AppendInside ==
    ASSUME NEW S, NEW s \in Seq(S), NEW t \in Seq(S), NEW e \in S
    PROVE  s \o Append(t, e) = Append(s \o t, e)
OBVIOUS

(* Nothing follows, or nothing comes before. *)
LEMMA ConcatNothing ==
    ASSUME NEW S, NEW s \in Seq(S)
    PROVE  s \o <<>> = s /\ <<>> \o s = s /\ <<>> \in Seq(S) /\ Len(<<>>) = 0
OBVIOUS

-----------------------------------------------------------------------------
(* The pipe *)

(* An item behind the others. *)
LEMMA PipeGrows ==
    ASSUME NEW pipe \in Seq(Item), NEW x \in Item,
           NEW str, NEW ask \in Nat, NEW last \in Nat, NEW nxt \in Nat \ {0}, NEW then \in Nat,
           FromTheChain(pipe, str, ask), InStep(pipe, last), Covers(pipe, last, nxt),
           FromTheChain(<<x>>, str, ask),
           x.k = "event" => x.id <= nxt,
           then = nxt \/ (x.k = "event" /\ x.id = nxt /\ then = nxt + 1)
    PROVE  /\ FromTheChain(Append(pipe, x), str, ask)
           /\ InStep(Append(pipe, x), last)
           /\ Covers(Append(pipe, x), last, then)
<1> DEFINE more == Append(pipe, x)
<1>1. /\ Len(more) = Len(pipe) + 1
      /\ \A k \in 1..Len(pipe) : more[k] = pipe[k]
      /\ more[Len(pipe) + 1] = x
      /\ Len(pipe) \in Nat
      OBVIOUS
<1> HIDE DEF more
<1>2. FromTheChain(more, str, ask)
      <2>1. (<<x>>)[1] = x /\ Len(<<x>>) = 1
            OBVIOUS
      <2> QED BY <1>1, <2>1 DEF FromTheChain
<1>3. InStep(more, last)
      <2> SUFFICES ASSUME NEW k \in 1..Len(more), more[k].k = "event"
                   PROVE  \/ more[k].id <= last + 1
                          \/ \E j \in 1..(k - 1) : more[j].k = "event" /\ more[j].id = more[k].id - 1
          BY DEF InStep
      <2>1. CASE k \in 1..Len(pipe)
            BY SMTT(30), <1>1, <2>1 DEF InStep
      <2>2. CASE k = Len(pipe) + 1
            <3>1. x.k = "event" /\ x.id \in Nat /\ x.id <= nxt
                  BY <1>1, <2>2 DEF Item
            <3>2. CASE x.id <= last + 1
                  BY <1>1, <2>2, <3>2
            <3>3. CASE x.id > last + 1
                  <4>1. x.id - 1 \in (last + 1)..(nxt - 1)
                        BY <3>1, <3>3
                  <4>2. PICK j \in 1..Len(pipe) : pipe[j].k = "event" /\ pipe[j].id = x.id - 1
                        BY <4>1 DEF Covers
                  <4>3. j \in 1..(k - 1) /\ more[j].k = "event" /\ more[j].id = more[k].id - 1
                        BY <1>1, <2>2, <4>2
                  <4> QED BY <4>3
            <3> QED BY <3>1, <3>2, <3>3
      <2> QED BY <1>1, <2>1, <2>2
<1>4. Covers(more, last, then)
      <2> SUFFICES ASSUME NEW m \in (last + 1)..(then - 1)
                   PROVE  \E k \in 1..Len(more) : more[k].k = "event" /\ more[k].id = m
          BY DEF Covers
      <2>1. CASE m \in (last + 1)..(nxt - 1)
            <3>1. PICK k \in 1..Len(pipe) : pipe[k].k = "event" /\ pipe[k].id = m
                  BY <2>1 DEF Covers
            <3>2. k \in 1..Len(more) /\ more[k].k = "event" /\ more[k].id = m
                  BY <1>1, <3>1
            <3> QED BY <3>2
      <2>2. CASE m \notin (last + 1)..(nxt - 1)
            <3>1. x.k = "event" /\ x.id = m
                  BY <2>2
            <3>2. Len(pipe) + 1 \in 1..Len(more)
                  BY <1>1
            <3> QED BY <1>1, <3>1, <3>2
      <2> QED BY <2>1, <2>2
<1> QED BY <1>2, <1>3, <1>4 DEF more

(* The head is taken, and an event that was taken is not ahead of the      *)
(* cursor any more.                                                        *)
LEMMA PipeShrinks ==
    ASSUME NEW pipe \in Seq(Item), pipe # <<>>,
           NEW str, NEW ask \in Nat, NEW last \in Nat, NEW to \in Nat, NEW nxt \in Nat \ {0},
           FromTheChain(pipe, str, ask), InStep(pipe, last), Covers(pipe, last, nxt),
           last <= to, Head(pipe).k = "event" => Head(pipe).id <= to
    PROVE  /\ FromTheChain(Tail(pipe), str, ask)
           /\ InStep(Tail(pipe), to)
           /\ Covers(Tail(pipe), to, nxt)
<1> DEFINE less == Tail(pipe)
<1>1. /\ Len(pipe) \in Nat \ {0}
      /\ Len(less) = Len(pipe) - 1
      /\ \A k \in 1..Len(less) : less[k] = pipe[k + 1]
      /\ Head(pipe) = pipe[1]
      OBVIOUS
<1>5. \A k \in 1..Len(pipe) : pipe[k].id \in Nat
      <2>1. \A k \in 1..Len(pipe) : pipe[k] \in Item
            BY ElementOfSeq
      <2> QED BY <2>1, SubscriptionAssumption DEF Item
<1> HIDE DEF less
<1>2. FromTheChain(less, str, ask)
      <2>1. \A k \in 1..Len(less) : k + 1 \in 1..Len(pipe)
            BY <1>1, <1>5
      <2> QED BY <1>1, <1>5, <2>1 DEF FromTheChain
<1>3. InStep(less, to)
      <2> SUFFICES ASSUME NEW k \in 1..Len(less), less[k].k = "event", less[k].id > to + 1
                   PROVE  \E j \in 1..(k - 1) : less[j].k = "event" /\ less[j].id = less[k].id - 1
          BY <1>1, <1>5 DEF InStep
      <2>1. /\ k + 1 \in 1..Len(pipe) /\ pipe[k + 1].k = "event"
            /\ pipe[k + 1].id > to + 1 /\ pipe[k + 1].id > last + 1
            /\ less[k] = pipe[k + 1]
            BY SMTT(30), <1>1, <1>5
      <2>2. PICK j \in 1..k : pipe[j].k = "event" /\ pipe[j].id = pipe[k + 1].id - 1
            BY SMTT(30), <1>1, <1>5, <2>1 DEF InStep
      <2>3. j # 1
            BY <1>1, <1>5, <2>1, <2>2
      <2>4. j - 1 \in 1..(k - 1) /\ j - 1 \in 1..Len(less)
            BY <1>1, <2>2, <2>3
      <2>5. less[j - 1] = pipe[j]
            BY <1>1, <2>4
      <2> QED BY <1>1, <1>5, <2>1, <2>2, <2>4, <2>5
<1>4. Covers(less, to, nxt)
      <2> SUFFICES ASSUME NEW m \in (to + 1)..(nxt - 1)
                   PROVE  \E k \in 1..Len(less) : less[k].k = "event" /\ less[k].id = m
          BY DEF Covers
      <2>1. PICK k \in 1..Len(pipe) : pipe[k].k = "event" /\ pipe[k].id = m
            BY DEF Covers
      <2>2. k # 1
            BY <1>1, <1>5, <2>1
      <2>3. k - 1 \in 1..Len(less) /\ less[k - 1] = pipe[k]
            BY <1>1, <1>5, <2>1, <2>2
      <2> QED BY <2>1, <2>3
<1> QED BY <1>2, <1>3, <1>4 DEF less

(* What an empty pipe holds is of the chain and in step. *)
LEMMA PipeEmpty ==
    ASSUME NEW str, NEW ask, NEW last
    PROVE  FromTheChain(<<>>, str, ask) /\ InStep(<<>>, last)
BY DEF FromTheChain, InStep

(* A subscription that starts no later than the next event covers it. *)
LEMMA PipeStarts ==
    ASSUME NEW last \in Nat, NEW nxt \in Nat, nxt <= last + 1
    PROVE  Covers(<<>>, last, nxt)
BY DEF Covers

-----------------------------------------------------------------------------
(* The connection *)

(* A connection that just entered a state. *)
LEMMA AtTyped ==
    ASSUME NEW st \in {"none", "connecting", "writing", "reading", "sending", "ended"}
    PROVE  At(st) \in Conn /\ At(st).st = st /\ At(st).age = 0
<1>1. NoItem \in Item
      BY SubscriptionAssumption DEF NoItem, Failure, Item
<1> QED BY <1>1 DEF At, Conn, IdleTimeout

(* The reader hands an item over or blocks with it. *)
LEMMA SendGrows ==
    ASSUME conn \in Conn, queue \in Seq(Item), Len(queue) <= QueueSize, conn.st = "reading",
           NEW item \in Item, NEW last \in BOOLEAN, Send(item, last)
    PROVE  /\ conn' \in Conn /\ queue' \in Seq(Item) /\ Len(queue') <= QueueSize
           /\ conn'.st \in {"reading", "sending", "ended"}
           /\ queue' # <<>>
           /\ Pipe(conn', queue') = Append(Pipe(conn, queue), item)
<1>1. CASE Len(queue) < QueueSize
      <2>1. conn' \in Conn /\ conn'.st \in {"reading", "ended"}
            BY <1>1, AtTyped DEF Send, Reading
      <2>2. queue' = Append(queue, item)
            BY <1>1 DEF Send
      <2> QED BY <1>1, <2>1, <2>2, SubscriptionAssumption DEF Pipe
<1>2. CASE ~(Len(queue) < QueueSize)
      <2>1. conn' = [conn EXCEPT !.st = "sending", !.age = 0, !.pinged = FALSE,
                                 !.held = item, !.last = last]
            BY <1>2 DEF Send
      <2>2. conn' \in Conn /\ conn'.st = "sending" /\ conn'.held = item
            <3>1. 0 \in 0..(IdleTimeout + 1)
                  BY DEF IdleTimeout
            <3> QED BY <2>1, <3>1 DEF Conn
      <2>3. queue' = queue /\ queue # <<>>
            BY <1>2, SubscriptionAssumption DEF Send
      <2> QED BY <2>2, <2>3 DEF Pipe
<1> QED BY <1>1, <1>2

(* The blocked reader gets its item through. *)
LEMMA UnblockKeeps ==
    ASSUME conn \in Conn, queue \in Seq(Item), Len(queue) <= QueueSize, SendUnblocked
    PROVE  /\ conn' \in Conn /\ queue' \in Seq(Item) /\ Len(queue') <= QueueSize
           /\ conn.st = "sending" /\ conn'.st \in {"reading", "ended"}
           /\ queue' # <<>>
           /\ Pipe(conn', queue') = Pipe(conn, queue)
<1>1. conn.st = "sending" /\ Len(queue) < QueueSize /\ conn.held \in Item
      BY DEF SendUnblocked, SendDue, Conn
<1>2. queue' = Append(queue, conn.held)
      BY DEF SendUnblocked
<1>3. conn' \in Conn /\ conn'.st \in {"reading", "ended"}
      <2>1. NoItem \in Item
            BY SubscriptionAssumption DEF NoItem, Failure, Item
      <2>2. CASE conn.last
            BY <2>2, AtTyped DEF SendUnblocked
      <2>3. CASE ~conn.last
            BY <2>1, <2>3 DEF SendUnblocked, Conn
      <2> QED BY <2>2, <2>3
<1> QED BY <1>1, <1>2, <1>3, SubscriptionAssumption DEF Pipe

(* The replay takes the head of the pipe. *)
LEMMA TakeShrinks ==
    ASSUME conn \in Conn, queue \in Seq(Item), Len(queue) <= QueueSize, HasNext, TakeItem
    PROVE  /\ conn' \in Conn /\ queue' \in Seq(Item) /\ Len(queue') <= QueueSize
           /\ Pipe(conn, queue) \in Seq(Item) /\ Pipe(conn, queue) # <<>>
           /\ Pipe(conn', queue') = Tail(Pipe(conn, queue))
           /\ Head(Pipe(conn, queue)) = Taken /\ Taken \in Item
<1>1. conn' = conn /\ queue' = Tail(queue) /\ queue # <<>> /\ conn.held \in Item
      BY DEF TakeItem, HasNext, Conn
<1>2. queue' \in Seq(Item) /\ Len(queue') <= QueueSize /\ Taken \in Item
      BY <1>1, SubscriptionAssumption DEF Taken
<1>3. CASE conn.st = "sending"
      <2>1. Tail(Append(queue, conn.held)) = Append(Tail(queue), conn.held)
            BY <1>1
      <2> QED BY <1>1, <1>2, <1>3, <2>1 DEF Pipe, Taken
<1>4. CASE conn.st # "sending"
      BY <1>1, <1>2, <1>4 DEF Pipe, Taken
<1> QED BY <1>3, <1>4

(* The pipe is a sequence of items. *)
LEMMA PipeType ==
    ASSUME conn \in Conn, queue \in Seq(Item)
    PROVE  Pipe(conn, queue) \in Seq(Item)
BY DEF Pipe, Conn

(* A dropped handle leaves nothing. *)
LEMMA DropEmpties ==
    ASSUME DropHandle
    PROVE  conn' \in Conn /\ conn'.st = "none" /\ queue' = <<>> /\ Pipe(conn', queue') = <<>>
BY SubscriptionAssumption DEF DropHandle, At, Conn, NoItem, Failure, Item, IdleTimeout, Pipe

-----------------------------------------------------------------------------
(* The replay as a value *)

(* A replay with another start. *)
Started(r, st, start, resuming) ==
    [r EXCEPT !.st = st, !.start = start, !.resuming = resuming]

(* Its parts. *)
LEMMA WithStart ==
    ASSUME NEW r \in LoopShape, NEW st \in {"idle", "subscribing", "waiting", "backoff", "done"}, NEW start \in 0..(MaxId + 1), NEW resuming \in BOOLEAN
    PROVE  LET q == Started(r, st, start, resuming)
           IN  /\ q \in LoopShape /\ q.st = st /\ q.start = start /\ q.resuming = resuming
               /\ q.chain = r.chain /\ q.gen = r.gen /\ q.last = r.last /\ q.count = r.count
               /\ q.retries = r.retries /\ q.high = r.high /\ q.target = r.target /\ q.since = r.since
               /\ q.applied = r.applied /\ q.batch = r.batch /\ q.by = r.by
BY DEF LoopShape, Started

(* A replay in another generation. *)
InGen(r, chain, gen) ==
    [r EXCEPT !.chain = chain, !.gen = gen]

(* Its parts. *)
LEMMA WithGen ==
    ASSUME NEW r \in LoopShape, NEW chain \in Gens, NEW gen \in Gens
    PROVE  LET q == InGen(r, chain, gen)
           IN  /\ q \in LoopShape /\ q.chain = chain /\ q.gen = gen
               /\ q.st = r.st /\ q.start = r.start /\ q.resuming = r.resuming /\ q.last = r.last
               /\ q.count = r.count /\ q.retries = r.retries /\ q.high = r.high /\ q.target = r.target
               /\ q.since = r.since /\ q.applied = r.applied /\ q.batch = r.batch /\ q.by = r.by
BY DEF LoopShape, InGen

(* A replay at another cursor. *)
AtCursor(r, last, applied) ==
    [r EXCEPT !.last = last, !.applied = applied]

(* Its parts. *)
LEMMA WithCursor ==
    ASSUME NEW r \in LoopShape, NEW last \in 0..MaxId, NEW applied \in Seq(1..MaxId)
    PROVE  LET q == AtCursor(r, last, applied)
           IN  /\ q \in LoopShape /\ q.last = last /\ q.applied = applied
               /\ q.st = r.st /\ q.start = r.start /\ q.resuming = r.resuming /\ q.chain = r.chain
               /\ q.gen = r.gen /\ q.count = r.count /\ q.retries = r.retries /\ q.high = r.high
               /\ q.target = r.target /\ q.since = r.since /\ q.batch = r.batch /\ q.by = r.by
BY DEF LoopShape, AtCursor

(* A replay that has seen an event. *)
Saw(r, high) ==
    [r EXCEPT !.high = high]

(* Its parts. *)
LEMMA WithHigh ==
    ASSUME NEW r \in LoopShape, NEW high \in (-1)..MaxId
    PROVE  LET q == Saw(r, high)
           IN  /\ q \in LoopShape /\ q.high = high
               /\ q.st = r.st /\ q.start = r.start /\ q.resuming = r.resuming /\ q.chain = r.chain
               /\ q.gen = r.gen /\ q.last = r.last /\ q.count = r.count /\ q.retries = r.retries
               /\ q.target = r.target /\ q.since = r.since /\ q.applied = r.applied /\ q.batch = r.batch
               /\ q.by = r.by
BY DEF LoopShape, Saw

(* A replay that has a target. *)
Aiming(r, retries, target) ==
    [r EXCEPT !.retries = retries, !.target = target]

(* Its parts. *)
LEMMA WithTarget ==
    ASSUME NEW r \in LoopShape, NEW retries \in 0..MaxRetries, NEW target \in (-1)..MaxId
    PROVE  LET q == Aiming(r, retries, target)
           IN  /\ q \in LoopShape /\ q.retries = retries /\ q.target = target
               /\ q.st = r.st /\ q.start = r.start /\ q.resuming = r.resuming /\ q.chain = r.chain
               /\ q.gen = r.gen /\ q.last = r.last /\ q.count = r.count /\ q.high = r.high
               /\ q.since = r.since /\ q.applied = r.applied /\ q.batch = r.batch /\ q.by = r.by
BY DEF LoopShape, Aiming

(* No replay is sound in every state. *)
LEMMA NoLoopSound ==
    ASSUME NEW str, NEW top \in 0..MaxId, NEW ask \in 0..top
    PROVE  NoLoop \in LoopShape /\ LoopSound(NoLoop, str, top, ask)
<1> USE SubscriptionAssumption, ReplayAssumption
<1>1. NoLoop \in LoopShape
      BY DEF NoLoop, LoopShape, Gens
<1>2. Complete(str, 8, 0) = <<>>
      BY RangeEmpty DEF Complete, From
<1>3. <<>> \o <<>> = <<>>
      BY ConcatNothing
<1> QED BY <1>1, <1>2, <1>3 DEF NoLoop, LoopSound, DustPlaced

(* The batch goes into the state, and nothing else changes. *)
LEMMA FlushShape ==
    ASSUME NEW r \in LoopShape
    PROVE  /\ Flushed(r) \in LoopShape
           /\ Flushed(r).applied = r.applied \o r.batch
           /\ Flushed(r).batch = <<>>
           /\ Flushed(r).applied \o Flushed(r).batch = r.applied \o r.batch
           /\ Flushed(r).st = r.st
           /\ Flushed(r).start = r.start
           /\ Flushed(r).resuming = r.resuming
           /\ Flushed(r).chain = r.chain
           /\ Flushed(r).gen = r.gen
           /\ Flushed(r).last = r.last
           /\ Flushed(r).count = r.count
           /\ Flushed(r).retries = r.retries
           /\ Flushed(r).high = r.high
           /\ Flushed(r).target = r.target
           /\ Flushed(r).since = r.since
           /\ Flushed(r).by = r.by
<1>1. r.applied \o r.batch \in Seq(1..MaxId) /\ <<>> \in Seq(1..MaxId)
      BY DEF LoopShape
<1>2. Flushed(r) \in LoopShape /\ Flushed(r).applied = r.applied \o r.batch /\ Flushed(r).batch = <<>>
      BY <1>1 DEF Flushed, LoopShape
<1>3. Flushed(r).applied \o Flushed(r).batch = r.applied \o r.batch
      BY <1>1, <1>2, ConcatNothing
<1> QED BY <1>2, <1>3 DEF Flushed, LoopShape

(* A flush keeps a replay sound. *)
LEMMA FlushSound ==
    ASSUME NEW r \in LoopShape, NEW str, NEW top, NEW ask, LoopSound(r, str, top, ask)
    PROVE  LoopSound(Flushed(r), str, top, ask)
<1>1. Len(<<>>) = 0 /\ BatchSize \in Nat \ {0}
      BY ReplayAssumption
<1> DEFINE f == Flushed(r)
<1>2. /\ f.applied \o f.batch = r.applied \o r.batch /\ f.batch = <<>>
      /\ f.st = r.st /\ f.start = r.start /\ f.resuming = r.resuming /\ f.chain = r.chain
      /\ f.gen = r.gen /\ f.last = r.last /\ f.count = r.count /\ f.target = r.target /\ f.by = r.by
      BY FlushShape
<1> HIDE DEF f
<1>3. LoopSound(f, str, top, ask)
      BY <1>1, <1>2 DEF LoopSound
<1> QED BY <1>3 DEF f

(* A replay that returns has the batch in its state. *)
LEMMA ReturnShape ==
    ASSUME NEW r \in LoopShape, NEW by \in {"none", "event", "silence", "empty"}
    PROVE  LET q == Return(r, by)
           IN  /\ q \in LoopShape /\ q.st = "done" /\ q.by = by
               /\ q.start = r.start /\ q.resuming = r.resuming /\ q.chain = r.chain
               /\ q.gen = r.gen /\ q.last = r.last /\ q.count = r.count /\ q.target = r.target
               /\ q.applied = r.applied \o r.batch /\ q.batch = <<>>
               /\ q.applied \o q.batch = r.applied \o r.batch
<1>1. r.applied \o r.batch \in Seq(1..MaxId) /\ <<>> \in Seq(1..MaxId)
      BY DEF LoopShape
<1>2. 0 \in 0..3 /\ 0 \in 0..MaxRetries /\ -1 \in (-1)..MaxId
      BY SubscriptionAssumption, ReplayAssumption
<1> DEFINE ended == [r EXCEPT !.st = "done", !.by = by]
           reset == [ended EXCEPT !.high = -1, !.since = 0, !.retries = 0]
           full  == [reset EXCEPT !.applied = r.applied \o r.batch, !.batch = <<>>]
<1>3. Return(r, by) = full
      BY DEF Return
<1>4. ended \in LoopShape /\ ended.st = "done" /\ ended.by = by
      /\ ended.start = r.start /\ ended.resuming = r.resuming /\ ended.chain = r.chain
      /\ ended.gen = r.gen /\ ended.last = r.last /\ ended.count = r.count /\ ended.target = r.target
      BY DEF LoopShape
<1> HIDE DEF ended
<1>5. reset \in LoopShape /\ reset.st = "done" /\ reset.by = by
      /\ reset.start = r.start /\ reset.resuming = r.resuming /\ reset.chain = r.chain
      /\ reset.gen = r.gen /\ reset.last = r.last /\ reset.count = r.count /\ reset.target = r.target
      BY <1>2, <1>4 DEF LoopShape
<1> HIDE DEF reset
<1>6. full \in LoopShape /\ full.st = "done" /\ full.by = by
      /\ full.start = r.start /\ full.resuming = r.resuming /\ full.chain = r.chain
      /\ full.gen = r.gen /\ full.last = r.last /\ full.count = r.count /\ full.target = r.target
      /\ full.applied = r.applied \o r.batch /\ full.batch = <<>>
      BY <1>1, <1>5 DEF LoopShape
<1>7. full.applied \o full.batch = r.applied \o r.batch
      BY <1>1, <1>6, ConcatNothing
<1> HIDE DEF full
<1> QED BY <1>3, <1>6, <1>7

(* A replay that returns with what it was asked for, or with a silence it  *)
(* may take for the tip.                                                   *)
LEMMA ReturnSound ==
    ASSUME NEW r \in LoopShape, NEW str, NEW top, NEW ask, LoopSound(r, str, top, ask),
           NEW by \in {"none", "event", "silence", "empty"},
           r.last >= ask \/ (by = "silence" /\ r.resuming)
    PROVE  /\ Return(r, by) \in LoopShape
           /\ Return(r, by).st = "done"
           /\ LoopSound(Return(r, by), str, top, ask)
<1> DEFINE q == Return(r, by)
<1>1. /\ q \in LoopShape /\ q.st = "done" /\ q.by = by
      /\ q.start = r.start /\ q.resuming = r.resuming /\ q.chain = r.chain
      /\ q.gen = r.gen /\ q.last = r.last /\ q.count = r.count /\ q.target = r.target
      /\ q.applied = r.applied \o r.batch /\ q.batch = <<>>
      /\ q.applied \o q.batch = r.applied \o r.batch
      BY ReturnShape, Zenon
<1>2. Len(<<>>) = 0 /\ BatchSize \in Nat \ {0}
      BY ReplayAssumption
<1> HIDE DEF q
<1>3. LoopSound(q, str, top, ask)
      BY <1>1, <1>2 DEF LoopSound
<1> QED BY <1>1, <1>3 DEF q

(* The loop goes on, backs off or reconnects with what it has. *)
LEMMA ResetSound ==
    ASSUME NEW r \in LoopShape, NEW str, NEW top, NEW ask, LoopSound(r, str, top, ask),
           NEW q \in LoopShape, q.st # "done",
           q.start = r.start, q.chain = r.chain, q.gen = r.gen, q.last = r.last,
           q.count = r.count, q.applied = r.applied, q.batch = r.batch,
           q.target = r.target \/ ask <= q.target
    PROVE  LoopSound(q, str, top, ask)
BY DEF LoopSound

(* The next event, of this generation or of one the Dust replay skips.     *)
LEMMA ConsumeSound ==
    ASSUME stream \in Streams, NEW r \in LoopShape, NEW top, NEW ask,
           LoopSound(r, stream, top, ask), r.st = "waiting",
           NEW id \in 1..MaxId, id = r.last + 1,
           stream = "dust" => GenOf(id) <= r.gen,
           stream = "zswap" => GenOf(id) = r.gen
    PROVE  /\ Consume(r, id) \in LoopShape
           /\ LoopSound(Consume(r, id), stream, top, ask)
           /\ Consume(r, id).last = id
           /\ Consume(r, id).since = 0
           /\ Consume(r, id).st = "waiting"
           /\ Consume(r, id).target = r.target
<1> USE SubscriptionAssumption, ReplayAssumption
<1> DEFINE own    == stream = "unshielded" \/ GenOf(id) = r.gen
           pushed == IF own THEN [r EXCEPT !.batch = Append(@, id)] ELSE r
           full   == IF stream = "unshielded" \/ Len(pushed.batch) >= BatchSize
                     THEN Flushed(pushed) ELSE pushed
<1>1. Consume(r, id) = [full EXCEPT !.retries = 0, !.last = id, !.count = @ + 1, !.high = id, !.since = 0]
      BY DEF Consume
<1>2. /\ stream \in {"zswap", "dust", "unshielded"}
      /\ r.applied \in Seq(1..MaxId) /\ r.batch \in Seq(1..MaxId)
      /\ r.gen \in {8, 9} /\ r.last \in 0..(MaxId - 1) /\ ForkAt \in 1..(MaxId + 1)
      BY DEF LoopShape, Gens
<1>3. From(stream, r.gen) \in 1..(MaxId + 1)
      BY DEF From
<1>4. pushed \in LoopShape /\ pushed.batch \in Seq(1..MaxId)
      <2>1. Append(r.batch, id) \in Seq(1..MaxId)
            BY <1>2
      <2> QED BY <2>1 DEF LoopShape
<1>5. pushed.applied \o pushed.batch = Complete(stream, r.gen, id)
      <2>1. r.applied \o r.batch = Complete(stream, r.gen, r.last)
            BY DEF LoopSound
      <2>2. CASE own
            <3>0. pushed.applied = r.applied /\ pushed.batch = Append(r.batch, id)
                  BY <2>2 DEF LoopShape
            <3> HIDE DEF pushed
            <3>1. pushed.applied \o pushed.batch = Append(r.applied \o r.batch, id)
                  <4>1. r.applied \o Append(r.batch, id) = Append(r.applied \o r.batch, id)
                        <5>1. \A t, u \in Seq(1..MaxId), e \in 1..MaxId : t \o Append(u, e) = Append(t \o u, e)
                              BY AppendInside
                        <5> QED BY <1>2, <5>1
                  <4> QED BY <3>0, <4>1
            <3>2. From(stream, r.gen) <= r.last + 1
                  BY <1>2, <2>2 DEF From, GenOf
            <3> QED BY <1>2, <1>3, <2>1, <3>1, <3>2, RangeNext DEF Complete
      <2>3. CASE ~own
            <3>1. stream = "dust" /\ r.gen = 9 /\ id < ForkAt
                  BY <1>2, <2>3 DEF GenOf
            <3>2. Complete(stream, r.gen, r.last) = <<>> /\ Complete(stream, r.gen, id) = <<>>
                  BY <1>2, <3>1, RangeEmpty DEF Complete, From
            <3> QED BY <2>1, <2>3, <3>2
      <2> QED BY <2>2, <2>3
<1>6. /\ pushed.st = r.st /\ pushed.start = r.start /\ pushed.chain = r.chain /\ pushed.gen = r.gen
      /\ pushed.count = r.count /\ pushed.target = r.target
      BY DEF LoopShape
<1> HIDE DEF own, pushed
<1>7. /\ full \in LoopShape
      /\ full.applied \o full.batch = Complete(stream, r.gen, id)
      /\ Len(full.batch) < BatchSize
      /\ full.st = r.st /\ full.start = r.start /\ full.chain = r.chain /\ full.gen = r.gen
      /\ full.count = r.count /\ full.target = r.target
      <2>1. CASE stream = "unshielded" \/ Len(pushed.batch) >= BatchSize
            <3>1. full = Flushed(pushed)
                  BY <2>1
            <3>2. Len(<<>>) = 0 /\ 0 < BatchSize
                  OBVIOUS
            <3> HIDE DEF full
            <3> QED BY <1>4, <1>5, <1>6, <3>1, <3>2, FlushShape
      <2>2. CASE ~(stream = "unshielded" \/ Len(pushed.batch) >= BatchSize)
            <3>1. full = pushed
                  BY <2>2
            <3>2. Len(pushed.batch) \in Nat /\ Len(pushed.batch) < BatchSize
                  BY <1>4, <2>2
            <3> HIDE DEF full
            <3> QED BY <1>4, <1>5, <1>6, <3>1, <3>2
      <2> QED BY <2>1, <2>2
<1> HIDE DEF full
<1>8. r.count <= r.last /\ r.count \in 0..MaxId
      BY DEF LoopShape, LoopSound
<1>9. r.count + 1 \in 0..MaxId
      BY <1>2, <1>8
<1> DEFINE moved == [full EXCEPT !.retries = 0, !.last = id, !.count = @ + 1]
           c     == [moved EXCEPT !.high = id, !.since = 0]
<1>10. /\ moved \in LoopShape /\ moved.st = r.st /\ moved.start = r.start
       /\ moved.chain = r.chain /\ moved.gen = r.gen /\ moved.target = r.target
       /\ moved.last = id /\ moved.count = r.count + 1
       /\ moved.applied = full.applied /\ moved.batch = full.batch
      <2>1. id \in 0..MaxId /\ 0 \in 0..MaxRetries
            OBVIOUS
      <2> QED BY <1>7, <1>9, <2>1 DEF LoopShape
<1>12. Consume(r, id) = c
      BY <1>1
<1> HIDE DEF moved
<1>13. /\ c \in LoopShape /\ c.st = r.st /\ c.start = r.start
       /\ c.chain = r.chain /\ c.gen = r.gen /\ c.target = r.target
       /\ c.last = id /\ c.count = r.count + 1 /\ c.since = 0
       /\ c.applied = full.applied /\ c.batch = full.batch
      <2>1. id \in (-1)..MaxId /\ 0 \in 0..3
            OBVIOUS
      <2> QED BY <1>10, <2>1 DEF LoopShape
<1> HIDE DEF c
<1>11. stream = "dust" /\ r.gen = 8 => id < ForkAt
      BY DEF GenOf
<1>14. c.last = r.last + 1 /\ c.count <= c.last /\ c.count # 0
      BY <1>2, <1>8, <1>13
<1>15. /\ stream = "dust" => r.gen = r.chain
       /\ DustPlaced(stream, r.gen, r.last, top)
       /\ r.target # -1 => ask <= r.target
      BY DEF LoopSound
<1>16. DustPlaced(stream, c.gen, c.last, top)
      BY <1>11, <1>13, <1>15 DEF DustPlaced
<1>17. LoopSound(c, stream, top, ask)
      BY <1>7, <1>13, <1>14, <1>15, <1>16 DEF LoopSound
<1> QED BY <1>12, <1>13, <1>17

(* The shielded replay crosses at the first event of the later generation. *)
LEMMA CrossSound ==
    ASSUME stream \in Streams, NEW r \in LoopShape, NEW top \in 0..MaxId, NEW ask \in 0..top,
           LoopSound(r, stream, top, ask),
           NEW id \in 1..MaxId, id = r.last + 1
    PROVE  /\ Cross(r, id) \in LoopShape
           /\ Cross(r, id).st # "waiting"
           /\ LoopSound(Cross(r, id), stream, top, ask)
<1> USE SubscriptionAssumption, ReplayAssumption
<1>1. CASE stream # "zswap"
      BY <1>1, NoLoopSound DEF Cross, NoLoop
<1>2. CASE stream = "zswap"
      <2>1. r.applied \o r.batch \in Seq(1..MaxId) /\ <<>> \in Seq(1..MaxId)
            BY DEF LoopShape
      <2>2. GenOf(id) \in Gens /\ LastAppliedBefore(id) = r.last /\ r.last \in 0..MaxId
            <3>1. r.last \in 0..MaxId
                  BY DEF LoopShape
            <3> QED BY <3>1 DEF GenOf, Gens, LastAppliedBefore
      <2> DEFINE q     == Return(r, "none")
                 again == [q EXCEPT !.st = "subscribing", !.start = id, !.gen = GenOf(id)]
                 c     == [again EXCEPT !.last = LastAppliedBefore(id), !.count = 0]
      <2>8. Cross(r, id) = c
            BY <1>2 DEF Cross
      <2>9. /\ q \in LoopShape
            /\ q.chain = r.chain /\ q.gen = r.gen /\ q.last = r.last /\ q.target = r.target
            /\ q.applied = r.applied \o r.batch /\ q.batch = <<>>
            /\ q.applied \o q.batch = r.applied \o r.batch
            BY ReturnShape
      <2> HIDE DEF q
      <2>10. /\ again \in LoopShape /\ again.st = "subscribing" /\ again.start = id
             /\ again.target = r.target /\ again.applied = q.applied /\ again.batch = q.batch
            <3>1. id \in 0..(MaxId + 1)
                  OBVIOUS
            <3> QED BY <2>2, <2>9, <3>1 DEF LoopShape
      <2> HIDE DEF again
      <2>3. /\ c \in LoopShape /\ c.st = "subscribing" /\ c.start = id
            /\ c.target = r.target /\ c.applied = q.applied /\ c.batch = q.batch
            /\ c.last = r.last /\ c.count = 0
            <3>1. 0 \in 0..MaxId
                  OBVIOUS
            <3> QED BY <2>2, <2>10, <3>1 DEF LoopShape
      <2> HIDE DEF c
      <2>4. c.batch = <<>> /\ Len(<<>>) = 0 /\ 0 < BatchSize
            BY <2>3, <2>9
      <2>5. c.applied \o c.batch = r.applied \o r.batch
            BY <2>3, <2>9
      <2>6. Complete(stream, c.gen, c.last) = Complete(stream, r.gen, r.last)
            BY <1>2, <2>3 DEF Complete, From
      <2>7. LoopSound(c, stream, top, ask)
            BY <1>2, <2>2, <2>3, <2>4, <2>5, <2>6 DEF LoopSound, DustPlaced
      <2> QED BY <2>3, <2>7, <2>8
<1> QED BY <1>1, <1>2

(* A replay starts from the wallet in memory. *)
LEMMA BeginSound ==
    ASSUME stream \in Streams, tip \in 0..MaxId, NEW s, StateSound(s, stream, tip), Begin(s)
    PROVE  /\ replay' \in LoopShape
           /\ replay'.st = "subscribing"
           /\ LoopSound(replay', stream, tip, tip)
<1> USE SubscriptionAssumption, ReplayAssumption
<1> DEFINE start == s.cursor + 1
           gen   == IF stream = "dust" THEN ChainGen ELSE s.gen
           held  == IF stream = "dust" /\ gen # s.gen THEN <<>> ELSE s.applied
<1>1. replay' = [NoLoop EXCEPT !.st = "subscribing", !.start = start, !.resuming = s # NoState,
                               !.chain = ChainGen, !.gen = gen, !.last = LastAppliedBefore(start),
                               !.applied = held]
      BY DEF Begin
<1>13. /\ s.cursor \in (-1)..MaxId /\ s.gen \in {8, 9} /\ s.applied \in Seq(1..MaxId)
       /\ s.cursor = -1 => s = NoState
       /\ s = NoState => s.gen = 8 /\ s.cursor = -1
      <2>1. CASE s = NoState
            <3>1. <<>> \in Seq(1..MaxId)
                  OBVIOUS
            <3> QED BY <2>1, <3>1 DEF NoState
      <2>2. CASE s # NoState
            <3>1. s \in [applied: Seq(1..MaxId), cursor: 0..MaxId, gen: Gens]
                  BY <2>2 DEF StateSound
            <3> QED BY <2>2, <3>1 DEF Gens
      <2> QED BY <2>1, <2>2
<1>2. /\ start \in 0..(MaxId + 1) /\ s.gen \in {8, 9} /\ s.applied \in Seq(1..MaxId)
      /\ start = 0 => s.gen = 8
      BY <1>13
<1>3. ChainGen \in {8, 9} /\ (ChainGen = 9 <=> tip >= ForkAt)
      BY DEF ChainGen, GenOf
<1>4. LastAppliedBefore(start) \in 0..MaxId /\ (start # 0 => LastAppliedBefore(start) = s.cursor)
      /\ (start = 0 => LastAppliedBefore(start) = 0)
      BY <1>13 DEF LastAppliedBefore
<1>5. s.applied = Complete(stream, s.gen, LastAppliedBefore(start))
      <2>1. CASE s = NoState
            <3>1. From(stream, 8) = 1 /\ start = 0 /\ s.gen = 8 /\ s.applied = <<>>
                  BY <2>1 DEF NoState, From
            <3>2. Complete(stream, 8, 0) = <<>>
                  BY <3>1, RangeEmpty DEF Complete
            <3> QED BY <1>4, <3>1, <3>2
      <2>2. CASE s # NoState
            <3>1. s.cursor \in 0..MaxId /\ s.applied = Complete(stream, s.gen, s.cursor)
                  BY <2>2 DEF StateSound
            <3> QED BY <1>4, <3>1
      <2> QED BY <2>1, <2>2
<1>6. stream = "dust" =>
        /\ s.gen = 9 => ForkAt <= tip
        /\ s.gen = 8 => LastAppliedBefore(start) < ForkAt
      BY <1>2, <1>4 DEF StateSound, NoState, DustPlaced
<1>7. held \in Seq(1..MaxId) /\ held = Complete(stream, gen, LastAppliedBefore(start))
      <2>1. CASE stream = "dust" /\ gen # s.gen
            <3>1. gen = 9 /\ LastAppliedBefore(start) < ForkAt
                  BY <1>2, <1>3, <1>6, <2>1
            <3>2. From(stream, gen) = ForkAt
                  BY <2>1, <3>1 DEF From
            <3> QED BY <1>4, <2>1, <3>1, <3>2, RangeEmpty DEF Complete
      <2>2. CASE ~(stream = "dust" /\ gen # s.gen)
            <3>1. gen = s.gen /\ held = s.applied
                  BY <2>2
            <3> QED BY <1>2, <1>5, <3>1
      <2> QED BY <2>1, <2>2
<1>8. gen \in {8, 9} /\ (stream = "dust" => gen = ChainGen)
      BY <1>2, <1>3
<1>9. stream = "dust" /\ gen = 8 => LastAppliedBefore(start) < ForkAt
      BY <1>2, <1>3, <1>6
<1> HIDE DEF start, gen, held
<1> DEFINE from == [NoLoop EXCEPT !.st = "subscribing", !.start = start, !.resuming = s # NoState]
           in   == [from EXCEPT !.chain = ChainGen, !.gen = gen]
           q    == [in EXCEPT !.last = LastAppliedBefore(start), !.applied = held]
<1>14. replay' = q
      BY <1>1
<1>15. /\ NoLoop \in LoopShape /\ NoLoop.count = 0 /\ NoLoop.batch = <<>> /\ NoLoop.target = -1
      BY NoLoopSound DEF NoLoop
<1>16. /\ from \in LoopShape /\ from.st = "subscribing" /\ from.start = start
       /\ from.count = 0 /\ from.batch = <<>> /\ from.target = -1
      <2>1. PICK resuming \in BOOLEAN : resuming = (s # NoState)
            OBVIOUS
      <2>2. from = Started(NoLoop, "subscribing", start, resuming)
            BY <2>1 DEF Started
      <2> DEFINE to == Started(NoLoop, "subscribing", start, resuming)
      <2>3. NoLoop \in LoopShape /\ start \in 0..(MaxId + 1)
            BY <1>2, <1>15
      <2>4. /\ to \in LoopShape /\ to.st = "subscribing" /\ to.start = start
            /\ to.count = NoLoop.count /\ to.batch = NoLoop.batch /\ to.target = NoLoop.target
            BY <2>3, WithStart
      <2> HIDE DEF from, to
      <2>5. from = to
            BY <2>2 DEF to
      <2> QED BY <1>15, <2>4, <2>5
<1> HIDE DEF from
<1>17. /\ in \in LoopShape /\ in.st = "subscribing" /\ in.start = start
       /\ in.count = 0 /\ in.batch = <<>> /\ in.target = -1 /\ in.chain = ChainGen /\ in.gen = gen
      <2>1. ChainGen \in Gens /\ gen \in Gens
            BY <1>3, <1>8 DEF Gens
      <2>2. in = InGen(from, ChainGen, gen)
            BY DEF InGen
      <2> HIDE DEF in
      <2> QED BY <1>16, <2>1, <2>2, WithGen
<1> HIDE DEF in
<1>18. /\ q \in LoopShape /\ q.st = "subscribing" /\ q.start = start
       /\ q.count = 0 /\ q.batch = <<>> /\ q.target = -1 /\ q.chain = ChainGen /\ q.gen = gen
       /\ q.last = LastAppliedBefore(start) /\ q.applied = held
      <2> DEFINE at == LastAppliedBefore(start)
      <2>1. at \in 0..MaxId /\ held \in Seq(1..MaxId)
            BY <1>4, <1>7
      <2> HIDE DEF at
      <2>2. q = AtCursor(in, at, held)
            BY DEF at, AtCursor
      <2>3. /\ q \in LoopShape /\ q.st = "subscribing" /\ q.start = start
            /\ q.count = 0 /\ q.batch = <<>> /\ q.target = -1 /\ q.chain = ChainGen /\ q.gen = gen
            /\ q.last = at /\ q.applied = held
            <3> HIDE DEF q
            <3> HIDE DEF SubscriptionAssumption, ReplayAssumption
            <3> QED BY <1>17, <2>1, <2>2, WithCursor
      <2> QED BY <2>3 DEF at
<1>10. /\ replay' \in LoopShape
       /\ replay'.st = "subscribing" /\ replay'.start = start /\ replay'.chain = ChainGen
       /\ replay'.gen = gen /\ replay'.last = LastAppliedBefore(start) /\ replay'.applied = held
       /\ replay'.count = 0 /\ replay'.batch = <<>> /\ replay'.target = -1
      BY <1>14, <1>18
<1>11. held \o <<>> = held
      BY <1>7, ConcatNothing
<1>12. start = LastAppliedBefore(start) + 1 \/ (start = 0 /\ LastAppliedBefore(start) = 0)
      BY <1>13 DEF LastAppliedBefore, start
<1> HIDE DEF q
<1>19. replay'.applied \o replay'.batch = Complete(stream, replay'.gen, replay'.last)
      BY <1>7, <1>10, <1>11
<1>20. Len(<<>>) = 0 /\ 0 < BatchSize
      OBVIOUS
<1> QED BY <1>3, <1>4, <1>8, <1>9, <1>10, <1>12, <1>19, <1>20 DEF LoopSound, DustPlaced

-----------------------------------------------------------------------------
(* The kinds of steps *)

(* A longer chain changes nothing about a state. *)
LEMMA StateGrows ==
    ASSUME NEW s, NEW str, NEW top \in Nat, NEW more \in Nat, top <= more,
           StateSound(s, str, top)
    PROVE  StateSound(s, str, more)
BY ReplayAssumption DEF StateSound, DustPlaced

(* The head of the channel is an event the replay may consume next or has  *)
(* had, of the chain, or an announcement of the chain's tip.               *)
LEMMA HeadInStep ==
    ASSUME ReplayInv, NextItem
    PROVE  /\ Taken \in Item
           /\ Taken.k = "event" =>
                 /\ Taken.id <= replay.last + 1
                 /\ asked <= Taken.max /\ Taken.id <= Taken.max
                 /\ Taken.id >= 1 \/ (Taken.max = 0 /\ IsLedger)
           /\ Taken.k = "progress" => asked <= Taken.max
<1> DEFINE pipe == Pipe(conn, queue)
<1>1. conn \in Conn /\ queue \in Seq(Item) /\ queue # <<>>
      BY DEF ReplayInv, ShapeOK, NextItem, HasNext
<1>2. conn.held \in Item
      BY <1>1 DEF Conn
<1>3. pipe \in Seq(Item) /\ Len(pipe) \in Nat \ {0} /\ pipe[1] = Taken /\ Taken \in Item
      BY <1>1, <1>2 DEF Pipe, Taken
<1>4. FromTheChain(pipe, stream, asked) /\ InStep(pipe, replay.last)
      BY DEF ReplayInv, PipeSound
<1> HIDE DEF pipe
<1>5. 1 \in 1..Len(pipe) /\ 1..(1 - 1) = {}
      BY <1>3
<1> QED BY <1>3, <1>4, <1>5 DEF FromTheChain, InStep, IsLedger

(* A step of the replay that drops the connection. *)
LEMMA DropStep ==
    ASSUME ReplayInv, DropHandle, UNCHANGED <<stream, tip, next, asked>>,
           attempts' \in Nat, replay' \in LoopShape, replay'.st # "waiting",
           LoopSound(replay', stream, tip, asked),
           StateSound(mem', stream, tip), StateSound(disk', stream, tip)
    PROVE  ReplayInv'
<1>1. conn' \in Conn /\ conn'.st = "none" /\ queue' = <<>> /\ Pipe(conn', queue') = <<>>
      BY DropEmpties
<1>2. ShapeOK'
      <2>1. <<>> \in Seq(Item) /\ Len(<<>>) <= QueueSize
            BY SubscriptionAssumption
      <2> QED BY <1>1, <2>1 DEF ShapeOK, ReplayInv
<1>3. PhaseSound'
      BY <1>1 DEF PhaseSound
<1>4. ClockSound'
      BY DEF ClockSound
<1>5. PipeSound'
      BY <1>1, PipeEmpty DEF PipeSound
<1> QED BY <1>2, <1>3, <1>4, <1>5 DEF ReplayInv

(* A step of the replay that takes an item and goes on. *)
LEMMA TakeStep ==
    ASSUME ReplayInv, NextItem, TakeItem, UNCHANGED <<stream, tip, next, mem, asked>>,
           attempts' \in Nat, replay' \in LoopShape, replay'.st = "waiting", replay'.since = 0,
           replay.last <= replay'.last, Taken.k = "event" => Taken.id <= replay'.last,
           LoopSound(replay', stream, tip, asked), StateSound(disk', stream, tip)
    PROVE  ReplayInv'
<1> DEFINE pipe == Pipe(conn, queue)
<1>1. /\ conn \in Conn /\ queue \in Seq(Item) /\ Len(queue) <= QueueSize /\ HasNext
      /\ replay.st = "waiting" /\ next \in Nat \ {0} /\ asked \in Nat /\ replay.last \in Nat
      /\ replay'.last \in Nat
      BY SubscriptionAssumption DEF ReplayInv, ShapeOK, NextItem, LoopShape
<1>2. /\ conn' \in Conn /\ queue' \in Seq(Item) /\ Len(queue') <= QueueSize
      /\ pipe \in Seq(Item) /\ pipe # <<>>
      /\ Pipe(conn', queue') = Tail(pipe)
      /\ Head(pipe) = Taken
      BY <1>1, TakeShrinks
<1>3. ShapeOK'
      BY <1>2 DEF ReplayInv, ShapeOK
<1>4. PhaseSound'
      BY <1>1 DEF ReplayInv, PhaseSound, TakeItem
<1>5. ClockSound'
      BY DEF ClockSound
<1>6. PipeSound'
      <2>1. FromTheChain(pipe, stream, asked) /\ InStep(pipe, replay.last) /\ Covers(pipe, replay.last, next)
            BY <1>1 DEF ReplayInv, PipeSound
      <2> HIDE DEF pipe
      <2>2. /\ FromTheChain(Tail(pipe), stream, asked)
            /\ InStep(Tail(pipe), replay'.last)
            /\ Covers(Tail(pipe), replay'.last, next)
            BY <1>1, <1>2, <2>1, PipeShrinks
      <2> QED BY <1>2, <2>2 DEF PipeSound
<1>7. StateSound(mem', stream, tip)
      BY DEF ReplayInv
<1> QED BY <1>3, <1>4, <1>5, <1>6, <1>7 DEF ReplayInv

(* A step in which the reader has an item for the replay. *)
LEMMA FeedStep ==
    ASSUME ReplayInv, conn.st = "reading", NEW x \in Item, NEW last \in BOOLEAN, Send(x, last),
           UNCHANGED <<stream, tip, replay, mem, disk, asked, attempts>>,
           next' \in 1..(MaxId + 1),
           FromTheChain(<<x>>, stream, asked),
           x.k = "event" => x.id <= next,
           next' = next \/ (x.k = "event" /\ x.id = next /\ next' = next + 1)
    PROVE  ReplayInv'
<1> DEFINE pipe == Pipe(conn, queue)
<1>1. /\ conn \in Conn /\ queue \in Seq(Item) /\ Len(queue) <= QueueSize
      /\ next \in Nat \ {0} /\ next' \in Nat /\ asked \in Nat /\ replay.last \in Nat
      BY SubscriptionAssumption DEF ReplayInv, ShapeOK, LoopShape
<1>2. replay.st = "waiting"
      BY DEF ReplayInv, PhaseSound, ShapeOK, LoopShape
<1>3. /\ conn' \in Conn /\ queue' \in Seq(Item) /\ Len(queue') <= QueueSize
      /\ conn'.st \in {"reading", "sending", "ended"}
      /\ queue' # <<>>
      /\ Pipe(conn', queue') = Append(pipe, x)
      BY <1>1, SendGrows
<1>4. ShapeOK'
      BY <1>3 DEF ReplayInv, ShapeOK
<1>5. PhaseSound'
      BY <1>2, <1>3 DEF PhaseSound
<1>6. ClockSound'
      BY <1>3 DEF ClockSound
<1>7. PipeSound'
      <2>1. FromTheChain(pipe, stream, asked) /\ InStep(pipe, replay.last) /\ Covers(pipe, replay.last, next)
            BY <1>2 DEF ReplayInv, PipeSound
      <2>2. pipe \in Seq(Item)
            BY <1>1, PipeType
      <2> HIDE DEF pipe
      <2>3. /\ FromTheChain(Append(pipe, x), stream, asked)
            /\ InStep(Append(pipe, x), replay.last)
            /\ Covers(Append(pipe, x), replay.last, next')
            BY <1>1, <2>1, <2>2, PipeGrows
      <2> QED BY <1>3, <2>3 DEF PipeSound
<1> QED BY <1>4, <1>5, <1>6, <1>7 DEF ReplayInv

(* A step of the connection that moves no item. *)
LEMMA QuietStep ==
    ASSUME ReplayInv, UNCHANGED <<stream, tip, next, mem, disk, asked>>,
           attempts' \in Nat,
           conn' \in Conn, queue' \in Seq(Item), Len(queue') <= QueueSize,
           Pipe(conn', queue') = Pipe(conn, queue),
           replay' \in LoopShape, replay'.last = replay.last,
           LoopSound(replay', stream, tip, asked),
           PhaseSound', ClockSound',
           replay'.st = "waiting" => replay.st = "waiting"
    PROVE  ReplayInv'
<1>1. ShapeOK'
      BY DEF ReplayInv, ShapeOK
<1>2. PipeSound'
      BY DEF ReplayInv, PipeSound
<1> QED BY <1>1, <1>2 DEF ReplayInv

-----------------------------------------------------------------------------
(* The steps keep the invariant *)

(* What every step starts from. *)
LEMMA Before ==
    ASSUME ReplayInv
    PROVE  /\ conn \in Conn /\ queue \in Seq(Item) /\ Len(queue) <= QueueSize
           /\ stream \in Streams /\ stream \in {"zswap", "dust", "unshielded"}
           /\ tip \in 0..MaxId /\ next \in 1..(MaxId + 1) /\ asked \in 0..tip
           /\ attempts \in Nat
           /\ replay \in LoopShape
           /\ LoopSound(replay, stream, tip, asked)
           /\ StateSound(mem, stream, tip) /\ StateSound(disk, stream, tip)
           /\ MaxId \in Nat \ {0}
BY SubscriptionAssumption, ReplayAssumption DEF ReplayInv, ShapeOK

(* An error: the replay and its connection are dropped. *)
LEMMA GivingUp ==
    ASSUME ReplayInv, GiveUp, UNCHANGED <<stream, tip, next, mem, asked>>,
           attempts' \in Nat, StateSound(disk', stream, tip)
    PROVE  ReplayInv'
<1>1. NoLoop \in LoopShape /\ LoopSound(NoLoop, stream, tip, asked) /\ NoLoop.st # "waiting"
      BY Before, NoLoopSound DEF NoLoop
<1> QED BY <1>1, Before, DropStep DEF GiveUp

(* A retryable failure: a backoff with what the replay has, or an error. *)
LEMMA Reconnecting ==
    ASSUME ReplayInv, ReconnectOrGiveUp, UNCHANGED <<stream, tip, next, walletVars, historyVars>>
    PROVE  ReplayInv'
<1>1. CASE MayRetry(replay)
      <2>1. replay' = [replay EXCEPT !.st = "backoff", !.retries = @ + 1, !.since = 0] /\ DropHandle
            BY <1>1 DEF ReconnectOrGiveUp
      <2>2. replay \in LoopShape /\ replay.retries + 1 \in 0..MaxRetries /\ 0 \in 0..3
            <3>1. replay \in LoopShape
                  BY Before
            <3>2. replay.retries \in 0..MaxRetries
                  BY <3>1 DEF LoopShape
            <3> QED BY <1>1, <3>1, <3>2, ReplayAssumption DEF MayRetry
      <2>3. /\ replay' \in LoopShape /\ replay'.st = "backoff"
            /\ replay'.start = replay.start /\ replay'.chain = replay.chain
            /\ replay'.gen = replay.gen /\ replay'.last = replay.last
            /\ replay'.count = replay.count /\ replay'.applied = replay.applied
            /\ replay'.batch = replay.batch /\ replay'.target = replay.target
            BY <2>1, <2>2 DEF LoopShape
      <2>4. LoopSound(replay', stream, tip, asked)
            BY <2>2, <2>3, Before, ResetSound
      <2> QED BY <2>1, <2>3, <2>4, Before, DropStep DEF walletVars, historyVars
<1>2. CASE ~MayRetry(replay)
      BY <1>2, Before, GivingUp DEF ReconnectOrGiveUp, GiveUp, walletVars, historyVars
<1> QED BY <1>1, <1>2

(* A replay that returns. *)
LEMMA Returning ==
    ASSUME ReplayInv, NEW r \in LoopShape, LoopSound(r, stream, tip, asked),
           NEW by \in {"none", "event", "silence", "empty"},
           r.last >= asked \/ (by = "silence" /\ r.resuming),
           replay' = Return(r, by), DropHandle,
           UNCHANGED <<stream, tip, next, mem, asked>>,
           attempts' \in Nat, StateSound(disk', stream, tip)
    PROVE  ReplayInv'
<1>1. /\ Return(r, by) \in LoopShape /\ Return(r, by).st = "done"
      /\ LoopSound(Return(r, by), stream, tip, asked)
      BY ReturnSound
<1> QED BY <1>1, Before, DropStep

(* A sync starts a replay from the wallet in memory. *)
LEMMA StartReplayStep ==
    ASSUME ReplayInv, StartReplay
    PROVE  ReplayInv'
<1>1. /\ replay' \in LoopShape /\ replay'.st = "subscribing"
      /\ LoopSound(replay', stream, tip, tip)
      BY Before, BeginSound DEF StartReplay
<1>2. /\ UNCHANGED <<conn, queue, stream, tip, next, mem, disk>>
      /\ asked' = tip /\ attempts' = 0 /\ conn.st = "none" /\ queue = <<>>
      BY DEF StartReplay, walletVars, ReplayInv, PhaseSound
<1>3. ShapeOK'
      BY <1>1, <1>2, Before DEF ShapeOK
<1>4. PhaseSound' /\ ClockSound'
      BY <1>1, <1>2 DEF PhaseSound, ClockSound
<1>5. Pipe(conn', queue') = <<>>
      BY <1>2 DEF Pipe
<1>6. PipeSound'
      BY <1>1, <1>5, PipeEmpty DEF PipeSound
<1>7. StateSound(mem', stream', tip') /\ StateSound(disk', stream', tip')
      BY <1>2, Before
<1> QED BY <1>1, <1>2, <1>3, <1>4, <1>6, <1>7 DEF ReplayInv

(* A connection is opened. *)
LEMMA SubscribeStep ==
    ASSUME ReplayInv, Subscribe
    PROVE  ReplayInv'
<1>1. /\ conn' = At("connecting") /\ queue' = <<>> /\ conn.st = "none" /\ queue = <<>>
      /\ UNCHANGED <<stream, tip, next, replay, mem, disk, asked>>
      /\ attempts' = attempts + 1 /\ replay.st = "subscribing"
      BY DEF Subscribe, Connect, walletVars, ReplayInv, PhaseSound
<1>2. conn' \in Conn /\ conn'.st = "connecting"
      BY <1>1, AtTyped
<1>3. <<>> \in Seq(Item) /\ Len(<<>>) <= QueueSize
      BY SubscriptionAssumption
<1>4. Pipe(conn', queue') = Pipe(conn, queue)
      BY <1>1, <1>2 DEF Pipe
<1>5. PhaseSound' /\ ClockSound'
      BY <1>1, <1>2 DEF PhaseSound, ClockSound
<1> QED BY <1>1, <1>2, <1>3, <1>4, <1>5, Before, QuietStep

(* A message of the handshake goes out. *)
LEMMA HandshakeWriteStep ==
    ASSUME ReplayInv, HandshakeWrite
    PROVE  ReplayInv'
<1>1. /\ replay.st = "subscribing" /\ UNCHANGED queue
      /\ UNCHANGED <<stream, tip, next, replay, mem, disk, asked, attempts>>
      BY DEF HandshakeWrite, Writes, Written, walletVars, historyVars
<1>2. PICK st \in {"connecting", "writing"} :
          conn.st \in {"connecting", "writing"} /\ conn' = [conn EXCEPT !.st = st]
      BY DEF HandshakeWrite, Writes, Written
<1>3. conn' \in Conn /\ conn'.st = st
      BY <1>2, Before DEF Conn
<1>4. Pipe(conn', queue') = Pipe(conn, queue)
      BY <1>1, <1>2, <1>3 DEF Pipe
<1>5. PhaseSound' /\ ClockSound'
      BY <1>1, <1>3 DEF ReplayInv, PhaseSound, ClockSound
<1> QED BY <1>1, <1>3, <1>4, <1>5, Before, QuietStep

(* The server starts at the id asked for, or before it. *)
LEMMA SubscribedStep ==
    ASSUME ReplayInv, Subscribed
    PROVE  ReplayInv'
<1>1. /\ replay.st = "subscribing" /\ conn' = At("reading") /\ queue' = queue /\ queue = <<>>
      /\ replay' = [replay EXCEPT !.st = "waiting", !.high = -1, !.since = 0]
      /\ UNCHANGED <<stream, tip, mem, disk, asked, attempts>>
      BY DEF Subscribed, Acknowledged, walletVars, historyVars, ReplayInv, PhaseSound
<1>2. conn' \in Conn /\ conn'.st = "reading" /\ conn'.age = 0
      BY <1>1, AtTyped
<1>3. /\ replay' \in LoopShape /\ replay'.st = "waiting"
      /\ replay'.start = replay.start /\ replay'.chain = replay.chain
      /\ replay'.gen = replay.gen /\ replay'.last = replay.last
      /\ replay'.count = replay.count /\ replay'.applied = replay.applied
      /\ replay'.batch = replay.batch /\ replay'.target = replay.target
      <2>1. -1 \in (-1)..MaxId /\ 0 \in 0..3 /\ replay \in LoopShape
            BY Before
      <2> QED BY <1>1, <2>1 DEF LoopShape
<1>4. LoopSound(replay', stream, tip, asked)
      BY <1>3, Before, ResetSound
<1>5. /\ replay.last \in 0..MaxId /\ replay.start \in 0..(MaxId + 1) /\ replay.count \in 0..MaxId
      /\ replay.count <= replay.last
      /\ replay.count = 0 => replay.start = replay.last + 1 \/ (replay.start = 0 /\ replay.last = 0)
      BY Before DEF LoopShape, LoopSound
<1>6. ResumeId(replay) \in 0..(replay.last + 1)
      BY <1>5, Before DEF ResumeId
<1>7. /\ next' \in 1..(MaxId + 1) /\ next' <= replay.last + 1
      <2>1. next' \in {1} \cup 1..ResumeId(replay)
            BY DEF Subscribed
      <2> HIDE DEF ResumeId
      <2> QED BY <1>5, <1>6, <2>1, Before
<1>8. ShapeOK'
      BY <1>1, <1>2, <1>3, <1>7, Before DEF ShapeOK
<1>9. PhaseSound' /\ ClockSound'
      BY <1>2, <1>3, SubscriptionAssumption DEF PhaseSound, ClockSound, IdleTimeout
<1>10. PipeSound'
      <2>1. Pipe(conn', queue') = <<>>
            BY <1>1, <1>2 DEF Pipe
      <2>2. Covers(<<>>, replay'.last, next')
            BY <1>3, <1>5, <1>7, Before, PipeStarts
      <2> QED BY <2>1, <2>2, PipeEmpty DEF PipeSound
<1>11. StateSound(mem', stream', tip') /\ StateSound(disk', stream', tip')
      BY <1>1, Before
<1> QED BY <1>1, <1>4, <1>8, <1>9, <1>10, <1>11 DEF ReplayInv

(* The handshake fails or runs out of time. *)
LEMMA SubscribeFailsStep ==
    ASSUME ReplayInv, SubscribeFails \/ SubscribeTimesOut
    PROVE  ReplayInv'
<1>1. UNCHANGED <<stream, tip, next, mem, disk, asked, attempts>>
      BY DEF SubscribeFails, SubscribeTimesOut, walletVars, historyVars
<1>2. CASE ReconnectOrGiveUp
      BY <1>1, <1>2, Reconnecting DEF walletVars, historyVars
<1>3. CASE GiveUp
      BY <1>1, <1>3, Before, GivingUp
<1> QED BY <1>2, <1>3 DEF SubscribeFails, SubscribeTimesOut

(* The backoff is over. *)
LEMMA BackoffOverStep ==
    ASSUME ReplayInv, BackoffOver
    PROVE  ReplayInv'
<1>1. /\ replay.st = "backoff" /\ conn.st = "none" /\ queue = <<>>
      /\ replay' = [replay EXCEPT !.st = "subscribing"]
      /\ UNCHANGED <<conn, queue, stream, tip, next, mem, disk, asked, attempts>>
      BY DEF BackoffOver, walletVars, historyVars, ReplayInv, PhaseSound
<1>2. /\ replay' \in LoopShape /\ replay'.st = "subscribing"
      /\ replay'.start = replay.start /\ replay'.chain = replay.chain
      /\ replay'.gen = replay.gen /\ replay'.last = replay.last
      /\ replay'.count = replay.count /\ replay'.applied = replay.applied
      /\ replay'.batch = replay.batch /\ replay'.target = replay.target
      BY <1>1, Before DEF LoopShape
<1>3. LoopSound(replay', stream, tip, asked)
      BY <1>2, Before, ResetSound
<1>4. PhaseSound' /\ ClockSound'
      BY <1>1, <1>2 DEF PhaseSound, ClockSound
<1> QED BY <1>1, <1>2, <1>3, <1>4, Before, QuietStep

(* The server sends the next event, or one it already sent. *)
LEMMA ServerEventStep ==
    ASSUME ReplayInv, ServerEvent
    PROVE  ReplayInv'
<1>1. UNCHANGED <<stream, tip, replay, mem, disk, asked, attempts>>
      BY DEF ServerEvent, walletVars, historyVars
<1>2. ASSUME NEW id \in 0..MaxId, conn.st = "reading", Send(Event(id, tip), FALSE),
             id <= tip, id >= 1 \/ (tip = 0 /\ stream # "unshielded"),
             next' \in 1..(MaxId + 1), id <= next,
             next' = next \/ (id = next /\ next' = next + 1)
      PROVE  ReplayInv'
      <2> DEFINE x == Event(id, tip)
      <2>1. x \in Item /\ x.k = "event" /\ x.id = id /\ x.max = tip
            BY Before DEF Event, Item
      <2> HIDE DEF x
      <2>2. FromTheChain(<<x>>, stream, asked)
            BY <1>2, <2>1, Before DEF FromTheChain
      <2>3. Send(x, FALSE)
            BY <1>2 DEF x
      <2> QED BY <1>1, <1>2, <2>1, <2>2, <2>3, FeedStep
<1>3. CASE next <= tip /\ FrameItem(Event(next, tip)) /\ next' = next + 1
      <2>1. next \in 0..MaxId /\ next >= 1 /\ next' \in 1..(MaxId + 1) /\ next <= next
            BY <1>3, Before
      <2> QED BY <1>2, <1>3, <2>1, Before DEF FrameItem
<1>4. ASSUME NEW id \in 1..(next - 1), id <= tip, FrameItem(Event(id, tip)), UNCHANGED next
      PROVE  ReplayInv'
      <2>1. id \in 0..MaxId /\ id >= 1 /\ id <= next /\ next' \in 1..(MaxId + 1)
            BY <1>4, Before
      <2> QED BY <1>2, <1>4, <2>1 DEF FrameItem
<1>5. CASE IsLedger /\ tip = 0 /\ FrameItem(Event(0, 0)) /\ UNCHANGED next
      <2>1. 0 \in 0..MaxId /\ 0 <= next /\ 0 <= tip /\ Event(0, 0) = Event(0, tip)
            BY <1>5, Before
      <2> QED BY <1>2, <1>5, <2>1, Before DEF FrameItem, IsLedger
<1>6. CASE \E id \in 1..(next - 1) : id <= tip /\ FrameItem(Event(id, tip)) /\ UNCHANGED next
      BY <1>4, <1>6
<1>7. \/ next <= tip /\ FrameItem(Event(next, tip)) /\ next' = next + 1
      \/ \E id \in 1..(next - 1) : id <= tip /\ FrameItem(Event(id, tip)) /\ UNCHANGED next
      \/ IsLedger /\ tip = 0 /\ FrameItem(Event(0, 0)) /\ UNCHANGED next
      BY Zenon DEF ServerEvent
<1> QED BY <1>3, <1>5, <1>6, <1>7, Zenon

(* An item that is no event asks nothing of the pipe. *)
LEMMA OtherItem ==
    ASSUME ReplayInv, conn.st = "reading", NEW x \in Item, NEW last \in BOOLEAN, Send(x, last),
           x.k # "event", x.k = "progress" => asked <= x.max,
           UNCHANGED <<stream, tip, next, replay, mem, disk, asked, attempts>>
    PROVE  ReplayInv'
<1>1. FromTheChain(<<x>>, stream, asked)
      BY DEF FromTheChain
<1> QED BY <1>1, Before, FeedStep

(* A failure is an item. *)
LEMMA FailureIsItem ==
    ASSUME NEW k \in {"transport", "bad", "refused"}
    PROVE  Failure(k) \in Item /\ Failure(k).k = k
BY SubscriptionAssumption DEF Failure, Item

(* The server announces the largest transaction. *)
LEMMA ServerProgressStep ==
    ASSUME ReplayInv, ServerProgress
    PROVE  ReplayInv'
<1>1. Progress(tip) \in Item /\ Progress(tip).k = "progress" /\ Progress(tip).max = tip
      BY Before DEF Progress, Item
<1>2. /\ conn.st = "reading" /\ Send(Progress(tip), FALSE)
      /\ UNCHANGED <<stream, tip, next, replay, mem, disk, asked, attempts>>
      BY DEF ServerProgress, FrameItem, walletVars, historyVars
<1>3. asked <= tip
      BY Before
<1> QED BY <1>1, <1>2, <1>3, OtherItem

(* The server sends anything else, or the socket ends. *)
LEMMA ServerOtherStep ==
    ASSUME ReplayInv, ServerOther
    PROVE  ReplayInv'
<1>1. UNCHANGED <<stream, tip, next, replay, mem, disk, asked, attempts>>
      BY DEF ServerOther, walletVars, historyVars
<1>2. ASSUME conn.st = "reading", NEW st \in {"reading", "ended"}, conn' = At(st), UNCHANGED queue
      PROVE  ReplayInv'
      <2>1. conn' \in Conn /\ conn'.st = st /\ conn'.age = 0
            BY <1>2, AtTyped
      <2>2. Pipe(conn', queue') = Pipe(conn, queue)
            BY <1>2, <2>1 DEF Pipe
      <2>3. PhaseSound' /\ ClockSound'
            BY <1>1, <1>2, <2>1 DEF PhaseSound, ClockSound, IdleTimeout, ReplayInv
      <2> QED BY <1>1, <1>2, <2>1, <2>2, <2>3, Before, QuietStep
<1>3. CASE FrameQuiet
      BY <1>2, <1>3 DEF FrameQuiet, Reading
<1>4. CASE FrameEnds
      BY <1>2, <1>4 DEF FrameEnds
<1>5. CASE FrameFails
      <2>1. PICK k \in {"transport", "refused"} : Send(Failure(k), TRUE)
            BY <1>5 DEF FrameFails
      <2> QED BY <1>1, <1>5, <2>1, FailureIsItem, OtherItem DEF FrameFails
<1>6. CASE FrameItem(Failure("bad"))
      BY <1>1, <1>6, FailureIsItem, OtherItem DEF FrameItem
<1> QED BY <1>3, <1>4, <1>5, <1>6 DEF ServerOther

(* The reader unblocks, pings, or takes the socket for dead. *)
LEMMA ReaderKeeps ==
    ASSUME ReplayInv, ReaderStep
    PROVE  ReplayInv'
<1>1. UNCHANGED <<stream, tip, next, replay, mem, disk, asked, attempts>>
      BY DEF ReaderStep, walletVars, historyVars
<1>2. CASE SendUnblocked
      <2>1. /\ conn' \in Conn /\ queue' \in Seq(Item) /\ Len(queue') <= QueueSize
            /\ conn.st = "sending" /\ conn'.st \in {"reading", "ended"}
            /\ queue' # <<>>
            /\ Pipe(conn', queue') = Pipe(conn, queue)
            BY <1>2, Before, UnblockKeeps
      <2>2. PhaseSound' /\ ClockSound'
            BY <1>1, <2>1 DEF PhaseSound, ClockSound, ReplayInv
      <2> QED BY <1>1, <2>1, <2>2, Before, QuietStep
<1>3. CASE conn.st = "reading" /\ Send(Failure("transport"), TRUE)
      BY <1>1, <1>3, FailureIsItem, OtherItem
<1>4. CASE conn.st = "reading" /\ conn' = [conn EXCEPT !.pinged = TRUE] /\ UNCHANGED queue
      <2>1. conn' \in Conn /\ conn'.st = "reading" /\ conn'.age = conn.age
            BY <1>4, Before DEF Conn
      <2>2. Pipe(conn', queue') = Pipe(conn, queue)
            BY <1>4, <2>1 DEF Pipe
      <2>3. PhaseSound' /\ ClockSound'
            BY <1>1, <1>4, <2>1 DEF PhaseSound, ClockSound, ReplayInv
      <2> QED BY <1>1, <1>4, <2>1, <2>2, <2>3, Before, QuietStep
<1> QED BY <1>2, <1>3, <1>4 DEF ReaderStep, Reader, KeepAlivePing, KeepAliveIdle, KeepAliveDue

(* The chain grows. *)
LEMMA NewEventStep ==
    ASSUME ReplayInv, NewEvent
    PROVE  ReplayInv'
<1>1. /\ tip' = tip + 1 /\ tip < MaxId
      /\ UNCHANGED <<conn, queue, stream, next, replay, mem, disk, asked, attempts>>
      BY DEF NewEvent, walletVars, historyVars
<1>2. tip \in Nat /\ tip' \in 0..MaxId /\ tip' \in Nat /\ tip <= tip' /\ asked \in 0..tip'
      BY <1>1, Before
<1>3. StateSound(mem, stream, tip') /\ StateSound(disk, stream, tip')
      BY <1>2, Before, StateGrows
<1>4. LoopSound(replay, stream, tip', asked)
      <2>1. LoopSound(replay, stream, tip, asked)
            BY Before
      <2> QED BY <1>2, <2>1, ReplayAssumption DEF LoopSound, DustPlaced
<1>5. ShapeOK'
      BY <1>1, <1>2, Before DEF ShapeOK
<1>6. PhaseSound' /\ ClockSound' /\ PipeSound'
      BY <1>1 DEF ReplayInv, PhaseSound, ClockSound, PipeSound
<1>7. LoopSound(replay', stream', tip', asked') /\ StateSound(mem', stream', tip') /\ StateSound(disk', stream', tip')
      BY <1>1, <1>3, <1>4
<1> QED BY <1>5, <1>6, <1>7 DEF ReplayInv

(* Time passes, for a connection that is not due. *)
LEMMA TickStep ==
    ASSUME ReplayInv, Tick
    PROVE  ReplayInv'
<1>1. /\ UNCHANGED <<queue, stream, tip, next, mem, disk, asked, attempts>>
      /\ conn' = Older /\ ~KeepAliveDue /\ ~SendDue
      /\ replay' = IF Waiting /\ replay.since < 3 THEN [replay EXCEPT !.since = @ + 1] ELSE replay
      BY DEF Tick, walletVars, historyVars, SubMayTick
<1>2. /\ conn' \in Conn /\ conn'.st = conn.st /\ conn'.held = conn.held
      /\ conn'.age = conn.age \/ conn'.age = conn.age + 1
      <2>1. CASE conn.st \in {"connecting", "writing", "reading", "sending"} /\ conn.age <= IdleTimeout
            <3>1. conn.age + 1 \in 0..(IdleTimeout + 1)
                  BY <2>1, Before DEF Conn, IdleTimeout
            <3>2. conn' = [conn EXCEPT !.age = conn.age + 1]
                  BY <1>1, <2>1 DEF Older
            <3> QED BY <3>1, <3>2, Before DEF Conn
      <2>2. CASE ~(conn.st \in {"connecting", "writing", "reading", "sending"} /\ conn.age <= IdleTimeout)
            BY <1>1, <2>2, Before DEF Older
      <2> QED BY <2>1, <2>2
<1>3. /\ replay' \in LoopShape /\ replay'.st = replay.st
      /\ replay'.start = replay.start /\ replay'.chain = replay.chain
      /\ replay'.gen = replay.gen /\ replay'.last = replay.last
      /\ replay'.count = replay.count /\ replay'.applied = replay.applied
      /\ replay'.batch = replay.batch /\ replay'.target = replay.target
      /\ replay'.by = replay.by /\ replay'.resuming = replay.resuming
      <2>1. CASE Waiting /\ replay.since < 3
            <3>1. replay.since + 1 \in 0..3 /\ replay \in LoopShape
                  BY SMTT(30), <2>1, Before DEF LoopShape
            <3> QED BY <1>1, <2>1, <3>1 DEF LoopShape
      <2>2. CASE ~(Waiting /\ replay.since < 3)
            BY <1>1, <2>2, Before
      <2> QED BY <2>1, <2>2
<1>4. LoopSound(replay', stream, tip, asked)
      <2>1. LoopSound(replay, stream, tip, asked)
            BY Before
      <2> QED BY <1>3, <2>1 DEF LoopSound
<1>5. Pipe(conn', queue') = Pipe(conn, queue)
      BY <1>1, <1>2 DEF Pipe
<1>6. PhaseSound'
      BY <1>1, <1>2, <1>3 DEF ReplayInv, PhaseSound
<1>7. ClockSound'
      <2> SUFFICES ASSUME replay'.st = "waiting", queue' = <<>>
                   PROVE  /\ conn'.st = "reading" => conn'.age <= IdleTimeout \/ replay'.since = 0
                          /\ conn'.st = "sending" => replay'.since = 0
          BY DEF ClockSound
      <2>1. conn.st # "sending"
            BY <1>1, SubscriptionAssumption DEF SendDue
      <2>2. conn.st = "reading" => conn.age \in 0..3 /\ conn.age < IdleTimeout
            BY <1>1, Before DEF KeepAliveDue, Conn, IdleTimeout, PingAfter
      <2> QED BY <1>2, <2>1, <2>2 DEF IdleTimeout
<1> QED BY <1>1, <1>2, <1>3, <1>4, <1>5, <1>6, <1>7, Before, QuietStep

(* The reader has ended and the channel is empty. *)
LEMMA StreamEndsStep ==
    ASSUME ReplayInv, StreamEnds
    PROVE  ReplayInv'
<1>1. UNCHANGED <<stream, tip, next, mem, disk, asked, attempts>>
      BY DEF StreamEnds, walletVars, historyVars
<1>2. CASE IsLedger /\ AtTip(replay)
      <2>1. replay' = Return(replay, "silence") /\ DropHandle /\ replay.resuming
            BY <1>2 DEF StreamEnds, AtTip
      <2> QED BY <1>1, <2>1, Before, Returning
<1>3. CASE ~(IsLedger /\ AtTip(replay))
      BY <1>3, Reconnecting DEF StreamEnds
<1> QED BY <1>2, <1>3

(* Nothing arrived in time. *)
LEMMA WaitTimesOutStep ==
    ASSUME ReplayInv, WaitTimesOut
    PROVE  ReplayInv'
<1>1. DropHandle /\ UNCHANGED <<stream, tip, next, mem, disk, asked, attempts>>
      BY DEF WaitTimesOut, walletVars, historyVars
<1>2. \/ replay' = Return(replay, "silence") /\ replay.resuming
      \/ replay' = NoLoop
      BY DEF WaitTimesOut, AtTip
<1>3. CASE replay' = Return(replay, "silence") /\ replay.resuming
      BY <1>1, <1>3, Before, Returning
<1>4. CASE replay' = NoLoop
      BY <1>1, <1>4, Before, GivingUp DEF GiveUp
<1> QED BY <1>2, <1>3, <1>4

(* An error arrives. *)
LEMMA ItemFailsStep ==
    ASSUME ReplayInv, ItemFails
    PROVE  ReplayInv'
<1>1. UNCHANGED <<stream, tip, next, mem, disk, asked, attempts>>
      BY DEF ItemFails, walletVars, historyVars
<1>2. CASE IsRetryable(Taken)
      BY <1>2, Reconnecting DEF ItemFails
<1>3. CASE ~IsRetryable(Taken)
      BY <1>1, <1>3, Before, GivingUp DEF ItemFails
<1> QED BY <1>2, <1>3

(* A repeated event moves the order check and nothing else. *)
LEMMA Skipping ==
    ASSUME ReplayInv, NextItem, Taken.k = "event", AlreadyApplied(Taken.id, replay),
           replay' = [Heard(replay) EXCEPT !.high = Taken.id], TakeItem,
           UNCHANGED <<stream, tip, next, mem, disk, asked, attempts>>
    PROVE  ReplayInv'
<1>1. Taken.id \in 0..MaxId /\ Taken.id \in (-1)..MaxId /\ Taken.id <= replay.last /\ 0 \in 0..3
      BY HeadInStep, Before DEF Item, AlreadyApplied
<1>2. replay \in LoopShape /\ replay.st = "waiting"
      BY Before DEF NextItem
<1> DEFINE heard == Heard(replay)
<1>3. /\ heard \in LoopShape /\ heard.st = "waiting" /\ heard.since = 0
      /\ heard.start = replay.start /\ heard.chain = replay.chain
      /\ heard.gen = replay.gen /\ heard.last = replay.last
      /\ heard.count = replay.count /\ heard.applied = replay.applied
      /\ heard.batch = replay.batch /\ heard.target = replay.target
      BY <1>1, <1>2 DEF Heard, LoopShape
<1> HIDE DEF heard
<1>4. replay' = Saw(heard, Taken.id)
      BY DEF heard, Saw
<1>5. /\ replay' \in LoopShape /\ replay'.st = "waiting" /\ replay'.since = 0
      /\ replay'.start = replay.start /\ replay'.chain = replay.chain
      /\ replay'.gen = replay.gen /\ replay'.last = replay.last
      /\ replay'.count = replay.count /\ replay'.applied = replay.applied
      /\ replay'.batch = replay.batch /\ replay'.target = replay.target
      <2>1. PICK id \in (-1)..MaxId : id = Taken.id
            BY <1>1
      <2>2. replay' = Saw(heard, id)
            BY <1>4, <2>1
      <2> DEFINE q == Saw(heard, id)
      <2>3. heard \in LoopShape
            BY <1>3
      <2>4. /\ q \in LoopShape /\ q.high = id
            /\ q.st = heard.st /\ q.start = heard.start /\ q.resuming = heard.resuming /\ q.chain = heard.chain
            /\ q.gen = heard.gen /\ q.last = heard.last /\ q.count = heard.count /\ q.retries = heard.retries
            /\ q.target = heard.target /\ q.since = heard.since /\ q.applied = heard.applied
            /\ q.batch = heard.batch /\ q.by = heard.by
            BY <2>3, WithHigh
      <2> HIDE DEF q
      <2>5. replay' = q
            BY <2>2 DEF q
      <2> QED BY <1>3, <2>4, <2>5
<1>6. LoopSound(replay', stream, tip, asked)
      BY <1>2, <1>5, Before, ResetSound
<1>7. replay.last <= replay'.last
      BY <1>1, <1>5, <1>2 DEF LoopShape
<1> QED BY <1>1, <1>5, <1>6, <1>7, Before, TakeStep

(* An event that is not applied already is the next one. *)
LEMMA NewIsNext ==
    ASSUME ReplayInv, NextItem, Taken.k = "event", Taken.id >= 1, ~AlreadyApplied(Taken.id, replay)
    PROVE  Taken.id \in 1..MaxId /\ Taken.id = replay.last + 1
<1>1. Taken.id \in 0..MaxId /\ Taken.id <= replay.last + 1
      BY HeadInStep DEF Item
<1>2. /\ replay.last \in 0..MaxId /\ replay.start \in 0..(MaxId + 1) /\ replay.count \in 0..MaxId
      /\ replay.count = 0 => replay.start = replay.last + 1 \/ (replay.start = 0 /\ replay.last = 0)
      BY Before DEF LoopShape, LoopSound
<1> QED BY <1>1, <1>2, Before DEF AlreadyApplied

(* The next event of the generation, and the checkpoint it may fill. *)
LEMMA NewLedgerEventStep ==
    ASSUME ReplayInv, IsLedger, NextItem, Taken.k = "event", Taken.max > 0,
           ~AlreadyApplied(Taken.id, replay), NewLedgerEvent(Taken.id, Taken.max),
           UNCHANGED <<stream, tip, next, mem, asked>>
    PROVE  ReplayInv'
<1> DEFINE id == Taken.id
<1>1. id \in 1..MaxId /\ id = replay.last + 1
      BY HeadInStep, NewIsNext
<1>2. replay \in LoopShape /\ replay.st = "waiting" /\ LoopSound(replay, stream, tip, asked)
      /\ stream \in {"zswap", "dust"} /\ replay.gen \in {8, 9} /\ stream \in Streams
      BY Before DEF NextItem, IsLedger, LoopShape, Gens
<1>3. asked <= Taken.max /\ asked \in Nat /\ Taken.max \in Nat /\ replay.last \in Nat
      BY <1>2, HeadInStep, Before DEF Item, LoopShape
<1> HIDE DEF id
<1>4. CASE GenOf(id) > replay.gen
      <2>1. replay' = Cross(replay, id) /\ DropHandle /\ attempts' = 0 /\ disk' = disk
            <3>1. ~(GenOf(id) < replay.gen)
                  BY <1>2, <1>4 DEF GenOf
            <3> QED BY <1>4, <3>1 DEF NewLedgerEvent, id
      <2>2. /\ Cross(replay, id) \in LoopShape /\ Cross(replay, id).st # "waiting"
            /\ LoopSound(Cross(replay, id), stream, tip, asked)
            BY <1>1, <1>2, Before, CrossSound
      <2> QED BY <2>1, <2>2, Before, DropStep
<1>5. CASE ~(GenOf(id) > replay.gen) /\ GenOf(id) < replay.gen /\ stream = "zswap"
      <2>1. GiveUp /\ disk' = disk /\ attempts' = attempts
            BY <1>5 DEF NewLedgerEvent, id
      <2> QED BY <2>1, Before, GivingUp
<1>6. CASE ~(GenOf(id) > replay.gen) /\ ~(GenOf(id) < replay.gen /\ stream = "zswap")
      <2>1. /\ stream = "dust" => GenOf(id) <= replay.gen
            /\ stream = "zswap" => GenOf(id) = replay.gen
            BY <1>2, <1>6 DEF GenOf
      <2> DEFINE consumed == Consume(replay, id)
                 kept     == IF CheckpointDue(consumed) THEN Flushed(consumed) ELSE consumed
      <2>2. /\ consumed \in LoopShape /\ LoopSound(consumed, stream, tip, asked)
            /\ consumed.last = id /\ consumed.since = 0 /\ consumed.st = "waiting"
            BY <1>1, <1>2, <2>1, ConsumeSound
      <2>3. /\ disk' = IF CheckpointDue(consumed)
                       THEN [applied |-> kept.applied, cursor |-> id, gen |-> kept.gen]
                       ELSE disk
            /\ attempts' = 0
            /\ \/ EndsAt(id, Taken.max) /\ replay' = Return(kept, "event") /\ DropHandle
               \/ replay' = kept /\ TakeItem
            BY <1>6 DEF NewLedgerEvent, id
      <2> HIDE DEF consumed
      <2>4. /\ kept \in LoopShape /\ LoopSound(kept, stream, tip, asked)
            /\ kept.last = id /\ kept.since = 0 /\ kept.st = "waiting"
            BY <2>2, FlushShape, FlushSound
      <2>5. CheckpointDue(consumed) => kept.batch = <<>>
            BY <2>2, FlushShape
      <2> HIDE DEF kept
      <2>6. StateSound(disk', stream, tip)
            <3>1. CASE CheckpointDue(consumed)
                  <4>1. /\ kept.applied \in Seq(1..MaxId) /\ kept.gen \in Gens
                        /\ kept.batch = <<>> /\ id \in 0..MaxId
                        BY <1>1, <2>4, <2>5, <3>1 DEF LoopShape
                  <4>2. kept.applied \o kept.batch = kept.applied
                        BY <4>1, ConcatNothing
                  <4>3. kept.applied = Complete(stream, kept.gen, id) /\ DustPlaced(stream, kept.gen, id, tip)
                        BY <2>4, <4>2 DEF LoopSound
                  <4>4. disk' = [applied |-> kept.applied, cursor |-> id, gen |-> kept.gen]
                        BY <2>3, <3>1
                  <4> QED BY <4>1, <4>3, <4>4 DEF StateSound
            <3>2. CASE ~CheckpointDue(consumed)
                  BY <2>3, <3>2, Before
            <3> QED BY <3>1, <3>2
      <2>7. CASE EndsAt(id, Taken.max) /\ replay' = Return(kept, "event") /\ DropHandle
            <3>1. kept.last >= asked
                  BY <1>1, <1>3, <2>4, <2>7 DEF EndsAt
            <3> QED BY <2>3, <2>4, <2>6, <2>7, <3>1, Before, Returning
      <2>8. CASE replay' = kept /\ TakeItem
            <3>1. replay.last <= replay'.last /\ Taken.id <= replay'.last
                  BY <1>1, <1>3, <2>4, <2>8 DEF id
            <3> QED BY <1>2, <2>3, <2>4, <2>6, <2>8, <3>1, Before, TakeStep
      <2> QED BY <2>3, <2>7, <2>8
<1> QED BY <1>4, <1>5, <1>6

(* An event of the ledger arrives. *)
LEMMA LedgerItemStep ==
    ASSUME ReplayInv, LedgerItem
    PROVE  ReplayInv'
<1>1. /\ IsLedger /\ NextItem /\ Taken.k = "event"
      /\ UNCHANGED <<stream, tip, next, mem, asked>>
      BY DEF LedgerItem
<1>2. /\ asked <= Taken.max /\ Taken.id <= Taken.max /\ asked \in Nat
      /\ Taken.max \in Nat /\ Taken.id \in Nat /\ replay.last \in Nat
      BY <1>1, HeadInStep, Before DEF Item, LoopShape
<1>3. CASE OrderRegression(Taken.id, replay)
      <2>1. GiveUp /\ UNCHANGED <<disk, attempts>>
            BY <1>3 DEF LedgerItem
      <2> QED BY <1>1, <2>1, Before, GivingUp
<1>4. CASE ~OrderRegression(Taken.id, replay) /\ Taken.max = 0
      <2>1. replay' = Return(replay, "empty") /\ DropHandle /\ UNCHANGED <<disk, attempts>>
            BY <1>4 DEF LedgerItem
      <2>2. replay.last >= asked
            BY <1>2, <1>4
      <2> QED BY <1>1, <2>1, <2>2, Before, Returning
<1>5. CASE ~OrderRegression(Taken.id, replay) /\ Taken.max > 0 /\ AlreadyApplied(Taken.id, replay)
      <2>1. /\ IF EndsAt(Taken.id, Taken.max)
               THEN replay' = Return(replay, "event") /\ DropHandle
               ELSE replay' = [Heard(replay) EXCEPT !.high = Taken.id] /\ TakeItem
            /\ UNCHANGED <<disk, attempts>>
            BY <1>2, <1>5 DEF LedgerItem
      <2>2. CASE EndsAt(Taken.id, Taken.max)
            <3>1. replay.last >= asked
                  BY <1>2, <1>5, <2>2 DEF EndsAt, AlreadyApplied
            <3> QED BY <1>1, <2>1, <2>2, <3>1, Before, Returning
      <2>3. CASE ~EndsAt(Taken.id, Taken.max)
            BY <1>1, <1>5, <2>1, <2>3, Skipping
      <2> QED BY <2>2, <2>3
<1>6. CASE ~OrderRegression(Taken.id, replay) /\ Taken.max > 0 /\ ~AlreadyApplied(Taken.id, replay)
      <2>1. NewLedgerEvent(Taken.id, Taken.max)
            BY <1>2, <1>6 DEF LedgerItem
      <2> QED BY <1>1, <1>6, <2>1, NewLedgerEventStep
<1> QED BY <1>2, <1>3, <1>4, <1>5, <1>6

(* An unshielded transaction arrives. *)
LEMMA TransactionItemStep ==
    ASSUME ReplayInv, TransactionItem
    PROVE  ReplayInv'
<1>1. /\ ~IsLedger /\ NextItem /\ Taken.k = "event" /\ stream = "unshielded"
      /\ UNCHANGED <<stream, tip, next, mem, disk, asked>>
      BY DEF TransactionItem, walletVars, IsLedger
<1>2. Taken.id \in Nat /\ Taken.id >= 1 /\ replay.last \in Nat /\ asked \in Nat
      BY <1>1, HeadInStep, Before DEF Item, LoopShape
<1>3. CASE OrderRegression(Taken.id, replay)
      <2>1. GiveUp /\ UNCHANGED attempts
            BY <1>3 DEF TransactionItem
      <2> QED BY <1>1, <2>1, Before, GivingUp
<1>4. CASE ~OrderRegression(Taken.id, replay) /\ AlreadyApplied(Taken.id, replay)
      <2>1. replay' = [Heard(replay) EXCEPT !.high = Taken.id] /\ TakeItem /\ UNCHANGED attempts
            BY <1>4 DEF TransactionItem
      <2> QED BY <1>1, <1>4, <2>1, Skipping
<1>5. CASE ~OrderRegression(Taken.id, replay) /\ ~AlreadyApplied(Taken.id, replay)
      <2> DEFINE consumed == Consume(replay, Taken.id)
      <2>1. /\ attempts' = 0
            /\ IF replay.target # -1 /\ Taken.id >= replay.target
               THEN replay' = Return(consumed, "event") /\ DropHandle
               ELSE replay' = consumed /\ TakeItem
            BY <1>5 DEF TransactionItem
      <2>2. Taken.id \in 1..MaxId /\ Taken.id = replay.last + 1
            BY <1>1, <1>2, <1>5, NewIsNext
      <2>3. /\ consumed \in LoopShape /\ LoopSound(consumed, stream, tip, asked)
            /\ consumed.last = Taken.id /\ consumed.since = 0 /\ consumed.st = "waiting"
            <3>1. replay \in LoopShape /\ LoopSound(replay, stream, tip, asked) /\ replay.st = "waiting"
                  /\ stream \in Streams
                  BY <1>1, Before DEF NextItem
            <3> QED BY <1>1, <2>2, <3>1, ConsumeSound
      <2> HIDE DEF consumed
      <2>4. CASE replay.target # -1 /\ Taken.id >= replay.target
            <3>1. asked <= replay.target /\ replay.target \in Int
                  BY <2>4, Before DEF LoopSound, LoopShape
            <3>2. consumed.last >= asked
                  BY <1>2, <2>3, <2>4, <3>1
            <3> QED BY <1>1, <2>1, <2>3, <2>4, <3>2, Before, Returning
      <2>5. CASE ~(replay.target # -1 /\ Taken.id >= replay.target)
            <3>1. replay' = consumed /\ TakeItem
                  BY <2>1, <2>5
            <3>2. replay.last <= replay'.last /\ Taken.id <= replay'.last
                  BY <1>2, <2>2, <2>3, <3>1
            <3> QED BY <1>1, <2>1, <2>3, <3>1, <3>2, Before, TakeStep
      <2> QED BY <2>4, <2>5
<1> QED BY <1>3, <1>4, <1>5

(* The announcement of the largest transaction arrives. *)
LEMMA ProgressItemStep ==
    ASSUME ReplayInv, ProgressItem
    PROVE  ReplayInv'
<1>1. /\ NextItem /\ Taken.k = "progress" /\ attempts' = 0
      /\ UNCHANGED <<stream, tip, next, mem, disk, asked>>
      BY DEF ProgressItem, walletVars
<1>2. asked <= Taken.max /\ Taken.max \in 0..MaxId /\ asked \in Nat /\ replay.last \in Nat
      BY <1>1, HeadInStep, Before DEF Item, LoopShape
<1>3. CASE Taken.max = 0 \/ replay.last >= Taken.max
      <2>1. replay' = Return(replay, "event") /\ DropHandle
            BY <1>3 DEF ProgressItem
      <2>2. replay.last >= asked
            BY <1>2, <1>3, Before
      <2> QED BY <1>1, <2>1, <2>2, Before, Returning
<1>4. CASE ~(Taken.max = 0 \/ replay.last >= Taken.max)
      <2>1. replay' = [Heard(replay) EXCEPT !.retries = 0, !.target = Taken.max] /\ TakeItem
            BY <1>4 DEF ProgressItem
      <2>2. replay \in LoopShape /\ replay.st = "waiting" /\ 0 \in 0..3
            BY <1>1, Before DEF NextItem
      <2>3. 0 \in 0..MaxRetries /\ Taken.max \in (-1)..MaxId
            BY <1>2, ReplayAssumption
      <2> DEFINE heard == Heard(replay)
      <2>4. /\ heard \in LoopShape /\ heard.st = "waiting" /\ heard.since = 0
            /\ heard.start = replay.start /\ heard.chain = replay.chain
            /\ heard.gen = replay.gen /\ heard.last = replay.last
            /\ heard.count = replay.count /\ heard.applied = replay.applied
            /\ heard.batch = replay.batch
            BY <2>2 DEF Heard, LoopShape
      <2> HIDE DEF heard
      <2>5. replay' = Aiming(heard, 0, Taken.max)
            BY <2>1 DEF heard, Aiming
      <2>6. /\ replay' \in LoopShape /\ replay'.st = "waiting" /\ replay'.since = 0
            /\ replay'.start = replay.start /\ replay'.chain = replay.chain
            /\ replay'.gen = replay.gen /\ replay'.last = replay.last
            /\ replay'.count = replay.count /\ replay'.applied = replay.applied
            /\ replay'.batch = replay.batch /\ replay'.target = Taken.max
            BY <2>3, <2>4, <2>5, WithTarget
      <2>7. LoopSound(replay', stream, tip, asked)
            BY <1>2, <2>2, <2>6, Before, ResetSound
      <2>8. replay.last <= replay'.last
            BY <1>2, <2>6
      <2> QED BY <1>1, <2>1, <2>6, <2>7, <2>8, Before, TakeStep
<1> QED BY <1>3, <1>4

(* The event is malformed, or its consumer is gone. *)
LEMMA ReplayStopsStep ==
    ASSUME ReplayInv, ReplayStops
    PROVE  ReplayInv'
BY Before, GivingUp DEF ReplayStops, walletVars, historyVars

(* The caller takes the state over. *)
LEMMA CommitStep ==
    ASSUME ReplayInv, Commit
    PROVE  ReplayInv'
<1>1. /\ replay.st = "done" /\ replay' = NoLoop
      /\ UNCHANGED <<conn, queue, stream, tip, next, disk, asked, attempts>>
      /\ conn.st = "none" /\ queue = <<>>
      BY DEF Commit, historyVars, ReplayInv, PhaseSound
<1>2. NoLoop \in LoopShape /\ NoLoop.st = "idle" /\ LoopSound(NoLoop, stream, tip, asked)
      BY Before, NoLoopSound DEF NoLoop
<1>3. StateSound(mem', stream, tip)
      <2>1. CASE replay.gen > replay.chain
            BY <2>1, Before DEF Commit
      <2>2. CASE ~(replay.gen > replay.chain)
            <3>1. mem' = [applied |-> replay.applied, cursor |-> replay.last, gen |-> replay.chain]
                  BY <2>2 DEF Commit
            <3>2. /\ replay.applied \in Seq(1..MaxId) /\ replay.last \in 0..MaxId
                  /\ replay.chain \in Gens
                  BY Before DEF LoopShape
            <3>3. /\ replay.applied \o replay.batch = Complete(stream, replay.gen, replay.last)
                  /\ replay.batch = <<>>
                  /\ stream = "dust" => replay.gen = replay.chain
                  /\ DustPlaced(stream, replay.gen, replay.last, tip)
                  BY <1>1, Before DEF LoopSound
            <3>4. replay.applied \o <<>> = replay.applied
                  BY <3>2, ConcatNothing
            <3>5. replay.applied = Complete(stream, replay.chain, replay.last)
                  BY <3>3, <3>4 DEF Complete, From
            <3>6. DustPlaced(stream, replay.chain, replay.last, tip)
                  BY <3>3 DEF DustPlaced
            <3> QED BY <3>1, <3>2, <3>5, <3>6 DEF StateSound
      <2> QED BY <2>1, <2>2
<1>4. ShapeOK'
      BY <1>1, <1>2, Before DEF ShapeOK
<1>5. PhaseSound' /\ ClockSound'
      BY <1>1, <1>2 DEF PhaseSound, ClockSound
<1>6. PipeSound'
      <2>1. Pipe(conn', queue') = <<>>
            BY <1>1 DEF Pipe
      <2> QED BY <1>1, <1>2, <2>1, PipeEmpty DEF PipeSound
<1>7. LoopSound(replay', stream', tip', asked') /\ StateSound(mem', stream', tip') /\ StateSound(disk', stream', tip')
      BY <1>1, <1>2, <1>3, Before
<1> QED BY <1>4, <1>5, <1>6, <1>7 DEF ReplayInv

(* A save writes what is in memory. *)
LEMMA SaveStep ==
    ASSUME ReplayInv, Save
    PROVE  ReplayInv'
<1>1. /\ disk' = mem
      /\ UNCHANGED <<conn, queue, stream, tip, next, replay, mem, asked, attempts>>
      BY DEF Save, historyVars
<1>2. ShapeOK'
      BY <1>1, Before DEF ShapeOK
<1>3. PhaseSound' /\ ClockSound' /\ PipeSound'
      BY <1>1 DEF ReplayInv, PhaseSound, ClockSound, PipeSound
<1>4. LoopSound(replay', stream', tip', asked') /\ StateSound(mem', stream', tip') /\ StateSound(disk', stream', tip')
      BY <1>1, Before
<1> QED BY <1>2, <1>3, <1>4 DEF ReplayInv

(* The process stops and loads the snapshot. *)
LEMMA RestartStep ==
    ASSUME ReplayInv, Restart
    PROVE  ReplayInv'
<1>1. NoLoop \in LoopShape /\ NoLoop.st = "idle" /\ LoopSound(NoLoop, stream, tip, asked)
      BY Before, NoLoopSound DEF NoLoop
<1> QED BY <1>1, Before, DropStep DEF Restart, walletVars, historyVars

-----------------------------------------------------------------------------
(* The theorems *)

(* The invariant holds at the start. *)
LEMMA InitKeeps == Init => ReplayInv
<1> SUFFICES ASSUME Init PROVE ReplayInv
    OBVIOUS
<1> USE SubscriptionAssumption, ReplayAssumption
<1>1. /\ conn = At("none") /\ queue = <<>> /\ stream \in Streams /\ tip \in 0..MaxId /\ next = 1
      /\ replay = NoLoop /\ mem = NoState /\ disk = NoState /\ asked = 0 /\ attempts = 0
      BY DEF Init, SubInit
<1>2. conn \in Conn /\ conn.st = "none"
      BY <1>1, AtTyped
<1>3. 0 \in 0..tip
      BY <1>1
<1>4. NoLoop \in LoopShape /\ NoLoop.st = "idle" /\ LoopSound(NoLoop, stream, tip, 0)
      BY <1>1, <1>3, NoLoopSound DEF NoLoop
<1>5. ShapeOK
      <2>1. <<>> \in Seq(Item) /\ Len(<<>>) <= QueueSize
            OBVIOUS
      <2> QED BY <1>1, <1>2, <1>3, <1>4, <2>1 DEF ShapeOK
<1>6. PhaseSound /\ ClockSound
      BY <1>1, <1>2, <1>4 DEF PhaseSound, ClockSound
<1>7. PipeSound
      <2>1. Pipe(conn, queue) = <<>>
            BY <1>1, <1>2 DEF Pipe
      <2> QED BY <1>1, <1>4, <2>1, PipeEmpty DEF PipeSound
<1>8. StateSound(mem, stream, tip) /\ StateSound(disk, stream, tip)
      BY <1>1 DEF StateSound
<1> QED BY <1>1, <1>4, <1>5, <1>6, <1>7, <1>8 DEF ReplayInv

(* Every step keeps the invariant. *)
LEMMA StepKeeps == ReplayInv /\ [Next]_vars => ReplayInv'
<1> SUFFICES ASSUME ReplayInv, [Next]_vars PROVE ReplayInv'
    OBVIOUS
<1>1. CASE Task
      BY <1>1, SubscribeStep, SubscribeFailsStep, BackoffOverStep, StreamEndsStep, WaitTimesOutStep,
         ItemFailsStep, LedgerItemStep, TransactionItemStep, ProgressItemStep, CommitStep DEF Task
<1>2. CASE ReaderStep
      BY <1>2, ReaderKeeps
<1>3. CASE Tick
      BY <1>3, TickStep
<1>4. CASE Environment
      BY <1>4, SubscribedStep, SubscribeFailsStep, HandshakeWriteStep, ServerEventStep, ServerProgressStep,
         ServerOtherStep, NewEventStep, ReplayStopsStep, StartReplayStep, SaveStep, RestartStep
      DEF Environment
<1>5. CASE UNCHANGED vars
      <2>1. UNCHANGED <<conn, queue, stream, tip, next, replay, mem, disk, asked, attempts>>
            BY <1>5 DEF vars
      <2> QED BY <2>1 DEF ReplayInv, ShapeOK, PhaseSound, ClockSound, PipeSound
<1> QED BY <1>1, <1>2, <1>3, <1>4, <1>5 DEF Next

(* The replay, the wallet and what is on its way between the server and    *)
(* the replay stay sound: ReplayInv, for every stream, bound and fork.     *)
THEOREM ReplayIsSound == Spec => []ReplayInv
<1>1. Init => ReplayInv
      BY InitKeeps
<1>2. ReplayInv /\ [Next]_vars => ReplayInv'
      BY StepKeeps
<1> QED BY <1>1, <1>2, PTL DEF Spec

(* Every variable keeps its type, the sequences within their bounds: the   *)
(* channel its capacity, the batch REPLAY_BATCH, the state the events of   *)
(* the chain.                                                              *)
THEOREM TypeCorrect == Spec => []TypeOK
<1>1. ReplayInv => TypeOK
      <2> SUFFICES ASSUME ReplayInv PROVE TypeOK
          OBVIOUS
      <2> USE SubscriptionAssumption, ReplayAssumption
      <2>1. queue \in BoundedSeq(Item, QueueSize)
            BY Before, WithinBound
      <2>2. ASSUME NEW gen \in Gens, NEW to \in 0..MaxId
            PROVE  Complete(stream, gen, to) \in Seq(1..MaxId) /\ Len(Complete(stream, gen, to)) <= MaxId
            <3>1. From(stream, gen) \in 1..(MaxId + 1)
                  BY DEF From
            <3> DEFINE first == From(stream, gen)
            <3> HIDE DEF first
            <3>2. first \in 1..(MaxId + 1)
                  BY <3>1 DEF first
            <3>3. /\ Range1(first, to) \in Seq(1..MaxId)
                  /\ Len(Range1(first, to)) = IF to < first THEN 0 ELSE to - first + 1
                  BY <3>2, RangeShape
            <3>4. Len(Range1(first, to)) <= MaxId
                  BY <3>2, <3>3
            <3> QED BY <3>3, <3>4 DEF Complete, first
      <2>3. ASSUME NEW s, StateSound(s, stream, tip)
            PROVE  s \in State \cup {NoState}
            <3>1. CASE s = NoState
                  BY <3>1
            <3>2. CASE s # NoState
                  <4>1. /\ s \in [applied: Seq(1..MaxId), cursor: 0..MaxId, gen: Gens]
                        /\ s.applied = Complete(stream, s.gen, s.cursor)
                        BY <2>3, <3>2 DEF StateSound
                  <4>2. s.applied \in Seq(1..MaxId) /\ s.gen \in Gens /\ s.cursor \in 0..MaxId
                        BY <4>1
                  <4>3. Len(s.applied) <= MaxId
                        BY <2>2, <4>1, <4>2
                  <4>4. s.applied \in BoundedSeq(1..MaxId, MaxId)
                        BY <4>2, <4>3, WithinBound
                  <4> QED BY <4>1, <4>4 DEF State
            <3> QED BY <3>1, <3>2
      <2>4. replay \in Loop
            <3>1. replay \in LoopShape /\ LoopSound(replay, stream, tip, asked)
                  BY Before
            <3>2. /\ replay.applied \in Seq(1..MaxId) /\ replay.batch \in Seq(1..MaxId)
                  /\ replay.gen \in Gens /\ replay.last \in 0..MaxId
                  BY <3>1 DEF LoopShape
            <3>3. /\ replay.applied \o replay.batch = Complete(stream, replay.gen, replay.last)
                  /\ Len(replay.batch) < BatchSize
                  BY <3>1 DEF LoopSound
            <3>4. Len(replay.applied \o replay.batch) <= MaxId
                  BY <2>2, <3>2, <3>3
            <3>5. Len(replay.applied \o replay.batch) = Len(replay.applied) + Len(replay.batch)
                  BY <3>2
            <3>6. Len(replay.applied) \in Nat /\ Len(replay.batch) \in Nat
                  BY <3>2
            <3>7. Len(replay.applied) <= MaxId /\ Len(replay.batch) <= BatchSize
                  <4> DEFINE l == Len(replay.applied)
                             b == Len(replay.batch)
                  <4>1. l \in Nat /\ b \in Nat /\ l + b <= MaxId /\ b < BatchSize
                        BY <3>3, <3>4, <3>5, <3>6
                  <4> HIDE DEF l, b
                  <4>2. l <= MaxId /\ b <= BatchSize
                        BY <4>1
                  <4> QED BY <4>2 DEF l, b
            <3>8. /\ replay.applied \in BoundedSeq(1..MaxId, MaxId)
                  /\ replay.batch \in BoundedSeq(1..MaxId, BatchSize)
                  BY <3>2, <3>7, WithinBound
            <3> HIDE DEF SubscriptionAssumption, ReplayAssumption
            <3> QED BY <3>1, <3>8 DEF LoopShape, Loop
      <2> QED BY <2>1, <2>3, <2>4, Before DEF TypeOK, SubTypeOK
<1> QED BY <1>1, ReplayIsSound, PTL

(* In memory, in the snapshot and in a replay at work, a wallet holds      *)
(* every event up to its cursor exactly once and in order: whatever the    *)
(* server repeats, wherever a connection drops, and whichever checkpoint a *)
(* restart resumes from (already_applied, order_regression, the resume id  *)
(* of a reconnect, the flush before a checkpoint, the crossing).           *)
THEOREM NothingLostOrTwice == Spec => []EventsOnceInOrder
<1>1. ReplayInv => EventsOnceInOrder
      <2> SUFFICES ASSUME ReplayInv PROVE EventsOnceInOrder
          OBVIOUS
      <2>1. \A gen, to : Wanted(gen, to) = Complete(stream, gen, to)
            BY DEF Wanted, Complete, From
      <2>2. Whole(mem) /\ Whole(disk)
            BY <2>1, Before DEF Whole, StateSound
      <2>3. replay.applied \o replay.batch = Wanted(replay.gen, replay.last)
            BY <2>1, Before DEF LoopSound
      <2> QED BY <2>2, <2>3 DEF EventsOnceInOrder
<1> QED BY <1>1, ReplayIsSound, PTL

(* A replay that returns has every event the chain had when it began, or   *)
(* was a resume that took silence for the tip (the largest id of the       *)
(* server, the target that survives reconnects, at_tip).                   *)
THEOREM ReturnsCaughtUp == Spec => []CaughtUp
<1>1. ReplayInv => CaughtUp
      BY Before DEF CaughtUp, LoopSound
<1> QED BY <1>1, ReplayIsSound, PTL

(* A sync from genesis gives a stream up only under a live socket: the     *)
(* keepalive of the reader fires before the wait for an event does.        *)
THEOREM StallsAreTheServers == Spec => []StallHasLiveSocket
<1>1. ReplayInv => StallHasLiveSocket
      <2> SUFFICES ASSUME ReplayInv, TimedOut, ~replay.resuming
                   PROVE  conn.st = "reading" /\ conn.age < replay.since
          BY DEF StallHasLiveSocket
      <2>1. replay.st = "waiting" /\ queue = <<>> /\ conn.st # "ended" /\ replay.since >= 3
            BY DEF TimedOut, Waiting, EventTimeout
      <2>2. replay.since \in 0..3 /\ conn.age \in 0..3
            BY Before DEF LoopShape, Conn, IdleTimeout
      <2>3. conn.st \in {"reading", "sending"}
            BY <2>1 DEF ReplayInv, PhaseSound
      <2>4. /\ conn.st = "reading" => conn.age <= IdleTimeout \/ replay.since = 0
            /\ conn.st = "sending" => replay.since = 0
            BY <2>1 DEF ReplayInv, ClockSound
      <2> QED BY <2>1, <2>2, <2>3, <2>4 DEF IdleTimeout
<1> QED BY <1>1, ReplayIsSound, PTL
=============================================================================
