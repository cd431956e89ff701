-------------------------- MODULE WalletSyncProofs --------------------------
(***************************************************************************)
(* Calls of a wallet exclude each other, a wallet never vouches for a chain*)
(* that it has not replayed, and it neither loses a registration nor keeps *)
(* a forgotten one, for any number of callers, coins, chains, events and   *)
(* crashes, and whether or not saves fail.                                 *)
(*                                                                         *)
(* The second rests on the order of three steps.  A replacement pin is     *)
(* taken before the check, the check compares the old pin with the chain,  *)
(* and the replay comes after the check.  So a replacement pin of the      *)
(* present chain passed a check that found the old pin on this chain, with *)
(* no event of another in the state, or found no answer.  A pin of an      *)
(* earlier chain vouches for nothing any more.                             *)
(*                                                                         *)
(* The third rests on what a replay may do to the coins of its plan, which *)
(* is only to turn registrations into coins.                               *)
(***************************************************************************)
EXTENDS WalletSync, TLAPS

(***************************************************************************)
(* The invariant                                                           *)
(***************************************************************************)

(* A pin of the chain `p` marks the state `s`: it is of an earlier chain,  *)
(* or `s` is of no other chain, or a check passed without an answer.       *)
Marks(p, s) == p = chain.id => s.of \subseteq {chain.id} \/ unanswered

(* What a state names has been. *)
Past(s) == s.pin <= chain.id /\ \A i \in s.of : i <= chain.id

(* The locals of a call of `c` are those of its step, and its plan is what *)
(* the wallet still is.                                                    *)
CallOk(c, x) ==
    /\ x.step = "idle" => x = Idle
    /\ c \in Callers => x.run # "open"
    /\ c = Boot => x.step = "idle" \/ (x.run = "open" /\ x.step \notin {"plan", "pin"})
    /\ c \in Callers /\ x.step \in {"block", "replay", "commit"} => x.from = PlanOf(x.run, wallet)

(* What a replay of `x` reads and makes. *)
ReplayPins(x) ==
    /\ Past(x.from) /\ Marks(x.from.pin, x.from)
    /\ Past(x.state) /\ Marks(x.state.pin, x.state)
    /\ x.state.pin = x.from.pin

(* The replacement pin marks whatever it may end up on. *)
FreshMarks(c, x) ==
    /\ x.step \in {"replay", "commit"} \/ (x.step = "block" /\ x.run # "open")
            => Marks(x.fresh, x.from) /\ Marks(x.fresh, x.state)
    /\ c \in Callers =>
        /\ x.step \in {"replace", "check"} => x.pin = wallet.pin
        /\ (x.step = "plan" /\ x.run = "delta") \/ x.step = "pin" => Marks(x.fresh, wallet)
        /\ x.run = "rescan" => x.fresh = NoPin /\ x.step # "replace"
    /\ c = Boot =>
        /\ x.step = "check" => x.pin = disk.pin
        /\ x.step \in {"block", "replay", "commit"} /\ ~Discards(x.fresh, disk.pin)
               => Marks(x.fresh, disk)

CallPins(c, x) ==
    /\ x.pin <= chain.id /\ x.fresh <= chain.id
    /\ ReplayPins(x)
    /\ FreshMarks(c, x)

(* Whoever is in a call holds the mutex. *)
Held == \A c \in Callers : call[c].step # "idle" => c \in sync

(* A wallet is opened before it is called, and once. *)
Attached ==
    /\ up => call[Boot].step = "idle"
    /\ ~up => \A c \in Callers : call[c].step = "idle"

StatePins == \A s \in {wallet, disk} : Past(s) /\ Marks(s.pin, s)

SyncInv ==
    /\ TypeOK
    /\ Held
    /\ Attached
    /\ \A c \in Tasks : CallOk(c, call[c])
    /\ StatePins /\ \A c \in Tasks : CallPins(c, call[c])

(***************************************************************************)
(* Facts about the operators                                               *)
(***************************************************************************)

LEMMA IdleType == Empty \in State /\ Idle \in Call
  BY BoundAssumption DEF Empty, Idle, State, Call, Generations, Pins, NoPin, Steps, Runs

LEMMA PlanOfType ==
    ASSUME NEW run \in Runs, NEW w \in State
    PROVE  /\ PlanOf(run, w) \in State
           /\ PlanOf(run, w).pin = w.pin
           /\ run = "delta" => PlanOf(run, w) = w
           /\ run # "delta" => PlanOf(run, w).of = {}
  BY DEF PlanOf, RescanCoins, State, Generations

LEMMA AppliedType ==
    ASSUME NEW s \in State, NEW to \in Nat, chain \in Chain
    PROVE  /\ Applied(s, to) \in State
           /\ Applied(s, to).pin = s.pin
           /\ Applied(s, to).of = s.of \cup {chain.id}
  BY DEF Applied, State, Chain

LEMMA ChainGenType == ChainGen \in Generations
  BY DEF ChainGen, Generations

(***************************************************************************)
(* A step that moves one call and nothing else                             *)
(***************************************************************************)

Advances(c, next) ==
    /\ next \in Call
    /\ call' = [call EXCEPT ![c] = next]
    /\ sync' = sync \/ (next.step = "idle" /\ sync' = sync \ {c})
    /\ UNCHANGED <<chain, wallet, up, saveFailed, disk, crashes>>
    /\ UNCHANGED <<kept, found, dropped, rebuilt>>

LEMMA AdvancesInv ==
    ASSUME SyncInv, NEW c \in Tasks, NEW next, Advances(c, next),
           unanswered' \in BOOLEAN, unanswered => unanswered',
           call[c].step # "idle" \/ (c = Boot /\ ~up),
           CallOk(c, next),
           CallPins(c, call[c])'
    PROVE  SyncInv'
<1>1. call' \in [Tasks -> Call] /\ call'[c] = next /\ \A d \in Tasks : d # c => call'[d] = call[d]
  BY DEF SyncInv, TypeOK, Advances
<1>2. TypeOK'
  BY <1>1 DEF SyncInv, TypeOK, Advances
<1>3. Held'
  BY <1>1, BootAssumption DEF SyncInv, Held, Advances, Tasks
<1>4. Attached'
  BY <1>1, BootAssumption DEF SyncInv, Attached, Advances, Tasks
<1>5. ASSUME NEW d \in Tasks PROVE CallOk(d, call[d])'
  BY <1>1 DEF SyncInv, CallOk, Advances, PlanOf, RescanCoins
<1>6. StatePins' /\ \A d \in Tasks : CallPins(d, call[d])'
  <2>1. StatePins'
    BY DEF SyncInv, StatePins, Past, Marks, Advances
  <2>2. ASSUME NEW d \in Tasks, d # c PROVE CallPins(d, call[d])'
    <3>1. CallPins(d, call'[d])
      BY <1>1, <2>2 DEF SyncInv
    <3>2. QED
      BY <3>1 DEF CallPins, ReplayPins, FreshMarks, Past, Marks, Discards, Advances
  <2>3. QED
    BY <2>1, <2>2
<1>7. QED
  BY <1>2, <1>3, <1>4, <1>5, <1>6 DEF SyncInv

(* A step that is not the check. *)
Moves(c, next) ==
    /\ next \in Call
    /\ call' = [call EXCEPT ![c] = next]
    /\ sync' = sync \/ (next.step = "idle" /\ sync' = sync \ {c})
    /\ UNCHANGED <<chain, wallet, up, saveFailed, disk, crashes>>
    /\ UNCHANGED ghosts

LEMMA MovesInv ==
    ASSUME SyncInv, NEW c \in Tasks, NEW next, Moves(c, next),
           call[c].step # "idle" \/ (c = Boot /\ ~up),
           CallOk(c, next),
           CallPins(c, next)
    PROVE  SyncInv'
<1>1. Advances(c, next) /\ UNCHANGED <<chain, wallet, disk, unanswered>>
  BY DEF Moves, Advances, ghosts
<1>2. unanswered' \in BOOLEAN /\ (unanswered => unanswered') /\ call'[c] = next
  BY <1>1 DEF SyncInv, TypeOK, Advances
<1>3. CallPins(c, call'[c])
  BY <1>2
<1>4. CallPins(c, call[c])'
  BY <1>1, <1>3 DEF CallPins, ReplayPins, FreshMarks, Past, Marks, Discards
<1>5. QED
  BY <1>1, <1>2, <1>4, AdvancesInv

(* A call that returns or is dropped. *)
LEMMA LeaveInv ==
    ASSUME SyncInv, NEW c \in Tasks, call[c].step # "idle", Leave(c),
           UNCHANGED <<chain, wallet, up, saveFailed, disk, crashes>>,
           UNCHANGED ghosts
    PROVE  SyncInv'
<1>1. Moves(c, Idle)
  BY IdleType DEF Moves, Leave, Goto, Idle
<1>2. CallOk(c, Idle)
  BY DEF CallOk, Idle
<1>3. CallPins(c, Idle)
  BY DEF CallPins, ReplayPins, FreshMarks, Past, Marks, Idle, Empty, NoPin, SyncInv, TypeOK, Chain
<1>4. QED
  BY <1>1, <1>2, <1>3, MovesInv

(***************************************************************************)
(* The invariant, step by step: the pin, the plan, the replay              *)
(***************************************************************************)

(* What every step below reads of the call it moves. *)
LEMMA CallFacts ==
    ASSUME SyncInv, NEW c \in Tasks
    PROVE  /\ call[c] \in Call
           /\ CallOk(c, call[c])
           /\ CallPins(c, call[c]) /\ StatePins
           /\ chain.id \in 1..MaxChains
           /\ wallet \in State
           /\ disk \in State \cup {NoSnapshot}
           /\ disk.pin \in Pins
           /\ c \in Callers <=> c # Boot
<1>1. NoSnapshot.pin = NoPin
  BY DEF NoSnapshot, Empty
<1>2. NoPin \in Pins
  BY BoundAssumption DEF Pins, NoPin
<1>3. QED
  BY <1>1, <1>2, BootAssumption DEF SyncInv, TypeOK, Chain, State, Tasks

LEMMA TakePinInv ==
    ASSUME SyncInv, NEW c \in Tasks, TakePin(c)
    PROVE  SyncInv'
<1>1. PICK fresh \in {NoPin, chain.id} :
        IF call[c].run = "open"
        THEN Goto(c, [call[c] EXCEPT !.fresh = fresh, !.pin = disk.pin,
                                     !.step = IF disk.pin = NoPin THEN "block" ELSE "check"])
        ELSE Goto(c, [call[c] EXCEPT !.fresh = fresh, !.step = "check"])
  BY DEF TakePin
<1>2. fresh \in Pins
  BY CallFacts, BoundAssumption DEF Pins, NoPin
<1>3. CASE call[c].run = "open"
  <2> DEFINE next == [call[c] EXCEPT !.fresh = fresh, !.pin = disk.pin,
                                     !.step = IF disk.pin = NoPin THEN "block" ELSE "check"]
  <2>1. c = Boot
    BY <1>3, CallFacts DEF CallOk
  <2>2. Moves(c, next)
    BY <1>1, <1>2, <1>3, CallFacts DEF Moves, TakePin, Goto, Call, Steps
  <2>3. CallOk(c, next)
    BY <1>3, <2>1, CallFacts, BootAssumption DEF CallOk, Call
  <2>4. CallPins(c, next)
    <3>1. disk.pin <= chain.id
      BY CallFacts DEF StatePins, Past
    <3>2. QED
      <4>1. disk.of \subseteq Nat
        BY CallFacts DEF State, NoSnapshot, Empty
      <4>2. QED
        BY <1>2, <1>3, <2>1, <3>1, <4>1, CallFacts
        DEF CallPins, ReplayPins, FreshMarks, Past, Marks, Discards, Call, NoPin
  <2>5. QED
    BY <2>2, <2>3, <2>4, MovesInv DEF TakePin
<1>4. CASE call[c].run # "open"
  <2> DEFINE next == [call[c] EXCEPT !.fresh = fresh, !.step = "check"]
  <2>1. c # Boot
    BY <1>4, CallFacts DEF CallOk, TakePin
  <2>2. Moves(c, next)
    BY <1>1, <1>2, <1>4, CallFacts DEF Moves, TakePin, Goto, Call, Steps
  <2>3. CallOk(c, next)
    BY <2>1, CallFacts DEF CallOk, Call
  <2>4. CallPins(c, next)
    BY <2>1, CallFacts DEF TakePin, CallPins, ReplayPins, FreshMarks, Past, Marks, Call, NoPin
  <2>5. QED
    BY <2>2, <2>3, <2>4, MovesInv DEF TakePin
<1>5. QED
  BY <1>3, <1>4

(* The check: what it lets through has an old pin of the present chain, or *)
(* a replacement pin that is not, or goes on without an answer.            *)
LEMMA CheckPinInv ==
    ASSUME SyncInv, NEW c \in Tasks, CheckPin(c)
    PROVE  SyncInv'
<1> DEFINE next == [call[c] EXCEPT !.step = IF call[c].run = "open" THEN "block" ELSE "plan"]
<1>1. c = Boot <=> call[c].run = "open"
  BY CallFacts DEF CallOk, CheckPin
<1>2. Advances(c, next)
  BY CallFacts DEF Advances, CheckPin, Goto, Call, Steps, SyncInv, TypeOK
<1>3. CallOk(c, next)
  BY <1>1, CallFacts DEF CallOk, Call, CheckPin
<1>4. call[c].fresh = chain.id => call[c].pin = chain.id \/ call[c].run = "genesis" \/ unanswered'
  BY DEF CheckPin, PinHolds
<1>5. /\ next \in Call /\ next.step = IF c = Boot THEN "block" ELSE "plan"
      /\ next.run = call[c].run /\ next.pin = call[c].pin /\ next.fresh = call[c].fresh
      /\ next.from = call[c].from /\ next.state = call[c].state
  BY <1>1, <1>2, CallFacts DEF Call, Advances
<1>6. /\ call'[c] = next /\ UNCHANGED <<chain, wallet, disk>>
      /\ unanswered' \in BOOLEAN /\ (unanswered => unanswered')
  <2>1. call'[c] = next /\ UNCHANGED <<chain, wallet, disk>>
    BY <1>2 DEF SyncInv, TypeOK, Advances
  <2>2. unanswered \in BOOLEAN
    BY DEF SyncInv, TypeOK
  <2>3. unanswered' = unanswered \/ unanswered' = (unanswered \/ call[c].fresh = chain.id)
    BY DEF CheckPin
  <2>4. unanswered' \in BOOLEAN /\ (unanswered => unanswered')
    BY <2>2, <2>3, Zenon
  <2>5. QED
    BY <2>1, <2>4
<1> HIDE DEF next
<1>7. CallPins(c, call[c]) /\ StatePins
  BY CallFacts
<1>8. CallPins(c, call[c])'
  <2>1. ReplayPins(call[c])'
    BY <1>5, <1>6, <1>7 DEF CallPins, ReplayPins, Past, Marks
  <2>2. /\ c = Boot => Marks(call[c].fresh, disk)'
        /\ c # Boot /\ call[c].run # "genesis" => Marks(call[c].fresh, wallet)'
    <3>1. c = Boot => call[c].pin = disk.pin
      BY <1>7, CallFacts DEF CallPins, FreshMarks, CheckPin
    <3>2. c # Boot => call[c].pin = wallet.pin
      BY <1>7, CallFacts DEF CallPins, FreshMarks, CheckPin
    <3>3. c = Boot => call[c].run # "genesis"
      BY <1>1
    <3>4. Marks(disk.pin, disk) /\ Marks(wallet.pin, wallet)
      BY <1>7 DEF StatePins
    <3>5. call'[c].fresh = call[c].fresh
      BY <1>5, <1>6
    <3>6. QED
      BY <1>4, <1>6, <3>1, <3>2, <3>3, <3>4, <3>5 DEF Marks
  <2>3. FreshMarks(c, call[c])'
    BY <1>1, <1>5, <1>6, <1>7, <2>2, CallFacts DEF CallPins, FreshMarks, Marks, CheckPin
  <2>4. QED
    BY <1>5, <1>6, <1>7, <2>1, <2>3 DEF CallPins
<1>9. QED
  BY <1>2, <1>3, <1>6, <1>8, AdvancesInv DEF CheckPin

LEMMA PlanInv ==
    ASSUME SyncInv, NEW c \in Tasks, Plan(c)
    PROVE  SyncInv'
<1> DEFINE run == call[c].run
           from == PlanOf(run, wallet)
           next == [call[c] EXCEPT !.from = from, !.state = from, !.block = ChainGen,
                                   !.cross = run = "genesis",
                                   !.again = call[c].again /\ run = "rescan",
                                   !.step = IF run = "genesis" \/ (run = "delta" /\ wallet.gen = 8)
                                            THEN "block" ELSE "replay"]
<1>1. c \in Callers /\ run # "open"
  BY CallFacts DEF CallOk, Plan
<1>2. from \in State /\ from.pin = wallet.pin /\ (run = "delta" => from = wallet)
                     /\ (run # "delta" => from.of = {})
  BY CallFacts, PlanOfType DEF Call
<1> HIDE DEF from
<1>3. Moves(c, next)
  <2>1. (run = "genesis") \in BOOLEAN /\ (call[c].again /\ run = "rescan") \in BOOLEAN
    OBVIOUS
  <2>2. next \in Call
    BY <1>2, <2>1, CallFacts, ChainGenType DEF Call, Steps
  <2>3. Goto(c, next) /\ sync' = sync
    BY DEF Plan, from
  <2>4. QED
    BY <2>2, <2>3 DEF Moves, Plan, Goto
<1>4. CallOk(c, next)
  BY <1>1, CallFacts DEF CallOk, Call, from
<1>5. CallPins(c, next)
  <2>1. Past(from) /\ Marks(from.pin, from)
    BY <1>2, CallFacts DEF StatePins, Past, Marks
  <2>2. Marks(call[c].fresh, from)
    BY <1>1, <1>2, CallFacts DEF Plan, CallPins, FreshMarks, Marks
  <2>3. QED
    BY <1>1, <2>1, <2>2, CallFacts DEF CallPins, ReplayPins, FreshMarks, Call
<1>6. QED
  BY <1>3, <1>4, <1>5, MovesInv DEF Plan

LEMMA ReadBlockInv ==
    ASSUME SyncInv, NEW c \in Tasks, ReadBlock(c)
    PROVE  SyncInv'
<1> DEFINE from == IF call[c].run = "open" THEN Loaded(c) ELSE call[c].from
           next == [call[c] EXCEPT !.from = from, !.state = from, !.block = ChainGen,
                                   !.cross = call[c].cross \/ call[c].run = "open" \/ ChainGen = 9,
                                   !.step = "replay"]
<1>1. c = Boot <=> call[c].run = "open"
  BY CallFacts DEF CallOk, ReadBlock
<1>2. from \in State
  BY CallFacts, IdleType DEF Call, Loaded
<1>3. c \in Callers => from = call[c].from
  BY <1>1, CallFacts
<1>4. Past(from) /\ Marks(from.pin, from) /\ Marks(call[c].fresh, from)
  <2>1. CASE c \in Callers
    BY <1>1, <1>3, <2>1, CallFacts DEF CallPins, ReplayPins, FreshMarks, ReadBlock
  <2>2. CASE c = Boot /\ from = Empty
    BY <2>2, CallFacts DEF Empty, Past, Marks, NoPin
  <2>3. CASE c = Boot /\ from # Empty
    <3>1. from = disk /\ ~Discards(call[c].fresh, disk.pin)
      BY <1>1, <2>3 DEF Loaded
    <3>2. QED
      BY <2>3, <3>1, CallFacts DEF CallPins, FreshMarks, StatePins, ReadBlock
  <2>4. QED
    BY <2>1, <2>2, <2>3, CallFacts
<1> HIDE DEF from
<1>5. Moves(c, next)
  BY <1>2, CallFacts, ChainGenType DEF Moves, ReadBlock, Goto, Call, Steps, from
<1>6. CallOk(c, next)
  BY <1>1, <1>3, CallFacts DEF CallOk, Call, ReadBlock
<1>7. CallPins(c, next)
  BY <1>4, CallFacts DEF CallPins, ReplayPins, FreshMarks, Call, ReadBlock
<1>8. QED
  BY <1>5, <1>6, <1>7, MovesInv DEF ReadBlock

LEMMA ReplayInv ==
    ASSUME SyncInv, NEW c \in Tasks, Replay(c)
    PROVE  SyncInv'
<1>1. PICK to \in (call[c].state.cursor + 1)..chain.tip :
        Goto(c, [call[c] EXCEPT !.state = Applied(call[c].state, to)])
  BY DEF Replay
<1> DEFINE state == Applied(call[c].state, to)
           next  == [call[c] EXCEPT !.state = state]
<1>2. chain \in Chain /\ call[c].state \in State /\ to \in Nat
  <2>1. chain \in Chain /\ call[c].state \in State
    BY CallFacts DEF SyncInv, TypeOK, Call
  <2>2. QED
    BY <1>1, <2>1 DEF Chain, State
<1>3. /\ state \in State
      /\ state.pin = call[c].state.pin
      /\ state.of = call[c].state.of \cup {chain.id}
  BY <1>2, AppliedType
<1> HIDE DEF state
<1>4. Moves(c, next)
  BY <1>1, <1>3, CallFacts DEF Moves, Replay, Call, Goto, state
<1>5. CallOk(c, next)
  BY CallFacts DEF CallOk, Call, Replay
<1>6. CallPins(c, next)
  <2>1. call[c].fresh <= chain.id /\ call[c].state.pin <= chain.id /\ chain.id \in Nat
    BY CallFacts DEF CallPins, ReplayPins, Past
  <2>2. Past(state) /\ Marks(state.pin, state)
    BY <1>3, <2>1, CallFacts DEF CallPins, ReplayPins, Past, Marks
  <2>3. Marks(call[c].fresh, state)
    BY <1>3, <2>1, CallFacts DEF CallPins, FreshMarks, Marks, Replay
  <2>4. QED
    BY <1>3, <2>2, <2>3, CallFacts DEF CallPins, ReplayPins, FreshMarks, Call, Replay
<1>7. QED
  BY <1>4, <1>5, <1>6, MovesInv DEF Replay

(* The state of a replay in another generation, or a stop in front of the  *)
(* commit: the pins are as they were.                                      *)
LEMMA InGenerationInv ==
    ASSUME SyncInv, NEW c \in Tasks, call[c].step = "replay",
           NEW gen \in Generations, NEW step \in {"replay", "commit"},
           Goto(c, [call[c] EXCEPT !.state = [call[c].state EXCEPT !.gen = gen], !.step = step]),
           UNCHANGED <<chain, wallet, up, saveFailed, disk, sync, crashes>>,
           UNCHANGED ghosts
    PROVE  SyncInv'
<1> DEFINE state == [call[c].state EXCEPT !.gen = gen]
           next  == [call[c] EXCEPT !.state = state, !.step = step]
<1>1. state \in State /\ state.pin = call[c].state.pin /\ state.of = call[c].state.of
  BY CallFacts DEF Call, State
<1> HIDE DEF state
<1>2. Moves(c, next)
  BY <1>1, CallFacts DEF Moves, Goto, Call, Steps, state
<1>3. CallOk(c, next)
  BY CallFacts DEF CallOk, Call
<1>4. CallPins(c, next)
  BY <1>1, CallFacts DEF CallPins, ReplayPins, FreshMarks, Past, Marks, Call
<1>5. QED
  BY <1>2, <1>3, <1>4, MovesInv

LEMMA StartOverInv ==
    ASSUME SyncInv, NEW c \in Tasks, call[c].step \in {"replay", "commit"}, StartOver(c),
           UNCHANGED <<chain, wallet, up, saveFailed, disk, crashes>>,
           UNCHANGED ghosts
    PROVE  SyncInv'
<1>1. CASE call[c].run = "delta"
  <2> DEFINE next == [call[c] EXCEPT !.cross = TRUE, !.step = "block"]
  <2>1. c \in Callers
    BY <1>1, CallFacts DEF CallOk
  <2>2. Moves(c, next)
    BY <1>1, CallFacts DEF StartOver, Moves, Goto, Call, Steps
  <2>3. CallOk(c, next)
    BY <1>1, <2>1, CallFacts DEF CallOk, Call
  <2>4. CallPins(c, next)
    BY <1>1, <2>1, CallFacts DEF CallPins, ReplayPins, FreshMarks, Call
  <2>5. QED
    BY <2>2, <2>3, <2>4, MovesInv
<1>2. CASE call[c].run # "delta" /\ call[c].again
  BY <1>2, LeaveInv DEF StartOver
<1>3. CASE call[c].run = "rescan" /\ ~call[c].again
  <2> DEFINE next == [call[c] EXCEPT !.run = "delta", !.rescan = TRUE, !.pin = wallet.pin,
                                     !.step = Entry("delta", wallet.pin)]
  <2>1. c \in Callers
    BY <1>3, CallFacts DEF CallOk
  <2>2. Entry("delta", wallet.pin) \in {"plan", "replace"}
    BY DEF Entry
  <2>3. wallet.pin \in Pins /\ wallet.of \subseteq Nat
    BY CallFacts DEF State
  <2>4. Moves(c, next)
    BY <1>3, <2>2, <2>3, CallFacts DEF StartOver, Moves, Goto, Call, Steps, Runs
  <2>5. CallOk(c, next)
    BY <1>3, <2>1, <2>2, CallFacts DEF CallOk, Call
  <2>6. CallPins(c, next)
    <3>1. call[c].fresh = NoPin /\ wallet.pin <= chain.id
      BY <1>3, <2>1, CallFacts DEF CallPins, FreshMarks, StatePins, Past
    <3>2. Marks(NoPin, wallet)
      BY <2>3, CallFacts DEF Marks, NoPin
    <3>3. ReplayPins(next)
      BY CallFacts DEF CallPins, ReplayPins, Call
    <3>4. FreshMarks(c, next)
      BY <2>1, <2>2, <3>1, <3>2, CallFacts DEF FreshMarks, Call
    <3>5. QED
      BY <3>1, <3>3, <3>4, CallFacts DEF CallPins, Call
  <2>7. QED
    BY <2>4, <2>5, <2>6, MovesInv
<1>4. CASE call[c].run \notin {"delta", "rescan"} /\ ~call[c].again
  <2> DEFINE next == [call[c] EXCEPT !.again = TRUE, !.step = "block"]
  <2>1. Moves(c, next)
    BY <1>4, CallFacts DEF StartOver, Moves, Goto, Call, Steps
  <2>2. CallOk(c, next)
    BY <1>4, CallFacts DEF CallOk, Call
  <2>3. CallPins(c, next)
    BY <1>4, CallFacts DEF CallPins, ReplayPins, FreshMarks, Call
  <2>4. QED
    BY <2>1, <2>2, <2>3, MovesInv
<1>5. QED
  BY <1>1, <1>2, <1>3, <1>4

LEMMA MeetLaterInv ==
    ASSUME SyncInv, NEW c \in Tasks, MeetLater(c)
    PROVE  SyncInv'
<1>1. CASE call[c].cross
  <2> DEFINE state == [call[c].state EXCEPT !.gen = 9]
  <2>1. [call[c] EXCEPT !.state = state] = [call[c] EXCEPT !.state = state, !.step = "replay"]
    <3> HIDE DEF state
    <3>1. QED
      BY CallFacts DEF MeetLater, Call
  <2>2. Goto(c, [call[c] EXCEPT !.state = state, !.step = "replay"])
    BY <1>1, <2>1 DEF MeetLater, Goto
  <2>3. QED
    BY <1>1, <2>2, InGenerationInv DEF MeetLater, Generations
<1>2. CASE ~call[c].cross
  BY <1>2, StartOverInv DEF MeetLater
<1>3. QED
  BY <1>1, <1>2

LEMMA MeetEarlierInv ==
    ASSUME SyncInv, NEW c \in Tasks, MeetEarlier(c)
    PROVE  SyncInv'
<1>1. CASE call[c].run = "rescan" /\ ~call[c].cross
  <2> DEFINE state == [call[c].from EXCEPT !.gen = 8]
             next  == [call[c] EXCEPT !.state = state, !.cross = TRUE]
  <2>1. state \in State /\ state.pin = call[c].from.pin /\ state.of = call[c].from.of
    BY CallFacts DEF Call, State, Generations
  <2> HIDE DEF state
  <2>2. Moves(c, next)
    BY <1>1, <2>1, CallFacts DEF MeetEarlier, Moves, Goto, Call, state
  <2>3. CallOk(c, next)
    BY CallFacts DEF CallOk, Call, MeetEarlier
  <2>4. CallPins(c, next)
    BY <2>1, CallFacts DEF CallPins, ReplayPins, FreshMarks, Past, Marks, Call, MeetEarlier
  <2>5. QED
    BY <2>2, <2>3, <2>4, MovesInv DEF MeetEarlier
<1>2. CASE ~(call[c].run = "rescan" /\ ~call[c].cross)
  BY <1>2, LeaveInv DEF MeetEarlier
<1>3. QED
  BY <1>1, <1>2

LEMMA EndReplayInv ==
    ASSUME SyncInv, NEW c \in Tasks, EndReplay(c)
    PROVE  SyncInv'
<1>1. PICK gen \in Generations : EndIn(c, gen) \/ (Leave(c) \/ StartOver(c))
  <2>1. /\ call[c].block \in Generations
        /\ call[c].from.gen \in Generations
        /\ 9 \in Generations
    BY CallFacts DEF Call, State, Generations
  <2>2. QED
    BY <2>1, ChainGenType DEF EndReplay
<1>2. CASE EndIn(c, gen)
  <2>1. Goto(c, [call[c] EXCEPT !.state = [call[c].state EXCEPT !.gen = gen], !.step = "commit"])
    BY <1>2, CallFacts DEF EndIn, Goto, Call, State
  <2>2. QED
    BY <1>2, <2>1, InGenerationInv DEF EndReplay, EndIn
<1>3. CASE Leave(c)
  BY <1>3, LeaveInv DEF EndReplay
<1>4. CASE StartOver(c)
  BY <1>4, StartOverInv DEF EndReplay
<1>5. QED
  BY <1>1, <1>2, <1>3, <1>4

(* The steps that end a call with an error. *)
LEMMA EndsInv ==
    ASSUME SyncInv, NEW c \in Tasks,
           ChainReplaced(c) \/ SnapshotTooNew(c) \/ ReplayFails(c) \/ Abort(c)
    PROVE  SyncInv'
<1>1. /\ call[c].step # "idle" /\ Leave(c)
      /\ UNCHANGED <<chain, wallet, up, saveFailed, disk, crashes>>
      /\ UNCHANGED ghosts
  BY DEF ChainReplaced, SnapshotTooNew, ReplayFails, Abort
<1>2. QED
  BY <1>1, LeaveInv

(***************************************************************************)
(* The invariant, step by step: what changes the wallet                    *)
(***************************************************************************)

(* A step of a caller that no other call runs beside. *)
Solo(c, next) ==
    /\ next \in Call
    /\ Goto(c, next)
    /\ wallet' \in State
    /\ disk' \in State \cup {NoSnapshot}
    /\ saveFailed' \in BOOLEAN
    /\ sync' \subseteq {c}
    /\ next.step # "idle" => c \in sync'
    /\ kept' \subseteq Coins /\ found' \subseteq Coins /\ dropped' \subseteq Coins
    /\ rebuilt' \in Pins
    /\ UNCHANGED <<chain, up, crashes, unanswered>>

(* The mutex keeps every other call out. *)
LEMMA Alone ==
    ASSUME SyncInv, NEW c \in Callers, call[c].step # "idle" \/ MayCall(c)
    PROVE  /\ up
           /\ sync \subseteq {c}
           /\ call[c].step # "idle" => sync = {c}
           /\ \A d \in Tasks : d # c => call[d] = Idle
<1>1. up
  BY DEF SyncInv, Attached, MayCall
<1>2. sync \subseteq {c} /\ (call[c].step # "idle" => sync = {c})
  BY DEF SyncInv, Held, TypeOK, MayCall, SyncFree
<1>3. \A d \in Tasks : d # c => call[d].step = "idle"
  BY <1>1, <1>2 DEF SyncInv, Held, Attached, Tasks
<1>4. QED
  BY <1>1, <1>2, <1>3 DEF SyncInv, CallOk

LEMMA SoloInv ==
    ASSUME SyncInv, NEW c \in Callers, NEW next, Solo(c, next),
           up, \A d \in Tasks : d # c => call[d] = Idle,
           CallOk(c, next), next.step \notin {"block", "replay", "commit"},
           StatePins' /\ CallPins(c, call[c])'
    PROVE  SyncInv'
<1>1. /\ call' \in [Tasks -> Call] /\ call'[c] = next
      /\ \A d \in Tasks : d # c => call'[d] = Idle
      /\ c # Boot /\ c \in Tasks /\ Boot \in Tasks
      /\ Idle.step = "idle"
  BY BootAssumption DEF SyncInv, TypeOK, Solo, Goto, Tasks, Idle
<1>2. TypeOK'
  BY <1>1 DEF SyncInv, TypeOK, Solo
<1>3. Held'
  BY <1>1 DEF Held, Solo, Tasks
<1>4. Attached'
  BY <1>1 DEF Attached, Solo
<1>5. ASSUME NEW d \in Tasks PROVE CallOk(d, call[d])'
  <2>1. CASE d = c
    BY <1>1, <2>1 DEF CallOk
  <2>2. CASE d # c
    BY <1>1, <2>2 DEF CallOk, Idle
  <2>3. QED
    BY <2>1, <2>2
<1>6. ASSUME NEW d \in Tasks PROVE CallPins(d, call[d])'
  <2>1. CASE d = c
    BY <1>1, <2>1
  <2>2. CASE d # c
    <3>1. call'[d] = Idle /\ chain'.id \in Nat /\ chain'.id >= 1
      BY <1>1, <2>2 DEF Solo, SyncInv, TypeOK, Chain
    <3>2. QED
      BY <3>1 DEF CallPins, ReplayPins, FreshMarks, Past, Marks, Idle, Empty, NoPin
  <2>3. QED
    BY <2>1, <2>2
<1>7. QED
  BY <1>2, <1>3, <1>4, <1>5, <1>6 DEF SyncInv

(* What the disk is after a save. *)
LEMMA PersistType ==
    ASSUME NEW w \in State, NEW changed, NEW ok \in BOOLEAN, Persist(w, changed, ok),
           SyncInv
    PROVE  /\ disk' \in {w, disk}
           /\ disk' \in State \cup {NoSnapshot}
           /\ saveFailed' \in BOOLEAN
  BY DEF Persist, SyncInv, TypeOK

(* A call that begins checks the pin that the wallet has. *)
LEMMA BeginFacts ==
    ASSUME SyncInv, NEW c \in Callers, MayCall(c), NEW run \in Runs \ {"open"},
           NEW coin \in SUBSET Coins, Begin(c, run, coin, wallet.pin)
    PROVE  \E next \in Call :
             /\ Goto(c, next) /\ call'[c] = next
             /\ CallOk(c, next)
             /\ next.step \in {"plan", "check", "replace"}
             /\ next.run = run /\ next.pin = wallet.pin /\ next.fresh = NoPin
             /\ next.from = Empty /\ next.state = Empty
             /\ run = "rescan" => next.step # "replace"
<1> DEFINE next == [call[c] EXCEPT !.run = run, !.coin = coin, !.pin = wallet.pin,
                                   !.step = Entry(run, wallet.pin)]
<1>1. c \in Tasks /\ c # Boot
  BY BootAssumption DEF Tasks
<1>2. call[c] = Idle
  BY <1>1, CallFacts DEF CallOk, MayCall
<1>3. wallet.pin \in Pins
  BY <1>1, CallFacts DEF State
<1>4. /\ Entry(run, wallet.pin) \in {"plan", "check", "replace"}
      /\ run = "rescan" => Entry(run, wallet.pin) # "replace"
  BY DEF Entry
<1>5. Idle.fresh = NoPin /\ Idle.from = Empty /\ Idle.state = Empty
  BY DEF Idle
<1>6. Goto(c, next) /\ call'[c] = next
  BY <1>1 DEF Begin, Goto, SyncInv, TypeOK
<1>7. /\ next \in Call
      /\ CallOk(c, next)
      /\ next.step \in {"plan", "check", "replace"}
      /\ next.run = run /\ next.pin = wallet.pin /\ next.fresh = NoPin
      /\ next.from = Empty /\ next.state = Empty
      /\ run = "rescan" => next.step # "replace"
  BY <1>1, <1>2, <1>3, <1>4, <1>5, IdleType DEF CallOk, Call, Steps
<1> HIDE DEF next
<1>8. QED
  BY <1>6, <1>7

(* Its pins, in a wallet that has the same pin and the same chains. *)
LEMMA BeginPins ==
    ASSUME SyncInv, NEW c \in Callers, NEW next \in Call,
           wallet' \in State, wallet'.pin = wallet.pin, wallet'.of = wallet.of,
           call'[c] = next, UNCHANGED <<chain, unanswered>>,
           disk' \in {wallet', disk},
           next.step \in {"idle", "plan", "check", "replace"},
           next.step # "idle" => next.pin = wallet.pin,
           next.pin = NoPin \/ next.pin = wallet.pin,
           next.run = "rescan" => next.step # "replace",
           next.fresh = NoPin /\ next.from = Empty /\ next.state = Empty
    PROVE  StatePins' /\ CallPins(c, call[c])'
<1>1. c \in Tasks /\ c # Boot /\ StatePins /\ chain.id \in Nat /\ chain.id # NoPin
  BY CallFacts, BootAssumption DEF Tasks, NoPin
<1>2. StatePins'
  BY <1>1 DEF StatePins, Past, Marks
<1>3. wallet'.of \subseteq Nat /\ wallet'.pin <= chain'.id
  BY <1>2 DEF State, StatePins, Past
<1>4. ReplayPins(call[c])'
  BY <1>1 DEF ReplayPins, Past, Marks, Empty, NoPin
<1>5. FreshMarks(c, call[c])'
  BY <1>1, <1>3 DEF FreshMarks, Marks, Empty
<1>6. next.pin <= chain'.id /\ next.fresh <= chain'.id
  BY <1>1, <1>3 DEF NoPin
<1>7. QED
  BY <1>2, <1>4, <1>5, <1>6 DEF CallPins

LEMMA StartSyncInv ==
    ASSUME SyncInv, NEW c \in Callers, StartSync(c)
    PROVE  SyncInv'
<1>1. PICK run \in Runs \ {"open"} : Begin(c, run, {}, wallet.pin)
  BY DEF StartSync
<1>2. MayCall(c)
  BY DEF StartSync
<1>3. PICK next \in Call :
        /\ Goto(c, next) /\ call'[c] = next
        /\ CallOk(c, next)
        /\ next.step \in {"plan", "check", "replace"}
        /\ next.pin = wallet.pin /\ next.fresh = NoPin
        /\ next.from = Empty /\ next.state = Empty
        /\ next.run = "rescan" => next.step # "replace"
  BY <1>1, <1>2, BeginFacts
<1>4. up /\ sync \subseteq {c} /\ \A d \in Tasks : d # c => call[d] = Idle
  BY <1>2, Alone
<1>5. Solo(c, next)
  BY <1>3, <1>4 DEF Solo, StartSync, ghosts, SyncInv, TypeOK
<1>6. StatePins' /\ CallPins(c, call[c])'
  <2>1. UNCHANGED <<chain, wallet, disk, unanswered>> /\ wallet' \in State
    BY <1>5 DEF StartSync, Solo
  <2>2. QED
    BY <1>3, <2>1, BeginPins
<1>7. QED
  BY <1>3, <1>4, <1>5, <1>6, SoloInv

LEMMA StartWatchInv ==
    ASSUME SyncInv, NEW c \in Callers, StartWatch(c)
    PROVE  SyncInv'
<1>1. PICK k \in Coins, ok \in BOOLEAN :
        /\ wallet' = [wallet EXCEPT !.regs = @ \cup {k}]
        /\ Persist(wallet', TRUE, ok)
        /\ dropped' = dropped \ {k}
        /\ IF ok
           THEN /\ Begin(c, "rescan", {k}, wallet.pin)
                /\ sync' = sync \cup {c}
                /\ kept' = kept \cup {k}
           ELSE UNCHANGED <<call, sync, kept>>
  BY DEF StartWatch
<1>2. MayCall(c) /\ c \in Tasks /\ c # Boot
  BY BootAssumption DEF StartWatch, Tasks
<1>3. up /\ sync \subseteq {c} /\ \A d \in Tasks : d # c => call[d] = Idle
  BY <1>2, Alone
<1>4. wallet' \in State /\ wallet'.pin = wallet.pin /\ wallet'.of = wallet.of
  BY <1>1, <1>2, CallFacts DEF State
<1>5. disk' \in {wallet', disk} /\ disk' \in State \cup {NoSnapshot} /\ saveFailed' \in BOOLEAN
  BY <1>1, <1>4, PersistType
<1>6. UNCHANGED <<chain, up, crashes, found, rebuilt, unanswered>>
  BY DEF StartWatch
<1>7. CASE ok
  <2>1. PICK next \in Call :
          /\ Goto(c, next) /\ call'[c] = next
          /\ CallOk(c, next)
          /\ next.step \in {"plan", "check", "replace"}
          /\ next.pin = wallet.pin /\ next.fresh = NoPin
          /\ next.from = Empty /\ next.state = Empty
          /\ next.run = "rescan" => next.step # "replace"
    <3>1. "rescan" \in Runs \ {"open"} /\ {k} \in SUBSET Coins
      BY DEF Runs
    <3>2. QED
      BY <1>1, <1>2, <1>7, <3>1, BeginFacts
  <2>2. Solo(c, next)
    BY <1>1, <1>3, <1>4, <1>5, <1>6, <1>7, <2>1 DEF Solo, SyncInv, TypeOK
  <2>3. StatePins' /\ CallPins(c, call[c])'
    BY <1>4, <1>5, <1>6, <2>1, BeginPins
  <2>4. QED
    BY <1>3, <2>1, <2>2, <2>3, SoloInv
<1>8. CASE ~ok
  <2>1. call[c] = Idle
    BY <1>2, CallFacts DEF CallOk, MayCall
  <2>2. Goto(c, Idle)
    BY <1>1, <1>2, <1>8, <2>1 DEF Goto, SyncInv, TypeOK
  <2>3. /\ Idle.step = "idle" /\ Idle.pin = NoPin /\ Idle.fresh = NoPin
        /\ Idle.from = Empty /\ Idle.state = Empty /\ Idle.run = "delta"
    BY DEF Idle
  <2>4. Solo(c, Idle)
    BY <1>1, <1>3, <1>4, <1>5, <1>6, <1>8, <2>2, <2>3, IdleType DEF Solo, SyncInv, TypeOK
  <2>5. StatePins' /\ CallPins(c, call[c])'
    <3>1. call'[c] = Idle
      BY <1>2, <2>2 DEF Goto, SyncInv, TypeOK
    <3>2. QED
      BY <1>4, <1>5, <1>6, <2>3, <3>1, IdleType, BeginPins
  <2>6. CallOk(c, Idle)
    BY <1>2, <2>3 DEF CallOk
  <2>7. QED
    BY <1>3, <2>3, <2>4, <2>5, <2>6, SoloInv
<1>9. QED
  BY <1>7, <1>8

LEMMA ForgetInv ==
    ASSUME SyncInv, NEW c \in Callers, Forget(c)
    PROVE  SyncInv'
<1>1. PICK k \in Coins, ok \in BOOLEAN :
        /\ wallet' = [wallet EXCEPT !.regs = @ \ {k}]
        /\ Persist(wallet', k \in wallet.regs, ok)
        /\ dropped' = IF ok /\ k \notin wallet.coins THEN dropped \cup {k} ELSE dropped
        /\ kept' = kept \ {k}
        /\ found' = found \ {k}
  BY DEF Forget
<1>2. MayCall(c) /\ c \in Tasks /\ c # Boot
  BY BootAssumption DEF Forget, Tasks
<1>3. up /\ sync \subseteq {c} /\ \A d \in Tasks : d # c => call[d] = Idle
  BY <1>2, Alone
<1>4. wallet' \in State /\ wallet'.pin = wallet.pin /\ wallet'.of = wallet.of
  BY <1>1, <1>2, CallFacts DEF State
<1>5. disk' \in {wallet', disk} /\ disk' \in State \cup {NoSnapshot} /\ saveFailed' \in BOOLEAN
  BY <1>1, <1>4, PersistType
<1>6. UNCHANGED <<chain, up, sync, call, crashes, rebuilt, unanswered>>
  BY DEF Forget
<1>7. call[c] = Idle
  BY <1>2, CallFacts DEF CallOk, MayCall
<1>8. Goto(c, Idle)
  BY <1>2, <1>6, <1>7 DEF Goto, SyncInv, TypeOK
<1>9. /\ Idle.step = "idle" /\ Idle.pin = NoPin /\ Idle.fresh = NoPin
      /\ Idle.from = Empty /\ Idle.state = Empty /\ Idle.run = "delta"
  BY DEF Idle
<1>10. Solo(c, Idle)
  BY <1>1, <1>3, <1>4, <1>5, <1>6, <1>8, <1>9, IdleType DEF Solo, SyncInv, TypeOK
<1>11. StatePins' /\ CallPins(c, call[c])'
  BY <1>4, <1>5, <1>6, <1>7, <1>9, IdleType, BeginPins
<1>12. CallOk(c, Idle)
  BY <1>2, <1>9 DEF CallOk
<1>13. QED
  BY <1>3, <1>9, <1>10, <1>11, <1>12, SoloInv

(* Where a call is when its resync or its rescan is done: at the plan of   *)
(* the rescan that waited, or back.                                        *)
LEMMA FinishFacts ==
    ASSUME SyncInv, NEW c \in Callers, call[c].step # "idle", Finish(c)
    PROVE  /\ \E next \in Call :
                /\ Goto(c, next) /\ call'[c] = next
                /\ CallOk(c, next)
                /\ next.step \in {"plan", "idle"}
                /\ next.step # "idle" => c \in sync'
                /\ \/ next = Idle
                   \/ /\ next.run = "rescan" /\ next.fresh = NoPin /\ next.pin = call[c].pin
                      /\ next.from = call[c].from /\ next.state = call[c].state
           /\ sync' \subseteq {c}
           /\ found' \subseteq Coins /\ rebuilt' \in Pins
<1>1. c \in Tasks /\ c # Boot /\ sync = {c} /\ call[c] \in Call
  BY BootAssumption, Alone, CallFacts DEF Tasks
<1>2. CASE call[c].rescan
  <2> DEFINE next == [call[c] EXCEPT !.run = "rescan", !.rescan = FALSE, !.again = TRUE,
                                     !.fresh = NoPin, !.step = "plan"]
  <2>1. Goto(c, next) /\ call'[c] = next /\ UNCHANGED <<sync, found, rebuilt>>
    BY <1>1, <1>2 DEF Finish, Goto, SyncInv, TypeOK
  <2>2. /\ next \in Call
        /\ next.step = "plan" /\ next.run = "rescan" /\ next.fresh = NoPin
        /\ next.pin = call[c].pin /\ next.from = call[c].from /\ next.state = call[c].state
    <3>1. NoPin \in Pins
      BY BoundAssumption DEF Pins, NoPin
    <3>2. next \in Call
      BY <1>1, <3>1 DEF Call, Steps, Runs
    <3>3. QED
      BY <1>1, <3>2 DEF Call
  <2> HIDE DEF next
  <2>3. CallOk(c, next)
    BY <1>1, <2>2 DEF CallOk
  <2>4. QED
    BY <1>1, <2>1, <2>2, <2>3 DEF SyncInv, TypeOK
<1>3. CASE ~call[c].rescan
  <2>1. Goto(c, Idle) /\ call'[c] = Idle /\ sync' = sync \ {c}
    BY <1>1, <1>3 DEF Finish, Leave, Goto, SyncInv, TypeOK
  <2>2. CallOk(c, Idle) /\ Idle.step = "idle"
    BY <1>1 DEF CallOk, Idle
  <2>3. found' \subseteq Coins
    BY <1>1, <1>3 DEF Finish, SyncInv, TypeOK, Call
  <2>4. rebuilt' \in Pins
    BY <1>1, <1>3, CallFacts DEF Finish, SyncInv, TypeOK, Pins, NoPin
  <2>5. QED
    BY <1>1, <2>1, <2>2, <2>3, <2>4, IdleType
<1>4. QED
  BY <1>2, <1>3

(* What is left of a call that did what it came for has pins to check      *)
(* against no state that this step changes.                                *)
LEMMA DonePins ==
    ASSUME SyncInv, NEW c \in Callers, NEW next \in Call,
           call'[c] = next, UNCHANGED <<chain, unanswered>>,
           \/ next = Idle
           \/ /\ next.run = "rescan" /\ next.fresh = NoPin /\ next.pin = call[c].pin
              /\ next.from = call[c].from /\ next.state = call[c].state
              /\ next.step = "plan"
    PROVE  CallPins(c, call[c])'
<1>1. c \in Tasks /\ c # Boot /\ CallPins(c, call[c]) /\ chain.id \in Nat
  BY CallFacts, BootAssumption DEF Tasks
<1>2. CASE next = Idle
  BY <1>1, <1>2 DEF CallPins, ReplayPins, FreshMarks, Past, Marks, Idle, Empty, NoPin
<1>3. CASE next # Idle
  <2>1. /\ next.run = "rescan" /\ next.fresh = NoPin /\ next.pin = call[c].pin
        /\ next.from = call[c].from /\ next.state = call[c].state
        /\ next.step = "plan"
    BY <1>3
  <2>2. ReplayPins(call[c])'
    BY <1>1, <2>1 DEF CallPins, ReplayPins, Past, Marks
  <2>3. FreshMarks(c, call[c])'
    BY <1>1, <2>1 DEF FreshMarks
  <2>4. QED
    BY <1>1, <2>1, <2>2, <2>3 DEF CallPins, NoPin
<1>4. QED
  BY <1>2, <1>3

(* A resync and a rescan put the pin on a state that it marks already: the *)
(* plan is what the wallet is, so its pin is the wallet's.                 *)
LEMMA CommittedFacts ==
    ASSUME SyncInv, NEW c \in Callers, call[c].step = "commit"
    PROVE  /\ Committed(c) \in State
           /\ Committed(c).pin = call[c].state.pin
           /\ Committed(c).of = call[c].state.of
<1>1. c \in Tasks /\ c # Boot /\ call[c] \in Call /\ wallet \in State
  BY CallFacts, BootAssumption DEF Tasks
<1>2. call[c].run \in {"delta", "rescan", "genesis"} /\ call[c].from = PlanOf(call[c].run, wallet)
  BY <1>1, CallFacts DEF CallOk, Call, Runs
<1>3. call[c].from.pin = wallet.pin
  BY <1>1, <1>2, PlanOfType DEF Runs
<1>4. call[c].state.pin = wallet.pin
  BY <1>1, <1>3, CallFacts DEF CallPins, ReplayPins
<1>5. call[c].state \in State /\ wallet.pin \in Pins
  BY <1>1 DEF Call, State
<1>6. QED
  BY <1>2, <1>4, <1>5 DEF Committed, State

LEMMA CommitInv ==
    ASSUME SyncInv, NEW c \in Tasks, Commit(c)
    PROVE  SyncInv'
<1>1. PICK ok \in BOOLEAN, moved \in BOOLEAN :
        /\ Persist(wallet', Changed(c, moved), ok)
        /\ IF ~ok THEN Leave(c) /\ UNCHANGED <<found, rebuilt>>
           ELSE IF call[c].fresh = NoPin THEN Finish(c)
           ELSE /\ Goto(c, [call[c] EXCEPT !.step = "pin"])
                /\ UNCHANGED <<sync, found, rebuilt>>
  BY DEF Commit
<1>2. /\ call[c].step = "commit" /\ call[c].run # "open" /\ wallet' = Committed(c)
      /\ UNCHANGED <<chain, up, crashes, kept, dropped, unanswered>>
  BY DEF Commit
<1>3. c \in Callers /\ c # Boot /\ call[c] \in Call
  BY <1>2, CallFacts DEF CallOk
<1>4. up /\ sync = {c} /\ \A d \in Tasks : d # c => call[d] = Idle
  BY <1>2, <1>3, Alone
<1>5. wallet' \in State
  BY <1>2, <1>3, CommittedFacts
<1>6. disk' \in {wallet', disk} /\ disk' \in State \cup {NoSnapshot} /\ saveFailed' \in BOOLEAN
  BY <1>1, <1>5, PersistType
<1>7. StatePins'
  <2>1. wallet'.pin = call[c].state.pin /\ wallet'.of = call[c].state.of
    BY <1>2, <1>3, CommittedFacts
  <2>2. Past(call[c].state) /\ Marks(call[c].state.pin, call[c].state) /\ StatePins
    BY CallFacts DEF CallPins, ReplayPins
  <2>3. QED
    BY <1>2, <1>6, <2>1, <2>2 DEF StatePins, Past, Marks
<1>8. CASE ~ok
  <2>1. Solo(c, Idle) /\ call'[c] = Idle
    BY <1>1, <1>2, <1>4, <1>5, <1>6, <1>8, IdleType
    DEF Solo, Leave, Goto, Idle, SyncInv, TypeOK
  <2>2. CallOk(c, Idle) /\ Idle.step = "idle"
    BY <1>3 DEF CallOk, Idle
  <2>3. CallPins(c, call[c])'
    BY <1>2, <1>3, <2>1, IdleType, DonePins
  <2>4. QED
    BY <1>3, <1>4, <1>7, <2>1, <2>2, <2>3, SoloInv
<1>9. CASE ok /\ call[c].fresh = NoPin
  <2>1. Finish(c)
    BY <1>1, <1>9
  <2>2. PICK next \in Call :
          /\ Goto(c, next) /\ call'[c] = next
          /\ CallOk(c, next)
          /\ next.step \in {"plan", "idle"}
          /\ next.step # "idle" => c \in sync'
          /\ \/ next = Idle
             \/ /\ next.run = "rescan" /\ next.fresh = NoPin /\ next.pin = call[c].pin
                /\ next.from = call[c].from /\ next.state = call[c].state
    BY <1>2, <1>3, <2>1, FinishFacts
  <2>3. sync' \subseteq {c} /\ found' \subseteq Coins /\ rebuilt' \in Pins
    BY <1>2, <1>3, <2>1, FinishFacts
  <2>4. Solo(c, next)
    BY <1>2, <1>5, <1>6, <2>2, <2>3 DEF Solo, SyncInv, TypeOK
  <2>5. next = Idle \/ next.step = "plan"
    BY <2>2, <1>3 DEF CallOk
  <2>6. CallPins(c, call[c])'
    BY <1>2, <1>3, <2>2, <2>5, DonePins
  <2>7. QED
    BY <1>3, <1>4, <1>7, <2>2, <2>4, <2>6, SoloInv
<1>10. CASE ok /\ call[c].fresh # NoPin
  <2> DEFINE next == [call[c] EXCEPT !.step = "pin"]
  <2>1. /\ Goto(c, next) /\ call'[c] = next
        /\ UNCHANGED <<sync, found, rebuilt>>
    BY <1>1, <1>3, <1>10 DEF Goto, SyncInv, TypeOK
  <2>2. /\ next \in Call /\ next.step = "pin" /\ next.run = call[c].run
        /\ next.pin = call[c].pin /\ next.fresh = call[c].fresh
        /\ next.from = call[c].from /\ next.state = call[c].state
    BY <1>3 DEF Call, Steps
  <2>3. PICK x \in Call : x = next
    BY <2>2
  <2> HIDE DEF next
  <2>4. Solo(c, x)
    BY <1>2, <1>4, <1>5, <1>6, <2>1, <2>2, <2>3 DEF Solo, SyncInv, TypeOK
  <2>5. CallOk(c, x)
    BY <1>2, <1>3, <2>2, <2>3 DEF CallOk
  <2>6. CallPins(c, call[c])'
    <3>1. CallPins(c, call[c]) /\ call'[c] = x
      BY <2>1, <2>3, CallFacts
    <3>2. ReplayPins(call[c])'
      BY <1>2, <2>2, <2>3, <3>1 DEF CallPins, ReplayPins, Past, Marks
    <3>3. Marks(call[c].fresh, wallet)'
      <4>1. wallet'.of = call[c].state.of /\ UNCHANGED <<chain, unanswered>>
        BY <1>2, <1>3, CommittedFacts
      <4>2. QED
        BY <1>2, <2>2, <2>3, <3>1, <4>1 DEF CallPins, FreshMarks, Marks
    <3>4. FreshMarks(c, call[c])'
      BY <1>3, <1>10, <2>2, <2>3, <3>1, <3>3 DEF CallPins, FreshMarks, Marks
    <3>5. QED
      BY <1>2, <2>2, <2>3, <3>1, <3>2, <3>4 DEF CallPins
  <2>7. QED
    BY <1>3, <1>4, <1>7, <2>2, <2>3, <2>4, <2>5, <2>6, SoloInv
<1>11. QED
  BY <1>8, <1>9, <1>10

LEMMA MovePinInv ==
    ASSUME SyncInv, NEW c \in Tasks, MovePin(c)
    PROVE  SyncInv'
<1>1. /\ call[c].step = "pin" /\ wallet' = [wallet EXCEPT !.pin = call[c].fresh]
      /\ Finish(c)
      /\ UNCHANGED <<chain, up, saveFailed, disk, crashes, kept, dropped, unanswered>>
  BY DEF MovePin
<1>2. c \in Callers /\ c # Boot /\ call[c] \in Call
  BY <1>1, CallFacts DEF CallOk
<1>3. up /\ sync = {c} /\ \A d \in Tasks : d # c => call[d] = Idle
  BY <1>1, <1>2, Alone
<1>4. wallet' \in State /\ wallet'.pin = call[c].fresh /\ wallet'.of = wallet.of
  BY <1>1, <1>2, CallFacts DEF State, Call
<1>5. StatePins'
  <2>1. Marks(call[c].fresh, wallet) /\ call[c].fresh <= chain.id /\ StatePins
    BY <1>1, <1>2, CallFacts DEF CallPins, FreshMarks
  <2>2. QED
    BY <1>1, <1>4, <2>1 DEF StatePins, Past, Marks
<1>6. PICK next \in Call :
        /\ Goto(c, next) /\ call'[c] = next
        /\ CallOk(c, next)
        /\ next.step \in {"plan", "idle"}
        /\ next.step # "idle" => c \in sync'
        /\ \/ next = Idle
           \/ /\ next.run = "rescan" /\ next.fresh = NoPin /\ next.pin = call[c].pin
              /\ next.from = call[c].from /\ next.state = call[c].state
  BY <1>1, <1>2, FinishFacts
<1>7. sync' \subseteq {c} /\ found' \subseteq Coins /\ rebuilt' \in Pins
  BY <1>1, <1>2, FinishFacts
<1>8. Solo(c, next)
  BY <1>1, <1>4, <1>6, <1>7 DEF Solo, SyncInv, TypeOK
<1>9. next = Idle \/ next.step = "plan"
  BY <1>2, <1>6 DEF CallOk
<1>10. CallPins(c, call[c])'
  BY <1>1, <1>2, <1>6, <1>9, DonePins
<1>11. QED
  BY <1>2, <1>3, <1>5, <1>6, <1>8, <1>10, SoloInv

(***************************************************************************)
(* The invariant, step by step: opening, dying, and the chain              *)
(***************************************************************************)

LEMMA StartOpenInv ==
    ASSUME SyncInv, StartOpen
    PROVE  SyncInv'
<1>1. PICK step \in {"replace", "block"} : Goto(Boot, [Idle EXCEPT !.run = "open", !.step = step])
  BY DEF StartOpen
<1> DEFINE next == [Idle EXCEPT !.run = "open", !.step = step]
<1>2. next \in Call
  BY IdleType DEF Call, Steps, Runs
<1>3. /\ next.run = "open" /\ next.step = step /\ next.fresh = NoPin /\ next.pin = NoPin
      /\ next.from = Empty /\ next.state = Empty
  BY DEF Idle
<1>4. Goto(Boot, next)
  BY <1>1
<1> HIDE DEF next
<1>5. Moves(Boot, next)
  BY <1>2, <1>4 DEF Moves, Goto, StartOpen
<1>6. Boot \in Tasks /\ Boot \notin Callers /\ chain.id \in Nat /\ chain.id >= 1
  BY BootAssumption DEF Tasks, SyncInv, TypeOK, Chain
<1>7. CallOk(Boot, next)
  BY <1>3, <1>6 DEF CallOk
<1>8. CallPins(Boot, next)
  <2>1. disk.of \subseteq Nat
    BY <1>6, CallFacts DEF State, NoSnapshot, Empty
  <2>2. QED
    BY <1>3, <1>6, <2>1 DEF CallPins, ReplayPins, FreshMarks, Past, Marks, Empty, NoPin
<1>9. QED
  BY <1>5, <1>6, <1>7, <1>8, MovesInv DEF StartOpen

(* What an opening sync saves: the replacement pin marks it. *)
LEMMA OpeningFacts ==
    ASSUME SyncInv, call[Boot].step = "commit"
    PROVE  /\ Boot \in Tasks /\ Boot \notin Callers
           /\ ~up /\ \A c \in Callers : call[c] = Idle
           /\ call[Boot].run = "open"
           /\ Committed(Boot) \in State
           /\ Past(Committed(Boot)) /\ Marks(Committed(Boot).pin, Committed(Boot))
           /\ Marks(call[Boot].fresh, Committed(Boot))
<1>1. Boot \in Tasks /\ Boot \notin Callers
  BY BootAssumption DEF Tasks
<1>2. ~up /\ \A c \in Callers : call[c] = Idle
  BY DEF SyncInv, Attached, CallOk, Tasks
<1>3. call[Boot].run = "open" /\ call[Boot] \in Call
  BY <1>1, CallFacts DEF CallOk
<1>4. Committed(Boot) \in State /\ Committed(Boot).of = call[Boot].state.of
  BY <1>3 DEF Committed, Call, State
<1>5. Committed(Boot).pin \in {call[Boot].fresh, call[Boot].state.pin}
  BY <1>3 DEF Committed, Call, State
<1>6. /\ Past(Committed(Boot)) /\ Marks(Committed(Boot).pin, Committed(Boot))
      /\ Marks(call[Boot].fresh, Committed(Boot))
  <2>1. CallPins(Boot, call[Boot])
    BY <1>1, CallFacts
  <2>2. QED
    BY <1>4, <1>5, <2>1 DEF CallPins, ReplayPins, FreshMarks, Past, Marks
<1>7. QED
  BY <1>1, <1>2, <1>3, <1>4, <1>6

LEMMA CheckpointInv ==
    ASSUME SyncInv, Checkpoint
    PROVE  SyncInv'
<1>1. /\ call[Boot].step = "commit" /\ disk' = Committed(Boot)
      /\ UNCHANGED <<chain, wallet, up, saveFailed, sync, call, crashes>>
      /\ UNCHANGED ghosts
  BY DEF Checkpoint
<1>2. TypeOK'
  BY <1>1, OpeningFacts DEF SyncInv, TypeOK, ghosts
<1>3. Held' /\ Attached' /\ \A c \in Tasks : CallOk(c, call[c])'
  BY <1>1 DEF SyncInv, Held, Attached, CallOk, PlanOf, RescanCoins
<1>4. StatePins' /\ \A c \in Tasks : CallPins(c, call[c])'
  <2>1. StatePins'
    BY <1>1, OpeningFacts DEF SyncInv, StatePins, Past, Marks, ghosts
  <2>2. ASSUME NEW c \in Tasks PROVE CallPins(c, call[c])'
    <3>1. CallPins(c, call[c])
      BY DEF SyncInv
    <3>2. CASE c = Boot
      BY <1>1, <3>1, <3>2, OpeningFacts DEF CallPins, ReplayPins, FreshMarks, Past, Marks, ghosts
    <3>3. CASE c # Boot
      BY <1>1, <3>1, <3>3 DEF CallPins, ReplayPins, FreshMarks, Past, Marks, ghosts
    <3>4. QED
      BY <3>2, <3>3
  <2>3. QED
    BY <2>1, <2>2
<1>5. QED
  BY <1>2, <1>3, <1>4 DEF SyncInv

(* Where every task is idle, the invariant is that of the states. *)
LEMMA IdleInv ==
    ASSUME TypeOK', \A c \in Tasks : call'[c] = Idle, StatePins'
    PROVE  SyncInv'
<1>1. Idle.step = "idle" /\ Idle.run = "delta"
  BY DEF Idle
<1>2. Held' /\ Attached' /\ \A c \in Tasks : CallOk(c, call[c])'
  BY <1>1, BootAssumption DEF Held, Attached, CallOk, Tasks
<1>3. ASSUME NEW c \in Tasks PROVE CallPins(c, call[c])'
  <2>1. call'[c] = Idle /\ chain'.id \in Nat /\ chain'.id >= 1
    BY DEF TypeOK, Chain
  <2>2. QED
    BY <2>1 DEF CallPins, ReplayPins, FreshMarks, Past, Marks, Idle, Empty, NoPin
<1>4. QED
  BY <1>2, <1>3 DEF SyncInv

LEMMA OpenInv ==
    ASSUME SyncInv, Open
    PROVE  SyncInv'
<1>1. /\ call[Boot].step = "commit"
      /\ disk' = Committed(Boot) /\ wallet' = Committed(Boot) /\ up' = TRUE
      /\ Leave(Boot)
      /\ UNCHANGED <<chain, saveFailed, crashes>>
      /\ UNCHANGED ghosts
  BY DEF Open
<1>2. call' \in [Tasks -> Call] /\ \A c \in Tasks : call'[c] = Idle
  BY <1>1, OpeningFacts, IdleType DEF Leave, Goto, SyncInv, TypeOK, Tasks
<1>3. TypeOK'
  BY <1>1, <1>2, OpeningFacts DEF SyncInv, TypeOK, ghosts, Leave
<1>4. StatePins'
  BY <1>1, OpeningFacts DEF StatePins, Past, Marks, ghosts
<1>5. QED
  BY <1>2, <1>3, <1>4, IdleInv

LEMMA CrashInv ==
    ASSUME SyncInv, Crash
    PROVE  SyncInv'
<1>1. /\ wallet' = Empty /\ call' = [c \in Tasks |-> Idle]
      /\ up' = FALSE /\ saveFailed' = FALSE /\ sync' = {} /\ crashes' = crashes + 1
      /\ UNCHANGED <<chain, disk>> /\ UNCHANGED ghosts
  BY DEF Crash
<1>2. TypeOK'
  <2>1. wallet' \in State /\ call' \in [Tasks -> Call] /\ crashes' \in Nat
    BY <1>1, IdleType DEF SyncInv, TypeOK
  <2>2. QED
    BY <1>1, <2>1 DEF SyncInv, TypeOK, ghosts
<1>3. StatePins'
  <2>1. chain.id \in Nat /\ StatePins
    BY DEF SyncInv, TypeOK, Chain
  <2>2. QED
    BY <1>1, <2>1 DEF StatePins, Past, Marks, Empty, NoPin, ghosts, SyncInv, TypeOK, Chain
<1>4. QED
  BY <1>1, <1>2, <1>3, IdleInv

(* The chain grows, forks, or is replaced by a later one, which forgets   *)
(* what went unanswered on the one before.                                 *)
LEMMA ChainInv ==
    ASSUME SyncInv, Emit \/ Fork \/ Swap
    PROVE  SyncInv'
<1>1. chain \in Chain /\ chain.tip \in Nat /\ chain.id \in 1..MaxChains
  BY DEF SyncInv, TypeOK, Chain
<1>2. /\ chain' \in Chain
      /\ \/ chain'.id = chain.id /\ unanswered' = unanswered
         \/ chain'.id > chain.id /\ unanswered' = FALSE
  <2>1. CASE Emit
    <3>1. PICK k \in SUBSET Coins :
            chain' = [chain EXCEPT !.tip = @ + 1,
                                   !.out = [c \in Coins |->
                                       IF c \in k THEN chain.tip + 1 ELSE @[c]]]
      BY <2>1, Zenon DEF Emit
    <3> DEFINE tip == chain.tip + 1
               out == [c \in Coins |-> IF c \in k THEN tip ELSE chain.out[c]]
    <3>2. tip \in Nat /\ out \in [Coins -> Nat]
      BY <1>1 DEF Chain
    <3>3. chain' = [chain EXCEPT !.tip = tip, !.out = out]
      BY <3>1
    <3> HIDE DEF tip, out
    <3>4. chain' \in Chain
      BY <1>1, <3>2, <3>3 DEF Chain
    <3>5. chain'.id = chain.id
      BY <1>1, <3>3 DEF Chain
    <3>6. QED
      BY <2>1, <3>4, <3>5 DEF Emit, ghosts
  <2>2. CASE Fork
    BY <1>1, <2>2 DEF Fork, Chain, ghosts
  <2>3. CASE Swap
    <3>1. PICK fork \in Nat \cup {NoFork} : chain' = NewChain(chain.id + 1, fork)
      BY <2>3 DEF Swap
    <3>2. chain.id + 1 \in 1..MaxChains
      BY <1>1, <2>3, BoundAssumption DEF Swap
    <3>3. QED
      BY <1>1, <2>3, <3>1, <3>2 DEF Swap, NewChain, Chain
  <2>4. QED
    BY <2>1, <2>2, <2>3
<1>3. /\ UNCHANGED <<wallet, up, saveFailed, disk, sync, call, crashes, kept, dropped>>
      /\ found' \in {found, {}} /\ rebuilt' \in {rebuilt, NoPin}
  BY DEF Emit, Fork, Swap, ghosts
<1>4. TypeOK'
  <2>1. unanswered' \in BOOLEAN
    BY <1>2 DEF SyncInv, TypeOK
  <2>2. QED
    BY <1>2, <1>3, <2>1, BoundAssumption DEF SyncInv, TypeOK, Pins, NoPin
<1>5. Held' /\ Attached' /\ \A c \in Tasks : CallOk(c, call[c])'
  BY <1>3 DEF SyncInv, Held, Attached, CallOk, PlanOf, RescanCoins
<1>6. chain.id \in Nat /\ chain'.id \in Nat
  BY <1>1, <1>2 DEF Chain
<1>7. StatePins' /\ \A c \in Tasks : CallPins(c, call[c])'
  <2>1. ASSUME NEW s \in State PROVE s.pin \in Nat /\ s.of \subseteq Nat
    BY <2>1, BoundAssumption DEF State, Pins, NoPin
  <2>2. NoSnapshot.pin \in Nat /\ NoSnapshot.of \subseteq Nat
    BY DEF NoSnapshot, Empty, NoPin
  <2>3. StatePins'
    <3>1. \A s \in {wallet, disk} : s.pin \in Nat /\ s.of \subseteq Nat
      BY <2>1, <2>2 DEF SyncInv, TypeOK
    <3>2. QED
      BY <1>2, <1>3, <1>6, <3>1 DEF SyncInv, StatePins, Past, Marks
  <2>4. ASSUME NEW c \in Tasks PROVE CallPins(c, call[c])'
    <3>1. CallPins(c, call[c]) /\ call[c] \in Call
      BY CallFacts
    <3>2. /\ call[c].pin \in Nat /\ call[c].fresh \in Nat
          /\ call[c].from \in State /\ call[c].state \in State
      BY <3>1, BoundAssumption DEF Call, Pins, NoPin
    <3>3. ReplayPins(call[c])'
      BY <1>2, <1>3, <1>6, <2>1, <3>1, <3>2 DEF CallPins, ReplayPins, Past, Marks
    <3>4. FreshMarks(c, call[c])'
      <4>1. CASE chain'.id = chain.id /\ unanswered' = unanswered
        BY <1>3, <3>1, <4>1 DEF CallPins, FreshMarks, Marks, Discards
      <4>2. CASE chain'.id > chain.id
        <5>1. call'[c].fresh # chain'.id /\ call'[c] = call[c]
          BY <1>3, <1>6, <3>1, <3>2, <4>2 DEF CallPins
        <5>2. QED
          BY <1>3, <3>1, <5>1 DEF CallPins, FreshMarks, Marks
      <4>3. QED
        BY <1>2, <4>1, <4>2
    <3>5. QED
      BY <1>2, <1>3, <1>6, <3>1, <3>2, <3>3, <3>4 DEF CallPins
  <2>5. QED
    BY <2>3, <2>4
<1>8. QED
  BY <1>4, <1>5, <1>7 DEF SyncInv

(***************************************************************************)
(* The theorems                                                            *)
(***************************************************************************)

LEMMA InitInv == Init => SyncInv
<1> SUFFICES ASSUME Init PROVE SyncInv
  OBVIOUS
<1>1. PICK fork \in Nat \cup {NoFork} : chain = NewChain(1, fork)
  BY DEF Init
<1>2. chain \in Chain /\ chain.id = 1
  BY <1>1, BoundAssumption DEF NewChain, Chain
<1>3. TypeOK
  <2>1. wallet \in State /\ call \in [Tasks -> Call] /\ rebuilt \in Pins
    BY IdleType, BoundAssumption DEF Init, Pins, NoPin
  <2>2. QED
    BY <1>2, <2>1 DEF Init, TypeOK
<1>4. Idle.step = "idle" /\ Idle.run = "delta" /\ \A c \in Tasks : call[c] = Idle
  BY DEF Idle, Init
<1>5. Held /\ Attached /\ \A c \in Tasks : CallOk(c, call[c])
  BY <1>4, BootAssumption DEF Init, Held, Attached, CallOk, Tasks
<1>6. StatePins
  BY <1>2 DEF Init, StatePins, Past, Marks, NoSnapshot, Empty, NoPin
<1>7. ASSUME NEW c \in Tasks PROVE CallPins(c, call[c])
  BY <1>2 DEF Init, CallPins, ReplayPins, FreshMarks, Past, Marks, Idle, Empty, NoPin
<1>8. QED
  BY <1>3, <1>5, <1>6, <1>7 DEF SyncInv

LEMMA StutterInv ==
    ASSUME SyncInv, UNCHANGED vars
    PROVE  SyncInv'
<1>1. TypeOK'
  BY DEF SyncInv, TypeOK, vars
<1>2. Held' /\ Attached' /\ \A c \in Tasks : CallOk(c, call[c])'
  BY DEF SyncInv, Held, Attached, CallOk, PlanOf, RescanCoins, vars
<1>3. StatePins' /\ \A c \in Tasks : CallPins(c, call[c])'
  BY DEF SyncInv, StatePins, CallPins, ReplayPins, FreshMarks, Past, Marks, Discards, vars
<1>4. QED
  BY <1>1, <1>2, <1>3 DEF SyncInv

LEMMA NextInv == SyncInv /\ [Next]_vars => SyncInv'
<1> SUFFICES ASSUME SyncInv, [Next]_vars PROVE SyncInv'
  OBVIOUS
<1>1. ASSUME NEW c \in Callers, StartSync(c) \/ StartWatch(c) \/ Forget(c) PROVE SyncInv'
  BY <1>1, StartSyncInv, StartWatchInv, ForgetInv
<1>2. CASE StartOpen \/ Checkpoint \/ Open
  BY <1>2, StartOpenInv, CheckpointInv, OpenInv
<1>3. ASSUME NEW c \in Tasks, Step(c) \/ Abort(c) PROVE SyncInv'
  <2>1. CASE TakePin(c) \/ CheckPin(c) \/ Plan(c) \/ ReadBlock(c) \/ Replay(c)
    BY <2>1, TakePinInv, CheckPinInv, PlanInv, ReadBlockInv, ReplayInv
  <2>2. CASE MeetLater(c) \/ MeetEarlier(c) \/ EndReplay(c)
    BY <2>2, MeetLaterInv, MeetEarlierInv, EndReplayInv
  <2>3. CASE DustIsLater(c)
    BY <2>3, StartOverInv DEF DustIsLater
  <2>4. CASE ChainReplaced(c) \/ SnapshotTooNew(c) \/ ReplayFails(c) \/ Abort(c)
    BY <2>4, EndsInv
  <2>5. CASE Commit(c) \/ MovePin(c)
    BY <2>5, CommitInv, MovePinInv
  <2>6. QED
    BY <1>3, <2>1, <2>2, <2>3, <2>4, <2>5 DEF Step
<1>4. CASE Environment
  BY <1>4, ChainInv, CrashInv DEF Environment
<1>5. CASE UNCHANGED vars
  BY <1>5, StutterInv
<1>6. QED
  BY <1>1, <1>2, <1>3, <1>4, <1>5 DEF Next

LEMMA Invariance == Spec => []SyncInv
  BY InitInv, NextInv, PTL DEF Spec

(* Every value that the wallet, the disk and a call hold is one that the   *)
(* code's types allow, and at most one caller holds the sync mutex.        *)
THEOREM TypeCorrect == Spec => []TypeOK
<1>1. SyncInv => TypeOK
  BY DEF SyncInv
<1>2. QED
  BY <1>1, Invariance, PTL

(* "callers must not change a registration between plan and commit"        *)
(* (commit_resync): the wallet of a call that replays is the one it planned*)
(* from, whoever else calls, and whatever the chain does meanwhile.        *)
THEOREM PlansStayCurrent == Spec => []PlanIsCurrent
<1>1. SyncInv => PlanIsCurrent
  BY DEF SyncInv, CallOk, PlanIsCurrent, Tasks
<1>2. QED
  BY <1>1, Invariance, PTL

(* The replacement pin is taken before the check, and the check before the *)
(* plan (LocalWallet::resync, WalletBuilder::sync): a state of a chain that*)
(* is gone carries the pin of the present chain, in memory or on disk, only*)
(* where a check of its old pin got no answer on the present chain.        *)
THEOREM ReplacedChainIsCaught == Spec => []SwapIsCaught
<1>1. SyncInv => SwapIsCaught
  BY DEF SyncInv, StatePins, Marks, SwapIsCaught, Alien
<1>2. QED
  BY <1>1, Invariance, PTL

(***************************************************************************)
(* What a wallet keeps of its coins                                        *)
(*                                                                         *)
(* A replay neither learns nor forgets a coin: it only turns registrations *)
(* into coins.  So what a wallet knows of is what its calls made it, and a *)
(* state that starts at the first event and knows of a coin holds it once  *)
(* it has passed the coin's output.                                        *)
(***************************************************************************)

(* A state names chains that have been, and reaches no further on the      *)
(* present chain than that chain does.                                     *)
Fits(s) ==
    /\ \A i \in s.of : i <= chain.id
    /\ s.of = {} => s.cursor = 0
    /\ s.of \subseteq {chain.id} => s.cursor <= chain.tip

(* A state of the present chain holds each coin of `sought` whose output it*)
(* has passed.                                                             *)
Sees(s, sought) ==
    s.of \subseteq {chain.id} =>
        \A k \in sought : chain.out[k] \in 1..s.cursor => k \in s.coins

(* No opening sync drops the snapshot of a wallet that was called: every   *)
(* snapshot is pinned, or none is opened a second time.                    *)
Durable == Unpinned => MaxCrashes = 0

(* A state knows of no coin that was forgotten, of each whose registration *)
(* a save took, and misses none of `sought`.                               *)
Holds(s, sought) ==
    /\ dropped \cap RescanCoins(s) = {}
    /\ Durable => kept \subseteq RescanCoins(s) /\ Sees(s, sought)

(* The coins that a call must not miss. *)
Sought(x) == found \cup (IF x.run = "rescan" THEN x.coin ELSE {})

Replaying(x) == x.step \in {"replay", "commit"}

(* An opening sync has a snapshot, or a pin for the one it writes. *)
CallPinned(c, x) ==
    /\ x.step = "pin" => x.fresh # NoPin
    /\ c = Boot =>
         /\ x.step \in {"check", "block", "replay", "commit"}
                => x.fresh # NoPin \/ disk # NoSnapshot
         /\ Replaying(x) => x.fresh # NoPin \/ x.from.pin # NoPin

(* A resync goes on from the wallet's cursor.  A rescan and a rebuild start*)
(* over, and are committed only from the tip on.                           *)
KeepsPlace(x) ==
    /\ Replaying(x) /\ x.run = "delta" => x.from.cursor <= x.state.cursor
    /\ x.step = "commit" /\ x.run # "open" /\ wallet.of \subseteq {chain.id}
           => wallet.cursor <= x.state.cursor

CallHolds(c, x) ==
    /\ Fits(x.from) /\ Fits(x.state)
    /\ x.coin \subseteq kept
    /\ x.run = "rescan" => x.fresh = NoPin /\ x.step \notin {"replace", "pin"}
    /\ Replaying(x) =>
         /\ Holds(x.from, Sought(x)) /\ Holds(x.state, Sought(x))
         /\ RescanCoins(x.state) = RescanCoins(x.from)
         /\ x.state.pin = x.from.pin
    /\ ~Unpinned => CallPinned(c, x)
    /\ KeepsPlace(x)

(* Where the last save did not fail, the disk knows of the same coins. *)
StatesHold ==
    /\ Fits(wallet) /\ Fits(disk)
    /\ up => Holds(wallet, found)
    /\ Holds(disk, found)
    /\ up /\ ~saveFailed => RescanCoins(disk) = RescanCoins(wallet)
    /\ found \subseteq kept
    /\ crashes <= MaxCrashes
    /\ ~up /\ crashes = 0 => kept = {}
    /\ ~Unpinned => (disk.pin = NoPin => disk = NoSnapshot) /\ (up => wallet.pin # NoPin)

HoldInv == StatesHold /\ \A c \in Tasks : CallHolds(c, call[c])

(* A replay passes some events: it claims what it was told of, and knows   *)
(* of the same coins as before.                                            *)
LEMMA AppliedHolds ==
    ASSUME chain \in Chain, NEW s \in State, NEW to \in (s.cursor + 1)..chain.tip,
           NEW sought \in SUBSET Coins, sought \subseteq kept,
           Fits(s), Holds(s, sought)
    PROVE  /\ Fits(Applied(s, to)) /\ Holds(Applied(s, to), sought)
           /\ Applied(s, to).cursor = to
           /\ RescanCoins(Applied(s, to)) = RescanCoins(s)
           /\ Applied(s, to).pin = s.pin
<1> DEFINE met == {k \in Coins : chain.out[k] \in (s.cursor + 1)..to}
           t   == Applied(s, to)
<1>1. to \in Nat /\ s.cursor \in Nat /\ chain.tip \in Nat /\ chain.id \in Nat
      /\ s.cursor < to /\ to <= chain.tip /\ \A k \in Coins : chain.out[k] \in Nat
  BY DEF State, Chain
<1>2. /\ t.cursor = to /\ t.coins = s.coins \cup (met \cap s.regs) /\ t.regs = s.regs \ met
      /\ t.of = s.of \cup {chain.id} /\ t.pin = s.pin
  BY DEF Applied, State
<1> HIDE DEF met, t
<1>3. Fits(t)
  BY <1>1, <1>2 DEF Fits
<1>4. RescanCoins(t) = RescanCoins(s)
  BY <1>2 DEF RescanCoins
<1>5. ASSUME Durable PROVE Sees(t, sought)
  <2> SUFFICES ASSUME t.of \subseteq {chain.id}, NEW k \in sought, chain.out[k] \in 1..t.cursor
      PROVE  k \in t.coins
    BY DEF Sees
  <2>1. s.of \subseteq {chain.id} /\ k \in Coins /\ k \in s.regs \cup s.coins
    BY <1>2, <1>5 DEF Holds, RescanCoins
  <2>2. CASE chain.out[k] \in 1..s.cursor
    BY <1>2, <1>5, <2>1, <2>2 DEF Holds, Sees
  <2>3. CASE chain.out[k] \notin 1..s.cursor
    <3>1. k \in met
      BY <1>1, <1>2, <2>1, <2>3 DEF met
    <3>2. QED
      BY <1>2, <2>1, <3>1
  <2>4. QED
    BY <2>2, <2>3
<1>6. Holds(t, sought)
  BY <1>4, <1>5 DEF Holds
<1>7. QED
  BY <1>2, <1>3, <1>4, <1>6 DEF t

(* What a state in another generation holds. *)
LEMMA InGeneration ==
    ASSUME NEW s \in State, NEW gen \in Generations, NEW sought
    PROVE  LET t == [s EXCEPT !.gen = gen]
           IN  /\ Fits(t) <=> Fits(s)
               /\ Holds(t, sought) <=> Holds(s, sought)
               /\ RescanCoins(t) = RescanCoins(s)
               /\ t.pin = s.pin /\ t.cursor = s.cursor
  BY DEF State, Fits, Holds, Sees, RescanCoins

(* A plan knows of the coins that the wallet knows of, and a plan from the *)
(* first event has missed nothing.                                         *)
LEMMA PlanHolds ==
    ASSUME HoldInv, up, chain \in Chain, wallet \in State, NEW run \in Runs, NEW sought,
           run = "delta" => sought = found
    PROVE  /\ RescanCoins(PlanOf(run, wallet)) = RescanCoins(wallet)
           /\ Fits(PlanOf(run, wallet)) /\ Holds(PlanOf(run, wallet), sought)
<1>1. CASE run = "delta"
  BY <1>1 DEF PlanOf, HoldInv, StatesHold
<1>2. CASE run # "delta"
  <2> DEFINE from == PlanOf(run, wallet)
  <2>1. /\ from.cursor = 0 /\ from.of = {} /\ from.coins = {} /\ from.regs = RescanCoins(wallet)
    BY <1>2 DEF PlanOf, RescanCoins, State
  <2> HIDE DEF from
  <2>2. RescanCoins(from) = RescanCoins(wallet)
    BY <2>1 DEF RescanCoins
  <2>3. chain.tip \in Nat
    BY DEF Chain
  <2>4. Fits(from)
    BY <2>1, <2>3 DEF Fits
  <2>5. Sees(from, sought)
    BY <2>1 DEF Sees
  <2>6. Holds(from, sought)
    BY <2>2, <2>5 DEF Holds, HoldInv, StatesHold
  <2>7. QED
    BY <2>2, <2>4, <2>6 DEF from
<1>3. QED
  BY <1>1, <1>2

(* A step that moves one call and nothing else. *)
LEMMA AdvancesHolds ==
    ASSUME SyncInv, HoldInv, NEW c \in Tasks, NEW next, Goto(c, next),
           UNCHANGED <<chain, wallet, up, saveFailed, disk, crashes>>,
           UNCHANGED <<kept, found, dropped, rebuilt>>,
           CallHolds(c, next)
    PROVE  HoldInv'
<1>1. call'[c] = next /\ \A d \in Tasks : d # c => call'[d] = call[d]
  BY DEF SyncInv, TypeOK, Goto
<1>2. ASSUME NEW d \in Tasks PROVE CallHolds(d, call[d])'
  <2>1. CallHolds(d, call'[d])
    BY <1>1 DEF HoldInv
  <2>2. QED
    BY <2>1
    DEF CallHolds, CallPinned, KeepsPlace, Replaying, Sought, Holds, Sees, Fits, RescanCoins
<1>3. QED
  BY <1>2 DEF HoldInv, StatesHold, Holds, Sees, Fits, RescanCoins

LEMMA MovesHolds ==
    ASSUME SyncInv, HoldInv, NEW c \in Tasks, NEW next, Goto(c, next),
           UNCHANGED <<chain, wallet, up, saveFailed, disk, crashes>>,
           UNCHANGED ghosts,
           CallHolds(c, next)
    PROVE  HoldInv'
  BY AdvancesHolds DEF ghosts

(* An idle call looks for nothing. *)
LEMMA IdleHolds ==
    ASSUME chain \in Chain, NEW c
    PROVE  CallHolds(c, Idle)
<1>1. chain.tip \in Nat
  BY DEF Chain
<1>2. QED
  BY <1>1 DEF CallHolds, CallPinned, KeepsPlace, Replaying, Fits, Idle, Empty

LEMMA LeaveHolds ==
    ASSUME SyncInv, HoldInv, NEW c \in Tasks, Leave(c),
           UNCHANGED <<chain, wallet, up, saveFailed, disk, crashes>>,
           UNCHANGED ghosts
    PROVE  HoldInv'
<1>1. CallHolds(c, Idle)
  BY IdleHolds DEF SyncInv, TypeOK
<1>2. QED
  BY <1>1, MovesHolds DEF Leave

(* What every step below reads of the call it moves. *)
LEMMA HoldFacts ==
    ASSUME SyncInv, HoldInv, NEW c \in Tasks
    PROVE  /\ CallHolds(c, call[c])
           /\ chain \in Chain
           /\ call[c].from \in State /\ call[c].state \in State
           /\ kept \subseteq Coins /\ found \subseteq kept
           /\ Sought(call[c]) \subseteq kept
           /\ NoPin \in Pins
<1>1. call[c] \in Call /\ CallHolds(c, call[c])
  BY CallFacts DEF HoldInv
<1>2. call[c].from \in State /\ call[c].state \in State
  BY <1>1 DEF Call
<1>3. chain \in Chain /\ kept \subseteq Coins /\ found \subseteq kept
  BY DEF HoldInv, StatesHold, SyncInv, TypeOK
<1>4. Sought(call[c]) \subseteq kept
  BY <1>1, <1>3 DEF CallHolds, Sought
<1>5. NoPin \in Pins
  BY BoundAssumption DEF Pins, NoPin
<1>6. QED
  BY <1>1, <1>2, <1>3, <1>4, <1>5

(* A call that goes on to a step at which nothing is replayed. *)
LEMMA QuietHolds ==
    ASSUME NEW c \in Tasks, NEW x, NEW next, CallHolds(c, x),
           next.from = x.from, next.state = x.state, next.coin \subseteq kept,
           next.step \in {"replace", "check", "plan", "block", "pin"},
           next.run = "rescan" => next.fresh = NoPin /\ next.step \notin {"replace", "pin"},
           ~Unpinned => CallPinned(c, next)
    PROVE  CallHolds(c, next)
  BY DEF CallHolds, KeepsPlace, Replaying

LEMMA TakePinHolds ==
    ASSUME SyncInv, HoldInv, NEW c \in Tasks, TakePin(c)
    PROVE  HoldInv'
<1>1. PICK fresh \in {NoPin, chain.id} :
        /\ call[c].run = "open" /\ disk = NoSnapshot /\ ~Unpinned => fresh # NoPin
        /\ IF call[c].run = "open"
           THEN Goto(c, [call[c] EXCEPT !.fresh = fresh, !.pin = disk.pin,
                                        !.step = IF disk.pin = NoPin THEN "block" ELSE "check"])
           ELSE Goto(c, [call[c] EXCEPT !.fresh = fresh, !.step = "check"])
  BY DEF TakePin
<1>2. call[c] \in Call /\ call[c].step = "replace"
  BY CallFacts DEF TakePin
<1>3. CallHolds(c, call[c]) /\ call[c].coin \subseteq kept /\ call[c].run # "rescan"
  BY <1>2, HoldFacts DEF CallHolds
<1>4. CASE call[c].run = "open"
  <2> DEFINE next == [call[c] EXCEPT !.fresh = fresh, !.pin = disk.pin,
                                     !.step = IF disk.pin = NoPin THEN "block" ELSE "check"]
  <2>1. /\ next.from = call[c].from /\ next.state = call[c].state /\ next.coin = call[c].coin
        /\ next.run = "open" /\ next.fresh = fresh /\ next.step \in {"block", "check"}
    BY <1>2, <1>4 DEF Call
  <2>2. Goto(c, next)
    BY <1>1, <1>4
  <2> HIDE DEF next
  <2>3. ~Unpinned => CallPinned(c, next)
    BY <1>1, <1>4, <2>1 DEF CallPinned, Replaying
  <2>4. CallHolds(c, next)
    BY <1>3, <2>1, <2>3, QuietHolds
  <2>5. QED
    BY <2>2, <2>4, MovesHolds DEF TakePin
<1>5. CASE call[c].run # "open"
  <2> DEFINE next == [call[c] EXCEPT !.fresh = fresh, !.step = "check"]
  <2>1. /\ next.from = call[c].from /\ next.state = call[c].state /\ next.coin = call[c].coin
        /\ next.run = call[c].run /\ next.step = "check"
    BY <1>2 DEF Call
  <2>2. c # Boot
    BY <1>2, <1>5, CallFacts DEF CallOk
  <2>3. Goto(c, next)
    BY <1>1, <1>5
  <2> HIDE DEF next
  <2>4. ~Unpinned => CallPinned(c, next)
    BY <2>1, <2>2 DEF CallPinned
  <2>5. CallHolds(c, next)
    BY <1>3, <2>1, <2>4, QuietHolds
  <2>6. QED
    BY <2>3, <2>5, MovesHolds DEF TakePin
<1>6. QED
  BY <1>4, <1>5

LEMMA CheckPinHolds ==
    ASSUME SyncInv, HoldInv, NEW c \in Tasks, CheckPin(c)
    PROVE  HoldInv'
<1> DEFINE next == [call[c] EXCEPT !.step = IF call[c].run = "open" THEN "block" ELSE "plan"]
<1>1. call[c] \in Call /\ call[c].step = "check" /\ CallHolds(c, call[c])
  BY CallFacts, HoldFacts DEF CheckPin
<1>2. /\ next.from = call[c].from /\ next.state = call[c].state /\ next.coin = call[c].coin
      /\ next.run = call[c].run /\ next.fresh = call[c].fresh /\ next.step \in {"block", "plan"}
  BY <1>1 DEF Call
<1> HIDE DEF next
<1>3. /\ call[c].coin \subseteq kept
      /\ call[c].run = "rescan" => call[c].fresh = NoPin
      /\ ~Unpinned => CallPinned(c, call[c])
  BY <1>1 DEF CallHolds
<1>4. ~Unpinned => CallPinned(c, next)
  BY <1>1, <1>2, <1>3 DEF CallPinned, Replaying
<1>5. CallHolds(c, next)
  BY <1>1, <1>2, <1>3, <1>4, QuietHolds
<1>6. QED
  BY <1>5, AdvancesHolds DEF CheckPin, next

LEMMA PlanStepHolds ==
    ASSUME SyncInv, HoldInv, NEW c \in Tasks, Plan(c)
    PROVE  HoldInv'
<1> DEFINE run == call[c].run
           from == PlanOf(run, wallet)
           step == IF run = "genesis" \/ (run = "delta" /\ wallet.gen = 8) THEN "block" ELSE "replay"
           cross == run = "genesis"
           again == call[c].again /\ run = "rescan"
           next == [call[c] EXCEPT !.from = from, !.state = from, !.block = ChainGen,
                                   !.cross = cross, !.again = again, !.step = step]
<1>1. call[c] \in Call /\ call[c].step = "plan" /\ CallHolds(c, call[c]) /\ wallet \in State
  BY CallFacts, HoldFacts DEF Plan
<1>2. c \in Callers /\ c # Boot /\ up
  BY <1>1, CallFacts, Alone DEF CallOk
<1>3. /\ next.from = from /\ next.state = from /\ next.coin = call[c].coin
      /\ next.run = call[c].run /\ next.fresh = call[c].fresh /\ next.step = step
  <2> HIDE DEF from, run, step, cross, again
  <2>1. QED
    BY <1>1 DEF Call
<1>4. Goto(c, next)
  BY DEF Plan
<1>5. step \in {"block", "replay"} /\ run \in Runs
  BY <1>1 DEF Call
<1>6. /\ call[c].coin \subseteq kept
      /\ run = "rescan" => call[c].fresh = NoPin
  BY <1>1 DEF CallHolds
<1>7. Fits(from) /\ Holds(from, Sought(next))
  <2>1. run = "delta" => Sought(next) = found
    BY <1>3 DEF Sought
  <2>2. chain \in Chain
    BY HoldFacts
  <2> HIDE DEF from, next, run, step
  <2>3. QED
    BY <1>1, <1>2, <1>5, <2>1, <2>2, PlanHolds DEF from
<1> HIDE DEF from, next, run, step
<1>8. ~Unpinned => CallPinned(c, next)
  BY <1>2, <1>3, <1>5 DEF CallPinned
<1>9. KeepsPlace(next)
  <2>1. from.cursor \in Nat
    BY <1>1, <1>5, PlanOfType DEF from, State
  <2>2. QED
    BY <1>3, <1>5, <2>1 DEF KeepsPlace
<1>10. CallHolds(c, next)
  BY <1>3, <1>5, <1>6, <1>7, <1>8, <1>9 DEF CallHolds, run
<1>11. QED
  BY <1>4, <1>10, MovesHolds DEF Plan

(* What an opening sync loads: where it drops a snapshot, or finds none, no*)
(* save took a registration.                                               *)
LEMMA LoadedHolds ==
    ASSUME SyncInv, HoldInv, call[Boot].step = "block"
    PROVE  /\ Fits(Loaded(Boot)) /\ Holds(Loaded(Boot), found)
           /\ ~Unpinned => call[Boot].fresh # NoPin \/ Loaded(Boot).pin # NoPin
<1>1. Boot \in Tasks
  BY DEF Tasks
<1>2. ~up
  BY <1>1 DEF SyncInv, Attached
<1>3. ~Unpinned => call[Boot].fresh # NoPin \/ disk # NoSnapshot
  BY <1>1 DEF HoldInv, CallHolds, CallPinned
<1>4. /\ Fits(disk) /\ Holds(disk, found)
      /\ ~Unpinned => (disk.pin = NoPin => disk = NoSnapshot)
  BY DEF HoldInv, StatesHold
<1>5. CASE Loaded(Boot) = disk /\ disk # NoSnapshot
  BY <1>4, <1>5
<1>6. CASE Loaded(Boot) = Empty
  <2>1. RescanCoins(Empty) = {} /\ RescanCoins(NoSnapshot) = {}
    BY DEF RescanCoins, Empty, NoSnapshot
  <2>2. Fits(Empty) /\ Sees(Empty, found)
    <3>1. chain.tip \in Nat
      BY <1>1, HoldFacts DEF Chain
    <3>2. QED
      BY <3>1 DEF Fits, Sees, Empty
  <2>3. ASSUME Durable PROVE kept = {}
    <3>1. CASE Unpinned
      <4>1. crashes \in Nat /\ crashes <= 0
        BY <2>3, <3>1 DEF Durable, HoldInv, StatesHold, SyncInv, TypeOK
      <4>2. QED
        BY <1>2, <4>1 DEF HoldInv, StatesHold
    <3>2. CASE ~Unpinned
      <4>1. disk = NoSnapshot
        BY <1>4, <1>6, <3>2 DEF Loaded, Discards, Empty
      <4>2. QED
        BY <1>4, <2>1, <2>3, <4>1 DEF Holds
    <3>3. QED
      BY <3>1, <3>2
  <2>4. Holds(Empty, found)
    BY <2>1, <2>2, <2>3 DEF Holds
  <2>5. ~Unpinned => call[Boot].fresh # NoPin
    BY <1>3, <1>4, <1>6 DEF Loaded, Discards, Empty
  <2>6. QED
    BY <1>6, <2>2, <2>4, <2>5
<1>7. QED
  BY <1>4, <1>5, <1>6 DEF Loaded

LEMMA ReadBlockHolds ==
    ASSUME SyncInv, HoldInv, NEW c \in Tasks, ReadBlock(c)
    PROVE  HoldInv'
<1> DEFINE from == IF call[c].run = "open" THEN Loaded(c) ELSE call[c].from
           next == [call[c] EXCEPT !.from = from, !.state = from, !.block = ChainGen,
                                   !.cross = call[c].cross \/ call[c].run = "open" \/ ChainGen = 9,
                                   !.step = "replay"]
<1>1. call[c] \in Call /\ call[c].step = "block" /\ CallHolds(c, call[c]) /\ wallet \in State
  BY CallFacts, HoldFacts DEF ReadBlock
<1>2. c = Boot <=> call[c].run = "open"
  BY <1>1, CallFacts DEF CallOk
<1>3. /\ next.from = from /\ next.state = from /\ next.coin = call[c].coin
      /\ next.run = call[c].run /\ next.fresh = call[c].fresh /\ next.step = "replay"
  <2> HIDE DEF from
  <2>1. QED
    BY <1>1 DEF Call
<1>4. Goto(c, next)
  BY DEF ReadBlock
<1>5. /\ call[c].coin \subseteq kept
      /\ call[c].run = "rescan" => call[c].fresh = NoPin
      /\ ~Unpinned => CallPinned(c, call[c])
  BY <1>1 DEF CallHolds
<1>6. Fits(from) /\ Holds(from, Sought(next))
                 /\ (c = Boot /\ ~Unpinned => call[c].fresh # NoPin \/ from.pin # NoPin)
  <2> HIDE DEF next
  <2>1. CASE c = Boot
    <3>1. Sought(next) = found
      BY <1>2, <1>3, <2>1 DEF Sought
    <3>2. QED
      BY <1>1, <1>2, <2>1, <3>1, LoadedHolds
  <2>2. CASE c # Boot
    <3>1. c \in Callers /\ up /\ from = PlanOf(call[c].run, wallet)
      BY <1>1, <1>2, <2>2, CallFacts, Alone DEF CallOk
    <3>2. call[c].run = "delta" => Sought(next) = found
      BY <1>3 DEF Sought
    <3>3. chain \in Chain /\ call[c].run \in Runs
      BY <1>1, HoldFacts DEF Call
    <3>4. QED
      BY <1>1, <2>2, <3>1, <3>2, <3>3, PlanHolds
  <2>3. QED
    BY <2>1, <2>2
<1>7. from.cursor \in Nat
  BY <1>1, CallFacts, IdleType DEF Loaded, Call, State
<1> HIDE DEF from, next
<1>8. ~Unpinned => CallPinned(c, next)
  BY <1>1, <1>3, <1>5, <1>6 DEF CallPinned
<1>9. KeepsPlace(next)
  BY <1>3, <1>7 DEF KeepsPlace
<1>10. CallHolds(c, next)
  BY <1>3, <1>5, <1>6, <1>8, <1>9 DEF CallHolds
<1>11. QED
  BY <1>4, <1>10, MovesHolds DEF ReadBlock

LEMMA ReplayHolds ==
    ASSUME SyncInv, HoldInv, NEW c \in Tasks, Replay(c)
    PROVE  HoldInv'
<1>1. PICK to \in (call[c].state.cursor + 1)..chain.tip :
        Goto(c, [call[c] EXCEPT !.state = Applied(call[c].state, to)])
  BY DEF Replay
<1> DEFINE state == Applied(call[c].state, to)
           next  == [call[c] EXCEPT !.state = state]
<1>2. call[c] \in Call /\ call[c].step = "replay" /\ CallHolds(c, call[c])
  BY CallFacts, HoldFacts DEF Replay
<1>3. /\ Fits(call[c].state) /\ Holds(call[c].state, Sought(call[c]))
      /\ RescanCoins(call[c].state) = RescanCoins(call[c].from)
      /\ call[c].state.pin = call[c].from.pin
  BY <1>2 DEF CallHolds, Replaying
<1>4. /\ Fits(state) /\ Holds(state, Sought(call[c]))
      /\ state.cursor = to
      /\ RescanCoins(state) = RescanCoins(call[c].state)
      /\ state.pin = call[c].state.pin
  <2>1. /\ chain \in Chain /\ call[c].state \in State
        /\ Sought(call[c]) \in SUBSET Coins /\ Sought(call[c]) \subseteq kept
    BY HoldFacts
  <2>2. QED
    BY <1>3, <2>1, AppliedHolds
<1> HIDE DEF state
<1>5. /\ next.from = call[c].from /\ next.state = state /\ next.coin = call[c].coin
      /\ next.run = call[c].run /\ next.fresh = call[c].fresh /\ next.step = "replay"
  BY <1>2 DEF Call
<1>6. Goto(c, next)
  BY <1>1 DEF state
<1> HIDE DEF next
<1>7. Sought(next) = Sought(call[c])
  BY <1>5 DEF Sought
<1>8. KeepsPlace(next)
  <2>1. /\ call[c].from.cursor \in Nat /\ call[c].state.cursor \in Nat /\ chain.tip \in Nat
    BY HoldFacts DEF State, Chain
  <2>2. call[c].run = "delta" => call[c].from.cursor <= call[c].state.cursor
    BY <1>2 DEF CallHolds, KeepsPlace, Replaying
  <2>3. QED
    BY <1>1, <1>4, <1>5, <2>1, <2>2 DEF KeepsPlace
<1>9. CallHolds(c, next)
  BY <1>2, <1>3, <1>4, <1>5, <1>7, <1>8 DEF CallHolds, CallPinned, Replaying
<1>10. QED
  BY <1>6, <1>9, MovesHolds DEF Replay

(* The state of a replay in another generation, from where it is or from   *)
(* its plan, or a stop in front of the commit.                             *)
LEMMA InGenerationHolds ==
    ASSUME SyncInv, HoldInv, NEW c \in Tasks, call[c].step = "replay",
           NEW s \in {call[c].from, call[c].state}, NEW gen \in Generations,
           NEW next, Goto(c, next),
           next.from = call[c].from, next.state = [s EXCEPT !.gen = gen],
           next.coin = call[c].coin, next.run = call[c].run, next.fresh = call[c].fresh,
           next.step \in {"replay", "commit"},
           KeepsPlace(next),
           UNCHANGED <<chain, wallet, up, saveFailed, disk, sync, crashes>>,
           UNCHANGED ghosts
    PROVE  HoldInv'
<1> DEFINE t == [s EXCEPT !.gen = gen]
<1>1. CallHolds(c, call[c]) /\ s \in State
  BY HoldFacts
<1>2. /\ Fits(s) /\ Holds(s, Sought(call[c]))
      /\ RescanCoins(s) = RescanCoins(call[c].from) /\ s.pin = call[c].from.pin
  BY <1>1 DEF CallHolds, Replaying
<1>3. /\ Fits(t) /\ Holds(t, Sought(call[c]))
      /\ RescanCoins(t) = RescanCoins(call[c].from) /\ t.pin = call[c].from.pin
  BY <1>1, <1>2, InGeneration
<1>4. next.state = t
  OBVIOUS
<1> HIDE DEF t
<1>5. Sought(next) = Sought(call[c])
  BY DEF Sought
<1>6. CallHolds(c, next)
  BY <1>1, <1>3, <1>4, <1>5 DEF CallHolds, CallPinned, Replaying
<1>7. QED
  BY <1>6, MovesHolds

LEMMA StartOverHolds ==
    ASSUME SyncInv, HoldInv, NEW c \in Tasks, call[c].step \in {"replay", "commit"},
           StartOver(c),
           UNCHANGED <<chain, wallet, up, saveFailed, disk, crashes>>,
           UNCHANGED ghosts
    PROVE  HoldInv'
<1>1. call[c] \in Call /\ CallHolds(c, call[c])
  BY CallFacts, HoldFacts
<1>2. /\ call[c].coin \subseteq kept
      /\ call[c].run = "rescan" => call[c].fresh = NoPin
      /\ ~Unpinned => CallPinned(c, call[c])
  BY <1>1 DEF CallHolds
<1>3. CASE call[c].run = "delta"
  <2> DEFINE next == [call[c] EXCEPT !.cross = TRUE, !.step = "block"]
  <2>1. Goto(c, next)
    BY <1>3 DEF StartOver
  <2>2. /\ next.from = call[c].from /\ next.state = call[c].state /\ next.coin = call[c].coin
        /\ next.run = call[c].run /\ next.fresh = call[c].fresh /\ next.step = "block"
    BY <1>1 DEF Call
  <2> HIDE DEF next
  <2>3. ~Unpinned => CallPinned(c, next)
    BY <1>2, <2>2 DEF CallPinned, Replaying
  <2>4. CallHolds(c, next)
    BY <1>1, <1>2, <1>3, <2>2, <2>3, QuietHolds
  <2>5. QED
    BY <2>1, <2>4, MovesHolds
<1>4. CASE call[c].run # "delta" /\ call[c].again
  BY <1>4, LeaveHolds DEF StartOver
<1>5. CASE call[c].run = "rescan" /\ ~call[c].again
  <2> DEFINE step == Entry("delta", wallet.pin)
             next == [call[c] EXCEPT !.run = "delta", !.rescan = TRUE, !.pin = wallet.pin,
                                     !.step = step]
  <2>1. Goto(c, next)
    BY <1>5 DEF StartOver
  <2>2. step \in {"plan", "replace"}
    BY DEF Entry
  <2> HIDE DEF step
  <2>3. /\ next.from = call[c].from /\ next.state = call[c].state /\ next.coin = call[c].coin
        /\ next.run = "delta" /\ next.fresh = call[c].fresh /\ next.step = step
    BY <1>1 DEF Call
  <2> HIDE DEF next
  <2>4. ~Unpinned => CallPinned(c, next)
    BY <2>2, <2>3 DEF CallPinned, Replaying
  <2>5. CallHolds(c, next)
    BY <1>1, <1>2, <2>2, <2>3, <2>4, QuietHolds
  <2>6. QED
    BY <2>1, <2>5, MovesHolds
<1>6. CASE call[c].run \notin {"delta", "rescan"} /\ ~call[c].again
  <2> DEFINE next == [call[c] EXCEPT !.again = TRUE, !.step = "block"]
  <2>1. Goto(c, next)
    BY <1>6 DEF StartOver
  <2>2. /\ next.from = call[c].from /\ next.state = call[c].state /\ next.coin = call[c].coin
        /\ next.run = call[c].run /\ next.fresh = call[c].fresh /\ next.step = "block"
    BY <1>1 DEF Call
  <2> HIDE DEF next
  <2>3. ~Unpinned => CallPinned(c, next)
    BY <1>2, <2>2 DEF CallPinned, Replaying
  <2>4. CallHolds(c, next)
    BY <1>1, <1>2, <1>6, <2>2, <2>3, QuietHolds
  <2>5. QED
    BY <2>1, <2>4, MovesHolds
<1>7. QED
  BY <1>3, <1>4, <1>5, <1>6

LEMMA MeetLaterHolds ==
    ASSUME SyncInv, HoldInv, NEW c \in Tasks, MeetLater(c)
    PROVE  HoldInv'
<1>1. CASE call[c].cross
  <2> DEFINE state == [call[c].state EXCEPT !.gen = 9]
             next  == [call[c] EXCEPT !.state = state]
  <2>1. call[c] \in Call /\ call[c].step = "replay" /\ 9 \in Generations
    BY CallFacts DEF MeetLater, Generations
  <2>2. /\ next.from = call[c].from /\ next.state = state /\ next.coin = call[c].coin
        /\ next.run = call[c].run /\ next.fresh = call[c].fresh /\ next.step = "replay"
    <3> HIDE DEF state
    <3>1. QED
      BY <2>1 DEF Call
  <2>3. Goto(c, next) /\ UNCHANGED sync
    BY <1>1 DEF MeetLater
  <2>4. KeepsPlace(next)
    <3>1. state.cursor = call[c].state.cursor
      BY HoldFacts DEF State
    <3>2. CallHolds(c, call[c])
      BY HoldFacts
    <3> HIDE DEF next, state
    <3>3. QED
      BY <2>1, <2>2, <3>1, <3>2 DEF CallHolds, KeepsPlace, Replaying
  <2>5. QED
    <3> HIDE DEF next
    <3>1. QED
      BY <2>1, <2>2, <2>3, <2>4, InGenerationHolds DEF MeetLater
<1>2. CASE ~call[c].cross
  BY <1>2, StartOverHolds DEF MeetLater
<1>3. QED
  BY <1>1, <1>2

LEMMA MeetEarlierHolds ==
    ASSUME SyncInv, HoldInv, NEW c \in Tasks, MeetEarlier(c)
    PROVE  HoldInv'
<1>1. CASE call[c].run = "rescan" /\ ~call[c].cross
  <2> DEFINE state == [call[c].from EXCEPT !.gen = 8]
             next  == [call[c] EXCEPT !.state = state, !.cross = TRUE]
  <2>1. call[c] \in Call /\ call[c].step = "replay" /\ 8 \in Generations
    BY CallFacts DEF MeetEarlier, Generations
  <2>2. /\ next.from = call[c].from /\ next.state = state /\ next.coin = call[c].coin
        /\ next.run = call[c].run /\ next.fresh = call[c].fresh /\ next.step = "replay"
    <3> HIDE DEF state
    <3>1. QED
      BY <2>1 DEF Call
  <2>3. Goto(c, next) /\ UNCHANGED sync
    BY <1>1 DEF MeetEarlier
  <2> HIDE DEF next
  <2>4. KeepsPlace(next)
    BY <1>1, <2>2 DEF KeepsPlace
  <2>5. QED
    BY <2>1, <2>2, <2>3, <2>4, InGenerationHolds DEF MeetEarlier
<1>2. CASE ~(call[c].run = "rescan" /\ ~call[c].cross)
  BY <1>2, LeaveHolds DEF MeetEarlier
<1>3. QED
  BY <1>1, <1>2

LEMMA EndReplayHolds ==
    ASSUME SyncInv, HoldInv, NEW c \in Tasks, EndReplay(c)
    PROVE  HoldInv'
<1>1. PICK gen \in Generations : EndIn(c, gen) \/ (Leave(c) \/ StartOver(c))
  <2>1. /\ call[c].block \in Generations
        /\ call[c].from.gen \in Generations
        /\ 9 \in Generations
    BY CallFacts DEF Call, State, Generations
  <2>2. QED
    BY <2>1, ChainGenType DEF EndReplay
<1>2. CASE EndIn(c, gen)
  <2> DEFINE state == [call[c].state EXCEPT !.gen = gen]
             next  == [call[c] EXCEPT !.state = state, !.step = "commit"]
  <2>1. call[c] \in Call /\ call[c].step = "replay"
    BY CallFacts DEF EndReplay
  <2>2. Goto(c, next) /\ UNCHANGED sync
    BY <1>2, <2>1 DEF EndIn, Goto, Call, State
  <2>3. /\ next.from = call[c].from /\ next.state = state /\ next.coin = call[c].coin
        /\ next.run = call[c].run /\ next.fresh = call[c].fresh /\ next.step = "commit"
    <3> HIDE DEF state
    <3>1. QED
      BY <2>1 DEF Call
  <2>4. KeepsPlace(next)
    <3>1. state.cursor = call[c].state.cursor
      BY HoldFacts DEF State
    <3> HIDE DEF next, state
    <3>2. CASE call[c].run = "delta"
      <4>1. call[c].from.cursor <= call[c].state.cursor
        BY <2>1, <3>2, HoldFacts DEF CallHolds, KeepsPlace, Replaying
      <4>2. call[c].from = wallet
        BY <2>1, <3>2, CallFacts DEF CallOk, PlanOf
      <4>3. QED
        BY <2>3, <3>1, <4>1, <4>2 DEF KeepsPlace
    <3>3. CASE call[c].run # "delta"
      <4>1. call[c].run # "open" => call[c].state.cursor >= chain.tip
        BY <3>3 DEF EndReplay, AtTip, Silent
      <4>2. /\ wallet.cursor \in Nat /\ call[c].state.cursor \in Nat /\ chain.tip \in Nat
            /\ wallet.of \subseteq {chain.id} => wallet.cursor <= chain.tip
        BY CallFacts, HoldFacts DEF State, Chain, HoldInv, StatesHold, Fits
      <4>3. QED
        BY <2>3, <3>1, <3>3, <4>1, <4>2 DEF KeepsPlace
    <3>4. QED
      BY <3>2, <3>3
  <2>5. QED
    <3> HIDE DEF next
    <3>1. QED
      BY <2>1, <2>2, <2>3, <2>4, InGenerationHolds DEF EndReplay
<1>3. CASE Leave(c)
  BY <1>3, LeaveHolds DEF EndReplay
<1>4. CASE StartOver(c)
  BY <1>4, StartOverHolds DEF EndReplay
<1>5. QED
  BY <1>1, <1>2, <1>3, <1>4

(* The steps that end a call with an error, and the start of an opening    *)
(* sync.                                                                   *)
LEMMA EndsHolds ==
    ASSUME SyncInv, HoldInv, NEW c \in Tasks,
           ChainReplaced(c) \/ SnapshotTooNew(c) \/ ReplayFails(c) \/ Abort(c)
    PROVE  HoldInv'
  BY LeaveHolds DEF ChainReplaced, SnapshotTooNew, ReplayFails, Abort

LEMMA StartOpenHolds ==
    ASSUME SyncInv, HoldInv, StartOpen
    PROVE  HoldInv'
<1>1. PICK step \in {"replace", "block"} :
        /\ Goto(Boot, [Idle EXCEPT !.run = "open", !.step = step])
        /\ step = "block" => disk # NoSnapshot \/ Unpinned
  BY DEF StartOpen
<1> DEFINE next == [Idle EXCEPT !.run = "open", !.step = step]
<1>2. /\ next.from = Idle.from /\ next.state = Idle.state /\ next.coin = {}
      /\ next.run = "open" /\ next.step = step
  BY DEF Idle
<1>3. Goto(Boot, next)
  BY <1>1
<1> HIDE DEF next
<1>4. Boot \in Tasks /\ chain \in Chain
  BY DEF Tasks, SyncInv, TypeOK
<1>5. CallHolds(Boot, Idle)
  BY <1>4, IdleHolds
<1>6. ~Unpinned => CallPinned(Boot, next)
  BY <1>1, <1>2 DEF CallPinned, Replaying
<1>7. CallHolds(Boot, next)
  BY <1>2, <1>4, <1>5, <1>6, QuietHolds
<1>8. QED
  BY <1>3, <1>4, <1>7, MovesHolds DEF StartOpen

(***************************************************************************)
(* What changes the wallet                                                 *)
(***************************************************************************)

(* A step of the one call that runs. *)
LEMMA SoloHolds ==
    ASSUME SyncInv, NEW c \in Tasks, NEW next, Goto(c, next),
           \A d \in Tasks : d # c => call[d] = Idle,
           UNCHANGED chain,
           StatesHold', CallHolds(c, call[c])'
    PROVE  HoldInv'
<1>1. \A d \in Tasks : d # c => call'[d] = Idle
  BY DEF SyncInv, TypeOK, Goto
<1>2. chain'.tip \in Nat
  BY DEF SyncInv, TypeOK, Chain
<1>3. ASSUME NEW d \in Tasks PROVE CallHolds(d, call[d])'
  <2>1. CASE d = c
    BY <2>1
  <2>2. CASE d # c
    <3>1. call'[d] = Idle
      BY <1>1, <2>2
    <3>2. QED
      BY <1>2, <3>1 DEF CallHolds, CallPinned, KeepsPlace, Replaying, Fits, Idle, Empty
  <2>3. QED
    BY <2>1, <2>2
<1>4. QED
  BY <1>3 DEF HoldInv

(* A save, or one that nothing asked for: the disk has the wallet, or has  *)
(* what it had and knows of what the wallet does.                          *)
LEMMA PersistHolds ==
    ASSUME HoldInv, up, NEW changed, NEW ok \in BOOLEAN, Persist(wallet', changed, ok),
           UNCHANGED <<chain, up, crashes>>,
           Fits(wallet)', Holds(wallet, found)', disk' = disk => Holds(disk, found)',
           ~changed => RescanCoins(wallet)' = RescanCoins(wallet),
           found' \subseteq kept', wallet'.pin = wallet.pin
    PROVE  StatesHold'
<1>1. /\ Fits(disk)
      /\ ~saveFailed => RescanCoins(disk) = RescanCoins(wallet)
      /\ crashes <= MaxCrashes
      /\ ~Unpinned => (disk.pin = NoPin => disk = NoSnapshot) /\ wallet.pin # NoPin
  BY DEF HoldInv, StatesHold
<1>2. CASE disk' = wallet'
  <2>1. Fits(disk)' /\ Holds(disk, found)' /\ RescanCoins(disk)' = RescanCoins(wallet)'
    BY <1>2 DEF Fits, Holds, Sees, RescanCoins
  <2>2. QED
    BY <1>1, <1>2, <2>1 DEF StatesHold
<1>3. CASE disk' # wallet'
  <2>1. disk' = disk /\ (saveFailed' \/ (~changed /\ ~saveFailed))
    BY <1>3 DEF Persist
  <2>2. Fits(disk)' /\ RescanCoins(disk)' = RescanCoins(disk)
    BY <1>1, <2>1 DEF Fits, RescanCoins
  <2>3. ~saveFailed' => RescanCoins(disk)' = RescanCoins(wallet)'
    BY <1>1, <2>1, <2>2
  <2>4. QED
    BY <1>1, <2>1, <2>2, <2>3 DEF StatesHold
<1>4. QED
  BY <1>2, <1>3

(* A call that begins. *)
LEMMA BeginHolds ==
    ASSUME SyncInv, NEW c \in Callers, MayCall(c), NEW run \in Runs \ {"open"},
           NEW coin \in SUBSET Coins, Begin(c, run, coin, wallet.pin),
           UNCHANGED chain, coin \subseteq kept'
    PROVE  CallHolds(c, call[c])'
<1>1. c \in Tasks /\ c # Boot /\ chain'.tip \in Nat
  BY BootAssumption DEF Tasks, SyncInv, TypeOK, Chain
<1>2. call[c] = Idle
  BY <1>1, CallFacts DEF CallOk, MayCall
<1> DEFINE step == Entry(run, wallet.pin)
           next == [Idle EXCEPT !.run = run, !.coin = coin, !.pin = wallet.pin, !.step = step]
<1>3. step \in {"plan", "check", "replace"} /\ (run = "rescan" => step # "replace")
  BY DEF Entry
<1>4. call'[c] = next
  BY <1>1, <1>2 DEF Begin, Goto, SyncInv, TypeOK
<1> HIDE DEF step
<1>5. /\ next.from = Empty /\ next.state = Empty /\ next.coin = coin
      /\ next.run = run /\ next.fresh = NoPin /\ next.step = step
  BY DEF Idle
<1> HIDE DEF next
<1>6. QED
  BY <1>1, <1>3, <1>4, <1>5 DEF CallHolds, CallPinned, KeepsPlace, Replaying, Fits, Empty

LEMMA StartSyncHolds ==
    ASSUME SyncInv, HoldInv, NEW c \in Callers, StartSync(c)
    PROVE  HoldInv'
<1>1. PICK run \in Runs \ {"open"} : Begin(c, run, {}, wallet.pin)
  BY DEF StartSync
<1>2. MayCall(c) /\ UNCHANGED <<chain, wallet, up, saveFailed, disk, crashes>> /\ UNCHANGED ghosts
  BY DEF StartSync
<1>3. \A d \in Tasks : d # c => call[d] = Idle
  BY <1>2, Alone
<1>4. CallHolds(c, call[c])'
  <2>1. {} \in SUBSET Coins /\ {} \subseteq kept'
    OBVIOUS
  <2>2. QED
    BY <1>1, <1>2, <2>1, BeginHolds
<1>5. StatesHold'
  BY <1>2 DEF HoldInv, StatesHold, Holds, Sees, Fits, RescanCoins, ghosts
<1>6. PICK next : Goto(c, next)
  BY <1>1 DEF Begin
<1>7. QED
  BY <1>2, <1>3, <1>4, <1>5, <1>6, SoloHolds DEF Tasks

LEMMA StartWatchHolds ==
    ASSUME SyncInv, HoldInv, NEW c \in Callers, StartWatch(c)
    PROVE  HoldInv'
<1>1. PICK k \in Coins, ok \in BOOLEAN :
        /\ wallet' = [wallet EXCEPT !.regs = @ \cup {k}]
        /\ Persist(wallet', TRUE, ok)
        /\ dropped' = dropped \ {k}
        /\ IF ok
           THEN /\ Begin(c, "rescan", {k}, wallet.pin)
                /\ sync' = sync \cup {c}
                /\ kept' = kept \cup {k}
           ELSE UNCHANGED <<call, sync, kept>>
  BY DEF StartWatch
<1>2. MayCall(c) /\ UNCHANGED <<chain, up, crashes, found, rebuilt>> /\ c \in Tasks
  BY DEF StartWatch, Tasks
<1>3. up /\ (\A d \in Tasks : d # c => call[d] = Idle)
  BY <1>2, Alone
<1>4. Fits(wallet) /\ Holds(wallet, found) /\ Holds(disk, found) /\ found \subseteq kept
  BY <1>3 DEF HoldInv, StatesHold
<1>5. /\ wallet'.regs = wallet.regs \cup {k} /\ wallet'.coins = wallet.coins
      /\ wallet'.of = wallet.of /\ wallet'.cursor = wallet.cursor /\ wallet'.pin = wallet.pin
  BY <1>1, <1>2, CallFacts DEF State
<1>6. kept' = IF ok THEN kept \cup {k} ELSE kept
  BY <1>1
<1>7. Fits(wallet)' /\ Holds(wallet, found)'
  <2>1. Fits(wallet)'
    BY <1>2, <1>4, <1>5 DEF Fits
  <2>2. RescanCoins(wallet)' = RescanCoins(wallet) \cup {k}
    BY <1>5 DEF RescanCoins
  <2>3. Durable => Sees(wallet, found)'
    BY <1>2, <1>4, <1>5 DEF Holds, Sees
  <2>4. QED
    BY <1>1, <1>4, <1>6, <2>1, <2>2, <2>3 DEF Holds, Durable
<1>8. disk' = disk => Holds(disk, found)'
  <2>1. CASE ok
    <3>1. disk' = wallet'
      BY <1>1, <2>1 DEF Persist
    <3>2. QED
      BY <1>7, <3>1 DEF Holds, Sees, RescanCoins
  <2>2. CASE ~ok
    BY <1>1, <1>2, <1>4, <1>6, <2>2 DEF Holds, Sees, RescanCoins
  <2>3. QED
    BY <2>1, <2>2
<1>9. found' \subseteq kept'
  BY <1>2, <1>4, <1>6
<1>10. StatesHold'
  BY <1>1, <1>2, <1>3, <1>5, <1>7, <1>8, <1>9, PersistHolds
<1>11. CASE ok
  <2>1. CallHolds(c, call[c])'
    <3>1. "rescan" \in Runs \ {"open"} /\ {k} \in SUBSET Coins /\ {k} \subseteq kept'
      BY <1>6, <1>11 DEF Runs
    <3>2. Begin(c, "rescan", {k}, wallet.pin)
      BY <1>1, <1>11
    <3>3. QED
      BY <1>2, <3>1, <3>2, BeginHolds
  <2>2. PICK next : Goto(c, next)
    BY <1>1, <1>11 DEF Begin
  <2>3. QED
    BY <1>2, <1>3, <1>10, <2>1, <2>2, SoloHolds
<1>12. CASE ~ok
  <2>1. Goto(c, call[c]) /\ call' = call
    BY <1>1, <1>2, <1>12 DEF Goto, SyncInv, TypeOK
  <2>2. call[c] = Idle
    BY <1>2, CallFacts DEF CallOk, MayCall
  <2>3. CallHolds(c, call[c])'
    <3>1. chain'.tip \in Nat
      BY <1>2 DEF SyncInv, TypeOK, Chain
    <3>2. QED
      BY <2>1, <2>2, <3>1 DEF CallHolds, CallPinned, KeepsPlace, Replaying, Fits, Idle, Empty
  <2>4. QED
    BY <1>2, <1>3, <1>10, <2>1, <2>3, SoloHolds
<1>13. QED
  BY <1>11, <1>12

LEMMA ForgetHolds ==
    ASSUME SyncInv, HoldInv, NEW c \in Callers, Forget(c)
    PROVE  HoldInv'
<1>1. PICK k \in Coins, ok \in BOOLEAN :
        /\ wallet' = [wallet EXCEPT !.regs = @ \ {k}]
        /\ Persist(wallet', k \in wallet.regs, ok)
        /\ dropped' = IF ok /\ k \notin wallet.coins THEN dropped \cup {k} ELSE dropped
        /\ kept' = kept \ {k}
        /\ found' = found \ {k}
  BY DEF Forget
<1>2. MayCall(c) /\ UNCHANGED <<chain, up, sync, call, crashes, rebuilt>> /\ c \in Tasks
  BY DEF Forget, Tasks
<1>3. up /\ (\A d \in Tasks : d # c => call[d] = Idle)
  BY <1>2, Alone
<1>4. /\ Fits(wallet) /\ Holds(wallet, found) /\ Holds(disk, found) /\ found \subseteq kept
      /\ ~saveFailed => RescanCoins(disk) = RescanCoins(wallet)
  BY <1>3 DEF HoldInv, StatesHold
<1>5. /\ wallet'.regs = wallet.regs \ {k} /\ wallet'.coins = wallet.coins
      /\ wallet'.of = wallet.of /\ wallet'.cursor = wallet.cursor /\ wallet'.pin = wallet.pin
  BY <1>1, <1>2, CallFacts DEF State
<1>6. Fits(wallet)' /\ Holds(wallet, found)'
  <2>1. Fits(wallet)'
    BY <1>2, <1>4, <1>5 DEF Fits
  <2>2. dropped' \cap RescanCoins(wallet)' = {}
    BY <1>1, <1>4, <1>5 DEF Holds, RescanCoins
  <2>3. Durable => kept' \subseteq RescanCoins(wallet)'
    BY <1>1, <1>4, <1>5 DEF Holds, RescanCoins
  <2>4. Durable => Sees(wallet, found)'
    BY <1>1, <1>2, <1>4, <1>5 DEF Holds, Sees
  <2>5. QED
    BY <2>1, <2>2, <2>3, <2>4 DEF Holds, Durable
<1>7. disk' = disk => Holds(disk, found)'
  <2>1. CASE disk' = wallet'
    BY <1>6, <2>1 DEF Holds, Sees, RescanCoins
  <2>2. CASE disk' = disk /\ disk' # wallet'
    <3>1. ok => k \notin wallet.regs /\ ~saveFailed
      BY <1>1, <2>2 DEF Persist
    <3>2. dropped' \cap RescanCoins(disk) = {}
      BY <1>1, <1>4, <3>1 DEF Holds, RescanCoins
    <3>3. Durable => kept' \subseteq RescanCoins(disk)
      BY <1>1, <1>4 DEF Holds
    <3>4. Durable => Sees(disk, found)'
      BY <1>1, <1>2, <1>4, <2>2 DEF Holds, Sees
    <3>5. QED
      BY <2>2, <3>2, <3>3, <3>4 DEF Holds, Durable, RescanCoins
  <2>3. QED
    BY <2>1, <2>2
<1>8. /\ found' \subseteq kept'
      /\ k \notin wallet.regs => RescanCoins(wallet)' = RescanCoins(wallet)
  BY <1>1, <1>4, <1>5 DEF RescanCoins
<1>9. StatesHold'
  BY <1>1, <1>2, <1>3, <1>5, <1>6, <1>7, <1>8, PersistHolds
<1>10. Goto(c, call[c]) /\ call[c] = Idle
  BY <1>2, CallFacts DEF CallOk, MayCall, Goto, SyncInv, TypeOK
<1>11. CallHolds(c, call[c])'
  <2>1. chain'.tip \in Nat
    BY <1>2 DEF SyncInv, TypeOK, Chain
  <2>2. QED
    BY <1>2, <1>10, <2>1 DEF CallHolds, CallPinned, KeepsPlace, Replaying, Fits, Idle, Empty
<1>12. QED
  BY <1>2, <1>3, <1>9, <1>10, <1>11, SoloHolds

(* A resync or a rescan that is done: a rescan saw what it looked for. *)
LEMMA FinishHolds ==
    ASSUME SyncInv, HoldInv, NEW c \in Callers, call[c].step # "idle", Finish(c),
           UNCHANGED <<chain, kept>>
    PROVE  /\ CallHolds(c, call[c])'
           /\ found' \subseteq Sought(call[c])
           /\ call[c].run # "rescan" => found' = found
           /\ \E next : Goto(c, next)
<1>1. c \in Tasks /\ c # Boot /\ call[c] \in Call /\ CallHolds(c, call[c]) /\ chain'.tip \in Nat
  BY BootAssumption, CallFacts, HoldFacts DEF Tasks, Chain
<1>2. CASE call[c].rescan
  <2> DEFINE next == [call[c] EXCEPT !.run = "rescan", !.rescan = FALSE, !.again = TRUE,
                                     !.fresh = NoPin, !.step = "plan"]
  <2>1. Goto(c, next) /\ call'[c] = next /\ UNCHANGED <<sync, found, rebuilt>>
    BY <1>1, <1>2 DEF Finish, Goto, SyncInv, TypeOK
  <2>2. /\ next.from = call[c].from /\ next.state = call[c].state /\ next.coin = call[c].coin
        /\ next.run = "rescan" /\ next.fresh = NoPin /\ next.step = "plan"
    BY <1>1 DEF Call
  <2> HIDE DEF next
  <2>3. Fits(call[c].from)' /\ Fits(call[c].state)' /\ call[c].coin \subseteq kept
    <3>1. Fits(call[c].from) /\ Fits(call[c].state) /\ call[c].coin \subseteq kept
      BY <1>1 DEF CallHolds
    <3>2. QED
      BY <2>1, <2>2, <3>1 DEF Fits
  <2>4. CallHolds(c, call[c])'
    BY <1>1, <2>1, <2>2, <2>3 DEF CallHolds, CallPinned, KeepsPlace, Replaying
  <2>5. QED
    BY <2>1, <2>4 DEF Sought
<1>3. CASE ~call[c].rescan
  <2>1. Goto(c, Idle) /\ call'[c] = Idle
    BY <1>1, <1>3 DEF Finish, Leave, Goto, SyncInv, TypeOK
  <2>2. found' = IF call[c].run = "rescan" THEN found \cup call[c].coin ELSE found
    BY <1>3 DEF Finish
  <2>3. CallHolds(c, call[c])'
    BY <1>1, <2>1 DEF CallHolds, CallPinned, KeepsPlace, Replaying, Fits, Idle, Empty
  <2>4. QED
    BY <2>1, <2>2, <2>3 DEF Sought
<1>4. QED
  BY <1>2, <1>3

(* What a resync or a rescan commits: a wallet that knows of the same      *)
(* coins, and misses none that the call looked for.                        *)
LEMMA CommittedHolds ==
    ASSUME SyncInv, HoldInv, NEW c \in Callers, call[c].step = "commit"
    PROVE  /\ Fits(Committed(c)) /\ Holds(Committed(c), Sought(call[c]))
           /\ RescanCoins(Committed(c)) = RescanCoins(wallet)
           /\ Committed(c).pin = wallet.pin
<1>1. /\ c \in Tasks /\ c # Boot /\ call[c] \in Call /\ wallet \in State
      /\ CallHolds(c, call[c]) /\ CallOk(c, call[c])
  BY BootAssumption, CallFacts, HoldFacts DEF Tasks
<1>2. up /\ call[c].run \in {"delta", "rescan", "genesis"} /\ call[c].from = PlanOf(call[c].run, wallet)
  BY <1>1, Alone DEF CallOk, Call, Runs
<1>3. call[c].from.pin = wallet.pin
  BY <1>1, <1>2, PlanOfType DEF Runs
<1>4. RescanCoins(call[c].from) = RescanCoins(wallet)
  BY <1>1, <1>2 DEF PlanOf, RescanCoins, State
<1>5. /\ Fits(call[c].state) /\ Holds(call[c].state, Sought(call[c]))
      /\ RescanCoins(call[c].state) = RescanCoins(call[c].from)
      /\ call[c].state.pin = call[c].from.pin
  BY <1>1 DEF CallHolds, Replaying
<1>6. /\ Committed(c).regs = call[c].state.regs /\ Committed(c).coins = call[c].state.coins
      /\ Committed(c).of = call[c].state.of /\ Committed(c).cursor = call[c].state.cursor
      /\ Committed(c).pin = wallet.pin
  <2>1. call[c].state \in State
    BY <1>1 DEF Call
  <2>2. QED
    BY <1>2, <1>3, <1>5, <2>1 DEF Committed, State
<1>7. Fits(Committed(c)) /\ Holds(Committed(c), Sought(call[c]))
  BY <1>5, <1>6 DEF Fits, Holds, Sees, RescanCoins
<1>8. RescanCoins(Committed(c)) = RescanCoins(call[c].state)
  BY <1>6 DEF RescanCoins
<1>9. QED
  BY <1>4, <1>5, <1>6, <1>7, <1>8

LEMMA CommitHolds ==
    ASSUME SyncInv, HoldInv, NEW c \in Tasks, Commit(c)
    PROVE  HoldInv'
<1>1. PICK ok \in BOOLEAN, moved \in BOOLEAN :
        /\ Persist(wallet', Changed(c, moved), ok)
        /\ IF ~ok THEN Leave(c) /\ UNCHANGED <<found, rebuilt>>
           ELSE IF call[c].fresh = NoPin THEN Finish(c)
           ELSE /\ Goto(c, [call[c] EXCEPT !.step = "pin"])
                /\ UNCHANGED <<sync, found, rebuilt>>
  BY DEF Commit
<1>2. /\ call[c].step = "commit" /\ call[c].run # "open" /\ wallet' = Committed(c)
      /\ UNCHANGED <<chain, up, crashes, kept, dropped>>
  BY DEF Commit
<1>3. c \in Callers /\ c # Boot /\ call[c] \in Call /\ CallHolds(c, call[c])
  BY <1>2, CallFacts, HoldFacts DEF CallOk
<1>4. up /\ \A d \in Tasks : d # c => call[d] = Idle
  BY <1>2, <1>3, Alone
<1>5. /\ Fits(wallet') /\ Holds(wallet', Sought(call[c]))
      /\ RescanCoins(wallet') = RescanCoins(wallet)
      /\ wallet'.pin = wallet.pin
  BY <1>2, <1>3, CommittedHolds
<1>6. Holds(disk, found) /\ found \subseteq kept /\ Sought(call[c]) \subseteq kept
  BY HoldFacts DEF HoldInv, StatesHold
<1>7. /\ found' \subseteq Sought(call[c])
      /\ call[c].run # "rescan" \/ ~ok => found' = found
      /\ CallHolds(c, call[c])'
      /\ \E next : Goto(c, next)
  <2>1. CASE ~ok
    <3>1. Goto(c, Idle) /\ call'[c] = Idle /\ found' = found
      BY <1>1, <2>1 DEF Leave, Goto, SyncInv, TypeOK
    <3>2. chain'.tip \in Nat
      BY <1>2 DEF SyncInv, TypeOK, Chain
    <3>3. QED
      BY <3>1, <3>2 DEF CallHolds, CallPinned, KeepsPlace, Replaying, Fits, Idle, Empty, Sought
  <2>2. CASE ok /\ call[c].fresh = NoPin
    BY <1>1, <1>2, <1>3, <2>2, FinishHolds
  <2>3. CASE ok /\ call[c].fresh # NoPin
    <3> DEFINE next == [call[c] EXCEPT !.step = "pin"]
    <3>1. Goto(c, next) /\ call'[c] = next /\ found' = found
      BY <1>1, <2>3 DEF Goto, SyncInv, TypeOK
    <3>2. /\ next.from = call[c].from /\ next.state = call[c].state /\ next.coin = call[c].coin
          /\ next.run = call[c].run /\ next.fresh = call[c].fresh /\ next.step = "pin"
      BY <1>3 DEF Call
    <3> HIDE DEF next
    <3>3. call[c].run # "rescan"
      BY <1>3, <2>3 DEF CallHolds
    <3>4. CallHolds(c, next)
      BY <1>3, <2>3, <3>2, <3>3 DEF CallHolds, CallPinned, KeepsPlace, Replaying
    <3>5. CallHolds(c, call[c])'
      BY <1>2, <1>3, <3>1, <3>2, <3>4 DEF CallHolds, CallPinned, KeepsPlace, Replaying, Fits
    <3>6. QED
      BY <3>1, <3>5 DEF Sought
  <2>4. QED
    BY <2>1, <2>2, <2>3
<1>8. Fits(wallet)' /\ Holds(wallet, found)'
  BY <1>2, <1>5, <1>7 DEF Fits, Holds, Sees, RescanCoins
<1>9. disk' = disk => Holds(disk, found)'
  <2>1. CASE call[c].run # "rescan" \/ ~ok
    BY <1>2, <1>6, <1>7, <2>1 DEF Holds, Sees, RescanCoins
  <2>2. CASE call[c].run = "rescan" /\ ok
    <3>1. disk' = wallet'
      BY <1>1, <2>2 DEF Persist, Changed
    <3>2. QED
      BY <1>8, <3>1 DEF Holds, Sees, RescanCoins
  <2>3. QED
    BY <2>1, <2>2
<1>10. found' \subseteq kept' /\ RescanCoins(wallet)' = RescanCoins(wallet)
  BY <1>2, <1>5, <1>6, <1>7 DEF RescanCoins
<1>11. StatesHold'
  BY <1>1, <1>2, <1>4, <1>5, <1>8, <1>9, <1>10, PersistHolds
<1>12. QED
  BY <1>2, <1>4, <1>7, <1>11, SoloHolds

LEMMA MovePinHolds ==
    ASSUME SyncInv, HoldInv, NEW c \in Tasks, MovePin(c)
    PROVE  HoldInv'
<1>1. /\ call[c].step = "pin" /\ wallet' = [wallet EXCEPT !.pin = call[c].fresh]
      /\ Finish(c)
      /\ UNCHANGED <<chain, up, saveFailed, disk, crashes, kept, dropped>>
  BY DEF MovePin
<1>2. c \in Callers /\ call[c] \in Call /\ CallHolds(c, call[c])
  BY <1>1, CallFacts, HoldFacts DEF CallOk
<1>3. up /\ \A d \in Tasks : d # c => call[d] = Idle
  BY <1>1, <1>2, Alone
<1>4. call[c].run # "rescan" /\ (~Unpinned => call[c].fresh # NoPin)
  BY <1>1, <1>2 DEF CallHolds, CallPinned
<1>5. CallHolds(c, call[c])' /\ found' = found /\ \E next : Goto(c, next)
  BY <1>1, <1>2, <1>4, FinishHolds
<1>6. /\ wallet'.regs = wallet.regs /\ wallet'.coins = wallet.coins /\ wallet'.of = wallet.of
      /\ wallet'.cursor = wallet.cursor /\ wallet'.pin = call[c].fresh
  BY <1>1, CallFacts DEF State
<1>7. StatesHold'
  BY <1>1, <1>3, <1>4, <1>5, <1>6 DEF HoldInv, StatesHold, Holds, Sees, Fits, RescanCoins
<1>8. QED
  BY <1>1, <1>3, <1>5, <1>7, SoloHolds

(***************************************************************************)
(* Opening, dying, and the chain                                           *)
(***************************************************************************)

(* What an opening sync saves. *)
LEMMA OpenedHolds ==
    ASSUME SyncInv, HoldInv, call[Boot].step = "commit"
    PROVE  /\ Fits(Committed(Boot)) /\ Holds(Committed(Boot), found)
           /\ ~Unpinned => Committed(Boot).pin # NoPin
           /\ Committed(Boot) # NoSnapshot
<1>1. Boot \in Tasks /\ call[Boot] \in Call /\ CallHolds(Boot, call[Boot])
  BY CallFacts, HoldFacts DEF Tasks
<1>2. call[Boot].run = "open" /\ Committed(Boot) \in State
  BY OpeningFacts
<1>3. call[Boot].state \in State /\ call[Boot].fresh \in Pins
  BY <1>1 DEF Call
<1>4. /\ Committed(Boot).regs = call[Boot].state.regs
      /\ Committed(Boot).coins = call[Boot].state.coins
      /\ Committed(Boot).of = call[Boot].state.of
      /\ Committed(Boot).cursor = call[Boot].state.cursor
      /\ Committed(Boot).pin = IF call[Boot].fresh # NoPin THEN call[Boot].fresh
                               ELSE call[Boot].state.pin
  BY <1>2, <1>3 DEF Committed, State
<1>5. /\ Fits(call[Boot].state) /\ Holds(call[Boot].state, Sought(call[Boot]))
      /\ call[Boot].state.pin = call[Boot].from.pin
      /\ ~Unpinned => call[Boot].fresh # NoPin \/ call[Boot].from.pin # NoPin
  BY <1>1 DEF CallHolds, CallPinned, KeepsPlace, Replaying
<1>6. Sought(call[Boot]) = found
  BY <1>2 DEF Sought
<1>7. Fits(Committed(Boot)) /\ Holds(Committed(Boot), found)
  BY <1>4, <1>5, <1>6 DEF Fits, Holds, Sees, RescanCoins
<1>8. Committed(Boot) # NoSnapshot
  BY <1>2 DEF State, NoSnapshot, Empty, Generations
<1>9. QED
  BY <1>4, <1>5, <1>7, <1>8

LEMMA CheckpointHolds ==
    ASSUME SyncInv, HoldInv, Checkpoint
    PROVE  HoldInv'
<1>1. /\ call[Boot].step = "commit" /\ disk' = Committed(Boot)
      /\ UNCHANGED <<chain, wallet, up, saveFailed, sync, call, crashes>>
      /\ UNCHANGED ghosts
  BY DEF Checkpoint
<1>2. ~up
  BY <1>1, OpeningFacts
<1>3. /\ Fits(disk') /\ Holds(disk', found) /\ disk' # NoSnapshot
      /\ ~Unpinned => disk'.pin # NoPin
  BY <1>1, OpenedHolds
<1>4. StatesHold'
  BY <1>1, <1>2, <1>3 DEF HoldInv, StatesHold, Holds, Sees, Fits, RescanCoins, ghosts
<1>5. ASSUME NEW c \in Tasks PROVE CallHolds(c, call[c])'
  <2>1. CallHolds(c, call[c])
    BY DEF HoldInv
  <2>2. ~Unpinned => CallPinned(c, call[c])'
    BY <1>1, <1>3, <2>1 DEF CallHolds, CallPinned, KeepsPlace, Replaying
  <2>3. QED
    BY <1>1, <2>1, <2>2
    DEF CallHolds, KeepsPlace, Replaying, Sought, Holds, Sees, Fits, RescanCoins, ghosts
<1>6. QED
  BY <1>4, <1>5 DEF HoldInv

(* Where every task is idle, the invariant is that of the states. *)
LEMMA AllIdleHolds ==
    ASSUME StatesHold', chain' \in Chain, \A c \in Tasks : call'[c] = Idle
    PROVE  HoldInv'
<1>1. chain'.tip \in Nat
  BY DEF Chain
<1>2. ASSUME NEW c \in Tasks PROVE CallHolds(c, call[c])'
  BY <1>1 DEF CallHolds, CallPinned, KeepsPlace, Replaying, Fits, Idle, Empty
<1>3. QED
  BY <1>2 DEF HoldInv

LEMMA OpenHolds ==
    ASSUME SyncInv, HoldInv, Open
    PROVE  HoldInv'
<1>1. /\ call[Boot].step = "commit"
      /\ disk' = Committed(Boot) /\ wallet' = Committed(Boot) /\ up' = TRUE
      /\ Leave(Boot)
      /\ UNCHANGED <<chain, saveFailed, crashes>>
      /\ UNCHANGED ghosts
  BY DEF Open
<1>2. \A c \in Tasks : call'[c] = Idle
  BY <1>1, OpeningFacts DEF Leave, Goto, SyncInv, TypeOK, Tasks
<1>3. /\ Fits(disk') /\ Holds(disk', found) /\ disk' # NoSnapshot
      /\ ~Unpinned => disk'.pin # NoPin
  BY <1>1, OpenedHolds
<1>4. StatesHold'
  BY <1>1, <1>3 DEF HoldInv, StatesHold, Holds, Sees, Fits, RescanCoins, ghosts
<1>5. QED
  BY <1>1, <1>2, <1>4, AllIdleHolds DEF SyncInv, TypeOK

LEMMA CrashHolds ==
    ASSUME SyncInv, HoldInv, Crash
    PROVE  HoldInv'
<1>1. /\ wallet' = Empty /\ call' = [c \in Tasks |-> Idle] /\ crashes < MaxCrashes
      /\ up' = FALSE /\ crashes' = crashes + 1
      /\ UNCHANGED <<chain, disk>> /\ UNCHANGED ghosts
  BY DEF Crash
<1>2. crashes \in Nat /\ chain \in Chain /\ chain.tip \in Nat
  BY DEF SyncInv, TypeOK, Chain
<1>3. Fits(wallet)'
  BY <1>1, <1>2 DEF Fits, Empty
<1>4. crashes' <= MaxCrashes /\ crashes' # 0
  BY <1>1, <1>2, BoundAssumption
<1>5. StatesHold'
  BY <1>1, <1>3, <1>4 DEF HoldInv, StatesHold, Holds, Sees, Fits, RescanCoins, ghosts
<1>6. QED
  BY <1>1, <1>2, <1>5, AllIdleHolds

(* The chain grows, forks, or is replaced: a new output is past every      *)
(* state of the chain, and no state is of a chain that has just begun.     *)
LEMMA ChainHolds ==
    ASSUME SyncInv, HoldInv, Emit \/ Fork \/ Swap
    PROVE  HoldInv'
<1> DEFINE States == State \cup {NoSnapshot}
<1>1. chain \in Chain /\ chain.id \in Nat /\ chain.tip \in Nat /\ \A k \in Coins : chain.out[k] \in Nat
  BY DEF SyncInv, TypeOK, Chain
<1>2. \A s \in States : s.of \subseteq Nat /\ s.cursor \in Nat
  BY DEF State, NoSnapshot, Empty
<1>3. /\ UNCHANGED <<wallet, up, saveFailed, disk, sync, call, crashes, kept, dropped>>
      /\ found' \in {found, {}}
  BY DEF Emit, Fork, Swap, ghosts
<1>4. \/ /\ chain'.id = chain.id /\ chain'.tip >= chain.tip /\ chain'.tip \in Nat
         /\ \A k \in Coins : chain'.out[k] = chain.out[k] \/ chain'.out[k] > chain.tip
      \/ chain'.id > chain.id /\ chain'.id \in Nat /\ chain'.tip = 0
  <2>1. CASE Emit
    <3>1. PICK k \in SUBSET Coins :
            chain' = [chain EXCEPT !.tip = @ + 1,
                                   !.out = [c \in Coins |->
                                       IF c \in k THEN chain.tip + 1 ELSE @[c]]]
      BY <2>1, Zenon DEF Emit
    <3> DEFINE tip == chain.tip + 1
               out == [c \in Coins |-> IF c \in k THEN tip ELSE chain.out[c]]
    <3>2. tip \in Nat /\ tip > chain.tip
          /\ \A c \in Coins : out[c] = chain.out[c] \/ out[c] = tip
      BY <1>1
    <3>3. chain' = [chain EXCEPT !.tip = tip, !.out = out]
      BY <3>1
    <3> HIDE DEF tip, out
    <3>4. chain'.id = chain.id /\ chain'.tip = tip /\ chain'.out = out
      BY <1>1, <3>3 DEF Chain
    <3>5. chain'.tip >= chain.tip /\ chain'.tip \in Nat
      BY <1>1, <3>2, <3>4
    <3>6. ASSUME NEW k1 \in Coins PROVE chain'.out[k1] = chain.out[k1] \/ chain'.out[k1] > chain.tip
      BY <1>1, <3>2, <3>4
    <3>7. QED
      BY <3>4, <3>5, <3>6
  <2>2. CASE Fork
    BY <1>1, <2>2 DEF Fork, Chain
  <2>3. CASE Swap
    BY <1>1, <2>3 DEF Swap, NewChain
  <2>4. QED
    BY <2>1, <2>2, <2>3
<1>5. \A s \in States : Fits(s) => Fits(s)'
  BY <1>1, <1>2, <1>4 DEF Fits
<1> DEFINE Later(s, sought) ==
             s.of \subseteq {chain'.id} =>
                 \A k \in sought : chain'.out[k] \in 1..s.cursor => k \in s.coins
<1>6. \A s \in States : \A sought \in SUBSET Coins :
        Fits(s) /\ Sees(s, sought) => Later(s, sought)
  <2> SUFFICES ASSUME NEW s \in States, NEW sought \in SUBSET Coins, Fits(s), Sees(s, sought),
                      s.of \subseteq {chain'.id}, NEW k \in sought, chain'.out[k] \in 1..s.cursor
      PROVE  k \in s.coins
    OBVIOUS
  <2>1. CASE chain'.id = chain.id
    <3>1. s.cursor <= chain.tip /\ chain'.out[k] <= s.cursor
      BY <1>2, <2>1 DEF Fits
    <3>2. chain'.out[k] = chain.out[k]
      BY <1>1, <1>2, <1>4, <2>1, <3>1
    <3>3. QED
      BY <2>1, <3>2 DEF Sees
  <2>2. CASE chain'.id > chain.id
    <3>1. s.of = {}
      BY <1>1, <1>2, <2>2 DEF Fits
    <3>2. QED
      BY <3>1 DEF Fits
  <2>3. QED
    BY <1>1, <1>4, <2>1, <2>2
<1>7. wallet \in States /\ disk \in States /\ found \in SUBSET Coins
  BY DEF SyncInv, TypeOK
<1>8. StatesHold'
  <2>1. Fits(wallet)' /\ Fits(disk)'
    BY <1>3, <1>5, <1>7 DEF HoldInv, StatesHold, Fits
  <2>2. (up => Holds(wallet, found))' /\ Holds(disk, found)'
    <3>1. /\ Fits(wallet) /\ (up => Holds(wallet, found))
          /\ Fits(disk) /\ Holds(disk, found)
      BY DEF HoldInv, StatesHold
    <3>2. /\ up /\ Durable => Later(wallet, found)
          /\ Durable => Later(disk, found)
      BY <1>6, <1>7, <3>1 DEF Holds
    <3>3. QED
      BY <1>3, <3>1, <3>2 DEF Holds, Sees, RescanCoins, Durable
  <2>3. QED
    BY <1>3, <2>1, <2>2 DEF HoldInv, StatesHold, RescanCoins
<1>9. ASSUME NEW c \in Tasks PROVE CallHolds(c, call[c])'
  <2>1. CallHolds(c, call[c]) /\ call'[c] = call[c]
    BY <1>3 DEF HoldInv
  <2>2. call[c].from \in States /\ call[c].state \in States /\ Sought(call[c]) \in SUBSET Coins
    BY HoldFacts
  <2>3. Fits(call[c].from)' /\ Fits(call[c].state)'
    BY <1>5, <2>1, <2>2 DEF CallHolds, Fits
  <2>4. Sought(call[c])' \subseteq Sought(call[c])
    BY <1>3, <2>1 DEF Sought
  <2>5. ASSUME Replaying(call[c])
        PROVE  Holds(call[c].from, Sought(call[c]))' /\ Holds(call[c].state, Sought(call[c]))'
    <3>1. /\ Holds(call[c].from, Sought(call[c])) /\ Holds(call[c].state, Sought(call[c]))
          /\ Fits(call[c].from) /\ Fits(call[c].state)
      BY <2>1, <2>5 DEF CallHolds
    <3>2. Durable => Later(call[c].from, Sought(call[c])) /\ Later(call[c].state, Sought(call[c]))
      BY <1>6, <2>2, <3>1 DEF Holds
    <3>3. QED
      BY <1>3, <2>1, <2>4, <3>1, <3>2 DEF Holds, Sees, RescanCoins, Durable
  <2>6. ~Unpinned => CallPinned(c, call[c])'
    BY <1>3, <2>1 DEF CallHolds, CallPinned, KeepsPlace, Replaying
  <2>7. KeepsPlace(call[c])'
    <3>1. KeepsPlace(call[c]) /\ call[c].state.cursor \in Nat /\ Fits(wallet)
      BY <1>2, <2>1, <2>2 DEF CallHolds, HoldInv, StatesHold
    <3>2. chain'.id = chain.id \/ wallet.of = {} \/ ~(wallet.of \subseteq {chain'.id})
      BY <1>1, <1>2, <1>4, <1>7, <3>1 DEF Fits
    <3>3. wallet.of = {} => wallet.cursor <= call[c].state.cursor
      BY <3>1 DEF Fits
    <3>4. QED
      BY <1>3, <2>1, <3>1, <3>2, <3>3 DEF KeepsPlace, Replaying
  <2>8. QED
    BY <1>3, <2>1, <2>3, <2>5, <2>6, <2>7 DEF CallHolds, Replaying, RescanCoins
<1>10. QED
  BY <1>8, <1>9 DEF HoldInv

(***************************************************************************)
(* The theorems about the coins                                            *)
(***************************************************************************)

LEMMA InitHolds == Init => HoldInv
<1> SUFFICES ASSUME Init PROVE HoldInv
  OBVIOUS
<1>1. chain \in Chain /\ chain.tip \in Nat /\ MaxCrashes \in Nat
  BY InitInv, BoundAssumption DEF SyncInv, TypeOK, Chain
<1>2. StatesHold
  BY <1>1 DEF Init, StatesHold, Fits, Holds, Sees, RescanCoins, NoSnapshot, Empty
<1>3. ASSUME NEW c \in Tasks PROVE CallHolds(c, call[c])
  BY <1>1, IdleHolds DEF Init
<1>4. QED
  BY <1>2, <1>3 DEF HoldInv

LEMMA NextHolds == SyncInv /\ HoldInv /\ [Next]_vars => HoldInv'
<1> SUFFICES ASSUME SyncInv, HoldInv, [Next]_vars PROVE HoldInv'
  OBVIOUS
<1>1. ASSUME NEW c \in Callers, StartSync(c) \/ StartWatch(c) \/ Forget(c) PROVE HoldInv'
  BY <1>1, StartSyncHolds, StartWatchHolds, ForgetHolds
<1>2. CASE StartOpen \/ Checkpoint \/ Open
  BY <1>2, StartOpenHolds, CheckpointHolds, OpenHolds
<1>3. ASSUME NEW c \in Tasks, Step(c) \/ Abort(c) PROVE HoldInv'
  <2>1. CASE TakePin(c) \/ CheckPin(c) \/ Plan(c) \/ ReadBlock(c) \/ Replay(c)
    BY <2>1, TakePinHolds, CheckPinHolds, PlanStepHolds, ReadBlockHolds, ReplayHolds
  <2>2. CASE MeetLater(c) \/ MeetEarlier(c) \/ EndReplay(c)
    BY <2>2, MeetLaterHolds, MeetEarlierHolds, EndReplayHolds
  <2>3. CASE DustIsLater(c)
    BY <2>3, StartOverHolds DEF DustIsLater
  <2>4. CASE ChainReplaced(c) \/ SnapshotTooNew(c) \/ ReplayFails(c) \/ Abort(c)
    BY <2>4, EndsHolds
  <2>5. CASE Commit(c) \/ MovePin(c)
    BY <2>5, CommitHolds, MovePinHolds
  <2>6. QED
    BY <1>3, <2>1, <2>2, <2>3, <2>4, <2>5 DEF Step
<1>4. CASE Environment
  BY <1>4, ChainHolds, CrashHolds DEF Environment
<1>5. CASE UNCHANGED vars
  BY <1>5
  DEF vars, HoldInv, StatesHold, CallHolds, CallPinned, KeepsPlace, Replaying, Sought, Holds,
      Sees, Fits, RescanCoins
<1>6. QED
  BY <1>1, <1>2, <1>3, <1>4, <1>5 DEF Next

LEMMA Holding == Spec => []HoldInv
<1>1. Init => SyncInv /\ HoldInv
  BY InitInv, InitHolds
<1>2. SyncInv /\ HoldInv /\ [Next]_vars => (SyncInv /\ HoldInv)'
  BY NextInv, NextHolds
<1>3. QED
  BY <1>1, <1>2, PTL DEF Spec

(* "a registration dropped here would come back" (forget_coins): it does   *)
(* not, not through a resync in flight, a failed save, or a crash, pinned  *)
(* or not, however many coins, callers and chains there are.               *)
THEOREM ForgottenStaysForgotten == Spec => []ForgottenStays
<1>1. HoldInv => ForgottenStays
  BY DEF HoldInv, StatesHold, Holds, RescanCoins, ForgottenStays
<1>2. QED
  BY <1>1, Holding, PTL

(* A registration that a save took is registered or claimed for good, on   *)
(* disk and in every wallet that opens from it, until it is forgotten, when*)
(* every first sync is pinned or the process does not die.                 *)
THEOREM RegistrationsAreKept ==
    ASSUME Durable
    PROVE  Spec => []RegistrationKept
<1>1. HoldInv => RegistrationKept
  BY DEF HoldInv, StatesHold, Holds, RescanCoins, RegistrationKept
<1>2. QED
  BY <1>1, Holding, PTL

(* A coin that watch_for_coins returned Ok for is held once the wallet has *)
(* replayed past its output, by a rescan, a resync, a rebuild or a restart,*)
(* when every first sync is pinned or the process does not die.            *)
THEOREM FoundCoinsAreHeld ==
    ASSUME Durable
    PROVE  Spec => []FoundIsHeld
<1>1. HoldInv => FoundIsHeld
  BY DEF HoldInv, StatesHold, Holds, Sees, FoundIsHeld, Alien
<1>2. QED
  BY <1>1, Holding, PTL

(* A resync or a rescan never takes a wallet back on its own chain: what   *)
(* starts over is committed only once it is past the wallet's cursor.      *)
THEOREM WalletKeepsItsPlace == Spec => KeepsItsPlace
<1>1. SyncInv /\ HoldInv /\ [Next]_vars
        => [up /\ up' /\ chain' = chain /\ ~Alien(wallet) => wallet'.cursor >= wallet.cursor]_vars
  <2> SUFFICES ASSUME SyncInv, HoldInv, Next, up, up', chain' = chain, ~Alien(wallet)
      PROVE  wallet'.cursor >= wallet.cursor
    BY DEF vars
  <2>1. wallet.cursor \in Nat /\ wallet \in State
    BY DEF SyncInv, TypeOK, State
  <2>2. ASSUME wallet'.cursor = wallet.cursor PROVE wallet'.cursor >= wallet.cursor
    BY <2>1, <2>2
  <2>3. ASSUME NEW c \in Callers, StartSync(c) \/ StartWatch(c) \/ Forget(c)
        PROVE  wallet'.cursor = wallet.cursor
    BY <2>1, <2>3 DEF StartSync, StartWatch, Forget, State
  <2>4. ASSUME StartOpen \/ Checkpoint \/ Environment PROVE wallet'.cursor = wallet.cursor
    BY <2>4 DEF StartOpen, Checkpoint, Environment, Emit, Fork, Swap, Crash
  <2>5. ~Open
    BY OpeningFacts DEF Open
  <2>6. ASSUME NEW c \in Tasks, Step(c) \/ Abort(c) PROVE wallet'.cursor >= wallet.cursor
    <3>1. CASE Commit(c)
      <4>1. c \in Callers /\ call[c].step = "commit" /\ call[c].run # "open" /\ wallet' = Committed(c)
        BY <3>1, CallFacts DEF Commit, CallOk
      <4>2. CallHolds(c, call[c]) /\ call[c].state \in State
        BY HoldFacts
      <4>3. Committed(c).cursor = call[c].state.cursor
        BY <4>1, <4>2, CallFacts DEF Committed, State, Call, Runs
      <4>4. wallet.cursor <= call[c].state.cursor
        BY <4>1, <4>2 DEF CallHolds, KeepsPlace, Alien
      <4>5. QED
        BY <4>1, <4>2, <4>3, <4>4, <2>1 DEF State
    <3>2. CASE MovePin(c)
      BY <2>1, <2>2, <3>2 DEF MovePin, State
    <3>3. CASE ~Commit(c) /\ ~MovePin(c)
      <4>1. wallet' = wallet
        BY <2>6, <3>3
        DEF Step, Abort, TakePin, CheckPin, ChainReplaced, Plan, ReadBlock, SnapshotTooNew,
            Replay, MeetLater, MeetEarlier, EndReplay, DustIsLater, ReplayFails
      <4>2. QED
        BY <2>2, <4>1
    <3>4. QED
      BY <3>1, <3>2, <3>3
  <2>7. QED
    BY <2>2, <2>3, <2>4, <2>5, <2>6 DEF Next
<1>2. QED
  BY <1>1, Invariance, Holding, PTL DEF Spec, KeepsItsPlace

=============================================================================
