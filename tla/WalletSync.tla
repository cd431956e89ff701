----------------------------- MODULE WalletSync -----------------------------
(***************************************************************************)
(* A wallet that stays attached while its chain grows, forks and is        *)
(* replaced: LocalWallet and the sync that opens it.                       *)
(*                                                                         *)
(* Every sync call takes the wallet's sync mutex, asks the node whether    *)
(* the chain pin still holds, plans under a short lock of the wallet,      *)
(* replays the indexer's shielded stream with no lock held, and commits    *)
(* under a short lock again.  Between two of these steps the chain can     *)
(* grow, fork or be replaced, a caller can drop its call, and the process  *)
(* can crash.  What the wallet holds is then the snapshot on disk.         *)
(*                                                                         *)
(* A state is a position in the event stream, the coins claimed up to it,  *)
(* and the registrations no output has matched yet.  The coins are those   *)
(* whose outputs carry nothing the wallet can read, so that only a         *)
(* registration claims them.  Coins it can read need none, and a replay    *)
(* from any state that saw their chain finds them.                         *)
(***************************************************************************)
EXTENDS Integers, FiniteSets

CONSTANTS
    Callers,        \* the tasks that call the wallet
    Boot,           \* the task that opens it
    Coins,          \* coins the wallet owns and cannot discover
    MaxChains,      \* bound: how many chains the node ever runs
    MaxEvents,      \* bound: shielded events on one chain
    MaxCrashes,     \* bound: how often the process dies
    WritesFail,     \* whether a save may fail
    Forks,          \* whether a chain may fork to ledger 9
    Unpinned        \* whether the first sync may go without a pin

ASSUME BootAssumption == Boot \notin Callers

ASSUME BoundAssumption ==
    /\ MaxChains \in Nat \ {0}
    /\ MaxEvents \in Nat
    /\ MaxCrashes \in Nat
    /\ WritesFail \in BOOLEAN
    /\ Forks \in BOOLEAN
    /\ Unpinned \in BOOLEAN

(* No chain pin, no fork. *)
NoPin == 0
NoFork == -1

Tasks == Callers \cup {Boot}

VARIABLES
    chain,      \* the chain that node and indexer serve
    wallet,     \* LocalWallet::inner
    up,         \* whether a wallet is open
    saveFailed, \* Wallet::save_failed
    disk,       \* the snapshot
    sync,       \* LocalWallet::sync: the tasks that hold it
    call,       \* where each task is in its call
    crashes,    \* bound on crashes
    kept,       \* coins whose registration a save took
    found,      \* coins whose watch_for_coins returned Ok on this chain
    dropped,    \* coins whose forget_coins returned Ok
    rebuilt,    \* the chain a rebuild returned Ok on, pinned to it
    unanswered  \* history: whether a check passed without an answer on this
                \* chain, with a pin of the chain in hand

ghosts == <<kept, found, dropped, rebuilt, unanswered>>
vars == <<chain, wallet, up, saveFailed, disk, sync, call, crashes, kept, found,
          dropped, rebuilt, unanswered>>

-----------------------------------------------------------------------------
(* Types *)

(* A chain pin is a block of one chain.  Its height plays no part: a block *)
(* that was finalized on a chain is on it at every later time.             *)
Pins == NoPin..MaxChains
Generations == {8, 9}

(* The event stream of a chain: how many events it has, after which one    *)
(* the ledger moved to generation 9, and which event carries the output of *)
(* each coin, 0 for none yet.                                              *)
Chain == [id: 1..MaxChains, tip: Nat, fork: Nat \cup {NoFork}, out: [Coins -> Nat]]

(* A wallet state.  `of` is the chains whose events it applied, which the  *)
(* code does not record: the pin stands for it.                            *)
State == [gen: Generations, cursor: Nat, coins: SUBSET Coins, regs: SUBSET Coins,
          of: SUBSET (1..MaxChains), pin: Pins]

Empty == [gen |-> 8, cursor |-> 0, coins |-> {}, regs |-> {}, of |-> {}, pin |-> NoPin]

NoSnapshot == [Empty EXCEPT !.gen = 0]

(* delta: a resync from the cursors.  genesis: a resync that rebuilds.     *)
(* rescan: a shielded rescan.  open: WalletBuilder::sync.                  *)
Runs == {"delta", "genesis", "rescan", "open"}
Steps == {"idle", "replace", "check", "plan", "block", "replay", "commit", "pin"}

(* A call.  `run` is what it replays now, `rescan` whether a rescan waits  *)
(* for this resync to cross a fork, `coin` what it watches for, `pin` the  *)
(* pin it checks and `fresh` the replacement.  `from` is the plan, `state` *)
(* what the replay made of it.  `block` is the generation of the latest    *)
(* block it read, `cross` whether the replay crosses forks, and `again`    *)
(* whether a fork made it start over.                                      *)
Call == [step: Steps, run: Runs, rescan: BOOLEAN, coin: SUBSET Coins, pin: Pins,
         fresh: Pins, from: State, state: State, block: Generations,
         cross: BOOLEAN, again: BOOLEAN]

Idle == [step |-> "idle", run |-> "delta", rescan |-> FALSE, coin |-> {}, pin |-> NoPin,
         fresh |-> NoPin, from |-> Empty, state |-> Empty, block |-> 8,
         cross |-> FALSE, again |-> FALSE]

TypeOK ==
    /\ chain \in Chain
    /\ wallet \in State
    /\ up \in BOOLEAN
    /\ saveFailed \in BOOLEAN
    /\ disk \in State \cup {NoSnapshot}
    /\ sync \subseteq Callers
    /\ \A c, d \in sync : c = d
    /\ call \in [Tasks -> Call]
    /\ crashes \in Nat
    /\ kept \subseteq Coins
    /\ found \subseteq Coins
    /\ dropped \subseteq Coins
    /\ rebuilt \in Pins
    /\ unanswered \in BOOLEAN

-----------------------------------------------------------------------------
(* The chain *)

NewChain(id, fork) ==
    [id |-> id, tip |-> 0, fork |-> fork, out |-> [k \in Coins |-> 0]]

(* The generation of the indexer's latest block. *)
ChainGen == IF chain.fork = NoFork THEN 8 ELSE 9

(* The generation of an event. *)
EventGen(i) == IF chain.fork # NoFork /\ i > chain.fork THEN 9 ELSE 8

(* One more event, which may carry the output of a coin. *)
Emit ==
    /\ chain.tip < MaxEvents
    /\ \E k \in SUBSET Coins :
         /\ Cardinality(k) <= 1
         /\ \A c \in k : chain.out[c] = 0
         /\ chain' = [chain EXCEPT !.tip = @ + 1,
                                   !.out = [c \in Coins |->
                                       IF c \in k THEN chain.tip + 1 ELSE @[c]]]
    /\ UNCHANGED <<wallet, up, saveFailed, disk, sync, call, crashes>>
    /\ UNCHANGED ghosts

(* The hard fork to ledger 9. *)
Fork ==
    /\ Forks
    /\ chain.fork = NoFork
    /\ chain' = [chain EXCEPT !.fork = chain.tip]
    /\ UNCHANGED <<wallet, up, saveFailed, disk, sync, call, crashes>>
    /\ UNCHANGED ghosts

(* The node and the indexer run another chain from now on, as a reset      *)
(* development network does.                                               *)
Swap ==
    /\ chain.id < MaxChains
    /\ \E fork \in {NoFork} \cup (IF Forks THEN {0} ELSE {}) :
         chain' = NewChain(chain.id + 1, fork)
    /\ found' = {}
    /\ rebuilt' = NoPin
    /\ unanswered' = FALSE
    /\ UNCHANGED <<wallet, up, saveFailed, disk, sync, call, crashes, kept, dropped>>

-----------------------------------------------------------------------------
(* Calls *)

(* Mutant of SyncFree: calls do not exclude each other. *)
SyncFreeAlways == TRUE

(* The sync mutex is free. *)
SyncFree == sync = {}

Goto(c, next) == call' = [call EXCEPT ![c] = next]

(* A call that returns, with or without an error, or whose caller drops    *)
(* it: the guard of the sync mutex goes with its future.                   *)
Leave(c) ==
    /\ Goto(c, Idle)
    /\ sync' = sync \ {c}

(* The first step of a resync or a rescan that holds the sync mutex: a     *)
(* wallet without a pin checks nothing, and only a resync takes a          *)
(* replacement pin.                                                        *)
Entry(run, pin) ==
    IF pin = NoPin THEN "plan" ELSE IF run = "rescan" THEN "check" ELSE "replace"

Begin(c, run, coin, pin) ==
    Goto(c, [call[c] EXCEPT !.run = run, !.coin = coin, !.pin = pin,
                            !.step = Entry(run, pin)])

MayCall(c) == c \in Callers /\ up /\ call[c].step = "idle" /\ SyncFree

(* resync, of the caller or of the background task, resync_from_genesis    *)
(* and rescan_shielded.                                                    *)
StartSync(c) ==
    /\ MayCall(c)
    /\ \E run \in Runs \ {"open"} : Begin(c, run, {}, wallet.pin)
    /\ sync' = sync \cup {c}
    /\ UNCHANGED <<chain, wallet, up, saveFailed, disk, crashes>>
    /\ UNCHANGED ghosts

(* Save the wallet `w` when it changed or the last save failed.            *)
Persist(w, changed, ok) ==
    IF changed \/ saveFailed
    THEN /\ ok \/ WritesFail
         /\ disk' = IF ok THEN w ELSE disk
         /\ saveFailed' = ~ok
    ELSE ok /\ UNCHANGED <<disk, saveFailed>>

(* watch_for_coins: register, save, and then rescan under the same hold of *)
(* the sync mutex.  A save that fails ends the call and leaves the         *)
(* registration in memory.                                                 *)
StartWatch(c) ==
    /\ MayCall(c)
    /\ \E k \in Coins, ok \in BOOLEAN :
         /\ wallet' = [wallet EXCEPT !.regs = @ \cup {k}]
         /\ Persist(wallet', TRUE, ok)
         /\ dropped' = dropped \ {k}
         /\ IF ok
            THEN /\ Begin(c, "rescan", {k}, wallet.pin)
                 /\ sync' = sync \cup {c}
                 /\ kept' = kept \cup {k}
            ELSE UNCHANGED <<call, sync, kept>>
    /\ UNCHANGED <<chain, up, crashes, found, rebuilt, unanswered>>

(* forget_coins: drop the registration.  A coin the wallet holds stays.    *)
Forget(c) ==
    /\ MayCall(c)
    /\ \E k \in Coins, ok \in BOOLEAN :
         /\ wallet' = [wallet EXCEPT !.regs = @ \ {k}]
         /\ Persist(wallet', k \in wallet.regs, ok)
         /\ dropped' = IF ok /\ k \notin wallet.coins THEN dropped \cup {k} ELSE dropped
         /\ kept' = kept \ {k}
         /\ found' = found \ {k}
    /\ UNCHANGED <<chain, up, sync, call, crashes, rebuilt, unanswered>>

-----------------------------------------------------------------------------
(* The chain pin *)

(* The replacement pin, taken before the check.  A node that cannot answer *)
(* gives none, and a sync without a snapshot or a stored pin checks        *)
(* nothing.                                                                *)
TakePin(c) ==
    /\ call[c].step = "replace"
    /\ \E fresh \in {NoPin, chain.id} :
         /\ call[c].run = "open" /\ disk = NoSnapshot /\ ~Unpinned => fresh # NoPin
         /\ IF call[c].run = "open"
            THEN Goto(c, [call[c] EXCEPT !.fresh = fresh, !.pin = disk.pin,
                                         !.step = IF disk.pin = NoPin THEN "block" ELSE "check"])
            ELSE Goto(c, [call[c] EXCEPT !.fresh = fresh, !.step = "check"])
    /\ UNCHANGED <<chain, wallet, up, saveFailed, disk, sync, crashes>>
    /\ UNCHANGED ghosts

(* The pin is of the present chain.  A rebuild goes on over a replaced one.*)
PinHolds(c) == call[c].pin = chain.id \/ call[c].run = "genesis"

(* require_same_chain.  A node that has no answer for the pinned block,    *)
(* whether or not it named a finalized block before, lets the call go on   *)
(* with the replacement pin it may have.                                   *)
CheckPin(c) ==
    /\ call[c].step = "check"
    /\ \/ PinHolds(c) /\ UNCHANGED unanswered
       \/ ~PinHolds(c) /\ unanswered' = (unanswered \/ call[c].fresh = chain.id)
    /\ Goto(c, [call[c] EXCEPT !.step = IF call[c].run = "open" THEN "block" ELSE "plan"])
    /\ UNCHANGED <<chain, wallet, up, saveFailed, disk, sync, crashes>>
    /\ UNCHANGED <<kept, found, dropped, rebuilt>>

(* ChainMismatch: the node answers that another block is at its height. *)
ChainReplaced(c) ==
    /\ call[c].step = "check"
    /\ ~PinHolds(c)
    /\ Leave(c)
    /\ UNCHANGED <<chain, wallet, up, saveFailed, disk, crashes>>
    /\ UNCHANGED ghosts

-----------------------------------------------------------------------------
(* Plan and replay *)

(* Mutant of RescanCoins: only the coins still registered. *)
RescanCoinsPending(w) == w.regs

(* What a state rebuilt from the first event must be told: the coins still *)
(* registered, and the coins the wallet holds, whose registrations the     *)
(* replay that claimed them consumed.                                      *)
RescanCoins(w) == w.regs \cup w.coins

(* Mutant of PlanOf: a rescan resumes at the cursor. *)
PlanOfResumed(run, w) ==
    IF run # "genesis" THEN w
    ELSE [w EXCEPT !.gen = 8, !.cursor = 0, !.coins = {}, !.regs = RescanCoins(w), !.of = {}]

(* Where a replay starts: at the cursors, or at the first event with the   *)
(* wallet's coins registered.  A rebuild starts in the earliest            *)
(* generation, a rescan in the wallet's own.                               *)
PlanOf(run, w) ==
    IF run = "delta" THEN w
    ELSE [w EXCEPT !.gen = IF run = "genesis" THEN 8 ELSE @,
                   !.cursor = 0, !.coins = {}, !.regs = RescanCoins(w), !.of = {}]

(* Only a resync of a ledger 8 wallet and a rebuild read the latest block  *)
(* before they replay.                                                     *)
Plan(c) ==
    /\ call[c].step = "plan"
    /\ LET run  == call[c].run
           from == PlanOf(run, wallet)
       IN  Goto(c, [call[c] EXCEPT !.from = from, !.state = from, !.block = ChainGen,
                                   !.cross = run = "genesis",
                                   !.again = call[c].again /\ run = "rescan",
                                   !.step = IF run = "genesis" \/ (run = "delta" /\ wallet.gen = 8) THEN "block" ELSE "replay"])
    /\ UNCHANGED <<chain, wallet, up, saveFailed, disk, sync, crashes>>
    /\ UNCHANGED ghosts

(* Whether an opening sync drops a snapshot: nothing shows which chain     *)
(* counted its cursors, and this sync can write one that says.             *)
Discards(fresh, pin) == fresh # NoPin /\ pin = NoPin

Loaded(c) ==
    IF disk = NoSnapshot \/ Discards(call[c].fresh, disk.pin) THEN Empty ELSE disk

(* Read the latest block.  A ledger 8 plan on a ledger 9 chain crosses,    *)
(* and an opening sync loads its snapshot, which a chain of an earlier     *)
(* generation refuses.                                                     *)
ReadBlock(c) ==
    /\ call[c].step = "block"
    /\ LET from == IF call[c].run = "open" THEN Loaded(c) ELSE call[c].from
       IN  /\ call[c].run = "open" /\ disk # NoSnapshot => disk.gen <= ChainGen
           /\ Goto(c, [call[c] EXCEPT !.from = from, !.state = from,
                                      !.block = ChainGen,
                                      !.cross = call[c].cross \/ call[c].run = "open" \/ ChainGen = 9,
                                      !.step = "replay"])
    /\ UNCHANGED <<chain, wallet, up, saveFailed, disk, sync, crashes>>
    /\ UNCHANGED ghosts

(* LedgerRegression. *)
SnapshotTooNew(c) ==
    /\ call[c].step = "block"
    /\ call[c].run = "open"
    /\ disk.gen > ChainGen
    /\ Leave(c)
    /\ UNCHANGED <<chain, wallet, up, saveFailed, disk, crashes>>
    /\ UNCHANGED ghosts

(* The state after the events up to `to`. *)
Applied(s, to) ==
    LET met == {k \in Coins : chain.out[k] \in (s.cursor + 1)..to}
    IN  [s EXCEPT !.cursor = to,
                  !.coins = @ \cup (met \cap s.regs),
                  !.regs = @ \ met,
                  !.of = @ \cup {chain.id}]

(* One connection reads some events of the state's own generation.  Before *)
(* the next one the chain may grow or be replaced.                         *)
Replay(c) ==
    /\ call[c].step = "replay"
    /\ LET s == call[c].state
       IN  \E to \in (s.cursor + 1)..chain.tip :
             /\ \A i \in (s.cursor + 1)..to : EventGen(i) = s.gen
             /\ Goto(c, [call[c] EXCEPT !.state = Applied(s, to)])
    /\ UNCHANGED <<chain, wallet, up, saveFailed, disk, sync, crashes>>
    /\ UNCHANGED ghosts

(* The stream's next event is of another generation. *)
NextGen(c) ==
    LET i == call[c].state.cursor + 1
    IN  IF i <= chain.tip THEN EventGen(i) ELSE call[c].state.gen

(* Mutant of StartOver: the crossing resync waits for the mutex that the   *)
(* call holds.                                                             *)
StartOverLocked(c) ==
    IF call[c].run = "rescan" /\ ~call[c].again
    THEN Goto(c, [call[c] EXCEPT !.step = "locked"]) /\ UNCHANGED sync
    ELSE Leave(c)

(* A sync that met a later generation than it reads starts over, once.  A  *)
(* ledger 8 resync then crosses, and a rescan first crosses with a resync  *)
(* under the same hold of the sync mutex.                                  *)
StartOver(c) ==
    IF call[c].run = "delta"
    THEN Goto(c, [call[c] EXCEPT !.cross = TRUE, !.step = "block"]) /\ UNCHANGED sync
    ELSE IF call[c].again THEN Leave(c)
    ELSE /\ UNCHANGED sync
         /\ IF call[c].run = "rescan"
            THEN Goto(c, [call[c] EXCEPT !.run = "delta", !.rescan = TRUE,
                                         !.pin = wallet.pin,
                                         !.step = Entry("delta", wallet.pin)])
            ELSE Goto(c, [call[c] EXCEPT !.again = TRUE, !.step = "block"])

MeetLater(c) ==
    /\ call[c].step = "replay"
    /\ NextGen(c) > call[c].state.gen
    /\ IF call[c].cross
       THEN Goto(c, [call[c] EXCEPT !.state = [call[c].state EXCEPT !.gen = 9]]) /\ UNCHANGED sync
       ELSE StartOver(c)
    /\ UNCHANGED <<chain, wallet, up, saveFailed, disk, crashes>>
    /\ UNCHANGED ghosts

(* An earlier generation: a rescan starts over from that generation and    *)
(* crosses, any other replay fails.                                        *)
MeetEarlier(c) ==
    /\ call[c].step = "replay"
    /\ NextGen(c) < call[c].state.gen
    /\ IF call[c].run = "rescan" /\ ~call[c].cross
       THEN /\ Goto(c, [call[c] EXCEPT !.state = [call[c].from EXCEPT !.gen = 8],
                                       !.cross = TRUE])
            /\ UNCHANGED sync
       ELSE Leave(c)
    /\ UNCHANGED <<chain, wallet, up, saveFailed, disk, crashes>>
    /\ UNCHANGED ghosts

(* The replay has read the last event, or a resume hears nothing at all    *)
(* from the indexer and takes that for the tip.                            *)
AtTip(c) == call[c].state.cursor >= chain.tip

(* Mutant of Silent: a rescan reads silence as a resume does. *)
SilentRescan(c) == call[c].run # "genesis" /\ call[c].state.cursor = call[c].from.cursor

Silent(c) ==
    /\ call[c].run = "delta" \/ (call[c].run = "open" /\ call[c].from # Empty)
    /\ \/ call[c].state.cursor = call[c].from.cursor
       \/ call[c].state.gen # call[c].from.gen /\ call[c].state.cursor = chain.fork

(* What the replay ends in, in the generation `target`. *)
EndIn(c, target) ==
    /\ Goto(c, [call[c] EXCEPT !.state.gen = target, !.step = "commit"])
    /\ UNCHANGED sync

(* A resync in its own generation reads the latest block while it replays, *)
(* so that block is of any time since.  A crossing resync carries the      *)
(* state to ledger 9 or fails.  The other syncs carry it to the generation *)
(* of the block they read, and start over when the stream went further.    *)
EndReplay(c) ==
    /\ call[c].step = "replay"
    /\ AtTip(c) \/ Silent(c)
    /\ LET s == call[c].state
           b == call[c].block
       IN  CASE call[c].run = "rescan" -> EndIn(c, call[c].from.gen)
             [] call[c].run = "delta" /\ call[c].cross ->
                  IF b = 9 THEN EndIn(c, 9) ELSE Leave(c)
             [] call[c].run = "delta" /\ ~call[c].cross ->
                  \E seen \in {b, ChainGen} :
                     IF seen = s.gen THEN EndIn(c, seen)
                     ELSE IF seen > s.gen THEN StartOver(c) ELSE Leave(c)
             [] OTHER -> IF s.gen > b THEN StartOver(c) ELSE EndIn(c, b)
    /\ UNCHANGED <<chain, wallet, up, saveFailed, disk, crashes>>
    /\ UNCHANGED ghosts

(* A rebuild and an opening sync replay Dust last, and start over when it  *)
(* is of a later generation than the block they read.                      *)
DustIsLater(c) ==
    /\ call[c].step = "commit"
    /\ call[c].run \in {"genesis", "open"}
    /\ ChainGen > call[c].block
    /\ StartOver(c)
    /\ UNCHANGED <<chain, wallet, up, saveFailed, disk, crashes>>
    /\ UNCHANGED ghosts

(* The indexer fails the replay for good, or the events do not apply.      *)
ReplayFails(c) ==
    /\ \/ call[c].step \in {"block", "replay"}
       \/ call[c].step = "commit" /\ call[c].run \in {"genesis", "open"}
    /\ Leave(c)
    /\ UNCHANGED <<chain, wallet, up, saveFailed, disk, crashes>>
    /\ UNCHANGED ghosts

-----------------------------------------------------------------------------
(* Commit *)

(* The wallet after the commit.  A resync and a crossing keep the pin the  *)
(* wallet has, a rebuild the one its plan read, and an opening sync takes  *)
(* the fresh pin or keeps the snapshot's.                                  *)
Committed(c) ==
    CASE call[c].run \in {"delta", "rescan"} -> [call[c].state EXCEPT !.pin = wallet.pin]
      [] call[c].run = "genesis" -> call[c].state
      [] call[c].run = "open" ->
           [call[c].state EXCEPT !.pin = IF call[c].fresh # NoPin THEN call[c].fresh ELSE @]

(* A resync saves when a cursor or the parameters moved, the others always *)
(* do.  `moved` is whether one moved that this model does not keep.        *)
Changed(c, moved) ==
    \/ call[c].run # "delta"
    \/ call[c].state.cursor # wallet.cursor
    \/ call[c].state.gen # wallet.gen
    \/ moved

(* The end of a resync or a rescan without an error: a rescan that waited  *)
(* for it goes on, and any other call returns.                             *)
Finish(c) ==
    LET this == call[c]
    IN  IF this.rescan
        THEN /\ Goto(c, [this EXCEPT !.run = "rescan", !.rescan = FALSE, !.again = TRUE,
                                     !.fresh = NoPin, !.step = "plan"])
             /\ UNCHANGED <<sync, found, rebuilt>>
        ELSE /\ Leave(c)
             /\ found' = IF this.run = "rescan" THEN found \cup this.coin ELSE found
             /\ rebuilt' = IF this.run = "genesis" /\ this.fresh = chain.id
                           THEN chain.id ELSE rebuilt

(* commit_resync and commit_shielded_rescan.  A commit for a wallet of     *)
(* another generation than its plan's is refused, but the mutex lets none  *)
(* commit in between.                                                      *)
Commit(c) ==
    /\ call[c].step = "commit"
    /\ call[c].run # "open"
    /\ wallet' = Committed(c)
    /\ \E ok, moved \in BOOLEAN :
         /\ Persist(wallet', Changed(c, moved), ok)
         /\ IF ~ok THEN Leave(c) /\ UNCHANGED <<found, rebuilt>>
            ELSE IF call[c].fresh = NoPin THEN Finish(c)
            ELSE /\ Goto(c, [call[c] EXCEPT !.step = "pin"])
                 /\ UNCHANGED <<sync, found, rebuilt>>
    /\ UNCHANGED <<chain, up, crashes, kept, dropped, unanswered>>

(* Mutant of MovePin: the pin is taken after the commit. *)
MovePinLate(c) ==
    /\ call[c].step = "pin"
    /\ wallet' = [wallet EXCEPT !.pin = chain.id]
    /\ Finish(c)
    /\ UNCHANGED <<chain, up, saveFailed, disk, crashes, kept, dropped, unanswered>>

(* set_chain_pin, which saves nothing: the next commit that does takes the *)
(* pin to the disk.                                                        *)
MovePin(c) ==
    /\ call[c].step = "pin"
    /\ wallet' = [wallet EXCEPT !.pin = call[c].fresh]
    /\ Finish(c)
    /\ UNCHANGED <<chain, up, saveFailed, disk, crashes, kept, dropped, unanswered>>

-----------------------------------------------------------------------------
(* Opening, dropping a call, dying *)

(* WalletBuilder::sync, with its pin or unpinned.                          *)
StartOpen ==
    /\ ~up
    /\ call[Boot].step = "idle"
    /\ \/ Goto(Boot, [Idle EXCEPT !.run = "open", !.step = "replace"])
       \/ /\ disk # NoSnapshot \/ Unpinned
          /\ Goto(Boot, [Idle EXCEPT !.run = "open", !.step = "block"])
    /\ UNCHANGED <<chain, wallet, up, saveFailed, disk, sync, crashes>>
    /\ UNCHANGED ghosts

(* A Dust checkpoint saves what the shielded replay reached. *)
Checkpoint ==
    /\ call[Boot].step = "commit"
    /\ disk' = Committed(Boot)
    /\ UNCHANGED <<chain, wallet, up, saveFailed, sync, call, crashes>>
    /\ UNCHANGED ghosts

Open ==
    /\ call[Boot].step = "commit"
    /\ disk' = Committed(Boot)
    /\ wallet' = Committed(Boot)
    /\ up' = TRUE
    /\ Leave(Boot)
    /\ UNCHANGED <<chain, saveFailed, crashes>>
    /\ UNCHANGED ghosts

(* A caller drops its call, and the handle of a background sync aborts it. *)
Abort(c) ==
    /\ call[c].step # "idle"
    /\ Leave(c)
    /\ UNCHANGED <<chain, wallet, up, saveFailed, disk, crashes>>
    /\ UNCHANGED ghosts

Crash ==
    /\ crashes < MaxCrashes
    /\ up
    /\ up' = FALSE
    /\ wallet' = Empty
    /\ saveFailed' = FALSE
    /\ sync' = {}
    /\ call' = [c \in Tasks |-> Idle]
    /\ crashes' = crashes + 1
    /\ UNCHANGED <<chain, disk>>
    /\ UNCHANGED ghosts

-----------------------------------------------------------------------------
(* The specification *)

Init ==
    /\ \E fork \in {NoFork} \cup (IF Forks THEN {0} ELSE {}) : chain = NewChain(1, fork)
    /\ wallet = Empty
    /\ up = FALSE
    /\ saveFailed = FALSE
    /\ disk = NoSnapshot
    /\ sync = {}
    /\ call = [c \in Tasks |-> Idle]
    /\ crashes = 0
    /\ kept = {}
    /\ found = {}
    /\ dropped = {}
    /\ rebuilt = NoPin
    /\ unanswered = FALSE

(* The next step of a call that has begun. *)
Step(c) ==
    \/ TakePin(c) \/ CheckPin(c) \/ ChainReplaced(c)
    \/ Plan(c) \/ ReadBlock(c) \/ SnapshotTooNew(c)
    \/ Replay(c) \/ MeetLater(c) \/ MeetEarlier(c) \/ EndReplay(c)
    \/ DustIsLater(c) \/ ReplayFails(c)
    \/ Commit(c) \/ MovePin(c)

Environment == Emit \/ Fork \/ Swap \/ Crash

Next ==
    \/ \E c \in Callers : StartSync(c) \/ StartWatch(c) \/ Forget(c)
    \/ StartOpen \/ Checkpoint \/ Open
    \/ \E c \in Tasks : Step(c) \/ Abort(c)
    \/ Environment

Spec == Init /\ [][Next]_vars

-----------------------------------------------------------------------------
(* Properties *)

Alien(s) == ~(s.of \subseteq {chain.id})

(* A pinned state that holds events of a chain that is gone carries the pin*)
(* of the present chain, in memory or on disk, only where a check of its   *)
(* old pin got no answer on the present chain.  The order of the code does *)
(* it: the replacement pin is taken before the check, and the check before *)
(* the plan (LocalWallet::resync, WalletBuilder::sync).                    *)
SwapIsCaught ==
    \A s \in {wallet, disk} : Alien(s) /\ s.pin = chain.id => unanswered

(* "so a resume cannot serve a dead chain's balance" (chain_pin), and "a   *)
(* chain replaced at any point after it reads as replaced next time"       *)
(* (require_same_chain).  The code does not keep it: a check without an    *)
(* answer passes, and the replacement pin then goes on the old state.      *)
DeadChainIsCaught == \A s \in {wallet, disk} : Alien(s) => s.pin # chain.id

(* A registration that a save took is registered or claimed for good, on   *)
(* disk and in every wallet that opens from it, until it is forgotten.     *)
RegistrationKept ==
    /\ kept \subseteq disk.regs \cup disk.coins
    /\ up => kept \subseteq wallet.regs \cup wallet.coins

(* "callers must not change a registration between plan and commit"        *)
(* (commit_resync): while a replay runs, the wallet is what its plan read. *)
PlanIsCurrent ==
    \A c \in Callers : call[c].step \in {"block", "replay", "commit"} =>
        call[c].from = PlanOf(call[c].run, wallet)

(* A coin that watch_for_coins returned Ok for is held once the wallet has *)
(* replayed past its output, whichever way the wallet got there.           *)
FoundIsHeld ==
    up /\ ~Alien(wallet) =>
        \A k \in found : chain.out[k] \in 1..wallet.cursor => k \in wallet.coins

(* "a registration dropped here would come back" (forget_coins): it does   *)
(* not, not through a resync in flight, a failed save, or a crash.         *)
ForgottenStays == up => dropped \cap wallet.regs = {}

(* A resync or a rescan never takes a wallet back on its own chain.        *)
KeepsItsPlace ==
    [][up /\ up' /\ chain' = chain /\ ~Alien(wallet) => wallet'.cursor >= wallet.cursor]_vars

(* A wallet rebuilt from genesis and pinned to its chain opens again on it:*)
(* the pin that its snapshot carries is of the chain its state is of.      *)
RebuildRecovers ==
    call[Boot].step = "check" /\ rebuilt = chain.id => call[Boot].pin = chain.id

(* Every call returns: no step of a call waits for the mutex it holds.     *)
EveryCallReturns == \A c \in Callers : call[c].step # "idle" ~> call[c].step = "idle"

LiveSpec == Spec /\ \A c \in Tasks : WF_vars(Step(c))

=============================================================================
