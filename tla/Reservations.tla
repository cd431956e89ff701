---------------------------- MODULE Reservations ----------------------------
(***************************************************************************)
(* The pending reservations of one wallet: which inputs a build may        *)
(* select, who gives them back, and when.                                  *)
(*                                                                         *)
(* A build selects unshielded UTXOs, shielded coins and Dust under the     *)
(* wallet's write lock and reserves them until the TTL of its transaction. *)
(* Proving, the submit and the wait run without the lock, so many builds   *)
(* are in flight at once, next to resyncs that move the wallet's view of   *)
(* the chain and next to restarts that reload the reservations from        *)
(* pending.json.  An entry leaves the set when its spend is replayed, when *)
(* its TTL passes, or when the owner of the build hands it back.           *)
(*                                                                         *)
(* Times are seconds of chain time.  A block comes every BlockInterval.    *)
(***************************************************************************)
EXTENDS Integers, FiniteSets

CONSTANTS
    Builds,         \* the builds that ever run
    Unshielded,     \* unshielded UTXO keys
    Shielded,       \* shielded coin nullifiers
    Dust,           \* Dust nullifiers
    Foreign,        \* inputs that another holder of the seed can spend
    GlobalTtl,      \* LedgerParameters::global_ttl
    DustGrace,      \* LedgerParameters::dust.dust_grace_period
    Ttls,           \* the TTLs a build asks for; GlobalTtl when it names none
    BlockInterval,  \* seconds between two blocks
    MaxTime,        \* bound: the last block time
    MaxRestarts,    \* bound: how often the process restarts
    WritesFail      \* bound: whether a write to the disk may fail

Inputs == Unshielded \cup Shielded \cup Dust

ASSUME InputsAssumption ==
    /\ Unshielded \cap Shielded = {}
    /\ Unshielded \cap Dust = {}
    /\ Shielded \cap Dust = {}
    /\ Foreign \subseteq Inputs

ASSUME TimeAssumption ==
    /\ GlobalTtl \in Nat \ {0}
    /\ DustGrace \in Nat
    /\ Ttls \subseteq 1..GlobalTtl
    /\ BlockInterval \in Nat \ {0}
    /\ MaxTime \in Nat
    /\ MaxRestarts \in Nat
    /\ WritesFail \in BOOLEAN

(* No block time: an absent Option<Timestamp>. *)
NoTime == -1

VARIABLES
    clock,      \* time of the chain's latest block
    lastDust,   \* time of the latest block with a Dust event
    spent,      \* inputs the chain has spent
    landed,     \* builds whose transaction is in a block
    wallet,     \* the wallet's view: tip, anchor, and what it replayed
    pending,    \* PendingReservations in memory
    saveFailed, \* Wallet::save_failed
    disk,       \* what the snapshot and pending.json hold
    resync,     \* the running resync: what its streams and its query read
    build,      \* the builds
    restarts    \* bound on restarts

chainVars == <<clock, lastDust, spent, landed>>
vars == <<clock, lastDust, spent, landed, wallet, pending, saveFailed, disk,
          resync, build, restarts>>

-----------------------------------------------------------------------------
(* Types *)

Times == Nat

(* One reservation.  A Dust batch is one entry for all its spends; the     *)
(* other kinds have an entry per input.  `by` is the build that made it,   *)
(* which the code does not store and no guard reads.                       *)
Entry == [inputs: SUBSET Inputs, reserved_at: Times, expires_at: Times, by: Builds]

ReservedInput == [input: Inputs, reserved_at: Times]

(* idle: not started.  funded: a contract call holds a funded context and  *)
(* pins inputs.  paying: the fee of a proven call is reserved and proved.  *)
(* proving: a build that reserved everything at once is proved.  built: a  *)
(* TransferResult with no guard.  prepared: a PreparedTx.  inflight: a     *)
(* PendingTx.  unknown: no handle, but the transaction can land.  exposed: *)
(* the same, with a reservation that a failed write and a restart lost.    *)
(* releasing: one guard hands everything back.  unwinding: the guards of a *)
(* call hand back, each on its own.  done: the transaction is dead.        *)
Armed     == {"funded", "paying", "proving", "prepared"}
CanLand   == {"inflight", "unknown"}
Returning == {"releasing", "unwinding"}
Steps     == Armed \cup CanLand \cup Returning \cup {"idle", "built", "exposed", "done"}

Build == [st: Steps, view: SUBSET Inputs, at: Times, time: Times,
          spends: SUBSET ReservedInput, ttl: Times]

IdleBuild == [st |-> "idle", view |-> {}, at |-> 0, time |-> 0, spends |-> {}, ttl |-> 0]
DoneBuild == [IdleBuild EXCEPT !.st = "done"]

(* The streams a resync replays, and the inputs each reports as spent.  A  *)
(* stream of no input tells the wallet nothing here, unless it is Dust's.  *)
InputsIn(s) ==
    CASE s = "unshielded" -> Unshielded
      [] s = "zswap"      -> Shielded
      [] s = "dust"       -> Dust

Streams == {s \in {"unshielded", "zswap", "dust"} : s = "dust" \/ InputsIn(s) # {}}

(* ResyncPlan: what the streams have read so far, and the latest block.    *)
NoResync == [read |-> {}, seen |-> {}, dust |-> 0, block |-> NoTime]

TypeOK ==
    /\ clock \in Times
    /\ lastDust \in Times
    /\ spent \subseteq Inputs
    /\ landed \subseteq Builds
    /\ wallet \in [tip: Times, anchor: Times, seen: SUBSET Inputs, dust: Times]
    /\ pending \subseteq Entry
    /\ saveFailed \in BOOLEAN
    /\ disk \in [pending: SUBSET Entry, seen: SUBSET Inputs, dust: Times]
    /\ resync \in [read: SUBSET Streams, seen: SUBSET Inputs, dust: Times,
                   block: Times \cup {NoTime}]
    /\ build \in [Builds -> Build]
    /\ restarts \in Nat

-----------------------------------------------------------------------------
(* The wallet's clock *)

Window == IF DustGrace < GlobalTtl THEN DustGrace ELSE GlobalTtl

(* Mutant of DustAnchor: one second more than the chain resolves. *)
DustAnchorLate(dust, previous, now) ==
    LET candidate == IF dust # NoTime THEN dust + 2 ELSE previous
    IN  IF candidate # NoTime /\ candidate + Window >= now THEN candidate ELSE now

(* Mutant of DustAnchor: no fallback for a wallet that has no anchor. *)
DustAnchorNoFallback(dust, previous, now) ==
    IF dust # NoTime THEN dust + 1 ELSE previous

(* The time a build puts in its context: just after the newest Dust event  *)
(* this replay saw, else the anchor it had, while the chain still accepts  *)
(* it, else the latest block time.                                         *)
DustAnchor(dust, previous, now) ==
    LET candidate == IF dust # NoTime THEN dust + 1 ELSE previous
    IN  IF candidate # NoTime /\ candidate + Window >= now THEN candidate ELSE now

(* chain_time: the later of the context's anchor and the last block time. *)
ChainTime == IF wallet.anchor > wallet.tip THEN wallet.anchor ELSE wallet.tip

(* The Dust event time a replay reports: none when no event is newer than  *)
(* the cursor it resumed from.                                             *)
NewDust(dust, cursor) == IF dust > cursor THEN dust ELSE NoTime

-----------------------------------------------------------------------------
(* The pending set *)

WithinTtl(e, now) == e.expires_at >= now

EvictExpired(P) == {e \in P : WithinTtl(e, ChainTime)}

(* Mutant of ClearConfirmed: one confirmed Dust spend clears every batch. *)
ClearConfirmedDust(P, seen) ==
    {e \in P : /\ e.inputs \cap seen \cap Unshielded = {}
               /\ e.inputs \cap Dust = {} \/ seen \cap Dust = {}}

(* clear_confirmed: an unshielded entry goes when its key was spent, a     *)
(* Dust batch when any of its nullifiers was, a shielded entry never.      *)
ClearConfirmed(P, seen) == {e \in P : e.inputs \cap (seen \ Shielded) = {}}

(* Mutant of ReleaseFrom: the stamp is not compared. *)
ReleaseAnyStamp(P, S) ==
    {e \in P : ~ \E r \in S : r.input \in e.inputs}

(* release: an entry goes when a returned input is in it and the stamps    *)
(* agree.                                                                  *)
ReleaseFrom(P, S) ==
    {e \in P : ~ \E r \in S : r.reserved_at = e.reserved_at /\ r.input \in e.inputs}

(* The inputs that some entry holds at the wallet's chain time. *)
Reserved(P) == UNION {e.inputs : e \in {f \in P : WithinTtl(f, ChainTime)}}

(* Mutant of Free: a pin is not checked against the reservations of now. *)
FreeUnchecked(X) == TRUE

(* Does no entry hold an input of X now? *)
Free(X) == X \cap Reserved(pending) = {}

(* Mutant of FundingView: the reservations are not taken out. *)
FundingViewAll(P) == Inputs \ wallet.seen

(* The funding view: what the wallet owns, less what an entry holds. *)
FundingView(P) == (Inputs \ wallet.seen) \ Reserved(P)

EntriesFor(b, X, at, expires) ==
    {[inputs |-> {x}, reserved_at |-> at, expires_at |-> expires, by |-> b]
        : x \in X \ Dust}
    \cup {[inputs |-> D, reserved_at |-> at, expires_at |-> expires, by |-> b]
        : D \in {X \cap Dust} \ {{}}}

(* Mutant of Stamped: the chain time instead of the entry's own stamp. *)
StampedChainTime(X, at) == {[input |-> x, reserved_at |-> ChainTime] : x \in X}

(* What a build reports as spent, each input with the stamp of its entry. *)
Stamped(X, at) == {[input |-> x, reserved_at |-> at] : x \in X}

InputsOf(b) == {r.input : r \in build[b].spends}

-----------------------------------------------------------------------------
(* Persistence *)

(* Mutant of PersistPending: added to what the file holds. *)
PersistAppended(P) ==
    disk' = [disk EXCEPT !.pending = @ \cup P] /\ UNCHANGED saveFailed

(* persist_pending: best effort; a failure only marks the save as failed. *)
PersistPending(P) ==
    \/ disk' = [disk EXCEPT !.pending = P] /\ UNCHANGED saveFailed
    \/ WritesFail /\ UNCHANGED disk /\ saveFailed' = TRUE

(* save: the snapshot, then pending.json.  Either write can fail. *)
SaveAll(P, w) ==
    \/ disk' = [pending |-> P, seen |-> w.seen, dust |-> w.dust] /\ saveFailed' = FALSE
    \/ WritesFail /\ UNCHANGED disk /\ saveFailed' = TRUE
    \/ WritesFail /\ disk' = [disk EXCEPT !.seen = w.seen, !.dust = w.dust] /\ saveFailed' = TRUE

(* persist: save when something durable changed or the last save failed. *)
Persist(changed, P, w) ==
    IF changed \/ saveFailed THEN SaveAll(P, w) ELSE UNCHANGED <<disk, saveFailed>>

-----------------------------------------------------------------------------
(* Builds.  Each action below holds the wallet's write lock. *)

SetBuild(b, r) == build' = [build EXCEPT ![b] = r]

(* The funded context is gone after the step that leaves it, and a dead    *)
(* build keeps nothing.                                                    *)
GoTo(b, step) ==
    SetBuild(b, IF step = "done" THEN DoneBuild
                ELSE [build[b] EXCEPT !.st = step, !.view = {}, !.at = 0, !.time = 0])

(* The guards of a failed or cancelled build hand its inputs back.  A call *)
(* that is not built yet has a guard per kind of input, nested.            *)
GiveUp(b) ==
    GoTo(b, IF build[b].spends = {} THEN "done"
            ELSE IF build[b].st \in {"funded", "paying"} THEN "unwinding" ELSE "releasing")

(* add_funding on a call's own context: evict, anchor the context, and     *)
(* copy the funding view into it.                                          *)
Fund(b) ==
    /\ build[b].st = "idle"
    /\ pending' = EvictExpired(pending)
    /\ SetBuild(b, [st |-> "funded", view |-> FundingView(pending), at |-> wallet.anchor,
                    time |-> ChainTime, spends |-> {}, ttl |-> ChainTime + GlobalTtl])
    /\ UNCHANGED <<chainVars, wallet, saveFailed, disk, resync, restarts>>

(* One hold of spend_shielded or spend_unshielded: the coins in one hold,  *)
(* then one hold per unshielded draw.                                      *)
OneHold(b, X) ==
    /\ build[b].st = "funded"
    /\ X # {}
    /\ X \subseteq build[b].view
    /\ X \subseteq Unshielded \/ (X \subseteq Shielded /\ build[b].spends = {})

(* The selection reads the context's older view, so it is checked against  *)
(* the reservations of now.  The entry takes the context's times.          *)
Pin(b, X) ==
    /\ OneHold(b, X)
    /\ Free(X)
    /\ LET after == pending \cup EntriesFor(b, X, build[b].at, build[b].time + GlobalTtl)
       IN  pending' = after /\ PersistPending(after)
    /\ SetBuild(b, [build[b] EXCEPT !.spends = @ \cup Stamped(X, build[b].at)])
    /\ UNCHANGED <<chainVars, wallet, resync, restarts>>

(* InputsReserved: an input was reserved since, and the call gives up. *)
PinRefused(b, X) ==
    /\ OneHold(b, X)
    /\ ~Free(X)
    /\ GiveUp(b)
    /\ UNCHANGED <<chainVars, wallet, pending, saveFailed, disk, resync, restarts>>

(* prepare_fees on a proven call: a fresh context pays the fee, with the   *)
(* wallet's times of now.                                                  *)
PayFee(b, D) ==
    /\ build[b].st = "funded"
    /\ D # {}
    /\ D \subseteq FundingView(pending) \cap Dust
    /\ LET after == EvictExpired(pending) \cup
                        EntriesFor(b, D, wallet.anchor, ChainTime + GlobalTtl)
       IN  pending' = after /\ PersistPending(after)
    /\ SetBuild(b, [build[b] EXCEPT !.st = "paying", !.view = {}, !.at = 0, !.time = 0,
                                    !.spends = @ \cup Stamped(D, wallet.anchor)])
    /\ UNCHANGED <<chainVars, wallet, resync, restarts>>

(* prepare_transfer / prepare_funded: evict, select and reserve in one     *)
(* hold.  The transaction's TTL counts from the chain time.                *)
Prepare(b, X, ttl) ==
    /\ build[b].st = "idle"
    /\ X # {}
    /\ X \subseteq FundingView(pending)
    /\ LET after == EvictExpired(pending) \cup
                        EntriesFor(b, X, wallet.anchor, ChainTime + ttl)
       IN  pending' = after /\ PersistPending(after)
    /\ SetBuild(b, [st |-> "proving", view |-> {}, at |-> 0, time |-> 0,
                    spends |-> Stamped(X, wallet.anchor), ttl |-> ChainTime + ttl])
    /\ UNCHANGED <<chainVars, wallet, resync, restarts>>

-----------------------------------------------------------------------------
(* After the lock: proving, submitting, waiting *)

NoWalletChange == UNCHANGED <<chainVars, wallet, pending, saveFailed, disk, resync, restarts>>

(* keep_on_ok: a proven build keeps its reservation and loses its guards.  *)
(* A call that pays no fee is built straight from its pins.                *)
Proved(b) ==
    /\ build[b].st \in {"funded", "paying", "proving"}
    /\ GoTo(b, "built")
    /\ NoWalletChange

(* A failed or cancelled build, or a PreparedTx that is dropped or         *)
(* released: the guards hand the inputs back.                              *)
Abandon(b) ==
    /\ build[b].st \in Armed
    /\ GiveUp(b)
    /\ NoWalletChange

(* The same drop with no runtime: nothing runs the release, and the inputs *)
(* wait for their TTL.                                                     *)
AbandonNoRuntime(b) ==
    /\ build[b].st \in Armed
    /\ GoTo(b, "done")
    /\ NoWalletChange

(* prepare_reserved: arm a guard again, or hand back when it fails.  The   *)
(* caller can also hand back a result that it does not submit.             *)
PrepareReserved(b) ==
    /\ build[b].st = "built"
    /\ \/ GoTo(b, "prepared")
       \/ GiveUp(b)
    /\ NoWalletChange

(* The caller drops the TransferResult, or passes its bytes on. *)
PassOn(b) ==
    /\ build[b].st = "built"
    /\ GoTo(b, "unknown")
    /\ NoWalletChange

(* submit disarms the guard first, so a failed call or a dropped future    *)
(* keeps the inputs reserved.                                              *)
Submit(b) ==
    /\ build[b].st = "prepared"
    /\ GoTo(b, "inflight") \/ GoTo(b, "unknown")
    /\ NoWalletChange

(* wait_for reads Invalid, the only definitive rejection. *)
Invalid(b) ==
    /\ build[b].st = "inflight"
    /\ b \notin landed
    /\ GiveUp(b)
    /\ NoWalletChange

(* Every other end of a wait, or a drop of the handle, releases nothing. *)
WaitEnds(b) ==
    /\ build[b].st = "inflight"
    /\ GoTo(b, "unknown")
    /\ NoWalletChange

(* What one hand-back task returns: everything, or one guard of a call. *)
HandBacks(b) ==
    IF build[b].st = "releasing" THEN {build[b].spends}
    ELSE {{r \in build[b].spends : r.input \in InputsIn(s)} : s \in Streams} \ {{}}

(* The task takes the write lock. *)
Release(b, S) ==
    /\ build[b].st \in Returning
    /\ LET after == ReleaseFrom(pending, S)
       IN  pending' = after /\ PersistPending(after)
    /\ SetBuild(b, IF build[b].spends = S THEN DoneBuild
                   ELSE [build[b] EXCEPT !.spends = @ \ S])
    /\ UNCHANGED <<chainVars, wallet, resync, restarts>>

-----------------------------------------------------------------------------
(* The chain *)

CanBeIncluded(b, now) ==
    /\ build[b].st \in CanLand \cup {"exposed"}
    /\ b \notin landed
    /\ InputsOf(b) \cap spent = {}
    /\ now <= build[b].ttl

(* The next block: empty, with a Dust event of someone else's, with a      *)
(* foreign spend, or with one of this wallet's transactions, whose         *)
(* fallible part can fail and leave its inputs unspent.                    *)
NextBlock(taken, dust) ==
    /\ clock + BlockInterval <= MaxTime
    /\ clock' = clock + BlockInterval
    /\ spent' = spent \cup taken
    /\ lastDust' = IF dust \/ taken \cap Dust # {} THEN clock' ELSE lastDust

QuietBlock(dust) ==
    /\ NextBlock({}, dust)
    /\ UNCHANGED <<landed, wallet, pending, saveFailed, disk, resync, build, restarts>>

ForeignBlock(x) ==
    /\ x \notin spent
    /\ NextBlock({x}, FALSE)
    /\ UNCHANGED <<landed, wallet, pending, saveFailed, disk, resync, build, restarts>>

LandingBlock(b, taken) ==
    /\ CanBeIncluded(b, clock + BlockInterval)
    /\ InputsOf(b) \cap Dust \subseteq taken
    /\ taken \subseteq InputsOf(b)
    /\ NextBlock(taken, FALSE)
    /\ landed' = landed \cup {b}
    /\ UNCHANGED <<wallet, pending, saveFailed, disk, resync, build, restarts>>

-----------------------------------------------------------------------------
(* Resync: three streams and the block query run at the same time, with no *)
(* lock, and read the chain at different moments; the commit takes the     *)
(* write lock and applies all of it at once.                               *)

ReadStream(s) ==
    /\ s \notin resync.read
    /\ resync' = [resync EXCEPT !.read = @ \cup {s},
                                !.seen = @ \cup (spent \cap InputsIn(s)),
                                !.dust = IF s = "dust" THEN lastDust ELSE @]
    /\ UNCHANGED <<chainVars, wallet, pending, saveFailed, disk, build, restarts>>

ReadBlock ==
    /\ resync.block = NoTime
    /\ resync' = [resync EXCEPT !.block = clock]
    /\ UNCHANGED <<chainVars, wallet, pending, saveFailed, disk, build, restarts>>

CommitResync ==
    /\ resync.read = Streams
    /\ resync.block # NoTime
    /\ LET after == ClearConfirmed(pending, resync.seen \ wallet.seen)
           w     == [tip    |-> resync.block,
                     anchor |-> DustAnchor(NewDust(resync.dust, wallet.dust),
                                           wallet.anchor, resync.block),
                     seen   |-> resync.seen,
                     dust   |-> resync.dust]
       IN  /\ wallet' = w
           /\ pending' = after
           /\ Persist(w.seen # wallet.seen \/ w.dust # wallet.dust \/ after # pending, after, w)
    /\ resync' = NoResync
    /\ UNCHANGED <<chainVars, build, restarts>>

(* A failed replay produces no commit and leaves the wallet as it was. *)
ResyncFails ==
    /\ resync # NoResync
    /\ resync' = NoResync
    /\ UNCHANGED <<chainVars, wallet, pending, saveFailed, disk, build, restarts>>

-----------------------------------------------------------------------------
(* The process stops at any point, and a new one syncs from the files.     *)
(* Every handle is gone: a transaction that was never submitted is dead, a *)
(* submitted one can still land.                                           *)

OnDisk(b) == \A x \in InputsOf(b) : \E e \in disk.pending : e.by = b /\ x \in e.inputs

AfterRestart(b) ==
    CASE build[b].st \in CanLand ->
            [build[b] EXCEPT !.st = IF OnDisk(b) THEN "unknown" ELSE "exposed"]
      [] build[b].st \in Armed \cup Returning \cup {"built"} -> DoneBuild
      [] OTHER -> build[b]

Restart ==
    /\ restarts < MaxRestarts
    /\ restarts' = restarts + 1
    /\ LET anchor == DustAnchor(NewDust(lastDust, disk.dust), NoTime, clock)
           w      == [tip |-> clock, anchor |-> anchor, seen |-> spent, dust |-> lastDust]
           now    == IF anchor > clock THEN anchor ELSE clock
           after  == {e \in ClearConfirmed(disk.pending, spent \ disk.seen) : WithinTtl(e, now)}
       IN  /\ wallet' = w
           /\ pending' = after
           /\ disk' = [pending |-> after, seen |-> w.seen, dust |-> w.dust]
    /\ saveFailed' = FALSE
    /\ resync' = NoResync
    /\ build' = [b \in Builds |-> AfterRestart(b)]
    /\ UNCHANGED chainVars

-----------------------------------------------------------------------------

Init ==
    /\ clock = 0
    /\ lastDust = 0
    /\ spent = {}
    /\ landed = {}
    /\ wallet = [tip |-> 0, anchor |-> DustAnchor(0, NoTime, 0), seen |-> {}, dust |-> 0]
    /\ pending = {}
    /\ saveFailed = FALSE
    /\ disk = [pending |-> {}, seen |-> {}, dust |-> 0]
    /\ resync = NoResync
    /\ build = [b \in Builds |-> IdleBuild]
    /\ restarts = 0

BuildStep(b) ==
    \/ Fund(b)
    \/ \E X \in SUBSET Inputs : Pin(b, X) \/ PinRefused(b, X) \/ PayFee(b, X)
    \/ \E X \in SUBSET Inputs, ttl \in Ttls : Prepare(b, X, ttl)
    \/ Proved(b)
    \/ Abandon(b)
    \/ AbandonNoRuntime(b)
    \/ PrepareReserved(b)
    \/ PassOn(b)
    \/ Submit(b)
    \/ Invalid(b)
    \/ WaitEnds(b)
    \/ \E S \in HandBacks(b) : Release(b, S)

ChainStep ==
    \/ \E dust \in BOOLEAN : QuietBlock(dust)
    \/ \E x \in Foreign : ForeignBlock(x)
    \/ \E b \in Builds, taken \in SUBSET Inputs : LandingBlock(b, taken)

WalletStep ==
    (\E s \in Streams : ReadStream(s)) \/ ReadBlock \/ CommitResync \/ ResyncFails \/ Restart

Next == (\E b \in Builds : BuildStep(b)) \/ ChainStep \/ WalletStep

Spec == Init /\ [][Next]_vars

(* The runtime runs the hand-back tasks it was given. *)
FairSpec == Spec /\ \A b \in Builds : WF_vars(\E S \in HandBacks(b) : Release(b, S))

-----------------------------------------------------------------------------
(* Properties *)

(* Can the transaction of b still take its inputs in a later block? *)
Live(b) ==
    /\ build[b].st \in (Armed \cup CanLand \cup {"built"})
    /\ b \notin landed
    /\ build[b].ttl > clock
    /\ InputsOf(b) \cap spent = {}

DisjointAfter(P, now) ==
    \A e, f \in P : e # f /\ e.expires_at > now /\ f.expires_at > now
                        => e.inputs \cap f.inputs = {}

(* No input is held by two reservations whose transactions can both still  *)
(* land: every reservation is made under the write lock, against the       *)
(* reservations that hold at the wallet's chain time (add_funding,         *)
(* spend_unshielded, spend_shielded), whatever TTLs the builds asked for.  *)
NoDoubleHold == DisjointAfter(pending, clock)

(* The wallet's chain time never runs ahead of the chain by more than the  *)
(* second that dust_anchor adds, even when a resync commits late.          *)
WalletBehindChain ==
    /\ lastDust <= clock
    /\ wallet.tip <= clock
    /\ wallet.dust <= clock
    /\ wallet.anchor <= clock + 1
    /\ resync.block <= clock
    /\ resync.dust <= clock

(* NoDoubleHold made inductive: an entry that no longer holds an input at  *)
(* the wallet's chain time expired on the chain, and what a restart loads  *)
(* from pending.json is as disjoint as what the process held.              *)
ReservationInv ==
    /\ TypeOK
    /\ WalletBehindChain
    /\ NoDoubleHold
    /\ DisjointAfter(disk.pending, clock)

(* Two builds whose transactions can both still land never spend one       *)
(* input.  This is what reserving on build is for: proving, submitting and *)
(* waiting run without the lock, next to resyncs, releases and restarts.   *)
InFlightDisjoint ==
    \A b, c \in Builds : b # c /\ Live(b) /\ Live(c) => InputsOf(b) \cap InputsOf(c) = {}

(* Every input of a build that can still land is held by an entry of that  *)
(* build until its TTL: no other build's release, no resync, no eviction   *)
(* and no restart takes the entry away first.                              *)
LiveBuildIsHeld ==
    \A b \in Builds : Live(b) =>
        \A x \in InputsOf(b) :
            \E e \in pending : e.by = b /\ x \in e.inputs /\ e.expires_at >= build[b].ttl

(* A release drops no entry of another build that can still land, which is *)
(* what the stamp of a reservation is for (PendingReservations::release).  *)
OwnRelease ==
    \A b \in Builds : (\E S \in HandBacks(b) : Release(b, S))
            => \A e \in pending \ pending' : e.by # b => ~Live(e.by)

ReleaseOwnOnly == [][OwnRelease]_vars

(* An entry leaves the set only for one of the three reasons of            *)
(* reserve_pending: the chain took one of its inputs, its transaction can  *)
(* be in no later block, or its build is given up.                         *)
EntryLeavesForAReason ==
    [][\A e \in pending \ pending' :
            \/ e.inputs \cap spent # {}
            \/ e.expires_at <= clock
            \/ build'[e.by].st \in Returning \cup {"done", "exposed"}]_vars

(* A build that is given up has all its inputs handed back, whatever       *)
(* contexts and anchors its pins and its fee were reserved under.          *)
HandedBack ==
    \A b \in Builds :
        build[b].st \in Returning ~> ~ \E e \in pending : e.by = b

=============================================================================
