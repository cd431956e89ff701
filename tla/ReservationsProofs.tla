------------------------- MODULE ReservationsProofs -------------------------
(***************************************************************************)
(* No two reservations hold one input while both of their transactions can *)
(* land, for any number of builds, inputs and restarts, and for any TTLs.  *)
(*                                                                         *)
(* A build skips the inputs of the entries that hold at the wallet's chain *)
(* time, so a new entry can only meet an older one that stopped holding.   *)
(* The chain time is at most one second ahead of the chain, so that older  *)
(* entry has expired on the chain as well.  The set on disk is always a    *)
(* set the memory held, so a restart loads nothing worse.                  *)
(***************************************************************************)
EXTENDS Reservations, TLAPS

(***************************************************************************)
(* Facts about the operators                                               *)
(***************************************************************************)

(* dust_anchor names a time, and one that is at most a second ahead of a   *)
(* chain that is not behind what it was computed from.                     *)
LEMMA DustAnchorTime ==
    ASSUME NEW dust \in Nat \cup {NoTime}, NEW previous \in Nat \cup {NoTime}, NEW now \in Nat
    PROVE  /\ DustAnchor(dust, previous, now) \in Nat
           /\ \A c \in Nat : dust <= c /\ previous <= c + 1 /\ now <= c
                                => DustAnchor(dust, previous, now) <= c + 1
  BY DEF DustAnchor, NoTime

(* The entries a build adds are entries, over the inputs it selected. *)
LEMMA EntriesForType ==
    ASSUME NEW b \in Builds, NEW X \in SUBSET Inputs, NEW at \in Nat, NEW expires \in Nat
    PROVE  /\ EntriesFor(b, X, at, expires) \subseteq Entry
           /\ \A e \in EntriesFor(b, X, at, expires) : e.inputs \subseteq X
  BY DEF EntriesFor, Entry, Times, Inputs

(* One build's entries are disjoint: one per input, one for all its Dust. *)
LEMMA EntriesForDisjoint ==
    ASSUME NEW b \in Builds, NEW X \in SUBSET Inputs, NEW at \in Nat, NEW expires \in Nat,
           NEW e \in EntriesFor(b, X, at, expires), NEW f \in EntriesFor(b, X, at, expires),
           e # f
    PROVE  e.inputs \cap f.inputs = {}
  BY DEF EntriesFor

(* Dropping entries, or letting time pass, keeps a set disjoint. *)
LEMMA FewerEntries ==
    ASSUME NEW P, NEW Q \in SUBSET P, NEW now \in Nat, NEW later \in Nat, now <= later,
           P \subseteq Entry, DisjointAfter(P, now)
    PROVE  DisjointAfter(Q, later)
  BY DEF DisjointAfter, Entry, Times

(* Reserving inputs that no entry holds keeps the set disjoint. *)
LEMMA ReserveFree ==
    ASSUME TypeOK, WalletBehindChain,
           NEW P \in SUBSET pending, NoDoubleHold,
           NEW b \in Builds, NEW X \in SUBSET Inputs, NEW at \in Nat, NEW expires \in Nat,
           X \cap Reserved(pending) = {}
    PROVE  DisjointAfter(P \cup EntriesFor(b, X, at, expires), clock)
<1> DEFINE N == EntriesFor(b, X, at, expires)
<1>1. SUFFICES ASSUME NEW e \in P \cup N, NEW f \in P \cup N, e # f,
                      e.expires_at > clock, f.expires_at > clock
               PROVE  e.inputs \cap f.inputs = {}
  BY DEF DisjointAfter
<1>2. \A g \in P : g.expires_at > clock => g.inputs \subseteq Reserved(pending)
  <2>1. ChainTime \in Nat /\ ChainTime <= clock + 1
    BY DEF TypeOK, WalletBehindChain, ChainTime, Times
  <2>2. \A g \in P : g.expires_at \in Nat /\ clock \in Nat
    BY DEF TypeOK, Entry, Times
  <2>3. QED
    BY <2>1, <2>2 DEF Reserved, WithinTtl
<1>3. \A g \in N : g.inputs \subseteq X
  BY EntriesForType
<1>4. CASE e \in N /\ f \in N
  BY <1>1, <1>4, EntriesForDisjoint
<1>5. CASE e \in P /\ f \in P
  BY <1>1, <1>5 DEF NoDoubleHold, DisjointAfter
<1>6. CASE e \in P /\ f \in N
  BY <1>1, <1>2, <1>3, <1>6
<1>7. CASE e \in N /\ f \in P
  BY <1>1, <1>2, <1>3, <1>7
<1>8. QED
  BY <1>1, <1>4, <1>5, <1>6, <1>7

(***************************************************************************)
(* The invariant, step by step                                             *)
(***************************************************************************)

LEMMA InitInv == Init => ReservationInv
<1> SUFFICES ASSUME Init PROVE ReservationInv
  OBVIOUS
<1> DEFINE first == DustAnchor(0, NoTime, 0)
<1>a. first \in Nat /\ (0 <= 0 /\ NoTime <= 0 + 1 /\ 0 <= 0 => first <= 0 + 1)
  BY DustAnchorTime
<1>b. first \in Nat /\ first <= 1
  BY <1>a DEF NoTime
<1> HIDE DEF first
<1>c. wallet = [tip |-> 0, anchor |-> first, seen |-> {}, dust |-> 0] /\ clock = 0
  BY DEF Init, first
<1>1. wallet.anchor \in Nat /\ wallet.anchor <= clock + 1
  BY <1>b, <1>c
<1>2. TypeOK
  <2>1. IdleBuild \in Build
    BY DEF IdleBuild, Build, Steps, Times
  <2>2. build \in [Builds -> Build]
    BY <2>1 DEF Init
  <2>3. resync \in [read: SUBSET Streams, seen: SUBSET Inputs, dust: Times,
                    block: Times \cup {NoTime}]
    BY DEF Init, NoResync, Times
  <2>4. wallet \in [tip: Times, anchor: Times, seen: SUBSET Inputs, dust: Times]
    BY <1>b, <1>c DEF Times
  <2>5. QED
    BY <2>2, <2>3, <2>4 DEF Init, TypeOK, Times
<1>3. WalletBehindChain
  BY <1>b, <1>c DEF Init, WalletBehindChain, NoResync, NoTime
<1>4. NoDoubleHold /\ DisjointAfter(disk.pending, clock)
  BY DEF Init, NoDoubleHold, DisjointAfter
<1>5. QED
  BY <1>2, <1>3, <1>4 DEF ReservationInv

(* A step that leaves everything but a build alone. *)
LEMMA BuildOnly ==
    ASSUME ReservationInv, NoWalletChange, build' \in [Builds -> Build]
    PROVE  ReservationInv'
  BY DEF ReservationInv, NoWalletChange, chainVars, TypeOK, WalletBehindChain,
         NoDoubleHold, DisjointAfter

(* A step under the wallet's lock that changes the reservations. *)
LEMMA UnderLock ==
    ASSUME ReservationInv, UNCHANGED <<chainVars, wallet, resync, restarts>>,
           build' \in [Builds -> Build],
           NEW P \in SUBSET Entry, pending' = P, DisjointAfter(P, clock),
           PersistPending(P) \/ UNCHANGED <<disk, saveFailed>>
    PROVE  ReservationInv'
<1>1. /\ disk' \in [pending: SUBSET Entry, seen: SUBSET Inputs, dust: Times]
      /\ disk'.pending \in {P, disk.pending}
      /\ saveFailed' \in BOOLEAN
  BY DEF ReservationInv, TypeOK, PersistPending
<1>2. TypeOK'
  BY <1>1 DEF ReservationInv, TypeOK, chainVars
<1>3. WalletBehindChain' /\ NoDoubleHold' /\ DisjointAfter(disk.pending, clock)'
  BY <1>1 DEF ReservationInv, WalletBehindChain, NoDoubleHold, DisjointAfter, chainVars
<1>4. QED
  BY <1>2, <1>3 DEF ReservationInv

(* The chain moves on: fewer entries can still land. *)
LEMMA NextBlockInv ==
    ASSUME ReservationInv, NEW taken \in SUBSET Inputs, NEW dust \in BOOLEAN,
           NextBlock(taken, dust), landed' \subseteq Builds,
           UNCHANGED <<wallet, pending, saveFailed, disk, resync, build, restarts>>
    PROVE  ReservationInv'
<1>1. clock' \in Nat /\ clock <= clock' /\ clock \in Nat
  BY TimeAssumption DEF ReservationInv, TypeOK, NextBlock, Times
<1>2. lastDust' \in Nat /\ lastDust' <= clock'
  BY <1>1 DEF ReservationInv, TypeOK, WalletBehindChain, NextBlock, Times
<1>3. TypeOK'
  BY <1>1, <1>2 DEF ReservationInv, TypeOK, NextBlock, Times
<1>4. WalletBehindChain'
  BY <1>1, <1>2 DEF ReservationInv, TypeOK, WalletBehindChain, Times, NoTime
<1>5. DisjointAfter(pending, clock') /\ DisjointAfter(disk.pending, clock')
  BY <1>1, FewerEntries DEF ReservationInv, TypeOK, NoDoubleHold
<1>6. NoDoubleHold' /\ DisjointAfter(disk.pending, clock)'
  BY <1>5 DEF NoDoubleHold, DisjointAfter
<1>7. QED
  BY <1>3, <1>4, <1>6 DEF ReservationInv

(* What a build writes into its own record is a record of a build. *)
LEMMA GoToType ==
    ASSUME TypeOK, NEW b \in Builds, NEW step \in Steps, GoTo(b, step)
    PROVE  build' \in [Builds -> Build]
<1>1. DoneBuild \in Build
  BY DEF DoneBuild, IdleBuild, Build, Steps, Times
<1>2. [build[b] EXCEPT !.st = step, !.view = {}, !.at = 0, !.time = 0] \in Build
  BY DEF TypeOK, Build, Times
<1>3. QED
  BY <1>1, <1>2 DEF GoTo, SetBuild, TypeOK

LEMMA GiveUpType ==
    ASSUME TypeOK, NEW b \in Builds, GiveUp(b)
    PROVE  build' \in [Builds -> Build]
  BY GoToType DEF GiveUp, Steps, Returning

LEMMA StampedType ==
    ASSUME NEW X \in SUBSET Inputs, NEW at \in Nat
    PROVE  Stamped(X, at) \subseteq ReservedInput
  BY DEF Stamped, ReservedInput, Times

LEMMA WalletTimes ==
    ASSUME TypeOK
    PROVE  /\ ChainTime \in Nat /\ wallet.anchor \in Nat
           /\ pending \subseteq Entry
           /\ FundingView(pending) \subseteq Inputs
           /\ FundingView(pending) \cap Reserved(pending) = {}
           /\ EvictExpired(pending) \subseteq pending
  BY DEF TypeOK, ChainTime, Times, FundingView, EvictExpired

(* Every build that reserves goes through here. *)
LEMMA Reserve ==
    ASSUME ReservationInv, UNCHANGED <<chainVars, wallet, resync, restarts>>,
           build' \in [Builds -> Build],
           NEW b \in Builds, NEW X \in SUBSET Inputs, NEW at \in Nat, NEW expires \in Nat,
           X \cap Reserved(pending) = {},
           NEW P \in SUBSET pending,
           pending' = P \cup EntriesFor(b, X, at, expires),
           PersistPending(P \cup EntriesFor(b, X, at, expires))
    PROVE  ReservationInv'
<1>1. P \cup EntriesFor(b, X, at, expires) \in SUBSET Entry
  BY EntriesForType DEF ReservationInv, TypeOK
<1>2. DisjointAfter(P \cup EntriesFor(b, X, at, expires), clock)
  BY ReserveFree DEF ReservationInv
<1>3. QED
  BY <1>1, <1>2, UnderLock

LEMMA PinInv ==
    ASSUME ReservationInv, NEW b \in Builds, NEW X \in SUBSET Inputs, Pin(b, X)
    PROVE  ReservationInv'
<1>1. build[b] \in Build /\ TypeOK
  BY DEF ReservationInv, TypeOK
<1>2. build[b].at \in Nat /\ build[b].time + GlobalTtl \in Nat
  BY <1>1, TimeAssumption DEF Build, Times
<1>3. build' \in [Builds -> Build]
  <2>1. Stamped(X, build[b].at) \subseteq ReservedInput
    BY <1>2, StampedType
  <2>2. [build[b] EXCEPT !.spends = @ \cup Stamped(X, build[b].at)] \in Build
    BY <1>1, <2>1 DEF Build
  <2>3. QED
    BY <1>1, <2>2 DEF Pin, SetBuild, TypeOK
<1>4. QED
  BY <1>2, <1>3, Reserve DEF Pin, Free

LEMMA PayFeeInv ==
    ASSUME ReservationInv, NEW b \in Builds, NEW D \in SUBSET Inputs, PayFee(b, D)
    PROVE  ReservationInv'
<1>1. build[b] \in Build /\ TypeOK
  BY DEF ReservationInv, TypeOK
<1>2. ChainTime + GlobalTtl \in Nat /\ wallet.anchor \in Nat
  BY <1>1, WalletTimes, TimeAssumption
<1>3. build' \in [Builds -> Build]
  <2>1. Stamped(D, wallet.anchor) \subseteq ReservedInput
    BY <1>2, StampedType
  <2>2. [build[b] EXCEPT !.st = "paying", !.view = {}, !.at = 0, !.time = 0,
                         !.spends = @ \cup Stamped(D, wallet.anchor)] \in Build
    BY <1>1, <2>1 DEF Build, Steps, Armed, Times
  <2>3. QED
    BY <1>1, <2>2 DEF PayFee, SetBuild, TypeOK
<1>4. D \cap Reserved(pending) = {}
  BY <1>1, WalletTimes DEF PayFee
<1>5. QED
  BY <1>1, <1>2, <1>3, <1>4, Reserve, WalletTimes DEF PayFee

LEMMA PrepareInv ==
    ASSUME ReservationInv, NEW b \in Builds, NEW X \in SUBSET Inputs, NEW ttl \in Ttls,
           Prepare(b, X, ttl)
    PROVE  ReservationInv'
<1>1. TypeOK
  BY DEF ReservationInv
<1>2. ChainTime + ttl \in Nat /\ wallet.anchor \in Nat
  BY <1>1, WalletTimes, TimeAssumption
<1>3. build' \in [Builds -> Build]
  <2>1. Stamped(X, wallet.anchor) \subseteq ReservedInput
    BY <1>2, StampedType
  <2>2. [st |-> "proving", view |-> {}, at |-> 0, time |-> 0,
         spends |-> Stamped(X, wallet.anchor), ttl |-> ChainTime + ttl] \in Build
    BY <1>2, <2>1 DEF Build, Steps, Armed, Times
  <2>3. QED
    BY <1>1, <2>2 DEF Prepare, SetBuild, TypeOK
<1>4. X \cap Reserved(pending) = {}
  BY <1>1, WalletTimes DEF Prepare
<1>5. QED
  BY <1>1, <1>2, <1>3, <1>4, Reserve, WalletTimes DEF Prepare

(* Eviction alone, when a call is funded. *)
LEMMA FundInv ==
    ASSUME ReservationInv, NEW b \in Builds, Fund(b)
    PROVE  ReservationInv'
<1>1. TypeOK
  BY DEF ReservationInv
<1>2. build' \in [Builds -> Build]
  <2>1. ChainTime + GlobalTtl \in Nat
    BY <1>1, WalletTimes, TimeAssumption
  <2>2. [st |-> "funded", view |-> FundingView(pending), at |-> wallet.anchor,
         time |-> ChainTime, spends |-> {}, ttl |-> ChainTime + GlobalTtl] \in Build
    BY <1>1, <2>1, WalletTimes DEF Build, Steps, Armed, Times
  <2>3. QED
    BY <1>1, <2>2 DEF Fund, SetBuild, TypeOK
<1>3. EvictExpired(pending) \in SUBSET Entry /\ DisjointAfter(EvictExpired(pending), clock)
  BY <1>1, WalletTimes DEF ReservationInv, NoDoubleHold, DisjointAfter
<1>4. QED
  BY <1>2, <1>3, UnderLock DEF Fund

LEMMA ReleaseInv ==
    ASSUME ReservationInv, NEW b \in Builds, NEW S, Release(b, S)
    PROVE  ReservationInv'
<1>1. TypeOK
  BY DEF ReservationInv
<1>2. build' \in [Builds -> Build]
  <2>1. DoneBuild \in Build
    BY DEF DoneBuild, IdleBuild, Build, Steps, Times
  <2>2. [build[b] EXCEPT !.spends = @ \ S] \in Build
    BY <1>1 DEF TypeOK, Build
  <2>3. QED
    BY <1>1, <2>1, <2>2 DEF Release, SetBuild, TypeOK
<1>3. ReleaseFrom(pending, S) \in SUBSET Entry /\ DisjointAfter(ReleaseFrom(pending, S), clock)
  BY <1>1 DEF ReservationInv, TypeOK, ReleaseFrom, NoDoubleHold, DisjointAfter
<1>4. QED
  BY <1>2, <1>3, UnderLock DEF Release

LEMMA BuildStepInv ==
    ASSUME ReservationInv, NEW b \in Builds, BuildStep(b)
    PROVE  ReservationInv'
<1>1. TypeOK
  BY DEF ReservationInv
<1>2. CASE Fund(b)
  BY <1>2, FundInv
<1>3. CASE \E X \in SUBSET Inputs : Pin(b, X) \/ PinRefused(b, X) \/ PayFee(b, X)
  <2>1. ASSUME NEW X \in SUBSET Inputs, PinRefused(b, X) PROVE ReservationInv'
    BY <1>1, <2>1, GiveUpType, BuildOnly DEF PinRefused, NoWalletChange
  <2>2. QED
    BY <1>3, <2>1, PinInv, PayFeeInv
<1>4. CASE \E X \in SUBSET Inputs, ttl \in Ttls : Prepare(b, X, ttl)
  BY <1>4, PrepareInv
<1>5. CASE \E S \in HandBacks(b) : Release(b, S)
  BY <1>5, ReleaseInv
<1>6. CASE Proved(b) \/ PassOn(b) \/ WaitEnds(b) \/ AbandonNoRuntime(b) \/ Submit(b)
  <2>1. {"built", "unknown", "done", "inflight"} \subseteq Steps
    BY DEF Steps, CanLand
  <2>2. QED
    BY <1>1, <1>6, <2>1, GoToType, BuildOnly
       DEF Proved, PassOn, WaitEnds, AbandonNoRuntime, Submit
<1>7. CASE Abandon(b) \/ Invalid(b) \/ PrepareReserved(b)
  <2>1. "prepared" \in Steps
    BY DEF Steps, Armed
  <2>2. QED
    BY <1>1, <1>7, <2>1, GoToType, GiveUpType, BuildOnly DEF Abandon, Invalid, PrepareReserved
<1>8. QED
  BY <1>2, <1>3, <1>4, <1>5, <1>6, <1>7 DEF BuildStep

LEMMA ChainStepInv ==
    ASSUME ReservationInv, ChainStep
    PROVE  ReservationInv'
<1>1. ASSUME NEW dust \in BOOLEAN, QuietBlock(dust) PROVE ReservationInv'
  BY <1>1, NextBlockInv DEF QuietBlock, ReservationInv, TypeOK
<1>2. ASSUME NEW x \in Foreign, ForeignBlock(x) PROVE ReservationInv'
  BY <1>2, NextBlockInv, InputsAssumption DEF ForeignBlock, ReservationInv, TypeOK
<1>3. ASSUME NEW b \in Builds, NEW taken \in SUBSET Inputs, LandingBlock(b, taken)
      PROVE  ReservationInv'
  BY <1>3, NextBlockInv DEF LandingBlock, ReservationInv, TypeOK
<1>4. QED
  BY <1>1, <1>2, <1>3 DEF ChainStep

LEMMA InputsInType == \A s \in Streams : InputsIn(s) \subseteq Inputs
  BY DEF Streams, InputsIn, Inputs

(* Reading the chain: what a resync holds is never ahead of it. *)
LEMMA ReadInv ==
    ASSUME ReservationInv, (\E s \in Streams : ReadStream(s)) \/ ReadBlock \/ ResyncFails
    PROVE  ReservationInv'
<1>1. /\ resync' \in [read: SUBSET Streams, seen: SUBSET Inputs, dust: Times,
                      block: Times \cup {NoTime}]
      /\ resync'.block <= clock /\ resync'.dust <= clock
  <2>1. CASE \E s \in Streams : ReadStream(s)
    <3>1. PICK s \in Streams : ReadStream(s)
      BY <2>1
    <3>2. resync.seen \cup (spent \cap InputsIn(s)) \subseteq Inputs
      BY InputsInType DEF ReservationInv, TypeOK
    <3>3. resync' = [read |-> resync.read \cup {s},
                     seen |-> resync.seen \cup (spent \cap InputsIn(s)),
                     dust |-> IF s = "dust" THEN lastDust ELSE resync.dust,
                     block |-> resync.block]
      BY <3>1 DEF ReadStream, ReservationInv, TypeOK
    <3>4. QED
      BY <3>2, <3>3 DEF ReservationInv, TypeOK, WalletBehindChain
  <2>2. CASE ReadBlock
    BY <2>2 DEF ReadBlock, ReservationInv, TypeOK, WalletBehindChain, Times
  <2>3. CASE ResyncFails
    BY <2>3 DEF ResyncFails, NoResync, NoTime, ReservationInv, TypeOK, WalletBehindChain, Times
  <2>4. QED
    BY <2>1, <2>2, <2>3
<1>2. UNCHANGED <<chainVars, wallet, pending, saveFailed, disk, build, restarts>>
  BY DEF ReadStream, ReadBlock, ResyncFails
<1>3. QED
  BY <1>1, <1>2 DEF ReservationInv, TypeOK, WalletBehindChain, NoDoubleHold, DisjointAfter,
                    chainVars

(* A resync or a restart leaves the wallet's view within the chain's, and  *)
(* keeps some of what the memory or the disk held.                         *)
LEMMA ViewMoves ==
    ASSUME ReservationInv, UNCHANGED chainVars, resync' = NoResync,
           restarts' \in Nat, saveFailed' \in BOOLEAN, build' \in [Builds -> Build],
           wallet' \in [tip: Times, anchor: Times, seen: SUBSET Inputs, dust: Times],
           wallet'.tip <= clock, wallet'.dust <= clock, wallet'.anchor <= clock + 1,
           pending' \subseteq pending \/ pending' \subseteq disk.pending,
           disk' \in [pending: SUBSET Entry, seen: SUBSET Inputs, dust: Times],
           disk'.pending \in {pending', disk.pending}
    PROVE  ReservationInv'
<1>1. clock \in Nat /\ pending \subseteq Entry /\ disk.pending \subseteq Entry
  BY DEF ReservationInv, TypeOK, Times
<1>2. TypeOK'
  BY <1>1 DEF ReservationInv, TypeOK, chainVars, NoResync, Times
<1>3. WalletBehindChain'
  BY <1>1 DEF ReservationInv, WalletBehindChain, chainVars, NoResync, NoTime
<1>4. DisjointAfter(pending, clock)' /\ DisjointAfter(disk.pending, clock)'
  BY <1>1 DEF ReservationInv, NoDoubleHold, DisjointAfter, chainVars
<1>5. QED
  BY <1>2, <1>3, <1>4 DEF ReservationInv, NoDoubleHold

LEMMA CommitInv ==
    ASSUME ReservationInv, CommitResync
    PROVE  ReservationInv'
<1> DEFINE anchor == DustAnchor(NewDust(resync.dust, wallet.dust), wallet.anchor, resync.block)
<1> DEFINE w == [tip |-> resync.block, anchor |-> anchor, seen |-> resync.seen,
                 dust |-> resync.dust]
<1> DEFINE after == ClearConfirmed(pending, resync.seen \ wallet.seen)
<1>1. TypeOK /\ WalletBehindChain /\ clock \in Nat
  BY DEF ReservationInv, TypeOK, Times
<1>2. anchor \in Nat /\ anchor <= clock + 1
  <2>1. /\ NewDust(resync.dust, wallet.dust) \in Nat \cup {NoTime}
        /\ NewDust(resync.dust, wallet.dust) <= clock
    BY <1>1 DEF TypeOK, WalletBehindChain, NewDust, NoTime, Times
  <2>2. wallet.anchor \in Nat /\ resync.block \in Nat
    BY <1>1 DEF TypeOK, CommitResync, Times
  <2>3. wallet.anchor <= clock + 1 /\ resync.block <= clock
    BY <1>1 DEF WalletBehindChain
  <2>4. QED
    BY <1>1, <2>1, <2>2, <2>3, DustAnchorTime
<1> HIDE DEF anchor
<1>3. w \in [tip: Times, anchor: Times, seen: SUBSET Inputs, dust: Times]
  BY <1>1, <1>2 DEF TypeOK, CommitResync, Times
<1>4. wallet' = w /\ pending' = after /\ after \subseteq pending
  BY DEF CommitResync, anchor, ClearConfirmed
<1>5. /\ disk' \in [pending: SUBSET Entry, seen: SUBSET Inputs, dust: Times]
      /\ disk'.pending \in {after, disk.pending}
      /\ saveFailed' \in BOOLEAN
  <2>1. SaveAll(after, w) \/ UNCHANGED <<disk, saveFailed>>
    BY DEF CommitResync, Persist, anchor
  <2>2. after \in SUBSET Entry
    BY <1>1, <1>4 DEF TypeOK
  <2>3. w.seen \in SUBSET Inputs /\ w.dust \in Times
    BY <1>3
  <2> HIDE DEF w, after
  <2>4. disk \in [pending: SUBSET Entry, seen: SUBSET Inputs, dust: Times]
        /\ saveFailed \in BOOLEAN
    BY <1>1 DEF TypeOK
  <2>5. CASE disk' = [disk EXCEPT !.seen = w.seen, !.dust = w.dust] /\ saveFailed' = TRUE
    BY <2>3, <2>4, <2>5
  <2>6. CASE disk' = [pending |-> after, seen |-> w.seen, dust |-> w.dust] /\ saveFailed' = FALSE
    BY <2>2, <2>3, <2>6
  <2>7. CASE UNCHANGED disk /\ saveFailed' \in BOOLEAN
    BY <2>4, <2>7
  <2>8. QED
    BY <2>1, <2>4, <2>5, <2>6, <2>7 DEF SaveAll
<1>6. w.tip <= clock /\ w.dust <= clock /\ w.anchor <= clock + 1
  BY <1>1, <1>2 DEF WalletBehindChain
<1>7. UNCHANGED chainVars /\ resync' = NoResync /\ restarts' \in Nat
      /\ build' \in [Builds -> Build]
  BY <1>1 DEF CommitResync, TypeOK
<1>8. QED
  BY <1>3, <1>4, <1>5, <1>6, <1>7, ViewMoves

LEMMA RestartInv ==
    ASSUME ReservationInv, Restart
    PROVE  ReservationInv'
<1> DEFINE anchor == DustAnchor(NewDust(lastDust, disk.dust), NoTime, clock)
<1> DEFINE w == [tip |-> clock, anchor |-> anchor, seen |-> spent, dust |-> lastDust]
<1>1. TypeOK /\ WalletBehindChain /\ clock \in Nat
  BY DEF ReservationInv, TypeOK, Times
<1>2. anchor \in Nat /\ anchor <= clock + 1
  <2>1. /\ NewDust(lastDust, disk.dust) \in Nat \cup {NoTime}
        /\ NewDust(lastDust, disk.dust) <= clock
    BY <1>1 DEF TypeOK, WalletBehindChain, NewDust, NoTime, Times
  <2>2. NoTime <= clock + 1 /\ clock <= clock
    BY <1>1 DEF NoTime
  <2>3. QED
    BY <1>1, <2>1, <2>2, DustAnchorTime
<1> HIDE DEF anchor
<1>3. w \in [tip: Times, anchor: Times, seen: SUBSET Inputs, dust: Times]
      /\ w.tip <= clock /\ w.dust <= clock /\ w.anchor <= clock + 1
  BY <1>1, <1>2 DEF TypeOK, WalletBehindChain, Times
<1>4. wallet' = w
  BY DEF Restart, anchor
<1>5. pending' \subseteq disk.pending /\ disk' = [pending |-> pending', seen |-> spent,
                                                  dust |-> lastDust]
  BY DEF Restart, ClearConfirmed
<1>6. build' \in [Builds -> Build]
  <2>1. DoneBuild \in Build
    BY DEF DoneBuild, IdleBuild, Build, Steps, Times
  <2>2. \A b \in Builds : AfterRestart(b) \in Build
    BY <1>1, <2>1 DEF AfterRestart, TypeOK, Build, Steps, CanLand
  <2>3. QED
    BY <2>2 DEF Restart
<1>7. UNCHANGED chainVars /\ resync' = NoResync /\ restarts' \in Nat /\ saveFailed' \in BOOLEAN
  <2>1. restarts \in Nat
    BY <1>1 DEF TypeOK
  <2>2. restarts' = restarts + 1 /\ saveFailed' = FALSE
    BY DEF Restart
  <2>3. UNCHANGED chainVars /\ resync' = NoResync
    BY DEF Restart
  <2>4. restarts' \in Nat
    BY <2>1, <2>2
  <2>5. saveFailed' \in BOOLEAN
    BY <2>2
  <2>6. QED
    BY <2>3, <2>4, <2>5
<1>8. disk' \in [pending: SUBSET Entry, seen: SUBSET Inputs, dust: Times]
      /\ disk'.pending \in {pending', disk.pending}
  BY <1>1, <1>5 DEF TypeOK
<1>9. QED
  BY <1>3, <1>4, <1>5, <1>6, <1>7, <1>8, ViewMoves

(***************************************************************************)
(* The theorems                                                            *)
(***************************************************************************)

LEMMA NextInv == ReservationInv /\ [Next]_vars => ReservationInv'
<1> SUFFICES ASSUME ReservationInv, [Next]_vars PROVE ReservationInv'
  OBVIOUS
<1>1. CASE \E b \in Builds : BuildStep(b)
  BY <1>1, BuildStepInv
<1>2. CASE ChainStep
  BY <1>2, ChainStepInv
<1>3. CASE WalletStep
  BY <1>3, ReadInv, CommitInv, RestartInv DEF WalletStep
<1>4. CASE UNCHANGED vars
  <2>1. build' \in [Builds -> Build]
    BY <1>4 DEF vars, ReservationInv, TypeOK
  <2>2. QED
    BY <1>4, <2>1, BuildOnly DEF vars, NoWalletChange, chainVars
<1>5. QED
  BY <1>1, <1>2, <1>3, <1>4 DEF Next

(* The reservations stay disjoint in memory and in pending.json, so that a  *)
(* restart loads no input twice, and the wallet's clock stays behind the    *)
(* chain, through every build, release, resync, failed write and restart    *)
(* (reserve_pending, persist_pending, release, dust_anchor, Wallet::load).  *)
THEOREM StateIsSound == Spec => []ReservationInv
  BY InitInv, NextInv, PTL DEF Spec

(* Every variable keeps its type. *)
THEOREM TypeCorrect == Spec => []TypeOK
<1>1. ReservationInv => TypeOK
  BY DEF ReservationInv
<1>2. QED
  BY <1>1, StateIsSound, PTL

(* No input is ever held by two reservations whose transactions can both   *)
(* still land: the guarantee behind reserving on build (reserve_pending,   *)
(* add_funding, spend_unshielded, spend_shielded), through resyncs,        *)
(* releases, failed writes and restarts.                                   *)
THEOREM NoInputHeldTwice == Spec => []NoDoubleHold
<1>1. ReservationInv => NoDoubleHold
  BY DEF ReservationInv
<1>2. QED
  BY <1>1, StateIsSound, PTL

(* The wallet's chain time, which decides what is evicted and what a build *)
(* may select, is never more than a second ahead of the chain.             *)
THEOREM ClockNeverAhead == Spec => []WalletBehindChain
<1>1. ReservationInv => WalletBehindChain
  BY DEF ReservationInv
<1>2. QED
  BY <1>1, StateIsSound, PTL

(***************************************************************************)
(* A build that can still land keeps its inputs, and so shares none.       *)
(*                                                                         *)
(* What can take an entry away is an eviction, a confirmed spend, a        *)
(* restart or a release.  The first three only take entries whose          *)
(* transaction can land in no later block, and this needs the invariant    *)
(* below: an entry covers inputs of its own build, until its TTL at least, *)
(* and the wallet's time only moves on.  A release takes what its stamp    *)
(* matches, and two builds can share a stamp (the README's Disagreements), *)
(* so the theorems are for the runs in which no release takes another's.   *)
(***************************************************************************)

Alive == Armed \cup CanLand \cup {"built"}

(* The inputs of a build's record. *)
Taken(r) == {s.input : s \in r.spends}

(* An entry belongs to a build that has started, and as long as its        *)
(* transaction may be submitted or land, it covers inputs that the build   *)
(* spends, until its TTL at least.                                         *)
IsTheirs(e) ==
    /\ build[e.by].st # "idle"
    /\ build[e.by].st \in Alive =>
          e.inputs \subseteq InputsOf(e.by) /\ e.expires_at >= build[e.by].ttl

Theirs(P) == \A e \in P : IsTheirs(e)

(* The wallet and a resync saw no more than the chain has, and a commit    *)
(* takes the wallet's times forward.                                       *)
SeesTheChain ==
    /\ wallet.seen \subseteq spent /\ resync.seen \subseteq spent
    /\ wallet.dust <= lastDust /\ resync.dust <= lastDust
    /\ wallet.anchor <= wallet.tip \/ wallet.anchor <= wallet.dust + 1
    /\ resync.block # NoTime => wallet.tip <= resync.block
    /\ "dust" \in resync.read => wallet.dust <= resync.dust

(* A context was funded in the past, and what gives back has something. *)
BuildsSound ==
    \A b \in Builds :
        /\ build[b].st = "funded" =>
              build[b].time <= ChainTime /\ build[b].ttl = build[b].time + GlobalTtl
        /\ build[b].st \in Returning => build[b].spends # {}

(* LiveBuildIsHeld made inductive. *)
HeldInv ==
    /\ Theirs(pending) /\ Theirs(disk.pending)
    /\ SeesTheChain
    /\ BuildsSound
    /\ LiveBuildIsHeld

LEMMA InitHeld == Init => HeldInv
<1> SUFFICES ASSUME Init PROVE HeldInv
  OBVIOUS
<1>1. Theirs(pending) /\ Theirs(disk.pending)
  BY DEF Init, Theirs
<1>2. SeesTheChain
  <2> DEFINE first == DustAnchor(0, NoTime, 0)
  <2>1. first <= 1
    BY TimeAssumption DEF DustAnchor, NoTime, Window
  <2> HIDE DEF first
  <2>2. wallet = [tip |-> 0, anchor |-> first, seen |-> {}, dust |-> 0]
    BY DEF Init, first
  <2>3. QED
    BY <2>1, <2>2 DEF Init, SeesTheChain, NoResync, NoTime
<1>3. \A b \in Builds : build[b].st = "idle"
  BY DEF Init, IdleBuild
<1>4. BuildsSound
  BY <1>3 DEF BuildsSound, Returning
<1>5. LiveBuildIsHeld
  BY <1>3 DEF LiveBuildIsHeld, Live, Armed, CanLand
<1>6. QED
  BY <1>1, <1>2, <1>4, <1>5 DEF HeldInv

(* An entry of a build that can still land has not expired at the wallet's *)
(* chain time.                                                             *)
LEMMA EvictedIsOver ==
    ASSUME ReservationInv, NEW e \in pending \ EvictExpired(pending)
    PROVE  e.expires_at <= clock
<1>1. ChainTime \in Nat /\ ChainTime <= clock + 1 /\ clock \in Nat
  BY DEF ReservationInv, TypeOK, WalletBehindChain, ChainTime, Times
<1>2. e.expires_at \in Nat
  BY DEF ReservationInv, TypeOK, Entry, Times
<1>3. QED
  BY <1>1, <1>2 DEF EvictExpired, WithinTtl

(* What a build adds covers the inputs it selected. *)
LEMMA EntriesForCover ==
    ASSUME NEW b, NEW X, NEW at, NEW expires
    PROVE  /\ \A e \in EntriesFor(b, X, at, expires) :
                 e.by = b /\ e.inputs \subseteq X /\ e.expires_at = expires
           /\ \A x \in X : \E e \in EntriesFor(b, X, at, expires) : x \in e.inputs
<1> DEFINE single(x) == [inputs |-> {x}, reserved_at |-> at, expires_at |-> expires, by |-> b]
           batch     == [inputs |-> X \cap Dust, reserved_at |-> at, expires_at |-> expires,
                         by |-> b]
<1>1. \A e \in EntriesFor(b, X, at, expires) :
         e.by = b /\ e.inputs \subseteq X /\ e.expires_at = expires
  BY DEF EntriesFor
<1>2. ASSUME NEW x \in X PROVE \E e \in EntriesFor(b, X, at, expires) : x \in e.inputs
  <2>1. CASE x \in Dust
    <3>1. batch \in EntriesFor(b, X, at, expires)
      BY <2>1 DEF EntriesFor
    <3>2. x \in batch.inputs
      BY <2>1
    <3>3. QED
      BY <3>1, <3>2
  <2>2. CASE x \notin Dust
    <3>1. single(x) \in EntriesFor(b, X, at, expires)
      BY <2>2 DEF EntriesFor
    <3>2. x \in single(x).inputs
      OBVIOUS
    <3>3. QED
      BY <3>1, <3>2
  <2>3. QED
    BY <2>1, <2>2
<1>3. QED
  BY <1>1, <1>2

(* One build moves from its record to the record r.  It goes on with the   *)
(* inputs and the TTL it had, plus inputs that it reserves now, or it      *)
(* stops; and the entries that leave are of transactions that are over.    *)
LEMMA OneBuildMoves ==
    ASSUME TypeOK, HeldInv, NEW b \in Builds, NEW r \in Build,
           build' = [build EXCEPT ![b] = r],
           UNCHANGED <<chainVars, wallet, resync>>,
           disk'.pending \in {pending', disk.pending},
           r.st # "idle",
           r.st \in Alive => \/ build[b].st = "idle"
                             \/ /\ build[b].st \in Alive
                                /\ InputsOf(b) \subseteq Taken(r)
                                /\ r.ttl = build[b].ttl,
           r.st = "funded" => r.time <= ChainTime /\ r.ttl = r.time + GlobalTtl,
           r.st \in Returning => r.spends # {},
           \A e \in pending \ pending' : e.expires_at <= clock \/ ~Live(e.by),
           \A e \in pending' \ pending : /\ e.by = b
                                         /\ e.inputs \subseteq Taken(r)
                                         /\ e.expires_at >= r.ttl,
           r.st \in Alive => \A x \in Taken(r) :
                (build[b].st \in Alive /\ x \in InputsOf(b))
                \/ \E e \in pending' : e.by = b /\ x \in e.inputs /\ e.expires_at >= r.ttl
    PROVE  HeldInv'
<1>1. build'[b] = r /\ \A c \in Builds : c # b => build'[c] = build[c]
  BY DEF TypeOK
<1>2. pending \subseteq Entry /\ disk.pending \subseteq Entry /\ clock \in Nat
  BY DEF TypeOK, Times
<1>3. \A c \in Builds : build[c].ttl \in Nat
  BY DEF TypeOK, Build, Times
<1>4. InputsOf(b)' = Taken(r) /\ \A c \in Builds : c # b => InputsOf(c)' = InputsOf(c)
  BY <1>1 DEF InputsOf, Taken
<1>5. "idle" \notin Alive
  BY DEF Alive, Armed, CanLand
<1>6. ASSUME NEW e \in Entry, IsTheirs(e) PROVE IsTheirs(e)'
  <2>1. e.by \in Builds
    BY DEF Entry
  <2>2. CASE e.by # b
    BY <1>1, <1>4, <1>6, <2>1, <2>2 DEF IsTheirs
  <2>3. CASE e.by = b
    BY <1>1, <1>4, <1>6, <2>3 DEF IsTheirs
  <2>4. QED
    BY <2>2, <2>3
<1>7. ASSUME NEW e \in pending' \ pending PROVE IsTheirs(e)'
  BY <1>1, <1>4 DEF IsTheirs
<1>8. Theirs(pending)' /\ Theirs(disk.pending)'
  <2>1. Theirs(pending)'
    BY <1>2, <1>6, <1>7 DEF HeldInv, Theirs
  <2>2. disk'.pending = disk.pending => Theirs(disk.pending)'
    BY <1>2, <1>6 DEF HeldInv, Theirs
  <2>3. disk'.pending = pending' => Theirs(disk.pending)'
    BY <2>1 DEF Theirs
  <2>4. QED
    BY <2>1, <2>2, <2>3
<1>9. SeesTheChain' /\ ChainTime' = ChainTime
  BY DEF HeldInv, SeesTheChain, chainVars, ChainTime
<1>10. BuildsSound'
  <2>1. SUFFICES ASSUME NEW c \in Builds
                 PROVE  /\ build'[c].st = "funded" =>
                              build'[c].time <= ChainTime' /\ build'[c].ttl = build'[c].time + GlobalTtl
                        /\ build'[c].st \in Returning => build'[c].spends # {}
    BY DEF BuildsSound
  <2>2. CASE c = b
    BY <1>1, <1>9, <2>2
  <2>3. CASE c # b
    BY <1>1, <1>9, <2>3 DEF HeldInv, BuildsSound
  <2>4. QED
    BY <2>2, <2>3
<1>11. LiveBuildIsHeld'
  <2>1. SUFFICES ASSUME NEW c \in Builds, Live(c)', NEW x \in InputsOf(c)'
                 PROVE  \E e \in pending' : e.by = c /\ x \in e.inputs
                                             /\ e.expires_at >= build'[c].ttl
    BY DEF LiveBuildIsHeld
  <2>2. build'[c].st \in Alive /\ build'[c].ttl > clock /\ c \notin landed
        /\ InputsOf(c)' \cap spent = {}
    BY <2>1 DEF Live, chainVars, Alive
  <2>3. ASSUME Live(c), x \in InputsOf(c), build'[c].ttl = build[c].ttl
        PROVE  \E e \in pending' : e.by = c /\ x \in e.inputs /\ e.expires_at >= build'[c].ttl
    <3>1. PICK e \in pending : e.by = c /\ x \in e.inputs /\ e.expires_at >= build[c].ttl
      BY <2>3 DEF HeldInv, LiveBuildIsHeld
    <3>2. e.expires_at \in Nat
      BY <1>2 DEF Entry, Times
    <3>3. e.expires_at > clock
      BY <1>2, <1>3, <2>2, <2>3, <3>1, <3>2
    <3>4. e \in pending'
      BY <1>2, <2>3, <3>1, <3>2, <3>3
    <3>5. QED
      BY <2>3, <3>1, <3>4
  <2>4. CASE c # b
    <3>1. Live(c)
      BY <1>1, <1>4, <2>2, <2>4 DEF Live, Alive
    <3>2. QED
      BY <1>1, <1>4, <2>1, <2>3, <2>4, <3>1
  <2>5. CASE c = b
    <3>1. r.st \in Alive /\ x \in Taken(r) /\ build'[c] = r
      BY <1>1, <1>4, <2>1, <2>2, <2>5
    <3>2. CASE build[b].st \in Alive /\ x \in InputsOf(b)
      <4>1. InputsOf(b) \subseteq Taken(r) /\ r.ttl = build[b].ttl
        BY <1>5, <3>1, <3>2
      <4>2. Live(b)
        BY <1>4, <2>2, <2>5, <3>1, <3>2, <4>1 DEF Live, Alive
      <4>3. QED
        BY <2>3, <2>5, <3>1, <3>2, <4>1, <4>2
    <3>3. CASE \E e \in pending' : e.by = b /\ x \in e.inputs /\ e.expires_at >= r.ttl
      BY <2>5, <3>1, <3>3
    <3>4. QED
      BY <3>1, <3>2, <3>3
  <2>6. QED
    BY <2>4, <2>5
<1>12. QED
  BY <1>8, <1>9, <1>10, <1>11 DEF HeldInv

(***************************************************************************)
(* The builds' steps                                                       *)
(***************************************************************************)

(* A failed write leaves the reservations on disk as they were. *)
LEMMA PersistPendingKeeps ==
    ASSUME TypeOK, NEW P, PersistPending(P)
    PROVE  disk'.pending \in {P, disk.pending}
  BY DEF PersistPending, TypeOK

(* The guards of proving and submitting move a build on, with its inputs   *)
(* and its TTL, or end it.                                                 *)
LEMMA GoToHeld ==
    ASSUME TypeOK, HeldInv, NEW b \in Builds, NEW step \in Steps, GoTo(b, step), NoWalletChange,
           step \notin {"idle", "funded"},
           step \in Alive => build[b].st \in Alive,
           step \in Returning => build[b].spends # {}
    PROVE  HeldInv'
<1> DEFINE r == IF step = "done" THEN DoneBuild
                ELSE [build[b] EXCEPT !.st = step, !.view = {}, !.at = 0, !.time = 0]
<1>1. build' = [build EXCEPT ![b] = r]
  BY DEF GoTo, SetBuild
<1>2. build[b] \in Build
  BY DEF TypeOK
<1>3. r \in Build
  BY <1>2 DEF DoneBuild, IdleBuild, Build, Steps, Times
<1>4. "done" \notin Alive /\ "done" \notin Returning
  BY DEF Alive, Armed, CanLand, Returning
<1>5. r.st = step /\ (step # "done" => r.spends = build[b].spends /\ r.ttl = build[b].ttl)
  BY <1>2 DEF DoneBuild, IdleBuild, Build
<1> HIDE DEF r
<1>6. step # "done" => Taken(r) = InputsOf(b)
  BY <1>5 DEF Taken, InputsOf
<1>7. UNCHANGED <<chainVars, wallet, resync>> /\ pending' = pending /\ disk' = disk
  BY DEF NoWalletChange
<1>8. QED
  BY <1>1, <1>3, <1>4, <1>5, <1>6, <1>7, OneBuildMoves

(* Giving up ends a build, or leaves something to hand back. *)
LEMMA GiveUpHeld ==
    ASSUME TypeOK, HeldInv, NEW b \in Builds, GiveUp(b), NoWalletChange
    PROVE  HeldInv'
<1>1. PICK step \in {"done", "unwinding", "releasing"} :
          GoTo(b, step) /\ (step # "done" => build[b].spends # {})
  <2> DEFINE step == IF build[b].spends = {} THEN "done"
                     ELSE IF build[b].st \in {"funded", "paying"} THEN "unwinding"
                     ELSE "releasing"
  <2>1. GoTo(b, step)
    BY DEF GiveUp
  <2>2. step \in {"done", "unwinding", "releasing"} /\ (step # "done" => build[b].spends # {})
    OBVIOUS
  <2> HIDE DEF step
  <2>3. QED
    BY <2>1, <2>2
<1>2. step \in Steps /\ step \notin Alive /\ step \notin {"idle", "funded"}
  BY <1>1 DEF Steps, Alive, Armed, CanLand, Returning
<1>3. step \in Returning => build[b].spends # {}
  BY <1>1 DEF Returning
<1>4. QED
  BY <1>1, <1>2, <1>3, GoToHeld

LEMMA FundHeld ==
    ASSUME ReservationInv, HeldInv, NEW b \in Builds, Fund(b)
    PROVE  HeldInv'
<1> DEFINE r == [st |-> "funded", view |-> FundingView(pending), at |-> wallet.anchor,
                 time |-> ChainTime, spends |-> {}, ttl |-> ChainTime + GlobalTtl]
<1>1. TypeOK /\ ChainTime \in Nat
  BY WalletTimes DEF ReservationInv
<1>2. r \in Build
  BY <1>1, WalletTimes, TimeAssumption DEF Build, Steps, Armed, Times
<1>3. build' = [build EXCEPT ![b] = r] /\ build[b].st = "idle"
  BY DEF Fund, SetBuild
<1>4. pending' = EvictExpired(pending) /\ disk' = disk /\ UNCHANGED <<chainVars, wallet, resync>>
  BY DEF Fund
<1>5. \A e \in pending \ pending' : e.expires_at <= clock
  BY <1>4, EvictedIsOver
<1>6. pending' \subseteq pending
  BY <1>1, <1>4, WalletTimes
<1>7. r.st = "funded" /\ r.time = ChainTime /\ r.ttl = ChainTime + GlobalTtl /\ Taken(r) = {}
  BY DEF Taken
<1> HIDE DEF r
<1>8. r.st # "idle" /\ r.st \notin Returning /\ r.time <= ChainTime
  BY <1>1, <1>7 DEF Returning
<1>9. QED
  BY <1>1, <1>2, <1>3, <1>4, <1>5, <1>6, <1>7, <1>8, OneBuildMoves

(* A build that reserves goes on with what it had and with what the new    *)
(* entries cover.                                                          *)
LEMMA ReserveHeld ==
    ASSUME ReservationInv, HeldInv, NEW b \in Builds, NEW r \in Build,
           build' = [build EXCEPT ![b] = r],
           UNCHANGED <<chainVars, wallet, resync>>,
           NEW X \in SUBSET Inputs, NEW at \in Nat, NEW expires \in Nat, expires >= r.ttl,
           NEW P \in {pending, EvictExpired(pending)},
           pending' = P \cup EntriesFor(b, X, at, expires),
           PersistPending(P \cup EntriesFor(b, X, at, expires)),
           r.st \in {"funded", "paying", "proving"},
           r.st = "funded" => r.time <= ChainTime /\ r.ttl = r.time + GlobalTtl,
           \/ build[b].st = "idle" /\ Taken(r) = X
           \/ /\ build[b].st = "funded" /\ r.ttl = build[b].ttl
              /\ Taken(r) = InputsOf(b) \cup X
    PROVE  HeldInv'
<1> DEFINE N == EntriesFor(b, X, at, expires)
<1>1. TypeOK
  BY DEF ReservationInv
<1>2. disk'.pending \in {pending', disk.pending}
  BY <1>1, PersistPendingKeeps
<1>3. /\ \A e \in N : e.by = b /\ e.inputs \subseteq X /\ e.expires_at = expires
      /\ \A x \in X : \E e \in N : x \in e.inputs
  BY EntriesForCover
<1>4. pending' = P \cup N /\ P \subseteq pending
  BY <1>1, WalletTimes
<1>5. \A e \in pending \ pending' : e.expires_at <= clock
  BY <1>4, EvictedIsOver
<1> HIDE DEF N
<1>6. \A e \in pending' \ pending : /\ e.by = b
                                    /\ e.inputs \subseteq Taken(r)
                                    /\ e.expires_at >= r.ttl
  BY <1>3, <1>4
<1>7. "funded" \in Alive /\ r.st # "idle" /\ r.st \notin Returning
  BY DEF Alive, Armed, Returning
<1>8. \A x \in Taken(r) :
          (build[b].st \in Alive /\ x \in InputsOf(b))
          \/ \E e \in pending' : e.by = b /\ x \in e.inputs /\ e.expires_at >= r.ttl
  <2>1. \A x \in X : \E e \in pending' : e.by = b /\ x \in e.inputs /\ e.expires_at >= r.ttl
    BY <1>3, <1>4
  <2>2. QED
    BY <1>7, <2>1
<1>9. r.st \in Alive => \/ build[b].st = "idle"
                        \/ /\ build[b].st \in Alive
                           /\ InputsOf(b) \subseteq Taken(r)
                           /\ r.ttl = build[b].ttl
  BY <1>7
<1>10. QED
  BY <1>1, <1>2, <1>5, <1>6, <1>7, <1>8, <1>9, OneBuildMoves

(* Inputs with the stamp of their entry are those inputs. *)
LEMMA StampedTaken ==
    ASSUME NEW X, NEW at, NEW S
    PROVE  /\ {s.input : s \in Stamped(X, at)} = X
           /\ {s.input : s \in S \cup Stamped(X, at)} = {s.input : s \in S} \cup X
<1>1. \A s \in Stamped(X, at) : s.input \in X
  BY DEF Stamped
<1>2. ASSUME NEW x \in X PROVE \E s \in Stamped(X, at) : s.input = x
  <2>1. [input |-> x, reserved_at |-> at] \in Stamped(X, at)
    BY DEF Stamped
  <2>2. QED
    BY <2>1
<1>3. QED
  BY <1>1, <1>2

LEMMA PinHeld ==
    ASSUME ReservationInv, HeldInv, NEW b \in Builds, NEW X \in SUBSET Inputs, Pin(b, X)
    PROVE  HeldInv'
<1> DEFINE r == [build[b] EXCEPT !.spends = @ \cup Stamped(X, build[b].at)]
<1>1. build[b] \in Build /\ build[b].st = "funded"
  BY DEF ReservationInv, TypeOK, Pin, OneHold
<1>2. build[b].at \in Nat /\ build[b].time + GlobalTtl \in Nat
  BY <1>1, TimeAssumption DEF Build, Times
<1>3. r \in Build
  <2>1. Stamped(X, build[b].at) \subseteq ReservedInput
    BY <1>2, StampedType
  <2>2. QED
    BY <1>1, <2>1 DEF Build
<1>4. /\ r.st = "funded" /\ r.time = build[b].time /\ r.ttl = build[b].ttl
      /\ r.spends = build[b].spends \cup Stamped(X, build[b].at)
  BY <1>1 DEF Build
<1>5. build' = [build EXCEPT ![b] = r]
  BY DEF Pin, SetBuild
<1> HIDE DEF r
<1>6. Taken(r) = InputsOf(b) \cup X
  BY <1>4, StampedTaken DEF Taken, InputsOf
<1>7. build[b].time <= ChainTime /\ build[b].ttl = build[b].time + GlobalTtl
  BY <1>1 DEF HeldInv, BuildsSound
<1>8. build[b].time + GlobalTtl >= r.ttl
  BY <1>2, <1>4, <1>7
<1>9. /\ pending' = pending \cup EntriesFor(b, X, build[b].at, build[b].time + GlobalTtl)
      /\ PersistPending(pending \cup EntriesFor(b, X, build[b].at, build[b].time + GlobalTtl))
      /\ UNCHANGED <<chainVars, wallet, resync>>
  BY DEF Pin
<1>10. QED
  BY <1>1, <1>2, <1>3, <1>4, <1>5, <1>6, <1>7, <1>8, <1>9, ReserveHeld

LEMMA PayFeeHeld ==
    ASSUME ReservationInv, HeldInv, NEW b \in Builds, NEW D \in SUBSET Inputs, PayFee(b, D)
    PROVE  HeldInv'
<1> DEFINE r == [build[b] EXCEPT !.st = "paying", !.view = {}, !.at = 0, !.time = 0,
                                 !.spends = @ \cup Stamped(D, wallet.anchor)]
<1>1. build[b] \in Build /\ build[b].st = "funded" /\ TypeOK
  BY DEF ReservationInv, TypeOK, PayFee
<1>2. wallet.anchor \in Nat /\ ChainTime \in Nat /\ ChainTime + GlobalTtl \in Nat
  BY <1>1, WalletTimes, TimeAssumption
<1>3. r \in Build
  <2>1. Stamped(D, wallet.anchor) \subseteq ReservedInput
    BY <1>2, StampedType
  <2>2. QED
    BY <1>1, <2>1 DEF Build, Steps, Armed, Times
<1>4. /\ r.st = "paying" /\ r.ttl = build[b].ttl
      /\ r.spends = build[b].spends \cup Stamped(D, wallet.anchor)
  BY <1>1 DEF Build
<1>5. build' = [build EXCEPT ![b] = r]
  BY DEF PayFee, SetBuild
<1> HIDE DEF r
<1>6. Taken(r) = InputsOf(b) \cup D
  BY <1>4, StampedTaken DEF Taken, InputsOf
<1>7. ChainTime + GlobalTtl >= r.ttl
  <2>1. build[b].time <= ChainTime /\ build[b].ttl = build[b].time + GlobalTtl
    BY <1>1 DEF HeldInv, BuildsSound
  <2>2. build[b].time \in Nat
    BY <1>1 DEF Build, Times
  <2>3. QED
    BY <1>2, <1>4, <2>1, <2>2, TimeAssumption
<1>8. /\ pending' = EvictExpired(pending) \cup
                        EntriesFor(b, D, wallet.anchor, ChainTime + GlobalTtl)
      /\ PersistPending(EvictExpired(pending) \cup
                        EntriesFor(b, D, wallet.anchor, ChainTime + GlobalTtl))
      /\ UNCHANGED <<chainVars, wallet, resync>>
  BY DEF PayFee
<1>9. QED
  BY <1>1, <1>2, <1>3, <1>4, <1>5, <1>6, <1>7, <1>8, ReserveHeld

LEMMA PrepareHeld ==
    ASSUME ReservationInv, HeldInv, NEW b \in Builds, NEW X \in SUBSET Inputs, NEW ttl \in Ttls,
           Prepare(b, X, ttl)
    PROVE  HeldInv'
<1> DEFINE r == [st |-> "proving", view |-> {}, at |-> 0, time |-> 0,
                 spends |-> Stamped(X, wallet.anchor), ttl |-> ChainTime + ttl]
<1>1. build[b].st = "idle" /\ TypeOK
  BY DEF ReservationInv, Prepare
<1>2. wallet.anchor \in Nat /\ ChainTime + ttl \in Nat
  BY <1>1, WalletTimes, TimeAssumption
<1>3. r \in Build
  <2>1. Stamped(X, wallet.anchor) \subseteq ReservedInput
    BY <1>2, StampedType
  <2>2. QED
    BY <1>2, <2>1 DEF Build, Steps, Armed, Times
<1>4. r.st = "proving" /\ r.ttl = ChainTime + ttl /\ r.spends = Stamped(X, wallet.anchor)
  OBVIOUS
<1>5. build' = [build EXCEPT ![b] = r]
  BY DEF Prepare, SetBuild
<1> HIDE DEF r
<1>6. Taken(r) = X /\ ChainTime + ttl >= r.ttl
  <2>1. Taken(r) = X
    BY <1>4, StampedTaken DEF Taken
  <2>2. QED
    BY <1>2, <1>4, <2>1
<1>7. /\ pending' = EvictExpired(pending) \cup EntriesFor(b, X, wallet.anchor, ChainTime + ttl)
      /\ PersistPending(EvictExpired(pending) \cup EntriesFor(b, X, wallet.anchor, ChainTime + ttl))
      /\ UNCHANGED <<chainVars, wallet, resync>>
  BY DEF Prepare
<1>8. QED
  BY <1>1, <1>2, <1>3, <1>4, <1>5, <1>6, <1>7, ReserveHeld

(* A hand-back ends its build, or leaves it something else to return; what *)
(* else it drops is what OwnRelease is about.                              *)
LEMMA ReleaseHeld ==
    ASSUME ReservationInv, HeldInv, NEW b \in Builds, NEW S \in HandBacks(b), Release(b, S),
           [OwnRelease]_vars
    PROVE  HeldInv'
<1> DEFINE r == IF build[b].spends = S THEN DoneBuild ELSE [build[b] EXCEPT !.spends = @ \ S]
<1>1. TypeOK /\ build[b] \in Build /\ build[b].st \in Returning
  BY DEF ReservationInv, TypeOK, Release
<1>2. build[b].spends # {}
  BY <1>1 DEF HeldInv, BuildsSound
<1>3. S \subseteq build[b].spends /\ S # {}
  BY <1>2 DEF HandBacks
<1>4. r \in Build
  BY <1>1 DEF DoneBuild, IdleBuild, Build, Steps, Times
<1>5. r.st = "done" \/ (r.st = build[b].st /\ r.spends # {})
  BY <1>1, <1>3 DEF DoneBuild, IdleBuild, Build
<1>6. build' = [build EXCEPT ![b] = r]
  BY DEF Release, SetBuild
<1> HIDE DEF r
<1>7. build'[b] # build[b]
  <2>1. r.spends # build[b].spends
    BY <1>2, <1>3 DEF r, DoneBuild, IdleBuild, Build
  <2>2. QED
    BY <1>1, <1>6, <2>1 DEF TypeOK
<1>8. /\ "done" \notin Alive \cup Returning /\ "idle" \notin Returning /\ "funded" \notin Returning
      /\ Alive \cap Returning = {}
  BY DEF Alive, Armed, CanLand, Returning
<1>9. r.st # "idle" /\ r.st \notin Alive /\ r.st # "funded" /\ (r.st \in Returning => r.spends # {})
  BY <1>1, <1>5, <1>8
<1>10. /\ pending' \subseteq pending
       /\ disk'.pending \in {pending', disk.pending}
       /\ UNCHANGED <<chainVars, wallet, resync>>
  BY <1>1, PersistPendingKeeps DEF Release, ReleaseFrom
<1>11. \A e \in pending \ pending' : ~Live(e.by)
  <2>1. OwnRelease
    BY <1>7 DEF vars
  <2>2. \A e \in pending \ pending' : e.by # b => ~Live(e.by)
    BY <2>1 DEF OwnRelease
  <2>3. ~Live(b)
    BY <1>1, <1>8 DEF Live, Alive
  <2>4. QED
    BY <2>2, <2>3
<1>12. QED
  BY <1>1, <1>4, <1>6, <1>9, <1>10, <1>11, OneBuildMoves

LEMMA BuildStepHeld ==
    ASSUME ReservationInv, HeldInv, NEW b \in Builds, BuildStep(b), [OwnRelease]_vars
    PROVE  HeldInv'
<1>1. TypeOK
  BY DEF ReservationInv
<1>2. CASE Fund(b)
  BY <1>2, FundHeld
<1>3. CASE \E X \in SUBSET Inputs : Pin(b, X) \/ PinRefused(b, X) \/ PayFee(b, X)
  <2>1. ASSUME NEW X \in SUBSET Inputs, PinRefused(b, X) PROVE HeldInv'
    BY <1>1, <2>1, GiveUpHeld DEF PinRefused, NoWalletChange
  <2>2. QED
    BY <1>3, <2>1, PinHeld, PayFeeHeld
<1>4. CASE \E X \in SUBSET Inputs, ttl \in Ttls : Prepare(b, X, ttl)
  BY <1>4, PrepareHeld
<1>5. CASE \E S \in HandBacks(b) : Release(b, S)
  BY <1>5, ReleaseHeld
<1>6. CASE Proved(b) \/ PassOn(b) \/ WaitEnds(b) \/ AbandonNoRuntime(b) \/ Submit(b)
  <2>1. /\ {"built", "unknown", "done", "inflight"} \subseteq Steps
        /\ {"funded", "paying", "proving", "built", "prepared", "inflight"} \subseteq Alive
        /\ {"built", "unknown", "done", "inflight"} \cap Returning = {}
        /\ "done" \notin Alive
    BY DEF Steps, CanLand, Alive, Armed, Returning
  <2>2. PICK step \in {"built", "unknown", "done", "inflight"} :
            GoTo(b, step) /\ NoWalletChange /\ (step = "done" \/ build[b].st \in Alive)
    BY <1>6, <2>1 DEF Proved, PassOn, WaitEnds, AbandonNoRuntime, Submit
  <2>3. QED
    BY <1>1, <2>1, <2>2, GoToHeld
<1>7. CASE Abandon(b) \/ Invalid(b) \/ PrepareReserved(b)
  <2>1. "prepared" \in Steps /\ "prepared" \notin Returning /\ "built" \in Alive
    BY DEF Steps, Armed, Returning, Alive
  <2>2. CASE GiveUp(b) /\ NoWalletChange
    BY <1>1, <2>2, GiveUpHeld
  <2>3. CASE GoTo(b, "prepared") /\ NoWalletChange /\ build[b].st = "built"
    BY <1>1, <2>1, <2>3, GoToHeld
  <2>4. QED
    BY <1>7, <2>2, <2>3 DEF Abandon, Invalid, PrepareReserved
<1>8. QED
  BY <1>2, <1>3, <1>4, <1>5, <1>6, <1>7 DEF BuildStep

(***************************************************************************)
(* The chain, the resyncs and a restart                                    *)
(***************************************************************************)

(* As the chain moves on, fewer transactions can still land. *)
LEMMA ChainHeld ==
    ASSUME ReservationInv, HeldInv, NEW taken \in SUBSET Inputs, NEW dust \in BOOLEAN,
           NextBlock(taken, dust), landed \subseteq landed',
           UNCHANGED <<wallet, pending, saveFailed, disk, resync, build, restarts>>
    PROVE  HeldInv'
<1>1. clock \in Nat /\ clock' \in Nat /\ clock <= clock' /\ \A b \in Builds : build[b].ttl \in Nat
  BY TimeAssumption DEF ReservationInv, TypeOK, Build, NextBlock, Times
<1>2. spent \subseteq spent' /\ lastDust \in Nat /\ lastDust' \in Nat /\ lastDust <= lastDust'
  BY <1>1 DEF ReservationInv, TypeOK, WalletBehindChain, NextBlock, Times
<1>3. Theirs(pending)' /\ Theirs(disk.pending)'
  BY DEF HeldInv, Theirs, IsTheirs, InputsOf
<1>4. SeesTheChain'
  BY <1>2 DEF HeldInv, SeesTheChain, ReservationInv, TypeOK, Times
<1>5. BuildsSound'
  BY DEF HeldInv, BuildsSound, ChainTime
<1>6. \A b \in Builds : Live(b)' => Live(b)
  BY <1>1, <1>2 DEF Live, InputsOf
<1>7. LiveBuildIsHeld'
  BY <1>6 DEF HeldInv, LiveBuildIsHeld, InputsOf
<1>8. QED
  BY <1>3, <1>4, <1>5, <1>7 DEF HeldInv

LEMMA ChainStepHeld ==
    ASSUME ReservationInv, HeldInv, ChainStep
    PROVE  HeldInv'
<1>1. ASSUME NEW dust \in BOOLEAN, QuietBlock(dust) PROVE HeldInv'
  BY <1>1, ChainHeld DEF QuietBlock
<1>2. ASSUME NEW x \in Foreign, ForeignBlock(x) PROVE HeldInv'
  BY <1>2, ChainHeld, InputsAssumption DEF ForeignBlock
<1>3. ASSUME NEW b \in Builds, NEW taken \in SUBSET Inputs, LandingBlock(b, taken)
      PROVE  HeldInv'
  BY <1>3, ChainHeld DEF LandingBlock
<1>4. QED
  BY <1>1, <1>2, <1>3 DEF ChainStep

(* What a stream or the block query reads is not behind what the wallet    *)
(* last committed.                                                         *)
LEMMA ReadHeld ==
    ASSUME ReservationInv, HeldInv,
           (\E s \in Streams : ReadStream(s)) \/ ReadBlock \/ ResyncFails
    PROVE  HeldInv'
<1>1. UNCHANGED <<chainVars, wallet, pending, disk, build>>
  BY DEF ReadStream, ReadBlock, ResyncFails
<1>2. TypeOK /\ WalletBehindChain /\ SeesTheChain
  BY DEF ReservationInv, HeldInv
<1>3. SeesTheChain'
  <2>1. CASE \E s \in Streams : ReadStream(s)
    <3>1. PICK s \in Streams : ReadStream(s)
      BY <2>1
    <3>2. resync' = [read |-> resync.read \cup {s},
                     seen |-> resync.seen \cup (spent \cap InputsIn(s)),
                     dust |-> IF s = "dust" THEN lastDust ELSE resync.dust,
                     block |-> resync.block]
      BY <1>2, <3>1 DEF ReadStream, TypeOK
    <3>3. /\ wallet' = wallet /\ spent' = spent /\ lastDust' = lastDust
          /\ resync'.seen \subseteq spent /\ resync'.block = resync.block
      BY <1>1, <1>2, <3>2 DEF SeesTheChain, chainVars
    <3>4. resync'.dust <= lastDust /\ ("dust" \in resync'.read => wallet.dust <= resync'.dust)
      <4>1. CASE s = "dust"
        BY <1>2, <3>2, <4>1 DEF SeesTheChain, TypeOK, Times
      <4>2. CASE s # "dust"
        BY <1>2, <3>2, <4>2 DEF SeesTheChain
      <4>3. QED
        BY <4>1, <4>2
    <3>5. QED
      BY <1>2, <3>3, <3>4 DEF SeesTheChain
  <2>2. CASE ReadBlock
    <3>1. resync' = [read |-> resync.read, seen |-> resync.seen, dust |-> resync.dust,
                     block |-> clock]
      BY <1>2, <2>2 DEF ReadBlock, TypeOK
    <3>2. QED
      BY <1>1, <1>2, <3>1 DEF SeesTheChain, WalletBehindChain, chainVars
  <2>3. CASE ResyncFails
    <3>1. resync' = NoResync /\ lastDust \in Nat
      BY <1>2, <2>3 DEF ResyncFails, TypeOK, Times
    <3>2. QED
      BY <1>1, <1>2, <3>1 DEF SeesTheChain, NoResync, NoTime, chainVars
  <2>4. QED
    BY <2>1, <2>2, <2>3
<1>4. Theirs(pending)' /\ Theirs(disk.pending)'
  BY <1>1 DEF HeldInv, Theirs, IsTheirs, InputsOf
<1>5. BuildsSound'
  BY <1>1 DEF HeldInv, BuildsSound, ChainTime
<1>6. LiveBuildIsHeld'
  BY <1>1 DEF HeldInv, LiveBuildIsHeld, Live, InputsOf, chainVars
<1>7. QED
  BY <1>3, <1>4, <1>5, <1>6 DEF HeldInv

(* The anchor that a view of the chain leads to. *)
LEMMA AnchorIsSeen ==
    ASSUME NEW dust \in Nat, NEW cursor \in Nat, NEW previous \in Nat \cup {NoTime},
           NEW now \in Nat, NEW tip \in Nat, tip <= now, cursor <= dust,
           previous <= tip \/ previous <= cursor + 1
    PROVE  LET anchor == DustAnchor(NewDust(dust, cursor), previous, now)
           IN  /\ anchor <= now \/ anchor <= dust + 1
               /\ previous <= now \/ previous <= anchor
<1>1. Window \in Nat
  BY TimeAssumption DEF Window
<1>2. CASE dust > cursor
  <2>1. NewDust(dust, cursor) = dust /\ dust # NoTime /\ dust + 1 # NoTime
    BY <1>2 DEF NewDust, NoTime
  <2>2. DustAnchor(NewDust(dust, cursor), previous, now)
            = IF dust + 1 + Window >= now THEN dust + 1 ELSE now
    BY <2>1 DEF DustAnchor
  <2>3. QED
    BY <1>1, <1>2, <2>2 DEF NoTime
<1>3. CASE ~(dust > cursor)
  <2>1. NewDust(dust, cursor) = NoTime /\ dust = cursor
    BY <1>3 DEF NewDust
  <2>2. DustAnchor(NewDust(dust, cursor), previous, now)
            = IF previous # NoTime /\ previous + Window >= now THEN previous ELSE now
    BY <2>1 DEF DustAnchor
  <2>3. QED
    BY <1>1, <2>1, <2>2 DEF NoTime
<1>4. QED
  BY <1>2, <1>3

(* A commit clears the entries whose spend it saw, which the chain has     *)
(* taken, and takes the wallet's times forward.                            *)
LEMMA CommitHeld ==
    ASSUME ReservationInv, HeldInv, CommitResync
    PROVE  HeldInv'
<1> DEFINE anchor == DustAnchor(NewDust(resync.dust, wallet.dust), wallet.anchor, resync.block)
<1> DEFINE w == [tip |-> resync.block, anchor |-> anchor, seen |-> resync.seen,
                 dust |-> resync.dust]
<1> DEFINE after == ClearConfirmed(pending, resync.seen \ wallet.seen)
<1>1. TypeOK /\ WalletBehindChain /\ SeesTheChain
  BY DEF ReservationInv, HeldInv
<1>2. /\ wallet' = w /\ pending' = after /\ resync' = NoResync
      /\ UNCHANGED <<chainVars, build>>
      /\ "dust" \in resync.read /\ resync.block # NoTime
  BY DEF CommitResync, Streams
<1>3. /\ resync.block \in Nat /\ resync.dust \in Nat /\ lastDust \in Nat
      /\ wallet.tip \in Nat /\ wallet.dust \in Nat /\ wallet.anchor \in Nat
      /\ wallet.dust <= resync.dust /\ wallet.tip <= resync.block
      /\ wallet.anchor <= wallet.tip \/ wallet.anchor <= wallet.dust + 1
  BY <1>1, <1>2 DEF TypeOK, SeesTheChain, Times
<1>4. /\ anchor \in Nat
      /\ anchor <= resync.block \/ anchor <= resync.dust + 1
      /\ wallet.anchor <= resync.block \/ wallet.anchor <= anchor
  <2>1. NewDust(resync.dust, wallet.dust) \in Nat \cup {NoTime}
    BY <1>3 DEF NewDust
  <2>2. anchor \in Nat
    BY <1>3, <2>1, DustAnchorTime
  <2>3. /\ anchor <= resync.block \/ anchor <= resync.dust + 1
        /\ wallet.anchor <= resync.block \/ wallet.anchor <= anchor
    BY <1>3, AnchorIsSeen
  <2>4. QED
    BY <2>2, <2>3
<1> HIDE DEF anchor
<1>5. ChainTime \in Nat /\ ChainTime' \in Nat /\ ChainTime <= ChainTime'
  <2>1. wallet'.anchor = anchor /\ wallet'.tip = resync.block
    BY <1>2
  <2>2. QED
    BY <1>3, <1>4, <2>1 DEF ChainTime
<1>6. SeesTheChain'
  <2>1. wallet'.anchor = anchor /\ wallet'.tip = resync.block /\ wallet'.dust = resync.dust
        /\ wallet'.seen = resync.seen
    BY <1>2
  <2>2. resync'.read = {} /\ resync'.seen = {} /\ resync'.dust = 0 /\ resync'.block = NoTime
    BY <1>2 DEF NoResync
  <2>3. spent' = spent /\ lastDust' = lastDust
    BY <1>2 DEF chainVars
  <2>4. QED
    BY <1>1, <1>3, <1>4, <2>1, <2>2, <2>3 DEF SeesTheChain
<1>7. after \subseteq pending /\ \A e \in pending \ after : e.inputs \cap spent # {}
  BY <1>1 DEF ClearConfirmed, SeesTheChain
<1>8. disk'.pending \in {pending', disk.pending}
  <2>1. SaveAll(after, w) \/ UNCHANGED disk
    BY <1>2 DEF CommitResync, Persist, anchor
  <2>2. disk \in [pending: SUBSET Entry, seen: SUBSET Inputs, dust: Times]
    BY <1>1 DEF TypeOK
  <2> HIDE DEF w, after
  <2>3. CASE disk' = [disk EXCEPT !.seen = w.seen, !.dust = w.dust]
    BY <2>2, <2>3
  <2>4. CASE disk' = [pending |-> after, seen |-> w.seen, dust |-> w.dust] \/ UNCHANGED disk
    BY <1>2, <2>4
  <2>5. QED
    BY <2>1, <2>3, <2>4 DEF SaveAll
<1> HIDE DEF w, after
<1>9. Theirs(pending)' /\ Theirs(disk.pending)'
  <2>1. \A e : IsTheirs(e) => IsTheirs(e)'
    BY <1>2 DEF IsTheirs, InputsOf
  <2>2. Theirs(pending)'
    BY <1>2, <1>7, <2>1 DEF HeldInv, Theirs
  <2>3. disk'.pending = disk.pending => Theirs(disk.pending)'
    BY <2>1 DEF HeldInv, Theirs
  <2>4. disk'.pending = pending' => Theirs(disk.pending)'
    BY <2>2 DEF Theirs
  <2>5. QED
    BY <1>8, <2>2, <2>3, <2>4
<1>10. BuildsSound'
  <2>1. \A b \in Builds : build[b].time \in Nat
    BY <1>1 DEF TypeOK, Build, Times
  <2>2. QED
    BY <1>2, <1>5, <2>1 DEF HeldInv, BuildsSound
<1>11. LiveBuildIsHeld'
  <2>1. SUFFICES ASSUME NEW b \in Builds, Live(b)', NEW x \in InputsOf(b)'
                 PROVE  \E e \in pending' : e.by = b /\ x \in e.inputs
                                             /\ e.expires_at >= build'[b].ttl
    BY DEF LiveBuildIsHeld
  <2>2. Live(b) /\ x \in InputsOf(b)
    BY <1>2, <2>1 DEF Live, InputsOf, chainVars
  <2>3. PICK e \in pending : e.by = b /\ x \in e.inputs /\ e.expires_at >= build[b].ttl
    BY <2>2 DEF HeldInv, LiveBuildIsHeld
  <2>4. e.inputs \cap spent = {}
    BY <2>2, <2>3 DEF HeldInv, Theirs, IsTheirs, Live, Alive
  <2>5. QED
    BY <1>2, <1>7, <2>3, <2>4
<1>12. QED
  BY <1>6, <1>9, <1>10, <1>11 DEF HeldInv

(* A restart keeps what pending.json holds for a transaction that it finds *)
(* there, and forgets every build that was not submitted.                  *)
LEMMA RestartHeld ==
    ASSUME ReservationInv, HeldInv, Restart
    PROVE  HeldInv'
<1> DEFINE anchor == DustAnchor(NewDust(lastDust, disk.dust), NoTime, clock)
<1> DEFINE now == IF anchor > clock THEN anchor ELSE clock
<1>1. TypeOK /\ WalletBehindChain /\ clock \in Nat /\ lastDust \in Nat /\ disk.dust \in Nat
  BY DEF ReservationInv, TypeOK, Times
<1>2. anchor \in Nat /\ anchor <= clock + 1 /\ (anchor <= clock \/ anchor <= lastDust + 1)
  <2>1. NewDust(lastDust, disk.dust) \in {lastDust, NoTime} /\ lastDust <= clock
    BY <1>1 DEF NewDust, WalletBehindChain
  <2>2. anchor \in Nat /\ anchor <= clock + 1
    <3>1. NewDust(lastDust, disk.dust) \in Nat \cup {NoTime} /\ NewDust(lastDust, disk.dust) <= clock
      BY <1>1, <2>1 DEF NoTime
    <3>2. NoTime <= clock + 1 /\ clock <= clock
      BY <1>1 DEF NoTime
    <3>3. QED
      BY <1>1, <3>1, <3>2, DustAnchorTime
  <2>3. anchor \in {lastDust + 1, clock}
    BY <1>1, <2>1 DEF DustAnchor, NoTime
  <2>4. QED
    BY <1>1, <2>2, <2>3
<1>3. /\ wallet' = [tip |-> clock, anchor |-> anchor, seen |-> spent, dust |-> lastDust]
      /\ pending' = {e \in ClearConfirmed(disk.pending, spent \ disk.seen) : WithinTtl(e, now)}
      /\ disk'.pending = pending'
      /\ resync' = NoResync /\ UNCHANGED chainVars
      /\ build' = [b \in Builds |-> AfterRestart(b)]
  BY DEF Restart
<1> HIDE DEF anchor
<1>4. now \in Nat /\ now <= clock + 1
  BY <1>1, <1>2
<1> HIDE DEF now
<1>5. SeesTheChain'
  BY <1>1, <1>2, <1>3 DEF SeesTheChain, NoResync, NoTime, chainVars
<1>6. ASSUME NEW b \in Builds
      PROVE  /\ build'[b].st = "idle" <=> build[b].st = "idle"
             /\ build'[b].st \notin Returning /\ build'[b].st # "funded"
             /\ build'[b].st \in Alive => /\ build[b].st \in CanLand /\ OnDisk(b)
                                          /\ build'[b].spends = build[b].spends
                                          /\ build'[b].ttl = build[b].ttl
  <2>1. build'[b] = AfterRestart(b) /\ build[b] \in Build
    BY <1>1, <1>3 DEF TypeOK
  <2>2. CASE build[b].st \in CanLand
    <3>1. AfterRestart(b) = [build[b] EXCEPT !.st = IF OnDisk(b) THEN "unknown" ELSE "exposed"]
      BY <2>2 DEF AfterRestart, CanLand, Armed, Returning
    <3>2. /\ AfterRestart(b).st = IF OnDisk(b) THEN "unknown" ELSE "exposed"
          /\ AfterRestart(b).spends = build[b].spends /\ AfterRestart(b).ttl = build[b].ttl
      BY <2>1, <3>1 DEF Build
    <3>3. QED
      BY <2>1, <2>2, <3>2 DEF Alive, Armed, CanLand, Returning
  <2>3. CASE build[b].st \in Armed \cup Returning \cup {"built"}
    <3>1. AfterRestart(b) = DoneBuild
      BY <2>3 DEF AfterRestart, CanLand, Armed, Returning
    <3>2. DoneBuild.st = "done"
      BY DEF DoneBuild, IdleBuild
    <3>3. QED
      BY <2>1, <2>3, <3>1, <3>2 DEF Alive, Armed, CanLand, Returning
  <2>4. CASE build[b].st \in {"idle", "exposed", "done"}
    <3>1. AfterRestart(b) = build[b]
      BY <2>4 DEF AfterRestart, CanLand, Armed, Returning
    <3>2. QED
      BY <2>1, <2>4, <3>1 DEF Alive, Armed, CanLand, Returning
  <2>5. QED
    BY <2>1, <2>2, <2>3, <2>4 DEF Build, Steps
<1>7. Theirs(pending)' /\ Theirs(disk.pending)'
  <2>1. ASSUME NEW e \in pending' PROVE IsTheirs(e)'
    <3>1. e \in disk.pending /\ e.by \in Builds /\ IsTheirs(e)
      BY <1>1, <1>3 DEF HeldInv, Theirs, ClearConfirmed, TypeOK, Entry
    <3>2. CanLand \subseteq Alive
      BY DEF Alive
    <3>3. QED
      BY <1>6, <3>1, <3>2 DEF IsTheirs, InputsOf
  <2>2. QED
    BY <1>3, <2>1 DEF Theirs
<1>8. BuildsSound'
  BY <1>6 DEF BuildsSound
<1>9. LiveBuildIsHeld'
  <2>1. SUFFICES ASSUME NEW b \in Builds, Live(b)', NEW x \in InputsOf(b)'
                 PROVE  \E e \in pending' : e.by = b /\ x \in e.inputs
                                             /\ e.expires_at >= build'[b].ttl
    BY DEF LiveBuildIsHeld
  <2>2. build[b].st \in CanLand /\ OnDisk(b) /\ build'[b].spends = build[b].spends
        /\ build'[b].ttl = build[b].ttl
    BY <1>6, <2>1 DEF Live, Alive
  <2>3. x \in InputsOf(b) /\ InputsOf(b) \cap spent = {} /\ build[b].ttl > clock
    BY <1>3, <2>1, <2>2 DEF Live, InputsOf, chainVars
  <2>4. PICK e \in disk.pending : e.by = b /\ x \in e.inputs
    BY <2>2, <2>3 DEF OnDisk
  <2>5. e.inputs \subseteq InputsOf(b) /\ e.expires_at >= build[b].ttl
    BY <2>2, <2>4 DEF HeldInv, Theirs, IsTheirs, Alive
  <2>6. e \in ClearConfirmed(disk.pending, spent \ disk.seen)
    BY <2>3, <2>4, <2>5 DEF ClearConfirmed
  <2>7. WithinTtl(e, now)
    <3>1. e.expires_at \in Nat /\ build[b].ttl \in Nat
      BY <1>1, <2>4 DEF TypeOK, Entry, Build, Times
    <3>2. QED
      BY <1>1, <1>4, <2>3, <2>5, <3>1 DEF WithinTtl
  <2>8. QED
    BY <1>3, <2>2, <2>4, <2>5, <2>6, <2>7
<1>10. QED
  BY <1>5, <1>7, <1>8, <1>9 DEF HeldInv

LEMMA NextHeld ==
    ReservationInv /\ HeldInv /\ [Next]_vars /\ [OwnRelease]_vars => HeldInv'
<1> SUFFICES ASSUME ReservationInv, HeldInv, [Next]_vars, [OwnRelease]_vars PROVE HeldInv'
  OBVIOUS
<1>1. CASE \E b \in Builds : BuildStep(b)
  BY <1>1, BuildStepHeld
<1>2. CASE ChainStep
  BY <1>2, ChainStepHeld
<1>3. CASE WalletStep
  BY <1>3, ReadHeld, CommitHeld, RestartHeld DEF WalletStep
<1>4. CASE UNCHANGED vars
  <2>1. Theirs(pending)' /\ Theirs(disk.pending)'
    BY <1>4 DEF vars, HeldInv, Theirs, IsTheirs, InputsOf
  <2>2. SeesTheChain' /\ BuildsSound'
    BY <1>4 DEF vars, HeldInv, SeesTheChain, BuildsSound, ChainTime
  <2>3. LiveBuildIsHeld'
    BY <1>4 DEF vars, HeldInv, LiveBuildIsHeld, Live, InputsOf
  <2>4. QED
    BY <2>1, <2>2, <2>3 DEF HeldInv
<1>5. QED
  BY <1>1, <1>2, <1>3, <1>4 DEF Next

(* Two builds that hold their inputs hold different ones: their entries    *)
(* are two, and both still hold.                                           *)
LEMMA HeldMeansDisjoint == TypeOK /\ NoDoubleHold /\ LiveBuildIsHeld => InFlightDisjoint
<1> SUFFICES ASSUME TypeOK, NoDoubleHold, LiveBuildIsHeld,
                    NEW b \in Builds, NEW c \in Builds, b # c, Live(b), Live(c),
                    NEW x \in InputsOf(b) \cap InputsOf(c)
             PROVE  FALSE
  BY DEF InFlightDisjoint
<1>1. PICK e \in pending : e.by = b /\ x \in e.inputs /\ e.expires_at >= build[b].ttl
  BY DEF LiveBuildIsHeld
<1>2. PICK f \in pending : f.by = c /\ x \in f.inputs /\ f.expires_at >= build[c].ttl
  BY DEF LiveBuildIsHeld
<1>3. e.expires_at > clock /\ f.expires_at > clock
  <2>1. /\ e.expires_at \in Nat /\ f.expires_at \in Nat /\ clock \in Nat
        /\ build[b].ttl \in Nat /\ build[c].ttl \in Nat
    BY DEF TypeOK, Entry, Build, Times
  <2>2. build[b].ttl > clock /\ build[c].ttl > clock
    BY DEF Live
  <2>3. QED
    BY <1>1, <1>2, <2>1, <2>2
<1>4. e # f
  BY <1>1, <1>2
<1>5. QED
  BY <1>1, <1>2, <1>3, <1>4 DEF NoDoubleHold, DisjointAfter

(* Every input of a build whose transaction can still land is held by an   *)
(* entry of that build until its TTL, as long as no release takes the      *)
(* entry of another such build: no resync, eviction, failed write or       *)
(* restart takes it first (evict_expired, clear_confirmed, persist_pending,*)
(* Wallet::load, reserve_pending).                                         *)
THEOREM OnlyAReleaseTakesAnEntry == Spec /\ ReleaseOwnOnly => []LiveBuildIsHeld
<1>1. HeldInv => LiveBuildIsHeld
  BY DEF HeldInv
<1>2. Spec /\ ReleaseOwnOnly => []HeldInv
  BY InitHeld, NextHeld, StateIsSound, PTL DEF Spec, ReleaseOwnOnly
<1>3. QED
  BY <1>1, <1>2, PTL

(* Under the same condition two builds whose transactions can both still   *)
(* land never spend one input: what reserving on build is for              *)
(* (reserve_pending, spend_unshielded, spend_shielded, prepare_fees).      *)
THEOREM NoInputSpentTwice == Spec /\ ReleaseOwnOnly => []InFlightDisjoint
<1>1. ReservationInv => TypeOK /\ NoDoubleHold
  BY DEF ReservationInv
<1>2. QED
  BY <1>1, HeldMeansDisjoint, StateIsSound, OnlyAReleaseTakesAnEntry, PTL

(***************************************************************************)
(* An entry leaves for a reason.                                           *)
(*                                                                         *)
(* A restart takes what pending.json does not have.  A build then goes on  *)
(* only when the file covers its inputs, and no two entries of one build   *)
(* have an input in common, so the file has its very entries.              *)
(***************************************************************************)

Entries == pending \cup disk.pending

(* What an entry has that is made for a pin of the build with record r. *)
IsPin(e, r) ==
    /\ e.inputs \cap Dust = {}
    /\ \E x \in Inputs : e.inputs = {x}
    /\ e.reserved_at = r.at
    /\ e.expires_at = r.time + GlobalTtl

(* An input is in one entry of a build at most, also across the disk; a    *)
(* build that pins has an entry per input, with the times of its context.  *)
OneEntry ==
    /\ \A e, f \in Entries : e.by = f.by /\ e.inputs \cap f.inputs # {} => e = f
    /\ \A e \in Entries : e.inputs # {} /\ build[e.by].st # "idle"
    /\ \A e \in Entries : build[e.by].st = "funded" => IsPin(e, build[e.by])

(* The reasons of EntryLeavesForAReason, before the step. *)
GivenUp(b) == build[b].st \in Returning \cup {"done", "exposed"}

Over(e) == e.inputs \cap spent # {} \/ e.expires_at <= clock \/ GivenUp(e.by)

(* A release takes an entry of another build only when that one is over.   *)
OwnOrOver ==
    \A b \in Builds : (\E S \in HandBacks(b) : Release(b, S))
            => \A e \in pending \ pending' : e.by = b \/ Over(e)

ReleaseOwnOrOver == [][OwnOrOver]_vars

(* No entry comes, and no build starts to pin that has one. *)
LEMMA OneStays ==
    ASSUME TypeOK, OneEntry, Entries' \subseteq Entries,
           \A b \in Builds : build[b].st # "idle" => build'[b].st # "idle",
           \A b \in Builds : build'[b].st = "funded" =>
                \/ build[b].st = "idle"
                \/ build[b].st = "funded" /\ build'[b].at = build[b].at
                                          /\ build'[b].time = build[b].time
    PROVE  OneEntry'
<1>1. \A e \in Entries' : e \in Entries /\ e.by \in Builds
  BY DEF Entries, TypeOK, Entry
<1>2. \A e, f \in Entries' : e.by = f.by /\ e.inputs \cap f.inputs # {} => e = f
  BY <1>1 DEF OneEntry
<1>3. \A e \in Entries' : e.inputs # {} /\ build'[e.by].st # "idle"
  BY <1>1 DEF OneEntry
<1>4. ASSUME NEW e \in Entries', build'[e.by].st = "funded" PROVE IsPin(e, build'[e.by])
  <2>1. build[e.by].st # "idle" /\ (build[e.by].st = "funded" => IsPin(e, build[e.by]))
    BY <1>1 DEF OneEntry
  <2>2. QED
    BY <1>1, <1>4, <2>1 DEF IsPin
<1>5. QED
  BY <1>2, <1>3, <1>4 DEF OneEntry

(* The entries of one reservation: one per input, one for all the Dust. *)
LEMMA EntriesForOne ==
    ASSUME NEW b, NEW X, NEW at, NEW expires
    PROVE  \A e \in EntriesFor(b, X, at, expires) :
              /\ e.by = b /\ e.inputs # {} /\ e.inputs \subseteq X
              /\ e.reserved_at = at /\ e.expires_at = expires
              /\ X \cap Dust = {} => \E x \in X : e.inputs = {x}
  BY DEF EntriesFor

(* What build b holds and what it adds has no input twice. *)
NoneTwice(b, N) ==
    \A e \in Entries, f \in N : e.by = b /\ e.inputs \cap f.inputs # {} => e = f

(* The build b reserves X, of which no entry of its own has an input,      *)
(* unless it is the same entry again.                                      *)
LEMMA OneAdds ==
    ASSUME TypeOK, OneEntry, NEW b \in Builds, NEW r \in Build,
           build' = [build EXCEPT ![b] = r],
           NEW X \in SUBSET Inputs, NEW at \in Nat, NEW expires \in Nat,
           pending' \subseteq pending \cup EntriesFor(b, X, at, expires),
           disk'.pending \in {pending', disk.pending},
           NoneTwice(b, EntriesFor(b, X, at, expires)),
           r.st # "idle",
           r.st = "funded" => /\ build[b].st = "funded" /\ X \cap Dust = {}
                              /\ r.at = build[b].at /\ r.time = build[b].time
                              /\ at = r.at /\ expires = r.time + GlobalTtl
    PROVE  OneEntry'
<1> DEFINE N == EntriesFor(b, X, at, expires)
<1>1. build'[b] = r /\ \A c \in Builds : c # b => build'[c] = build[c]
  BY DEF TypeOK
<1>2. /\ \A e \in Entries' : e \in Entries \cup N
      /\ \A e \in Entries : e.by \in Builds
  BY DEF Entries, TypeOK, Entry
<1>3. ASSUME NEW e \in N
      PROVE  /\ e.by = b /\ e.inputs # {} /\ e.inputs \subseteq X
             /\ e.reserved_at = at /\ e.expires_at = expires
             /\ X \cap Dust = {} => \E x \in X : e.inputs = {x}
  BY <1>3, EntriesForOne
<1>4. \A e, f \in N : e.inputs \cap f.inputs # {} => e = f
  BY EntriesForDisjoint
<1>a. \A e \in Entries, f \in N : e.by = b /\ e.inputs \cap f.inputs # {} => e = f
  BY DEF NoneTwice
<1> HIDE DEF N
<1>5. ASSUME NEW e \in Entries', NEW f \in Entries', e.by = f.by, e.inputs \cap f.inputs # {}
      PROVE  e = f
  <2>1. CASE e \in N /\ f \in N
    BY <1>4, <1>5, <2>1
  <2>2. CASE e \in N /\ f \in Entries
    BY <1>3, <1>5, <1>a, <2>2
  <2>3. CASE e \in Entries /\ f \in N
    BY <1>3, <1>5, <1>a, <2>3
  <2>4. CASE e \in Entries /\ f \in Entries
    BY <1>5, <2>4 DEF OneEntry
  <2>5. QED
    BY <1>2, <2>1, <2>2, <2>3, <2>4
<1>6. ASSUME NEW e \in Entries' PROVE e.inputs # {} /\ build'[e.by].st # "idle"
  BY <1>1, <1>2, <1>3 DEF OneEntry
<1>7. ASSUME NEW e \in Entries', build'[e.by].st = "funded" PROVE IsPin(e, build'[e.by])
  <2>1. CASE e \in N
    BY <1>1, <1>3, <1>7, <2>1 DEF IsPin
  <2>2. CASE e \in Entries /\ e.by = b
    BY <1>1, <1>7, <2>2 DEF OneEntry, IsPin
  <2>3. CASE e \in Entries /\ e.by # b
    BY <1>1, <1>2, <1>7, <2>3 DEF OneEntry
  <2>4. QED
    BY <1>2, <2>1, <2>2, <2>3
<1>8. QED
  BY <1>5, <1>6, <1>7 DEF OneEntry

LEMMA PinOne ==
    ASSUME TypeOK, OneEntry, NEW b \in Builds, NEW X \in SUBSET Inputs, Pin(b, X)
    PROVE  OneEntry'
<1> DEFINE r == [build[b] EXCEPT !.spends = @ \cup Stamped(X, build[b].at)]
           at == build[b].at
           expires == build[b].time + GlobalTtl
           N == EntriesFor(b, X, at, expires)
<1>1. /\ build[b] \in Build /\ build[b].st = "funded" /\ X \cap Dust = {}
      /\ at \in Nat /\ expires \in Nat /\ GlobalTtl \in Nat
  BY InputsAssumption, TimeAssumption DEF Pin, OneHold, TypeOK, Build, Times
<1>2. r \in Build /\ build' = [build EXCEPT ![b] = r] /\ r.st = "funded"
      /\ r.at = build[b].at /\ r.time = build[b].time
  BY <1>1, StampedType DEF Pin, SetBuild, Build, Times
<1>3. pending' = pending \cup N /\ disk'.pending \in {pending', disk.pending}
  BY DEF Pin, PersistPending, TypeOK
<1>4. ASSUME NEW e \in Entries, NEW f \in N, e.by = b, e.inputs \cap f.inputs # {}
      PROVE  e = f
  <2>1. IsPin(e, build[b])
    BY <1>1, <1>4 DEF OneEntry
  <2>2. /\ f.by = b /\ f.reserved_at = at /\ f.expires_at = expires
        /\ \E x \in X : f.inputs = {x}
    BY <1>1, <1>4, EntriesForOne
  <2>3. e \in Entry /\ f \in Entry
    BY <1>1, <1>4, EntriesForType DEF Entries, TypeOK
  <2>4. e.inputs = f.inputs
    BY <1>4, <2>1, <2>2 DEF IsPin
  <2>5. QED
    BY <1>4, <2>1, <2>2, <2>3, <2>4 DEF IsPin, Entry
<1>5. NoneTwice(b, N)
  BY <1>4 DEF NoneTwice
<1>6. r.st # "idle" /\ at = r.at /\ expires = r.time + GlobalTtl
  BY <1>2
<1> HIDE DEF r
<1>7. pending' \subseteq pending \cup N
  BY <1>3
<1>8. QED
  BY <1>1, <1>2, <1>3, <1>5, <1>6, <1>7, OneAdds

LEMMA PayFeeOne ==
    ASSUME TypeOK, OneEntry, NEW b \in Builds, NEW D \in SUBSET Inputs, PayFee(b, D)
    PROVE  OneEntry'
<1> DEFINE r == [build[b] EXCEPT !.st = "paying", !.view = {}, !.at = 0, !.time = 0,
                                 !.spends = @ \cup Stamped(D, wallet.anchor)]
           expires == ChainTime + GlobalTtl
           N == EntriesFor(b, D, wallet.anchor, expires)
<1>1. /\ build[b] \in Build /\ build[b].st = "funded" /\ D \subseteq Dust
      /\ wallet.anchor \in Nat /\ expires \in Nat
  BY WalletTimes, TimeAssumption DEF PayFee, TypeOK, Times
<1>2. r \in Build /\ build' = [build EXCEPT ![b] = r] /\ r.st = "paying"
  BY <1>1, StampedType DEF PayFee, SetBuild, Build, Times, Steps, Armed
<1>3. pending' \subseteq pending \cup N /\ disk'.pending \in {pending', disk.pending}
  BY DEF PayFee, PersistPending, TypeOK, EvictExpired
<1> r.st # "idle" /\ r.st # "funded"
  BY <1>2
<1>4. ASSUME NEW e \in Entries, NEW f \in N, e.by = b PROVE e.inputs \cap f.inputs = {}
  <2>1. e.inputs \cap Dust = {}
    BY <1>1, <1>4 DEF OneEntry, IsPin
  <2>2. f.inputs \subseteq Dust
    BY <1>1, <1>4, EntriesForOne
  <2>3. QED
    BY <2>1, <2>2
<1>5. NoneTwice(b, N)
  BY <1>4 DEF NoneTwice
<1> HIDE DEF r, expires
<1>6. QED
  BY <1>1, <1>2, <1>3, <1>5, OneAdds

LEMMA PrepareOne ==
    ASSUME TypeOK, OneEntry, NEW b \in Builds, NEW X \in SUBSET Inputs, NEW ttl \in Ttls,
           Prepare(b, X, ttl)
    PROVE  OneEntry'
<1> DEFINE r == [st |-> "proving", view |-> {}, at |-> 0, time |-> 0,
                 spends |-> Stamped(X, wallet.anchor), ttl |-> ChainTime + ttl]
           expires == ChainTime + ttl
           N == EntriesFor(b, X, wallet.anchor, expires)
<1>1. build[b].st = "idle" /\ wallet.anchor \in Nat /\ expires \in Nat
  BY WalletTimes, TimeAssumption DEF Prepare, TypeOK, Times
<1>2. r \in Build /\ build' = [build EXCEPT ![b] = r] /\ r.st = "proving"
  BY <1>1, StampedType DEF Prepare, SetBuild, Build, Times, Steps, Armed
<1>3. pending' \subseteq pending \cup N /\ disk'.pending \in {pending', disk.pending}
  BY DEF Prepare, PersistPending, TypeOK, EvictExpired
<1>4. NoneTwice(b, N)
  BY <1>1 DEF OneEntry, NoneTwice
<1> HIDE DEF r
<1>5. QED
  BY <1>1, <1>2, <1>3, <1>4, OneAdds

(* A build that goes on holding what it holds. *)
LEMMA GoToOne ==
    ASSUME TypeOK, OneEntry, NEW b \in Builds, NEW step, step \notin {"idle", "funded"},
           GoTo(b, step), build[b].st # "idle", NoWalletChange
    PROVE  OneEntry'
<1>1. build'[b].st = step /\ \A c \in Builds : c # b => build'[c] = build[c]
  BY DEF GoTo, SetBuild, TypeOK, DoneBuild, IdleBuild, Build
<1>2. Entries' = Entries
  BY DEF Entries, NoWalletChange
<1>3. QED
  BY <1>1, <1>2, OneStays

LEMMA GiveUpOne ==
    ASSUME TypeOK, OneEntry, NEW b \in Builds,
           GiveUp(b), build[b].st # "idle", NoWalletChange
    PROVE  OneEntry'
<1> DEFINE step == IF build[b].spends = {} THEN "done"
                   ELSE IF build[b].st \in {"funded", "paying"} THEN "unwinding"
                   ELSE "releasing"
<1>1. GoTo(b, step) /\ step \notin {"idle", "funded"}
  BY DEF GiveUp
<1> HIDE DEF step
<1>2. QED
  BY <1>1, GoToOne

LEMMA FundOne ==
    ASSUME TypeOK, OneEntry, NEW b \in Builds, Fund(b)
    PROVE  OneEntry'
<1>1. /\ build[b].st = "idle" /\ build'[b].st = "funded"
      /\ \A c \in Builds : c # b => build'[c] = build[c]
  BY DEF Fund, SetBuild, TypeOK
<1>2. Entries' \subseteq Entries
  BY DEF Fund, Entries, EvictExpired
<1>3. QED
  BY <1>1, <1>2, OneStays

LEMMA ReleaseOne ==
    ASSUME TypeOK, OneEntry, NEW b \in Builds, NEW S, Release(b, S)
    PROVE  OneEntry'
<1>1. /\ build[b].st \notin {"idle", "funded"}
      /\ build'[b].st \in Returning \cup {"done"}
      /\ \A c \in Builds : c # b => build'[c] = build[c]
  BY DEF Release, SetBuild, TypeOK, Build, Returning, DoneBuild, IdleBuild
<1>2. Entries' \subseteq Entries
  <2>1. pending' \subseteq pending /\ disk'.pending \in {pending', disk.pending}
    BY DEF Release, ReleaseFrom, PersistPending, TypeOK
  <2>2. QED
    BY <2>1 DEF Entries
<1>3. QED
  BY <1>1, <1>2, OneStays DEF Returning

LEMMA BuildStepOne ==
    ASSUME TypeOK, OneEntry, NEW b \in Builds, BuildStep(b)
    PROVE  OneEntry'
<1>1. CASE Fund(b)
  BY <1>1, FundOne
<1>2. CASE \E X \in SUBSET Inputs : Pin(b, X) \/ PinRefused(b, X) \/ PayFee(b, X)
  <2>1. PICK X \in SUBSET Inputs : Pin(b, X) \/ PinRefused(b, X) \/ PayFee(b, X)
    BY <1>2
  <2>2. CASE PinRefused(b, X)
    <3>1. GiveUp(b) /\ build[b].st = "funded" /\ NoWalletChange
      BY <2>2 DEF PinRefused, OneHold, NoWalletChange
    <3>2. QED
      BY <3>1, GiveUpOne
  <2>3. QED
    BY <2>1, <2>2, PinOne, PayFeeOne
<1>3. CASE \E X \in SUBSET Inputs, ttl \in Ttls : Prepare(b, X, ttl)
  BY <1>3, PrepareOne
<1>4. CASE Proved(b)
  BY <1>4, GoToOne DEF Proved
<1>5. CASE Abandon(b)
  BY <1>5, GiveUpOne DEF Abandon, Armed
<1>6. CASE AbandonNoRuntime(b)
  BY <1>6, GoToOne DEF AbandonNoRuntime, Armed
<1>7. CASE PrepareReserved(b)
  BY <1>7, GoToOne, GiveUpOne DEF PrepareReserved
<1>8. CASE PassOn(b)
  BY <1>8, GoToOne DEF PassOn
<1>9. CASE Submit(b)
  BY <1>9, GoToOne DEF Submit
<1>10. CASE Invalid(b)
  BY <1>10, GiveUpOne DEF Invalid
<1>11. CASE WaitEnds(b)
  BY <1>11, GoToOne DEF WaitEnds
<1>12. CASE \E S \in HandBacks(b) : Release(b, S)
  BY <1>12, ReleaseOne
<1>13. QED
  BY <1>1, <1>2, <1>3, <1>4, <1>5, <1>6, <1>7, <1>8, <1>9, <1>10, <1>11, <1>12 DEF BuildStep

LEMMA WalletStepOne ==
    ASSUME TypeOK, OneEntry, WalletStep
    PROVE  OneEntry'
<1>1. CASE UNCHANGED <<pending, disk, build>>
  BY <1>1, OneStays DEF Entries
<1>2. CASE CommitResync
  <2>1. pending' \subseteq pending /\ build' = build
    BY <1>2 DEF CommitResync, ClearConfirmed
  <2>2. disk'.pending \in {pending', disk.pending}
    <3> DEFINE w == [tip    |-> resync.block,
                     anchor |-> DustAnchor(NewDust(resync.dust, wallet.dust),
                                           wallet.anchor, resync.block),
                     seen   |-> resync.seen,
                     dust   |-> resync.dust]
    <3>1. SaveAll(pending', w) \/ UNCHANGED disk
      BY <1>2 DEF CommitResync, Persist
    <3>2. disk \in [pending: SUBSET Entry, seen: SUBSET Inputs, dust: Times]
      BY DEF TypeOK
    <3> HIDE DEF w
    <3>3. CASE disk' = [disk EXCEPT !.seen = w.seen, !.dust = w.dust]
      BY <3>2, <3>3
    <3>4. CASE disk' = [pending |-> pending', seen |-> w.seen, dust |-> w.dust] \/ UNCHANGED disk
      BY <3>4
    <3>5. QED
      BY <3>1, <3>3, <3>4 DEF SaveAll
  <2>3. QED
    BY <2>1, <2>2, OneStays DEF Entries
<1>3. CASE Restart
  <2>1. Entries' \subseteq Entries
    <3>1. pending' \subseteq disk.pending /\ disk'.pending = pending'
      BY <1>3 DEF Restart, ClearConfirmed
    <3>2. QED
      BY <3>1 DEF Entries
  <2>2. ASSUME NEW b \in Builds
        PROVE  /\ build[b].st # "idle" => build'[b].st # "idle"
               /\ build'[b].st # "funded"
    <3>1. build'[b] = AfterRestart(b) /\ build[b] \in Build
      BY <1>3 DEF Restart, TypeOK
    <3>2. CASE build[b].st \in CanLand
      <4>1. \A st \in {"unknown", "exposed"} : [build[b] EXCEPT !.st = st].st = st
        BY <3>1 DEF Build
      <4>2. PICK st \in {"unknown", "exposed"} : AfterRestart(b) = [build[b] EXCEPT !.st = st]
        BY <3>2 DEF AfterRestart, CanLand, Armed, Returning
      <4>3. QED
        BY <3>1, <4>1, <4>2
    <3>3. CASE build[b].st \in Armed \cup Returning \cup {"built"}
      BY <3>1, <3>3 DEF AfterRestart, DoneBuild, IdleBuild, Armed, CanLand, Returning
    <3>4. CASE build[b].st \in {"idle", "exposed", "done"}
      BY <3>1, <3>4 DEF AfterRestart, Armed, CanLand, Returning
    <3>5. QED
      BY <3>1, <3>2, <3>3, <3>4 DEF Build, Steps
  <2>3. QED
    BY <2>1, <2>2, OneStays
<1>4. QED
  BY <1>1, <1>2, <1>3 DEF WalletStep, ReadStream, ReadBlock, ResyncFails

LEMMA OneHolds == Spec => []OneEntry
<1>1. Init => OneEntry
  BY DEF Init, OneEntry, Entries
<1>2. TypeOK /\ OneEntry /\ [Next]_vars => OneEntry'
  <2> SUFFICES ASSUME TypeOK, OneEntry, [Next]_vars PROVE OneEntry'
    OBVIOUS
  <2>1. CASE \E b \in Builds : BuildStep(b)
    BY <2>1, BuildStepOne
  <2>2. CASE ChainStep \/ UNCHANGED vars
    <3>1. UNCHANGED <<pending, disk, build>>
      BY <2>2 DEF ChainStep, QuietBlock, ForeignBlock, LandingBlock, vars
    <3>2. QED
      BY <3>1, OneStays DEF Entries
  <2>3. CASE WalletStep
    BY <2>3, WalletStepOne
  <2>4. QED
    BY <2>1, <2>2, <2>3 DEF Next
<1>3. QED
  BY <1>1, <1>2, TypeCorrect, PTL DEF Spec

(* What a release takes of another build cannot land any more. *)
LEMMA OverIsNotLive ==
    ASSUME TypeOK, HeldInv, OwnOrOver
    PROVE  OwnRelease
<1>1. SUFFICES ASSUME NEW b \in Builds, \E S \in HandBacks(b) : Release(b, S),
                      NEW e \in pending \ pending', e.by # b
               PROVE  ~Live(e.by)
  BY DEF OwnRelease
<1>2. Over(e) /\ IsTheirs(e) /\ e.by \in Builds
  BY <1>1 DEF OwnOrOver, HeldInv, Theirs, TypeOK, Entry
<1>3. SUFFICES ASSUME Live(e.by) PROVE FALSE
  OBVIOUS
<1>4. build[e.by].st \in Alive /\ ~GivenUp(e.by)
  BY <1>3 DEF Live, Alive, GivenUp, Armed, CanLand, Returning
<1>5. e.inputs \cap spent = {} /\ e.expires_at >= build[e.by].ttl /\ build[e.by].ttl > clock
  BY <1>2, <1>3, <1>4 DEF IsTheirs, Live
<1>6. e.expires_at \in Nat /\ build[e.by].ttl \in Nat /\ clock \in Nat
  BY <1>1, <1>2 DEF TypeOK, Entry, Build, Times
<1>7. QED
  BY <1>2, <1>4, <1>5, <1>6 DEF Over

LeavesForAReason(e) ==
    \/ e.inputs \cap spent # {}
    \/ e.expires_at <= clock
    \/ build'[e.by].st \in Returning \cup {"done", "exposed"}

(* A restart takes what pending.json does not have, what the chain spent   *)
(* and what expired: of a build that goes on the file has the entry.       *)
LEMMA RestartLeaves ==
    ASSUME ReservationInv, HeldInv, OneEntry, Restart, NEW e \in pending \ pending'
    PROVE  LeavesForAReason(e)
<1> DEFINE anchor == DustAnchor(NewDust(lastDust, disk.dust), NoTime, clock)
           now    == IF anchor > clock THEN anchor ELSE clock
<1>1. /\ TypeOK /\ WalletBehindChain /\ clock \in Nat /\ lastDust \in Nat /\ lastDust <= clock
      /\ e \in Entry /\ e.by \in Builds /\ e.expires_at \in Nat /\ build[e.by] \in Build
  BY DEF ReservationInv, TypeOK, WalletBehindChain, Entry, Times
<1>2. now \in Nat /\ now <= clock + 1
  <2>1. NewDust(lastDust, disk.dust) \in Nat \cup {NoTime} /\ NewDust(lastDust, disk.dust) <= clock
    BY <1>1 DEF NewDust, NoTime
  <2>2. NoTime <= clock + 1 /\ clock <= clock /\ NoTime \in Nat \cup {NoTime}
    BY <1>1 DEF NoTime
  <2>3. anchor \in Nat /\ anchor <= clock + 1
    BY <1>1, <2>1, <2>2, DustAnchorTime
  <2>4. QED
    BY <1>1, <2>3
<1>3. /\ pending' = {f \in ClearConfirmed(disk.pending, spent \ disk.seen) : WithinTtl(f, now)}
      /\ build'[e.by] = AfterRestart(e.by)
  BY <1>1 DEF Restart
<1> HIDE DEF now
<1>4. build[e.by].st # "idle"
  BY DEF OneEntry, Entries
<1>5. CASE build[e.by].st \in CanLand /\ OnDisk(e.by)
  <2>1. e.inputs \subseteq InputsOf(e.by) /\ e.inputs # {}
    BY <1>5 DEF HeldInv, Theirs, IsTheirs, Alive, OneEntry, Entries
  <2>2. PICK x : x \in e.inputs /\ x \in InputsOf(e.by)
    BY <2>1
  <2>3. PICK f \in disk.pending : f.by = e.by /\ x \in f.inputs
    BY <1>5, <2>2 DEF OnDisk
  <2>4. e \in disk.pending
    BY <2>2, <2>3 DEF OneEntry, Entries
  <2>5. CASE e \notin ClearConfirmed(disk.pending, spent \ disk.seen)
    BY <2>4, <2>5 DEF ClearConfirmed, LeavesForAReason
  <2>6. CASE ~WithinTtl(e, now)
    BY <1>1, <1>2, <2>6 DEF WithinTtl, LeavesForAReason
  <2>7. QED
    BY <1>3, <2>5, <2>6
<1>6. CASE build[e.by].st \in CanLand /\ ~OnDisk(e.by)
  <2>1. AfterRestart(e.by) = [build[e.by] EXCEPT !.st = "exposed"]
    BY <1>6 DEF AfterRestart, CanLand, Armed, Returning
  <2>2. build'[e.by].st = "exposed"
    BY <1>1, <1>3, <2>1 DEF Build
  <2>3. QED
    BY <2>2 DEF LeavesForAReason
<1>7. CASE build[e.by].st \in Armed \cup Returning \cup {"built"}
  BY <1>3, <1>7 DEF AfterRestart, LeavesForAReason, DoneBuild, IdleBuild, Armed, CanLand, Returning
<1>8. CASE build[e.by].st \in {"exposed", "done"}
  BY <1>3, <1>8 DEF AfterRestart, LeavesForAReason, Armed, CanLand, Returning
<1>9. QED
  BY <1>1, <1>4, <1>5, <1>6, <1>7, <1>8 DEF Build, Steps

(* A build takes its own entries, or what it evicts; see EvictedIsOver. *)
LEMMA BuildLeaves ==
    ASSUME ReservationInv, NEW b \in Builds, BuildStep(b), OwnOrOver, NEW e \in pending \ pending'
    PROVE  LeavesForAReason(e)
<1>1. CASE \E S \in HandBacks(b) : Release(b, S)
  <2>1. PICK S \in HandBacks(b) : Release(b, S)
    BY <1>1
  <2>2. /\ build'[b].st \in Returning \cup {"done"}
        /\ \A c \in Builds : c # b => build'[c] = build[c]
    BY <2>1 DEF Release, SetBuild, ReservationInv, TypeOK, Build, DoneBuild, IdleBuild
  <2>3. e.by \in Builds /\ (e.by = b \/ Over(e))
    BY <1>1 DEF OwnOrOver, ReservationInv, TypeOK, Entry
  <2>4. QED
    BY <2>2, <2>3 DEF Over, GivenUp, LeavesForAReason
<1>2. CASE EvictExpired(pending) \subseteq pending'
  BY <1>2, EvictedIsOver DEF LeavesForAReason
<1>3. CASE pending \subseteq pending'
  BY <1>3
<1>4. ASSUME NEW X \in SUBSET Inputs, Pin(b, X) \/ PinRefused(b, X) \/ PayFee(b, X)
      PROVE  LeavesForAReason(e)
  <2>1. EvictExpired(pending) \subseteq pending' \/ pending \subseteq pending'
    BY <1>4 DEF Pin, PinRefused, PayFee
  <2>2. QED
    BY <1>2, <1>3, <2>1
<1>5. ASSUME NEW X \in SUBSET Inputs, NEW ttl \in Ttls, Prepare(b, X, ttl)
      PROVE  LeavesForAReason(e)
  BY <1>2, <1>5 DEF Prepare
<1>6. CASE Fund(b)
  BY <1>2, <1>6 DEF Fund
<1>7. CASE NoWalletChange
  BY <1>3, <1>7 DEF NoWalletChange
<1>8. QED
  BY <1>1, <1>4, <1>5, <1>6, <1>7
     DEF BuildStep, Proved, Abandon, AbandonNoRuntime, PrepareReserved, PassOn, Submit,
         Invalid, WaitEnds

LEMMA StepLeaves ==
    ReservationInv /\ HeldInv /\ OneEntry /\ [Next]_vars /\ [OwnOrOver]_vars
        => [\A e \in pending \ pending' : LeavesForAReason(e)]_vars
<1> SUFFICES ASSUME ReservationInv, HeldInv, OneEntry, Next, OwnOrOver, NEW e \in pending \ pending'
             PROVE  LeavesForAReason(e)
  BY DEF vars
<1>1. CASE \E b \in Builds : BuildStep(b)
  BY <1>1, BuildLeaves
<1>2. CASE ChainStep
  BY <1>2 DEF ChainStep, QuietBlock, ForeignBlock, LandingBlock
<1>3. CASE WalletStep
  <2>1. CASE CommitResync
    <3>1. resync.seen \subseteq spent
      BY DEF HeldInv, SeesTheChain
    <3>2. pending' = ClearConfirmed(pending, resync.seen \ wallet.seen)
      BY <2>1 DEF CommitResync
    <3>3. QED
      BY <3>1, <3>2 DEF ClearConfirmed, LeavesForAReason
  <2>2. CASE Restart
    BY <2>2, RestartLeaves
  <2>3. CASE pending' = pending
    BY <2>3
  <2>4. QED
    BY <1>3, <2>1, <2>2, <2>3 DEF WalletStep, ReadStream, ReadBlock, ResyncFails
<1>4. QED
  BY <1>1, <1>2, <1>3 DEF Next

(* An entry leaves the set for one of the three reasons of reserve_pending *)
(* only, as long as a release takes no entry of another build that is not  *)
(* over: no eviction, resync, failed write or restart takes one for less   *)
(* (evict_expired, clear_confirmed, persist_pending, Wallet::load).        *)
THEOREM EntriesLeaveForAReason == Spec /\ ReleaseOwnOrOver => EntryLeavesForAReason
<1>1. ReservationInv /\ HeldInv /\ [Next]_vars /\ [OwnOrOver]_vars => HeldInv'
  <2> SUFFICES ASSUME ReservationInv, HeldInv, [Next]_vars, [OwnOrOver]_vars PROVE HeldInv'
    OBVIOUS
  <2>1. [OwnRelease]_vars
    BY OverIsNotLive DEF ReservationInv
  <2>2. QED
    BY <2>1, NextHeld
<1>2. Spec /\ ReleaseOwnOrOver => []HeldInv
  BY <1>1, InitHeld, StateIsSound, PTL DEF Spec, ReleaseOwnOrOver
<1>3. ReservationInv /\ HeldInv /\ OneEntry /\ [Next]_vars /\ [OwnOrOver]_vars
        => [\A e \in pending \ pending' : \/ e.inputs \cap spent # {}
                                          \/ e.expires_at <= clock
                                          \/ build'[e.by].st \in Returning \cup {"done", "exposed"}]_vars
  BY StepLeaves DEF LeavesForAReason
<1>4. QED
  BY <1>2, <1>3, StateIsSound, OneHolds, PTL
     DEF Spec, ReleaseOwnOrOver, EntryLeavesForAReason

(* A release changes no build but its own. *)
LEMMA ReasonsAreOver ==
    ASSUME TypeOK, \A e \in pending \ pending' : LeavesForAReason(e)
    PROVE  OwnOrOver
<1>1. SUFFICES ASSUME NEW b \in Builds, NEW S \in HandBacks(b), Release(b, S),
                      NEW e \in pending \ pending', e.by # b
               PROVE  Over(e)
  BY DEF OwnOrOver
<1>2. e.by \in Builds
  BY DEF TypeOK, Entry
<1>3. build'[e.by] = build[e.by]
  BY <1>1, <1>2 DEF Release, SetBuild, TypeOK
<1>4. LeavesForAReason(e)
  OBVIOUS
<1>5. QED
  BY <1>3, <1>4 DEF LeavesForAReason, Over, GivenUp

(* When every entry that leaves does so for a reason, no release takes an  *)
(* entry of another build that can still land: checking the first on an    *)
(* instance shows there what the two theorems on live builds assume        *)
(* (PendingReservations::release).                                         *)
THEOREM ReasonsMakeReleasesOwn == Spec /\ EntryLeavesForAReason => ReleaseOwnOnly
<1>1. TypeOK /\ [\A e \in pending \ pending' : \/ e.inputs \cap spent # {}
                                               \/ e.expires_at <= clock
                                               \/ build'[e.by].st \in Returning \cup {"done", "exposed"}]_vars
        => [OwnOrOver]_vars
  BY ReasonsAreOver DEF LeavesForAReason
<1>2. Spec /\ EntryLeavesForAReason => ReleaseOwnOrOver
  BY <1>1, TypeCorrect, PTL DEF EntryLeavesForAReason, ReleaseOwnOrOver
<1>3. TypeOK /\ HeldInv /\ [OwnOrOver]_vars => [OwnRelease]_vars
  BY OverIsNotLive
<1>4. ReservationInv /\ HeldInv /\ [Next]_vars /\ [OwnOrOver]_vars => HeldInv'
  BY <1>3, NextHeld DEF ReservationInv
<1>5. Spec /\ ReleaseOwnOrOver => []HeldInv
  BY <1>4, InitHeld, StateIsSound, PTL DEF Spec, ReleaseOwnOrOver
<1>6. QED
  BY <1>2, <1>3, <1>5, TypeCorrect, PTL DEF ReleaseOwnOrOver, ReleaseOwnOnly

=============================================================================
