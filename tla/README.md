# A TLA+ verification of midnight-rs

`midnight-rs` is a Rust SDK for the Midnight chain: a wallet that replays the
chain from an indexer, a provider that builds, proves and submits transactions,
contracts whose calls keep a private state on disk, and an interpreter that runs
the circuits of a contract from the compiler's intermediate representation. This
directory holds TLA+ models of these parts, the TLC configurations that check
them, and theorems about them that TLAPS checks.

Paths below are under `src/crates/`.

## Inventory

| Component | State | Operations | What is hard | Modules |
|---|---|---|---|---|
| Pending reservations (`midnight-wallet/src/per_ledger/pending.rs`, `builds.rs`) | entries per unshielded UTXO, shielded nullifier and Dust batch, each with a stamp and an expiry | reserve, evict, clear on a confirmed spend, release, load, save | builds run without the lock while proving, submitting and waiting; hand-backs run late; an entry must outlive its transaction | Reservations |
| Wallet state (`midnight-wallet/src/per_ledger/state.rs`) | tip, Dust anchor, coins, cursors | resync (plan, replay, commit), finish_sync, save, rescan, coin watch | three streams and a query read the chain at different moments; saves fail in part | Reservations, WalletSync |
| Local wallet, background sync (`local.rs`, `background.rs`, `sync.rs`; `midnight-types/src/chain_pin.rs`) | the `sync` mutex, the wallet lock, the chain pin | resync, rebuild, rescan, watch, forget, background passes | order of pin, check and commit; a plan that is older than the commit | WalletSync |
| Storage (`midnight-wallet/src/storage.rs`) | a generation of state files, metadata, `pending.json` | save, load, delete | crashes and power loss between files | WalletStore, SnapshotStore |
| Replay (`midnight-wallet/src/replay.rs`), subscriptions (`midnight-indexer-client/src/subscription.rs`) | last id, connection, retries, the channel | connect, apply, reconnect, end | duplicate and reordered events, silent sockets, bounded retries, a fork on the way | Subscription, Replay |
| Building a transaction (`midnight-types/src/per_ledger/builder.rs`, `midnight-wallet/src/per_ledger/transfer.rs`) | none that outlives a build | select, assemble, balance the fee, register, merge, pay for another | the fee depends on the Dust that pays it; every token balances per segment; TTLs | Balancing, Builds, MCBuilds |
| Assembling a contract call (`midnight-contract/src/per_ledger/call.rs`) | none | coins, change, deposits, payouts, deploys | a coin must ride in the segment that accounts for it | CallAssembly, Builds, MCBuilds |
| Submitting and settling (`midnight-provider/src/submit.rs`, `midnight-contract/src/contract.rs`) | `HeldInputs`, `PreparedTx`, `PendingTx`, `PendingCall`, `PendingDeploy` | prepare, record, submit, wait, settle, read the contract | who gives inputs back on which failure, deadlines, reorganisations, dropped futures | ContractTx |
| Private-state journal (`midnight-private-state/src/fs.rs`) | one file per snapshot, a lock per address | append_pending, confirm, mark_failed, head, forget, export, import | file operations that crash or fail, readers and maintenance without the lock | JournalGraph, PrivateJournal, JournalLog, JournalProofs |
| Maintenance (`midnight-contract/src/maintenance.rs`, `authority.rs`) | committee, counter, verifier keys | prepare, sign, combine, submit an update | counters, thresholds, updates that overtake one another, the fork | Maintenance |
| Interpreter and runtime (`compact/interpreter`, `compact/runtime`) | none that outlives a call | evaluate a circuit, record its transcripts | encodings and widths, static types, order of evaluation | CompactTypes, Interpreter, CircuitMeaning |
| IR and code generation (`compact/analyzed-ir`, `compact/codegen`) | none; a simulator keeps a ledger and a private state | parse, check, load, emit; simulate, deploy | what is refused, and what must not be; what a failed call leaves | Artifact, IRText, Bindings |
| Typed state (`midnight-typed-state`) | none | read a contract's state, whole or by path | widths, the depth a node accepts | Bindings |
| Provers, proving data (`midnight-provider`) | caches | prove | failures and cancellation | not modelled |
| Keys, addresses, units (`midnight-types`, `midnight-crypto`) | none | derive, encode | cryptography and formats | not modelled |

How they interact. A build takes the wallet's write lock to select and reserve
inputs, then proves, submits and waits without it. A resync reads the chain
without the lock and takes it to commit. A guard that is dropped starts a task
that takes the lock to hand the inputs back. A contract call runs its circuit
against the state it read, builds the transaction from what the interpreter
recorded, records a private-state snapshot before it submits and settles it after
the wait. The wallet and the journal both reload from disk when the process
starts again.

What makes them correct:

- reservations: no two transactions that can land spend one input; an entry
  leaves only for a reason; what is given up comes back;
- wallet state: the clock the wallet reserves by is never ahead of the chain;
- local wallet: no commit undoes an operation that came after its plan; a pin
  marks a chain the state is not of only after a check that had no answer;
- storage: a crash or a power loss leaves one whole snapshot, and not an old one
  once a save returned;
- replay: every event once and in order, and an end in bounded time;
- builds: a paid transaction is accepted, holds what it spends, neither makes nor
  destroys a token, and nothing is refused that the wallet could do;
- calls: inputs and snapshot follow what becomes of the transaction, and a wait
  with a deadline ends;
- journal: always one chain of snapshots; a baseline is the state of exactly the
  applied calls; every call settles;
- maintenance: what the SDK lets through fails only if it was overtaken, and the
  contract is never bricked or opened;
- interpreter: a circuit does what its source means, and records it in the order
  of the source;
- bindings: typed values survive the way in and out, a failed run leaves nothing,
  and every view of a ledger reads the same.

The hazards behind each, with their lines, are in `PROJECT.json`.

## Plan

Done, in the order of importance:

1. `Reservations`, with proofs in `ReservationsProofs`.
2. `JournalGraph`, `PrivateJournal`, and the abstract `JournalLog` it implements, with
   proofs in `JournalProofs`.
3. `WalletSync`, with proofs in `WalletSyncProofs`.
4. `WalletStore` and the abstract `SnapshotStore` it implements, with proofs in
   `StoreProofs`.
5. `Subscription`, and `Replay` over it, with proofs in `ReplayProofs`.
6. `ContractTx`: one operation with its status stream, its reservations and its
   snapshot, with proofs in `ContractTxProofs`.
7. `Maintenance`, with proofs in `MaintenanceProofs`.
8. `CompactTypes`, `Interpreter`, and `CircuitMeaning` as the reference;
   `Artifact` and `IRText` before them, and `Bindings` around them.
9. `Balancing` and `CallAssembly`, and `Builds` over them, with proofs in `BuildsProofs`.

Left, first what matters most:

- a background task that catches up with its chain, as a liveness property of
  `WalletSync`;
- the names that the generated bindings declare, and when two of them collide.

## Reservations

`Reservations.tla` models one wallet that builds many transactions.

| Variable | Code |
|---|---|
| `clock`, `lastDust`, `spent`, `landed` | the chain |
| `wallet` | `Wallet`: latest block time, Dust anchor, the spends it replayed, the time of its Dust cursor |
| `pending` | `PendingReservations` |
| `saveFailed`, `disk` | `Wallet::save_failed`; the snapshot and `pending.json` |
| `resync` | what the streams and the query of a `ResyncPlan::run` have read |
| `build` | a build: funded context, `PreparedTransfer`, `HeldInputs`, `PreparedTx`, `PendingTx` |

Each action on `pending` is one hold of the wallet's write lock. `Prepare` is a
transfer, which selects and reserves in one hold. `Fund`, `Pin` and `PayFee` are
a contract call, which is funded once, pins inputs in later holds and pays its
fee in a fresh context. `Proved`, `PrepareReserved`, `Submit`, `WaitEnds` and
`Invalid` move the ownership of the inputs from guard to handle, and `Abandon`
and `Release` are a drop and the task that it starts. `ReadStream` and
`ReadBlock` read the chain in any order, and `CommitResync` applies them under
the lock. `Restart` stops the process anywhere and runs `finish_sync`. A build
that was in flight at a restart and whose entries were not on disk becomes
`exposed`: `persist_pending` is best effort, and no claim is made about it.

An entry has a field `by` that the code does not store. No guard reads it; the
properties do.

Amounts are left out. A selection is any non-empty set of free inputs, which
includes whatever `builder.rs` selects; `Balancing` has the amounts.

Runs (module `MCReservations`):

| Run | Shows |
|---|---|
| `reservations_restart` | two calls or transfers over one UTXO, failing writes and a restart: the whole invariant of the proofs, and no two transactions that can land spend one input |
| `reservations_dust` | the same over two Dust outputs, one of which another holder of the seed spends: a build that can land keeps its entries, and no release takes those of another |
| `reservations_hand_back` | every input of a given-up build comes back, coins too, also next to a foreign spend |

Bounds. Two builds are enough for every conflict, because the properties relate
two builds or a build and an entry. One or two inputs of a kind are enough for a
batch and its mate. Time runs over three blocks of two seconds with a TTL of two,
so a reservation is made, holds to its last second, and expires with a block
after it; the odd seconds between blocks are those the anchor falls on. In
`reservations_dust` the grace period is within the TTL and the run ends at time
4: a resync that lags a whole window is out of its reach. There the mate of a
Dust spend that another holder made can be reserved again before the wallet
learns of the spend.

Fairness. Only `reservations_hand_back` needs it: weak fairness of the tasks
that hand back, which the runtime runs. A drop outside a runtime starts no
task; it is the action `AbandonNoRuntime`, and the property excludes it.

CHECK_DEADLOCK is off because the bounds on time and builds end every behaviour.

### Proofs of the reservations

`ReservationsProofs.tla` proves, for every value of the constants that satisfies
`InputsAssumption` and `TimeAssumption`:

- `TypeCorrect`: `Spec => []TypeOK`;
- `ClockNeverAhead`: `Spec => []WalletBehindChain`;
- `NoInputHeldTwice`: `Spec => []NoDoubleHold`;
- `StateIsSound`: `Spec => []ReservationInv`, the invariant all three come from,
  which TLC also checks;
- `OnlyAReleaseTakesAnEntry`: `Spec /\ ReleaseOwnOnly => []LiveBuildIsHeld`;
- `NoInputSpentTwice`: `Spec /\ ReleaseOwnOnly => []InFlightDisjoint`;
- `EntriesLeaveForAReason`: `Spec /\ ReleaseOwnOrOver => EntryLeavesForAReason`;
- `ReasonsMakeReleasesOwn`: `Spec /\ EntryLeavesForAReason => ReleaseOwnOnly`.

`NoDoubleHold` is not inductive as it stands: a reservation is made against the
entries that hold at the *wallet's* chain time, while the property speaks of the
*chain's* clock. So the proof needs `WalletBehindChain`: an entry that the wallet
takes to be expired has expired on the chain, up to the second that the anchor
adds. That second is why the property asks for an expiry later than the clock: an
entry that expires at the clock's own second can overlap with a new one, and no
later block takes its transaction. `WalletBehindChain` in turn needs the same of
what a resync has read so far, and a restart needs the disjointness of
`pending.json`. A step preserves the invariant action by action; the actions that
leave `pending`, `disk` and the times alone follow from one lemma.

The two theorems after those are about builds rather than entries, and they are
conditional: `ReleaseOwnOnly` says that no release takes an entry of another build
whose transaction can still land. It does not hold in general, because two builds
can share a stamp (see *Disagreements*), and where it fails so can the other two.
The theorems say that this is the only way: whatever the TTLs, no eviction, resync,
failed write or restart takes an entry too early. `ReasonsMakeReleasesOwn` shows that
`EntryLeavesForAReason` implies the condition, so `reservations_dust`, which checks the
former, meets it. TLC finds that it also holds on the constants of
`reservations_restart`.

Their invariant is `HeldInv`, next to `ReservationInv`. `LiveBuildIsHeld` alone does
not survive a resync that clears the entries of a spend, unless an entry only
covers inputs of its own build (`Theirs`): then the clear takes entries of builds
that the chain has overtaken. It does not survive an eviction unless an entry holds
until the TTL of its build, which for the fee of a call needs that the wallet's
chain time never goes back (`SeesTheChain`, `BuildsSound`). And a restart needs
`Theirs` of `pending.json`. One lemma, `OneBuildMoves`, covers every step of a
build; from `LiveBuildIsHeld` and `NoDoubleHold` follows `InFlightDisjoint`.

`EntriesLeaveForAReason` is about the entries one by one: every entry that leaves,
leaves because the chain took an input of it, because its TTL passed on the chain, or
because its build is given up. It needs `ReleaseOwnOrOver`, which says that a release
takes no entry of another build that is not over in one of these ways; TLC finds that
it holds on the constants of all three runs. The hard step is a restart after a failed write, which
drops what `pending.json` does not have. A build then goes on only when the file
covers its inputs, and the file could cover them with other entries than memory has.
`OneEntry`, which TLC has checked as well, rules that out: an input is in one entry of
a build at most, counting the disk, because a call that pins an input again after its
entry expired makes the very same entry.

The proofs put no lower bound on a TTL, and none on the time between two blocks.

## Private-state journal

`PrivateJournal.tla` models the journal of one contract and the calls that use
it. `JournalGraph.tla` holds the graph functions (`find_leaf`, `walk_children`,
the order of a cascade); `JournalLog.tla` is the abstract specification.

| Variable | Code |
|---|---|
| `files` | the snapshot files of the address |
| `lock` | the mutex of `lock_address` |
| `call` | a call: `head_with_extrinsic`, `record_and_submit`, `PendingCall`, `settle_snapshot` |
| `chain` | the fate of each transaction |
| `user`, `backup` | a running forget, export or import, and the last export |
| `tended` | history: a forget or an import has run |

A file operation is one action: `ReadFile`, `WriteSnapshot`, `WriteConfirmed`,
`DropFile`, `ForgetFile`, `ScanFile`, `ImportFile`. Between two of them any other
task can run or the process can stop. A failing write, a failing delete and a
directory sync that fails after its rename are actions of their own. `Reconcile`
is the caller, which finds the fate on the chain and calls `confirm` or
`mark_failed`, as the errors of `midnight-contract` tell it to.

Runs (modules `MCStores`, `MCPrivateJournal`):

| Run | Shows |
|---|---|
| `stores` | four calls one after the other, failing writes, two crashes: baselines are true, the directory implements `JournalLog`, and every recorded call is settled. `WalletStore` has the other half of the run |
| `journal_overlap` | two overlapping calls, a crash, forget and import: the journal is one chain at every step until a forget or an import runs, and a Confirmed snapshot is of an applied transaction always |

`Overlap` is the caller's choice. The documentation asks a caller to settle a
call before the next one, and `BaselineIsApplied` and the refinement hold for
such a caller only: an overlapping call builds on a Pending snapshot and can be
dropped with it. `JournalIsChain` and `LeafHeld` hold for every caller, as long
as nobody runs `forget` or an import at the same time: `forget` takes no lock, so
it can take the leaf away between the check of `append_pending` and its write,
against the comment at `fs.rs:304`.

The refinement maps the chain of files to a sequence by height, and the confirmed
files to a set. A write is an append, a confirm is a confirm, and the last delete
of a cascade takes the last element away. All other steps stutter.

Bounds. Four calls in sequence let two failures and two crashes fall between
successes. Two calls that overlap make every pair of file operations meet.
`NoSnapshot` is a model value, and calls are interchangeable, so `journal_overlap`
uses symmetry; `stores` checks liveness and does not.

Fairness, for each call. Weak: a wait ends (`call_with` bounds it with
`DEFAULT_TX_FINALIZE_TIMEOUT`), the chain finalizes or expires a transaction,
and the caller reconciles, as the errors ask it to. Strong: its steps
(`CallStep`), because the lock is a `tokio` mutex, which serves its waiters in
turn, and the writes that settle it, because a disk that fails for ever settles
nothing.

CHECK_DEADLOCK is off because a journal whose calls are all done may stop.

Left out: a failed append whose file cannot be removed either, which leaves a
snapshot of no transaction, as its warning says; calls that leave the private
state unchanged, which record nothing; the block hash of a confirm; the address
marker and the signing keys, one file each; encryption; and two processes on one
directory, which share no lock.

### Proofs of the journal

`JournalProofs.tla` proves, for any number of calls and crashes, and whether or not
writes fail:

- `TypeCorrect`: `Spec => []TypeInv`;
- `JournalStaysChain`: `Spec => []JournalIsChain`;
- `LeafStaysHeld`: `Spec => []LeafHeld`;
- `ConfirmedIsApplied`: `Spec => []ConfirmedMeansApplied`;
- `BaselineIsTrue`: `Spec => []BaselineIsApplied`;
- `InFlightIsRecorded`: `Spec => []RecordedWhileInFlight`;
- `SettledStaysTrue`: `Spec => []SettledIsTrue`;
- `JournalIsLog`: `Spec => ImplementsLog`, the refinement.

The last four assume `~Overlap` and `Maintenance = {}`: a caller that settles each
call before the next, which the documentation asks for, and that does not forget or
import in between. Without them all four are false (see above), so the assumption is
the caller's part of the contract, and the constants of `stores` meet it.

The code finds the leaf by walking from the root, so `JournalIsChain` speaks of a
recursive walk over a graph and is not inductive. `LineInv` says what the graph is: a
sequence of calls that *lists* the files (`Lists`), one each, each built on the one
before. An append makes the list longer by one, if the leaf that it compared with its
baseline still is the leaf; a delete of a cascade takes the last element, if nothing
was appended since the files were listed. Both are claims about what the holder of the
lock has read, and `ReadHolds` states them; it is preserved because every other step that
writes needs the lock, and a `forget` or an import sets `tended`. A crash is the
easy case: it changes no file, and a line is a line between any two file operations.

That the walk over a line returns its length and its last element goes by induction
on the number of elements left (`WalkIs`, `LineWalk`). `Walk` is a recursive function,
so its value is given by an explicit function which `WalkIs` shows to satisfy the
recursion, by induction over a set of numbers (`SetInduction`).

`TruthInv` relates the status of a file to the chain and needs no line: a snapshot
becomes Confirmed only after its caller saw the chain apply it, and this also holds of
what an export has collected so far and of its backup. `OrderInv` holds with one call
at a time: at each step of a call, whether it is recorded, what the head is, and what
the chain can have done by then (`InOrder`), so that a cascade takes the one snapshot
that failed and no other. The refinement follows: the height of a file in the line is
its place in the log, so an append is an append, and the last delete of a cascade
takes the last element (`LineIsLog`, `AppendRefines`, `ConfirmRefines`, `DropRefines`).

`EveryCallSettles` is liveness and stays with TLC.

## Wallet sync

`WalletSync.tla` models a wallet that stays attached while its chain grows, forks
to ledger 9 and is replaced: `LocalWallet`, its background passes, and the
`WalletBuilder::sync` that opens it. `Reservations` has the transparent side of a
resync. This module has the shielded side, where coins are registered by hand.

| Variable | Code |
|---|---|
| `chain` | what the node and the indexer serve: the events, the fork, the outputs |
| `wallet`, `up` | `LocalWallet::inner`, and whether a wallet is open |
| `sync` | `LocalWallet::sync`, as the set of the tasks that hold it |
| `saveFailed`, `disk` | `Wallet::save_failed`; the snapshot, which a save replaces whole |
| `call` | where a task is in its call, and the locals it keeps across awaits |
| `kept`, `found`, `dropped`, `rebuilt` | what calls have promised; no guard reads them |
| `unanswered` | history: since the chain was last replaced, a call that holds a pin of it passed the check of an older one without an answer |

A wallet state is a generation, a cursor, the coins it holds, the registrations,
and the pin. `of` is the set of chains whose events it applied. The code keeps
nothing like it: the pin has to stand for it, and `SwapIsCaught` says when it
does: always, but for a check that had no answer. `Coins` are the coins the wallet cannot read, which only a registration
claims. The others come with every replay.

A call runs through steps, each of them between two awaits: take a replacement
pin (`TakePin`), check the pin (`CheckPin`, `ChainReplaced`), snapshot the plan
(`Plan`), read the latest block (`ReadBlock`), replay (`Replay`, `MeetLater`,
`MeetEarlier`, `EndReplay`, `DustIsLater`), commit (`Commit`), move the pin
(`MovePin`). A resync, a rebuild from genesis and a rescan differ in which of
these they run and in what each does, as `run` says. `StartOver` has the three
ways of a call that meets a fork it was not planned for. `StartWatch` and
`Forget` are one hold of the wallet each, and a watch goes on as a rescan under
the same hold of `sync`. The opening sync is the call of the task `Boot`, whose
`Checkpoint` saves while Dust still replays. `Emit`, `Fork` and `Swap` fall
between any two steps, as do `Abort`, a dropped future or background handle, and
`Crash`.

Runs (module `MCWalletSync`):

| Run | Shows |
|---|---|
| `sync_calls` | two callers on three chains that grow and fork: plans are current at their commit, a dead chain is caught unless a check had no answer, watched coins are held, forgotten ones stay away, no commit takes the wallet back |
| `sync_restart` | failing saves and a crash: saved registrations survive, and every call returns |
| `sync_unanswered` | violated: `DeadChainIsCaught`, that no state of a dead chain ever carries the pin of the present one (see *Disagreements*) |

Assumed of the outside: the node and the indexer are replaced together, and the
indexer serves a prefix of the chain that only grows. A check of the pin may get no
answer at any time, and then lets the call pass (`CheckPin`). The constant `Unpinned`
shows where the guarantees end:

- `Unpinned` allows a first sync with no pin, as in `sync_calls`. With it
  `RegistrationKept` and `FoundIsHeld` do not survive a restart, although the doc of
  `watch_for_coin` (`wallet.rs:303`) says that registrations do: the first sync
  that takes a pin discards the snapshot, and starts over without them.
  `sync_restart` has wallets pinned from the first sync.

Bounds. Two callers are enough, because every property is about a call and the
state that another one left. Three chains let a call that began on the first be
overtaken twice, so its pin can be neither of the two that follow. One coin is
enough: coins do not meet. Two events are enough for a fork between events and
an output on either side of it. One crash is enough for a state on disk that is
behind the memory, and a restart from it.

Fairness. `EveryCallReturns` assumes weak fairness of the steps of each call. A
step is one await with a limit: a node query has `QUERY_TIMEOUT`, a subscription
`event_timeout` and a bounded number of reconnects, and the wallet's lock is
held only around plans and commits. Of the indexer this assumes that it does not
send a replay for ever what the wallet has, nor progress, and that it takes in the
handshake: `ReplayReturns` shows that these three keep a replay, and nothing else
does. Nothing is assumed of the chain, of `Replay`
alone, or of the callers.

CHECK_DEADLOCK stays on: a wallet can always be called or opened again.

Left out: reservations, Dust and unshielded outputs, which are in `Reservations`;
a wallet in memory only; the network check; and the commit for a wallet of
another generation than its plan's (`LedgerMismatch`), which the mutex excludes.
A save is atomic here, which is what `WalletStore` shows of it.

### Proofs of the sync

`WalletSyncProofs.tla` proves, for any number of callers, coins, chains, events
and crashes, and whether or not saves fail:

- `TypeCorrect`: `Spec => []TypeOK`;
- `PlansStayCurrent`: `Spec => []PlanIsCurrent`;
- `ReplacedChainIsCaught`: `Spec => []SwapIsCaught`;
- `ForgottenStaysForgotten`: `Spec => []ForgottenStays`;
- `RegistrationsAreKept`: `Spec => []RegistrationKept`, assuming `Durable`;
- `FoundCoinsAreHeld`: `Spec => []FoundIsHeld`, assuming `Durable`;
- `WalletKeepsItsPlace`: `Spec => KeepsItsPlace`.

The invariant of the first three is `SyncInv`. Its first half is about the mutex: whoever is in a
call holds it (`Held`), no call runs before the wallet is open, and the opening
sync runs only then (`Attached`). So whoever changes the wallet is alone (the
lemma `Alone`), and a plan stays what the wallet is.

The second half is about chains. `SwapIsCaught` is not inductive as it stands: a
resync moves the pin of a wallet after the commit, so the pin it holds must be
right for a state that does not exist yet. `Marks(p, s)` says that a pin of the
present chain stands for a state of no other chain, unless a check had no answer
since that chain began, and `StatePins` says it of every pin and its state. Along a
call, the replacement pin comes to mark whatever it may end up on (`FreshMarks`),
from the order of three steps. The pin is taken first. The check lets it through if
the old pin is of the present chain, and then the state is marked already; or if it
had no answer, which is what `unanswered` records when the replacement is of the
present chain, and a replacement of an earlier one marks anything (`CheckPinInv`).
The replay comes last, so what it adds is of a chain no earlier than both. A rebuild
passes the check on any chain, and its plan is of no chain at all. The commit
keeps the wallet's pin, and needs the first half for it: the pin it keeps is the
one the plan had. Once the chain is replaced, no pin is of the present one, so every
pin marks its state again.

The other four rest on a second invariant over the first, `HoldInv`. The coins that
a state knows of, held or registered, are `RescanCoins`, and a replay never changes
them: it only turns registrations into coins (`AppliedHolds`). So a commit leaves
what the wallet knows of as it was (`CommittedHolds`), and only a watch, a forget
and a restart change it. `ForgottenStays` then needs two facts that it does not
state. The disk must not know of a forgotten coin either, or a restart would bring
it back. And a forget that finds nothing registered saves nothing, so where the last
save did not fail the disk must know of exactly the wallet's coins (`StatesHold`).

`FoundIsHeld` is about the moment the wallet passes an output, however it got there,
so `HoldInv` says it of every state that may become the wallet: memory, disk, the
plan and the replay of each call (`Sees`, `Holds`). A rescan and a rebuild start at
the first event with everything they know of registered, so they miss nothing, and a
resync goes on from a wallet that has missed nothing. What a rescan is looking for
joins what nothing may miss only when it returns, which is `Sought`. `Fits` says that
a state reaches no further than the present chain if it is of that chain, so that a
new output lies ahead of every such state, and that a state of no chain has applied
nothing, so that a chain that begins finds none of its own.

`Durable` is `Unpinned => MaxCrashes = 0`: every first sync takes a pin, or the
process does not die. It is used in one place, the snapshot that an opening sync
loads (`LoadedHolds`): `CallPinned` shows that a snapshot without a pin is then never
dropped. Both runs satisfy it, and TLC violates both properties on `sync_restart`
with `Unpinned = TRUE`. `ForgottenStays` needs neither assumption.

`KeepsItsPlace` is a property of steps. Only a commit could take a wallet back, and
`KeepsPlace` says that it does not: the resync is ahead of its plan, and a replay
from the first event ends at a tip, which the wallet is not beyond while it is of the
present chain.

## Wallet store

`WalletStore.tla` is `storage.rs`: `save_snapshot`, `write_bytes_atomic` and
`cleanup_old_files`, one action per file operation. `SnapshotStore.tla` is what it
promises, and the run checks that it implements it.

| Variable | Code |
|---|---|
| `dir` | the snapshot directory as the process sees it: the state files by generation, and `metadata.json` |
| `synced` | the same on stable storage |
| `save` | the save that runs: its next write, its generation, and the generation it read |
| `kept` | history: the newest snapshot whose save returned Ok |

A write goes to a temporary file, is renamed, and the directory is synced:
`RenameZswap`, `RenameDust`, `RenameMetadata`, then `SyncDir`. `SaveFails` can
fall at any of them, `Stop` ends the process at any step, and `LosePower` keeps
any mixture of what was synced and what was not. `CleanZswap` and `CleanDust`
remove the files of the generation before.

Run `stores`: four saves. `KeptSurvives` says that a snapshot whose save
returned is never lost to an older one, whatever fails afterwards;
`ImplementsStore` says that a load returns one whole snapshot, and that it changes
at the commit only. The refinement maps `loaded` to what a load returns, and
`stable` to what it would return from stable storage.

Bounds. Generations alternate with saves, so three saves make a generation whose
files are removed next to one that is written, and the fourth lets a failed save
lie between. `ReadsFail` is FALSE: see *Disagreements*.

`MCStores` has this store and the private-state journal in one run. They are
directories of their own, written by crates that share no state, so a behaviour has
one of them run (`store`) and the other stay empty.

Safety only, no fairness. CHECK_DEADLOCK is off: after the last save nothing moves.

### Proofs of the store

`StoreProofs.tla` proves, for any number of saves and assuming `~ReadsFail`:

- `TypeCorrect`: `StoreSpec => []StoreTypeOK`;
- `KeptIsNotLost`: `StoreSpec => []KeptSurvives`;
- `StoreIsAtomic`: `StoreSpec => ImplementsStore`, the refinement of `SnapshotStore`.

All come from `StoreIsSound`: `StoreSpec => []StoreInv`. What a load returns depends on
three files, so the invariant speaks of the files and not of the load. `Backed` says
that the two files a metadata names are of its snapshot, in the directory *and* on
the disk, for the metadata of either: a loss of power takes the metadata from one
and each file from either, and whichever it takes, they fit. `Progressed` says what
a save has done at each of its steps: it writes under the generation after the one
the directory names, so no write touches a file of a metadata in force, and a
removal is of the generation before, which the disk's metadata no longer names
because the commit was synced first. That is where the order of the steps of
`save_snapshot` is needed.

The steps then map one by one: the rename of the metadata is `Commit`, a sync
`Settle`, a loss of power `LosePower`, and every other step leaves both metadata
alone and stutters (`SameMetaStutters`). The assumption `~ReadsFail` is used in one
place, the begin of a save (`BeginSaveStep`): see *Disagreements* for what happens
without it.

## Replay

`Subscription.tla` is one GraphQL subscription of the indexer client: the
handshake, the reader task with its keepalive and its idle limit, and the bounded
channel. `Replay.tla` extends it with the three replay loops of `replay.rs` (the
shielded, the Dust and the unshielded stream) and the server.

| Variable | Code |
|---|---|
| `conn`, `queue` | the reader task and its channel, of `QueueSize` items |
| `stream` | which of the three loops this behaviour runs |
| `tip`, `next` | the chain's events, and the next one the server sends |
| `replay` | the loop: last applied id, batch, retries, whether it resumed, how it ended |
| `mem`, `disk` | the wallet's state: generation, cursor, applied events |
| `asked`, `attempts` | history |

A handshake waits for the server, under its one deadline, or has a message on its way
out (`HandshakeWrite`), which is not under it (`subscription.rs:240`, `295`). The task's
steps are `Subscribe`, `SubscribeTimesOut`, `BackoffOver`, `StreamEnds`,
`WaitTimesOut`, `ItemFails`, `LedgerItem`, `TransactionItem`, `ProgressItem` and
`Commit`; the reader's are in `ReaderStep`. Time passes in ticks of ten seconds.
The server is free: it repeats events as often as it likes, starts a subscription at
an older one, says nothing, ends the stream or drops the socket at any time.

Run `replay_streams`: a chain of up to three events, the third of a later ledger
generation, one retry, a queue of one, batches and checkpoints of two.
`EventsOnceInOrder` relates memory, disk and the loop to the chain; `CaughtUp`
says what a return means; `StallHasLiveSocket` that giving up on an open
subscription is never about a dead socket; `ReplayReturns` that it ends, but for
three servers.

Bounds. With three events a reconnect can fall before, within and after a batch
and on either side of the fork; one retry is enough to see a counter that resets
and one that does not; a queue of one makes the reader block, which is when a
keepalive is late. The events that a server sends again have no bound.

Fairness: the two tasks and time (`FairSpec`). Nothing is assumed of the server. A
wait for an item has a limit, `event_timeout` or the keepalive's idle timeout, but
every item starts it anew, so three servers can keep a replay, and the property names
them: one that sends events the wallet has for ever (`Skip`; the `continue` at
`replay.rs:432` has no bound), one that announces progress for ever, and one that
never takes in a message of the handshake. A chain that grows faster than it is
replayed would be a fourth; here it has `MaxId` events.

Left out: unshielded transactions without an id, which the loop applies as they
come; events before the first id. A receiver of progress that is dropped, and an
event that cannot be decoded, are the same action, `ReplayStops`.
CHECK_DEADLOCK is off: a chain at its bound with no replay may stop.

### Proofs of the replay

`ReplayProofs.tla` proves, for every length of the chain, place of the fork, queue,
batch and checkpoint size, and any number of retries and of repeated or reordered
events:

- `TypeCorrect`: `Spec => []TypeOK`;
- `NothingLostOrTwice`: `Spec => []EventsOnceInOrder`;
- `ReturnsCaughtUp`: `Spec => []CaughtUp`;
- `StallsAreTheServers`: `Spec => []StallHasLiveSocket`.

All come from `ReplayIsSound`: `Spec => []ReplayInv`. `EventsOnceInOrder` is about
what was applied, and what is applied next depends on what is on its way: the
channel, and the item on which the reader is blocked. The invariant takes both as one sequence, the
`Pipe`, and says three things of it. Every item is of the chain and carries a tip
that is not older than the replay (`FromTheChain`). No event overtakes the one
before it (`InStep`): its id is at most the next to consume, or its predecessor is
further ahead in the pipe. So the check of the id in the loop refuses repeats but
never sees a gap. And what the server has sent and the loop has not consumed is in the
pipe (`Covers`), so that the next event the server sends keeps the second. What was applied and
batched is then the chain's, event by event, up to the last id (`LoopSound`), and a
checkpoint or a commit copies it (`StateSound`).

`StallHasLiveSocket` needs the clocks: while the channel is empty, the age of the
connection or the blocked reader holds the clock of the wait back (`ClockSound`).
The idle timeout of the reader is shorter than the wait for an event, which is why
the reader gives a dead socket up before the loop gives up.

## Maintenance

`Maintenance.tla` has coordinators that prepare, sign, combine and submit updates
(`Contract::maintenance`, `MaintenanceBuilder`, `authority.rs`), and the chain that
decides them by the rules of `docs/contract-maintenance-governance.md`.

| Variable | Code |
|---|---|
| `contract` | the chain's `ContractMaintenanceAuthority` and the slots of the verifier keys |
| `gen`, `walletGen` | the chain's ledger generation, and the wallet's |
| `job` | a coordinator's update: read, prepared, with the committee and counter it captured |
| `pool`, `decided` | submitted updates, and what the chain decided |

A signature is the pair of its key and what it covers, so a signature over
another counter or other operations is another value. `PrepareRead` and
`PrepareBuild` are apart because the contract can change between them; `Submit`
checks the signatures and goes out; `Decide` is the chain.

Run `contracts`, one half of it: two coordinators, two keys, one circuit, up to two updates and
one fork. `AuthorityIsSound` is that a contract is never bricked or opened,
`FailsOnlyWhenOvertaken` that the SDK's checks are the chain's, `AppliedByAQuorum`
that consent is of the committee in force, `RetiredIsFinal` that a retired
contract never changes.

Bounds. Two keys make every shape of a committee: one, all, a duplicate, too few.
Two updates make one overtake the other. One circuit is enough because an
operation names one circuit, and a batch its own sequence of them. Of an update
that was overtaken the model leaves open whether it is refused or applied in part:
the document says that a concurrent insert lands as a partial success, while the
counter makes the overtaken update stale, and the check does not depend on it.

Safety only. CHECK_DEADLOCK is off: the bounds end every behaviour.

### Proofs of the maintenance

`MaintenanceProofs.tla` proves, for any set of coordinators, keys and circuits and
batches of any length:

- `TypeCorrect`: `MaintenanceSpec => []MaintenanceTypeOK`;
- `NeverBricked`: `MaintenanceSpec => []AuthorityIsSound`;
- `CheckedUpdatesApply`: `MaintenanceSpec => []FailsOnlyWhenOvertaken`;
- `QuorumConsented`: `MaintenanceSpec => []AppliedByAQuorum`;
- `RetirementIsFinal`: `MaintenanceSpec => RetiredIsFinal`.

The invariant is `MaintenanceInv`. What the chain decides about an update depends on
what a coordinator checked several steps before, against the contract that it read.
So the invariant says of every prepared and submitted update: if its counter is
still the contract's, then it is what a validated batch gives on the contract *as it
is*, and its signatures are a quorum of the committee as it is (`FitsNow`,
`JobHolds`, `TxHolds`). Every applied update and every new authority raises the
counter, so the claim is about the same contract as at the prepare, or about
nothing. A retired authority has no committee, and no set of signatures is a quorum
of it.

That `validate_vk_sequence`, which simulates the batch on the presence of the keys,
accepts only what the chain then applies to its end is an induction over the
operations of the batch. The chain's steps are a recursive function, `RunSingles`;
the induction is over the *set* of the lengths for which the claim holds
(`SetInduction`, from the least element of a set of numbers).

## One operation and its transaction

`ContractTx.tla` follows one contract operation (a call, a build-only call or a
deploy) from the first read to the answer, next to the node.

| Variable | Code |
|---|---|
| `op` | what is asked, and `Contract::declares_witnesses`, which a hand-built handle leaves unset |
| `step`, `result` | the future of `call_with`, `build_call`, `PendingCall`, `PendingDeploy`: where it is, what it answered |
| `wait`, `elapsed` | the status awaited, for whom, its limit; the clock since the deadline began |
| `held`, `guard` | the wallet's reservations, and the value whose drop gives them back |
| `snap` | the private-state snapshot of the operation |
| `place`, `verdict`, `wire`, `reorgs` | the node: where the transaction is, what the chain made of it |
| `stream`, `open` | the status events that were sent and not read |

The node includes, retracts, finalizes, rejects or loses track of the transaction
at any step (`Include`, `Retract`, `Finalize`, `Reject`, `LoseTrack`); the caller
can drop the future (`Drop`), the process can stop (`Crash`), and a read of events
or of the contract can fail or hang (`FetchEvents`, `ReadContract`).

Run `contracts`, the other half (`MCContracts`; a behaviour has a client that operates on
a contract or coordinators that maintain it, and each side has of the chain what it
needs): `InputsFollowTheFate` says when inputs may be handed back,
`SnapshotFollowsTheFate` that the snapshot says what the finalized chain says, and
that there is one for every private state that the code undertakes to record: a call
without a store, of a handle that declares no witnesses, drops what it changed,
`OneDeadline` that the two waits of a deploy share one limit, `BoundedWaitsEnd`
that a limited wait ends.

Bounds. A deadline of two ticks expires between the two waits of a deploy as well
as within each. Two reorganisations change the verdict and change it back.

Fairness: time passes, and a timer that is due fires. The node may stay silent,
and no read is assumed to return. CHECK_DEADLOCK is off: an operation ends.

Left out: a deploy whose contract is not found yet, which `deployed_state` reads
again within its limit; `as_in_block` and `as_finalized`, which take one status
apart.

### Proofs of an operation

`ContractTxProofs.tla` proves, for every deadline and any number of reorganisations,
which make the status stream as long as they like:

- `TypeCorrect`: `Spec => []TypeOK`;
- `HandsBackWhatIsFree`: `Spec => []InputsFollowTheFate`;
- `SettlesWhatIsFinal`: `Spec => []SnapshotFollowsTheFate`;
- `DeadlineIsShared`: `Spec => []OneDeadline`.

All come from `OperationIsSound`: `Spec => []TxInv`. The handle learns of the chain
through a stream it reads late, so the properties need to know what the unread
statuses say: a status that decides something is true for good (`StreamSound`). An
`Invalid` is in the stream only if the transaction is dead, an `InFinalizedBlock`
only if it is final with that verdict. The other statuses may be stale, and nothing
is decided by them: a wait that settles the snapshot is for finality (`WaitSound`),
so that the verdict it fetches is the final one. `GuardSound` says which value may
hand the inputs back at each stage; past the submit only a rejection does.
`SnapSound` says that the snapshot is there before the transaction can be. Each step
of the chain is of a transaction that is not decided yet, and then nothing that the
handle has concluded can become untrue (`ChainKeeps`).

## Circuits

| Module | Code |
|---|---|
| `Artifact` | `compact/analyzed-ir`: the reader of S-expressions (`sexp.rs`), the parser (`parse.rs`), the checks, and the loader (`compact/codegen/src/artifact.rs`) |
| `IRText` | the compiler that prints what `Artifact` reads, external |
| `CompactTypes` | values, alignments and encodings of `compact/interpreter` and `compact/runtime` |
| `Interpreter` | the evaluation of every expression form and ledger operation, and what it records |
| `Bindings` | what `compact/codegen/src/expand` generates for a contract, with `midnight-typed-state`, `local.rs` and `constructor.rs` of `midnight-contract` |
| `CircuitMeaning` | the reference: circuits as functions on numbers, Booleans and sequences |
| `MCCircuits` | the circuits, constructors, lists and environments of the run |

`Eval` threads a context, the locals and their types, the ledger, and the
transcripts, and stops at the first error. A value may be a number, a tuple, a
struct by names, or atoms in flight, as in the code, and the same value may reach
an operation in any of these forms: that is what makes the widths and the static
types hard. `CircuitMeaning` has none of it. What it yields is flattened at the
declared type where it leaves the circuit, and compared.

`Bindings` is the Rust that a contract's author uses: the types and the layout of
their integers, the conversions of arguments and results, the adapter that keeps a
typed private state in a buffer, the zero of every ledger field, the views of a
whole state and those that ask a node for one path, the simulator, pure circuits,
and the state that a deploy deploys. A typed value is the meaning's own value, so
what comes out of the bindings is compared with the meaning as it is. The node that
answers queries by path is external, and so is the author's witness (`Method`).

A behaviour of the run chooses one job. A body is printed with `IRText`, read back
by `Artifact` with the library circuits, and either run by the interpreter in one of
two environments (`Run`), or called twice through its simulator (`RunTyped`), the
second call on what the first left. `Raise` deploys a contract with one of a few
constructors, the state given or not, the arguments given or not; `RunPurely` calls a
pure circuit; `ReadViews` reads a list of some length and two trees; `BindText` asks
whether the bindings of an artifact compile. Some texts are broken on purpose, and
must be refused.

The run `calls` has every body of two levels of the grammar over
parameters of every type, a counter, two cells, two maps and a set, three
witnesses, the two natives that attach coins, and a hash. `CircuitIsDenoted` says
that the result and the ledger are the meaning's, and that a circuit fails when
the meaning has no value. Of the bindings it says (`TypedCalls`, `DeployedState`,
`PureValue`, `ListsAgree`) that the simulator keeps the ledger and the private state
that a call left and nothing of a failed one, also after a witness ran; that both
views of every field read what the meaning has; that a deploy takes the state that
was given or else the constructor's, and refuses coins and missing arguments; that
an element of a list is found past the deepest node that one path reaches; and that
exactly the artifacts compile whose tuples, integers, trees and ledger paths Rust
can express. `TranscriptInOrder` says that reads, witness answers, coins
and events are recorded in the order of the source, each once, and that the input
of the proof is the arguments at their declared types.

Of a typed call whose circuit ran and whose result the bindings do not convert, a
Boolean or an integer that the circuit yields encoded (`Undecoded`), `CircuitIsDenoted`
says nothing. The run `simulator_failures` has the same constants and one property,
`FailedCallChangesNothing`, which such a call violates (see *Disagreements*).

Bounds. A byte has 4 values, a `u64` two bytes, a `u128` three, and the field
order is 67, so that an overflow of each lies within reach of one arithmetic
operation. Two levels are enough for every operator to meet an operand of every
form it can have in flight: a literal, a parameter, a read of the ledger, a
witness's answer, an element, a cast. An index of a ledger field is two bytes
wide, because a byte has 4 values. A path has at most 4 keys (`MaxQueryPathDepth`, 16
in the code) and lists have up to 6 elements below a field two keys deep, so that
the last elements lie past the deepest node. The language has integers of one and
three bytes (`Primitives`), so that a bound of two bytes has none. Two calls of a
simulator are enough for the second to meet a ledger, a private state and a failure
that the first left.

Left out: literals outside a cast or an immediate, foreign fields, curve points,
opaque values, cross-contract calls (the interpreter refuses them), Merkle trees,
the VM's own control flow and the paths that take a key off the stack. The
operations of the VM and the templates of the ledger operations are external.
Private answers are compared as numbers, because the transcript encodes them
without a type. Of the bindings, names and their collisions, the block time and the
coin public key of the simulator, the errors of `serde_json`, the effects of a
constructor other than coins, and the handles of submitted calls, which `ContractTx`
has from their first read on. Of a text, names of types and the wording of refusals are left
out, and the check of types that the interpreter repeats at run time
(`interpreter/src/lib.rs:316`): the loader has refused them, and every circuit of the
run is loaded. `emit_ir.rs`, which writes a parsed program back as Rust constants form by
form, is left out as well. An Either that a caller passes as a named struct value has no field of its
variants, where an encoded one has (`interpreter/src/lib.rs:825`); the run passes it
encoded.

## Builds

`Balancing.tla` is the builder: the requests of `midnight-types`, the selection of
inputs, the assembly of a transaction out of Zswap offers and intents by segment,
the rounds in which the fee is balanced, the TTL of an intent, the registration for
Dust, the merge of two parts, and the payment of a fee by another wallet.
`CallAssembly.tla` extends it with the transactions of a contract: a circuit call
with the coins its circuit creates, a deploy with shielded payments, and a
maintenance update. Both are functions: a build reads a snapshot of the wallet and
yields a transaction. `Builds.tla` composes them. Its state is `asked`, the parts,
and `made`, what was made of them: in `Build` each party builds its part from its
wallet and the parts are merged, and in `Pay` a wallet pays what the fee lacks,
perhaps again after the price rose. What happens to the reservations meanwhile is
`Reservations`.

| Constant of `Builds` | Meaning |
|---|---|
| `Owner`, `Stock`, `DustClock` | the wallets, what each has, and the time at which each knows its Dust |
| `Now`, `Ratio`, `Decay` | the time of the chain; the cap and the rate of the Dust a NIGHT accrues |
| `Jobs` | what may be asked: a list of parts, of different wallets |
| `Sponsors`, `MaxPayments` | who pays for what others made; a bound on the payments of one transaction |

`BuildsAssumption` asks that an id names one input of one wallet, that no wallet's
Dust clock is ahead of the chain, and that a job is a list of parts, each with the
lists it should have. `MCBuilds.tla` has the values for TLC: two wallets and what they
ask for, and what no wallet could build.

What the ledger library does is modelled as the code relies on it: coin selection,
pricing by weight, merging, sealing, and the rules of acceptance (`Accepted`),
which balance each token in each segment.

The run `calls` checks, of every pair of parts: `PaidIsAccepted`, a paid transaction
comes out even in every token and segment, at any price up to the margin, and its
claims and signatures hold; `HoldsWhatItSpends`, the build reports exactly the
inputs of its wallet, for as long as the transaction can land, and the right fee;
`AddsUp`, what no contract is part of comes out even at every stage, but for what the
halves of a swap leave over by agreement;
`RefusesOnlyWhatItCannot`, a refusal means that the wallet has not what is asked.

Bounds. Calls of up to two ledger operations on coins, each in either of the two
segments, meet every pair of kinds in one segment and across two. Alice's stock has
two coins of a token, one too small for what is asked, Dust in three pieces so that
a fee needs one, two or all of them, and Night with and without a creation time.
`MaxRounds` is 10, as `MAX_FEE_BALANCE_ITERATIONS`; `MaxValue` is 15 so that a total overflows.

Left out: claims of nullifiers by segment; the checks of networks and of ledger
generations in `provider.rs`; the saturation of deposits at the width of a `u128`.
A registration whose Night outputs all have unknown creation times may guess the
Dust too high. A shielded part without Dust that another wallet pays for has no
intent, so its hold may end before the sponsor's intent does; the root history
bounds when it can land. Two halves of a swap that do not match and leave a surplus
are accepted, and the surplus is destroyed: `balance_transaction` refuses deficits
only.

### Proofs of the builds

`BuildsProofs.tla` proves, for every set of wallets with any stock, every job, every
price, and any number of payments:

- `WalletsHold`: `BuildsSpec => []HoldsWhatItSpends`;
- `TokensAddUp`: `BuildsSpec => []AddsUp`. No transfer, swap, registration, deploy or
  update makes or destroys a token, alone or merged with others, before its fee is paid
  or after;
- `PaidTransactionsLand`: `BuildsSpec => []PaidLands`. That is the part of
  `PaidIsAccepted` that is about inputs, time, signatures and the fee: no input is
  spent twice, every intent is in time and its signatures cover it as it ended up, and
  the Dust covers the fee at every price up to the margin.

All three come from `BuildsAreSound`: `BuildsSpec => []BuildsInv`. The invariant is
about a transaction that stands (`Standing`): its shape, that it would land, that the
fee is the one reported, that each wallet holds of its own exactly what the transaction
spends, until it can no longer land (`HeldRight`), and what it leaves over of each token
(`SumsUp`). `HoldsWhatItSpends` alone is not
preserved. A merge and a payment give a new transaction, whose inputs are those of the
old ones only because a merge puts two intents in no segment twice; a payment adds
Dust that is spent nowhere else only because the wallet draws on what it does not hold;
and the fee is exact only because the intent of the fee is weighed as it is sent.

A part is `Sound` for the view that it was built from. Each kind of part gives a plan
that spends what it selected from the view, each input once (`GoodPlan`). The rounds of
the fee add Dust of the same view, and the round that settles has drawn the Dust that
its own transaction needs (`Balanced`). The proof changes bindings and signatures
alone (`LikeIntents`). Parts of different wallets spend different inputs.

`AddsUp` is a sum over the inputs, outputs and actions of a transaction, so it goes by
lemmas on sums. The spend of a cover with its payment and change leaves over what the
kind of part says (`SpendAndChange`): nothing, or for half of a swap what it gives less
what it takes. An offer or a single intent of such lines leaves over the same in the
guaranteed segment and nothing in the fallible one (`OfferLeaves`, `IntentLeaves`). The
fee and the seal touch Dust, signatures and bindings alone (`KeepsLeaves`), and merging
adds (`PartsSumUp`). A merge would lose a sum if two parts shared a segment, which is
why the shape of the intents is part of the argument. Nothing is assumed of the stock
beyond natural values.

Selections, the rounds, the outputs of a circuit, the drawing of deposits and the
merging of a list of parts are recursive functions. Each is given by a function that
is shown to satisfy the recursion, and what it yields goes by induction over a set of
lengths (`SetInduction`). Sums over a set are treated likewise, by the size of the set.

The two halves of `calls`, `MCCircuits` and `MCBuilds`, share one run and no
variable. The ledger library turns what a circuit recorded into the transcripts a
build starts from, and both sides of it are here.

CHECK_DEADLOCK is off: a circuit that ran and a transaction that is paid are done.

## Disagreements

Where the code does not do what its documents and comments say. Each was met as a
property that does not hold. The first two have a run of their own that shows the
counterexample, and are the findings of `PROJECT.json`. Where another names a
property, it stays in its module and in no run, and TLC finds the counterexample when
it is added to the run given.

- **A check without an answer marks a dead chain's state with a new pin**
  (`DeadChainIsCaught`, run `sync_unanswered`). The chain is replaced, and a resync
  takes a replacement pin from the new one. The check of the old pin gets no answer
  (a timeout, or a block the archive lacks) and passes (`sync.rs:433-439`). The commit
  keeps the events of the old chain, and the replacement pin is stored over them
  (`local.rs:199-201`). Every later check then vouches for a state of a chain that is
  gone, where `chain_pin.rs:1` says that a pin is there "so a resume cannot serve a dead
  chain's balance" and `sync.rs:416` that a node that cannot answer "leaves the cached
  state alone". `SwapIsCaught` says, and the theorem proves, that there is no other way.
- **A failed call of the simulator keeps what it left** (`FailedCallChangesNothing`, run
  `simulator_failures`). `value_to_type_conversion`
  (`codegen/src/expand/circuit_calls.rs:99-131`) accepts a Uint from `Value::Integer`
  and a Boolean from `Value::Bool` only, while the interpreter returns a read of the
  ledger or a field of a struct as `Value::AlignedValue` (`interpreter/src/lib.rs:1868`).
  A circuit that writes a cell and returns `tags.member(a)` gives a `TypeError`, after
  the runner has kept the new ledger and private state (`SimulatorCall`).
  `codegen/src/expand/ledger.rs:1538` says that the simulator "then keeps the state from
  before the call", and line 1605 that "a failed call changes nothing". On the chain,
  where the result is decoded before anything is sent, such a call is refused, although
  `README.md:14` says that a call returns a typed value. A typed witness called with such
  an argument fails too.
- **A silent stream past the fork reads as the tip** (`CrossesAtTheFork`,
  `replay_streams`). An indexer that falls silent between the last event before the
  fork and the first after it makes a resumed shielded replay return as caught up
  (`replay.rs:478-486`, `500-505`), the wallet takes over the generation-8 state as
  one of generation 9 (`wallet.rs:1205`), and every later resume is refused.
  `docs/wallet.md:279` says that a stored wallet crosses on its next sync.
- **A metadata file that cannot be read starts over at generation 1**
  (`ImplementsStore` with `ReadsFail = TRUE`, `stores`). `save_snapshot` takes an
  unreadable `metadata.json` for a missing one (`storage.rs:321`) and overwrites the
  state files that it names; a crash before the commit leaves a mixed snapshot. The
  comment at `storage.rs:324-326` says that the live generation's files are untouched.
- **`DeployTimeout { in_block: None }` of an included deploy** (`TimeoutMeansNoBlock`,
  `contracts`). The deadline can fall while the events of an announced block are
  read (`contract.rs:960-975`). The doc of the error says that no block included the
  deploy.
- **One stamp, two builds** (`ReleaseOwnOnly`, `reservations_restart` with
  `Ttls = {1}`). The comment of `PendingReservations::release` (`pending.rs:194`) says
  that two builds cannot hold one input at one stamp. With a TTL that a caller chose
  shorter than the life of the Dust anchor (`midnight-provider/src/transfer.rs:103`) they can, one after the
  other, and the late release of the first drops the entry of the second. It takes no
  short TTL either: two calls funded under one anchor, of which the second keeps its
  context until the pins of the first have expired, pin one input under one stamp
  (`LiveBuildIsHeld` over `Unshielded = {u1}` with `GlobalTtl = 2`, `DustGrace = 2`,
  `BlockInterval = 1`, `MaxTime = 4` and neither restarts nor failing writes). With a
  third build, two transactions that can both land then spend that input
  (`InFlightDisjoint`).
- **An import downgrades** (`NoDowngrade`, `journal_overlap`). `apply_import_entries`
  says that it does not replace a Confirmed snapshot (`fs.rs:884`). It decides from an
  earlier scan (`fs.rs:870`) without the lock, and a confirm in between is overwritten
  (`fs.rs:943`).
- **A rebuild that saves the old pin** (`RebuildRecovers`, `sync_calls` with a crash).
  `resync_from_genesis` says that it recovers from a replaced chain as deleting the
  snapshot would (`midnight-wallet-facade/src/lib.rs:136`). The rebuilt snapshot keeps
  the old pin until the next save (`wallet.rs:377`, `local.rs:200`), and a restart
  before it is refused.
- **A snapshot without a pin loses its registrations** (`RegistrationKept` with
  `Unpinned = TRUE`, `sync_restart`). The first sync that takes a pin discards the
  snapshot (`wallet.rs:1081`) and starts over without them. The doc of
  `watch_for_coin` (`wallet.rs:303`) says that registrations survive.
- **Too short a form panics.** `parse.rs` indexes a form's items, and one with too few
  ends the process instead of returning the error of its signature. In `Artifact` such
  a form has no reading.

## Proved, model-checked, and neither

Proved for every value of the constants:

| Component | Theorems | Assumed |
|---|---|---|
| reservations | `TypeCorrect`, `ClockNeverAhead`, `NoInputHeldTwice`, `StateIsSound`, `OnlyAReleaseTakesAnEntry`, `NoInputSpentTwice`, `EntriesLeaveForAReason`, `ReasonsMakeReleasesOwn` | `ReleaseOwnOnly` for `OnlyAReleaseTakesAnEntry` and `NoInputSpentTwice`, `ReleaseOwnOrOver` for `EntriesLeaveForAReason`, `EntryLeavesForAReason` for the last |
| journal | `TypeCorrect`, `JournalStaysChain`, `LeafStaysHeld`, `ConfirmedIsApplied`, `BaselineIsTrue`, `InFlightIsRecorded`, `SettledStaysTrue`, `JournalIsLog` | `~Overlap` and `Maintenance = {}`, for the last four |
| wallet sync | `TypeCorrect`, `PlansStayCurrent`, `ReplacedChainIsCaught`, `ForgottenStaysForgotten`, `RegistrationsAreKept`, `FoundCoinsAreHeld`, `WalletKeepsItsPlace` | `Durable` for `RegistrationsAreKept` and `FoundCoinsAreHeld` |
| wallet store | `StoreIsSound`, `TypeCorrect`, `KeptIsNotLost`, `StoreIsAtomic` | `~ReadsFail` |
| replay | `ReplayIsSound`, `TypeCorrect`, `NothingLostOrTwice`, `ReturnsCaughtUp`, `StallsAreTheServers` | |
| operation | `OperationIsSound`, `TypeCorrect`, `HandsBackWhatIsFree`, `SettlesWhatIsFinal`, `DeadlineIsShared` | |
| maintenance | `MaintenanceIsSound`, `TypeCorrect`, `NeverBricked`, `CheckedUpdatesApply`, `QuorumConsented`, `RetirementIsFinal` | |
| builds | `BuildsAreSound`, `WalletsHold`, `TokensAddUp`, `PaidTransactionsLand` | |

TLC has checked each inductive invariant on the constants of its run.

Model-checked only, on the bounds given:

- liveness (`HandedBack`, `EveryCallSettles`, `EveryCallReturns`, `ReplayReturns`,
  `BoundedWaitsEnd`), which is out of the prover's reach;
- everything about the circuits and the artifact (`CircuitIsDenoted`,
  `TranscriptInOrder`), which recur over syntax trees with RECURSIVE operators;
- of the builds, the rest of `PaidIsAccepted`: that a call or an offer to a contract
  comes out even, that claims are backed, that the value of a registration is granted
  and that outputs are found. For a call these need the transcript to agree with the
  coins that the circuit created, which the constants of the run give and no
  assumption states;
- `RefusesOnlyWhatItCannot`: that the rounds of the fee end with enough Dust whenever
  the wallet has enough;
- `EntryLeavesForAReason`, and with it `ReleaseOwnOnly` and `ReleaseOwnOrOver`, without
  a condition: the last two are the conditions of the theorems on reservations, and
  the first implies both. They cannot be proved, because they do not hold for every value of the
  constants (see *Disagreements*).

All other safety and action properties that a passing run checks are proved, and so are the
two refinements.

Not modelled: the components that `PROJECT.json` lists as `not_modelled`. Provers
and proving data: a proof is one step that succeeds, fails or is cancelled, and the
remote prover one HTTP request. Keys, addresses and units: derivations and
encodings, whose correctness is cryptographic or a table of test vectors. Helpers,
core and facade crates: re-exports.
