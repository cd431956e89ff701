--------------------------- MODULE PrivateJournal ---------------------------
(***************************************************************************)
(* The private-state journal of one contract on the filesystem, under the  *)
(* calls that use it.                                                      *)
(*                                                                         *)
(* A call reads the head of the journal without the lock, runs, records a  *)
(* Pending snapshot before it submits, waits for the chain, and then       *)
(* confirms the snapshot or drops it with everything built on it.  Appends,*)
(* confirms and drops hold the address's lock for several file operations; *)
(* forget, export and import hold no lock.  The process can stop between   *)
(* any two file operations.  A call's extrinsic hash is the call itself.   *)
(***************************************************************************)
EXTENDS JournalGraph

CONSTANTS
    Calls,          \* the calls on the contract
    Overlap,        \* may a call start before the one before it settled?
    WritesFail,     \* bound: may a file operation fail?
    Maintenance,    \* bound: which of forget and import the user runs
    MaxCrashes      \* bound: how often the process stops

ASSUME JournalAssumption ==
    /\ NoSnapshot \notin Calls
    /\ Overlap \in BOOLEAN
    /\ WritesFail \in BOOLEAN
    /\ Maintenance \subseteq {"forget", "import"}
    /\ MaxCrashes \in Nat

VARIABLES
    files,      \* the snapshot files of the address
    lock,       \* who holds the address's lock
    call,       \* the calls
    chain,      \* what the chain did with each call's transaction
    user,       \* the forget, export or import that runs
    backup,     \* the last export
    tended,     \* history: a forget or an import has begun
    crashes     \* bound on crashes

userVars == <<user, backup, tended>>
vars == <<files, lock, call, chain, user, backup, tended, crashes>>

-----------------------------------------------------------------------------
Snapshot == [hash: Calls, parent: Calls \cup {NoSnapshot}, status: {"Pending", "Confirmed"}]

(* idle: not started, or refused with nothing recorded.  loading: reads    *)
(* the head, file by file.  loaded: has a baseline.  appending, checked:   *)
(* in append_pending.  recorded: the snapshot is on disk.  waiting: for    *)
(* the chain.  unsettled: ended with no verdict, for the caller to         *)
(* reconcile.  confirm, confirming: in confirm.  drop, dropping: in        *)
(* mark_failed.  done.                                                     *)
Locked == {"appending", "checked", "confirming", "dropping"}
Steps  == Locked \cup {"idle", "loading", "loaded", "recorded", "waiting", "unsettled",
                       "confirm", "drop", "done"}

(* parent: the baseline.  todo: files left to read or to delete.  got: the *)
(* snapshots read.                                                         *)
Call == [st: Steps, parent: Calls \cup {NoSnapshot}, todo: SUBSET Calls, got: SUBSET Snapshot]

NotStarted == [st |-> "idle", parent |-> NoSnapshot, todo |-> {}, got |-> {}]

(* What forget, export and import still have to do: files to delete or to  *)
(* read, snapshots read, snapshots to write.                               *)
User     == [st: {"idle", "forgetting", "exporting", "importing", "writing"},
             todo: SUBSET Calls, got: SUBSET Snapshot]
UserIdle == [st |-> "idle", todo |-> {}, got |-> {}]

(* none: not on the wire.  wire: the node may hold it.  The rest is final. *)
Fates == {"none", "wire", "applied", "failed", "dead"}

(* The lock is held by exactly the call that is in a locked step. *)
TypeOK ==
    /\ files \subseteq Snapshot
    /\ lock \in Calls \cup {NoSnapshot}
    /\ call \in [Calls -> Call]
    /\ \A c \in Calls : call[c].st \in Locked <=> lock = c
    /\ chain \in [Calls -> Fates]
    /\ user \in User
    /\ backup \subseteq Snapshot
    /\ tended \in BOOLEAN
    /\ crashes \in Nat

-----------------------------------------------------------------------------
(* Steps of a call *)

GoTo(c, step) == call' = [call EXCEPT ![c] = [NotStarted EXCEPT !.st = step]]

Recorded(c) == c \in Hashes(files)

(* The caller's part of the contract, when Overlap is FALSE: a call starts *)
(* once every earlier call is settled.                                     *)
MayStart(c) == Overlap \/ \A d \in Calls \ {c} : call[d].st \in {"idle", "done"}

(* head_with_extrinsic lists the directory, then reads file by file, in    *)
(* the order the directory gives them.                                     *)
StartLoad(c) ==
    /\ call[c].st = "idle"
    /\ chain[c] = "none"
    /\ MayStart(c)
    /\ call' = [call EXCEPT ![c] = [NotStarted EXCEPT !.st = "loading", !.todo = Hashes(files)]]
    /\ UNCHANGED <<files, lock, chain, userVars, crashes>>

(* A file that is gone by now is skipped. *)
ReadFile(c, h) ==
    /\ call[c].st = "loading"
    /\ h \in call[c].todo
    /\ call' = [call EXCEPT ![c].todo = @ \ {h}, ![c].got = @ \cup {s \in files : s.hash = h}]
    /\ UNCHANGED <<files, lock, chain, userVars, crashes>>

(* The leaf of what was read is the baseline; a malformed journal ends the *)
(* call.                                                                   *)
Loaded(c) ==
    /\ call[c].st = "loading"
    /\ call[c].todo = {}
    /\ IF FindsLeaf(call[c].got)
       THEN call' = [call EXCEPT ![c] = [NotStarted EXCEPT !.st = "loaded",
                                                           !.parent = JournalHead(call[c].got)]]
       ELSE GoTo(c, "idle")
    /\ UNCHANGED <<files, lock, chain, userVars, crashes>>

-----------------------------------------------------------------------------
(* append_pending *)

(* Mutant of CanLock: the lock excludes nobody. *)
CanLockAlways == TRUE

(* lock_address: one task at a time. *)
CanLock == lock = NoSnapshot

StartAppend(c) ==
    /\ call[c].st = "loaded"
    /\ CanLock
    /\ lock' = c
    /\ call' = [call EXCEPT ![c].st = "appending"]
    /\ UNCHANGED <<files, chain, userVars, crashes>>

(* No snapshot of this hash, and the baseline is still the leaf. *)
MayAppend(c) ==
    /\ ~Recorded(c)
    /\ FindsLeaf(files)
    /\ JournalHead(files) = call[c].parent

(* SnapshotAlreadyExists, JournalConflict or a malformed journal: nothing  *)
(* was submitted, the lock and the inputs go back.                         *)
CheckAppend(c) ==
    /\ call[c].st = "appending"
    /\ IF MayAppend(c)
       THEN call' = [call EXCEPT ![c].st = "checked"] /\ UNCHANGED lock
       ELSE GoTo(c, "idle") /\ lock' = NoSnapshot
    /\ UNCHANGED <<files, chain, userVars, crashes>>

WriteSnapshot(c) ==
    /\ call[c].st = "checked"
    /\ files' = files \cup {PendingSnapshot(c, call[c].parent)}
    /\ GoTo(c, "recorded")
    /\ lock' = NoSnapshot
    /\ UNCHANGED <<chain, userVars, crashes>>

(* A failed write removes its file and fails the call. *)
WriteFails(c) ==
    /\ WritesFail
    /\ call[c].st = "checked"
    /\ GoTo(c, "idle")
    /\ lock' = NoSnapshot
    /\ UNCHANGED <<files, chain, userVars, crashes>>

-----------------------------------------------------------------------------
(* Submit, wait, settle *)

MaySubmit(c) == call[c].st = "recorded"

(* The node has it, or the submit call failed and the node may have it. *)
Submit(c) ==
    /\ MaySubmit(c)
    /\ \/ GoTo(c, "waiting") /\ chain' = [chain EXCEPT ![c] = "wire"]
       \/ GoTo(c, "unsettled") /\ \E fate \in {"none", "wire"} : chain' = [chain EXCEPT ![c] = fate]
    /\ UNCHANGED <<files, lock, userVars, crashes>>

(* The chain finalizes the transaction, applied or not. *)
Finalize(c) ==
    /\ chain[c] = "wire"
    /\ \E fate \in {"applied", "failed"} : chain' = [chain EXCEPT ![c] = fate]
    /\ UNCHANGED <<files, lock, call, userVars, crashes>>

(* The TTL passes: a transaction that is in no block never will be. *)
Expire(c) ==
    /\ call[c].st \in {"waiting", "unsettled"}
    /\ chain[c] \in {"none", "wire"}
    /\ chain' = [chain EXCEPT ![c] = "dead"]
    /\ UNCHANGED <<files, lock, call, userVars, crashes>>

(* Mutant of Verdict: a finalized transaction counts as applied. *)
VerdictFinalized(c) ==
    /\ call[c].st = "waiting"
    /\ chain[c] \in {"applied", "failed"}
    /\ GoTo(c, "confirm")
    /\ UNCHANGED <<files, lock, chain, userVars, crashes>>

(* The wait reads the verdict. *)
Verdict(c) ==
    /\ call[c].st = "waiting"
    /\ \/ chain[c] = "applied" /\ GoTo(c, "confirm")
       \/ chain[c] = "failed" /\ GoTo(c, "drop")
    /\ UNCHANGED <<files, lock, chain, userVars, crashes>>

(* Mutant of WaitEnds: a wait with no bound, which only a verdict ends. *)
WaitEndsUnbounded(c) ==
    /\ call[c].st = "waiting"
    /\ chain[c] \in {"applied", "failed"}
    /\ GoTo(c, "unsettled")
    /\ UNCHANGED <<files, lock, chain, userVars, crashes>>

(* A timeout, a failed wait or a dropped handle: the snapshot stays. *)
WaitEnds(c) ==
    /\ call[c].st = "waiting"
    /\ GoTo(c, "unsettled")
    /\ UNCHANGED <<files, lock, chain, userVars, crashes>>

(* The caller finds the fate on the chain and settles the snapshot. *)
Reconcile(c) ==
    /\ call[c].st = "unsettled"
    /\ \/ chain[c] = "applied" /\ GoTo(c, "confirm")
       \/ chain[c] \in {"failed", "dead"} /\ GoTo(c, "drop")
    /\ UNCHANGED <<files, lock, chain, userVars, crashes>>

-----------------------------------------------------------------------------
(* confirm *)

(* It finds and reads the file, or ends with SnapshotNotFound. *)
StartConfirm(c) ==
    /\ call[c].st = "confirm"
    /\ CanLock
    /\ IF Recorded(c)
       THEN /\ call' = [call EXCEPT ![c].st = "confirming", ![c].got = {s \in files : s.hash = c}]
            /\ lock' = c
       ELSE GoTo(c, "done") /\ UNCHANGED lock
    /\ UNCHANGED <<files, chain, userVars, crashes>>

(* Writing the record it read puts the file back if it is gone by now. *)
Put(S) == files' = {s \in files : s.hash \notin Hashes(S)} \cup S

PutConfirmed(c) == Put({[s EXCEPT !.status = "Confirmed"] : s \in call[c].got})

WriteConfirmed(c) ==
    /\ call[c].st = "confirming"
    /\ PutConfirmed(c)
    /\ GoTo(c, "done")
    /\ lock' = NoSnapshot
    /\ UNCHANGED <<chain, userVars, crashes>>

(* The write can fail after its rename, when the directory is synced. *)
ConfirmFails(c) ==
    /\ WritesFail
    /\ call[c].st = "confirming"
    /\ PutConfirmed(c) \/ UNCHANGED files
    /\ GoTo(c, "unsettled")
    /\ lock' = NoSnapshot
    /\ UNCHANGED <<chain, userVars, crashes>>

-----------------------------------------------------------------------------
(* mark_failed *)

(* It loads the journal and collects the snapshot with all that depends on *)
(* it, or ends with SnapshotNotFound.                                      *)
StartDrop(c) ==
    /\ call[c].st = "drop"
    /\ CanLock
    /\ IF Recorded(c)
       THEN /\ call' = [call EXCEPT ![c].st = "dropping", ![c].todo = Walk(files, {c}),
                                    ![c].got = files]
            /\ lock' = c
       ELSE GoTo(c, "done") /\ UNCHANGED lock
    /\ UNCHANGED <<files, chain, userVars, crashes>>

DropFile(c, h) ==
    /\ call[c].st = "dropping"
    /\ h \in CascadeOrder(call[c].got, call[c].todo)
    /\ files' = {s \in files : s.hash # h}
    /\ call' = [call EXCEPT ![c].todo = @ \ {h}]
    /\ UNCHANGED <<lock, chain, userVars, crashes>>

(* The first failure ends it; running it again resumes the drop. *)
DropFails(c) ==
    /\ WritesFail
    /\ call[c].st = "dropping"
    /\ GoTo(c, "unsettled")
    /\ lock' = NoSnapshot
    /\ UNCHANGED <<files, chain, userVars, crashes>>

Dropped(c) ==
    /\ call[c].st = "dropping"
    /\ call[c].todo = {}
    /\ GoTo(c, "done")
    /\ lock' = NoSnapshot
    /\ UNCHANGED <<files, chain, userVars, crashes>>

-----------------------------------------------------------------------------
(* forget, export and import: no lock *)

NoCallChange == UNCHANGED <<lock, call, chain, crashes>>

SetUser(step, todo, got) == user' = [st |-> step, todo |-> todo, got |-> got]

StartForget ==
    /\ "forget" \in Maintenance
    /\ user.st = "idle"
    /\ SetUser("forgetting", Hashes(files), {})
    /\ tended' = TRUE
    /\ UNCHANGED <<files, backup>>
    /\ NoCallChange

(* remove_dir_all goes through the files in the order the directory gives  *)
(* them, and can meet one that was written since.                          *)
ForgetFile(h) ==
    /\ user.st = "forgetting"
    /\ user.todo # {}
    /\ h \in user.todo \cup Hashes(files)
    /\ files' = {s \in files : s.hash # h}
    /\ user' = [user EXCEPT !.todo = @ \ {h}]
    /\ UNCHANGED <<backup, tended>>
    /\ NoCallChange

(* Both read the directory file by file. *)
StartScan(step) ==
    /\ "import" \in Maintenance
    /\ user.st = "idle"
    /\ step = "importing" => backup # {}
    /\ SetUser(step, Hashes(files), {})
    /\ tended' = (tended \/ step = "importing")
    /\ UNCHANGED <<files, backup>>
    /\ NoCallChange

ScanFile(h) ==
    /\ user.st \in {"exporting", "importing"}
    /\ h \in user.todo
    /\ user' = [user EXCEPT !.todo = @ \ {h}, !.got = @ \cup {s \in files : s.hash = h}]
    /\ UNCHANGED <<files, backup, tended>>
    /\ NoCallChange

Exported ==
    /\ user.st = "exporting"
    /\ user.todo = {}
    /\ backup' = user.got
    /\ user' = UserIdle
    /\ UNCHANGED <<files, tended>>
    /\ NoCallChange

(* Would writing s replace a Confirmed snapshot by a Pending one? *)
Downgrades(s, S) ==
    s.status = "Pending" /\ \E t \in S : t.hash = s.hash /\ t.status = "Confirmed"

(* What a conflict strategy writes of the backup over the snapshots S, or  *)
(* a conflict.                                                             *)
Admitted(strategy, S) ==
    {s \in backup : strategy = "Overwrite" \/ s.hash \notin Hashes(S)}

Conflicts(strategy, S) ==
    \/ strategy = "Error" /\ Hashes(backup) \cap Hashes(S) # {}
    \/ strategy = "Overwrite" /\ \E s \in backup : Downgrades(s, S)

(* Validation runs on what the scan read.  It decides every write before   *)
(* the first one.                                                          *)
PlanImport(strategy) ==
    /\ user.st = "importing"
    /\ user.todo = {}
    /\ LET staged == Admitted(strategy, user.got)
           merged == {s \in user.got : s.hash \notin Hashes(staged)} \cup staged
       IN  IF Conflicts(strategy, user.got) \/ ~FindsLeaf(merged)
           THEN user' = UserIdle
           ELSE SetUser("writing", {}, staged)
    /\ UNCHANGED <<files, backup, tended>>
    /\ NoCallChange

(* An export lists a journal oldest first, and an import keeps the order. *)
ImportFile(s) ==
    /\ user.st = "writing"
    /\ s \in user.got
    /\ s.parent \notin Hashes(user.got)
    /\ Put({s})
    /\ user' = [user EXCEPT !.got = @ \ {s}]
    /\ UNCHANGED <<backup, tended>>
    /\ NoCallChange

(* A file operation fails. *)
UserFails ==
    /\ WritesFail
    /\ user.st \in {"forgetting", "writing"}
    /\ user' = UserIdle
    /\ UNCHANGED <<files, backup, tended>>
    /\ NoCallChange

UserEnds ==
    /\ \/ user.st = "forgetting" /\ user.todo = {}
       \/ user.st = "writing" /\ user.got = {}
    /\ user' = UserIdle
    /\ UNCHANGED <<files, backup, tended>>
    /\ NoCallChange

-----------------------------------------------------------------------------
(* The process stops.  The locks are in memory; a call that recorded its   *)
(* snapshot is left for the caller to reconcile.                           *)

AfterCrash(c) ==
    CASE call[c].st \in {"loading", "loaded", "appending", "checked"} -> NotStarted
      [] call[c].st \in {"idle", "done"} -> call[c]
      [] OTHER -> [NotStarted EXCEPT !.st = "unsettled"]

Crash ==
    /\ crashes < MaxCrashes
    /\ crashes' = crashes + 1
    /\ lock' = NoSnapshot
    /\ call' = [c \in Calls |-> AfterCrash(c)]
    /\ user' = UserIdle
    /\ UNCHANGED <<files, chain, backup, tended>>

-----------------------------------------------------------------------------

Init ==
    /\ files = {}
    /\ lock = NoSnapshot
    /\ call = [c \in Calls |-> NotStarted]
    /\ chain = [c \in Calls |-> "none"]
    /\ user = UserIdle
    /\ backup = {}
    /\ tended = FALSE
    /\ crashes = 0

CallStep(c) ==
    \/ Loaded(c) \/ StartAppend(c) \/ CheckAppend(c) \/ WriteSnapshot(c)
    \/ Submit(c) \/ Verdict(c)
    \/ StartConfirm(c) \/ WriteConfirmed(c)
    \/ StartDrop(c) \/ Dropped(c)
    \/ \E h \in Calls : ReadFile(c, h) \/ DropFile(c, h)

CallFails(c) == WriteFails(c) \/ ConfirmFails(c) \/ DropFails(c) \/ WaitEnds(c)

ChainStep(c) == Finalize(c) \/ Expire(c)

UserStep ==
    \/ StartForget \/ Exported \/ UserFails \/ UserEnds
    \/ \E h \in Calls : ForgetFile(h) \/ ScanFile(h)
    \/ \E step \in {"exporting", "importing"} : StartScan(step)
    \/ \E strategy \in {"Skip", "Overwrite", "Error"} : PlanImport(strategy)
    \/ \E s \in user.got : ImportFile(s)

Next ==
    \/ \E c \in Calls : StartLoad(c) \/ CallStep(c) \/ CallFails(c) \/ ChainStep(c) \/ Reconcile(c)
    \/ UserStep
    \/ Crash

Spec == Init /\ [][Next]_vars

(* Tasks run and get the lock in turn (a tokio mutex), a wait ends         *)
(* (call_with bounds it), the chain finalizes or expires a transaction, a  *)
(* disk does not fail for ever, and the caller reconciles what a wait with *)
(* no verdict left, as the error tells it to.                              *)
Fairness ==
    \A c \in Calls :
        /\ SF_vars(CallStep(c))
        /\ SF_vars(WriteConfirmed(c) \/ \E h \in Calls : DropFile(c, h))
        /\ WF_vars(WaitEnds(c))
        /\ WF_vars(ChainStep(c))
        /\ WF_vars(Reconcile(c))

FairSpec == Spec /\ Fairness

-----------------------------------------------------------------------------
(* Properties *)

(* Until a forget or an import runs, which take no lock, the files form    *)
(* one chain whose every snapshot is reachable from a root, at every       *)
(* moment: between the deletes of a cascade, after a crash in the middle   *)
(* of one, and whatever concurrent calls append (append_pending,           *)
(* cascade_drop, find_leaf).                                               *)
JournalIsChain == ~tended => FindsLeaf(files)

(* Between the check of append_pending and its write, the leaf it compared *)
(* with the baseline stays the leaf.                                       *)
LeafHeld ==
    \A c \in Calls :
        ~tended /\ call[c].st = "checked" => FindsLeaf(files) /\ JournalHead(files) = call[c].parent

(* A transaction that the chain applied, or can still apply, has its       *)
(* snapshot in the journal, whatever failed or crashed since: recording    *)
(* comes before submitting (record_and_submit), and a wait with no verdict *)
(* keeps the snapshot (settle_snapshot).                                   *)
RecordedWhileInFlight == \A c \in Calls : chain[c] \in {"wire", "applied"} => Recorded(c)

(* A call that executes starts from the private state of exactly the calls *)
(* that the chain applied, in a journal whose head is still its baseline.  *)
BaselineIsApplied ==
    \A c \in Calls :
        call[c].st \in {"loaded", "appending", "checked"} =>
            /\ Hashes(files) = {d \in Calls : chain[d] = "applied"}
            /\ JournalHead(files) = call[c].parent

(* A settled call left a Confirmed snapshot if the chain applied it, and   *)
(* no snapshot otherwise.                                                  *)
SettledIsTrue ==
    \A c \in Calls :
        call[c].st = "done" =>
            {s.status : s \in {t \in files : t.hash = c}} =
                IF chain[c] = "applied" THEN {"Confirmed"} ELSE {}

(* A Confirmed snapshot, on disk or in a backup, is of a transaction that  *)
(* the chain applied, whatever is forgotten, exported and imported next to *)
(* the calls.                                                              *)
ConfirmedMeansApplied ==
    \A s \in files \cup backup : s.status = "Confirmed" => chain[s.hash] = "applied"

(* An import never turns a Confirmed snapshot back into a Pending one      *)
(* (apply_import_entries).                                                 *)
NoDowngrade ==
    [][\A s \in files : s.status = "Confirmed"
            => ~ \E t \in files' : t.hash = s.hash /\ t.status = "Pending"]_vars

(* Every call that recorded a snapshot is settled in the end, also when    *)
(* its wait failed, its transaction expired or the process stopped.        *)
EveryCallSettles ==
    \A c \in Calls : call[c].st = "recorded" ~> call[c].st = "done"

(* How many snapshots the chain holds up to h. *)
Height(h) == Cardinality({s \in files : h \in Walk(files, {s.hash})})

(* The journal as the log of its calls, oldest first. *)
LogOfFiles ==
    IF FindsLeaf(files)
    THEN [n \in 1..Cardinality(files) |-> CHOOSE h \in Hashes(files) : Height(h) = n]
    ELSE <<>>

Log == INSTANCE JournalLog
       WITH log <- LogOfFiles, confirmed <- {s.hash : s \in {t \in files : t.status = "Confirmed"}}

(* For a caller that settles each call before the next, the directory of   *)
(* files behaves as the log of JournalLog: every file operation, failed    *)
(* write, crash and cascade is one step of the log or none.                *)
ImplementsLog == Log!Spec

=============================================================================
