---------------------------- MODULE WalletStore ----------------------------
(***************************************************************************)
(* The snapshot directory of a wallet, file operation by file operation.   *)
(* A save writes the shielded and the Dust state under the next generation *)
(* number, commits metadata.json that names it, and removes the files of   *)
(* the generation before.  Every write goes to a temporary file, is        *)
(* renamed, and the directory is synced.  A write can fail at any of these *)
(* points, the process can stop at any of them, and the power can fail,    *)
(* which loses any part of what the directory had not synced.              *)
(***************************************************************************)
EXTENDS Integers, FiniteSets

CONSTANTS
    MaxSaves,   \* bound: how many saves are tried
    ReadsFail   \* may reading metadata.json fail when the file is there?

ASSUME StoreAssumption ==
    /\ MaxSaves \in Nat
    /\ ReadsFail \in BOOLEAN

VARIABLES
    dir,        \* the directory as the process sees it
    synced,     \* the directory on stable storage
    save,       \* the save that runs
    saves,      \* bound on saves; a save's number is its snapshot
    kept        \* history: the newest snapshot whose save returned Ok

storeVars == <<dir, synced, save, saves, kept>>

-----------------------------------------------------------------------------
Snapshots == 1..MaxSaves
Gens      == 1..MaxSaves
Absent    == 0

(* A state file holds the state of a snapshot; the metadata the cursors of *)
(* one, and the generation that names its files.                           *)
NoMeta    == [gen |-> 0, snapshot |-> Absent]
Directory == [zswap: [Gens -> Snapshots \cup {Absent}],
              dust: [Gens -> Snapshots \cup {Absent}],
              meta: [gen: Gens, snapshot: Snapshots] \cup {NoMeta}]

(* zswap, dust, metadata: the write that is next.  sync_*: renamed, the    *)
(* directory not synced yet.  clean_*: the removals.  prev: the generation *)
(* of the metadata that the save read, or 0.                               *)
Phases == {"zswap", "sync_zswap", "dust", "sync_dust", "metadata", "sync_metadata",
           "clean_zswap", "clean_dust"}
NoSave == [st |-> "idle", gen |-> 0, prev |-> 0]
Save   == [st: Phases, gen: Gens, prev: 0..MaxSaves]

StoreTypeOK ==
    /\ dir \in Directory
    /\ synced \in Directory
    /\ save \in Save \cup {NoSave}
    /\ saves \in 0..MaxSaves
    /\ kept \in 0..MaxSaves

-----------------------------------------------------------------------------
(* load: the files that the metadata names. *)
IsWhole(d) ==
    d.meta # NoMeta => d.zswap[d.meta.gen] = d.meta.snapshot /\ d.dust[d.meta.gen] = d.meta.snapshot

(* What a load returns: a snapshot, none, or a mixture of two. *)
Mixed == -1
LoadedFrom(d) == IF IsWhole(d) THEN d.meta.snapshot ELSE Mixed

-----------------------------------------------------------------------------
(* Mutant of NextGeneration: a save writes over the files it replaces. *)
NextGenerationSame(prev) == IF prev = 0 THEN 1 ELSE prev

(* The generation after the one that the metadata names.  Metadata that    *)
(* cannot be read counts as none.                                          *)
NextGeneration(prev) == prev + 1

BeginSave ==
    /\ save.st = "idle"
    /\ saves < MaxSaves
    /\ saves' = saves + 1
    /\ \E prev \in {dir.meta.gen} \cup (IF ReadsFail THEN {0} ELSE {}) :
        save' = [st |-> "zswap", gen |-> NextGeneration(prev), prev |-> prev]
    /\ UNCHANGED <<dir, synced, kept>>

(* write_atomic of one file, up to the rename. *)
Rename(from, to, d) ==
    /\ save.st = from
    /\ dir' = d
    /\ save' = [save EXCEPT !.st = to]
    /\ UNCHANGED <<synced, saves, kept>>

RenameZswap == Rename("zswap", "sync_zswap", [dir EXCEPT !.zswap[save.gen] = saves])
RenameDust  == Rename("dust", "sync_dust", [dir EXCEPT !.dust[save.gen] = saves])

(* The commit of the save. *)
RenameMetadata ==
    Rename("metadata", "sync_metadata",
           [dir EXCEPT !.meta = [gen |-> save.gen, snapshot |-> saves]])

SyncDir(d) == d

AfterSync == [sync_zswap |-> "dust", sync_dust |-> "metadata", sync_metadata |-> "clean_zswap"]

(* The rest of write_atomic. *)
Sync ==
    /\ save.st \in DOMAIN AfterSync
    /\ synced' = SyncDir(dir)
    /\ save' = [save EXCEPT !.st = AfterSync[save.st]]
    /\ UNCHANGED <<dir, saves, kept>>

(* A write that fails ends the save, before its rename or after it. *)
SaveFails ==
    /\ save.st \in {"zswap", "dust", "metadata"} \cup DOMAIN AfterSync
    /\ save' = NoSave
    /\ UNCHANGED <<dir, synced, saves, kept>>

(* Mutant of MayClean: the generation before goes before the commit is on  *)
(* disk.                                                                   *)
MayCleanEarly(st) == st \in {"sync_metadata", "clean_zswap"}

MayClean(st) == st = "clean_zswap"

(* The removals are not synced, and one that fails is ignored. *)
CleanZswap ==
    /\ MayClean(save.st)
    /\ save' = [save EXCEPT !.st = "clean_dust"]
    /\ dir' \in {dir} \cup {[dir EXCEPT !.zswap[g] = Absent] : g \in {save.prev} \cap Gens}
    /\ UNCHANGED <<synced, saves, kept>>

CleanDust ==
    /\ save.st = "clean_dust"
    /\ save' = NoSave
    /\ dir' \in {dir} \cup {[dir EXCEPT !.dust[g] = Absent] : g \in {save.prev} \cap Gens}
    /\ kept' = saves
    /\ UNCHANGED <<synced, saves>>

-----------------------------------------------------------------------------
(* The process stops: what it renamed stays. *)
Stop ==
    /\ save.st # "idle"
    /\ save' = NoSave
    /\ UNCHANGED <<dir, synced, saves, kept>>

(* Any part of what was not synced may be lost. *)
Images ==
    {[zswap |-> [g \in Gens |-> IF g \in z THEN dir.zswap[g] ELSE synced.zswap[g]],
      dust  |-> [g \in Gens |-> IF g \in u THEN dir.dust[g] ELSE synced.dust[g]],
      meta  |-> m] : z \in SUBSET Gens, u \in SUBSET Gens, m \in {dir.meta, synced.meta}}

LosePower ==
    /\ save' = NoSave
    /\ dir' \in Images
    /\ synced' = dir'
    /\ UNCHANGED <<saves, kept>>

-----------------------------------------------------------------------------
InitStore ==
    /\ dir = [zswap |-> [g \in Gens |-> Absent], dust |-> [g \in Gens |-> Absent], meta |-> NoMeta]
    /\ synced = dir
    /\ save = NoSave
    /\ saves = 0
    /\ kept = 0

NextStore ==
    \/ BeginSave
    \/ RenameZswap \/ RenameDust \/ RenameMetadata
    \/ Sync \/ SaveFails
    \/ CleanZswap \/ CleanDust
    \/ Stop \/ LosePower

StoreSpec == InitStore /\ [][NextStore]_storeVars

-----------------------------------------------------------------------------
(* Properties *)

(* A snapshot whose save returned is not lost, to a failed later save, to  *)
(* a stop in the middle of one, or to the power (write_atomic syncs the    *)
(* directory after each rename).                                           *)
KeptSurvives == LoadedFrom(dir) >= kept /\ LoadedFrom(synced) >= kept

(* The directory is an atomic store of snapshots: whatever fails or stops  *)
(* and whatever the power takes, the metadata names two state files that   *)
(* are there and are of its own snapshot, and what a load returns changes  *)
(* only where a save commits or the power fails.                           *)
(* (save_snapshot: "Write the new generation's binary files first" and     *)
(* "Atomic commit: from this point on, the wallet sees the new state.")    *)
Store == INSTANCE SnapshotStore WITH loaded <- LoadedFrom(dir), stable <- LoadedFrom(synced)
ImplementsStore == Store!Spec

=============================================================================
