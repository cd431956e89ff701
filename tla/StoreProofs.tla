----------------------------- MODULE StoreProofs -----------------------------
(***************************************************************************)
(* The proofs about the snapshot directory of a wallet.                    *)
(***************************************************************************)
EXTENDS WalletStore, TLAPS

-----------------------------------------------------------------------------
(* The inductive invariant *)

(* The files that a metadata names are its snapshot's, as the process sees *)
(* them and on the disk.                                                   *)
Backed(meta) ==
    meta # NoMeta =>
        /\ dir.zswap[meta.gen] = meta.snapshot /\ synced.zswap[meta.gen] = meta.snapshot
        /\ dir.dust[meta.gen] = meta.snapshot /\ synced.dust[meta.gen] = meta.snapshot

Before == {"zswap", "sync_zswap", "dust", "sync_dust", "metadata"}
After  == {"sync_metadata", "clean_zswap", "clean_dust"}

(* What a save has done when it is at a step. *)
Progressed ==
    /\ save.st \in Before =>
          /\ save.prev = dir.meta.gen
          /\ save.gen = dir.meta.gen + 1
          /\ save.gen <= saves
          /\ dir.meta.snapshot < saves
    /\ save.st \in {"sync_zswap", "dust", "sync_dust", "metadata"} => dir.zswap[save.gen] = saves
    /\ save.st \in {"dust", "sync_dust", "metadata"} => synced.zswap[save.gen] = saves
    /\ save.st \in {"sync_dust", "metadata"} => dir.dust[save.gen] = saves
    /\ save.st = "metadata" => synced.dust[save.gen] = saves
    /\ save.st \in After =>
          /\ dir.meta = [gen |-> save.gen, snapshot |-> saves]
          /\ save.gen = save.prev + 1
    /\ save.st \in {"clean_zswap", "clean_dust"} => synced.meta = dir.meta

(* Both directories name files that are there, the disk never a later      *)
(* generation than the process; no snapshot that was kept is behind.       *)
StoreInv ==
    /\ StoreTypeOK
    /\ Progressed
    /\ Backed(dir.meta) /\ Backed(synced.meta)
    /\ synced.meta.gen <= dir.meta.gen
    /\ dir.meta.gen <= saves
    /\ dir.meta.snapshot <= saves /\ synced.meta.snapshot <= saves
    /\ kept <= dir.meta.snapshot /\ kept <= synced.meta.snapshot

-----------------------------------------------------------------------------
(* The steps keep the invariant *)

(* What the types say of the parts.                                        *)
LEMMA Parts ==
    ASSUME StoreInv
    PROVE  /\ MaxSaves \in Nat /\ saves \in 0..MaxSaves /\ kept \in 0..MaxSaves
           /\ dir \in Directory /\ synced \in Directory
           /\ dir.meta.gen \in 0..MaxSaves /\ dir.meta.snapshot \in 0..MaxSaves
           /\ synced.meta.gen \in 0..MaxSaves /\ synced.meta.snapshot \in 0..MaxSaves
           /\ dir.meta.gen = 0 <=> dir.meta = NoMeta
           /\ synced.meta.gen = 0 <=> synced.meta = NoMeta
           /\ save \in Save \cup {NoSave}
           /\ save.st # "idle" => save \in Save /\ save.gen \in Gens
<1>1. MaxSaves \in Nat /\ saves \in 0..MaxSaves /\ kept \in 0..MaxSaves
      /\ dir \in Directory /\ synced \in Directory /\ save \in Save \cup {NoSave}
      BY StoreAssumption DEF StoreInv, StoreTypeOK
<1>2. ASSUME NEW d \in Directory
      PROVE  /\ d.meta.gen \in 0..MaxSaves /\ d.meta.snapshot \in 0..MaxSaves
             /\ d.meta.gen = 0 <=> d.meta = NoMeta
      <2>1. CASE d.meta = NoMeta
            BY <1>1, <2>1 DEF NoMeta, Absent
      <2>2. CASE d.meta # NoMeta
            <3>1. d.meta \in [gen: Gens, snapshot: Snapshots]
                  BY <2>2 DEF Directory
            <3> QED BY <1>1, <2>2, <3>1 DEF Gens, Snapshots
      <2> QED BY <2>1, <2>2
<1>3. save.st # "idle" => save \in Save /\ save.gen \in Gens
      BY <1>1 DEF NoSave, Save
<1> QED BY <1>1, <1>2, <1>3

(* A save in progress knows no other step. *)
LEMMA OneStep ==
    ASSUME StoreInv, save.st # "idle"
    PROVE  save.st \in Before \cup After
BY Parts DEF Save, Phases, Before, After

(* A save begins under the next generation. *)
LEMMA BeginSaveStep ==
    ASSUME StoreInv, ~ReadsFail, BeginSave
    PROVE  StoreInv'
<1>1. /\ saves' = saves + 1 /\ saves < MaxSaves
      /\ dir' = dir /\ synced' = synced /\ kept' = kept
      /\ save' = [st |-> "zswap", gen |-> dir.meta.gen + 1, prev |-> dir.meta.gen]
      BY DEF BeginSave, NextGeneration
<1>2. /\ saves \in 0..MaxSaves /\ MaxSaves \in Nat /\ dir.meta.gen \in 0..MaxSaves
      /\ dir.meta.gen <= saves /\ dir.meta.snapshot <= saves /\ dir.meta.snapshot \in 0..MaxSaves
      /\ synced.meta.snapshot <= saves /\ synced.meta.snapshot \in 0..MaxSaves
      BY Parts DEF StoreInv
<1>3. save' \in Save
      BY <1>1, <1>2 DEF Save, Phases, Gens
<1>4. StoreTypeOK'
      BY <1>1, <1>2, <1>3 DEF StoreInv, StoreTypeOK
<1>5. Progressed'
      BY <1>1, <1>2 DEF Progressed, Before, After
<1>6. Backed(dir.meta)' /\ Backed(synced.meta)'
      BY <1>1 DEF StoreInv, Backed
<1> QED BY <1>1, <1>2, <1>4, <1>5, <1>6 DEF StoreInv

(* The shielded state is written. *)
LEMMA RenameZswapStep ==
    ASSUME StoreInv, RenameZswap
    PROVE  StoreInv'
<1>1. /\ save.st = "zswap" /\ dir' = [dir EXCEPT !.zswap[save.gen] = saves]
      /\ save' = [save EXCEPT !.st = "sync_zswap"]
      /\ synced' = synced /\ saves' = saves /\ kept' = kept
      BY DEF RenameZswap, Rename
<1>2. /\ save.prev = dir.meta.gen /\ save.gen = dir.meta.gen + 1 /\ save.gen <= saves
      /\ dir.meta.snapshot < saves /\ save \in Save /\ save.gen \in Gens /\ dir.meta.gen \in Nat
      /\ synced.meta.gen <= dir.meta.gen /\ synced.meta.gen \in Nat
      BY <1>1, Parts DEF StoreInv, Progressed, Before
<1>3. saves \in Snapshots
      BY <1>2, Parts DEF Snapshots, Gens
<1>4. /\ dir' \in Directory /\ dir'.meta = dir.meta /\ dir'.dust = dir.dust
      /\ dir'.zswap = [dir.zswap EXCEPT ![save.gen] = saves]
      /\ dir.zswap \in [Gens -> Snapshots \cup {Absent}]
      BY <1>1, <1>2, <1>3, Parts DEF Directory
<1>5. dir'.zswap[save.gen] = saves /\ \A g \in Gens \ {save.gen} : dir'.zswap[g] = dir.zswap[g]
      BY <1>2, <1>4
<1>6. save' \in Save /\ save'.st = "sync_zswap" /\ save'.gen = save.gen /\ save'.prev = save.prev
      BY <1>1, <1>2 DEF Save, Phases
<1>7. StoreTypeOK'
      BY <1>1, <1>4, <1>6, Parts DEF StoreTypeOK
<1>8. Progressed'
      BY <1>1, <1>2, <1>4, <1>5, <1>6 DEF Progressed, Before, After
<1>9. /\ dir.meta # NoMeta => dir.meta.gen \in Gens \ {save.gen}
      /\ synced.meta # NoMeta => synced.meta.gen \in Gens \ {save.gen}
      BY <1>2, Parts DEF Gens
<1>10. Backed(dir.meta)' /\ Backed(synced.meta)'
      BY <1>1, <1>4, <1>5, <1>9 DEF StoreInv, Backed
<1> QED BY <1>1, <1>4, <1>7, <1>8, <1>10 DEF StoreInv

(* The Dust state is written. *)
LEMMA RenameDustStep ==
    ASSUME StoreInv, RenameDust
    PROVE  StoreInv'
<1>1. /\ save.st = "dust" /\ dir' = [dir EXCEPT !.dust[save.gen] = saves]
      /\ save' = [save EXCEPT !.st = "sync_dust"]
      /\ synced' = synced /\ saves' = saves /\ kept' = kept
      BY DEF RenameDust, Rename
<1>2. /\ save.prev = dir.meta.gen /\ save.gen = dir.meta.gen + 1 /\ save.gen <= saves
      /\ dir.meta.snapshot < saves /\ save \in Save /\ save.gen \in Gens /\ dir.meta.gen \in Nat
      /\ synced.meta.gen <= dir.meta.gen /\ synced.meta.gen \in Nat
      /\ dir.zswap[save.gen] = saves /\ synced.zswap[save.gen] = saves
      BY <1>1, Parts DEF StoreInv, Progressed, Before
<1>3. saves \in Snapshots
      BY <1>2, Parts DEF Snapshots, Gens
<1>4. /\ dir' \in Directory /\ dir'.meta = dir.meta /\ dir'.zswap = dir.zswap
      /\ dir'.dust = [dir.dust EXCEPT ![save.gen] = saves]
      /\ dir.dust \in [Gens -> Snapshots \cup {Absent}]
      BY <1>1, <1>2, <1>3, Parts DEF Directory
<1>5. dir'.dust[save.gen] = saves /\ \A g \in Gens \ {save.gen} : dir'.dust[g] = dir.dust[g]
      BY <1>2, <1>4
<1>6. save' \in Save /\ save'.st = "sync_dust" /\ save'.gen = save.gen /\ save'.prev = save.prev
      BY <1>1, <1>2 DEF Save, Phases
<1>7. StoreTypeOK'
      BY <1>1, <1>4, <1>6, Parts DEF StoreTypeOK
<1>8. Progressed'
      BY <1>1, <1>2, <1>4, <1>5, <1>6 DEF Progressed, Before, After
<1>9. /\ dir.meta # NoMeta => dir.meta.gen \in Gens \ {save.gen}
      /\ synced.meta # NoMeta => synced.meta.gen \in Gens \ {save.gen}
      BY <1>2, Parts DEF Gens
<1>10. Backed(dir.meta)' /\ Backed(synced.meta)'
      BY <1>1, <1>4, <1>5, <1>9 DEF StoreInv, Backed
<1> QED BY <1>1, <1>4, <1>7, <1>8, <1>10 DEF StoreInv

(* The metadata commits the save. *)
LEMMA RenameMetadataStep ==
    ASSUME StoreInv, RenameMetadata
    PROVE  StoreInv'
<1>1. /\ save.st = "metadata" /\ dir' = [dir EXCEPT !.meta = [gen |-> save.gen, snapshot |-> saves]]
      /\ save' = [save EXCEPT !.st = "sync_metadata"]
      /\ synced' = synced /\ saves' = saves /\ kept' = kept
      BY DEF RenameMetadata, Rename
<1>2. /\ save.prev = dir.meta.gen /\ save.gen = dir.meta.gen + 1 /\ save.gen <= saves
      /\ dir.meta.snapshot < saves /\ save \in Save /\ save.gen \in Gens /\ dir.meta.gen \in Nat
      /\ synced.meta.gen <= dir.meta.gen /\ synced.meta.gen \in Nat
      /\ dir.zswap[save.gen] = saves /\ synced.zswap[save.gen] = saves
      /\ dir.dust[save.gen] = saves /\ synced.dust[save.gen] = saves
      /\ dir.meta.snapshot \in Nat /\ kept <= dir.meta.snapshot /\ saves \in 0..MaxSaves /\ kept \in Nat
      BY <1>1, Parts DEF StoreInv, Progressed, Before
<1>3. saves \in Snapshots
      BY <1>2 DEF Snapshots, Gens
<1>4. /\ dir' \in Directory /\ dir'.zswap = dir.zswap /\ dir'.dust = dir.dust
      /\ dir'.meta = [gen |-> save.gen, snapshot |-> saves]
      BY <1>1, <1>2, <1>3, Parts DEF Directory
<1>6. save' \in Save /\ save'.st = "sync_metadata" /\ save'.gen = save.gen /\ save'.prev = save.prev
      BY <1>1, <1>2 DEF Save, Phases
<1>7. StoreTypeOK'
      BY <1>1, <1>4, <1>6, Parts DEF StoreTypeOK
<1>8. Progressed'
      BY <1>1, <1>2, <1>4, <1>6 DEF Progressed, Before, After
<1>10. Backed(dir.meta)' /\ Backed(synced.meta)'
      BY <1>1, <1>2, <1>4 DEF StoreInv, Backed
<1>11. /\ synced'.meta.gen <= dir'.meta.gen /\ dir'.meta.gen <= saves' /\ dir'.meta.snapshot <= saves'
       /\ kept' <= dir'.meta.snapshot
      BY <1>1, <1>2, <1>4
<1> QED BY <1>1, <1>7, <1>8, <1>10, <1>11 DEF StoreInv

(* The directory reaches the disk. *)
LEMMA SyncStep ==
    ASSUME StoreInv, Sync
    PROVE  StoreInv'
<1>1. /\ save.st \in {"sync_zswap", "sync_dust", "sync_metadata"}
      /\ synced' = dir /\ dir' = dir /\ saves' = saves /\ kept' = kept
      /\ save' = [save EXCEPT !.st = AfterSync[save.st]]
      BY DEF Sync, SyncDir, AfterSync
<1>2. AfterSync[save.st] = IF save.st = "sync_zswap" THEN "dust"
                           ELSE IF save.st = "sync_dust" THEN "metadata" ELSE "clean_zswap"
      BY <1>1 DEF AfterSync
<1>3. /\ save' \in Save /\ save'.gen = save.gen /\ save'.prev = save.prev
      /\ save'.st = IF save.st = "sync_zswap" THEN "dust"
                    ELSE IF save.st = "sync_dust" THEN "metadata" ELSE "clean_zswap"
      BY <1>1, <1>2, Parts DEF Save, Phases
<1>4. StoreTypeOK'
      BY <1>1, <1>3, Parts DEF StoreTypeOK
<1>5. Progressed'
      BY <1>1, <1>3 DEF StoreInv, Progressed, Before, After
<1>6. Backed(dir.meta)' /\ Backed(synced.meta)'
      BY <1>1 DEF StoreInv, Backed
<1> QED BY <1>1, <1>4, <1>5, <1>6, Parts DEF StoreInv

(* A save ends where it is. *)
LEMMA EndStep ==
    ASSUME StoreInv, save' = NoSave, UNCHANGED <<dir, synced, saves>>, kept' \in 0..MaxSaves,
           kept' <= dir.meta.snapshot, kept' <= synced.meta.snapshot
    PROVE  StoreInv'
<1>1. StoreTypeOK'
      BY Parts DEF StoreTypeOK
<1>2. Progressed'
      BY DEF Progressed, NoSave, Before, After
<1>3. Backed(dir.meta)' /\ Backed(synced.meta)'
      BY DEF StoreInv, Backed
<1> QED BY <1>1, <1>2, <1>3 DEF StoreInv

(* What a removal takes is not of the generation that the metadata names.  *)
LEMMA CleanKeeps ==
    ASSUME StoreInv, save.st \in {"clean_zswap", "clean_dust"},
           dir' \in Directory, dir'.meta = dir.meta,
           \A g \in Gens \ {save.prev} : dir'.zswap[g] = dir.zswap[g] /\ dir'.dust[g] = dir.dust[g],
           UNCHANGED <<synced, saves>>
    PROVE  /\ Backed(dir.meta)' /\ Backed(synced.meta)'
           /\ dir.meta = [gen |-> save.gen, snapshot |-> saves] /\ synced.meta = dir.meta
<1>1. /\ dir.meta = [gen |-> save.gen, snapshot |-> saves] /\ synced.meta = dir.meta
      /\ save.gen = save.prev + 1
      BY DEF StoreInv, Progressed, After
<1>2. save.gen \in Gens /\ save.prev \in Nat
      BY Parts DEF Save
<1>3. dir.meta.gen \in Gens \ {save.prev}
      BY <1>1, <1>2
<1>4. Backed(dir.meta)
      BY DEF StoreInv
<1>5. synced' = synced /\ dir'.meta = dir.meta /\ synced.meta = dir.meta
      BY <1>1
<1> QED BY <1>1, <1>3, <1>4, <1>5 DEF Backed

(* The shielded state of the generation before is removed, or is not. *)
LEMMA CleanZswapStep ==
    ASSUME StoreInv, CleanZswap
    PROVE  StoreInv'
<1>1. /\ save.st = "clean_zswap" /\ save' = [save EXCEPT !.st = "clean_dust"]
      /\ dir' \in {dir} \cup {[dir EXCEPT !.zswap[g] = Absent] : g \in {save.prev} \cap Gens}
      /\ UNCHANGED <<synced, saves, kept>>
      BY DEF CleanZswap, MayClean
<1>2. /\ dir' \in Directory /\ dir'.meta = dir.meta
      /\ \A g \in Gens \ {save.prev} : dir'.zswap[g] = dir.zswap[g] /\ dir'.dust[g] = dir.dust[g]
      <2>1. CASE dir' = dir
            BY <2>1, Parts
      <2>2. CASE save.prev \in Gens /\ dir' = [dir EXCEPT !.zswap[save.prev] = Absent]
            BY <2>2, Parts DEF Directory
      <2> QED BY <1>1, <2>1, <2>2
<1>3. /\ Backed(dir.meta)' /\ Backed(synced.meta)'
      /\ dir.meta = [gen |-> save.gen, snapshot |-> saves] /\ synced.meta = dir.meta
      BY <1>1, <1>2, CleanKeeps
<1>4. save' \in Save /\ save'.st = "clean_dust" /\ save'.gen = save.gen /\ save'.prev = save.prev
      BY <1>1, Parts DEF Save, Phases
<1>5. StoreTypeOK'
      BY <1>1, <1>2, <1>4, Parts DEF StoreTypeOK
<1>6. save.gen = save.prev + 1
      BY <1>1 DEF StoreInv, Progressed, After
<1>7. Progressed'
      BY <1>1, <1>2, <1>3, <1>4, <1>6 DEF Progressed, Before, After
<1> QED BY <1>1, <1>2, <1>3, <1>5, <1>7 DEF StoreInv

(* The Dust state of the generation before is removed, or is not, and the  *)
(* save returns.                                                           *)
LEMMA CleanDustStep ==
    ASSUME StoreInv, CleanDust
    PROVE  StoreInv'
<1>1. /\ save.st = "clean_dust" /\ save' = NoSave
      /\ dir' \in {dir} \cup {[dir EXCEPT !.dust[g] = Absent] : g \in {save.prev} \cap Gens}
      /\ kept' = saves /\ UNCHANGED <<synced, saves>>
      BY DEF CleanDust
<1>2. /\ dir' \in Directory /\ dir'.meta = dir.meta
      /\ \A g \in Gens \ {save.prev} : dir'.zswap[g] = dir.zswap[g] /\ dir'.dust[g] = dir.dust[g]
      <2>1. CASE dir' = dir
            BY <2>1, Parts
      <2>2. CASE save.prev \in Gens /\ dir' = [dir EXCEPT !.dust[save.prev] = Absent]
            BY <2>2, Parts DEF Directory
      <2> QED BY <1>1, <2>1, <2>2
<1>3. /\ Backed(dir.meta)' /\ Backed(synced.meta)'
      /\ dir.meta = [gen |-> save.gen, snapshot |-> saves] /\ synced.meta = dir.meta
      BY <1>1, <1>2, CleanKeeps
<1>4. StoreTypeOK'
      BY <1>1, <1>2, Parts DEF StoreTypeOK
<1>5. Progressed'
      BY <1>1 DEF Progressed, NoSave, Before, After
<1>6. dir.meta.snapshot = saves /\ synced.meta.snapshot = saves /\ saves \in Nat
      BY <1>3, Parts
<1> QED BY <1>1, <1>2, <1>3, <1>4, <1>5, <1>6 DEF StoreInv

(* What is left after a loss of power has the files its metadata names.    *)
LEMMA LosePowerStep ==
    ASSUME StoreInv, LosePower
    PROVE  StoreInv'
<1>1. PICK z \in SUBSET Gens, u \in SUBSET Gens, m \in {dir.meta, synced.meta} :
          dir' = [zswap |-> [g \in Gens |-> IF g \in z THEN dir.zswap[g] ELSE synced.zswap[g]],
                  dust  |-> [g \in Gens |-> IF g \in u THEN dir.dust[g] ELSE synced.dust[g]],
                  meta  |-> m]
      BY DEF LosePower, Images
<1>2. save' = NoSave /\ synced' = dir' /\ saves' = saves /\ kept' = kept
      BY DEF LosePower
<1>3. /\ dir.zswap \in [Gens -> Snapshots \cup {Absent}] /\ dir.dust \in [Gens -> Snapshots \cup {Absent}]
      /\ synced.zswap \in [Gens -> Snapshots \cup {Absent}]
      /\ synced.dust \in [Gens -> Snapshots \cup {Absent}]
      /\ m \in [gen: Gens, snapshot: Snapshots] \cup {NoMeta}
      BY Parts DEF Directory
<1>4. dir' \in Directory
      BY <1>1, <1>3 DEF Directory
<1>5. dir'.meta = m /\ (m # NoMeta => m.gen \in Gens)
      BY <1>1, <1>3
<1>6. \A g \in Gens :
          /\ dir'.zswap[g] \in {dir.zswap[g], synced.zswap[g]}
          /\ dir'.dust[g] \in {dir.dust[g], synced.dust[g]}
      BY <1>1
<1>7. Backed(m)
      BY DEF StoreInv
<1>8. Backed(dir.meta)' /\ Backed(synced.meta)'
      BY <1>2, <1>5, <1>6, <1>7 DEF Backed
<1>9. StoreTypeOK'
      BY <1>2, <1>4, Parts DEF StoreTypeOK
<1>10. Progressed'
      BY <1>2 DEF Progressed, NoSave, Before, After
<1>11. synced.meta.gen <= saves
      BY Parts DEF StoreInv
<1>12. m.gen <= saves /\ kept <= m.snapshot /\ m.gen \in Nat
      BY <1>11, Parts DEF StoreInv
<1>13. m.snapshot <= saves
      BY DEF StoreInv
<1> QED BY <1>2, <1>5, <1>8, <1>9, <1>10, <1>12, <1>13 DEF StoreInv

(* Nothing is there before the first save. *)
LEMMA InitStep ==
    ASSUME InitStore
    PROVE  StoreInv
<1>1. /\ dir.meta = NoMeta /\ synced = dir /\ save = NoSave /\ saves = 0 /\ kept = 0
      /\ NoMeta.gen = 0 /\ NoMeta.snapshot = 0 /\ MaxSaves \in Nat
      BY StoreAssumption DEF InitStore, NoMeta, Absent
<1>2. dir \in Directory
      BY DEF InitStore, Directory
<1>3. StoreTypeOK
      BY <1>1, <1>2 DEF StoreTypeOK
<1>4. Progressed
      BY <1>1 DEF Progressed, NoSave, Before, After
<1>5. Backed(dir.meta) /\ Backed(synced.meta)
      BY <1>1 DEF Backed
<1> QED BY <1>1, <1>3, <1>4, <1>5 DEF StoreInv

(* Every step keeps the invariant, where a metadata that is there can be read. *)
LEMMA NextStep ==
    ASSUME StoreInv, ~ReadsFail, [NextStore]_storeVars
    PROVE  StoreInv'
<1>1. CASE BeginSave
      BY <1>1, BeginSaveStep
<1>2. CASE RenameZswap
      BY <1>2, RenameZswapStep
<1>3. CASE RenameDust
      BY <1>3, RenameDustStep
<1>4. CASE RenameMetadata
      BY <1>4, RenameMetadataStep
<1>5. CASE Sync
      BY <1>5, SyncStep
<1>6. CASE SaveFails \/ Stop
      <2>1. save' = NoSave /\ UNCHANGED <<dir, synced, saves, kept>>
            BY <1>6 DEF SaveFails, Stop
      <2>2. kept' \in 0..MaxSaves /\ kept' <= dir.meta.snapshot /\ kept' <= synced.meta.snapshot
            BY <2>1, Parts DEF StoreInv
      <2> QED BY <2>1, <2>2, EndStep
<1>7. CASE CleanZswap
      BY <1>7, CleanZswapStep
<1>8. CASE CleanDust
      BY <1>8, CleanDustStep
<1>9. CASE LosePower
      BY <1>9, LosePowerStep
<1>10. CASE UNCHANGED storeVars
      BY <1>10 DEF storeVars, StoreInv, StoreTypeOK, Progressed, Backed
<1> QED BY <1>1, <1>2, <1>3, <1>4, <1>5, <1>6, <1>7, <1>8, <1>9, <1>10 DEF NextStore

-----------------------------------------------------------------------------
(* The theorems *)

(* The metadata, as the process and as the disk has it, names two state    *)
(* files that are there and are of its own snapshot, at every step of a    *)
(* save, after a failure, a stop or a loss of power.  (save_snapshot, when *)
(* a metadata.json that is there can be read.)                             *)
THEOREM StoreIsSound ==
    ASSUME ~ReadsFail
    PROVE  StoreSpec => []StoreInv
<1>1. InitStore => StoreInv
      BY InitStep
<1>2. StoreInv /\ [NextStore]_storeVars => StoreInv'
      BY NextStep
<1> QED BY <1>1, <1>2, PTL DEF StoreSpec

(* Every variable of the store keeps its type.                             *)
THEOREM TypeCorrect ==
    ASSUME ~ReadsFail
    PROVE  StoreSpec => []StoreTypeOK
<1>1. StoreInv => StoreTypeOK
      BY DEF StoreInv
<1> QED BY <1>1, StoreIsSound, PTL

(* A load returns the snapshot that the metadata names. *)
LEMMA LoadsWhole ==
    ASSUME StoreInv
    PROVE  /\ LoadedFrom(dir) = dir.meta.snapshot /\ LoadedFrom(synced) = synced.meta.snapshot
           /\ LoadedFrom(dir) \in Nat /\ LoadedFrom(synced) \in Nat
<1>1. IsWhole(dir) /\ IsWhole(synced)
      BY DEF StoreInv, Backed, IsWhole
<1> QED BY <1>1, Parts DEF LoadedFrom

(* A snapshot whose save returned Ok is what a load finds, or a later one  *)
(* is, whatever fails, stops or loses power afterwards.                    *)
THEOREM KeptIsNotLost ==
    ASSUME ~ReadsFail
    PROVE  StoreSpec => []KeptSurvives
<1>1. StoreInv => KeptSurvives
      BY LoadsWhole, Parts DEF StoreInv, KeptSurvives
<1> QED BY <1>1, StoreIsSound, PTL

-----------------------------------------------------------------------------
(* The store implements the atomic one *)

(* Nothing is loaded where nothing was saved. *)
LEMMA StartsEmpty ==
    ASSUME InitStore
    PROVE  Store!Init
<1>1. LoadedFrom(dir) = dir.meta.snapshot /\ LoadedFrom(synced) = synced.meta.snapshot
      BY InitStep, LoadsWhole
<1> QED BY <1>1 DEF InitStore, NoMeta, Absent, Store!Init

(* A step that leaves both metadata alone leaves what is loaded alone. *)
LEMMA SameMetaStutters ==
    ASSUME StoreInv, StoreInv', dir'.meta = dir.meta, synced'.meta = synced.meta
    PROVE  UNCHANGED Store!vars
<1>1. LoadedFrom(dir) = dir.meta.snapshot /\ LoadedFrom(synced) = synced.meta.snapshot
      BY LoadsWhole
<1>2. LoadedFrom(dir)' = dir'.meta.snapshot /\ LoadedFrom(synced)' = synced'.meta.snapshot
      <2>1. IsWhole(dir)' /\ IsWhole(synced)'
            BY DEF StoreInv, Backed, IsWhole
      <2> QED BY <2>1 DEF LoadedFrom
<1> QED BY <1>1, <1>2 DEF Store!vars

(* Every step of the directory is a step of the atomic store or stutters:  *)
(* the rename of the metadata commits, a sync settles.                     *)
LEMMA StepsRefine ==
    ASSUME StoreInv, StoreInv', [NextStore]_storeVars
    PROVE  [Store!Next]_(Store!vars)
<1>1. LoadedFrom(dir) = dir.meta.snapshot /\ LoadedFrom(synced) = synced.meta.snapshot
      BY LoadsWhole
<1>2. LoadedFrom(dir)' = dir'.meta.snapshot /\ LoadedFrom(synced)' = synced'.meta.snapshot
      <2>1. IsWhole(dir)' /\ IsWhole(synced)'
            BY DEF StoreInv, Backed, IsWhole
      <2> QED BY <2>1 DEF LoadedFrom
<1>3. CASE RenameMetadata
      <2>1. /\ save.st = "metadata" /\ synced' = synced
            /\ dir' = [dir EXCEPT !.meta = [gen |-> save.gen, snapshot |-> saves]]
            BY <1>3 DEF RenameMetadata, Rename
      <2>2. dir.meta.snapshot < saves
            BY <2>1 DEF StoreInv, Progressed, Before
      <2>3. dir'.meta.snapshot = saves
            BY <2>1, Parts DEF Directory
      <2>4. LoadedFrom(dir)' > LoadedFrom(dir) /\ LoadedFrom(synced)' = LoadedFrom(synced)
            BY <1>1, <1>2, <2>1, <2>2, <2>3, Parts
      <2> QED BY <2>4 DEF Store!Next, Store!Commit
<1>4. CASE Sync
      <2>1. synced' = dir /\ dir' = dir
            BY <1>4 DEF Sync, SyncDir
      <2> QED BY <1>1, <1>2, <2>1 DEF Store!Next, Store!Settle
<1>5. CASE LosePower
      <2>1. dir'.meta \in {dir.meta, synced.meta} /\ synced' = dir'
            BY <1>5 DEF LosePower, Images
      <2> QED BY <1>1, <1>2, <2>1 DEF Store!Next, Store!LosePower
<1>6. CASE RenameZswap \/ RenameDust
      <2>1. dir \in Directory
            BY Parts
      <2>2. dir'.meta = dir.meta /\ synced' = synced
            BY <1>6, <2>1 DEF RenameZswap, RenameDust, Rename, Directory
      <2> QED BY <2>2, SameMetaStutters
<1>7. CASE CleanZswap \/ CleanDust
      <2>1. dir \in Directory
            BY Parts
      <2>2. dir'.meta = dir.meta /\ synced' = synced
            BY <1>7, <2>1 DEF CleanZswap, CleanDust, Directory
      <2> QED BY <2>2, SameMetaStutters
<1>8. CASE BeginSave \/ SaveFails \/ Stop \/ UNCHANGED storeVars
      <2>1. dir' = dir /\ synced' = synced
            BY <1>8 DEF BeginSave, SaveFails, Stop, storeVars
      <2> QED BY <2>1, SameMetaStutters
<1> QED BY <1>3, <1>4, <1>5, <1>6, <1>7, <1>8 DEF NextStore

(* The directory is an atomic store of snapshots: a load returns one whole *)
(* snapshot, and that changes at the rename of the metadata and at a loss  *)
(* of power, which can only bring back what was not settled.               *)
THEOREM StoreIsAtomic ==
    ASSUME ~ReadsFail
    PROVE  StoreSpec => ImplementsStore
<1>1. InitStore => Store!Init
      BY StartsEmpty
<1>2. StoreInv /\ StoreInv' /\ [NextStore]_storeVars => [Store!Next]_(Store!vars)
      BY StepsRefine
<1> QED BY <1>1, <1>2, StoreIsSound, PTL DEF StoreSpec, ImplementsStore, Store!Spec
=============================================================================
