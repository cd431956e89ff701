---------------------------- MODULE Maintenance ----------------------------
(***************************************************************************)
(* Contract maintenance: a k-of-n committee changes a contract's verifier  *)
(* keys and its own membership by signed updates that carry a counter.     *)
(* Several coordinators prepare updates at once against the state they     *)
(* read, collect the members' signatures out of band, check them, build    *)
(* for the generation of the wallet and submit.  The chain moves between   *)
(* any two of those steps, and may cross its hard fork.                    *)
(*                                                                         *)
(* A signature is the pair of its key and what it covers.  The chain's own *)
(* rules, from docs/contract-maintenance-governance.md, are external: the  *)
(* update is refused when malformed and applied whole or not at all.       *)
(***************************************************************************)
EXTENDS Naturals, FiniteSetsExt, SequencesExt

CONSTANTS
  Coordinators,   \* the callers of Contract::maintenance
  Keys,           \* the signing keys of every possible committee member
  Circuits,       \* the contract's entry points
  Candidates,     \* the authorities a caller asks for: [committee, threshold]
  Batches,        \* the batches of operations a caller asks for
  MaxSignatures,  \* the most signatures attached to one update
  MaxCounter,     \* where the authority's counter stops being explored
  MaxTxs          \* the most updates that reach the chain

VARIABLES
  contract,    \* the chain's copy: its authority and the slot of each key
  gen,         \* the ledger generation of the chain
  walletGen,   \* the generation the wallet's state is in, which builds use
  job,         \* per coordinator, where its update is
  pool,        \* the submitted updates the chain has not decided
  decided      \* what the chain decided of each update, and why

maintenanceVars == <<contract, gen, walletGen, job, pool, decided>>

Gens  == {8, 9}
Slots == {"V3", "V4"}

(***************************************************************************)
(* A key of version v6 goes to the slot V3 and is accepted everywhere; one *)
(* of version v7 goes to V4, and only from ledger 9 on.                    *)
(***************************************************************************)
AcceptedKey(slot, g) == slot = "V4" => g = 9

NoOne == [committee |-> <<>>, threshold |-> 1]

Authority(candidate, counter) ==
  [committee |-> candidate.committee, threshold |-> candidate.threshold,
   counter |-> counter]

\* A plausible slip: duplicates pass.
ValidateCommitteeLax(candidate) ==
  /\ candidate.committee # <<>>
  /\ candidate.threshold # 0
  /\ candidate.threshold <= Len(candidate.committee)

(***************************************************************************)
(* A committee must be non-empty, its threshold reachable and at least 1,  *)
(* and its members distinct.                                               *)
(***************************************************************************)
ValidateCommittee(candidate) ==
  /\ candidate.committee # <<>>
  /\ candidate.threshold # 0
  /\ candidate.threshold <= Len(candidate.committee)
  /\ IsInjective(candidate.committee)

(***************************************************************************)
(* The operations of one update, as the builder collects them.  A prepare   *)
(* with none is refused.                                                   *)
(***************************************************************************)
Ops ==
  [kind : {"insert"}, circuit : Circuits, slot : Slots]
    \cup [kind : {"remove"}, circuit : Circuits]
    \cup [kind : {"replace"}, to : Candidates]
    \cup {[kind |-> "retire"]}

ASSUME MaintenanceAssumption ==
  /\ MaxSignatures \in Nat
  /\ MaxCounter \in Nat \ {0}
  /\ MaxTxs \in Nat \ {0}
  /\ \A c \in Candidates : /\ c.committee \in Seq(Keys)
                           /\ c.threshold \in Nat
  /\ \A batch \in Batches : batch # <<>> /\ batch \in Seq(Ops)

IsReplace(change) == change.kind \in {"replace", "retire"}

(***************************************************************************)
(* Simulate the key operations in order: an insert needs the circuit       *)
(* absent, a removal needs it present.                                     *)
(***************************************************************************)
PresentBefore(state, batch, i, circuit) ==
  LET earlier == {j \in 1..(i - 1) : /\ ~IsReplace(batch[j])
                                     /\ batch[j].circuit = circuit}
  IN IF earlier = {} THEN circuit \in DOMAIN state.operations
                     ELSE batch[Max(earlier)].kind = "insert"

\* A plausible slip: each operation is checked against the fetched state alone.
ValidateVkSequenceAlone(state, batch) ==
  \A i \in DOMAIN batch :
    ~IsReplace(batch[i]) =>
      (batch[i].kind = "insert" <=> batch[i].circuit \notin DOMAIN state.operations)

ValidateVkSequence(state, batch) ==
  \A i \in DOMAIN batch :
    ~IsReplace(batch[i]) =>
      (batch[i].kind = "insert"
         <=> ~PresentBefore(state, batch, i, batch[i].circuit))

ValidateReplaces(batch) ==
  /\ Cardinality({i \in DOMAIN batch : IsReplace(batch[i])}) <= 1
  /\ \A i \in DOMAIN batch :
       batch[i].kind = "replace" => ValidateCommittee(batch[i].to)

(***************************************************************************)
(* A state served by the chain is held in the build's generation when it   *)
(* converts: ledger 8 cannot hold a key of slot V4.                        *)
(***************************************************************************)
NativeState(state, g) ==
  \A c \in DOMAIN state.operations : AcceptedKey(state.operations[c], g)

(***************************************************************************)
(* A removal names the slot its key is in: the key that an earlier insert  *)
(* of the same update put there, else the one the chain holds.             *)
(***************************************************************************)
RemovedSlot(state, batch, i) ==
  LET inserts == {j \in 1..(i - 1) : /\ batch[j].kind = "insert"
                                     /\ batch[j].circuit = batch[i].circuit}
  IN IF inserts = {} THEN state.operations[batch[i].circuit]
                     ELSE batch[Max(inserts)].slot

SingleReplaceAuthority(candidate, counter) ==
  [kind |-> "replace", authority |-> Authority(candidate, counter + 1)]

\* A plausible slip: a retired authority that no signature at all satisfies.
RetiredOpen == [committee |-> <<>>, threshold |-> 0]

Retired == NoOne

Single(state, batch, i) ==
  LET change == batch[i] IN
  CASE change.kind = "insert"  -> change
    [] change.kind = "remove"  -> [kind |-> "remove", circuit |-> change.circuit,
                               slot |-> RemovedSlot(state, batch, i)]
    [] change.kind = "replace" -> SingleReplaceAuthority(change.to, state.authority.counter)
    [] change.kind = "retire"  -> SingleReplaceAuthority(Retired, state.authority.counter)

(***************************************************************************)
(* The unsigned update for generation g, which is also what the members    *)
(* sign: the payload differs per generation, and carries the counter.      *)
(***************************************************************************)
PrepareUpdate(state, batch, g) ==
  [gen |-> g, counter |-> state.authority.counter,
   singles |-> [i \in DOMAIN batch |-> Single(state, batch, i)]]

Acceptable(state, batch, g) ==
  /\ NativeState(state, g)
  /\ \A i \in DOMAIN batch : batch[i].kind = "insert" => AcceptedKey(batch[i].slot, g)

(***************************************************************************)
(* The collected signatures, each with the committee position it claims.   *)
(* Every position is in range and used once, every signature verifies over *)
(* the payload, and there are enough of them.                              *)
(***************************************************************************)
Verifies(key, payload, sig) == sig.key = key /\ sig.over = payload

ValidateSignatures(payload, signatures, authority) ==
  /\ \A s \in DOMAIN signatures :
       /\ signatures[s].index \in DOMAIN authority.committee
       /\ Verifies(authority.committee[signatures[s].index], payload, signatures[s])
  /\ \A s, t \in DOMAIN signatures :
       signatures[s].index = signatures[t].index => s = t
  /\ Len(signatures) >= authority.threshold

---------------------------------------------------------------------------
(***************************************************************************)
(* The chain's rules for an update, external to the SDK.  An update whose  *)
(* counter is no longer the authority's fails; whether it is refused or    *)
(* lands as a partial success is left open.                                *)
(***************************************************************************)
CommitteeSigned(tx) ==
  LET authority == contract.authority
      indices   == {s.index : s \in Range(tx.signatures)} IN
  /\ Cardinality(indices) = Len(tx.signatures)
  /\ indices \subseteq DOMAIN authority.committee
  /\ \A s \in Range(tx.signatures) :
       Verifies(authority.committee[s.index], tx.update, s)
  /\ Len(tx.signatures) >= authority.threshold

WellFormed(tx) ==
  /\ tx.update.gen = gen
  /\ CommitteeSigned(tx)
  /\ \A single \in Range(tx.update.singles) :
       single.kind = "replace" => single.authority.counter = tx.update.counter + 1

Current(tx) == tx.update.counter = contract.authority.counter

\* A step of the update can run in the state an earlier step left.
Applicable(state, single) ==
  CASE single.kind = "insert"  -> single.circuit \notin DOMAIN state.operations
    [] single.kind = "remove"  -> /\ single.circuit \in DOMAIN state.operations
                                  /\ state.operations[single.circuit] = single.slot
    [] single.kind = "replace" -> TRUE

\* The slots with one more key.
Inserted(operations, circuit, slot) ==
  [c \in DOMAIN operations \cup {circuit} |->
     IF c = circuit THEN slot ELSE operations[c]]

Applied(state, single) ==
  CASE single.kind = "insert" ->
         [state EXCEPT !.operations = Inserted(@, single.circuit, single.slot)]
    [] single.kind = "remove" ->
         [state EXCEPT !.operations = Restrict(@, DOMAIN @ \ {single.circuit})]
    [] single.kind = "replace" -> [state EXCEPT !.authority = single.authority]

\* The counter is raised first, whatever becomes of the steps.
Started(state) ==
  [ok |-> TRUE, state |-> [state EXCEPT !.authority.counter = @ + 1]]

Stepped(run, single) ==
  IF run.ok /\ Applicable(run.state, single)
  THEN [run EXCEPT !.state = Applied(@, single)]
  ELSE [run EXCEPT !.ok = FALSE]

\* The update, step by step: whether each step could run, and the last state.
RunSingles(state, singles) ==
  LET run[i \in 0..Len(singles)] ==
        IF i = 0 THEN Started(state) ELSE Stepped(run[i - 1], singles[i])
  IN run

ApplySingles(state, singles) == RunSingles(state, singles)[Len(singles)]

---------------------------------------------------------------------------
NoContract == [operations |-> <<>>, authority |-> Authority(NoOne, 0)]
Idle == [phase |-> "idle"]

InitMaintenance ==
  /\ contract = NoContract
  /\ gen = 8
  /\ walletGen = 8
  /\ job = [m \in Coordinators |-> Idle]
  /\ pool = {}
  /\ decided = {}

(***************************************************************************)
(* The deploy stamps the committee the caller asked for, once it is valid, *)
(* and leaves the default authority, which nobody satisfies, otherwise.    *)
(* It registers some of the circuits.                                      *)
(***************************************************************************)
DeployAuthority ==
  {Authority(c, 0) : c \in {d \in Candidates : ValidateCommittee(d)}}
    \cup {Authority(NoOne, 0)}

Deploy ==
  /\ contract = NoContract
  /\ \E authority \in DeployAuthority, registered \in SUBSET Circuits :
       \E operations \in [registered -> {s \in Slots : AcceptedKey(s, gen)}] :
         contract' = [operations |-> operations, authority |-> authority]
  /\ UNCHANGED <<gen, walletGen, job, pool, decided>>

Fork ==
  /\ gen = 8
  /\ gen' = 9
  /\ UNCHANGED <<contract, walletGen, job, pool, decided>>

\* A resync carries the wallet's state across the fork, some time after it.
CrossWallet ==
  /\ walletGen # gen
  /\ walletGen' = gen
  /\ UNCHANGED <<contract, gen, job, pool, decided>>

(***************************************************************************)
(* prepare reads the contract's state at the best block and validates the  *)
(* batch against it.  Only then does it ask for the wallet's generation.   *)
(***************************************************************************)
PrepareRead(m, batch) ==
  /\ job[m] = Idle
  /\ contract # NoContract
  /\ ValidateVkSequence(contract, batch)
  /\ ValidateReplaces(batch)
  /\ job' = [job EXCEPT ![m] = [phase |-> "read", state |-> contract, batch |-> batch]]
  /\ UNCHANGED <<contract, gen, walletGen, pool, decided>>

PrepareBuild(m) ==
  /\ job[m].phase = "read"
  /\ LET state == job[m].state
         batch == job[m].batch IN
     job' = [job EXCEPT ![m] =
               IF Acceptable(state, batch, walletGen)
               THEN [phase |-> "prepared", update |-> PrepareUpdate(state, batch, walletGen),
                     authority |-> state.authority]
               ELSE Idle]
  /\ UNCHANGED <<contract, gen, walletGen, pool, decided>>

(***************************************************************************)
(* Members sign the bytes of an update some coordinator sent out, and each *)
(* answer is attached at a position, not always to that update.  Attaching *)
(* one touches nothing but the update in hand, so the attachments are      *)
(* chosen together with the submit; their order does not matter, and they  *)
(* are kept by position.                                                   *)
(***************************************************************************)
SentOut == {job[m].update : m \in {n \in Coordinators : job[n].phase = "prepared"}}

AddSignatures ==
  LET Answers == [index : 1..2, key : Keys, over : SentOut]
      SortedByIndex(q) == \A i \in 1..(Len(q) - 1) : q[i].index <= q[i + 1].index
  IN {q \in BoundedSeq(Answers, MaxSignatures) : SortedByIndex(q)}

(***************************************************************************)
(* Build and submit: the signatures are checked against the authority read *)
(* by prepare, and the update against the wallet's generation as it is     *)
(* now.  Either failure consumes the update.                               *)
(***************************************************************************)
Submit(m, signatures) ==
  /\ job[m].phase = "prepared"
  /\ Cardinality(pool) + Cardinality(decided) < MaxTxs
  /\ job[m].update.counter < MaxCounter
  /\ IF /\ ValidateSignatures(job[m].update, signatures, job[m].authority)
        /\ job[m].update.gen = walletGen
     THEN pool' = pool \cup {[update |-> job[m].update, signatures |-> signatures]}
     ELSE UNCHANGED pool
  /\ job' = [job EXCEPT ![m] = Idle]
  /\ UNCHANGED <<contract, gen, walletGen, decided>>

(***************************************************************************)
(* The chain decides an update.  What it knew then is kept beside the      *)
(* verdict: the authority in force, whether the world had moved since the  *)
(* prepare, and who had signed.  A transaction that never reaches a block  *)
(* is one the chain never decides.                                         *)
(***************************************************************************)
Decide(tx) ==
  LET moved  == ~Current(tx) \/ tx.update.gen # gen
      after  == ApplySingles(contract, tx.update.singles)
      Verdict(v) == decided' = decided \cup
        {[verdict |-> v, moved |-> moved, authority |-> contract.authority,
          signers |-> {s.key : s \in Range(tx.signatures)}]}
  IN
  /\ tx \in pool
  /\ pool' = pool \ {tx}
  /\ \/ /\ WellFormed(tx) /\ Current(tx) /\ after.ok
        /\ contract' = after.state
        /\ Verdict("applied")
     \/ /\ WellFormed(tx) /\ (~Current(tx) \/ ~after.ok)
        /\ UNCHANGED contract
        /\ Verdict("partial")
     \/ /\ ~WellFormed(tx) \/ ~Current(tx)
        /\ UNCHANGED contract
        /\ Verdict("refused")
  /\ UNCHANGED <<gen, walletGen, job>>

NextMaintenance ==
  \/ Deploy
  \/ Fork
  \/ CrossWallet
  \/ \E m \in Coordinators :
       \/ \E batch \in Batches : PrepareRead(m, batch)
       \/ PrepareBuild(m)
       \/ \E signatures \in AddSignatures : Submit(m, signatures)
  \/ \E tx \in pool : Decide(tx)

MaintenanceSpec == InitMaintenance /\ [][NextMaintenance]_maintenanceVars

---------------------------------------------------------------------------
\* The chain's copy of a contract.
Contract ==
  [operations : UNION {[registered -> Slots] : registered \in SUBSET Circuits},
   authority  : [committee : Seq(Keys), threshold : Nat, counter : Nat]]

\* Every part of the state has its shape, and the chain holds no verifier key
\* that its generation cannot verify, whichever generation built the update
\* that inserted it (accepted_key, prepare_update).
MaintenanceTypeOK ==
  /\ gen \in Gens /\ walletGen \in Gens /\ walletGen <= gen
  /\ contract \in Contract
  /\ contract.authority.counter <= MaxCounter
  /\ NativeState(contract, gen)
  /\ DOMAIN job = Coordinators
  /\ \A m \in Coordinators : job[m].phase \in {"idle", "read", "prepared"}
  /\ IsFiniteSet(pool) /\ IsFiniteSet(decided)
  /\ Cardinality(pool) + Cardinality(decided) <= MaxTxs

\* Through deploys, replacements and retirements the contract is governed by
\* distinct keys that can meet a threshold of at least one, or by nobody: it is
\* never bricked by a threshold out of reach, and never open to everyone
\* (validate_committee, set_maintenance_authority, single_replace_authority).
AuthorityIsSound ==
  LET authority == contract.authority IN
  \/ authority.committee = <<>> /\ authority.threshold = 1
  \/ authority.threshold \in 1..Cardinality(Range(authority.committee))

\* The checks made before the submit are the chain's: of the updates that reach
\* it, only one overtaken by another update or by the fork since its prepare
\* can fail.  A batch that passes validate_vk_sequence applies to the end, and
\* signatures that pass validate_signatures are accepted.
FailsOnlyWhenOvertaken ==
  \A d \in decided : d.verdict # "applied" => d.moved

\* Whatever was applied had the consent of as many distinct members of the
\* committee then in force as its threshold asks (validate_signatures with the
\* committee that prepare captured).
AppliedByAQuorum ==
  \A d \in decided : d.verdict = "applied" =>
    /\ d.signers \subseteq Range(d.authority.committee)
    /\ Cardinality(d.signers) >= d.authority.threshold
    /\ d.signers # {}

\* Once an authority is retired, or was never given, the verifier keys are
\* fixed for good: no update prepared before or after changes the contract
\* (retire_authority, the default authority).
RetiredIsFinal ==
  [][contract # NoContract /\ contract.authority.committee = <<>>
       => UNCHANGED contract]_maintenanceVars

===========================================================================
