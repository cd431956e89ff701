------------------------- MODULE MaintenanceProofs -------------------------
(***************************************************************************)
(* The committee of a contract is sound for good, whatever batches, keys   *)
(* and coordinators there are; an update that nothing overtook applies;    *)
(* what was applied had a quorum; and retirement is final.                 *)
(*                                                                         *)
(* The invariant ties every prepared and every submitted update to the     *)
(* contract: as long as the counter is the one it carries, it is what a    *)
(* validated batch gives on the contract as it is.  The counter grows with *)
(* every applied update, so the claim is either still about the same       *)
(* contract or about nothing.  That validate_vk_sequence simulates what    *)
(* the chain then does is an induction over the operations of the batch.   *)
(***************************************************************************)
EXTENDS Maintenance, NaturalsInduction, WellFoundedInduction, FiniteSetTheorems, SequenceTheorems, TLAPS

-----------------------------------------------------------------------------
(* Induction over sets of natural numbers, and counting. *)

(* Every non-empty set of natural numbers has a least element. *)
LEMMA LeastNat ==
    ASSUME NEW T \in SUBSET Nat, T # {}
    PROVE  \E n \in T : \A m \in T : n <= m
<1> DEFINE R == {ss \in Nat \X Nat : ss[1] < ss[2]}
<1>1. IsWellFoundedOn(R, Nat)
  BY NatLessThanWellFounded DEF OpToRel
<1>2. PICK n \in T : \A m \in T : ~ (<<m, n>> \in R)
  <2> HIDE DEF R
  <2>1. QED
    BY <1>1, WFMin
<1>3. \A m \in T : ~(m < n)
  BY <1>2
<1>4. QED
  BY <1>3

(* Induction from 0 to N: a set that holds 0 and every successor. *)
LEMMA SetInduction ==
    ASSUME NEW T, 0 \in T, NEW N \in Nat, \A n \in 0..N : n < N /\ n \in T => n + 1 \in T
    PROVE  0..N \subseteq T
<1> SUFFICES ASSUME ~(0..N \subseteq T) PROVE FALSE
  OBVIOUS
<1> DEFINE U == (0..N) \ T
<1>1. PICK n \in U : \A m \in U : n <= m
  <2>1. U \in SUBSET Nat /\ U # {}
    OBVIOUS
  <2>2. QED
    BY <2>1, LeastNat
<1>2. n # 0 /\ n - 1 \in 0..N /\ n - 1 < N /\ (n - 1) + 1 = n
  BY <1>1
<1>3. n - 1 \in T
  BY <1>1, <1>2
<1>4. QED
  BY <1>1, <1>2, <1>3

(* A non-empty bounded set of natural numbers has a greatest element. *)
LEMMA GreatestNat ==
    ASSUME NEW S \in SUBSET Nat, S # {}, NEW N \in Nat, \A s \in S : s <= N
    PROVE  \E x \in S : \A y \in S : x >= y
<1> DEFINE U == {n \in Nat : \A s \in S : s <= n}
<1>1. PICK n \in U : \A m \in U : n <= m
  BY LeastNat
<1>2. n \in S
  <2> SUFFICES ASSUME n \notin S PROVE FALSE
    OBVIOUS
  <2>1. n # 0
    <3>1. PICK s \in S : TRUE
      OBVIOUS
    <3>2. s <= n
      BY <1>1, <3>1
    <3>3. QED
      BY <3>1, <3>2
  <2>2. n - 1 \in U
    BY <1>1, <2>1
  <2>3. QED
    BY <1>1, <2>2
<1>3. QED
  BY <1>1, <1>2

(* The image of a finite set under a function that is injective on it has  *)
(* as many elements as the set.                                            *)
LEMMA InjectiveImage ==
    ASSUME NEW S, IsFiniteSet(S), NEW f, \A x, y \in S : f[x] = f[y] => x = y
    PROVE  /\ IsFiniteSet({f[x] : x \in S})
           /\ Cardinality({f[x] : x \in S}) = Cardinality(S)
<1> DEFINE T == {f[x] : x \in S}
           g == [x \in S |-> f[x]]
<1>1. g \in Bijection(S, T)
  BY DEF Bijection, Injection, Surjection, IsInjective
<1>2. ExistsBijection(S, T)
  BY <1>1 DEF ExistsBijection
<1>3. QED
  <2> HIDE DEF T
  <2>1. IsFiniteSet(T) /\ Cardinality(T) = Cardinality(S)
    BY <1>2, FS_Bijection
  <2>2. QED
    BY <2>1 DEF T

\* One element of a run, from the one before it.
RunStep(run, state, singles, i) ==
  IF i = 0 THEN Started(state) ELSE Stepped(run[i - 1], singles[i])

IsRun(run, state, singles, n) == run = [i \in 0..n |-> RunStep(run, state, singles, i)]

(* There is a function that steps through an update to any length. *)
LEMMA RunExists ==
    ASSUME NEW state, NEW singles, NEW N \in Nat
    PROVE  \E run : IsRun(run, state, singles, N)
<1> DEFINE T == {n \in 0..N : \E run : IsRun(run, state, singles, n)}
<1>1. 0 \in T
  <2> DEFINE first == [i \in 0..0 |-> Started(state)]
  <2>1. \A i \in 0..0 : RunStep(first, state, singles, i) = Started(state)
    BY DEF RunStep
  <2>2. IsRun(first, state, singles, 0)
    <3> HIDE DEF first
    <3>1. first = [i \in 0..0 |-> Started(state)]
      BY DEF first
    <3> QED BY <2>1, <3>1 DEF IsRun
  <2>3. QED
    <3> HIDE DEF first
    <3> QED BY <2>2
<1>2. ASSUME NEW n \in 0..N, n < N, n \in T PROVE n + 1 \in T
  <2>1. PICK run : IsRun(run, state, singles, n)
    BY <1>2
  <2> DEFINE longer == [i \in 0..(n + 1) |->
                IF i = n + 1 THEN Stepped(run[n], singles[n + 1]) ELSE run[i]]
  <2>2. ASSUME NEW i \in 0..(n + 1) PROVE longer[i] = RunStep(longer, state, singles, i)
    <3>1. CASE i = 0
      <4>1. longer[i] = run[i] /\ run[i] = RunStep(run, state, singles, i)
        BY <3>1, <2>1 DEF IsRun
      <4> HIDE DEF longer
      <4> QED BY <4>1, <3>1 DEF RunStep
    <3>2. CASE i # 0 /\ i # n + 1
      <4>1. longer[i] = run[i] /\ run[i] = RunStep(run, state, singles, i)
        BY <3>2, <2>1 DEF IsRun
      <4>2. longer[i - 1] = run[i - 1]
        BY <3>2
      <4> HIDE DEF longer
      <4> QED BY <4>1, <4>2, <3>2 DEF RunStep
    <3>3. CASE i = n + 1
      <4>1. longer[i] = Stepped(run[n], singles[n + 1]) /\ longer[n] = run[n] /\ i # 0 /\ i - 1 = n
        BY <3>3
      <4> HIDE DEF longer
      <4> QED BY <4>1, <3>3 DEF RunStep
    <3> QED BY <3>1, <3>2, <3>3
  <2>3. IsRun(longer, state, singles, n + 1)
    <3>1. longer = [i \in 0..(n + 1) |-> longer[i]]
      OBVIOUS
    <3> HIDE DEF longer
    <3> QED BY <2>2, <3>1 DEF IsRun
  <2>4. n + 1 \in 0..N
    BY <1>2
  <2> HIDE DEF longer
  <2>5. QED
    BY <2>3, <2>4
<1>3. 0..N \subseteq T
  <2> HIDE DEF T
  <2> QED BY <1>1, <1>2, SetInduction
<1>4. QED
  BY <1>3

(* RunSingles is that function: each element is a step from the one before. *)
LEMMA RunEquation ==
    ASSUME NEW state, NEW singles, Len(singles) \in Nat
    PROVE  IsRun(RunSingles(state, singles), state, singles, Len(singles))
<1>1. \E run : IsRun(run, state, singles, Len(singles))
  BY RunExists
<1>2. RunSingles(state, singles) = CHOOSE run : IsRun(run, state, singles, Len(singles))
  BY DEF RunSingles, IsRun, RunStep
<1>3. QED
  BY <1>1, <1>2

(***************************************************************************)
(* The inductive invariant                                                 *)
(***************************************************************************)
\* Distinct members who can meet the threshold, or nobody.
SoundAuthority(authority) ==
  \/ authority.committee = <<>> /\ authority.threshold = 1
  \/ ValidateCommittee(authority)

SoundContract(state) == state \in Contract /\ SoundAuthority(state.authority)

\* A step of an update: what it inserts its generation accepts, and whom it
\* appoints is a sound authority with the next counter.
SoundSingle(single, g, counter) ==
  \/ /\ single.kind = "insert"
     /\ single.circuit \in Circuits /\ single.slot \in Slots
     /\ AcceptedKey(single.slot, g)
  \/ single.kind = "remove"
  \/ /\ single.kind = "replace"
     /\ single.authority \in [committee : Seq(Keys), threshold : Nat, counter : {counter + 1}]
     /\ SoundAuthority(single.authority)

\* An update of this or an earlier state of the contract.
SoundUpdate(update) ==
  /\ update.gen \in Gens /\ update.gen <= gen
  /\ update.counter \in Nat /\ update.counter <= contract.authority.counter
  /\ DOMAIN update.singles = 1..Len(update.singles) /\ Len(update.singles) \in Nat
  /\ \A i \in 1..Len(update.singles) :
       SoundSingle(update.singles[i], update.gen, update.counter)

\* An update that nothing overtook is what a validated batch gives on the
\* contract as it is now.
FitsNow(update) ==
  update.counter = contract.authority.counter =>
    \E batch \in Batches :
      /\ ValidateVkSequence(contract, batch)
      /\ Acceptable(contract, batch, update.gen)
      /\ update = PrepareUpdate(contract, batch, update.gen)

JobHolds(m) ==
  /\ job[m].phase = "idle" => job[m] = Idle
  /\ job[m].phase = "read" =>
       /\ SoundContract(job[m].state)
       /\ job[m].batch \in Batches
       /\ ValidateVkSequence(job[m].state, job[m].batch)
       /\ ValidateReplaces(job[m].batch)
       /\ job[m].state.authority.counter <= contract.authority.counter
       /\ job[m].state.authority.counter = contract.authority.counter
            => job[m].state = contract
  /\ job[m].phase = "prepared" =>
       /\ SoundUpdate(job[m].update) /\ FitsNow(job[m].update)
       /\ job[m].update.counter = contract.authority.counter
            => job[m].authority = contract.authority

TxHolds(tx) ==
  /\ SoundUpdate(tx.update) /\ FitsNow(tx.update)
  /\ tx.update.counter < MaxCounter
  /\ DOMAIN tx.signatures = 1..Len(tx.signatures) /\ Len(tx.signatures) \in Nat
  /\ tx.update.counter = contract.authority.counter
       => ValidateSignatures(tx.update, tx.signatures, contract.authority)

NothingBeforeDeploy ==
  contract = NoContract => pool = {} /\ \A m \in Coordinators : job[m] = Idle

MaintenanceInv ==
  /\ MaintenanceTypeOK
  /\ SoundAuthority(contract.authority)
  /\ NothingBeforeDeploy
  /\ \A m \in Coordinators : JobHolds(m)
  /\ \A tx \in pool : TxHolds(tx)
  /\ FailsOnlyWhenOvertaken
  /\ AppliedByAQuorum

(***************************************************************************)
(* Applying an update                                                      *)
(***************************************************************************)
(* An update begins with the counter raised. *)
LEMMA RunBegins ==
    ASSUME NEW state, NEW singles, Len(singles) \in Nat
    PROVE  RunSingles(state, singles)[0] = Started(state)
<1>1. 0 \in 0..Len(singles)
  OBVIOUS
<1>2. QED
  BY <1>1, RunEquation DEF IsRun, RunStep

(* It goes on one step of the update at a time. *)
LEMMA RunContinues ==
    ASSUME NEW state, NEW singles, Len(singles) \in Nat, NEW i \in 1..Len(singles)
    PROVE  RunSingles(state, singles)[i]
             = Stepped(RunSingles(state, singles)[i - 1], singles[i])
<1>1. i \in 0..Len(singles) /\ i # 0
  OBVIOUS
<1>2. QED
  BY <1>1, RunEquation DEF IsRun, RunStep

\* What the contract looks like after a prefix of an update for counter n and
\* generation g.
MidUpdate(state, g, n) ==
  /\ SoundContract(state)
  /\ NativeState(state, g)
  /\ state.authority.counter = n + 1

(* A contract by its parts: its verifier keys and its authority. *)
LEMMA ContractParts ==
    ASSUME NEW state
    PROVE  state \in Contract <=>
             /\ state = [operations |-> state.operations, authority |-> state.authority]
             /\ state.authority \in [committee : Seq(Keys), threshold : Nat, counter : Nat]
             /\ DOMAIN state.operations \subseteq Circuits
             /\ state.operations \in [DOMAIN state.operations -> Slots]
<1>1. ASSUME state \in Contract
      PROVE  /\ state = [operations |-> state.operations, authority |-> state.authority]
             /\ state.authority \in [committee : Seq(Keys), threshold : Nat, counter : Nat]
             /\ DOMAIN state.operations \subseteq Circuits
             /\ state.operations \in [DOMAIN state.operations -> Slots]
  <2>1. PICK registered \in SUBSET Circuits : state.operations \in [registered -> Slots]
    BY <1>1 DEF Contract
  <2>2. QED
    BY <1>1, <2>1 DEF Contract
<1>2. QED
  BY <1>1 DEF Contract

(* A sound step applied to a sound contract gives a sound one. *)
LEMMA AppliedSound ==
    ASSUME NEW g, NEW n \in Nat, NEW state, MidUpdate(state, g, n),
           NEW single, SoundSingle(single, g, n), Applicable(state, single)
    PROVE  MidUpdate(Applied(state, single), g, n)
<1> DEFINE after == Applied(state, single)
<1>0. /\ state = [operations |-> state.operations, authority |-> state.authority]
      /\ state.authority \in [committee : Seq(Keys), threshold : Nat, counter : Nat]
      /\ DOMAIN state.operations \subseteq Circuits
      /\ state.operations \in [DOMAIN state.operations -> Slots]
  BY ContractParts DEF MidUpdate, SoundContract
<1>1. CASE single.kind = "insert"
  <2> DEFINE grown == Inserted(state.operations, single.circuit, single.slot)
  <2>1. after = [operations |-> grown, authority |-> state.authority]
    BY <1>0, <1>1 DEF Applied
  <2>2. /\ DOMAIN grown = DOMAIN state.operations \cup {single.circuit}
        /\ \A c \in DOMAIN grown :
             grown[c] = IF c = single.circuit THEN single.slot ELSE state.operations[c]
        /\ grown \in [DOMAIN grown -> Slots]
    BY <1>0, <1>1 DEF SoundSingle, Inserted
  <2> HIDE DEF grown
  <2>3. after \in Contract
    BY <1>0, <1>1, <2>1, <2>2, ContractParts DEF SoundSingle
  <2>4. QED
    BY <1>0, <1>1, <2>1, <2>2, <2>3
       DEF MidUpdate, SoundContract, NativeState, SoundSingle, AcceptedKey
<1>2. CASE single.kind = "remove"
  <2> DEFINE shrunk == Restrict(state.operations, DOMAIN state.operations \ {single.circuit})
  <2>1. after = [operations |-> shrunk, authority |-> state.authority]
    BY <1>0, <1>2 DEF Applied
  <2>2. /\ DOMAIN shrunk \subseteq DOMAIN state.operations
        /\ \A c \in DOMAIN shrunk : shrunk[c] = state.operations[c]
        /\ shrunk \in [DOMAIN shrunk -> Slots]
    BY <1>0 DEF Restrict
  <2> HIDE DEF shrunk
  <2>3. after \in Contract
    BY <1>0, <2>1, <2>2, ContractParts
  <2>4. QED
    BY <1>0, <2>1, <2>2, <2>3 DEF MidUpdate, SoundContract, NativeState
<1>3. CASE single.kind = "replace"
  <2>1. after = [operations |-> state.operations, authority |-> single.authority]
    BY <1>0, <1>3 DEF Applied
  <2>2. after \in Contract
    BY <1>0, <1>3, <2>1, ContractParts DEF SoundSingle
  <2>3. QED
    BY <1>0, <1>3, <2>1, <2>2 DEF MidUpdate, SoundContract, NativeState, SoundSingle
<1>4. QED
  BY <1>1, <1>2, <1>3 DEF SoundSingle

(* Raising the counter leaves the rest of the contract alone. *)
LEMMA StartedSound ==
    ASSUME NEW g, NEW state, SoundContract(state), NativeState(state, g)
    PROVE  /\ Started(state).ok = TRUE
           /\ MidUpdate(Started(state).state, g, state.authority.counter)
           /\ Started(state).state.operations = state.operations
           /\ Started(state) = [ok |-> Started(state).ok, state |-> Started(state).state]
<1>0. /\ state = [operations |-> state.operations, authority |-> state.authority]
      /\ state.authority \in [committee : Seq(Keys), threshold : Nat, counter : Nat]
      /\ DOMAIN state.operations \subseteq Circuits
      /\ state.operations \in [DOMAIN state.operations -> Slots]
  BY ContractParts DEF SoundContract
<1> DEFINE after == Started(state).state
<1>1. after = [operations |-> state.operations,
               authority  |-> [committee |-> state.authority.committee,
                               threshold |-> state.authority.threshold,
                               counter   |-> state.authority.counter + 1]]
  BY <1>0 DEF Started
<1>2. after \in Contract
  BY <1>0, <1>1, ContractParts
<1>3. QED
  BY <1>0, <1>1, <1>2
     DEF MidUpdate, SoundContract, NativeState, SoundAuthority, ValidateCommittee, Started

(* However far an update gets, it leaves a sound contract with the next     *)
(* counter.                                                                 *)
LEMMA RunSound ==
    ASSUME NEW g, NEW state, SoundContract(state), NativeState(state, g),
           NEW singles, Len(singles) \in Nat,
           \A i \in 1..Len(singles) : SoundSingle(singles[i], g, state.authority.counter)
    PROVE  MidUpdate(ApplySingles(state, singles).state, g, state.authority.counter)
<1> DEFINE run == RunSingles(state, singles)
           n == state.authority.counter
           Good(r) == r = [ok |-> r.ok, state |-> r.state] /\ MidUpdate(r.state, g, n)
           T == {i \in 0..Len(singles) : Good(run[i])}
<1>0. n \in Nat
  BY ContractParts DEF SoundContract
<1>1. 0 \in T
  <2>1. Good(run[0])
    BY StartedSound, RunBegins
  <2>2. QED
    BY <2>1
<1>2. ASSUME NEW i \in 0..Len(singles), i < Len(singles), i \in T PROVE i + 1 \in T
  <2>1. i + 1 \in 1..Len(singles) /\ i + 1 \in 0..Len(singles) /\ (i + 1) - 1 = i
    BY <1>2
  <2>2. run[i + 1] = Stepped(run[i], singles[i + 1])
    BY <2>1, RunContinues
  <2>3. Good(run[i]) /\ SoundSingle(singles[i + 1], g, n)
    BY <1>2, <2>1
  <2> HIDE DEF run, n
  <2>4. CASE run[i].ok /\ Applicable(run[i].state, singles[i + 1])
    <3>1. run[i + 1] = [ok |-> run[i].ok, state |-> Applied(run[i].state, singles[i + 1])]
      BY <2>2, <2>3, <2>4 DEF Stepped
    <3>2. MidUpdate(Applied(run[i].state, singles[i + 1]), g, n)
      BY <1>0, <2>3, <2>4, AppliedSound
    <3>3. QED
      BY <2>1, <3>1, <3>2
  <2>5. CASE ~(run[i].ok /\ Applicable(run[i].state, singles[i + 1]))
    <3>1. run[i + 1] = [ok |-> FALSE, state |-> run[i].state]
      BY <2>2, <2>3, <2>5 DEF Stepped
    <3>2. QED
      BY <2>1, <2>3, <3>1
  <2>6. QED
    BY <2>4, <2>5
<1>3. 0..Len(singles) \subseteq T
  <2> HIDE DEF T
  <2>1. QED
    BY <1>1, <1>2, SetInduction
<1>4. Good(run[Len(singles)])
  <2> HIDE DEF Good, run
  <2>1. QED
    BY <1>3
<1>5. QED
  BY <1>4 DEF ApplySingles

(***************************************************************************)
(* A validated batch runs to the end                                       *)
(***************************************************************************)
\* The key operations on a circuit before the i-th operation, and the slot the
\* last of them leaves its key in.
KeyOps(batch, i, circuit) ==
  {j \in 1..(i - 1) : ~IsReplace(batch[j]) /\ batch[j].circuit = circuit}

LastSlot(state, batch, i, circuit) ==
  LET earlier == KeyOps(batch, i, circuit)
  IN IF earlier = {} THEN state.operations[circuit] ELSE batch[Max(earlier)].slot

(* An upper bound that belongs to the set is its greatest element. *)
LEMMA MaxIs ==
    ASSUME NEW S \in SUBSET Nat, NEW x \in S, \A y \in S : y <= x
    PROVE  Max(S) = x
<1>1. \E z \in S : \A y \in S : z >= y
  OBVIOUS
<1>2. Max(S) \in S /\ \A y \in S : Max(S) >= y
  BY <1>1 DEF Max
<1>3. \A z \in S : z >= x /\ x >= z => z = x
  OBVIOUS
<1>4. QED
  BY <1>2, <1>3

(* The greatest element of a non-empty set of positions is one of them. *)
LEMMA MaxIn ==
    ASSUME NEW N \in Nat, NEW S \in SUBSET (1..N), S # {}
    PROVE  Max(S) \in S /\ \A y \in S : y <= Max(S)
<1>1. S \in SUBSET Nat /\ \A s \in S : s <= N
  OBVIOUS
<1>2. PICK x \in S : \A y \in S : x >= y
  BY <1>1, GreatestNat
<1>3. Max(S) = x
  BY <1>1, <1>2, MaxIs
<1>4. QED
  BY <1>1, <1>2, <1>3

(* What an operation carries depends on its kind. *)
LEMMA OpShape ==
    ASSUME NEW op \in Ops
    PROVE  /\ op.kind \in {"insert", "remove", "replace", "retire"}
           /\ ~IsReplace(op) => op.kind \in {"insert", "remove"} /\ op.circuit \in Circuits
           /\ op.kind = "insert" => op.slot \in Slots
           /\ op.kind = "replace" => op.to \in Candidates
  BY DEF Ops, IsReplace

(* A batch is a sequence of operations. *)
LEMMA BatchShape ==
    ASSUME NEW batch \in Batches
    PROVE  /\ Len(batch) \in Nat /\ DOMAIN batch = 1..Len(batch)
           /\ \A i \in 1..Len(batch) : batch[i] \in Ops
  BY MaintenanceAssumption

(* A prepared update has one step per operation of its batch. *)
LEMMA PreparedShape ==
    ASSUME NEW state, NEW batch \in Batches, NEW g
    PROVE  LET singles == PrepareUpdate(state, batch, g).singles
           IN  /\ Len(singles) = Len(batch) /\ DOMAIN singles = 1..Len(batch)
               /\ \A i \in 1..Len(batch) : singles[i] = Single(state, batch, i)
  BY BatchShape DEF PrepareUpdate

(* One more operation of the batch, and what is present after it. *)
LEMMA KeyOpsNext ==
    ASSUME NEW batch, NEW i \in Nat \ {0}, NEW c
    PROVE  KeyOps(batch, i + 1, c) = IF ~IsReplace(batch[i]) /\ batch[i].circuit = c
                                     THEN KeyOps(batch, i, c) \cup {i}
                                     ELSE KeyOps(batch, i, c)
  BY DEF KeyOps

(* The last key operation on a circuit is the one just made. *)
LEMMA KeyOpsMax ==
    ASSUME NEW batch, NEW i \in Nat \ {0}, NEW c, ~IsReplace(batch[i]), batch[i].circuit = c
    PROVE  KeyOps(batch, i + 1, c) # {} /\ Max(KeyOps(batch, i + 1, c)) = i
<1>1. KeyOps(batch, i + 1, c) = KeyOps(batch, i, c) \cup {i}
  BY KeyOpsNext
<1>2. KeyOps(batch, i, c) \subseteq 1..(i - 1)
  BY DEF KeyOps
<1> DEFINE S == KeyOps(batch, i + 1, c)
<1>3. S \in SUBSET Nat /\ i \in S /\ \A y \in S : y <= i
  BY <1>1, <1>2
<1>4. QED
  BY <1>3, MaxIs

(* What validate_vk_sequence says is there after one more operation. *)
LEMMA PresentNext ==
    ASSUME NEW state, NEW batch, NEW i \in Nat \ {0}, NEW c
    PROVE  /\ PresentBefore(state, batch, i + 1, c)
                <=> IF ~IsReplace(batch[i]) /\ batch[i].circuit = c
                    THEN batch[i].kind = "insert"
                    ELSE PresentBefore(state, batch, i, c)
           /\ LastSlot(state, batch, i + 1, c)
                = IF ~IsReplace(batch[i]) /\ batch[i].circuit = c
                  THEN batch[i].slot
                  ELSE LastSlot(state, batch, i, c)
<1>1. \A k : PresentBefore(state, batch, k, c)
               <=> IF KeyOps(batch, k, c) = {} THEN c \in DOMAIN state.operations
                   ELSE batch[Max(KeyOps(batch, k, c))].kind = "insert"
  BY DEF PresentBefore, KeyOps
<1>2. CASE ~IsReplace(batch[i]) /\ batch[i].circuit = c
  BY <1>1, <1>2, KeyOpsMax DEF LastSlot
<1>3. CASE ~(~IsReplace(batch[i]) /\ batch[i].circuit = c)
  <2>1. KeyOps(batch, i + 1, c) = KeyOps(batch, i, c)
    BY <1>3, KeyOpsNext
  <2>2. QED
    BY <1>1, <1>3, <2>1 DEF LastSlot
<1>4. QED
  BY <1>2, <1>3

(* Before the first operation, what is there is what the contract has. *)
LEMMA PresentFirst ==
    ASSUME NEW state, NEW batch, NEW c
    PROVE  /\ PresentBefore(state, batch, 1, c) <=> c \in DOMAIN state.operations
           /\ LastSlot(state, batch, 1, c) = state.operations[c]
  BY DEF PresentBefore, LastSlot, KeyOps

(* The slot a removal names is the one its key is in. *)
LEMMA RemovedSlotIsLast ==
    ASSUME NEW state, NEW batch, NEW i \in Nat \ {0}, batch[i].kind = "remove",
           PresentBefore(state, batch, i, batch[i].circuit)
    PROVE  RemovedSlot(state, batch, i) = LastSlot(state, batch, i, batch[i].circuit)
<1> DEFINE c == batch[i].circuit
           keys == KeyOps(batch, i, c)
           inserts == {j \in 1..(i - 1) : batch[j].kind = "insert" /\ batch[j].circuit = c}
<1>1. inserts \subseteq keys /\ keys \subseteq 1..(i - 1) /\ i - 1 \in Nat
  BY DEF KeyOps, IsReplace
<1>2. CASE keys = {}
  BY <1>1, <1>2 DEF RemovedSlot, LastSlot
<1>3. CASE keys # {}
  <2>1. Max(keys) \in keys /\ \A y \in keys : y <= Max(keys)
    BY <1>1, <1>3, MaxIn
  <2>2. batch[Max(keys)].kind = "insert"
    BY <1>3 DEF PresentBefore, KeyOps
  <2>3. Max(keys) \in inserts
    BY <2>1, <2>2 DEF KeyOps
  <2>4. Max(inserts) = Max(keys)
    <3>1. inserts \in SUBSET Nat /\ \A y \in inserts : y <= Max(keys)
      BY <1>1, <2>1
    <3> HIDE DEF inserts, keys
    <3>2. QED
      BY <2>3, <3>1, MaxIs
  <2>5. QED
    BY <1>3, <2>3, <2>4 DEF RemovedSlot, LastSlot
<1>4. QED
  BY <1>2, <1>3

\* The contract after the first i operations of the batch: the keys that the
\* simulation says are there, each in the slot of its last insert.
Mirrors(run, state, batch, i) ==
  /\ run.ok
  /\ run = [ok |-> run.ok, state |-> run.state]
  /\ run.state = [operations |-> run.state.operations, authority |-> run.state.authority]
  /\ \A c \in Circuits :
       /\ c \in DOMAIN run.state.operations <=> PresentBefore(state, batch, i + 1, c)
       /\ c \in DOMAIN run.state.operations =>
            run.state.operations[c] = LastSlot(state, batch, i + 1, c)

(* One operation of a validated batch runs, and keeps the mirror. *)
LEMMA MirrorsStep ==
    ASSUME NEW state, NEW batch \in Batches, NEW i \in 1..Len(batch), NEW run,
           ValidateVkSequence(state, batch), Mirrors(run, state, batch, i - 1)
    PROVE  Mirrors(Stepped(run, Single(state, batch, i)), state, batch, i)
<1> DEFINE op == batch[i]
           single == Single(state, batch, i)
           after == Applied(run.state, single)
<1>1. op \in Ops /\ i \in DOMAIN batch /\ i \in Nat \ {0} /\ (i - 1) + 1 = i
  BY BatchShape
<1>2. \A c \in Circuits :
        /\ c \in DOMAIN run.state.operations <=> PresentBefore(state, batch, i, c)
        /\ c \in DOMAIN run.state.operations =>
             run.state.operations[c] = LastSlot(state, batch, i, c)
  BY <1>1 DEF Mirrors
<1>3. ASSUME NEW operations, NEW authority,
             after = [operations |-> operations, authority |-> authority],
             Applicable(run.state, single),
             \A c \in Circuits :
               /\ c \in DOMAIN operations <=> PresentBefore(state, batch, i + 1, c)
               /\ c \in DOMAIN operations =>
                    operations[c] = LastSlot(state, batch, i + 1, c)
      PROVE  Mirrors(Stepped(run, single), state, batch, i)
  <2>1. Stepped(run, single) = [ok |-> run.ok, state |-> after]
    BY <1>3 DEF Stepped, Mirrors
  <2> HIDE DEF after, single
  <2>2. QED
    BY <1>3, <2>1 DEF Mirrors
<1>4. CASE op.kind = "insert"
  <2>1. single = op /\ op.circuit \in Circuits /\ ~IsReplace(op)
    BY <1>1, <1>4, OpShape DEF Single, IsReplace
  <2>2. op.circuit \notin DOMAIN run.state.operations
    BY <1>1, <1>2, <1>4, <2>1 DEF ValidateVkSequence
  <2>3. Applicable(run.state, single)
    BY <1>4, <2>1, <2>2 DEF Applicable
  <2> DEFINE grown == Inserted(run.state.operations, op.circuit, op.slot)
  <2>4. after = [operations |-> grown, authority |-> run.state.authority]
    BY <1>4, <2>1 DEF Applied, Mirrors
  <2>5. ASSUME NEW c \in Circuits
        PROVE  /\ c \in DOMAIN grown <=> PresentBefore(state, batch, i + 1, c)
               /\ c \in DOMAIN grown => grown[c] = LastSlot(state, batch, i + 1, c)
    <3>1. CASE c = op.circuit
      <4>1. c \in DOMAIN grown /\ grown[c] = op.slot
        BY <3>1 DEF Inserted
      <4>2. PresentBefore(state, batch, i + 1, c) /\ LastSlot(state, batch, i + 1, c) = op.slot
        BY <1>1, <1>4, <2>1, <3>1, PresentNext
      <4>3. QED
        BY <4>1, <4>2
    <3>2. CASE c # op.circuit
      <4>1. /\ c \in DOMAIN grown <=> c \in DOMAIN run.state.operations
            /\ c \in DOMAIN grown => grown[c] = run.state.operations[c]
        BY <3>2 DEF Inserted
      <4>2. /\ PresentBefore(state, batch, i + 1, c) <=> PresentBefore(state, batch, i, c)
            /\ LastSlot(state, batch, i + 1, c) = LastSlot(state, batch, i, c)
        BY <1>1, <3>2, PresentNext
      <4>3. QED
        BY <1>2, <4>1, <4>2
    <3>3. QED
      BY <3>1, <3>2
  <2> HIDE DEF grown
  <2>6. QED
    BY <1>3, <2>3, <2>4, <2>5
<1>5. CASE op.kind = "remove"
  <2>1. op.circuit \in Circuits /\ ~IsReplace(op)
    BY <1>1, <1>5, OpShape DEF IsReplace
  <2>2. single = [kind |-> "remove", circuit |-> op.circuit, slot |-> RemovedSlot(state, batch, i)]
    BY <1>5 DEF Single
  <2>3. PresentBefore(state, batch, i, op.circuit)
    BY <1>1, <1>5, <2>1 DEF ValidateVkSequence
  <2>4. RemovedSlot(state, batch, i) = LastSlot(state, batch, i, op.circuit)
    BY <1>1, <1>5, <2>3, RemovedSlotIsLast
  <2>5. Applicable(run.state, single)
    BY <1>2, <2>1, <2>2, <2>3, <2>4 DEF Applicable
  <2> DEFINE shrunk == Restrict(run.state.operations, DOMAIN run.state.operations \ {op.circuit})
  <2>6. after = [operations |-> shrunk, authority |-> run.state.authority]
    BY <2>2 DEF Applied, Mirrors
  <2>7. ASSUME NEW c \in Circuits
        PROVE  /\ c \in DOMAIN shrunk <=> PresentBefore(state, batch, i + 1, c)
               /\ c \in DOMAIN shrunk => shrunk[c] = LastSlot(state, batch, i + 1, c)
    <3>1. CASE c = op.circuit
      <4>1. c \notin DOMAIN shrunk
        BY <3>1 DEF Restrict
      <4>2. ~PresentBefore(state, batch, i + 1, c)
        BY <1>1, <1>5, <2>1, <3>1, PresentNext
      <4>3. QED
        BY <4>1, <4>2
    <3>2. CASE c # op.circuit
      <4>1. /\ c \in DOMAIN shrunk <=> c \in DOMAIN run.state.operations
            /\ c \in DOMAIN shrunk => shrunk[c] = run.state.operations[c]
        BY <3>2 DEF Restrict
      <4>2. /\ PresentBefore(state, batch, i + 1, c) <=> PresentBefore(state, batch, i, c)
            /\ LastSlot(state, batch, i + 1, c) = LastSlot(state, batch, i, c)
        BY <1>1, <3>2, PresentNext
      <4>3. QED
        BY <1>2, <4>1, <4>2
    <3>3. QED
      BY <3>1, <3>2
  <2> HIDE DEF shrunk
  <2>8. QED
    BY <1>3, <2>5, <2>6, <2>7
<1>6. CASE op.kind \in {"replace", "retire"}
  <2>1. IsReplace(op) /\ single.kind = "replace"
    BY <1>6 DEF IsReplace, Single, SingleReplaceAuthority
  <2>2. Applicable(run.state, single)
    BY <2>1 DEF Applicable
  <2>3. after = [operations |-> run.state.operations, authority |-> single.authority]
    BY <2>1 DEF Applied, Mirrors
  <2>4. \A c \in Circuits :
          /\ PresentBefore(state, batch, i + 1, c) <=> PresentBefore(state, batch, i, c)
          /\ LastSlot(state, batch, i + 1, c) = LastSlot(state, batch, i, c)
    BY <1>1, <2>1, PresentNext
  <2>5. QED
    BY <1>2, <1>3, <2>2, <2>3, <2>4
<1>7. QED
  BY <1>1, <1>4, <1>5, <1>6, OpShape

(* A batch that passes validate_vk_sequence applies to the end.            *)
LEMMA ValidatedBatchRuns ==
    ASSUME NEW state, SoundContract(state), NEW batch \in Batches, NEW g,
           ValidateVkSequence(state, batch)
    PROVE  ApplySingles(state, PrepareUpdate(state, batch, g).singles).ok
<1> DEFINE singles == PrepareUpdate(state, batch, g).singles
           run == RunSingles(state, singles)
           T == {i \in 0..Len(singles) : Mirrors(run[i], state, batch, i)}
<1>1. /\ Len(singles) = Len(batch) /\ Len(batch) \in Nat
      /\ \A i \in 1..Len(batch) : singles[i] = Single(state, batch, i)
  BY PreparedShape, BatchShape
<1> HIDE DEF singles
<1>2. 0 \in T
  <2>1. run[0] = Started(state) /\ 0 + 1 = 1
    BY <1>1, RunBegins
  <2>2. /\ Started(state).ok
        /\ Started(state) = [ok |-> Started(state).ok, state |-> Started(state).state]
        /\ Started(state).state = [operations |-> Started(state).state.operations,
                                   authority  |-> Started(state).state.authority]
        /\ Started(state).state.operations = state.operations
    BY ContractParts DEF Started, SoundContract
  <2>3. Mirrors(Started(state), state, batch, 0)
    <3> DEFINE first == Started(state)
    <3> HIDE DEF first
    <3>1. \A c : /\ PresentBefore(state, batch, 0 + 1, c) <=> c \in DOMAIN state.operations
                 /\ LastSlot(state, batch, 0 + 1, c) = state.operations[c]
      BY PresentFirst
    <3>2. QED
      BY <2>2, <3>1 DEF Mirrors
  <2>4. QED
    BY <1>1, <2>1, <2>3
<1>3. ASSUME NEW i \in 0..Len(singles), i < Len(singles), i \in T PROVE i + 1 \in T
  <2>1. i + 1 \in 1..Len(batch) /\ i + 1 \in 0..Len(singles) /\ (i + 1) - 1 = i
    BY <1>1, <1>3
  <2>2. run[i + 1] = Stepped(run[i], Single(state, batch, i + 1))
    BY <1>1, <2>1, RunContinues
  <2>3. Mirrors(run[i], state, batch, (i + 1) - 1)
    BY <1>3, <2>1
  <2> HIDE DEF run
  <2>4. Mirrors(run[i + 1], state, batch, i + 1)
    BY <2>1, <2>2, <2>3, MirrorsStep
  <2>5. QED
    BY <2>1, <2>4
<1>4. 0..Len(singles) \subseteq T
  <2> HIDE DEF T
  <2>1. QED
    BY <1>1, <1>2, <1>3, SetInduction
<1>5. Mirrors(run[Len(singles)], state, batch, Len(singles))
  <2> HIDE DEF run
  <2>1. QED
    BY <1>1, <1>4
<1>6. QED
  BY <1>5 DEF Mirrors, ApplySingles, singles

(***************************************************************************)
(* What the coordinator checks is what the chain checks                    *)
(***************************************************************************)

(* What a validated batch prepares is a sound update. *)
LEMMA PreparedSound ==
    ASSUME NEW state, SoundContract(state), NEW batch \in Batches, NEW g,
           ValidateReplaces(batch), Acceptable(state, batch, g), NEW i \in 1..Len(batch)
    PROVE  SoundSingle(Single(state, batch, i), g, state.authority.counter)
<1> DEFINE op == batch[i]
<1>1. op \in Ops /\ i \in DOMAIN batch
  BY BatchShape
<1>2. state.authority.counter \in Nat
  BY ContractParts DEF SoundContract
<1>3. CASE op.kind = "insert"
  BY <1>1, <1>3, OpShape DEF Single, SoundSingle, Acceptable, IsReplace
<1>4. CASE op.kind = "remove"
  BY <1>4 DEF Single, SoundSingle
<1>5. CASE op.kind = "replace"
  <2>1. ValidateCommittee(op.to) /\ op.to \in Candidates
    BY <1>1, <1>5, OpShape DEF ValidateReplaces
  <2>2. op.to.committee \in Seq(Keys) /\ op.to.threshold \in Nat
    BY <2>1, MaintenanceAssumption
  <2>3. Single(state, batch, i) = SingleReplaceAuthority(op.to, state.authority.counter)
    BY <1>5 DEF Single
  <2>4. QED
    BY <1>2, <2>1, <2>2, <2>3
       DEF SoundSingle, SingleReplaceAuthority, Authority, SoundAuthority, ValidateCommittee
<1>6. CASE op.kind = "retire"
  <2>1. Single(state, batch, i) = SingleReplaceAuthority(Retired, state.authority.counter)
    BY <1>6 DEF Single
  <2>2. <<>> \in Seq(Keys)
    BY EmptySeq
  <2>3. QED
    BY <1>2, <2>1, <2>2
       DEF SoundSingle, SingleReplaceAuthority, Authority, SoundAuthority, Retired, NoOne
<1>7. QED
  BY <1>1, <1>3, <1>4, <1>5, <1>6, OpShape

(* Signatures that pass validate_signatures are accepted by the chain. *)
LEMMA ValidatedIsSigned ==
    ASSUME NEW tx, Len(tx.signatures) \in Nat, DOMAIN tx.signatures = 1..Len(tx.signatures),
           ValidateSignatures(tx.update, tx.signatures, contract.authority)
    PROVE  CommitteeSigned(tx)
<1> DEFINE sigs == tx.signatures
           place == [i \in 1..Len(sigs) |-> sigs[i].index]
           indices == {s.index : s \in Range(sigs)}
<1>1. indices = {place[i] : i \in 1..Len(sigs)}
  BY DEF Range
<1>2. \A i, j \in 1..Len(sigs) : place[i] = place[j] => i = j
  BY DEF ValidateSignatures
<1>3. IsFiniteSet(1..Len(sigs)) /\ Cardinality(1..Len(sigs)) = Len(sigs)
  BY FS_Interval
<1>4. Cardinality(indices) = Len(sigs)
  <2> HIDE DEF place
  <2>1. Cardinality({place[i] : i \in 1..Len(sigs)}) = Cardinality(1..Len(sigs))
    BY <1>2, <1>3, InjectiveImage
  <2>2. QED
    BY <1>1, <1>3, <2>1
<1>5. \A s \in Range(sigs) : /\ s.index \in DOMAIN contract.authority.committee
                             /\ Verifies(contract.authority.committee[s.index], tx.update, s)
  BY DEF Range, ValidateSignatures
<1>6. Len(sigs) >= contract.authority.threshold
  BY DEF ValidateSignatures
<1>7. QED
  BY <1>4, <1>5, <1>6 DEF CommitteeSigned

(* Whom the chain accepts is a quorum of distinct members. *)
LEMMA SignedByAQuorum ==
    ASSUME SoundContract(contract), NEW tx, CommitteeSigned(tx), Len(tx.signatures) \in Nat
    PROVE  LET signers == {s.key : s \in Range(tx.signatures)}
           IN  /\ signers \subseteq Range(contract.authority.committee)
               /\ Cardinality(signers) >= contract.authority.threshold
               /\ signers # {}
<1> DEFINE committee == contract.authority.committee
           indices == {s.index : s \in Range(tx.signatures)}
           signers == {s.key : s \in Range(tx.signatures)}
<1>0. /\ committee \in Seq(Keys) /\ DOMAIN committee = 1..Len(committee) /\ Len(committee) \in Nat
      /\ contract.authority.threshold \in Nat
  BY ContractParts DEF SoundContract
<1>1. indices \subseteq DOMAIN committee /\ Len(tx.signatures) >= contract.authority.threshold
  BY DEF CommitteeSigned
<1>2. Cardinality(indices) = Len(tx.signatures)
  BY DEF CommitteeSigned
<1>3. \A s \in Range(tx.signatures) : s.key = committee[s.index]
  BY DEF CommitteeSigned, Verifies
<1>4. signers = {committee[i] : i \in indices}
  BY <1>3
<1>5. CASE committee = <<>>
  <2>1. contract.authority.threshold = 1
    BY <1>5 DEF SoundContract, SoundAuthority, ValidateCommittee
  <2> HIDE DEF indices
  <2>2. indices = {}
    BY <1>0, <1>1, <1>5
  <2>3. Len(tx.signatures) = 0
    BY <1>2, <2>2, FS_EmptySet
  <2>4. QED
    BY <1>1, <2>1, <2>3
<1>6. CASE committee # <<>>
  <2>1. /\ contract.authority.threshold >= 1
        /\ \A i, j \in indices : committee[i] = committee[j] => i = j
    BY <1>0, <1>1, <1>6 DEF SoundContract, SoundAuthority, ValidateCommittee, IsInjective
  <2>2. IsFiniteSet(indices)
    <3> HIDE DEF indices, committee
    <3>1. IsFiniteSet(1..Len(committee)) /\ indices \in SUBSET (1..Len(committee))
      BY <1>0, <1>1, FS_Interval
    <3>2. QED
      BY <3>1, FS_Subset
  <2>3. Cardinality(signers) = Cardinality(indices)
    <3> HIDE DEF indices, committee, signers
    <3>1. QED
      BY <1>4, <2>1, <2>2, InjectiveImage
  <2>4. Cardinality(signers) >= 1
    BY <1>0, <1>1, <1>2, <2>1, <2>3
  <2>5. signers # {}
    <3> HIDE DEF signers
    <3>1. QED
      BY <2>4, FS_EmptySet
  <2>6. signers \subseteq Range(committee)
    BY <1>1, <1>4 DEF Range
  <2>7. QED
    BY <1>1, <1>2, <2>3, <2>5, <2>6
<1>7. QED
  BY <1>5, <1>6

(* A sound authority can be met by its distinct members, or by nobody.     *)
LEMMA SoundIsReachable ==
    ASSUME SoundContract(contract)
    PROVE  AuthorityIsSound
<1> DEFINE committee == contract.authority.committee
<1>1. /\ committee \in Seq(Keys) /\ DOMAIN committee = 1..Len(committee) /\ Len(committee) \in Nat
      /\ contract.authority.threshold \in Nat
  BY ContractParts DEF SoundContract
<1>2. CASE ValidateCommittee(contract.authority)
  <2>1. Cardinality(Range(committee)) = Len(committee)
    <3>1. IsFiniteSet(1..Len(committee)) /\ Cardinality(1..Len(committee)) = Len(committee)
      BY <1>1, FS_Interval
    <3>2. \A i, j \in 1..Len(committee) : committee[i] = committee[j] => i = j
      BY <1>1, <1>2 DEF ValidateCommittee, IsInjective
    <3>3. Range(committee) = {committee[i] : i \in 1..Len(committee)}
      BY <1>1 DEF Range
    <3> HIDE DEF committee
    <3>4. QED
      BY <3>1, <3>2, <3>3, InjectiveImage
  <2>2. QED
    BY <1>1, <1>2, <2>1 DEF ValidateCommittee, AuthorityIsSound
<1>3. QED
  BY <1>2 DEF SoundContract, SoundAuthority, AuthorityIsSound

(***************************************************************************)
(* The invariant, step by step                                             *)
(***************************************************************************)
(* Before the deploy there is nothing to govern. *)
LEMMA InitInv == InitMaintenance => MaintenanceInv
<1> SUFFICES ASSUME InitMaintenance PROVE MaintenanceInv
  OBVIOUS
<1>1. contract = [operations |-> <<>>, authority |->
                    [committee |-> <<>>, threshold |-> 1, counter |-> 0]]
  BY DEF InitMaintenance, NoContract, Authority, NoOne
<1>2. contract \in Contract
  <2>1. <<>> \in Seq(Keys)
    BY EmptySeq
  <2>2. DOMAIN <<>> = {} /\ <<>> \in [{} -> Slots]
    OBVIOUS
  <2>3. QED
    BY <1>1, <2>1, <2>2, ContractParts
<1>3. MaintenanceTypeOK
  <2>1. Cardinality({}) = 0 /\ IsFiniteSet({})
    BY FS_EmptySet
  <2>2. NativeState(contract, gen)
    BY <1>1 DEF NativeState
  <2>3. QED
    BY <1>1, <1>2, <2>1, <2>2, MaintenanceAssumption DEF InitMaintenance, MaintenanceTypeOK, Gens, Idle
<1>4. \A m \in Coordinators : JobHolds(m)
  BY DEF InitMaintenance, JobHolds, Idle
<1>5. QED
  BY <1>1, <1>3, <1>4 DEF InitMaintenance, MaintenanceInv, SoundAuthority, NothingBeforeDeploy,
                          FailsOnlyWhenOvertaken, AppliedByAQuorum

(* A deployed contract is never NoContract again: its counter would show it. *)
LEMMA DeployInv == MaintenanceInv /\ Deploy => MaintenanceInv'
<1> SUFFICES ASSUME MaintenanceInv, Deploy PROVE MaintenanceInv'
  OBVIOUS
<1>1. PICK authority \in DeployAuthority, registered \in SUBSET Circuits :
        \E operations \in [registered -> {s \in Slots : AcceptedKey(s, gen)}] :
          contract' = [operations |-> operations, authority |-> authority]
  BY DEF Deploy
<1>2. PICK operations \in [registered -> {s \in Slots : AcceptedKey(s, gen)}] :
        contract' = [operations |-> operations, authority |-> authority]
  BY <1>1
<1>3. /\ authority \in [committee : Seq(Keys), threshold : Nat, counter : {0}]
      /\ SoundAuthority(authority)
  <2>1. <<>> \in Seq(Keys)
    BY EmptySeq
  <2>2. CASE authority = Authority(NoOne, 0)
    BY <2>1, <2>2 DEF Authority, NoOne, SoundAuthority
  <2>3. CASE \E c \in Candidates : ValidateCommittee(c) /\ authority = Authority(c, 0)
    <3>1. PICK c \in Candidates : ValidateCommittee(c) /\ authority = Authority(c, 0)
      BY <2>3
    <3>2. c.committee \in Seq(Keys) /\ c.threshold \in Nat
      BY MaintenanceAssumption
    <3>3. QED
      BY <3>1, <3>2 DEF Authority, SoundAuthority, ValidateCommittee
  <2>4. QED
    BY <2>2, <2>3 DEF DeployAuthority
<1>4. contract' \in Contract
  BY <1>2, <1>3 DEF Contract
<1>5. MaintenanceTypeOK'
  BY <1>2, <1>3, <1>4, MaintenanceAssumption DEF MaintenanceInv, MaintenanceTypeOK, Deploy, NativeState
<1>6. pool = {} /\ \A m \in Coordinators : job[m] = Idle
  BY DEF MaintenanceInv, NothingBeforeDeploy, Deploy
<1>7. \A m \in Coordinators : JobHolds(m)'
  BY <1>6 DEF Deploy, JobHolds, Idle
<1>8. QED
  BY <1>2, <1>3, <1>5, <1>6, <1>7
     DEF MaintenanceInv, NothingBeforeDeploy, Deploy, FailsOnlyWhenOvertaken, AppliedByAQuorum

\* What only reads the contract and lets the generation grow keeps the
\* coordinators' and the pool's claims.
LEMMA FrozenContract ==
    ASSUME UNCHANGED contract, gen \in Nat, gen' \in Nat, gen <= gen'
    PROVE  /\ \A update : SoundUpdate(update) => SoundUpdate(update)'
           /\ \A update : FitsNow(update) => FitsNow(update)'
           /\ \A tx : TxHolds(tx) => TxHolds(tx)'
           /\ \A m : JobHolds(m) /\ job'[m] = job[m] => JobHolds(m)'
<1>1. \A update : SoundUpdate(update) => SoundUpdate(update)'
  BY DEF SoundUpdate, Gens
<1>2. \A update : FitsNow(update) => FitsNow(update)'
  BY DEF FitsNow
<1>3. \A tx : TxHolds(tx) => TxHolds(tx)'
  BY <1>1, <1>2 DEF TxHolds
<1>4. \A m : JobHolds(m) /\ job'[m] = job[m] => JobHolds(m)'
  BY <1>1, <1>2 DEF JobHolds
<1>5. QED
  BY <1>1, <1>2, <1>3, <1>4

(* The fork and the wallet's crossing change no contract. *)
LEMMA ForkInv == MaintenanceInv /\ (Fork \/ CrossWallet \/ UNCHANGED maintenanceVars) => MaintenanceInv'
<1> SUFFICES ASSUME MaintenanceInv, Fork \/ CrossWallet \/ UNCHANGED maintenanceVars
             PROVE  MaintenanceInv'
  OBVIOUS
<1>1. UNCHANGED <<contract, job, pool, decided>>
  BY DEF Fork, CrossWallet, maintenanceVars
<1>2. gen \in Nat /\ gen' \in Nat /\ gen <= gen'
  BY DEF Fork, CrossWallet, maintenanceVars, MaintenanceInv, MaintenanceTypeOK, Gens
<1>3. NativeState(contract, gen)'
  BY <1>1 DEF Fork, CrossWallet, maintenanceVars, MaintenanceInv, MaintenanceTypeOK, NativeState, AcceptedKey
<1>4. MaintenanceTypeOK'
  BY <1>1, <1>3 DEF Fork, CrossWallet, maintenanceVars, MaintenanceInv, MaintenanceTypeOK, Gens
<1>5. QED
  BY <1>1, <1>2, <1>4, FrozenContract
     DEF MaintenanceInv, NothingBeforeDeploy, FailsOnlyWhenOvertaken, AppliedByAQuorum

(* prepare keeps a validated batch beside the contract it read. *)
LEMMA PrepareReadInv ==
    ASSUME MaintenanceInv, NEW m \in Coordinators, NEW batch \in Batches, PrepareRead(m, batch)
    PROVE  MaintenanceInv'
<1>1. UNCHANGED <<contract, gen, walletGen, pool, decided>>
  BY DEF PrepareRead
<1>2. job'[m] = [phase |-> "read", state |-> contract, batch |-> batch]
  BY DEF PrepareRead, MaintenanceInv, MaintenanceTypeOK
<1>3. JobHolds(m)'
  BY <1>1, <1>2, ContractParts
     DEF PrepareRead, JobHolds, MaintenanceInv, MaintenanceTypeOK, SoundContract
<1>4. \A n \in Coordinators : n # m => job'[n] = job[n]
  BY DEF PrepareRead, MaintenanceInv, MaintenanceTypeOK
<1>5. gen \in Nat /\ gen' = gen
  BY <1>1 DEF MaintenanceInv, MaintenanceTypeOK, Gens
<1>6. MaintenanceTypeOK'
  BY <1>1, <1>2, <1>4 DEF MaintenanceInv, MaintenanceTypeOK, PrepareRead
<1>7. \A n \in Coordinators : JobHolds(n)'
  BY <1>1, <1>3, <1>4, <1>5, FrozenContract DEF MaintenanceInv
<1>8. QED
  BY <1>1, <1>5, <1>6, <1>7, FrozenContract
     DEF MaintenanceInv, NothingBeforeDeploy, FailsOnlyWhenOvertaken, AppliedByAQuorum, PrepareRead

(* The update is built from that contract, current or overtaken. *)
LEMMA PrepareBuildInv ==
    ASSUME MaintenanceInv, NEW m \in Coordinators, PrepareBuild(m)
    PROVE  MaintenanceInv'
<1> DEFINE state == job[m].state
           batch == job[m].batch
           update == PrepareUpdate(state, batch, walletGen)
<1>1. UNCHANGED <<contract, gen, walletGen, pool, decided>>
  BY DEF PrepareBuild
<1>2. gen \in Nat /\ gen' = gen
  BY <1>1 DEF MaintenanceInv, MaintenanceTypeOK, Gens
<1>3. job[m].phase = "read" /\ JobHolds(m)
  BY DEF PrepareBuild, MaintenanceInv
<1>4. JobHolds(m)' /\ job'[m].phase \in {"idle", "prepared"}
  <2>1. CASE Acceptable(state, batch, walletGen)
    <3>1. job'[m] = [phase |-> "prepared", update |-> update, authority |-> state.authority]
      BY <2>1 DEF PrepareBuild, MaintenanceInv, MaintenanceTypeOK
    <3>2. /\ update.counter = state.authority.counter /\ update.gen = walletGen
          /\ state.authority.counter \in Nat
      BY <1>3, ContractParts DEF PrepareUpdate, JobHolds, SoundContract
    <3>3. /\ Len(update.singles) = Len(batch) /\ DOMAIN update.singles = 1..Len(batch)
          /\ Len(batch) \in Nat
          /\ \A i \in 1..Len(batch) : update.singles[i] = Single(state, batch, i)
      BY <1>3, PreparedShape, BatchShape DEF JobHolds
    <3>4. \A i \in 1..Len(batch) :
             SoundSingle(Single(state, batch, i), walletGen, state.authority.counter)
      BY <1>3, <2>1, PreparedSound DEF JobHolds
    <3>5. SoundUpdate(update)
      <4> HIDE DEF update
      <4>1. QED
        BY <1>3, <3>2, <3>3, <3>4 DEF SoundUpdate, JobHolds, MaintenanceInv, MaintenanceTypeOK
    <3>6. FitsNow(update)
      BY <1>3, <2>1, <3>2 DEF FitsNow, JobHolds
    <3>7. update.counter = contract.authority.counter => state.authority = contract.authority
      BY <1>3, <3>2 DEF JobHolds
    <3>8. SoundUpdate(job[m].update)' /\ FitsNow(job[m].update)'
      <4>1. PICK u : u = update
        OBVIOUS
      <4> HIDE DEF update
      <4>2. SoundUpdate(u) /\ FitsNow(u) /\ job'[m].update = u
        BY <3>1, <3>5, <3>6, <4>1
      <4>3. SoundUpdate(u)' /\ FitsNow(u)'
        BY <1>1, <1>2, <4>2, FrozenContract
      <4>4. QED
        BY <4>2, <4>3 DEF SoundUpdate, FitsNow
    <3>9. (job[m].update.counter = contract.authority.counter
             => job[m].authority = contract.authority)'
      BY <1>1, <3>1, <3>7
    <3>10. job'[m].phase = "prepared"
      BY <3>1
    <3>11. QED
      BY <3>8, <3>9, <3>10 DEF JobHolds
  <2>2. CASE ~Acceptable(state, batch, walletGen)
    <3>1. job'[m] = Idle
      BY <2>2 DEF PrepareBuild, MaintenanceInv, MaintenanceTypeOK
    <3>2. QED
      BY <3>1 DEF JobHolds, Idle
  <2>3. QED
    BY <2>1, <2>2
<1>5. \A n \in Coordinators : n # m => job'[n] = job[n]
  BY DEF PrepareBuild, MaintenanceInv, MaintenanceTypeOK
<1>6. MaintenanceTypeOK'
  <2>1. DOMAIN job' = Coordinators
    BY DEF PrepareBuild, MaintenanceInv, MaintenanceTypeOK
  <2>2. QED
    BY <1>1, <1>4, <1>5, <2>1 DEF MaintenanceInv, MaintenanceTypeOK
<1>7. \A n \in Coordinators : JobHolds(n)'
  BY <1>1, <1>4, <1>5, <1>2, FrozenContract DEF MaintenanceInv
<1>8. NothingBeforeDeploy'
  BY <1>1, <1>3 DEF MaintenanceInv, NothingBeforeDeploy, Idle
<1>9. QED
  BY <1>1, <1>2, <1>6, <1>7, <1>8, FrozenContract
     DEF MaintenanceInv, FailsOnlyWhenOvertaken, AppliedByAQuorum

(* What is submitted was checked against the authority that prepare read. *)
LEMMA SubmitInv ==
    ASSUME MaintenanceInv, NEW m \in Coordinators, NEW signatures \in AddSignatures,
           Submit(m, signatures)
    PROVE  MaintenanceInv'
<1>1. UNCHANGED <<contract, gen, walletGen, decided>>
  BY DEF Submit
<1>2. gen \in Nat /\ gen' = gen
  BY <1>1 DEF MaintenanceInv, MaintenanceTypeOK, Gens
<1>3. job[m].phase = "prepared" /\ JobHolds(m) /\ job'[m] = Idle
  BY DEF Submit, MaintenanceInv, MaintenanceTypeOK
<1>4. \A n \in Coordinators : n # m => job'[n] = job[n]
  BY DEF Submit, MaintenanceInv, MaintenanceTypeOK
<1>5. PICK tx : tx = [update |-> job[m].update, signatures |-> signatures]
  OBVIOUS
<1>6. Len(signatures) \in Nat /\ DOMAIN signatures = 1..Len(signatures)
  BY MaintenanceAssumption DEF AddSignatures, BoundedSeq, SeqOf
<1>7. pool' = pool \/ (pool' = pool \cup {tx} /\ TxHolds(tx))
  <2>1. ASSUME ValidateSignatures(job[m].update, signatures, job[m].authority)
        PROVE  TxHolds(tx)
    BY <1>3, <1>5, <1>6, <2>1 DEF Submit, JobHolds, TxHolds
  <2>2. QED
    BY <1>5, <2>1 DEF Submit
<1>8. MaintenanceTypeOK'
  <2>1. Cardinality(pool) \in Nat /\ Cardinality(decided) \in Nat
    BY FS_CardinalityType DEF MaintenanceInv, MaintenanceTypeOK
  <2>2. IsFiniteSet(pool') /\ Cardinality(pool') <= Cardinality(pool) + 1
    BY <1>7, <2>1, FS_AddElement DEF MaintenanceInv, MaintenanceTypeOK
  <2>3. Cardinality(pool') \in Nat
    BY <2>2, FS_CardinalityType
  <2>4. Cardinality(pool') + Cardinality(decided') <= MaxTxs
    BY <1>1, <2>1, <2>2, <2>3, MaintenanceAssumption DEF Submit
  <2>5. DOMAIN job' = Coordinators
    BY DEF Submit, MaintenanceInv, MaintenanceTypeOK
  <2>6. \A n \in Coordinators : job'[n].phase \in {"idle", "read", "prepared"}
    BY <1>3, <1>4 DEF MaintenanceInv, MaintenanceTypeOK, Idle
  <2>7. NativeState(contract, gen)'
    BY <1>1 DEF MaintenanceInv, MaintenanceTypeOK, NativeState
  <2>8. QED
    BY <1>1, <2>2, <2>4, <2>5, <2>6, <2>7 DEF MaintenanceInv, MaintenanceTypeOK
<1>9. \A n \in Coordinators : JobHolds(n)'
  <2>1. JobHolds(m)'
    BY <1>3 DEF JobHolds, Idle
  <2>2. QED
    BY <1>1, <1>2, <1>4, <2>1, FrozenContract DEF MaintenanceInv
<1>10. \A t \in pool' : TxHolds(t)'
  BY <1>1, <1>2, <1>7, FrozenContract DEF MaintenanceInv
<1>11. NothingBeforeDeploy'
  BY <1>1, <1>3 DEF MaintenanceInv, NothingBeforeDeploy, Idle
<1>12. QED
  BY <1>1, <1>8, <1>9, <1>10, <1>11
     DEF MaintenanceInv, FailsOnlyWhenOvertaken, AppliedByAQuorum

(* An update that nothing overtook is well-formed and runs to the end. *)
LEMMA NotOvertakenIsFine ==
    ASSUME MaintenanceInv, NEW tx \in pool, Current(tx), tx.update.gen = gen
    PROVE  WellFormed(tx) /\ ApplySingles(contract, tx.update.singles).ok
<1>1. TxHolds(tx) /\ SoundContract(contract)
  BY DEF MaintenanceInv, MaintenanceTypeOK, SoundContract
<1>2. CommitteeSigned(tx)
  BY <1>1, ValidatedIsSigned DEF TxHolds, Current
<1>3. \A single \in Range(tx.update.singles) :
        single.kind = "replace" => single.authority.counter = tx.update.counter + 1
  <2>1. ASSUME NEW i \in 1..Len(tx.update.singles), tx.update.singles[i].kind = "replace"
        PROVE  tx.update.singles[i].authority.counter = tx.update.counter + 1
    BY <1>1, <2>1 DEF TxHolds, SoundUpdate, SoundSingle
  <2>2. QED
    BY <1>1, <2>1 DEF TxHolds, SoundUpdate, Range
<1>4. PICK batch \in Batches : /\ ValidateVkSequence(contract, batch)
                               /\ tx.update = PrepareUpdate(contract, batch, tx.update.gen)
  BY <1>1 DEF TxHolds, FitsNow, Current
<1>5. ApplySingles(contract, PrepareUpdate(contract, batch, tx.update.gen).singles).ok
  BY <1>1, <1>4, ValidatedBatchRuns
<1>6. QED
  BY <1>2, <1>3, <1>4, <1>5 DEF WellFormed

(* The contract after an update was applied.                               *)
LEMMA AppliedUpdate ==
    ASSUME MaintenanceInv, NEW tx \in pool, WellFormed(tx), Current(tx),
           contract' = ApplySingles(contract, tx.update.singles).state
    PROVE  /\ SoundContract(contract')
           /\ NativeState(contract', gen)
           /\ contract'.authority.counter = contract.authority.counter + 1
           /\ contract.authority.counter \in Nat /\ contract.authority.counter < MaxCounter
<1>1. TxHolds(tx) /\ SoundContract(contract) /\ NativeState(contract, gen)
  BY DEF MaintenanceInv, MaintenanceTypeOK, SoundContract
<1>2. /\ Len(tx.update.singles) \in Nat
      /\ \A i \in 1..Len(tx.update.singles) :
           SoundSingle(tx.update.singles[i], gen, contract.authority.counter)
  BY <1>1 DEF TxHolds, SoundUpdate, WellFormed, Current
<1>3. MidUpdate(ApplySingles(contract, tx.update.singles).state, gen, contract.authority.counter)
  BY <1>1, <1>2, RunSound
<1>4. QED
  BY <1>1, <1>3, ContractParts DEF MidUpdate, TxHolds, Current, SoundContract

(* An update that was applied overtakes every other. *)
LEMMA OvertakesAll ==
    ASSUME UNCHANGED gen, NEW n \in Nat, contract.authority.counter = n,
           contract'.authority.counter = n + 1
    PROVE  /\ \A update : SoundUpdate(update) => SoundUpdate(update)' /\ FitsNow(update)'
           /\ \A tx : TxHolds(tx) => TxHolds(tx)'
           /\ \A m : JobHolds(m) /\ job'[m] = job[m] => JobHolds(m)'
<1>1. \A update : SoundUpdate(update) => SoundUpdate(update)' /\ FitsNow(update)'
  BY DEF SoundUpdate, FitsNow
<1>2. \A tx : TxHolds(tx) => TxHolds(tx)'
  BY <1>1 DEF TxHolds, SoundUpdate
<1>3. ASSUME NEW m, JobHolds(m), job'[m] = job[m] PROVE JobHolds(m)'
  <2>1. (job[m].phase = "idle" => job[m] = Idle)'
    BY <1>3 DEF JobHolds
  <2>2. CASE job[m].phase = "read"
    <3>1. job[m].state.authority.counter \in Nat /\ job[m].state.authority.counter <= n
      BY <1>3, <2>2, ContractParts DEF JobHolds, SoundContract
    <3>2. /\ SoundContract(job[m].state) /\ job[m].batch \in Batches
          /\ ValidateVkSequence(job[m].state, job[m].batch)
          /\ ValidateReplaces(job[m].batch)
      BY <1>3, <2>2 DEF JobHolds
    <3>3. /\ job'[m].phase = "read"
          /\ job'[m].state.authority.counter <= contract'.authority.counter
          /\ job'[m].state.authority.counter # contract'.authority.counter
          /\ job'[m].state = job[m].state /\ job'[m].batch = job[m].batch
      BY <1>3, <2>2, <3>1
    <3>4. QED
      BY <1>3, <2>1, <3>2, <3>3 DEF JobHolds
  <2>3. CASE job[m].phase = "prepared"
    <3>1. PICK u : u = job[m].update /\ SoundUpdate(u)
      BY <1>3, <2>3 DEF JobHolds
    <3>2. SoundUpdate(u)' /\ FitsNow(u)' /\ u.counter \in Nat /\ u.counter <= n
      BY <1>1, <3>1 DEF SoundUpdate
    <3>3. SoundUpdate(job[m].update)' /\ FitsNow(job[m].update)'
      BY <1>3, <3>1, <3>2 DEF SoundUpdate, FitsNow
    <3>4. /\ job'[m].phase = "prepared"
          /\ job'[m].update.counter # contract'.authority.counter
      BY <1>3, <2>3, <3>1, <3>2
    <3>5. QED
      BY <2>1, <3>3, <3>4 DEF JobHolds
  <2>4. CASE job[m].phase \notin {"read", "prepared"}
    BY <1>3, <2>1, <2>4 DEF JobHolds
  <2>5. QED
    BY <2>2, <2>3, <2>4
<1>4. QED
  BY <1>1, <1>2, <1>3

(* The chain's decision keeps the invariant, whichever it is. *)
LEMMA DecideInv ==
    ASSUME MaintenanceInv, NEW tx \in pool, Decide(tx)
    PROVE  MaintenanceInv'
<1> DEFINE moved == ~Current(tx) \/ tx.update.gen # gen
           after == ApplySingles(contract, tx.update.singles)
           signers == {s.key : s \in Range(tx.signatures)}
           record(v) == [verdict |-> v, moved |-> moved, authority |-> contract.authority,
                         signers |-> signers]
<1>1. UNCHANGED <<gen, walletGen, job>> /\ pool' = pool \ {tx}
  BY DEF Decide
<1>2. TxHolds(tx) /\ SoundContract(contract)
  BY DEF MaintenanceInv, MaintenanceTypeOK, SoundContract
<1>3. PICK d : decided' = decided \cup {d}
  BY DEF Decide
<1>4. gen \in Nat /\ gen' = gen
  BY <1>1 DEF MaintenanceInv, MaintenanceTypeOK, Gens
<1>5. /\ Cardinality(pool') + Cardinality(decided') <= MaxTxs
      /\ IsFiniteSet(pool') /\ IsFiniteSet(decided')
  <2>1. Cardinality(pool) \in Nat /\ Cardinality(decided) \in Nat
    BY FS_CardinalityType DEF MaintenanceInv, MaintenanceTypeOK
  <2>2. IsFiniteSet(pool') /\ Cardinality(pool') = Cardinality(pool) - 1
    BY <1>1, FS_RemoveElement DEF MaintenanceInv, MaintenanceTypeOK
  <2>3. IsFiniteSet(decided') /\ Cardinality(decided') <= Cardinality(decided) + 1
    <3>1. IsFiniteSet(decided)
      BY DEF MaintenanceInv, MaintenanceTypeOK
    <3>2. /\ IsFiniteSet(decided \cup {d})
          /\ Cardinality(decided \cup {d})
               = IF d \in decided THEN Cardinality(decided) ELSE Cardinality(decided) + 1
      BY <3>1, FS_AddElement
    <3>3. QED
      BY <1>3, <2>1, <3>2
  <2>4. Cardinality(decided') \in Nat
    BY <2>3, FS_CardinalityType
  <2>5. QED
    BY <2>1, <2>2, <2>3, <2>4, MaintenanceAssumption DEF MaintenanceInv, MaintenanceTypeOK
<1>6. CASE /\ WellFormed(tx) /\ Current(tx) /\ after.ok
           /\ contract' = after.state
           /\ decided' = decided \cup {record("applied")}
  <2>1. /\ SoundContract(contract') /\ NativeState(contract', gen)
        /\ contract'.authority.counter = contract.authority.counter + 1
        /\ contract.authority.counter \in Nat /\ contract.authority.counter < MaxCounter
    BY <1>6, AppliedUpdate
  <2>2. MaintenanceTypeOK'
    BY <1>1, <1>5, <2>1, MaintenanceAssumption
       DEF MaintenanceInv, MaintenanceTypeOK, NativeState, SoundContract
  <2>3. NothingBeforeDeploy'
    BY <2>1 DEF NothingBeforeDeploy, NoContract, Authority
  <2>4. (\A m \in Coordinators : JobHolds(m)') /\ (\A t \in pool' : TxHolds(t)')
    BY <1>1, <2>1, OvertakesAll DEF MaintenanceInv
  <2>5. FailsOnlyWhenOvertaken'
    BY <1>6 DEF MaintenanceInv, FailsOnlyWhenOvertaken
  <2>6. /\ signers \subseteq Range(contract.authority.committee)
        /\ Cardinality(signers) >= contract.authority.threshold
        /\ signers # {}
    BY <1>2, <1>6, SignedByAQuorum DEF WellFormed, TxHolds
  <2>7. AppliedByAQuorum'
    <3> HIDE DEF signers
    <3>1. QED
      BY <1>6, <2>6 DEF MaintenanceInv, AppliedByAQuorum
  <2>8. SoundAuthority(contract.authority)'
    BY <2>1 DEF SoundContract, SoundAuthority
  <2>9. QED
    BY <2>2, <2>3, <2>4, <2>5, <2>7, <2>8 DEF MaintenanceInv
<1>7. ASSUME NEW v \in {"partial", "refused"}, UNCHANGED contract, moved,
             decided' = decided \cup {record(v)}
      PROVE  MaintenanceInv'
  <2>1. NativeState(contract, gen)'
    BY <1>1, <1>7 DEF MaintenanceInv, MaintenanceTypeOK, NativeState
  <2>2. MaintenanceTypeOK'
    BY <1>1, <1>5, <1>7, <2>1 DEF MaintenanceInv, MaintenanceTypeOK
  <2>3. (\A m \in Coordinators : JobHolds(m)') /\ (\A t \in pool' : TxHolds(t)')
    BY <1>1, <1>4, <1>7, FrozenContract DEF MaintenanceInv
  <2>4. FailsOnlyWhenOvertaken' /\ AppliedByAQuorum'
    <3>1. record(v).moved /\ record(v).verdict # "applied"
      BY <1>7
    <3>2. FailsOnlyWhenOvertaken /\ AppliedByAQuorum
      BY DEF MaintenanceInv
    <3> HIDE DEF record
    <3>3. QED
      BY <1>7, <3>1, <3>2 DEF FailsOnlyWhenOvertaken, AppliedByAQuorum
  <2>5. NothingBeforeDeploy' /\ SoundAuthority(contract.authority)'
    BY <1>1, <1>7 DEF MaintenanceInv, NothingBeforeDeploy
  <2>6. QED
    BY <2>2, <2>3, <2>4, <2>5 DEF MaintenanceInv
<1>8. ~(WellFormed(tx) /\ Current(tx) /\ after.ok) => moved
  BY NotOvertakenIsFine
<1>9. QED
  <2>1. \/ /\ WellFormed(tx) /\ Current(tx) /\ after.ok
           /\ contract' = after.state
           /\ decided' = decided \cup {record("applied")}
        \/ /\ ~(WellFormed(tx) /\ Current(tx) /\ after.ok)
           /\ UNCHANGED contract
           /\ \E v \in {"partial", "refused"} : decided' = decided \cup {record(v)}
    BY DEF Decide
  <2> HIDE DEF moved, after, record
  <2>2. QED
    BY <1>6, <1>7, <1>8, <2>1

(* The invariant is inductive. *)
LEMMA NextInv == MaintenanceInv /\ [NextMaintenance]_maintenanceVars => MaintenanceInv'
<1> SUFFICES ASSUME MaintenanceInv, [NextMaintenance]_maintenanceVars PROVE MaintenanceInv'
  OBVIOUS
<1>1. CASE Deploy
  BY <1>1, DeployInv
<1>2. CASE Fork \/ CrossWallet \/ UNCHANGED maintenanceVars
  BY <1>2, ForkInv
<1>3. ASSUME NEW m \in Coordinators, NEW batch \in Batches, PrepareRead(m, batch)
      PROVE  MaintenanceInv'
  BY <1>3, PrepareReadInv
<1>4. ASSUME NEW m \in Coordinators, PrepareBuild(m) PROVE MaintenanceInv'
  BY <1>4, PrepareBuildInv
<1>5. ASSUME NEW m \in Coordinators, NEW signatures \in AddSignatures, Submit(m, signatures)
      PROVE  MaintenanceInv'
  BY <1>5, SubmitInv
<1>6. ASSUME NEW tx \in pool, Decide(tx) PROVE MaintenanceInv'
  BY <1>6, DecideInv
<1>7. QED
  BY <1>1, <1>2, <1>3, <1>4, <1>5, <1>6 DEF NextMaintenance

(***************************************************************************)
(* The theorems                                                            *)
(***************************************************************************)

(* The state of prepares, pool and contract stays coherent, for any number *)
(* of coordinators, committees and batches.                                *)
THEOREM MaintenanceIsSound == MaintenanceSpec => []MaintenanceInv
  BY InitInv, NextInv, PTL DEF MaintenanceSpec

(* Every part of the state has its shape, and no verifier key is on a      *)
(* chain whose generation cannot verify it.                                *)
THEOREM TypeCorrect == MaintenanceSpec => []MaintenanceTypeOK
<1>1. MaintenanceInv => MaintenanceTypeOK
  BY DEF MaintenanceInv
<1>2. QED
  BY <1>1, MaintenanceIsSound, PTL

(* The contract is never bricked and never open to everyone.               *)
THEOREM NeverBricked == MaintenanceSpec => []AuthorityIsSound
<1>1. MaintenanceInv => AuthorityIsSound
  BY SoundIsReachable DEF MaintenanceInv, MaintenanceTypeOK, SoundContract
<1>2. QED
  BY <1>1, MaintenanceIsSound, PTL

(* The checks before the submit are the chain's: only an update that was   *)
(* overtaken can fail.                                                     *)
THEOREM CheckedUpdatesApply == MaintenanceSpec => []FailsOnlyWhenOvertaken
<1>1. MaintenanceInv => FailsOnlyWhenOvertaken
  BY DEF MaintenanceInv
<1>2. QED
  BY <1>1, MaintenanceIsSound, PTL

(* Whatever was applied had the consent of a quorum of distinct members.   *)
THEOREM QuorumConsented == MaintenanceSpec => []AppliedByAQuorum
<1>1. MaintenanceInv => AppliedByAQuorum
  BY DEF MaintenanceInv
<1>2. QED
  BY <1>1, MaintenanceIsSound, PTL

(* No update changes a contract whose authority is retired.                *)
THEOREM RetirementIsFinal == MaintenanceSpec => RetiredIsFinal
<1>1. ASSUME MaintenanceInv, [NextMaintenance]_maintenanceVars,
             contract # NoContract, contract.authority.committee = <<>>
      PROVE  UNCHANGED contract
  <2>1. ASSUME NEW tx \in pool, Decide(tx) PROVE UNCHANGED contract
    <3>1. ~CommitteeSigned(tx)
      <4>1. SoundContract(contract) /\ TxHolds(tx)
        BY <1>1 DEF MaintenanceInv, MaintenanceTypeOK, SoundContract
      <4>2. Range(contract.authority.committee) = {}
        BY <1>1 DEF Range
      <4>3. QED
        BY <4>1, <4>2, SignedByAQuorum DEF TxHolds
    <3>2. QED
      BY <2>1, <3>1 DEF Decide, WellFormed
  <2>2. QED
    BY <1>1, <2>1
       DEF NextMaintenance, maintenanceVars, Deploy, Fork, CrossWallet, PrepareRead, PrepareBuild, Submit
<1>2. MaintenanceInv /\ [NextMaintenance]_maintenanceVars =>
        [contract # NoContract /\ contract.authority.committee = <<>> => UNCHANGED contract]_maintenanceVars
  BY <1>1
<1>3. QED
  BY <1>2, MaintenanceIsSound, PTL DEF MaintenanceSpec, RetiredIsFinal
=============================================================================
