---------------------------- MODULE JournalProofs ----------------------------
(***************************************************************************)
(* The proofs about the private-state journal of a contract.               *)
(*                                                                         *)
(* Until a forget or an import begins, the files are a line: a sequence of *)
(* calls lists them, each snapshot built on the one before.  On a line the *)
(* walk, the leaf and the head are what one expects, an append makes the   *)
(* line longer and a cascade shortens it from its end.                     *)
(***************************************************************************)
EXTENDS PrivateJournal, NaturalsInduction, WellFoundedInduction, FiniteSetTheorems, SequenceTheorems, TLAPS

-----------------------------------------------------------------------------
(* Induction over sets of natural numbers, and counting. *)

(* Every non-empty set of natural numbers has a least element. *)
LEMMA LeastNat ==
    ASSUME NEW T \in SUBSET Nat, T # {}
    PROVE  \E n \in T : \A m \in T : n <= m
<1> DEFINE R == {ss \in Nat \X Nat : ss[1] < ss[2]}
<1>1. IsWellFoundedOn(R, Nat)
  BY NatLessThanWellFounded DEF OpToRel
<1>2. PICK n \in T : \A m \in T : ~ (<<m, n>> \in R)
  <2> HIDE DEF R
  <2>1. QED
    BY <1>1, WFMin
<1>3. \A m \in T : ~(m < n)
  BY <1>2
<1>4. QED
  BY <1>3

(* Induction from 0 to N: a set that holds 0 and every successor. *)
LEMMA SetInduction ==
    ASSUME NEW T, 0 \in T, NEW N \in Nat, \A n \in 0..N : n < N /\ n \in T => n + 1 \in T
    PROVE  0..N \subseteq T
<1> SUFFICES ASSUME ~(0..N \subseteq T) PROVE FALSE
  OBVIOUS
<1> DEFINE U == (0..N) \ T
<1>1. PICK n \in U : \A m \in U : n <= m
  <2>1. U \in SUBSET Nat /\ U # {}
    OBVIOUS
  <2>2. QED
    BY <2>1, LeastNat
<1>2. n # 0 /\ n - 1 \in 0..N /\ n - 1 < N /\ (n - 1) + 1 = n
  BY <1>1
<1>3. n - 1 \in T
  BY <1>1, <1>2
<1>4. QED
  BY <1>1, <1>2, <1>3

(* The image of a finite set under a function that is injective on it has  *)
(* as many elements as the set.                                            *)
LEMMA InjectiveImage ==
    ASSUME NEW S, IsFiniteSet(S), NEW f, \A x, y \in S : f[x] = f[y] => x = y
    PROVE  /\ IsFiniteSet({f[x] : x \in S})
           /\ Cardinality({f[x] : x \in S}) = Cardinality(S)
<1> DEFINE T == {f[x] : x \in S}
           g == [x \in S |-> f[x]]
<1>1. g \in Bijection(S, T)
  BY DEF Bijection, Injection, Surjection, IsInjective
<1>2. ExistsBijection(S, T)
  BY <1>1 DEF ExistsBijection
<1>3. QED
  <2> HIDE DEF T
  <2>1. IsFiniteSet(T) /\ Cardinality(T) = Cardinality(S)
    BY <1>2, FS_Bijection
  <2>2. QED
    BY <2>1 DEF T

-----------------------------------------------------------------------------
(* The inductive invariants *)

ParentAt(log, i) == IF i = 1 THEN NoSnapshot ELSE log[i - 1]

(* log has the snapshots of S in it, one each, each built on the one before. *)
Lists(log, S) ==
    /\ log \in Seq(Calls)
    /\ \A i, j \in 1..Len(log) : log[i] = log[j] => i = j
    /\ Hashes(S) = {log[i] : i \in 1..Len(log)}
    /\ \A s, t \in S : s.hash = t.hash => s = t
    /\ \A s \in S : \A i \in 1..Len(log) : s.hash = log[i] => s.parent = ParentAt(log, i)

IsLine(S) == \E log \in Seq(Calls) : Lists(log, S)

(* What a call that holds the lock has read still holds of the files. *)
ReadHolds(c) ==
    /\ call[c].st = "checked" => MayAppend(c)
    /\ call[c].st = "confirming" => call[c].got = {s \in files : s.hash = c}
    /\ call[c].st = "dropping" =>
          /\ files \subseteq call[c].got
          /\ \A s \in files : s.parent \in call[c].todo => s.hash \in call[c].todo

(* The types, and that the directory has finitely many files.              *)
TypeInv ==
    /\ TypeOK
    /\ IsFiniteSet(files)
    /\ \A c \in Calls : call[c].st = "confirming" => IsFiniteSet(call[c].got)

LineInv ==
    /\ TypeInv
    /\ ~tended => /\ IsLine(files)
                  /\ user.st \in {"idle", "exporting"}
                  /\ \A c \in Calls : ReadHolds(c)

(* A snapshot that is or becomes Confirmed is of an applied transaction. *)
Unsent == {"idle", "loading", "loaded", "appending", "checked", "recorded"}

Truthful(S) == \A s \in S : s.status = "Confirmed" => chain[s.hash] = "applied"

Confirms(c) ==
    /\ call[c].st \in Unsent => chain[c] = "none"
    /\ call[c].st \in {"confirm", "confirming"} => chain[c] = "applied"
    /\ call[c].st = "confirming" => \A s \in call[c].got : s.hash = c

TruthInv ==
    /\ TypeInv
    /\ Truthful(files) /\ Truthful(backup) /\ Truthful(user.got)
    /\ \A c \in Calls : Confirms(c)

(* With one call at a time: what is recorded at each step of a call, and   *)
(* that what it recorded is the head until it settled.                     *)
Settled == {"idle", "done"}

Alone == \A c, d \in Calls : call[c].st \notin Settled /\ call[d].st \notin Settled => c = d

InOrder(c) ==
    /\ call[c].st \in Unsent \ {"recorded"} => ~Recorded(c)
    /\ call[c].st = "loading" => call[c].got = {s \in files : s.hash \notin call[c].todo}
    /\ call[c].st \in {"loaded", "appending", "checked"} => JournalHead(files) = call[c].parent
    /\ call[c].st \in {"recorded", "waiting", "confirm", "confirming"} => Recorded(c)
    /\ call[c].st = "unsettled" /\ chain[c] \in {"none", "wire", "applied"} => Recorded(c)
    /\ call[c].st \in {"drop", "dropping"} => chain[c] \in {"failed", "dead"}
    /\ call[c].st = "dropping" => call[c].todo \subseteq {c} /\ (Recorded(c) => c \in call[c].todo)
    /\ call[c].st = "done" => /\ chain[c] \in {"applied", "failed", "dead"}
                              /\ Recorded(c) <=> chain[c] = "applied"
                              /\ \A s \in files : s.hash = c => s.status = "Confirmed"
    /\ call[c].st # "done" /\ Recorded(c) => JournalHead(files) = c

OrderInv ==
    /\ LineInv /\ TruthInv
    /\ ~tended
    /\ Alone
    /\ \A c \in Calls : InOrder(c)

-----------------------------------------------------------------------------
(* Lines *)

(* What a line is made of: one snapshot for every place of the log.        *)
LEMMA LineParts ==
    ASSUME NEW S, NEW log, Lists(log, S)
    PROVE  /\ log \in Seq(Calls) /\ Len(log) \in Nat /\ log \in [1..Len(log) -> Calls]
           /\ Hashes(S) = {log[i] : i \in 1..Len(log)}
           /\ \A i, j \in 1..Len(log) : log[i] = log[j] => i = j
           /\ \A s, t \in S : s.hash = t.hash => s = t
           /\ \A s \in S : \A i \in 1..Len(log) : s.hash = log[i] => s.parent = ParentAt(log, i)
           /\ \A i \in 1..Len(log) : log[i] \in Calls /\ log[i] # NoSnapshot
           /\ \A i \in 1..Len(log) :
                \E s \in S : s.hash = log[i] /\ s.parent = ParentAt(log, i)
           /\ \A s \in S :
                \E i \in 1..Len(log) : s.hash = log[i] /\ s.parent = ParentAt(log, i)
<1>1. /\ log \in Seq(Calls) /\ Len(log) \in Nat /\ log \in [1..Len(log) -> Calls]
      /\ Hashes(S) = {log[i] : i \in 1..Len(log)}
      /\ \A i, j \in 1..Len(log) : log[i] = log[j] => i = j
      /\ \A s, t \in S : s.hash = t.hash => s = t
      /\ \A s \in S : \A i \in 1..Len(log) : s.hash = log[i] => s.parent = ParentAt(log, i)
  BY DEF Lists
<1>2. \A i \in 1..Len(log) : log[i] \in Calls /\ log[i] # NoSnapshot
  BY <1>1, JournalAssumption
<1>3. \A i \in 1..Len(log) : \E s \in S : s.hash = log[i] /\ s.parent = ParentAt(log, i)
  <2> TAKE i \in 1..Len(log)
  <2>1. log[i] \in Hashes(S)
    BY <1>1
  <2>2. PICK s \in S : s.hash = log[i]
    BY <2>1 DEF Hashes
  <2>3. QED
    BY <1>1, <2>2
<1>4. \A s \in S : \E i \in 1..Len(log) : s.hash = log[i] /\ s.parent = ParentAt(log, i)
  <2> TAKE s \in S
  <2>1. s.hash \in {log[i] : i \in 1..Len(log)}
    BY <1>1 DEF Hashes
  <2>2. PICK i \in 1..Len(log) : s.hash = log[i]
    BY <2>1
  <2>3. QED
    BY <1>1, <2>2
<1>5. QED
  BY <1>1, <1>2, <1>3, <1>4

(* A snapshot's parent is at the place before its own.                     *)
LEMMA LineChild ==
    ASSUME NEW S, NEW log, Lists(log, S), NEW s \in S, NEW k \in 1..Len(log)
    PROVE  s.parent = log[k] <=> k < Len(log) /\ s.hash = log[k + 1]
<1>1. /\ Len(log) \in Nat
      /\ \A i, j \in 1..Len(log) : log[i] = log[j] => i = j
      /\ \A i \in 1..Len(log) : log[i] # NoSnapshot
  BY LineParts
<1>2. PICK i \in 1..Len(log) : s.hash = log[i] /\ s.parent = ParentAt(log, i)
  BY LineParts
<1>3. CASE i = 1
  BY <1>1, <1>2, <1>3 DEF ParentAt
<1>4. CASE i # 1
  <2>1. i - 1 \in 1..Len(log) /\ s.parent = log[i - 1]
    BY <1>1, <1>2, <1>4 DEF ParentAt
  <2>2. s.parent = log[k] <=> i - 1 = k
    BY <1>1, <2>1
  <2>3. k < Len(log) /\ s.hash = log[k + 1] <=> i - 1 = k
    BY <1>1, <1>2
  <2>4. QED
    BY <2>2, <2>3
<1>5. QED
  BY <1>3, <1>4

(* A line has as many snapshots as places.                                 *)
LEMMA LineCount ==
    ASSUME NEW S, NEW log, Lists(log, S)
    PROVE  IsFiniteSet(S) /\ Cardinality(S) = Len(log)
<1> DEFINE at == [i \in 1..Len(log) |-> CHOOSE s \in S : s.hash = log[i]]
<1>1. /\ Len(log) \in Nat
      /\ \A i, j \in 1..Len(log) : log[i] = log[j] => i = j
      /\ \A s, t \in S : s.hash = t.hash => s = t
      /\ \A i \in 1..Len(log) : \E s \in S : s.hash = log[i]
      /\ \A s \in S : \E i \in 1..Len(log) : s.hash = log[i]
  BY LineParts
<1>2. \A i \in 1..Len(log) : at[i] \in S /\ at[i].hash = log[i]
  BY <1>1
<1>3. S = {at[i] : i \in 1..Len(log)}
  <2> HIDE DEF at
  <2>1. {at[i] : i \in 1..Len(log)} \subseteq S
    BY <1>2
  <2>2. \A s \in S : \E i \in 1..Len(log) : s = at[i]
    BY <1>1, <1>2
  <2>3. QED
    BY <2>1, <2>2
<1>4. \A x, y \in 1..Len(log) : at[x] = at[y] => x = y
  <2> HIDE DEF at
  <2> QED BY <1>1, <1>2
<1>5. IsFiniteSet(1..Len(log)) /\ Cardinality(1..Len(log)) = Len(log)
  BY <1>1, FS_Interval
<1>6. QED
  <2> HIDE DEF at
  <2>1. /\ IsFiniteSet({at[i] : i \in 1..Len(log)})
        /\ Cardinality({at[i] : i \in 1..Len(log)}) = Cardinality(1..Len(log))
    BY <1>4, <1>5, InjectiveImage
  <2>2. QED
    BY <1>3, <1>5, <2>1

-----------------------------------------------------------------------------
(* The walk *)

(* reach is the function that Walk computes, up to N steps. *)
IsReach(reach, S, starts, N) ==
    reach = [n \in 0..N |->
                IF n = 0 THEN starts
                ELSE reach[n - 1] \cup {s.hash : s \in {t \in S : t.parent \in reach[n - 1]}}]

(* One function computes the walk, so its last value is the walk.          *)
LEMMA WalkIs ==
    ASSUME NEW S, NEW starts, NEW reach, IsReach(reach, S, starts, Cardinality(S)), Cardinality(S) \in Nat
    PROVE  Walk(S, starts) = reach[Cardinality(S)]
<1> DEFINE N == Cardinality(S)
           other == CHOOSE f : IsReach(f, S, starts, N)
           T == {n \in 0..N : other[n] = reach[n]}
<1>1. Walk(S, starts) = other[N]
  BY DEF Walk, IsReach
<1>2. IsReach(other, S, starts, N) /\ IsReach(reach, S, starts, N)
  OBVIOUS
<1>3. \A f : IsReach(f, S, starts, N) =>
        /\ f[0] = starts
        /\ \A n \in 0..N : n < N =>
             f[n + 1] = f[n] \cup {s.hash : s \in {t \in S : t.parent \in f[n]}}
  <2> SUFFICES ASSUME NEW f, IsReach(f, S, starts, N)
               PROVE  /\ f[0] = starts
                      /\ \A n \in 0..N : n < N =>
                           f[n + 1] = f[n] \cup {s.hash : s \in {t \in S : t.parent \in f[n]}}
    OBVIOUS
  <2>1. \A n \in 0..N :
          f[n] = IF n = 0 THEN starts
                 ELSE f[n - 1] \cup {s.hash : s \in {t \in S : t.parent \in f[n - 1]}}
    BY Zenon DEF IsReach
  <2> HIDE DEF N
  <2>2. N \in Nat
    BY DEF N
  <2>3. f[0] = starts
    <3>1. 0 \in 0..N
      BY <2>2
    <3>2. QED
      BY <2>1, <3>1, Zenon
  <2>4. ASSUME NEW n \in 0..N, n < N
        PROVE  f[n + 1] = f[n] \cup {s.hash : s \in {t \in S : t.parent \in f[n]}}
    <3>1. n + 1 \in 0..N /\ n + 1 # 0 /\ (n + 1) - 1 = n
      BY <2>2, <2>4
    <3>2. QED
      BY <2>1, <3>1
  <2>5. QED
    BY <2>3, <2>4
<1>4. 0..N \subseteq T
  <2> HIDE DEF other
  <2>1. N \in Nat
    OBVIOUS
  <2> HIDE DEF N
  <2>2. 0 \in T
    BY <1>2, <1>3, <2>1
  <2>3. \A n \in 0..N : n < N /\ n \in T => n + 1 \in T
    <3> SUFFICES ASSUME NEW n \in 0..N, n < N, other[n] = reach[n]
                 PROVE  n + 1 \in 0..N /\ other[n + 1] = reach[n + 1]
      OBVIOUS
    <3>1. n + 1 \in 0..N
      BY <2>1
    <3>2. other[n + 1] = other[n] \cup {s.hash : s \in {t \in S : t.parent \in other[n]}}
      BY <1>2, <1>3, Zenon
    <3>3. reach[n + 1] = reach[n] \cup {s.hash : s \in {t \in S : t.parent \in reach[n]}}
      BY <1>2, <1>3, Zenon
    <3>4. QED
      BY <3>1, <3>2, <3>3
  <2> HIDE DEF T
  <2>4. QED
    BY <2>1, <2>2, <2>3, SetInduction
<1>5. N \in 0..N
  OBVIOUS
<1>6. QED
  <2> HIDE DEF other, N
  <2>1. other[N] = reach[N]
    BY <1>4, <1>5
  <2>2. QED
    BY <1>1, <2>1 DEF N

(* There is such a function for every number of steps, so a walk ends      *)
(* among the calls.                                                        *)
LEMMA WalkAmongCalls ==
    ASSUME NEW S \in SUBSET Snapshot, IsFiniteSet(S), NEW starts \in SUBSET Calls
    PROVE  Walk(S, starts) \subseteq Calls
<1> DEFINE Further(X) == X \cup {s.hash : s \in {t \in S : t.parent \in X}}
           T == {n \in Nat : \E f \in [0..n -> SUBSET Calls] : IsReach(f, S, starts, n)}
           N == Cardinality(S)
<1>1. N \in Nat
  BY FS_CardinalityType
<1>2. \A X \in SUBSET Calls : Further(X) \in SUBSET Calls
  BY DEF Snapshot
<1>3. 0 \in T
  <2> DEFINE f == [n \in 0..0 |-> starts]
  <2>1. f \in [0..0 -> SUBSET Calls] /\ IsReach(f, S, starts, 0)
    BY DEF IsReach
  <2>2. QED
    BY <2>1
<1>4. ASSUME NEW n \in 0..N, n < N, n \in T
      PROVE  n + 1 \in T
  <2>1. PICK f \in [0..n -> SUBSET Calls] : IsReach(f, S, starts, n)
    BY <1>4
  <2> DEFINE g == [m \in 0..(n + 1) |-> IF m = n + 1 THEN Further(f[n]) ELSE f[m]]
  <2>2. n \in Nat /\ n \in 0..n /\ n + 1 \in Nat
    BY <1>1, <1>4
  <2>3. g \in [0..(n + 1) -> SUBSET Calls]
    <3>1. \A m \in 0..(n + 1) : m # n + 1 => m \in 0..n
      BY <2>2
    <3> HIDE DEF Further
    <3>2. Further(f[n]) \in SUBSET Calls
      BY <1>2, <2>2
    <3>3. QED
      BY <3>1, <3>2
  <2>4. \A m \in 0..n : f[m] = IF m = 0 THEN starts ELSE Further(f[m - 1])
    BY <2>1, Zenon DEF IsReach
  <2>5. ASSUME NEW m \in 0..(n + 1)
        PROVE  g[m] = IF m = 0 THEN starts ELSE Further(g[m - 1])
    <3> HIDE DEF Further
    <3>1. CASE m = n + 1
      <4>1. m # 0 /\ m - 1 = n /\ n \in 0..(n + 1) /\ n # n + 1
        BY <2>2, <3>1
      <4>2. g[n] = f[n]
        BY <4>1
      <4>3. QED
        BY <3>1, <4>1, <4>2
    <3>2. CASE m # n + 1
      <4>1. m \in 0..n /\ g[m] = f[m]
        BY <2>2, <3>2
      <4>2. m # 0 => m - 1 \in 0..(n + 1) /\ m - 1 # n + 1
        BY <2>2, <3>2
      <4>3. m # 0 => g[m - 1] = f[m - 1]
        BY <4>2
      <4> HIDE DEF g
      <4>4. QED
        BY <2>4, <4>1, <4>3
    <3>3. QED
      BY <3>1, <3>2
  <2>6. IsReach(g, S, starts, n + 1)
    <3>1. g = [m \in 0..(n + 1) |-> g[m]]
      OBVIOUS
    <3> HIDE DEF g
    <3>2. QED
      BY <2>5, <3>1 DEF IsReach
  <2>7. QED
    <3> HIDE DEF g
    <3> QED BY <2>2, <2>3, <2>6
<1>5. 0..N \subseteq T
  <2> HIDE DEF T, N
  <2> QED BY <1>1, <1>3, <1>4, SetInduction
<1>6. PICK f \in [0..N -> SUBSET Calls] : IsReach(f, S, starts, N)
  <2>1. N \in 0..N
    BY <1>1
  <2> HIDE DEF N
  <2>2. QED
    BY <1>5, <2>1
<1>7. Walk(S, starts) = f[N]
  BY <1>1, <1>6, WalkIs
<1>8. QED
  BY <1>1, <1>6, <1>7

(* On a line, the walk from a snapshot goes on to the end.                 *)
LEMMA LineWalk ==
    ASSUME NEW S, NEW log, Lists(log, S), NEW k \in 1..Len(log)
    PROVE  Walk(S, {log[k]}) = {log[j] : j \in k..Len(log)}
<1> DEFINE N == Len(log)
           Upto(m) == {log[j] : j \in {i \in k..N : i <= k + m}}
           reach == [m \in 0..N |-> Upto(m)]
<1>1. /\ N \in Nat /\ k \in 1..N /\ IsFiniteSet(S) /\ Cardinality(S) = N
      /\ \A i \in 1..N : \E s \in S : s.hash = log[i] /\ s.parent = ParentAt(log, i)
  BY LineParts, LineCount
<1>2. Upto(0) = {log[k]}
  BY <1>1
<1>3. ASSUME NEW m \in 0..N, m < N
      PROVE  Upto(m + 1) = Upto(m) \cup {s.hash : s \in {t \in S : t.parent \in Upto(m)}}
  <2>1. ASSUME NEW s \in S, s.parent \in Upto(m)
        PROVE  s.hash \in Upto(m + 1)
    <3>1. PICK j \in k..N : j <= k + m /\ s.parent = log[j]
      BY <2>1
    <3>2. j \in 1..Len(log) /\ j \in Nat /\ k \in Nat /\ m \in Nat
      BY <1>1
    <3>3. j < N /\ s.hash = log[j + 1]
      BY <3>1, <3>2, LineChild
    <3>4. j + 1 \in k..N /\ j + 1 <= k + (m + 1)
      BY <1>1, <3>1, <3>2, <3>3
    <3>5. QED
      BY <3>3, <3>4
  <2>2. ASSUME NEW j \in k..N, j <= k + (m + 1), ~(j <= k + m)
        PROVE  \E s \in S : s.parent \in Upto(m) /\ s.hash = log[j]
    <3>1. j = k + m + 1 /\ j - 1 \in k..N /\ j - 1 <= k + m /\ j - 1 \in 1..Len(log)
          /\ j # 1 /\ j \in 1..Len(log)
      BY <1>1, <2>2
    <3>2. PICK s \in S : s.hash = log[j] /\ s.parent = ParentAt(log, j)
      BY <1>1, <3>1
    <3>3. s.parent = log[j - 1]
      BY <3>1, <3>2 DEF ParentAt
    <3>4. QED
      BY <3>1, <3>2, <3>3
  <2>3. \A j \in k..N : j <= k + m => j <= k + (m + 1)
    BY <1>1
  <2>4. Upto(m) \subseteq Upto(m + 1)
    BY <2>3
  <2>5. \A x \in Upto(m + 1) :
          x \in Upto(m) \/ \E s \in S : s.parent \in Upto(m) /\ s.hash = x
    BY <2>2
  <2> HIDE DEF Upto
  <2>6. QED
    BY <2>1, <2>4, <2>5
<1>4. IsReach(reach, S, {log[k]}, N)
  <2>1. ASSUME NEW m \in 0..N
        PROVE  reach[m] = IF m = 0 THEN {log[k]}
                          ELSE reach[m - 1] \cup {s.hash : s \in {t \in S : t.parent \in reach[m - 1]}}
    <3>1. CASE m = 0
      <4> HIDE DEF Upto
      <4> QED BY <1>2, <3>1
    <3>2. CASE m # 0
      <4>1. m - 1 \in 0..N /\ m - 1 < N /\ (m - 1) + 1 = m
        BY <1>1, <3>2
      <4>2. Upto((m - 1) + 1)
               = Upto(m - 1) \cup {s.hash : s \in {t \in S : t.parent \in Upto(m - 1)}}
        <5> HIDE DEF Upto
        <5> QED BY <1>3, <4>1
      <4>3. reach[m] = Upto(m) /\ reach[m - 1] = Upto(m - 1)
        <5> HIDE DEF Upto
        <5> QED BY <4>1
      <4> HIDE DEF Upto, reach
      <4>4. QED
        BY <3>2, <4>1, <4>2, <4>3
    <3>3. QED
      BY <3>1, <3>2
  <2>2. reach = [m \in 0..N |-> reach[m]]
    OBVIOUS
  <2> HIDE DEF reach
  <2>3. QED
    BY <1>1, <2>1, <2>2 DEF IsReach
<1>5. Walk(S, {log[k]}) = reach[N]
  <2> HIDE DEF reach
  <2> QED BY <1>1, <1>4, WalkIs
<1>6. reach[N] = Upto(N)
  BY <1>1
<1>7. Upto(N) = {log[j] : j \in k..N}
  <2>1. {i \in k..N : i <= k + N} = k..N
    BY <1>1
  <2>2. QED
    BY <2>1
<1>8. QED
  BY <1>5, <1>6, <1>7

-----------------------------------------------------------------------------
(* The leaf of a line *)

(* A line has one leaf, which is its last snapshot, and one root, its      *)
(* first, which reaches all.                                               *)
LEMMA LineFinds ==
    ASSUME NEW S, NEW log, Lists(log, S)
    PROVE  /\ FindsLeaf(S)
           /\ JournalHead(S) = IF log = <<>> THEN NoSnapshot ELSE log[Len(log)]
           /\ S = {} <=> log = <<>>
<1> DEFINE N == Len(log)
<1>1. /\ N \in Nat /\ log \in Seq(Calls)
      /\ Hashes(S) = {log[i] : i \in 1..N}
      /\ \A i, j \in 1..N : log[i] = log[j] => i = j
      /\ \A s, t \in S : s.hash = t.hash => s = t
      /\ \A i \in 1..N : log[i] # NoSnapshot
      /\ \A i \in 1..N : \E s \in S : s.hash = log[i] /\ s.parent = ParentAt(log, i)
      /\ \A s \in S : \E i \in 1..N : s.hash = log[i] /\ s.parent = ParentAt(log, i)
  BY LineParts
<1>2. (S = {} <=> N = 0) /\ (N = 0 <=> log = <<>>)
  <2>1. N = 0 <=> log = <<>>
    BY <1>1, EmptySeq
  <2>2. N = 0 => 1..N = {}
    BY <1>1
  <2>3. N # 0 => 1 \in 1..N
    BY <1>1
  <2>4. QED
    BY <1>1, <2>1, <2>2, <2>3
<1>3. CASE N = 0
  BY <1>2, <1>3 DEF FindsLeaf, JournalHead
<1>4. CASE N # 0
  <2>1. N \in 1..N /\ 1 \in 1..N
    BY <1>1, <1>4
  <2>2. PICK last \in S : last.hash = log[N]
    BY <1>1, <2>1
  <2>3. \A s \in S : s \in Leaves(S) <=> s = last
    <3>1. \A t \in S : t.parent # last.hash
      BY <1>1, <2>1, <2>2, LineChild
    <3>2. ASSUME NEW s \in S, s # last
          PROVE  \E t \in S : t.parent = s.hash
      <4>1. PICK i \in 1..N : s.hash = log[i]
        BY <1>1
      <4>2. i # N
        BY <1>1, <2>2, <3>2, <4>1
      <4>3. i + 1 \in 1..N /\ i < N
        BY <1>1, <4>2
      <4>4. PICK t \in S : t.hash = log[i + 1]
        BY <1>1, <4>3
      <4>5. t.parent = log[i]
        BY <4>3, <4>4, LineChild
      <4>6. QED
        BY <4>1, <4>5
    <3>3. QED
      BY <3>1, <3>2 DEF Leaves
  <2>4. Leaves(S) = {last}
    BY <2>3 DEF Leaves
  <2>5. Cardinality(Leaves(S)) = 1
    BY <2>4, FS_Singleton
  <2>6. JournalHead(S) = log[N]
    BY <1>2, <1>4, <2>2, <2>4 DEF JournalHead
  <2>7. Hashes(Roots(S)) = {log[1]}
    <3>1. PICK first \in S : first.hash = log[1] /\ first.parent = ParentAt(log, 1)
      BY <1>1, <2>1
    <3>2. first \in Roots(S)
      BY <3>1 DEF ParentAt, Roots
    <3>3. ASSUME NEW s \in Roots(S)
          PROVE  s.hash = log[1]
      <4>1. PICK i \in 1..N : s.hash = log[i] /\ s.parent = ParentAt(log, i)
        BY <1>1 DEF Roots
      <4>2. i = 1
        <5> SUFFICES ASSUME i # 1 PROVE FALSE
          OBVIOUS
        <5>1. i - 1 \in 1..N
          BY <1>1
        <5>2. QED
          BY <1>1, <4>1, <5>1 DEF ParentAt, Roots
      <4>3. QED
        BY <4>1, <4>2
    <3>4. QED
      BY <3>1, <3>2, <3>3 DEF Hashes
  <2>8. Walk(S, {log[1]}) = Hashes(S)
    BY <1>1, <2>1, LineWalk
  <2>9. QED
    BY <1>2, <1>4, <2>5, <2>6, <2>7, <2>8 DEF FindsLeaf
<1>5. QED
  BY <1>3, <1>4

-----------------------------------------------------------------------------
(* Changes of a line *)

(* A snapshot built on the head makes the line longer.                     *)
LEMMA LineLonger ==
    ASSUME NEW S, NEW log, Lists(log, S), NEW new,
           new.hash \in Calls, new.hash \notin Hashes(S), new.parent = JournalHead(S)
    PROVE  Lists(Append(log, new.hash), S \cup {new})
<1> DEFINE N == Len(log)
           longer == Append(log, new.hash)
           T == S \cup {new}
<1>1. /\ N \in Nat /\ log \in Seq(Calls)
      /\ Hashes(S) = {log[i] : i \in 1..N}
      /\ \A i, j \in 1..N : log[i] = log[j] => i = j
      /\ \A s, t \in S : s.hash = t.hash => s = t
      /\ \A s \in S : \A i \in 1..N : s.hash = log[i] => s.parent = ParentAt(log, i)
  BY LineParts
<1>2. /\ longer \in Seq(Calls) /\ Len(longer) = N + 1 /\ longer[N + 1] = new.hash
      /\ \A i \in 1..N : longer[i] = log[i]
  BY <1>1, AppendProperties
<1>3. new.parent = ParentAt(longer, N + 1)
  <2>1. N = 0 <=> log = <<>>
    BY <1>1, EmptySeq
  <2>2. new.parent = IF N = 0 THEN NoSnapshot ELSE log[N]
    BY <2>1, LineFinds
  <2> HIDE DEF longer
  <2>3. QED
    BY <1>1, <1>2, <2>2 DEF ParentAt
<1>4. \A i \in 1..N : ParentAt(longer, i) = ParentAt(log, i)
  <2> HIDE DEF longer
  <2> QED BY <1>1, <1>2 DEF ParentAt
<1>5. \A i \in 1..N : log[i] # new.hash
  BY <1>1
<1>6. \A i \in 1..(N + 1) : i \in 1..N \/ i = N + 1
  BY <1>1
<1>7. \A i, j \in 1..(N + 1) : longer[i] = longer[j] => i = j
  <2> HIDE DEF longer
  <2> QED BY <1>1, <1>2, <1>5, <1>6
<1>8. Hashes(T) = {longer[i] : i \in 1..(N + 1)}
  <2>1. Hashes(T) = Hashes(S) \cup {new.hash}
    BY DEF Hashes
  <2>2. 1..(N + 1) = (1..N) \cup {N + 1}
    BY <1>1
  <2> HIDE DEF longer, T
  <2>3. \A x : (\E i \in 1..(N + 1) : x = longer[i])
              <=> (\E i \in 1..N : x = log[i]) \/ x = new.hash
    <3>1. N + 1 \in 1..(N + 1)
      BY <1>1
    <3>2. QED
      BY <1>2, <1>6, <2>2, <3>1
  <2>4. \A x : x \in Hashes(T) <=> (\E i \in 1..N : x = log[i]) \/ x = new.hash
    BY <1>1, <2>1
  <2>5. \A x : x \in Hashes(T) <=> \E i \in 1..(N + 1) : x = longer[i]
    BY <2>3, <2>4, Zenon
  <2>6. QED
    BY <2>5
<1>9. \A s, t \in T : s.hash = t.hash => s = t
  BY <1>1 DEF Hashes
<1>10. \A s \in T : \A i \in 1..(N + 1) : s.hash = longer[i] => s.parent = ParentAt(longer, i)
  <2> TAKE s \in T
  <2> TAKE i \in 1..(N + 1)
  <2> HAVE s.hash = longer[i]
  <2> HIDE DEF longer
  <2>1. CASE i = N + 1
    <3>1. s = new
      BY <1>2, <1>9, <2>1
    <3>2. QED
      BY <1>3, <2>1, <3>1
  <2>2. CASE i \in 1..N
    <3>1. s # new
      BY <1>2, <1>5, <2>2
    <3>2. QED
      BY <1>1, <1>2, <1>4, <2>2, <3>1
  <2>3. QED
    BY <1>6, <2>1, <2>2
<1>11. QED
  <2> HIDE DEF longer, T
  <2>1. Lists(longer, T)
    BY <1>2, <1>7, <1>8, <1>9, <1>10 DEF Lists
  <2>2. QED
    BY <2>1 DEF longer, T

(* A snapshot on which nothing is built is the last one, and without it    *)
(* the line is shorter by one.                                             *)
LEMMA LineShorter ==
    ASSUME NEW S, NEW log, Lists(log, S), NEW h \in Hashes(S), \A s \in S : s.parent # h
    PROVE  /\ log # <<>> /\ h = log[Len(log)]
           /\ Lists(SubSeq(log, 1, Len(log) - 1), {s \in S : s.hash # h})
<1> DEFINE N == Len(log)
           shorter == SubSeq(log, 1, N - 1)
           T == {s \in S : s.hash # h}
<1>1. /\ N \in Nat /\ log \in Seq(Calls)
      /\ Hashes(S) = {log[i] : i \in 1..N}
      /\ \A i, j \in 1..N : log[i] = log[j] => i = j
      /\ \A s, t \in S : s.hash = t.hash => s = t
      /\ \A s \in S : \A i \in 1..N : s.hash = log[i] => s.parent = ParentAt(log, i)
      /\ \A i \in 1..N : \E s \in S : s.hash = log[i] /\ s.parent = ParentAt(log, i)
  BY LineParts
<1>2. PICK n \in 1..N : h = log[n]
  BY <1>1
<1>3. n = N
  <2> SUFFICES ASSUME n # N PROVE FALSE
    OBVIOUS
  <2>1. n + 1 \in 1..N /\ n + 1 # 1 /\ (n + 1) - 1 = n
    BY <1>1
  <2>2. PICK s \in S : s.hash = log[n + 1] /\ s.parent = ParentAt(log, n + 1)
    BY <1>1, <2>1
  <2>3. QED
    BY <1>2, <2>1, <2>2 DEF ParentAt
<1>4. N # 0 /\ N - 1 \in Nat /\ 1..(N - 1) \subseteq 1..N /\ log # <<>>
  BY <1>1, <1>2
<1>5. /\ shorter \in Seq(Calls) /\ Len(shorter) = N - 1
      /\ \A i \in 1..(N - 1) : shorter[i] = log[i]
  <2>1. /\ N - 1 \in Int /\ 1 \in Int
        /\ \A i \in 1..(N - 1) : log[i] \in Calls
    BY <1>1, <1>4, LineParts
  <2>2. /\ SubSeq(log, 1, N - 1) \in Seq(Calls)
        /\ Len(SubSeq(log, 1, N - 1)) = IF 1 <= N - 1 THEN (N - 1) - 1 + 1 ELSE 0
        /\ \A i \in 1..((N - 1) - 1 + 1) : SubSeq(log, 1, N - 1)[i] = log[1 + i - 1]
    <3> HIDE DEF N
    <3> QED BY <2>1, SubSeqProperties
  <2>3. \A i \in 1..(N - 1) : SubSeq(log, 1, N - 1)[i] = log[i]
    <3> TAKE i \in 1..(N - 1)
    <3>1. i \in 1..((N - 1) - 1 + 1) /\ 1 + i - 1 = i
      BY <1>1, <1>4
    <3>2. QED
      BY <2>2, <3>1
  <2>4. Len(SubSeq(log, 1, N - 1)) = N - 1
    <3> DEFINE size == Len(SubSeq(log, 1, N - 1))
    <3>1. size = IF 1 <= N - 1 THEN (N - 1) - 1 + 1 ELSE 0
      BY <2>2
    <3> HIDE DEF size, N
    <3>2. size = N - 1
      BY <1>1, <1>4, <3>1
    <3>3. QED
      BY <3>2 DEF size
  <2>5. QED
    <3> HIDE DEF N
    <3> QED BY <2>2, <2>3, <2>4
<1>6. \A i \in 1..(N - 1) : ParentAt(shorter, i) = ParentAt(log, i)
  <2> HIDE DEF shorter
  <2> QED BY <1>1, <1>4, <1>5 DEF ParentAt
<1>7. \A i \in 1..N : log[i] # h <=> i \in 1..(N - 1)
  BY <1>1, <1>2, <1>3
<1>8. Hashes(T) = {shorter[i] : i \in 1..(N - 1)}
  <2> HIDE DEF shorter
  <2>1. \A x : x \in Hashes(T) <=> x \in Hashes(S) /\ x # h
    BY DEF Hashes
  <2>2. \A x : x \in Hashes(S) /\ x # h <=> \E i \in 1..(N - 1) : x = log[i]
    BY <1>1, <1>4, <1>7
  <2>3. QED
    BY <1>5, <2>1, <2>2
<1>9. \A i, j \in 1..(N - 1) : shorter[i] = shorter[j] => i = j
  <2> HIDE DEF shorter
  <2> QED BY <1>1, <1>4, <1>5
<1>10. \A s \in T : \A i \in 1..(N - 1) : s.hash = shorter[i] => s.parent = ParentAt(shorter, i)
  <2> HIDE DEF shorter
  <2> QED BY <1>1, <1>4, <1>5, <1>6
<1>11. QED
  <2>1. \A s, t \in T : s.hash = t.hash => s = t
    BY <1>1
  <2> HIDE DEF shorter, T
  <2>2. Lists(shorter, T)
    BY <1>5, <1>8, <1>9, <1>10, <2>1 DEF Lists
  <2>3. QED
    BY <1>2, <1>3, <1>4, <2>2 DEF shorter, T

(* A line is a matter of the hashes and the parents of its snapshots.      *)
LEMMA LineSame ==
    ASSUME NEW S, NEW log, Lists(log, S), NEW T,
           \A t \in T : \E s \in S : t.hash = s.hash /\ t.parent = s.parent,
           Hashes(S) \subseteq Hashes(T),
           \A s, t \in T : s.hash = t.hash => s = t
    PROVE  Lists(log, T)
<1>1. Hashes(T) = Hashes(S)
  BY DEF Hashes
<1>2. QED
  BY <1>1 DEF Lists

(* Nothing is a line, and a line with one more snapshot on its head, or    *)
(* without its leaf, is one.                                               *)
LEMMA EmptyLine == Lists(<<>>, {})
<1>1. <<>> \in Seq(Calls) /\ Len(<<>>) = 0 /\ 1..0 = {}
  BY EmptySeq
<1>2. QED
  BY <1>1 DEF Lists, Hashes

LEMMA AppendedLine ==
    ASSUME NEW S, IsLine(S), NEW new,
           new.hash \in Calls, new.hash \notin Hashes(S), new.parent = JournalHead(S)
    PROVE  /\ IsLine(S \cup {new})
           /\ JournalHead(S \cup {new}) = new.hash
<1>1. PICK log \in Seq(Calls) : Lists(log, S)
  BY DEF IsLine
<1>2. Lists(Append(log, new.hash), S \cup {new})
  BY <1>1, LineLonger
<1>3. /\ Append(log, new.hash) \in Seq(Calls) /\ Append(log, new.hash) # <<>>
      /\ Append(log, new.hash)[Len(Append(log, new.hash))] = new.hash
  BY <1>1, AppendProperties
<1>4. QED
  <2> DEFINE longer == Append(log, new.hash)
  <2>1. Lists(longer, S \cup {new}) /\ longer \in Seq(Calls) /\ longer # <<>> /\ longer[Len(longer)] = new.hash
    BY <1>2, <1>3
  <2> HIDE DEF longer
  <2>2. QED
    BY <2>1, LineFinds DEF IsLine

LEMMA CutLine ==
    ASSUME NEW S, IsLine(S), NEW h, \A s \in S : s.parent # h
    PROVE  /\ IsLine({s \in S : s.hash # h})
           /\ h \in Hashes(S) => JournalHead(S) = h
<1>1. PICK log \in Seq(Calls) : Lists(log, S)
  BY DEF IsLine
<1>2. CASE h \in Hashes(S)
  <2>1. /\ log # <<>> /\ h = log[Len(log)]
        /\ Lists(SubSeq(log, 1, Len(log) - 1), {s \in S : s.hash # h})
    BY <1>1, <1>2, LineShorter
  <2>2. JournalHead(S) = h
    BY <1>1, <2>1, LineFinds
  <2>3. SubSeq(log, 1, Len(log) - 1) \in Seq(Calls)
    BY <2>1 DEF Lists
  <2>4. QED
    BY <2>1, <2>2, <2>3 DEF IsLine
<1>3. CASE h \notin Hashes(S)
  <2>1. {s \in S : s.hash # h} = S
    BY <1>3 DEF Hashes
  <2>2. QED
    BY <1>3, <2>1
<1>4. QED
  BY <1>2, <1>3

-----------------------------------------------------------------------------
(* What the steps of a call do *)

(* The leaf that was found is a call.                                      *)
LEMMA HeadIsCall ==
    ASSUME NEW S \in SUBSET Snapshot, FindsLeaf(S)
    PROVE  JournalHead(S) \in Calls \cup {NoSnapshot}
<1>1. CASE S = {}
  BY <1>1 DEF JournalHead
<1>2. CASE S # {}
  <2>1. Cardinality(Leaves(S)) = 1
    BY <1>2 DEF FindsLeaf
  <2>2. Leaves(S) # {}
    BY <2>1, FS_EmptySet
  <2>3. (CHOOSE s \in Leaves(S) : TRUE) \in Snapshot
    BY <2>2 DEF Leaves
  <2>4. QED
    BY <1>2, <2>3 DEF JournalHead, Snapshot
<1>3. QED
  BY <1>1, <1>2

(* Only c's record changes. *)
Moves(c) == call' \in [Calls -> Call] /\ \A d \in Calls : d # c => call'[d] = call[d]

LEMMA NotStartedIsCall ==
    /\ NotStarted \in Call
    /\ NotStarted.st = "idle" /\ NotStarted.todo = {} /\ NotStarted.got = {}
  BY DEF NotStarted, Call, Steps, Locked

LEMMA GoToMoves ==
    ASSUME call \in [Calls -> Call], NEW c \in Calls, NEW step \in Steps, GoTo(c, step)
    PROVE  Moves(c) /\ call'[c].st = step /\ call'[c].todo = {} /\ call'[c].got = {}
<1>1. [NotStarted EXCEPT !.st = step] = [st |-> step, parent |-> NoSnapshot, todo |-> {}, got |-> {}]
  BY DEF NotStarted
<1>2. [NotStarted EXCEPT !.st = step] \in Call
  BY <1>1 DEF Call
<1>3. QED
  BY <1>1, <1>2 DEF GoTo, Moves

LEMMA SetStepMoves ==
    ASSUME call \in [Calls -> Call], NEW c \in Calls, NEW step \in Steps,
           call' = [call EXCEPT ![c].st = step]
    PROVE  /\ Moves(c) /\ call'[c].st = step /\ call'[c].parent = call[c].parent
           /\ call'[c].todo = call[c].todo /\ call'[c].got = call[c].got
  BY DEF Moves, Call

(* The record of the call after each of its steps. *)
LEMMA LoadEffects ==
    ASSUME call \in [Calls -> Call], files \subseteq Snapshot, NEW c \in Calls
    PROVE  /\ StartLoad(c) =>
                /\ Moves(c) /\ call'[c].st = "loading"
                /\ call'[c].todo = Hashes(files) /\ call'[c].got = {}
           /\ \A h \in Calls : ReadFile(c, h) =>
                /\ Moves(c) /\ call'[c].st = "loading" /\ call'[c].todo = call[c].todo \ {h}
                /\ call'[c].got = call[c].got \cup {s \in files : s.hash = h}
           /\ Loaded(c) =>
                /\ Moves(c) /\ call'[c].st \in {"loaded", "idle"}
                /\ call'[c].st = "loaded" => /\ FindsLeaf(call[c].got)
                                             /\ call'[c].parent = JournalHead(call[c].got)
<1>1. Hashes(files) \subseteq Calls
  BY DEF Hashes, Snapshot
<1>2. ASSUME StartLoad(c)
      PROVE  /\ Moves(c) /\ call'[c].st = "loading"
             /\ call'[c].todo = Hashes(files) /\ call'[c].got = {}
  <2> DEFINE new == [NotStarted EXCEPT !.st = "loading", !.todo = Hashes(files)]
  <2>1. "loading" \in Steps
    BY DEF Steps
  <2>2. new \in Call /\ new.st = "loading" /\ new.todo = Hashes(files) /\ new.got = {}
    <3> DEFINE todo == Hashes(files)
    <3>1. new = [NotStarted EXCEPT !.st = "loading", !.todo = todo]
      OBVIOUS
    <3> HIDE DEF new, todo
    <3>2. todo \in SUBSET Calls
      BY <1>1 DEF todo
    <3>3. new \in Call /\ new.st = "loading" /\ new.todo = todo /\ new.got = NotStarted.got
      BY <3>1, <3>2, NotStartedIsCall DEF Call, Steps
    <3>4. QED
      BY <3>3, NotStartedIsCall DEF todo
  <2>3. call' = [call EXCEPT ![c] = new]
    BY <1>2 DEF StartLoad
  <2> HIDE DEF new
  <2>4. QED
    BY <2>2, <2>3 DEF Moves
<1>3. ASSUME NEW h \in Calls, ReadFile(c, h)
      PROVE  /\ Moves(c) /\ call'[c].st = "loading" /\ call'[c].todo = call[c].todo \ {h}
             /\ call'[c].got = call[c].got \cup {s \in files : s.hash = h}
  <2>1. /\ call[c].st = "loading" /\ call[c].todo \ {h} \subseteq Calls
        /\ call[c].got \cup {s \in files : s.hash = h} \subseteq Snapshot
    BY <1>3 DEF ReadFile, Call
  <2>2. call' = [call EXCEPT ![c].todo = @ \ {h}, ![c].got = @ \cup {s \in files : s.hash = h}]
    BY <1>3 DEF ReadFile
  <2> DEFINE todo == call[c].todo \ {h}
             got  == call[c].got \cup {s \in files : s.hash = h}
             new  == [call[c] EXCEPT !.todo = todo, !.got = got]
  <2>3. call' = [call EXCEPT ![c] = new]
    BY <2>2
  <2>4. new \in Call /\ new.st = "loading" /\ new.todo = todo /\ new.got = got
    <3>1. todo \in SUBSET Calls /\ got \in SUBSET Snapshot
      BY <2>1
    <3> DEFINE old == call[c]
    <3>2. old \in Call /\ old.st = "loading" /\ new = [old EXCEPT !.todo = todo, !.got = got]
      BY <2>1
    <3> HIDE DEF old, new, todo, got
    <3>3. QED
      BY <3>1, <3>2 DEF Call
  <2> HIDE DEF new
  <2>5. QED
    BY <2>3, <2>4 DEF Moves
<1>4. ASSUME Loaded(c)
      PROVE  /\ Moves(c) /\ call'[c].st \in {"loaded", "idle"}
             /\ call'[c].st = "loaded" => /\ FindsLeaf(call[c].got)
                                          /\ call'[c].parent = JournalHead(call[c].got)
  <2> DEFINE head == JournalHead(call[c].got)
             new  == [NotStarted EXCEPT !.st = "loaded", !.parent = head]
  <2>1. CASE FindsLeaf(call[c].got)
    <3>1. call[c].got \in SUBSET Snapshot
      BY DEF Call
    <3>2. head \in Calls \cup {NoSnapshot}
      BY <2>1, <3>1, HeadIsCall
    <3>3. new \in Call /\ new.st = "loaded" /\ new.parent = head
      <4>1. "loaded" \in Steps
        BY DEF Steps
      <4>2. new = [NotStarted EXCEPT !.st = "loaded", !.parent = head]
        OBVIOUS
      <4> HIDE DEF new, head
      <4>3. QED
        BY <3>2, <4>1, <4>2, NotStartedIsCall DEF Call
    <3>4. call' = [call EXCEPT ![c] = new]
      BY <1>4, <2>1 DEF Loaded
    <3> HIDE DEF new
    <3>5. QED
      BY <2>1, <3>3, <3>4 DEF Moves
  <2>2. CASE ~FindsLeaf(call[c].got)
    <3>1. GoTo(c, "idle") /\ "idle" \in Steps
      BY <1>4, <2>2 DEF Loaded, Steps
    <3>2. QED
      BY <3>1, GoToMoves
  <2>3. QED
    BY <2>1, <2>2
<1>5. QED
  BY <1>2, <1>3, <1>4

LEMMA AppendEffects ==
    ASSUME call \in [Calls -> Call], NEW c \in Calls
    PROVE  /\ StartAppend(c) =>
                Moves(c) /\ call'[c].st = "appending" /\ call'[c].parent = call[c].parent
           /\ CheckAppend(c) =>
                \/ /\ MayAppend(c) /\ Moves(c) /\ call'[c].st = "checked"
                   /\ call'[c].parent = call[c].parent /\ lock' = lock
                \/ ~MayAppend(c) /\ Moves(c) /\ call'[c].st = "idle" /\ lock' = NoSnapshot
           /\ WriteSnapshot(c) => Moves(c) /\ call'[c].st = "recorded"
           /\ WriteFails(c) => Moves(c) /\ call'[c].st = "idle"
<1>1. {"appending", "checked", "idle", "recorded"} \subseteq Steps
  BY DEF Steps, Locked
<1>2. StartAppend(c) => Moves(c) /\ call'[c].st = "appending" /\ call'[c].parent = call[c].parent
  BY <1>1, SetStepMoves DEF StartAppend
<1>3. CheckAppend(c) =>
        \/ /\ MayAppend(c) /\ Moves(c) /\ call'[c].st = "checked"
           /\ call'[c].parent = call[c].parent /\ lock' = lock
        \/ ~MayAppend(c) /\ Moves(c) /\ call'[c].st = "idle" /\ lock' = NoSnapshot
  BY <1>1, SetStepMoves, GoToMoves DEF CheckAppend
<1>4. WriteSnapshot(c) => Moves(c) /\ call'[c].st = "recorded"
  BY <1>1, GoToMoves DEF WriteSnapshot
<1>5. WriteFails(c) => Moves(c) /\ call'[c].st = "idle"
  BY <1>1, GoToMoves DEF WriteFails
<1>6. QED
  BY <1>2, <1>3, <1>4, <1>5

LEMMA WaitEffects ==
    ASSUME call \in [Calls -> Call], chain \in [Calls -> Fates], NEW c \in Calls
    PROVE  /\ Submit(c) =>
                /\ Moves(c) /\ call'[c].st \in {"waiting", "unsettled"}
                /\ \E fate \in {"none", "wire"} : chain' = [chain EXCEPT ![c] = fate]
           /\ Verdict(c) =>
                /\ Moves(c)
                /\ \/ chain[c] = "applied" /\ call'[c].st = "confirm"
                   \/ chain[c] = "failed" /\ call'[c].st = "drop"
           /\ WaitEnds(c) => Moves(c) /\ call'[c].st = "unsettled"
           /\ Reconcile(c) =>
                /\ Moves(c)
                /\ \/ chain[c] = "applied" /\ call'[c].st = "confirm"
                   \/ chain[c] \in {"failed", "dead"} /\ call'[c].st = "drop"
<1>1. {"waiting", "unsettled", "confirm", "drop"} \subseteq Steps
  BY DEF Steps, Locked
<1>2. Submit(c) =>
        /\ Moves(c) /\ call'[c].st \in {"waiting", "unsettled"}
        /\ \E fate \in {"none", "wire"} : chain' = [chain EXCEPT ![c] = fate]
  BY <1>1, GoToMoves DEF Submit
<1>3. Verdict(c) =>
        /\ Moves(c)
        /\ \/ chain[c] = "applied" /\ call'[c].st = "confirm"
           \/ chain[c] = "failed" /\ call'[c].st = "drop"
  BY <1>1, GoToMoves DEF Verdict
<1>4. WaitEnds(c) => Moves(c) /\ call'[c].st = "unsettled"
  BY <1>1, GoToMoves DEF WaitEnds
<1>5. Reconcile(c) =>
        /\ Moves(c)
        /\ \/ chain[c] = "applied" /\ call'[c].st = "confirm"
           \/ chain[c] \in {"failed", "dead"} /\ call'[c].st = "drop"
  BY <1>1, GoToMoves DEF Reconcile
<1>6. QED
  BY <1>2, <1>3, <1>4, <1>5

LEMMA SettleEffects ==
    ASSUME call \in [Calls -> Call], files \subseteq Snapshot, IsFiniteSet(files), NEW c \in Calls
    PROVE  /\ StartConfirm(c) =>
                \/ /\ Recorded(c) /\ Moves(c) /\ call'[c].st = "confirming"
                   /\ call'[c].got = {s \in files : s.hash = c} /\ lock' = c
                \/ ~Recorded(c) /\ Moves(c) /\ call'[c].st = "done" /\ lock' = lock
           /\ WriteConfirmed(c) => Moves(c) /\ call'[c].st = "done"
           /\ ConfirmFails(c) => Moves(c) /\ call'[c].st = "unsettled"
           /\ StartDrop(c) =>
                \/ /\ Recorded(c) /\ Moves(c) /\ call'[c].st = "dropping"
                   /\ call'[c].todo = Walk(files, {c}) /\ call'[c].got = files /\ lock' = c
                \/ ~Recorded(c) /\ Moves(c) /\ call'[c].st = "done" /\ lock' = lock
           /\ \A h \in Calls : DropFile(c, h) =>
                /\ Moves(c) /\ call'[c].st = "dropping"
                /\ call'[c].todo = call[c].todo \ {h} /\ call'[c].got = call[c].got
           /\ DropFails(c) => Moves(c) /\ call'[c].st = "unsettled"
           /\ Dropped(c) => Moves(c) /\ call'[c].st = "done"
<1>1. {"confirming", "dropping", "unsettled", "done"} \subseteq Steps
  BY DEF Steps, Locked
<1>2. StartConfirm(c) =>
        \/ /\ Recorded(c) /\ Moves(c) /\ call'[c].st = "confirming"
           /\ call'[c].got = {s \in files : s.hash = c} /\ lock' = c
        \/ ~Recorded(c) /\ Moves(c) /\ call'[c].st = "done" /\ lock' = lock
  <2>1. CASE Recorded(c)
    BY <1>1, <2>1 DEF StartConfirm, Moves, Call
  <2>2. CASE ~Recorded(c)
    BY <1>1, <2>2, GoToMoves DEF StartConfirm
  <2>3. QED
    BY <2>1, <2>2
<1>3. WriteConfirmed(c) => Moves(c) /\ call'[c].st = "done"
  BY <1>1, GoToMoves DEF WriteConfirmed
<1>4. ConfirmFails(c) => Moves(c) /\ call'[c].st = "unsettled"
  BY <1>1, GoToMoves DEF ConfirmFails
<1>5. StartDrop(c) =>
        \/ /\ Recorded(c) /\ Moves(c) /\ call'[c].st = "dropping"
           /\ call'[c].todo = Walk(files, {c}) /\ call'[c].got = files /\ lock' = c
        \/ ~Recorded(c) /\ Moves(c) /\ call'[c].st = "done" /\ lock' = lock
  <2>1. CASE Recorded(c)
    <3>1. Walk(files, {c}) \in SUBSET Calls
      BY WalkAmongCalls
    <3>2. QED
      BY <1>1, <2>1, <3>1 DEF StartDrop, Moves, Call
  <2>2. CASE ~Recorded(c)
    BY <1>1, <2>2, GoToMoves DEF StartDrop
  <2>3. QED
    BY <2>1, <2>2
<1>6. ASSUME NEW h \in Calls, DropFile(c, h)
      PROVE  /\ Moves(c) /\ call'[c].st = "dropping"
             /\ call'[c].todo = call[c].todo \ {h} /\ call'[c].got = call[c].got
  BY <1>6 DEF DropFile, Moves, Call
<1>7. DropFails(c) => Moves(c) /\ call'[c].st = "unsettled"
  BY <1>1, GoToMoves DEF DropFails
<1>8. Dropped(c) => Moves(c) /\ call'[c].st = "done"
  BY <1>1, GoToMoves DEF Dropped
<1>9. QED
  BY <1>2, <1>3, <1>4, <1>5, <1>6, <1>7, <1>8

-----------------------------------------------------------------------------
(* The types *)

LEMMA TypeParts ==
    ASSUME TypeInv
    PROVE  /\ call \in [Calls -> Call] /\ chain \in [Calls -> Fates] /\ user \in User
           /\ files \subseteq Snapshot /\ backup \subseteq Snapshot /\ IsFiniteSet(files)
           /\ lock \in Calls \cup {NoSnapshot} /\ NoSnapshot \notin Calls
           /\ \A c \in Calls : call[c].st \in Locked <=> lock = c
  BY JournalAssumption DEF TypeInv, TypeOK

(* What a step of a call must give for the types to hold after it.         *)
LEMMA CallStepKeepsType ==
    ASSUME TypeInv, NEW c \in Calls, Moves(c),
           files' \subseteq Snapshot, IsFiniteSet(files'), chain' \in [Calls -> Fates],
           lock' = lock \/ (lock \in {c, NoSnapshot} /\ lock' \in {c, NoSnapshot}),
           call'[c].st \in Locked <=> lock' = c,
           call'[c].st = "confirming" => IsFiniteSet(call'[c].got),
           UNCHANGED <<userVars, crashes>>
    PROVE  TypeInv'
<1>1. /\ lock' \in Calls \cup {NoSnapshot} /\ lock \in Calls \cup {NoSnapshot}
      /\ NoSnapshot \notin Calls
  BY TypeParts
<1>2. \A d \in Calls : call'[d].st \in Locked <=> lock' = d
  <2> TAKE d \in Calls
  <2>1. CASE d = c
    BY <2>1
  <2>2. CASE d # c
    <3>1. call'[d] = call[d] /\ (call[d].st \in Locked <=> lock = d)
      BY <2>2, TypeParts DEF Moves
    <3>2. lock = d <=> lock' = d
      BY <1>1, <2>2
    <3>3. QED
      BY <3>1, <3>2
  <2>3. QED
    BY <2>1, <2>2
<1>3. \A d \in Calls : call'[d].st = "confirming" => IsFiniteSet(call'[d].got)
  BY DEF TypeInv, Moves
<1>4. TypeOK'
  BY <1>1, <1>2 DEF TypeInv, TypeOK, Moves, userVars
<1>5. QED
  BY <1>3, <1>4 DEF TypeInv

(* The record that is written, and the confirmed one, are snapshots.       *)
LEMMA WrittenIsSnapshot ==
    ASSUME TypeInv, NEW c \in Calls
    PROVE  /\ PendingSnapshot(c, call[c].parent) \in Snapshot
           /\ PendingSnapshot(c, call[c].parent).hash = c
           /\ PendingSnapshot(c, call[c].parent).parent = call[c].parent
           /\ PendingSnapshot(c, call[c].parent).status = "Pending"
<1>1. call[c].parent \in Calls \cup {NoSnapshot}
  BY TypeParts DEF Call
<1>2. QED
  BY <1>1 DEF PendingSnapshot, Snapshot

Confirmed(S) == {[s EXCEPT !.status = "Confirmed"] : s \in S}

LEMMA ConfirmedParts ==
    ASSUME NEW S \in SUBSET Snapshot
    PROVE  /\ Confirmed(S) \subseteq Snapshot
           /\ \A t \in Confirmed(S) : t.status = "Confirmed"
                 /\ \E s \in S : t = [s EXCEPT !.status = "Confirmed"]
                                 /\ t.hash = s.hash /\ t.parent = s.parent
           /\ \A s \in S : \E t \in Confirmed(S) : t.hash = s.hash /\ t.parent = s.parent
           /\ Hashes(Confirmed(S)) = Hashes(S)
<1>1. ASSUME NEW s \in S
      PROVE  LET t == [s EXCEPT !.status = "Confirmed"]
             IN  /\ t \in Snapshot /\ t.status = "Confirmed"
                 /\ t.hash = s.hash /\ t.parent = s.parent
  BY DEF Snapshot
<1>2. /\ Confirmed(S) \subseteq Snapshot
      /\ \A t \in Confirmed(S) : t.status = "Confirmed"
           /\ \E s \in S : t = [s EXCEPT !.status = "Confirmed"]
                           /\ t.hash = s.hash /\ t.parent = s.parent
  BY <1>1 DEF Confirmed
<1>3. \A s \in S : \E t \in Confirmed(S) : t.hash = s.hash /\ t.parent = s.parent
  BY <1>1 DEF Confirmed
<1>4. Hashes(Confirmed(S)) = Hashes(S)
  BY <1>2, <1>3 DEF Hashes
<1>5. QED
  BY <1>2, <1>3, <1>4

LEMMA PutType ==
    ASSUME NEW S \in SUBSET Snapshot, IsFiniteSet(S), files \subseteq Snapshot,
           IsFiniteSet(files), Put(S)
    PROVE  files' \subseteq Snapshot /\ IsFiniteSet(files')
<1> DEFINE rest == {s \in files : s.hash \notin Hashes(S)}
<1>1. IsFiniteSet(rest) /\ rest \subseteq Snapshot
  BY FS_Subset
<1>2. files' = rest \cup S
  BY DEF Put
<1>3. QED
  BY <1>1, <1>2, FS_Union

LEMMA PutConfirmedType ==
    ASSUME TypeInv, NEW c \in Calls, call[c].st = "confirming", PutConfirmed(c)
    PROVE  files' \subseteq Snapshot /\ IsFiniteSet(files')
<1> DEFINE got == call[c].got
<1>1. got \in SUBSET Snapshot /\ IsFiniteSet(got)
  BY TypeParts DEF TypeInv, Call
<1>2. Confirmed(got) \in SUBSET Snapshot /\ Put(Confirmed(got))
  <2>1. Put(Confirmed(got))
    BY DEF PutConfirmed, Confirmed
  <2> HIDE DEF got
  <2>2. QED
    BY <1>1, <2>1, ConfirmedParts
<1>3. IsFiniteSet(Confirmed(got))
  <2> HIDE DEF got
  <2> DEFINE f == [s \in got |-> [s EXCEPT !.status = "Confirmed"]]
  <2>1. Confirmed(got) = {f[s] : s \in got}
    BY DEF Confirmed
  <2>2. f \in Surjection(got, Confirmed(got))
    BY <2>1 DEF Surjection
  <2> HIDE DEF f
  <2>3. QED
    BY <1>1, <2>2, FS_Surjection
<1>4. QED
  <2> HIDE DEF got
  <2> QED BY <1>2, <1>3, TypeParts, PutType

(* Each step of the calls keeps the types. *)
LEMMA CallsKeepType ==
    ASSUME TypeInv, NEW c \in Calls,
           StartLoad(c) \/ CallStep(c) \/ CallFails(c) \/ ChainStep(c) \/ Reconcile(c)
    PROVE  TypeInv'
<1> USE TypeParts
<1>1. Locked = {"appending", "checked", "confirming", "dropping"}
  BY DEF Locked
<1>2. files' = files => files' \subseteq Snapshot /\ IsFiniteSet(files')
  OBVIOUS
<1>3. CASE StartLoad(c)
  <2>1. Moves(c) /\ call'[c].st = "loading"
    BY <1>3, LoadEffects
  <2>2. QED
    BY <1>1, <1>3, <2>1, CallStepKeepsType DEF StartLoad
<1>4. ASSUME NEW h \in Calls, ReadFile(c, h) PROVE TypeInv'
  <2>1. Moves(c) /\ call'[c].st = "loading"
    BY <1>4, LoadEffects
  <2>2. QED
    BY <1>1, <1>4, <2>1, CallStepKeepsType DEF ReadFile
<1>5. CASE Loaded(c)
  <2>1. Moves(c) /\ call'[c].st \in {"loaded", "idle"}
    BY <1>5, LoadEffects
  <2>2. QED
    BY <1>1, <1>5, <2>1, CallStepKeepsType DEF Loaded
<1>6. CASE StartAppend(c)
  <2>1. Moves(c) /\ call'[c].st = "appending"
    BY <1>6, AppendEffects
  <2>2. QED
    BY <1>1, <1>6, <2>1, CallStepKeepsType DEF StartAppend, CanLock
<1>7. CASE CheckAppend(c)
  <2>1. \/ Moves(c) /\ call'[c].st = "checked" /\ lock' = lock
        \/ Moves(c) /\ call'[c].st = "idle" /\ lock' = NoSnapshot
    BY <1>7, AppendEffects
  <2>2. lock = c
    BY <1>1, <1>7 DEF CheckAppend
  <2>3. QED
    BY <1>1, <1>7, <2>1, <2>2, CallStepKeepsType DEF CheckAppend
<1>8. CASE WriteSnapshot(c)
  <2>1. Moves(c) /\ call'[c].st = "recorded"
    BY <1>8, AppendEffects
  <2>2. lock = c /\ lock' = NoSnapshot
    BY <1>1, <1>8 DEF WriteSnapshot
  <2>3. files' = files \cup {PendingSnapshot(c, call[c].parent)}
    BY <1>8 DEF WriteSnapshot
  <2>4. files' \subseteq Snapshot /\ IsFiniteSet(files')
    BY <2>3, WrittenIsSnapshot, FS_AddElement
  <2>5. QED
    BY <1>1, <1>8, <2>1, <2>2, <2>4, CallStepKeepsType DEF WriteSnapshot
<1>9. CASE WriteFails(c)
  <2>1. Moves(c) /\ call'[c].st = "idle"
    BY <1>9, AppendEffects
  <2>2. lock = c
    BY <1>1, <1>9 DEF WriteFails
  <2>3. QED
    BY <1>1, <1>9, <2>1, <2>2, CallStepKeepsType DEF WriteFails
<1>10. CASE Submit(c)
  <2>1. Moves(c) /\ call'[c].st \in {"waiting", "unsettled"} /\ chain' \in [Calls -> Fates]
    BY <1>10, WaitEffects DEF Fates
  <2>2. lock # c
    BY <1>1, <1>10 DEF Submit, MaySubmit
  <2>3. QED
    BY <1>1, <1>10, <2>1, <2>2, CallStepKeepsType DEF Submit
<1>11. CASE Verdict(c)
  <2>1. Moves(c) /\ call'[c].st \in {"confirm", "drop"}
    BY <1>11, WaitEffects
  <2>2. lock # c
    BY <1>1, <1>11 DEF Verdict
  <2>3. QED
    BY <1>1, <1>11, <2>1, <2>2, CallStepKeepsType DEF Verdict
<1>12. CASE WaitEnds(c)
  <2>1. Moves(c) /\ call'[c].st = "unsettled"
    BY <1>12, WaitEffects
  <2>2. lock # c
    BY <1>1, <1>12 DEF WaitEnds
  <2>3. QED
    BY <1>1, <1>12, <2>1, <2>2, CallStepKeepsType DEF WaitEnds
<1>13. CASE Reconcile(c)
  <2>1. Moves(c) /\ call'[c].st \in {"confirm", "drop"}
    BY <1>13, WaitEffects
  <2>2. lock # c
    BY <1>1, <1>13 DEF Reconcile
  <2>3. QED
    BY <1>1, <1>13, <2>1, <2>2, CallStepKeepsType DEF Reconcile
<1>14. CASE StartConfirm(c)
  <2>1. \/ /\ Moves(c) /\ call'[c].st = "confirming"
           /\ call'[c].got = {s \in files : s.hash = c} /\ lock' = c
        \/ Moves(c) /\ call'[c].st = "done" /\ lock' = lock
    BY <1>14, SettleEffects
  <2>2. lock = NoSnapshot
    BY <1>14 DEF StartConfirm, CanLock
  <2>3. IsFiniteSet({s \in files : s.hash = c})
    BY FS_Subset
  <2>4. QED
    BY <1>1, <1>14, <2>1, <2>2, <2>3, CallStepKeepsType DEF StartConfirm
<1>15. ASSUME WriteConfirmed(c) \/ ConfirmFails(c) PROVE TypeInv'
  <2>1. Moves(c) /\ call'[c].st \in {"done", "unsettled"}
    BY <1>15, SettleEffects
  <2>2. lock = c /\ lock' = NoSnapshot /\ call[c].st = "confirming"
    BY <1>1, <1>15 DEF WriteConfirmed, ConfirmFails
  <2>3. files' \subseteq Snapshot /\ IsFiniteSet(files')
    BY <1>15, <2>2, PutConfirmedType DEF WriteConfirmed, ConfirmFails
  <2>4. chain' = chain /\ UNCHANGED <<userVars, crashes>>
    BY <1>15 DEF WriteConfirmed, ConfirmFails
  <2>5. QED
    BY <1>1, <2>1, <2>2, <2>3, <2>4, CallStepKeepsType
<1>16. CASE StartDrop(c)
  <2>1. \/ Moves(c) /\ call'[c].st = "dropping" /\ lock' = c
        \/ Moves(c) /\ call'[c].st = "done" /\ lock' = lock
    BY <1>16, SettleEffects
  <2>2. lock = NoSnapshot
    BY <1>16 DEF StartDrop, CanLock
  <2>3. QED
    BY <1>1, <1>16, <2>1, <2>2, CallStepKeepsType DEF StartDrop
<1>17. ASSUME NEW h \in Calls, DropFile(c, h) PROVE TypeInv'
  <2>1. Moves(c) /\ call'[c].st = "dropping"
    BY <1>17, SettleEffects
  <2>2. lock = c /\ lock' = lock
    BY <1>1, <1>17 DEF DropFile
  <2>3. files' \subseteq Snapshot /\ IsFiniteSet(files')
    <3>1. files' = {s \in files : s.hash # h}
      BY <1>17 DEF DropFile
    <3>2. QED
      BY <3>1, FS_Subset
  <2>4. QED
    BY <1>1, <1>17, <2>1, <2>2, <2>3, CallStepKeepsType DEF DropFile
<1>18. ASSUME DropFails(c) \/ Dropped(c) PROVE TypeInv'
  <2>1. Moves(c) /\ call'[c].st \in {"done", "unsettled"}
    BY <1>18, SettleEffects
  <2>2. lock = c /\ lock' = NoSnapshot /\ UNCHANGED <<files, chain, userVars, crashes>>
    BY <1>1, <1>18 DEF DropFails, Dropped
  <2>3. QED
    BY <1>1, <2>1, <2>2, CallStepKeepsType
<1>19. CASE ChainStep(c)
  <2>1. /\ chain' \in [Calls -> Fates]
        /\ UNCHANGED <<files, lock, call, userVars, crashes>>
    BY <1>19 DEF ChainStep, Finalize, Expire, Fates
  <2>2. QED
    BY <2>1 DEF TypeInv, TypeOK, userVars
<1>20. QED
  BY <1>3, <1>4, <1>5, <1>6, <1>7, <1>8, <1>9, <1>10, <1>11, <1>12, <1>13, <1>14, <1>15, <1>16,
     <1>17, <1>18, <1>19 DEF CallStep, CallFails

(* So do the user's steps. *)
LEMMA UserKeepsType ==
    ASSUME TypeInv, UserStep
    PROVE  TypeInv'
<1>1. /\ UNCHANGED <<lock, call, chain, crashes>>
      /\ user' \in User /\ backup' \subseteq Snapshot /\ tended' \in BOOLEAN
      /\ files' \subseteq Snapshot /\ IsFiniteSet(files')
  <2> USE TypeParts
  <2>1. Hashes(files) \subseteq Calls /\ tended \in BOOLEAN
    BY DEF Hashes, Snapshot, TypeInv, TypeOK
  <2>2. user.todo \in SUBSET Calls /\ user.got \in SUBSET Snapshot
    BY DEF User
  <2>3. UserIdle \in User
    BY DEF User, UserIdle
  <2>4. CASE StartForget
    BY <2>1, <2>4 DEF StartForget, SetUser, User, NoCallChange
  <2>5. ASSUME NEW h \in Calls, ForgetFile(h)
        PROVE  /\ UNCHANGED <<lock, call, chain, crashes>>
               /\ user' \in User /\ backup' \subseteq Snapshot /\ tended' \in BOOLEAN
               /\ files' \subseteq Snapshot /\ IsFiniteSet(files')
    <3>1. files' = {s \in files : s.hash # h}
      BY <2>5 DEF ForgetFile
    <3>2. IsFiniteSet(files')
      BY <3>1, FS_Subset
    <3>3. QED
      BY <2>1, <2>5, <3>1, <3>2 DEF ForgetFile, User, NoCallChange
  <2>6. ASSUME NEW step \in {"exporting", "importing"}, StartScan(step)
        PROVE  /\ UNCHANGED <<lock, call, chain, crashes>>
               /\ user' \in User /\ backup' \subseteq Snapshot /\ tended' \in BOOLEAN
               /\ files' \subseteq Snapshot /\ IsFiniteSet(files')
    BY <2>1, <2>6 DEF StartScan, SetUser, User, NoCallChange
  <2>7. ASSUME NEW h \in Calls, ScanFile(h)
        PROVE  /\ UNCHANGED <<lock, call, chain, crashes>>
               /\ user' \in User /\ backup' \subseteq Snapshot /\ tended' \in BOOLEAN
               /\ files' \subseteq Snapshot /\ IsFiniteSet(files')
    <3> DEFINE todo == user.todo \ {h}
               got  == user.got \cup {s \in files : s.hash = h}
    <3>1. user' = [user EXCEPT !.todo = todo, !.got = got]
      BY <2>7 DEF ScanFile
    <3>2. todo \in SUBSET Calls /\ got \in SUBSET Snapshot
      BY <2>2
    <3>3. user' \in User
      <4> HIDE DEF todo, got
      <4> QED BY <3>1, <3>2 DEF User
    <3>4. QED
      BY <2>1, <2>7, <3>3 DEF ScanFile, NoCallChange
  <2>8. CASE Exported
    BY <2>1, <2>2, <2>3, <2>8 DEF Exported, NoCallChange
  <2>9. ASSUME NEW strategy, PlanImport(strategy)
        PROVE  /\ UNCHANGED <<lock, call, chain, crashes>>
               /\ user' \in User /\ backup' \subseteq Snapshot /\ tended' \in BOOLEAN
               /\ files' \subseteq Snapshot /\ IsFiniteSet(files')
    <3>1. Admitted(strategy, user.got) \in SUBSET Snapshot
      BY DEF Admitted
    <3>2. user' = UserIdle \/ SetUser("writing", {}, Admitted(strategy, user.got))
      BY <2>9 DEF PlanImport
    <3>3. user' \in User
      BY <2>3, <3>1, <3>2 DEF SetUser, User
    <3>4. QED
      BY <2>1, <2>9, <3>3 DEF PlanImport, NoCallChange
  <2>10. ASSUME NEW s \in user.got, ImportFile(s)
         PROVE  /\ UNCHANGED <<lock, call, chain, crashes>>
                /\ user' \in User /\ backup' \subseteq Snapshot /\ tended' \in BOOLEAN
                /\ files' \subseteq Snapshot /\ IsFiniteSet(files')
    <3>1. {s} \in SUBSET Snapshot /\ IsFiniteSet({s}) /\ Put({s})
      BY <2>2, <2>10, FS_Singleton DEF ImportFile
    <3>2. files' \subseteq Snapshot /\ IsFiniteSet(files')
      BY <3>1, PutType
    <3>3. user' \in User
      BY <2>2, <2>10 DEF ImportFile, User
    <3>4. QED
      BY <2>1, <2>10, <3>2, <3>3 DEF ImportFile, NoCallChange
  <2>11. CASE UserFails \/ UserEnds
    BY <2>1, <2>3, <2>11 DEF UserFails, UserEnds, NoCallChange
  <2>12. QED
    BY <2>4, <2>5, <2>6, <2>7, <2>8, <2>9, <2>10, <2>11 DEF UserStep
<1>2. QED
  BY <1>1 DEF TypeInv, TypeOK

(* What a restart makes of a call. *)
LEMMA CrashEffects ==
    ASSUME TypeInv, Crash
    PROVE  /\ call' \in [Calls -> Call]
           /\ UNCHANGED <<files, chain, backup, tended>> /\ user' = UserIdle
           /\ \A c \in Calls :
                /\ call[c].st \in {"loading", "loaded", "appending", "checked"} =>
                      call'[c].st = "idle"
                /\ call[c].st \in Settled => call'[c] = call[c]
                /\ call[c].st \in {"recorded", "waiting", "unsettled", "confirm", "confirming",
                                   "drop", "dropping"} => call'[c].st = "unsettled"
                /\ call[c].st \in Steps
<1>1. \A c \in Calls : call'[c] = AfterCrash(c)
  BY DEF Crash
<1>2. \A c \in Calls :
        /\ call[c].st \in {"loading", "loaded", "appending", "checked"} => AfterCrash(c) = NotStarted
        /\ call[c].st \in Settled => AfterCrash(c) = call[c]
        /\ call[c].st \notin Settled /\ call[c].st \notin {"loading", "loaded", "appending", "checked"} =>
              AfterCrash(c) = [NotStarted EXCEPT !.st = "unsettled"]
  BY DEF AfterCrash, Settled
<1>3. [NotStarted EXCEPT !.st = "unsettled"] \in Call /\ [NotStarted EXCEPT !.st = "unsettled"].st = "unsettled"
  BY NotStartedIsCall DEF Call, Steps
<1>4. \A c \in Calls : call[c] \in Call /\ call[c].st \in Steps
  BY TypeParts DEF Call
<1>5. \A c \in Calls : AfterCrash(c) \in Call
  BY <1>2, <1>3, <1>4, NotStartedIsCall
<1>6. call' \in [Calls -> Call]
  BY <1>5 DEF Crash
<1>7. UNCHANGED <<files, chain, backup, tended>> /\ user' = UserIdle
  BY DEF Crash
<1>8. \A c \in Calls :
        /\ call[c].st \in {"loading", "loaded", "appending", "checked"} => call'[c].st = "idle"
        /\ call[c].st \in Settled => call'[c] = call[c]
        /\ call[c].st \in {"recorded", "waiting", "unsettled", "confirm", "confirming",
                           "drop", "dropping"} => call'[c].st = "unsettled"
  BY <1>1, <1>2, <1>3, NotStartedIsCall DEF Settled
<1>9. QED
  BY <1>4, <1>6, <1>7, <1>8

LEMMA CrashKeepsType ==
    ASSUME TypeInv, Crash
    PROVE  TypeInv'
<1>1. \A c \in Calls : call'[c].st \notin Locked /\ call'[c].st # "confirming"
  BY CrashEffects DEF Steps, Locked, Settled
<1>2. crashes' \in Nat /\ lock' = NoSnapshot /\ user' \in User
  BY DEF Crash, TypeInv, TypeOK, UserIdle, User
<1>3. QED
  BY <1>1, <1>2, CrashEffects, TypeParts DEF TypeInv, TypeOK

(* Every variable of the journal keeps its type, and the directory has     *)
(* finitely many files (the per-address directory of fs.rs).               *)
THEOREM TypeCorrect == Spec => []TypeInv
<1>1. Init => TypeInv
  <2> SUFFICES ASSUME Init PROVE TypeInv
    OBVIOUS
  <2>1. \A c \in Calls : call[c] \in Call /\ call[c].st = "idle"
    BY NotStartedIsCall DEF Init
  <2>2. \A c \in Calls : ~(call[c].st \in Locked) /\ lock # c
    BY <2>1, JournalAssumption DEF Init, Locked
  <2>3. call \in [Calls -> Call] /\ chain \in [Calls -> Fates]
    BY NotStartedIsCall DEF Init, Fates
  <2>4. user \in User
    BY DEF Init, UserIdle, User
  <2>5. QED
    BY <2>1, <2>2, <2>3, <2>4, FS_EmptySet DEF Init, TypeInv, TypeOK
<1>2. TypeInv /\ [Next]_vars => TypeInv'
  <2> SUFFICES ASSUME TypeInv, [Next]_vars PROVE TypeInv'
    OBVIOUS
  <2>1. CASE UNCHANGED vars
    BY <2>1 DEF vars, userVars, TypeInv, TypeOK
  <2>2. CASE Next
    BY <2>2, CallsKeepType, UserKeepsType, CrashKeepsType DEF Next
  <2>3. QED
    BY <2>1, <2>2
<1>3. QED
  BY <1>1, <1>2, PTL DEF Spec

-----------------------------------------------------------------------------
(* The line *)

(* A confirm changes no hash and no parent.                                *)
LEMMA ConfirmKeeps ==
    ASSUME files \subseteq Snapshot, NEW c \in Calls, PutConfirmed(c),
           call[c].got = {s \in files : s.hash = c}
    PROVE  /\ \A t \in files' : \E s \in files :
                /\ t.hash = s.hash /\ t.parent = s.parent
                /\ t.hash # c => t = s
                /\ t.hash = c => /\ t = [s EXCEPT !.status = "Confirmed"]
                                 /\ t.status = "Confirmed"
           /\ \A s \in files : \E t \in files' : t.hash = s.hash /\ (s.hash # c => t = s)
           /\ Hashes(files') = Hashes(files)
<1> DEFINE got  == {s \in files : s.hash = c}
           rest == {s \in files : s.hash \notin Hashes(Confirmed(got))}
<1>1. got \in SUBSET Snapshot
  OBVIOUS
<1>2. files' = rest \cup Confirmed(got)
  BY DEF PutConfirmed, Put, Confirmed
<1>3. /\ \A t \in Confirmed(got) : t.status = "Confirmed"
            /\ \E s \in got : t = [s EXCEPT !.status = "Confirmed"]
                              /\ t.hash = s.hash /\ t.parent = s.parent
      /\ \A s \in got : \E t \in Confirmed(got) : t.hash = s.hash /\ t.parent = s.parent
      /\ Hashes(Confirmed(got)) = Hashes(got)
  <2> HIDE DEF got
  <2> QED BY <1>1, ConfirmedParts
<1>4. \A s \in files : s \in rest <=> s.hash # c
  <2>1. \A s \in files : s.hash \in Hashes(got) <=> s.hash = c
    BY DEF Hashes
  <2> HIDE DEF got
  <2>2. QED
    BY <1>3, <2>1
<1>5. \A t \in files' : \E s \in files :
        /\ t.hash = s.hash /\ t.parent = s.parent
        /\ t.hash # c => t = s
        /\ t.hash = c => t = [s EXCEPT !.status = "Confirmed"] /\ t.status = "Confirmed"
  <2> TAKE t \in files'
  <2>1. CASE t \in rest
    BY <1>4, <2>1
  <2>2. CASE t \in Confirmed(got)
    <3>1. PICK s \in got : t = [s EXCEPT !.status = "Confirmed"]
                           /\ t.hash = s.hash /\ t.parent = s.parent
      BY <1>3, <2>2
    <3>2. t.status = "Confirmed" /\ s \in files /\ s.hash = c
      BY <1>3, <2>2
    <3>3. QED
      BY <3>1, <3>2
  <2>3. QED
    BY <1>2, <2>1, <2>2
<1>6. \A s \in files : \E t \in files' : t.hash = s.hash /\ (s.hash # c => t = s)
  <2> TAKE s \in files
  <2>1. CASE s.hash = c
    BY <1>2, <1>3, <2>1
  <2>2. CASE s.hash # c
    BY <1>2, <1>4, <2>2
  <2>3. QED
    BY <2>1, <2>2
<1>7. QED
  BY <1>5, <1>6 DEF Hashes

LEMMA ConfirmLine ==
    ASSUME files \subseteq Snapshot, NEW c \in Calls, PutConfirmed(c),
           call[c].got = {s \in files : s.hash = c}, NEW log, Lists(log, files)
    PROVE  Lists(log, files')
<1>1. \A s, t \in files : s.hash = t.hash => s = t
  BY DEF Lists
<1>2. /\ \A t \in files' : \E s \in files :
           /\ t.hash = s.hash /\ t.parent = s.parent
           /\ t.hash # c => t = s
           /\ t.hash = c => t = [s EXCEPT !.status = "Confirmed"]
      /\ Hashes(files') = Hashes(files)
  BY ConfirmKeeps
<1>3. ASSUME NEW t \in files', NEW u \in files', t.hash = u.hash
      PROVE  t = u
  <2>1. PICK s \in files : /\ t.hash = s.hash
                           /\ t.hash # c => t = s
                           /\ t.hash = c => t = [s EXCEPT !.status = "Confirmed"]
    BY <1>2
  <2>2. PICK r \in files : /\ u.hash = r.hash
                           /\ u.hash # c => u = r
                           /\ u.hash = c => u = [r EXCEPT !.status = "Confirmed"]
    BY <1>2
  <2>3. s = r
    BY <1>1, <1>3, <2>1, <2>2
  <2>4. QED
    BY <1>3, <2>1, <2>2, <2>3
<1>4. QED
  BY <1>2, <1>3, LineSame

LEMMA ConfirmIsLine ==
    ASSUME files \subseteq Snapshot, IsLine(files), NEW c \in Calls, PutConfirmed(c),
           call[c].got = {s \in files : s.hash = c}
    PROVE  IsLine(files') /\ JournalHead(files') = JournalHead(files)
<1>1. PICK log \in Seq(Calls) : Lists(log, files)
  BY DEF IsLine
<1>2. Lists(log, files')
  BY <1>1, ConfirmLine
<1>3. QED
  BY <1>1, <1>2, LineFinds DEF IsLine

(* What depends on a snapshot is in the walk from it. *)
LEMMA WalkTakesChildren ==
    ASSUME NEW S, IsLine(S), NEW c \in Hashes(S), NEW s \in S, s.parent \in Walk(S, {c})
    PROVE  s.hash \in Walk(S, {c})
<1>1. PICK log \in Seq(Calls) : Lists(log, S)
  BY DEF IsLine
<1>2. PICK k \in 1..Len(log) : c = log[k]
  BY <1>1 DEF Lists
<1>3. Walk(S, {c}) = {log[j] : j \in k..Len(log)}
  BY <1>1, <1>2, LineWalk
<1>4. PICK j \in k..Len(log) : s.parent = log[j]
  BY <1>3
<1>5. j \in 1..Len(log) /\ Len(log) \in Nat /\ j \in Nat
  BY <1>1, <1>2, <1>4
<1>6. j < Len(log) /\ s.hash = log[j + 1]
  BY <1>1, <1>4, <1>5, LineChild
<1>7. j + 1 \in k..Len(log)
  BY <1>2, <1>4, <1>5, <1>6
<1>8. QED
  BY <1>3, <1>6, <1>7

(* The head is the last: the walk from it finds nothing else.              *)
LEMMA WalkFromHead ==
    ASSUME NEW S, IsLine(S), NEW c \in Hashes(S), JournalHead(S) = c
    PROVE  Walk(S, {c}) = {c}
<1>1. PICK log \in Seq(Calls) : Lists(log, S)
  BY DEF IsLine
<1>2. PICK k \in 1..Len(log) : c = log[k]
  BY <1>1 DEF Lists
<1>3. Len(log) \in Nat /\ Len(log) \in 1..Len(log) /\ log # <<>>
  BY <1>1, <1>2
<1>4. k = Len(log)
  BY <1>1, <1>2, <1>3, LineFinds DEF Lists
<1>5. Walk(S, {c}) = {log[j] : j \in k..Len(log)}
  BY <1>1, <1>2, LineWalk
<1>6. k..Len(log) = {k}
  BY <1>3, <1>4
<1>7. QED
  BY <1>2, <1>5, <1>6

(* What a call holds stays when another one moves: who holds the lock      *)
(* alone changes the files.                                                *)
LEMMA OthersReadHolds ==
    ASSUME TypeInv, NEW c \in Calls, Moves(c), files' = files \/ lock = c,
           \A d \in Calls : ReadHolds(d)
    PROVE  \A d \in Calls : d # c => ReadHolds(d)'
<1> SUFFICES ASSUME NEW d \in Calls, d # c PROVE ReadHolds(d)'
  OBVIOUS
<1>1. call'[d] = call[d] /\ ReadHolds(d)
  BY DEF Moves
<1>2. CASE files' = files
  BY <1>1, <1>2 DEF ReadHolds, MayAppend, Recorded
<1>3. CASE lock = c
  <2>1. call[d].st \notin {"checked", "confirming", "dropping"}
    BY <1>3, TypeParts DEF Locked
  <2>2. QED
    BY <1>1, <2>1 DEF ReadHolds
<1>4. QED
  BY <1>2, <1>3

(* Each step of the calls keeps the line.                                  *)
LEMMA CallsKeepLine ==
    ASSUME LineInv, ~tended, NEW c \in Calls,
           StartLoad(c) \/ CallStep(c) \/ CallFails(c) \/ ChainStep(c) \/ Reconcile(c)
    PROVE  IsLine(files') /\ \A d \in Calls : ReadHolds(d)'
<1> DEFINE Goal == IsLine(files') /\ \A d \in Calls : ReadHolds(d)'
<1>0. /\ TypeInv /\ IsLine(files) /\ \A d \in Calls : ReadHolds(d)
      /\ call \in [Calls -> Call] /\ files \subseteq Snapshot /\ IsFiniteSet(files)
      /\ chain \in [Calls -> Fates]
  BY TypeParts DEF LineInv
<1>1. ASSUME Moves(c), files' = files \/ (lock = c /\ IsLine(files')), ReadHolds(c)' PROVE Goal
  BY <1>0, <1>1, OthersReadHolds
<1>2. ASSUME Moves(c), files' = files, call'[c].st \notin {"checked", "confirming", "dropping"}
      PROVE  Goal
  BY <1>1, <1>2 DEF ReadHolds
<1>3. CASE StartLoad(c) \/ Loaded(c) \/ \E h \in Calls : ReadFile(c, h)
  <2>1. Moves(c) /\ call'[c].st \in {"loading", "loaded", "idle"} /\ files' = files
    BY <1>0, <1>3, LoadEffects DEF StartLoad, Loaded, ReadFile
  <2> HIDE DEF Goal
  <2>2. QED
    BY <1>2, <2>1 DEF Goal
<1>4. CASE StartAppend(c) \/ WriteFails(c)
  <2>1. Moves(c) /\ call'[c].st \in {"appending", "idle"} /\ files' = files
    BY <1>0, <1>4, AppendEffects DEF StartAppend, WriteFails
  <2> HIDE DEF Goal
  <2>2. QED
    BY <1>2, <2>1 DEF Goal
<1>5. CASE CheckAppend(c)
  <2>1. /\ files' = files /\ Moves(c)
        /\ \/ MayAppend(c) /\ call'[c].st = "checked" /\ call'[c].parent = call[c].parent
           \/ call'[c].st = "idle"
    BY <1>0, <1>5, AppendEffects DEF CheckAppend
  <2>2. ReadHolds(c)'
    BY <2>1 DEF ReadHolds, MayAppend, Recorded
  <2>3. QED
    BY <1>1, <2>1, <2>2
<1>6. CASE WriteSnapshot(c)
  <2> DEFINE new == PendingSnapshot(c, call[c].parent)
  <2>1. /\ Moves(c) /\ call'[c].st = "recorded" /\ call[c].st = "checked"
        /\ files' = files \cup {new}
    BY <1>0, <1>6, AppendEffects DEF WriteSnapshot
  <2>2. lock = c /\ MayAppend(c)
    BY <1>0, <2>1, TypeParts DEF Locked, ReadHolds
  <2>3. new.hash = c /\ new.parent = call[c].parent
    BY <1>0, WrittenIsSnapshot
  <2>4. IsLine(files')
    <3> HIDE DEF new
    <3> QED BY <1>0, <2>1, <2>2, <2>3, AppendedLine DEF MayAppend, Recorded
  <2>5. ReadHolds(c)'
    BY <2>1 DEF ReadHolds
  <2>6. QED
    BY <1>1, <2>1, <2>2, <2>4, <2>5
<1>7. CASE Submit(c) \/ Verdict(c) \/ WaitEnds(c) \/ Reconcile(c)
  <2>1. /\ Moves(c) /\ call'[c].st \in {"waiting", "unsettled", "confirm", "drop"}
        /\ files' = files
    BY <1>0, <1>7, WaitEffects DEF Submit, Verdict, WaitEnds, Reconcile
  <2> HIDE DEF Goal
  <2>2. QED
    BY <1>2, <2>1 DEF Goal
<1>8. CASE StartConfirm(c)
  <2>1. /\ Moves(c) /\ files' = files
        /\ \/ call'[c].st = "confirming" /\ call'[c].got = {s \in files : s.hash = c}
           \/ call'[c].st = "done"
    BY <1>0, <1>8, SettleEffects DEF StartConfirm
  <2>2. ReadHolds(c)'
    BY <2>1 DEF ReadHolds
  <2>3. QED
    BY <1>1, <2>1, <2>2
<1>9. CASE WriteConfirmed(c) \/ ConfirmFails(c)
  <2>1. /\ Moves(c) /\ call'[c].st \in {"done", "unsettled"} /\ call[c].st = "confirming"
        /\ files' = files \/ PutConfirmed(c)
    BY <1>0, <1>9, SettleEffects DEF WriteConfirmed, ConfirmFails
  <2>2. lock = c /\ call[c].got = {s \in files : s.hash = c}
    BY <1>0, <2>1, TypeParts DEF Locked, ReadHolds
  <2>3. IsLine(files')
    BY <1>0, <2>1, <2>2, ConfirmIsLine
  <2>4. ReadHolds(c)'
    BY <2>1 DEF ReadHolds
  <2>5. QED
    BY <1>1, <2>1, <2>2, <2>3, <2>4
<1>10. CASE StartDrop(c)
  <2>1. /\ Moves(c) /\ files' = files
        /\ \/ /\ Recorded(c) /\ call'[c].st = "dropping"
              /\ call'[c].todo = Walk(files, {c}) /\ call'[c].got = files
           \/ call'[c].st = "done"
    BY <1>0, <1>10, SettleEffects DEF StartDrop
  <2>2. Recorded(c) => \A s \in files : s.parent \in Walk(files, {c}) => s.hash \in Walk(files, {c})
    BY <1>0, WalkTakesChildren DEF Recorded
  <2>3. ReadHolds(c)'
    BY <2>1, <2>2 DEF ReadHolds
  <2>4. QED
    BY <1>1, <2>1, <2>3
<1>11. ASSUME NEW h \in Calls, DropFile(c, h) PROVE Goal
  <2>1. /\ Moves(c) /\ call'[c].st = "dropping" /\ call[c].st = "dropping"
        /\ call'[c].todo = call[c].todo \ {h} /\ call'[c].got = call[c].got
        /\ files' = {s \in files : s.hash # h}
        /\ h \in CascadeOrder(call[c].got, call[c].todo)
    BY <1>0, <1>11, SettleEffects DEF DropFile
  <2>2. /\ lock = c /\ files \subseteq call[c].got
        /\ \A s \in files : s.parent \in call[c].todo => s.hash \in call[c].todo
    BY <1>0, <2>1, TypeParts DEF Locked, ReadHolds
  <2>3. \A s \in files : s.parent # h
    BY <2>1, <2>2 DEF CascadeOrder
  <2>4. IsLine(files')
    BY <1>0, <2>1, <2>3, CutLine
  <2>5. ReadHolds(c)'
    BY <2>1, <2>2 DEF ReadHolds
  <2>6. QED
    BY <1>1, <2>1, <2>2, <2>4, <2>5
<1>12. CASE DropFails(c) \/ Dropped(c)
  <2>1. Moves(c) /\ call'[c].st \in {"done", "unsettled"} /\ files' = files
    BY <1>0, <1>12, SettleEffects DEF DropFails, Dropped
  <2> HIDE DEF Goal
  <2>2. QED
    BY <1>2, <2>1 DEF Goal
<1>13. CASE ChainStep(c)
  <2>1. files' = files /\ call' = call
    BY <1>13 DEF ChainStep, Finalize, Expire
  <2>2. QED
    BY <1>0, <2>1 DEF ReadHolds, MayAppend, Recorded
<1>14. QED
  BY <1>3, <1>4, <1>5, <1>6, <1>7, <1>8, <1>9, <1>10, <1>11, <1>12, <1>13 DEF CallStep, CallFails

LEMMA CallsLeaveUser ==
    ASSUME NEW c \in Calls,
           StartLoad(c) \/ CallStep(c) \/ CallFails(c) \/ ChainStep(c) \/ Reconcile(c)
    PROVE  UNCHANGED userVars
  BY DEF StartLoad, CallStep, CallFails, ChainStep, Reconcile, Loaded, StartAppend, CheckAppend,
     WriteSnapshot, Submit, Verdict, StartConfirm, WriteConfirmed, StartDrop, Dropped, ReadFile,
     DropFile, WriteFails, ConfirmFails, DropFails, WaitEnds, Finalize, Expire

(* Before a forget or an import begins, the user's steps only read.        *)
LEMMA UserOnlyReads ==
    ASSUME LineInv, UserStep, ~tended'
    PROVE  ~tended /\ UNCHANGED <<files, call, chain>> /\ user'.st \in {"idle", "exporting"}
<1>1. ~tended /\ user.st \in {"idle", "exporting"} /\ user \in User
  <2>1. ~tended
    BY DEF UserStep, StartForget, Exported, UserFails, UserEnds, ForgetFile,
         ScanFile, StartScan, PlanImport, ImportFile
  <2>2. QED
    BY <2>1, TypeParts DEF LineInv
<1>2. UNCHANGED <<files, call, chain>> /\ user'.st \in {"idle", "exporting"}
  <2>1. ~StartForget /\ ~StartScan("importing")
    BY DEF StartForget, StartScan
  <2>2. \A h \in Calls : ~ForgetFile(h)
    BY <1>1 DEF ForgetFile
  <2>3. ~UserFails /\ ~UserEnds
    BY <1>1 DEF UserFails, UserEnds
  <2>4. \A strategy : ~PlanImport(strategy)
    BY <1>1 DEF PlanImport
  <2>5. \A s : ~ImportFile(s)
    BY <1>1 DEF ImportFile
  <2>6. CASE StartScan("exporting")
    BY <2>6 DEF StartScan, SetUser, NoCallChange
  <2>7. ASSUME NEW h \in Calls, ScanFile(h)
        PROVE  UNCHANGED <<files, call, chain>> /\ user'.st \in {"idle", "exporting"}
    BY <1>1, <2>7 DEF ScanFile, User, NoCallChange
  <2>8. CASE Exported
    BY <2>8 DEF Exported, UserIdle, NoCallChange
  <2>9. QED
    BY <2>1, <2>2, <2>3, <2>4, <2>5, <2>6, <2>7, <2>8 DEF UserStep
<1>3. QED
  BY <1>1, <1>2

(* Until a forget or an import begins, the files are a line.               *)
LEMMA LineHolds == Spec => []LineInv
<1>1. Init => ~tended /\ files = {} /\ user.st = "idle" /\ \A c \in Calls : call[c].st = "idle"
  BY NotStartedIsCall DEF Init, UserIdle
<1>2. TypeInv /\ Init => LineInv
  BY <1>1, EmptyLine, EmptySeq DEF LineInv, IsLine, ReadHolds
<1>3. LineInv /\ TypeInv' /\ [Next]_vars => LineInv'
  <2> SUFFICES ASSUME LineInv, TypeInv', [Next]_vars, ~tended'
               PROVE  /\ IsLine(files')
                      /\ user'.st \in {"idle", "exporting"}
                      /\ \A c \in Calls : ReadHolds(c)'
    BY DEF LineInv
  <2>1. CASE UNCHANGED vars
    BY <2>1 DEF LineInv, vars, userVars, ReadHolds, MayAppend, Recorded
  <2>2. ASSUME NEW c \in Calls,
               StartLoad(c) \/ CallStep(c) \/ CallFails(c) \/ ChainStep(c) \/ Reconcile(c)
        PROVE  /\ IsLine(files')
               /\ user'.st \in {"idle", "exporting"}
               /\ \A d \in Calls : ReadHolds(d)'
    <3>2. ~tended /\ user' = user
      BY <2>2, CallsLeaveUser DEF userVars
    <3>3. QED
      BY <2>2, <3>2, CallsKeepLine DEF LineInv
  <2>3. CASE UserStep
    <3>1. ~tended /\ UNCHANGED <<files, call>> /\ user'.st \in {"idle", "exporting"}
      BY <2>3, UserOnlyReads
    <3>2. QED
      BY <3>1 DEF LineInv, ReadHolds, MayAppend, Recorded
  <2>4. CASE Crash
    <3>1. \A c \in Calls : call'[c].st \notin {"checked", "confirming", "dropping"}
      BY <2>4, CrashEffects DEF LineInv, Steps, Locked, Settled
    <3>2. files' = files /\ user'.st = "idle" /\ tended' = tended
      BY <2>4 DEF Crash, UserIdle
    <3>3. QED
      BY <3>1, <3>2 DEF LineInv, ReadHolds
  <2>5. QED
    BY <2>1, <2>2, <2>3, <2>4 DEF Next
<1>4. QED
  BY <1>2, <1>3, TypeCorrect, PTL DEF Spec

(* The journal is one chain until a forget or an import begins, whatever   *)
(* calls overlap, fail or crash (append_pending, cascade_drop, find_leaf). *)
THEOREM JournalStaysChain == Spec => []JournalIsChain
<1>1. LineInv => JournalIsChain
  BY LineFinds DEF LineInv, IsLine, JournalIsChain
<1>2. QED
  BY <1>1, LineHolds, PTL

(* Between the check and the write of append_pending, the leaf stays what  *)
(* the call started from.                                                  *)
THEOREM LeafStaysHeld == Spec => []LeafHeld
<1>1. LineInv => LeafHeld
  BY DEF LineInv, ReadHolds, MayAppend, LeafHeld
<1>2. QED
  BY <1>1, LineHolds, PTL

-----------------------------------------------------------------------------
(* What is Confirmed was applied *)

LEMMA TruthParts ==
    ASSUME TruthInv
    PROVE  /\ TypeInv /\ call \in [Calls -> Call] /\ chain \in [Calls -> Fates]
           /\ files \subseteq Snapshot /\ backup \subseteq Snapshot /\ user.got \subseteq Snapshot
           /\ IsFiniteSet(files)
           /\ Truthful(files) /\ Truthful(backup) /\ Truthful(user.got)
           /\ \A c \in Calls : Confirms(c)
  BY TypeParts DEF TruthInv, User

(* An applied transaction stays applied, so what is true stays true.       *)
LEMMA TrueStays ==
    ASSUME NEW S \in SUBSET Snapshot, Truthful(S),
           \A c \in Calls : chain[c] = "applied" => chain'[c] = "applied"
    PROVE  \A s \in S : s.status = "Confirmed" => chain'[s.hash] = "applied"
  BY DEF Truthful, Snapshot

LEMMA CallsKeepTruth ==
    ASSUME TruthInv, NEW c \in Calls,
           StartLoad(c) \/ CallStep(c) \/ CallFails(c) \/ ChainStep(c) \/ Reconcile(c)
    PROVE  /\ Truthful(files)' /\ Truthful(backup)' /\ Truthful(user.got)'
           /\ \A d \in Calls : Confirms(d)'
<1> USE TruthParts
<1> DEFINE Goal == /\ Truthful(files)' /\ Truthful(backup)' /\ Truthful(user.got)'
                   /\ \A d \in Calls : Confirms(d)'
<1>1. ASSUME Moves(c), UNCHANGED <<chain, userVars>>, Confirms(c)',
             \A t \in files' : t.status = "Confirmed" => chain[t.hash] = "applied"
      PROVE  Goal
  BY <1>1 DEF Truthful, Confirms, Moves, userVars
<1>2. ASSUME Moves(c), UNCHANGED <<files, chain, userVars>>, Confirms(c)'
      PROVE  Goal
  BY <1>1, <1>2 DEF Truthful
<1> HIDE DEF Goal
<1>3. CASE StartLoad(c) \/ Loaded(c) \/ \E h \in Calls : ReadFile(c, h)
  <2>1. /\ Moves(c) /\ call'[c].st \in {"loading", "loaded", "idle"}
        /\ call[c].st \in {"idle", "loading"} /\ UNCHANGED <<files, chain, userVars>>
    BY <1>3, LoadEffects DEF StartLoad, Loaded, ReadFile
  <2>2. Confirms(c)'
    BY <2>1 DEF Confirms, Unsent
  <2>3. QED
    BY <1>2, <2>1, <2>2 DEF Goal
<1>4. CASE StartAppend(c) \/ CheckAppend(c) \/ WriteFails(c)
  <2>1. /\ Moves(c) /\ call'[c].st \in {"appending", "checked", "idle"}
        /\ call[c].st \in {"loaded", "appending", "checked"} /\ UNCHANGED <<files, chain, userVars>>
    BY <1>4, AppendEffects DEF StartAppend, CheckAppend, WriteFails
  <2>2. Confirms(c)'
    BY <2>1 DEF Confirms, Unsent
  <2>3. QED
    BY <1>2, <2>1, <2>2 DEF Goal
<1>5. CASE WriteSnapshot(c)
  <2> DEFINE new == PendingSnapshot(c, call[c].parent)
  <2>1. /\ Moves(c) /\ call'[c].st = "recorded" /\ call[c].st = "checked"
        /\ files' = files \cup {new} /\ UNCHANGED <<chain, userVars>>
    BY <1>5, AppendEffects DEF WriteSnapshot
  <2>2. new.status = "Pending"
    BY WrittenIsSnapshot
  <2>3. Confirms(c)'
    BY <2>1 DEF Confirms, Unsent
  <2> HIDE DEF new
  <2>4. QED
    BY <1>1, <2>1, <2>2, <2>3 DEF Goal, Truthful
<1>6. CASE Submit(c)
  <2>1. /\ Moves(c) /\ call'[c].st \in {"waiting", "unsettled"} /\ call[c].st = "recorded"
        /\ UNCHANGED <<files, userVars>>
    BY <1>6, WaitEffects DEF Submit, MaySubmit
  <2>2. PICK fate \in {"none", "wire"} : chain' = [chain EXCEPT ![c] = fate]
    BY <1>6, WaitEffects
  <2>3. chain[c] = "none"
    BY <2>1 DEF Confirms, Unsent
  <2>4. \A d \in Calls : chain[d] = "applied" => chain'[d] = "applied"
    BY <2>2, <2>3
  <2>5. Truthful(files)' /\ Truthful(backup)' /\ Truthful(user.got)'
    BY <2>1, <2>4, TrueStays DEF Truthful, userVars
  <2>6. \A d \in Calls : Confirms(d)'
    BY <2>1, <2>2 DEF Confirms, Unsent, Moves
  <2>7. QED
    BY <2>5, <2>6 DEF Goal
<1>7. CASE Verdict(c) \/ WaitEnds(c) \/ Reconcile(c)
  <2>1. /\ Moves(c) /\ UNCHANGED <<files, chain, userVars>>
        /\ \/ call'[c].st = "confirm" /\ chain[c] = "applied"
           \/ call'[c].st \in {"unsettled", "drop"}
    BY <1>7, WaitEffects DEF Verdict, WaitEnds, Reconcile
  <2>2. Confirms(c)'
    BY <2>1 DEF Confirms, Unsent
  <2>3. QED
    BY <1>2, <2>1, <2>2 DEF Goal
<1>8. CASE StartConfirm(c)
  <2>1. /\ Moves(c) /\ UNCHANGED <<files, chain, userVars>> /\ call[c].st = "confirm"
        /\ \/ call'[c].st = "confirming" /\ call'[c].got = {s \in files : s.hash = c}
           \/ call'[c].st = "done"
    BY <1>8, SettleEffects DEF StartConfirm
  <2>2. Confirms(c)'
    BY <2>1 DEF Confirms, Unsent
  <2>3. QED
    BY <1>2, <2>1, <2>2 DEF Goal
<1>9. CASE WriteConfirmed(c) \/ ConfirmFails(c)
  <2>1. /\ Moves(c) /\ call'[c].st \in {"done", "unsettled"} /\ call[c].st = "confirming"
        /\ files' = files \/ PutConfirmed(c)
        /\ UNCHANGED <<chain, userVars>>
    BY <1>9, SettleEffects DEF WriteConfirmed, ConfirmFails
  <2>2. chain[c] = "applied" /\ \A s \in call[c].got : s.hash = c
    BY <2>1 DEF Confirms
  <2>3. \A t \in files' : t.status = "Confirmed" => chain[t.hash] = "applied"
    <3>1. CASE files' = files
      BY <3>1 DEF Truthful
    <3>2. CASE PutConfirmed(c)
      <4> DEFINE got == call[c].got
      <4>1. files' = {s \in files : s.hash \notin Hashes(Confirmed(got))} \cup Confirmed(got)
        BY <3>2 DEF PutConfirmed, Put, Confirmed
      <4>2. got \in SUBSET Snapshot
        BY DEF Call
      <4>3. \A t \in Confirmed(got) : \E s \in got : t.hash = s.hash
        <5> HIDE DEF got
        <5> QED BY <4>2, ConfirmedParts
      <4>4. \A t \in Confirmed(got) : t.hash = c
        BY <2>2, <4>3
      <4> HIDE DEF got
      <4>5. QED
        BY <2>2, <4>1, <4>4 DEF Truthful
    <3>3. QED
      BY <2>1, <3>1, <3>2
  <2>4. Confirms(c)'
    BY <2>1 DEF Confirms, Unsent
  <2>5. QED
    BY <1>1, <2>1, <2>3, <2>4 DEF Goal
<1>10. CASE StartDrop(c)
  <2>1. /\ Moves(c) /\ call'[c].st \in {"dropping", "done"} /\ UNCHANGED <<files, chain, userVars>>
    BY <1>10, SettleEffects DEF StartDrop
  <2>2. Confirms(c)'
    BY <2>1 DEF Confirms, Unsent
  <2>3. QED
    BY <1>2, <2>1, <2>2 DEF Goal
<1>11. ASSUME NEW h \in Calls, DropFile(c, h) PROVE Goal
  <2>1. /\ Moves(c) /\ call'[c].st = "dropping"
        /\ files' = {s \in files : s.hash # h} /\ UNCHANGED <<chain, userVars>>
    BY <1>11, SettleEffects DEF DropFile
  <2>2. Confirms(c)'
    BY <2>1 DEF Confirms, Unsent
  <2>3. QED
    BY <1>1, <2>1, <2>2 DEF Goal, Truthful
<1>12. CASE DropFails(c) \/ Dropped(c)
  <2>1. /\ Moves(c) /\ call'[c].st \in {"done", "unsettled"} /\ UNCHANGED <<files, chain, userVars>>
    BY <1>12, SettleEffects DEF DropFails, Dropped
  <2>2. Confirms(c)'
    BY <2>1 DEF Confirms, Unsent
  <2>3. QED
    BY <1>2, <2>1, <2>2 DEF Goal
<1>13. CASE ChainStep(c)
  <2>1. /\ UNCHANGED <<files, call, userVars>>
        /\ chain[c] \in {"none", "wire"}
        /\ chain[c] = "wire" \/ call[c].st \in {"waiting", "unsettled"}
        /\ \E fate \in {"applied", "failed", "dead"} : chain' = [chain EXCEPT ![c] = fate]
    BY <1>13 DEF ChainStep, Finalize, Expire
  <2>2. \A d \in Calls : chain[d] = "applied" => chain'[d] = "applied"
    BY <2>1
  <2>3. Truthful(files)' /\ Truthful(backup)' /\ Truthful(user.got)'
    BY <2>1, <2>2, TrueStays DEF Truthful, userVars
  <2>4. \A d \in Calls : Confirms(d)'
    BY <2>1 DEF Confirms, Unsent
  <2>5. QED
    BY <2>3, <2>4 DEF Goal
<1>14. CASE CallStep(c)
  BY <1>3, <1>4, <1>5, <1>6, <1>7, <1>8, <1>9, <1>10, <1>11, <1>12, <1>14 DEF CallStep, Goal
<1>15. CASE CallFails(c)
  BY <1>4, <1>7, <1>9, <1>12, <1>15 DEF CallFails, Goal
<1>16. QED
  BY <1>3, <1>7, <1>13, <1>14, <1>15 DEF Goal

(* What is deleted, read, exported or imported is as true as what was there. *)
LEMMA UserKeepsTruth ==
    ASSUME TruthInv, UserStep
    PROVE  /\ Truthful(files)' /\ Truthful(backup)' /\ Truthful(user.got)'
           /\ \A d \in Calls : Confirms(d)'
<1> USE TruthParts
<1>1. UNCHANGED <<call, chain>>
  BY DEF UserStep, StartForget, Exported, UserFails, UserEnds, ForgetFile, ScanFile, StartScan,
     PlanImport, ImportFile, NoCallChange
<1>2. \A d \in Calls : Confirms(d)'
  BY <1>1 DEF Confirms
<1>3. \/ UNCHANGED <<files, backup>>
         /\ \A s \in user'.got : s \in user.got \cup files \cup backup
      \/ UNCHANGED backup
         /\ (\A s \in files' : s \in files \cup user.got)
         /\ (\A s \in user'.got : s \in user.got)
      \/ UNCHANGED files /\ backup' = user.got /\ user'.got = {}
  <2>1. user \in User
    BY TypeParts
  <2>2. CASE StartForget
    BY <2>2 DEF StartForget, SetUser
  <2>3. ASSUME NEW h \in Calls, ForgetFile(h)
        PROVE  /\ UNCHANGED backup
               /\ \A s \in files' : s \in files \cup user.got
               /\ \A s \in user'.got : s \in user.got
    BY <2>1, <2>3 DEF ForgetFile, User
  <2>4. ASSUME NEW step, StartScan(step)
        PROVE  UNCHANGED <<files, backup>> /\ user'.got = {}
    BY <2>4 DEF StartScan, SetUser
  <2>5. ASSUME NEW h \in Calls, ScanFile(h)
        PROVE  /\ UNCHANGED <<files, backup>>
               /\ \A s \in user'.got : s \in user.got \cup files \cup backup
    <3> DEFINE todo == user.todo \ {h}
               got  == user.got \cup {s \in files : s.hash = h}
    <3>1. user' = [user EXCEPT !.todo = todo, !.got = got] /\ UNCHANGED <<files, backup>>
      BY <2>5 DEF ScanFile
    <3>2. user'.got = got
      <4> HIDE DEF todo, got
      <4> QED BY <2>1, <3>1 DEF User
    <3>3. QED
      BY <3>1, <3>2
  <2>6. CASE Exported
    BY <2>6 DEF Exported, UserIdle
  <2>7. ASSUME NEW strategy, PlanImport(strategy)
        PROVE  /\ UNCHANGED <<files, backup>>
               /\ \A s \in user'.got : s \in user.got \cup files \cup backup
    <3>1. /\ UNCHANGED <<files, backup>>
          /\ user' = UserIdle \/ SetUser("writing", {}, Admitted(strategy, user.got))
      BY <2>7 DEF PlanImport
    <3>2. QED
      BY <3>1 DEF UserIdle, SetUser, Admitted
  <2>8. ASSUME NEW s \in user.got, ImportFile(s)
        PROVE  /\ UNCHANGED backup
               /\ \A t \in files' : t \in files \cup user.got
               /\ \A t \in user'.got : t \in user.got
    <3>1. UNCHANGED backup /\ Put({s}) /\ user' = [user EXCEPT !.got = @ \ {s}]
      BY <2>8 DEF ImportFile
    <3>2. QED
      BY <2>1, <3>1 DEF Put, User
  <2>9. CASE UserFails \/ UserEnds
    BY <2>9 DEF UserFails, UserEnds, UserIdle
  <2>10. QED
    BY <2>2, <2>3, <2>4, <2>5, <2>6, <2>7, <2>8, <2>9 DEF UserStep
<1>4. QED
  BY <1>1, <1>2, <1>3 DEF Truthful

LEMMA TruthHolds == Spec => []TruthInv
<1>1. TypeInv /\ Init => TruthInv
  <2> SUFFICES ASSUME TypeInv, Init PROVE TruthInv
    OBVIOUS
  <2>1. \A c \in Calls : call[c].st = "idle" /\ chain[c] = "none"
    BY NotStartedIsCall DEF Init
  <2>2. QED
    BY <2>1 DEF Init, UserIdle, TruthInv, Truthful, Confirms
<1>2. TruthInv /\ TypeInv' /\ [Next]_vars => TruthInv'
  <2> SUFFICES ASSUME TruthInv, TypeInv', [Next]_vars
               PROVE  /\ Truthful(files)' /\ Truthful(backup)' /\ Truthful(user.got)'
                      /\ \A c \in Calls : Confirms(c)'
    BY DEF TruthInv
  <2>1. CASE UNCHANGED vars
    BY <2>1 DEF vars, userVars, TruthInv, Truthful, Confirms
  <2>2. CASE Crash
    <3>1. \A c \in Calls : Confirms(c)'
      BY <2>2, CrashEffects, TruthParts DEF Confirms, Unsent, Steps, Locked, Settled
    <3>2. QED
      BY <2>2, <3>1, TruthParts DEF Crash, UserIdle, Truthful
  <2>3. QED
    BY <2>1, <2>2, CallsKeepTruth, UserKeepsTruth DEF Next
<1>3. QED
  BY <1>1, <1>2, TypeCorrect, PTL DEF Spec

(* A Confirmed snapshot, on disk or in a backup, is of a transaction that  *)
(* the chain applied, whatever overlaps, is forgotten or imported.         *)
THEOREM ConfirmedIsApplied == Spec => []ConfirmedMeansApplied
<1>1. TruthInv => ConfirmedMeansApplied
  BY DEF TruthInv, Truthful, ConfirmedMeansApplied
<1>2. QED
  BY <1>1, TruthHolds, PTL

-----------------------------------------------------------------------------
(* One call at a time *)

LEMMA OrderParts ==
    ASSUME OrderInv
    PROVE  /\ TypeInv /\ LineInv /\ IsLine(files)
           /\ call \in [Calls -> Call] /\ chain \in [Calls -> Fates]
           /\ files \subseteq Snapshot /\ IsFiniteSet(files)
           /\ \A c \in Calls : ReadHolds(c) /\ Confirms(c) /\ InOrder(c)
           /\ \A c, d \in Calls : call[c].st \notin Settled /\ call[d].st \notin Settled => c = d
  BY TypeParts DEF OrderInv, LineInv, TruthInv, Alone

(* While c moves, the others are settled. *)
LEMMA OthersAreSettled ==
    ASSUME OrderInv, ~Overlap, NEW c \in Calls,
           StartLoad(c) \/ CallStep(c) \/ CallFails(c) \/ ChainStep(c) \/ Reconcile(c)
    PROVE  \A d \in Calls : d # c => call[d].st \in Settled
<1>1. CASE StartLoad(c)
  BY <1>1 DEF StartLoad, MayStart, Settled
<1>2. CASE ~StartLoad(c)
  <2>1. call[c].st \notin Settled
    <3>1. CASE ChainStep(c)
      <4>1. chain[c] = "wire" \/ call[c].st \in {"waiting", "unsettled"}
        BY <3>1 DEF ChainStep, Finalize, Expire
      <4>2. QED
        BY <4>1, OrderParts DEF InOrder, Confirms, Unsent, Settled
    <3>2. CASE CallStep(c) \/ CallFails(c) \/ Reconcile(c)
      BY <3>2 DEF Settled, CallStep, CallFails, Reconcile, Loaded, StartAppend, CheckAppend,
         WriteSnapshot, Submit, MaySubmit, Verdict, StartConfirm, WriteConfirmed, StartDrop,
         Dropped, ReadFile, DropFile, WriteFails, ConfirmFails, DropFails, WaitEnds
    <3>3. QED
      BY <1>2, <3>1, <3>2
  <2>2. QED
    BY <2>1, OrderParts
<1>3. QED
  BY <1>1, <1>2

(* A settled call keeps what it left as long as its own file stays.        *)
LEMMA SettledStaysInOrder ==
    ASSUME OrderInv, NEW d \in Calls, call[d].st \in Settled,
           call'[d] = call[d], chain'[d] = chain[d],
           \A s : s.hash = d => (s \in files <=> s \in files')
    PROVE  InOrder(d)'
<1>1. InOrder(d) /\ Confirms(d)
  BY OrderParts
<1>2. Recorded(d)' <=> Recorded(d)
  BY DEF Recorded, Hashes
<1>3. CASE call[d].st = "idle"
  <2>1. ~Recorded(d)
    BY <1>1, <1>3 DEF InOrder, Unsent
  <2>2. QED
    BY <1>2, <1>3, <2>1 DEF InOrder
<1>4. CASE call[d].st = "done"
  BY <1>1, <1>2, <1>4 DEF InOrder, Unsent
<1>5. QED
  BY <1>3, <1>4 DEF Settled

LEMMA CallsKeepOrder ==
    ASSUME OrderInv, ~Overlap, NEW c \in Calls,
           StartLoad(c) \/ CallStep(c) \/ CallFails(c) \/ ChainStep(c) \/ Reconcile(c)
    PROVE  Alone' /\ \A d \in Calls : InOrder(d)'
<1> USE OrderParts
<1> DEFINE Goal == Alone' /\ \A d \in Calls : InOrder(d)'
<1>1. ASSUME Moves(c) \/ call' = call, InOrder(c)',
             \A s : s.hash # c => (s \in files <=> s \in files'),
             \A d \in Calls : d # c => chain'[d] = chain[d]
      PROVE  Goal
  <2>1. \A d \in Calls : d # c => call[d].st \in Settled /\ call'[d] = call[d]
    BY <1>1, OthersAreSettled DEF Moves
  <2>2. Alone'
    BY <2>1 DEF Alone
  <2>3. \A d \in Calls : d # c => InOrder(d)'
    BY <1>1, <2>1, SettledStaysInOrder
  <2>4. QED
    BY <1>1, <2>2, <2>3
<1>2. ASSUME Moves(c), InOrder(c)', UNCHANGED <<files, chain>>
      PROVE  Goal
  BY <1>1, <1>2
<1> HIDE DEF Goal
<1>3. CASE StartLoad(c)
  <2>1. /\ Moves(c) /\ call'[c].st = "loading" /\ call[c].st = "idle"
        /\ call'[c].todo = Hashes(files) /\ call'[c].got = {} /\ UNCHANGED <<files, chain>>
    BY <1>3, LoadEffects DEF StartLoad
  <2>2. ~Recorded(c)
    BY <2>1 DEF InOrder, Unsent
  <2>3. InOrder(c)'
    BY <2>1, <2>2 DEF InOrder, Recorded, Hashes
  <2>4. QED
    BY <1>2, <2>1, <2>3 DEF Goal
<1>4. ASSUME NEW h \in Calls, ReadFile(c, h) PROVE Goal
  <2>1. /\ Moves(c) /\ call'[c].st = "loading" /\ call'[c].todo = call[c].todo \ {h}
        /\ call'[c].got = call[c].got \cup {s \in files : s.hash = h}
        /\ call[c].st = "loading" /\ h \in call[c].todo /\ UNCHANGED <<files, chain>>
    BY <1>4, LoadEffects DEF ReadFile
  <2>2. ~Recorded(c) /\ call[c].got = {s \in files : s.hash \notin call[c].todo}
    BY <2>1 DEF InOrder, Unsent
  <2>3. call'[c].got = {s \in files : s.hash \notin call'[c].todo}
    BY <2>1, <2>2
  <2>4. InOrder(c)'
    BY <2>1, <2>2, <2>3 DEF InOrder, Recorded
  <2>5. QED
    BY <1>2, <2>1, <2>4 DEF Goal
<1>5. CASE Loaded(c)
  <2>1. /\ Moves(c) /\ call'[c].st \in {"loaded", "idle"}
        /\ call'[c].st = "loaded" => call'[c].parent = JournalHead(call[c].got)
        /\ call[c].st = "loading" /\ call[c].todo = {} /\ UNCHANGED <<files, chain>>
    BY <1>5, LoadEffects DEF Loaded
  <2>2. ~Recorded(c) /\ call[c].got = {s \in files : s.hash \notin {}}
    BY <2>1 DEF InOrder, Unsent
  <2>3. call[c].got = files
    BY <2>2
  <2>4. InOrder(c)'
    BY <2>1, <2>2, <2>3 DEF InOrder, Recorded
  <2>5. QED
    BY <1>2, <2>1, <2>4 DEF Goal
<1>6. CASE StartAppend(c) \/ CheckAppend(c) \/ WriteFails(c)
  <2>1. /\ Moves(c) /\ UNCHANGED <<files, chain>>
        /\ call[c].st \in {"loaded", "appending", "checked"}
        /\ \/ call'[c].st \in {"appending", "checked"} /\ call'[c].parent = call[c].parent
           \/ call'[c].st = "idle"
    BY <1>6, AppendEffects DEF StartAppend, CheckAppend, WriteFails
  <2>2. ~Recorded(c) /\ JournalHead(files) = call[c].parent
    BY <2>1 DEF InOrder, Unsent
  <2>3. InOrder(c)'
    BY <2>1, <2>2 DEF InOrder, Recorded
  <2>4. QED
    BY <1>2, <2>1, <2>3 DEF Goal
<1>7. CASE WriteSnapshot(c)
  <2> DEFINE new == PendingSnapshot(c, call[c].parent)
  <2>1. /\ Moves(c) /\ call'[c].st = "recorded" /\ call[c].st = "checked"
        /\ files' = files \cup {new} /\ chain' = chain
    BY <1>7, AppendEffects DEF WriteSnapshot
  <2>2. new.hash = c /\ new.parent = call[c].parent
    BY WrittenIsSnapshot
  <2>3. ~Recorded(c) /\ JournalHead(files) = call[c].parent
    BY <2>1 DEF InOrder, Unsent
  <2> HIDE DEF new
  <2>4. JournalHead(files') = c
    BY <2>1, <2>2, <2>3, AppendedLine DEF Recorded
  <2>5. Recorded(c)'
    BY <2>1, <2>2 DEF Recorded, Hashes
  <2>6. InOrder(c)'
    BY <2>1, <2>4, <2>5 DEF InOrder, Unsent
  <2>7. QED
    BY <1>1, <2>1, <2>2, <2>6 DEF Goal
<1>8. CASE Submit(c)
  <2>1. /\ Moves(c) /\ call'[c].st \in {"waiting", "unsettled"} /\ call[c].st = "recorded"
        /\ files' = files
    BY <1>8, WaitEffects DEF Submit, MaySubmit
  <2>2. PICK fate \in {"none", "wire"} : chain' = [chain EXCEPT ![c] = fate]
    BY <1>8, WaitEffects
  <2>3. Recorded(c) /\ JournalHead(files) = c
    BY <2>1 DEF InOrder
  <2>4. InOrder(c)'
    BY <2>1, <2>3 DEF InOrder, Recorded, Unsent
  <2>5. QED
    BY <1>1, <2>1, <2>2, <2>4 DEF Goal
<1>9. CASE Verdict(c) \/ WaitEnds(c)
  <2>1. /\ Moves(c) /\ UNCHANGED <<files, chain>> /\ call[c].st = "waiting"
        /\ \/ call'[c].st \in {"confirm", "unsettled"}
           \/ call'[c].st = "drop" /\ chain[c] = "failed"
    BY <1>9, WaitEffects DEF Verdict, WaitEnds
  <2>2. Recorded(c) /\ JournalHead(files) = c
    BY <2>1 DEF InOrder
  <2>3. InOrder(c)'
    BY <2>1, <2>2 DEF InOrder, Recorded, Unsent
  <2>4. QED
    BY <1>2, <2>1, <2>3 DEF Goal
<1>10. CASE Reconcile(c)
  <2>1. /\ Moves(c) /\ UNCHANGED <<files, chain>> /\ call[c].st = "unsettled"
        /\ \/ call'[c].st = "confirm" /\ chain[c] = "applied"
           \/ call'[c].st = "drop" /\ chain[c] \in {"failed", "dead"}
    BY <1>10, WaitEffects DEF Reconcile
  <2>2. (Recorded(c) => JournalHead(files) = c) /\ (chain[c] = "applied" => Recorded(c))
    BY <2>1 DEF InOrder
  <2>3. InOrder(c)'
    BY <2>1, <2>2 DEF InOrder, Recorded, Unsent
  <2>4. QED
    BY <1>2, <2>1, <2>3 DEF Goal
<1>11. CASE StartConfirm(c)
  <2>1. /\ Moves(c) /\ UNCHANGED <<files, chain>> /\ call[c].st = "confirm"
        /\ call'[c].st = "confirming" \/ (~Recorded(c) /\ call'[c].st = "done")
    BY <1>11, SettleEffects DEF StartConfirm
  <2>2. Recorded(c) /\ JournalHead(files) = c
    BY <2>1 DEF InOrder
  <2>3. InOrder(c)'
    BY <2>1, <2>2 DEF InOrder, Recorded, Unsent
  <2>4. QED
    BY <1>2, <2>1, <2>3 DEF Goal
<1>12. CASE WriteConfirmed(c) \/ ConfirmFails(c)
  <2>1. /\ Moves(c) /\ chain' = chain /\ call[c].st = "confirming"
        /\ \/ call'[c].st = "done" /\ PutConfirmed(c)
           \/ call'[c].st = "unsettled" /\ (PutConfirmed(c) \/ files' = files)
    BY <1>12, SettleEffects DEF WriteConfirmed, ConfirmFails
  <2>2. /\ Recorded(c) /\ JournalHead(files) = c /\ chain[c] = "applied"
        /\ call[c].got = {s \in files : s.hash = c}
    BY <2>1 DEF InOrder, Confirms, ReadHolds
  <2>3. PutConfirmed(c) =>
          /\ \A t \in files' : \E s \in files :
               t.hash = s.hash /\ (t.hash # c => t = s) /\ (t.hash = c => t.status = "Confirmed")
          /\ \A s \in files : \E t \in files' : t.hash = s.hash /\ (s.hash # c => t = s)
          /\ Hashes(files') = Hashes(files) /\ JournalHead(files') = JournalHead(files)
    BY <2>2, ConfirmKeeps, ConfirmIsLine
  <2>4. Recorded(c)' /\ JournalHead(files') = c
    BY <2>1, <2>2, <2>3 DEF Recorded
  <2>5. \A s : s.hash # c => (s \in files <=> s \in files')
    BY <2>1, <2>3
  <2>6. InOrder(c)'
    BY <2>1, <2>2, <2>3, <2>4 DEF InOrder, Unsent
  <2>7. QED
    BY <1>1, <2>1, <2>5, <2>6 DEF Goal
<1>13. CASE StartDrop(c)
  <2>1. /\ Moves(c) /\ UNCHANGED <<files, chain>> /\ call[c].st = "drop"
        /\ \/ Recorded(c) /\ call'[c].st = "dropping" /\ call'[c].todo = Walk(files, {c})
           \/ ~Recorded(c) /\ call'[c].st = "done"
    BY <1>13, SettleEffects DEF StartDrop
  <2>2. (Recorded(c) => JournalHead(files) = c) /\ chain[c] \in {"failed", "dead"}
    BY <2>1 DEF InOrder
  <2>3. Recorded(c) => Walk(files, {c}) = {c}
    BY <2>2, WalkFromHead DEF Recorded
  <2>4. CASE Recorded(c)
    <3>1. call'[c].st = "dropping" /\ call'[c].todo = {c}
      BY <2>1, <2>3, <2>4
    <3>2. JournalHead(files') = c /\ chain'[c] \in {"failed", "dead"} /\ Recorded(c)'
      BY <2>1, <2>2, <2>4 DEF Recorded
    <3>3. InOrder(c)'
      BY <3>1, <3>2 DEF InOrder, Unsent
    <3>4. QED
      BY <1>2, <2>1, <3>3 DEF Goal
  <2>5. CASE ~Recorded(c)
    <3>1. \A s \in files : s.hash # c
      BY <2>5 DEF Recorded, Hashes
    <3>2. InOrder(c)'
      BY <2>1, <2>2, <2>5, <3>1 DEF InOrder, Recorded, Unsent
    <3>3. QED
      BY <1>2, <2>1, <3>2 DEF Goal
  <2>6. QED
    BY <2>4, <2>5
<1>14. ASSUME NEW h \in Calls, DropFile(c, h) PROVE Goal
  <2>1. /\ Moves(c) /\ call'[c].st = "dropping" /\ call[c].st = "dropping" /\ chain' = chain
        /\ call'[c].todo = call[c].todo \ {h} /\ h \in call[c].todo
        /\ files' = {s \in files : s.hash # h}
    BY <1>14, SettleEffects DEF DropFile, CascadeOrder
  <2>2. h = c /\ chain[c] \in {"failed", "dead"} /\ call[c].todo \subseteq {c}
    BY <2>1 DEF InOrder
  <2>3. ~Recorded(c)'
    BY <2>1, <2>2 DEF Recorded, Hashes
  <2>4. InOrder(c)'
    BY <2>1, <2>2, <2>3 DEF InOrder, Unsent
  <2>5. QED
    BY <1>1, <2>1, <2>2, <2>4 DEF Goal
<1>15. CASE DropFails(c) \/ Dropped(c)
  <2>1. /\ Moves(c) /\ UNCHANGED <<files, chain>> /\ call[c].st = "dropping"
        /\ call'[c].st = "unsettled" \/ (call'[c].st = "done" /\ call[c].todo = {})
    BY <1>15, SettleEffects DEF DropFails, Dropped
  <2>2. /\ Recorded(c) => JournalHead(files) = c /\ c \in call[c].todo
        /\ chain[c] \in {"failed", "dead"}
    BY <2>1 DEF InOrder
  <2>3. ~Recorded(c) => \A s \in files : s.hash # c
    BY DEF Recorded, Hashes
  <2>4. InOrder(c)'
    BY <2>1, <2>2, <2>3 DEF InOrder, Recorded, Unsent
  <2>5. QED
    BY <1>2, <2>1, <2>4 DEF Goal
<1>16. CASE ChainStep(c)
  <2>1. /\ UNCHANGED <<files, call>> /\ chain[c] \in {"none", "wire"}
        /\ \E fate \in {"applied", "failed", "dead"} : chain' = [chain EXCEPT ![c] = fate]
    BY <1>16 DEF ChainStep, Finalize, Expire
  <2>2. InOrder(c)'
    BY <2>1 DEF InOrder, Recorded, Unsent
  <2>3. QED
    BY <1>1, <2>1, <2>2 DEF Goal
<1>17. CASE CallStep(c)
  BY <1>4, <1>5, <1>6, <1>7, <1>8, <1>9, <1>11, <1>12, <1>13, <1>14, <1>15, <1>17
     DEF CallStep, Goal
<1>18. CASE CallFails(c)
  BY <1>6, <1>9, <1>12, <1>15, <1>18 DEF CallFails, Goal
<1>19. QED
  BY <1>3, <1>10, <1>16, <1>17, <1>18 DEF Goal

(* With one call at a time and neither forget nor import, the calls are in *)
(* order.                                                                  *)
LEMMA OrderHolds ==
    ASSUME ~Overlap, Maintenance = {}
    PROVE  Spec => []OrderInv
<1>1. LineInv /\ TruthInv /\ Init => OrderInv
  <2> SUFFICES ASSUME LineInv, TruthInv, Init PROVE OrderInv
    OBVIOUS
  <2>1. \A c \in Calls : call[c].st = "idle"
    BY NotStartedIsCall DEF Init
  <2>2. files = {} /\ ~tended
    BY DEF Init
  <2>3. \A c \in Calls : InOrder(c)
    BY <2>1, <2>2 DEF InOrder, Recorded, Hashes
  <2>4. QED
    BY <2>1, <2>2, <2>3 DEF OrderInv, Alone, Settled
<1>2. OrderInv /\ LineInv' /\ TruthInv' /\ [Next]_vars => OrderInv'
  <2> SUFFICES ASSUME OrderInv, LineInv', TruthInv', [Next]_vars
               PROVE  ~tended' /\ Alone' /\ \A c \in Calls : InOrder(c)'
    BY DEF OrderInv
  <2>1. CASE UNCHANGED vars
    BY <2>1 DEF vars, userVars, OrderInv, Alone, InOrder, Recorded
  <2>2. ASSUME NEW c \in Calls,
               StartLoad(c) \/ CallStep(c) \/ CallFails(c) \/ ChainStep(c) \/ Reconcile(c)
        PROVE  ~tended' /\ Alone' /\ \A d \in Calls : InOrder(d)'
    BY <2>2, CallsLeaveUser, CallsKeepOrder DEF userVars, OrderInv
  <2>3. CASE UserStep
    <3>1. ~tended'
      BY <2>3 DEF OrderInv, UserStep, StartForget, Exported, UserFails, UserEnds, ForgetFile,
         ScanFile, StartScan, PlanImport, ImportFile
    <3>2. UNCHANGED <<files, call, chain>>
      BY <2>3, <3>1, UserOnlyReads DEF OrderInv
    <3>3. QED
      BY <3>1, <3>2 DEF OrderInv, Alone, InOrder, Recorded
  <2>4. CASE Crash
    <3>1. UNCHANGED <<files, chain, tended>>
      BY <2>4, OrderParts, CrashEffects
    <3>2. \A c \in Calls : /\ call[c].st \in Settled => call'[c] = call[c]
                           /\ call'[c].st \notin Settled => call[c].st \notin Settled
      BY <2>4, OrderParts, CrashEffects
    <3>3. Alone'
      BY <3>2, OrderParts DEF Alone
    <3>4. ASSUME NEW c \in Calls PROVE InOrder(c)'
      <4>1. InOrder(c) /\ Confirms(c)
        BY OrderParts
      <4>2. CASE call[c].st \in Settled
        BY <3>1, <3>2, <4>1, <4>2 DEF InOrder, Recorded, Settled
      <4>3. CASE call[c].st \in {"loading", "loaded", "appending", "checked"}
        <5>1. call'[c].st = "idle" /\ ~Recorded(c)
          BY <2>4, <4>1, <4>3, OrderParts, CrashEffects DEF InOrder, Unsent
        <5>2. QED
          BY <3>1, <5>1 DEF InOrder, Recorded
      <4>4. CASE call[c].st \in {"recorded", "waiting", "unsettled", "confirm", "confirming",
                                 "drop", "dropping"}
        <5>1. call'[c].st = "unsettled"
          BY <2>4, <4>4, OrderParts, CrashEffects
        <5>2. QED
          BY <3>1, <4>1, <4>4, <5>1 DEF InOrder, Recorded, Unsent
      <4>5. QED
        BY <2>4, <4>2, <4>3, <4>4, OrderParts, CrashEffects DEF Steps, Locked, Settled
    <3>5. QED
      BY <3>1, <3>3, <3>4 DEF OrderInv
  <2>5. QED
    BY <2>1, <2>2, <2>3, <2>4 DEF Next
<1>3. QED
  BY <1>1, <1>2, LineHolds, TruthHolds, PTL DEF Spec

(* With one call at a time, a call starts from the state of exactly the    *)
(* calls that the chain applied, in a journal whose head is its baseline   *)
(* until it has recorded itself (head_with_extrinsic, append_pending).     *)
THEOREM BaselineIsTrue ==
    ASSUME ~Overlap, Maintenance = {}
    PROVE  Spec => []BaselineIsApplied
<1>1. OrderInv => BaselineIsApplied
  <2> SUFFICES ASSUME OrderInv, NEW c \in Calls, call[c].st \in {"loaded", "appending", "checked"}
               PROVE  /\ Hashes(files) = {d \in Calls : chain[d] = "applied"}
                      /\ JournalHead(files) = call[c].parent
    BY DEF BaselineIsApplied
  <2>1. \A d \in Calls : Recorded(d) <=> chain[d] = "applied"
    <3> TAKE d \in Calls
    <3>1. CASE d = c
      BY <3>1, OrderParts DEF InOrder, Confirms, Unsent
    <3>2. CASE d # c
      <4>1. call[d].st \in Settled
        BY <3>2, OrderParts DEF Settled
      <4>2. QED
        BY <4>1, OrderParts DEF InOrder, Confirms, Unsent, Settled
    <3>3. QED
      BY <3>1, <3>2
  <2>2. Hashes(files) \subseteq Calls
    BY OrderParts DEF Hashes, Snapshot
  <2>3. JournalHead(files) = call[c].parent
    BY OrderParts DEF InOrder
  <2>4. QED
    BY <2>1, <2>2, <2>3 DEF Recorded
<1>2. QED
  BY <1>1, OrderHolds, PTL

(* With one call at a time, a transaction that the chain applied, or can   *)
(* still apply, has its snapshot in the journal, whatever failed or        *)
(* crashed since (record_and_submit, settle_snapshot).                     *)
THEOREM InFlightIsRecorded ==
    ASSUME ~Overlap, Maintenance = {}
    PROVE  Spec => []RecordedWhileInFlight
<1>1. OrderInv => RecordedWhileInFlight
  <2> SUFFICES ASSUME OrderInv, NEW c \in Calls, chain[c] \in {"wire", "applied"}
               PROVE  Recorded(c)
    BY DEF RecordedWhileInFlight
  <2>1. InOrder(c) /\ Confirms(c) /\ call[c].st \in Steps
    BY OrderParts DEF Call
  <2>2. QED
    BY <2>1 DEF InOrder, Confirms, Unsent, Steps, Locked
<1>2. QED
  BY <1>1, OrderHolds, PTL

(* With one call at a time, a settled call left a Confirmed snapshot if    *)
(* the chain applied it, and none otherwise (confirm, mark_failed).        *)
THEOREM SettledStaysTrue ==
    ASSUME ~Overlap, Maintenance = {}
    PROVE  Spec => []SettledIsTrue
<1>1. OrderInv => SettledIsTrue
  <2> SUFFICES ASSUME OrderInv, NEW c \in Calls, call[c].st = "done"
               PROVE  {s.status : s \in {t \in files : t.hash = c}} =
                         IF chain[c] = "applied" THEN {"Confirmed"} ELSE {}
    BY DEF SettledIsTrue
  <2>1. /\ Recorded(c) <=> chain[c] = "applied"
        /\ \A s \in files : s.hash = c => s.status = "Confirmed"
    BY OrderParts DEF InOrder
  <2>2. Recorded(c) <=> \E s \in files : s.hash = c
    BY DEF Recorded, Hashes
  <2>3. QED
    BY <2>1, <2>2
<1>2. QED
  BY <1>1, OrderHolds, PTL

-----------------------------------------------------------------------------
(* The refinement of JournalLog *)

(* How many snapshots of S the chain holds up to h, and S as a log.        *)
HeightIn(S, h) == Cardinality({s \in S : h \in Walk(S, {s.hash})})

LogOf(S) ==
    IF FindsLeaf(S)
    THEN [n \in 1..Cardinality(S) |-> CHOOSE h \in Hashes(S) : HeightIn(S, h) = n]
    ELSE <<>>

ConfirmedIn(S) == {s.hash : s \in {t \in S : t.status = "Confirmed"}}

LEMMA LineHeight ==
    ASSUME NEW S, NEW log, Lists(log, S), NEW i \in 1..Len(log)
    PROVE  HeightIn(S, log[i]) = i
<1> DEFINE N == Len(log)
           at == [k \in 1..N |-> CHOOSE s \in S : s.hash = log[k]]
           Below == {s \in S : log[i] \in Walk(S, {s.hash})}
<1>1. /\ N \in Nat /\ i \in 1..N
      /\ \A j, k \in 1..N : log[j] = log[k] => j = k
      /\ \A s, t \in S : s.hash = t.hash => s = t
      /\ \A k \in 1..N : \E s \in S : s.hash = log[k]
      /\ \A s \in S : \E k \in 1..N : s.hash = log[k]
  BY LineParts
<1>2. \A k \in 1..N : at[k] \in S /\ at[k].hash = log[k]
  BY <1>1
<1>3. \A s \in S : \A k \in 1..N : s.hash = log[k] => (s \in Below <=> k <= i)
  <2> TAKE s \in S
  <2> TAKE k \in 1..N
  <2> HAVE s.hash = log[k]
  <2>1. Walk(S, {s.hash}) = {log[j] : j \in k..N}
    BY LineWalk
  <2>2. log[i] \in {log[j] : j \in k..N} <=> k <= i
    <3>1. \A j \in k..N : j \in 1..N /\ k <= j
      BY <1>1
    <3>2. k <= i => i \in k..N
      BY <1>1
    <3>3. QED
      BY <1>1, <3>1, <3>2
  <2>3. QED
    BY <2>1, <2>2
<1>4. i \in Nat /\ 1..i \subseteq 1..N
  BY <1>1
<1>5. Below = {at[k] : k \in 1..i}
  <2> HIDE DEF at
  <2>1. Below \subseteq S
    OBVIOUS
  <2> HIDE DEF Below
  <2>2. \A k \in 1..i : at[k] \in Below
    BY <1>2, <1>3, <1>4
  <2>3. \A s \in Below : \E k \in 1..i : s = at[k]
    <3> TAKE s \in Below
    <3>1. PICK k \in 1..N : s.hash = log[k]
      BY <1>1, <2>1
    <3>2. k <= i
      BY <1>3, <2>1, <3>1
    <3>3. s = at[k]
      BY <1>1, <1>2, <2>1, <3>1
    <3>4. QED
      BY <1>1, <3>1, <3>2, <3>3
  <2>4. QED
    BY <2>2, <2>3
<1>6. \A x, y \in 1..i : at[x] = at[y] => x = y
  <2> HIDE DEF at
  <2> QED BY <1>1, <1>2, <1>4
<1>7. IsFiniteSet(1..i) /\ Cardinality(1..i) = i
  BY <1>4, FS_Interval
<1>8. Cardinality(Below) = i
  <2> HIDE DEF at, Below
  <2>1. Cardinality({at[k] : k \in 1..i}) = Cardinality(1..i)
    BY <1>6, <1>7, InjectiveImage
  <2>2. QED
    BY <1>5, <1>7, <2>1
<1>9. QED
  BY <1>8 DEF HeightIn

(* The log of a line is the sequence that lists it. *)
LEMMA LineIsLog ==
    ASSUME NEW S, NEW log, Lists(log, S)
    PROVE  LogOf(S) = log
<1> DEFINE N == Len(log)
           h(n) == CHOOSE x \in Hashes(S) : HeightIn(S, x) = n
<1>1. /\ N \in Nat /\ log \in [1..N -> Calls]
      /\ Hashes(S) = {log[i] : i \in 1..N}
      /\ FindsLeaf(S) /\ Cardinality(S) = N
  <2>1. N \in Nat /\ log \in [1..N -> Calls]
    BY LineParts
  <2>2. FindsLeaf(S) /\ Cardinality(S) = N
    BY LineFinds, LineCount
  <2>3. QED
    BY <2>1, <2>2 DEF Lists
<1>2. ASSUME NEW n \in 1..N PROVE h(n) = log[n]
  <2>1. log[n] \in Hashes(S) /\ HeightIn(S, log[n]) = n
    BY <1>1, LineHeight
  <2>2. h(n) \in Hashes(S) /\ HeightIn(S, h(n)) = n
    BY <2>1
  <2> HIDE DEF h
  <2>3. PICK i \in 1..N : h(n) = log[i]
    BY <1>1, <2>2
  <2>4. HeightIn(S, log[i]) = i
    BY LineHeight
  <2>5. QED
    BY <2>2, <2>3, <2>4
<1>3. LogOf(S) = [n \in 1..N |-> h(n)]
  BY <1>1 DEF LogOf
<1>4. [n \in 1..N |-> h(n)] = [n \in 1..N |-> log[n]]
  <2> HIDE DEF h
  <2> QED BY <1>2
<1>5. QED
  BY <1>1, <1>3, <1>4

(* A write is an append, a confirm a confirm, and the delete of a drop     *)
(* takes the last call off the log.                                        *)
LEMMA AppendRefines ==
    ASSUME OrderInv, NEW c \in Calls, WriteSnapshot(c)
    PROVE  Log!AppendPending(c)
<1> USE OrderParts
<1> DEFINE new == PendingSnapshot(c, call[c].parent)
<1>1. call[c].st = "checked" /\ files' = files \cup {new}
  BY DEF WriteSnapshot
<1>2. new.hash = c /\ new.parent = call[c].parent /\ new.status = "Pending"
  BY WrittenIsSnapshot
<1>3. ~Recorded(c) /\ JournalHead(files) = call[c].parent
  BY <1>1 DEF InOrder, Unsent
<1>4. PICK log \in Seq(Calls) : Lists(log, files)
  BY DEF IsLine
<1> HIDE DEF new
<1>5. Lists(Append(log, c), files')
  <2>1. Lists(Append(log, new.hash), files \cup {new})
    BY <1>2, <1>3, <1>4, LineLonger DEF Recorded
  <2>2. QED
    BY <1>1, <1>2, <2>1
<1>6. LogOf(files) = log /\ LogOf(files') = Append(log, c)
  <2> DEFINE longer == Append(log, c)
  <2>1. Lists(longer, files')
    BY <1>5
  <2> HIDE DEF longer
  <2>2. LogOf(files') = longer
    BY <2>1, LineIsLog
  <2>3. QED
    BY <1>4, <2>2, LineIsLog DEF longer
<1>7. c \notin {log[i] : i \in DOMAIN log}
  BY <1>3, <1>4 DEF Recorded, Lists
<1>8. ConfirmedIn(files') = ConfirmedIn(files)
  BY <1>1, <1>2 DEF ConfirmedIn
<1>9. LogOfFiles = LogOf(files) /\ LogOfFiles' = LogOf(files')
  BY DEF LogOfFiles, LogOf, Height, HeightIn
<1>10. QED
  BY <1>6, <1>7, <1>8, <1>9 DEF Log!AppendPending, Log!ToSet, ConfirmedIn

LEMMA ConfirmRefines ==
    ASSUME OrderInv, NEW c \in Calls, call[c].st = "confirming", PutConfirmed(c)
    PROVE  Log!Confirm(c)
<1> USE OrderParts
<1>1. Recorded(c) /\ call[c].got = {s \in files : s.hash = c}
  BY DEF InOrder, ReadHolds
<1>2. PICK log \in Seq(Calls) : Lists(log, files)
  BY DEF IsLine
<1>3. Lists(log, files')
  BY <1>1, <1>2, ConfirmLine
<1>4. LogOf(files) = log /\ LogOf(files') = log
  BY <1>2, <1>3, LineIsLog
<1>5. c \in {log[i] : i \in DOMAIN log}
  BY <1>1, <1>2 DEF Recorded, Lists
<1>6. ConfirmedIn(files') = ConfirmedIn(files) \cup {c}
  <2>1. /\ \A t \in files' : \E s \in files :
             t.hash = s.hash /\ (t.hash # c => t = s) /\ (t.hash = c => t.status = "Confirmed")
        /\ \A s \in files : \E t \in files' : t.hash = s.hash /\ (s.hash # c => t = s)
    BY <1>1, ConfirmKeeps
  <2>2. PICK s \in files : s.hash = c
    BY <1>1 DEF Recorded, Hashes
  <2>3. c \in ConfirmedIn(files')
    BY <2>1, <2>2 DEF ConfirmedIn
  <2>4. \A h : h # c => (h \in ConfirmedIn(files') <=> h \in ConfirmedIn(files))
    BY <2>1 DEF ConfirmedIn
  <2>5. QED
    BY <2>3, <2>4
<1>7. LogOfFiles = LogOf(files) /\ LogOfFiles' = LogOf(files')
  BY DEF LogOfFiles, LogOf, Height, HeightIn
<1>8. QED
  BY <1>4, <1>5, <1>6, <1>7 DEF Log!Confirm, Log!ToSet, ConfirmedIn

LEMMA DropRefines ==
    ASSUME OrderInv, NEW c \in Calls, NEW h \in Calls, DropFile(c, h)
    PROVE  Log!MarkFailed \/ files' = files
<1> USE OrderParts
<1>1. /\ call[c].st = "dropping" /\ files' = {s \in files : s.hash # h}
      /\ h \in CascadeOrder(call[c].got, call[c].todo)
  BY DEF DropFile
<1>2. /\ h = c /\ chain[c] # "applied"
      /\ files \subseteq call[c].got
      /\ \A s \in files : s.parent \in call[c].todo => s.hash \in call[c].todo
  BY <1>1 DEF InOrder, ReadHolds, CascadeOrder
<1>3. \A s \in files : s.parent # h
  BY <1>1, <1>2 DEF CascadeOrder
<1>4. CASE h \notin Hashes(files)
  BY <1>1, <1>4 DEF Hashes
<1>5. CASE h \in Hashes(files)
  <2>1. PICK log \in Seq(Calls) : Lists(log, files)
    BY DEF IsLine
  <2> DEFINE shorter == SubSeq(log, 1, Len(log) - 1)
  <2>2. log # <<>> /\ h = log[Len(log)] /\ Lists(shorter, files')
    BY <1>1, <1>3, <1>5, <2>1, LineShorter
  <2>3. LogOf(files) = log /\ LogOf(files') = shorter
    <3> HIDE DEF shorter
    <3> QED BY <2>1, <2>2, LineIsLog
  <2>4. \A s \in files : s.hash = h => s.status # "Confirmed"
    BY <1>2 DEF OrderInv, TruthInv, Truthful
  <2>5. ConfirmedIn(files') = ConfirmedIn(files) /\ h \notin ConfirmedIn(files)
    BY <1>1, <2>4 DEF ConfirmedIn
  <2>6. LogOfFiles = LogOf(files) /\ LogOfFiles' = LogOf(files')
    BY DEF LogOfFiles, LogOf, Height, HeightIn
  <2>7. QED
    BY <2>2, <2>3, <2>5, <2>6 DEF Log!MarkFailed, Log!Last, Log!Front, ConfirmedIn
<1>6. QED
  BY <1>4, <1>5

(* For a caller that settles each call before the next, the directory      *)
(* implements the log: each file operation, failed write, crash and        *)
(* cascade is one step of it or none.                                      *)
THEOREM JournalIsLog ==
    ASSUME ~Overlap, Maintenance = {}
    PROVE  Spec => ImplementsLog
<1> DEFINE barConfirmed == {s.hash : s \in {t \in files : t.status = "Confirmed"}}
<1>1. Init => Log!Init
  <2> SUFFICES ASSUME Init PROVE Log!Init
    OBVIOUS
  <2>1. files = {}
    BY DEF Init
  <2>2. LogOf({}) = <<>>
    BY EmptyLine, LineIsLog
  <2>3. LogOfFiles = LogOf(files)
    BY DEF LogOfFiles, LogOf, Height, HeightIn
  <2>4. QED
    BY <2>1, <2>2, <2>3 DEF Log!Init
<1>2. files' = files => UNCHANGED <<LogOfFiles, barConfirmed>>
  BY DEF LogOfFiles, Height
<1>3. OrderInv /\ [Next]_vars => [Log!Next]_<<LogOfFiles, barConfirmed>>
  <2> SUFFICES ASSUME OrderInv, [Next]_vars
               PROVE  Log!Next \/ files' = files
    BY <1>2
  <2>1. ASSUME NEW c \in Calls, WriteSnapshot(c) PROVE Log!Next
    BY <2>1, AppendRefines DEF Log!Next
  <2>2. ASSUME NEW c \in Calls, WriteConfirmed(c) \/ ConfirmFails(c)
        PROVE  Log!Next \/ files' = files
    BY <2>2, ConfirmRefines DEF Log!Next, WriteConfirmed, ConfirmFails
  <2>3. ASSUME NEW c \in Calls, NEW h \in Calls, DropFile(c, h)
        PROVE  Log!Next \/ files' = files
    BY <2>3, DropRefines DEF Log!Next
  <2>4. ASSUME NEW c \in Calls, StartLoad(c) \/ CallStep(c) \/ CallFails(c) \/ ChainStep(c) \/ Reconcile(c)
        PROVE  Log!Next \/ files' = files
    BY <2>1, <2>2, <2>3, <2>4 DEF StartLoad, CallStep, CallFails, ChainStep, Reconcile, Loaded,
       StartAppend, CheckAppend, Submit, Verdict, StartConfirm, StartDrop, Dropped, ReadFile,
       WriteFails, DropFails, WaitEnds, Finalize, Expire
  <2>5. CASE UserStep
    <3>1. ~tended'
      BY <2>5 DEF OrderInv, UserStep, StartForget, Exported, UserFails, UserEnds, ForgetFile,
         ScanFile, StartScan, PlanImport, ImportFile
    <3>2. QED
      BY <2>5, <3>1, UserOnlyReads DEF OrderInv
  <2>6. CASE Crash \/ UNCHANGED vars
    BY <2>6 DEF Crash, vars
  <2>7. QED
    BY <2>4, <2>5, <2>6 DEF Next
<1>4. QED
  BY <1>1, <1>3, OrderHolds, PTL DEF Spec, ImplementsLog, Log!Spec
=============================================================================
