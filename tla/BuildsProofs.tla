---------------------------- MODULE BuildsProofs ----------------------------
(***************************************************************************)
(* The proofs about builds, for every stock, price, job and payment: each  *)
(* wallet holds exactly the inputs of its own that the transaction spends, *)
(* until it can no longer land; and what is paid covers its fee as the     *)
(* price rises to the margin, spends no input twice, is in time, and is    *)
(* signed as it ended up.                                                  *)
(*                                                                         *)
(* The invariant is of a transaction that stands (GoodMade).  A part is    *)
(* sound for the wallet that builds it (Sound), whichever of the kinds it  *)
(* is: its plan spends what the build chose from the wallet's view         *)
(* (GoodPlan), the rounds of the fee add Dust of the same view, and the    *)
(* proof changes signatures and bindings alone.  Parts of different        *)
(* wallets spend different inputs, so merged they spend none twice; and a  *)
(* wallet that pays draws only on Dust that it does not hold yet.          *)
(*                                                                         *)
(* The lemmas build up in that order: selections and sums, transactions    *)
(* and the places where they spend, the Dust of a fee and its rounds, the  *)
(* assembly of a plan, each kind of part, merging, and the steps.          *)
(***************************************************************************)
EXTENDS Builds, NaturalsInduction, WellFoundedInduction, FiniteSetTheorems, SequenceTheorems, TLAPS

(* Every non-empty set of natural numbers has a least element. *)
LEMMA LeastNat ==
    ASSUME NEW T \in SUBSET Nat, T # {}
    PROVE  \E n \in T : \A m \in T : n <= m
<1> DEFINE R == {ss \in Nat \X Nat : ss[1] < ss[2]}
<1>1. IsWellFoundedOn(R, Nat)
  BY NatLessThanWellFounded DEF OpToRel
<1>2. PICK n \in T : \A m \in T : ~ (<<m, n>> \in R)
  <2> HIDE DEF R
  <2>1. QED
    BY <1>1, WFMin
<1>3. \A m \in T : ~(m < n)
  BY <1>2
<1>4. QED
  BY <1>3

(* Induction from 0 to N: a set that holds 0 and every successor. *)
LEMMA SetInduction ==
    ASSUME NEW T, 0 \in T, NEW N \in Nat, \A n \in 0..N : n < N /\ n \in T => n + 1 \in T
    PROVE  0..N \subseteq T
<1> SUFFICES ASSUME ~(0..N \subseteq T) PROVE FALSE
  OBVIOUS
<1> DEFINE U == (0..N) \ T
<1>1. PICK n \in U : \A m \in U : n <= m
  <2>1. U \in SUBSET Nat /\ U # {}
    OBVIOUS
  <2>2. QED
    BY <2>1, LeastNat
<1>2. n # 0 /\ n - 1 \in 0..N /\ n - 1 < N /\ (n - 1) + 1 = n
  BY <1>1
<1>3. n - 1 \in T
  BY <1>1, <1>2
<1>4. QED
  BY <1>1, <1>2, <1>3

(* The image of a finite set under a function that is injective on it has  *)
(* as many elements as the set.                                            *)
LEMMA InjectiveImage ==
    ASSUME NEW S, IsFiniteSet(S), NEW f, \A x, y \in S : f[x] = f[y] => x = y
    PROVE  /\ IsFiniteSet({f[x] : x \in S})
           /\ Cardinality({f[x] : x \in S}) = Cardinality(S)
<1> DEFINE T == {f[x] : x \in S}
           g == [x \in S |-> f[x]]
<1>1. g \in Bijection(S, T)
  BY DEF Bijection, Injection, Surjection, IsInjective
<1>2. ExistsBijection(S, T)
  BY <1>1 DEF ExistsBijection
<1>3. QED
  <2> HIDE DEF T
  <2>1. IsFiniteSet(T) /\ Cardinality(T) = Cardinality(S)
    BY <1>2, FS_Bijection
  <2>2. QED
    BY <2>1 DEF T

(***************************************************************************)
(* Numbers and finite sets                                                 *)
(***************************************************************************)
(* The least of a set of natural numbers. *)
LEMMA MinIn ==
    ASSUME NEW S \in SUBSET Nat, S # {}
    PROVE  Min(S) \in S /\ \A n \in S : Min(S) <= n
<1>1. PICK n \in S : \A m \in S : n <= m
  BY LeastNat
<1> QED
  BY <1>1 DEF Min

(* The greater of two numbers. *)
LEMMA MaxOf ==
    ASSUME NEW a \in Int, NEW b \in Int
    PROVE  /\ Max({a, b}) = IF a >= b THEN a ELSE b
           /\ Min({a, b}) = IF a <= b THEN a ELSE b
<1>1. \E x \in {a, b} : \A y \in {a, b} : x >= y
  OBVIOUS
<1>2. \E x \in {a, b} : \A y \in {a, b} : x <= y
  OBVIOUS
<1>3. Max({a, b}) \in {a, b} /\ Max({a, b}) >= a /\ Max({a, b}) >= b
  BY <1>1 DEF Max
<1>4. Min({a, b}) \in {a, b} /\ Min({a, b}) <= a /\ Min({a, b}) <= b
  BY <1>2 DEF Min
<1> QED
  BY <1>3, <1>4

(* A proper subset of a finite set has fewer elements. *)
LEMMA FewerIn ==
    ASSUME NEW S, IsFiniteSet(S), NEW T \in SUBSET S, NEW x \in S, x \notin T
    PROVE  /\ Cardinality(T) \in Nat /\ Cardinality(S) \in Nat
           /\ Cardinality(T) < Cardinality(S)
<1>1. IsFiniteSet(T) /\ Cardinality(T) <= Cardinality(S) /\ Cardinality(S) # Cardinality(T)
  BY FS_Subset
<1>2. Cardinality(T) \in Nat /\ Cardinality(S) \in Nat
  BY <1>1, FS_CardinalityType
<1> QED
  BY <1>1, <1>2

(***************************************************************************)
(* The order of a strategy                                                 *)
(***************************************************************************)
\* A finite set of coins that their ids tell apart.
IsStock(xs) ==
  /\ IsFiniteSet(xs)
  /\ \A x \in xs : x.id \in Nat /\ x.value \in Nat
  /\ \A x, y \in xs : x.id = y.id => x = y

Rank(xs, strategy, x) == Cardinality({y \in xs : Before(y, x, strategy)})

(* A strategy orders the coins: whatever comes first has a lower rank. *)
LEMMA RankGrows ==
    ASSUME NEW xs, IsStock(xs), NEW strategy, NEW x \in xs, NEW y \in xs, Before(x, y, strategy)
    PROVE  Rank(xs, strategy, x) < Rank(xs, strategy, y)
<1> DEFINE below == {z \in xs : Before(z, x, strategy)}
           within == {z \in xs : Before(z, y, strategy)}
<1>1. below \in SUBSET within
  <2> SUFFICES ASSUME NEW z \in xs, Before(z, x, strategy) PROVE Before(z, y, strategy)
    OBVIOUS
  <2> QED
    BY DEF IsStock, Before
<1>2. x \in within /\ x \notin below
  BY DEF IsStock, Before
<1>3. IsFiniteSet(within)
  BY FS_Subset DEF IsStock
<1>4. Cardinality(below) < Cardinality(within)
  <2> HIDE DEF below, within
  <2> QED BY <1>1, <1>2, <1>3, FewerIn
<1> QED
  BY <1>4 DEF Rank

(* Each rank below the number of the coins is the rank of one of them. *)
LEMMA RankOfOne ==
    ASSUME NEW xs, IsStock(xs), NEW strategy
    PROVE  /\ Cardinality(xs) \in Nat
           /\ \A x \in xs : Rank(xs, strategy, x) \in 0..(Cardinality(xs) - 1)
           /\ \A x, y \in xs : Rank(xs, strategy, x) = Rank(xs, strategy, y) => x = y
           /\ \A r \in 0..(Cardinality(xs) - 1) : \E x \in xs : Rank(xs, strategy, x) = r
<1> DEFINE n == Cardinality(xs)
           rank == [x \in xs |-> Rank(xs, strategy, x)]
           ranks == {rank[x] : x \in xs}
<1>1. IsFiniteSet(xs) /\ n \in Nat
  BY FS_CardinalityType DEF IsStock
<1>2. ASSUME NEW x \in xs PROVE rank[x] \in 0..(n - 1)
  <2> DEFINE below == {y \in xs : Before(y, x, strategy)}
  <2>1. below \in SUBSET xs /\ x \notin below
    BY DEF Before, IsStock
  <2>2. Cardinality(below) \in Nat /\ Cardinality(below) < n
    <3> HIDE DEF below
    <3> QED BY <1>1, <2>1, FewerIn
  <2> QED
    BY <1>1, <2>2 DEF Rank
<1>3. ASSUME NEW x \in xs, NEW y \in xs, rank[x] = rank[y] PROVE x = y
  <2>1. x = y \/ Before(x, y, strategy) \/ Before(y, x, strategy)
    BY DEF Before, IsStock
  <2>2. rank[x] \in Int /\ rank[y] \in Int
    BY <1>2, <1>1
  <2>3. Before(x, y, strategy) => rank[x] < rank[y]
    BY RankGrows
  <2>4. Before(y, x, strategy) => rank[y] < rank[x]
    BY RankGrows
  <2> HIDE DEF rank
  <2> QED
    BY <1>3, <2>1, <2>2, <2>3, <2>4
<1>4. ranks = 0..(n - 1)
  <2>1. IsFiniteSet(ranks) /\ Cardinality(ranks) = n
    <3> HIDE DEF rank
    <3> QED BY <1>1, <1>3, InjectiveImage
  <2>2. IsFiniteSet(0..(n - 1)) /\ Cardinality(0..(n - 1)) = n
    BY <1>1, FS_Interval
  <2>3. ranks \in SUBSET (0..(n - 1))
    BY <1>2
  <2> HIDE DEF ranks
  <2> QED
    BY <2>1, <2>2, <2>3, FS_Subset
<1> QED
  BY <1>1, <1>2, <1>3, <1>4

(* A set of coins in order is a line of all of them, each once. *)
LEMMA OrderedLine ==
    ASSUME NEW xs, IsStock(xs), NEW strategy
    PROVE  /\ Ordered(xs, strategy) \in Seq(xs)
           /\ Len(Ordered(xs, strategy)) = Cardinality(xs)
           /\ Range(Ordered(xs, strategy)) = xs
           /\ IsInjective(Ordered(xs, strategy))
<1> DEFINE n == Cardinality(xs)
           line == Ordered(xs, strategy)
<1>1. n \in Nat
  BY RankOfOne
<1>2. \A r \in 1..n : line[r] \in xs /\ Rank(xs, strategy, line[r]) = r - 1
  <2> SUFFICES ASSUME NEW r \in 1..n PROVE line[r] \in xs /\ Rank(xs, strategy, line[r]) = r - 1
    OBVIOUS
  <2>1. r - 1 \in 0..(n - 1)
    BY <1>1
  <2>2. \E x \in xs : Rank(xs, strategy, x) = r - 1
    BY <2>1, RankOfOne
  <2>3. line[r] = CHOOSE x \in xs : Rank(xs, strategy, x) = r - 1
    BY DEF Ordered, Rank
  <2> HIDE DEF line
  <2> QED
    BY <2>2, <2>3
<1>3. line = [r \in 1..n |-> line[r]]
  <2> DEFINE ranked(r) == CHOOSE x \in xs : Rank(xs, strategy, x) = r - 1
  <2>1. line = [r \in 1..n |-> ranked(r)]
    BY DEF Ordered, Rank
  <2> HIDE DEF line, ranked
  <2> QED BY <2>1
<1> HIDE DEF line
<1>4. line \in Seq(xs) /\ Len(line) = n /\ DOMAIN line = 1..n
  BY <1>1, <1>2, <1>3
<1>5. ASSUME NEW x \in xs PROVE x \in Range(line)
  <2>1. Rank(xs, strategy, x) + 1 \in 1..n
    BY <1>1, RankOfOne
  <2>2. line[Rank(xs, strategy, x) + 1] = x
    <3>1. \A k \in 1..n : Rank(xs, strategy, x) + 1 = k => Rank(xs, strategy, line[k]) = Rank(xs, strategy, x)
      <4>1. Rank(xs, strategy, x) \in Int
        BY RankOfOne
      <4> QED BY <1>2, <4>1
    <3> QED
      BY <3>1, <1>2, <2>1, RankOfOne
  <2> QED
    BY <2>1, <2>2, <1>4 DEF Range
<1>6. Range(line) = xs
  BY <1>2, <1>4, <1>5 DEF Range
<1>7. IsInjective(line)
  <2> SUFFICES ASSUME NEW a \in 1..n, NEW b \in 1..n, line[a] = line[b] PROVE a = b
    BY <1>4 DEF IsInjective
  <2> QED
    BY <1>2, <1>1
<1> QED
  BY <1>4, <1>6, <1>7 DEF line

(***************************************************************************)
(* Sequences                                                               *)
(***************************************************************************)
(* A finite set in a sequence: each of its elements once. *)
LEMMA SetInSeq ==
    ASSUME NEW S, IsFiniteSet(S)
    PROVE  /\ SetToSeq(S) \in Seq(S) /\ Len(SetToSeq(S)) = Cardinality(S)
           /\ Range(SetToSeq(S)) = S /\ IsInjective(SetToSeq(S))
<1> DEFINE n == Cardinality(S)
<1>1. n \in Nat /\ ExistsBijection(1..n, S)
  BY FS_CardinalityType
<1>2. PICK f \in Bijection(1..n, S) : TRUE
  BY <1>1 DEF ExistsBijection
<1>3. f \in [1..n -> S] /\ IsInjective(f)
  BY <1>2 DEF Bijection, Injection
<1>4. SetToSeq(S) \in [1..n -> S] /\ IsInjective(SetToSeq(S))
  BY <1>3 DEF SetToSeq
<1>5. SetToSeq(S) \in Bijection(1..n, S)
  <2>1. SetToSeq(S) \in Injection(1..n, S)
    BY <1>4 DEF Injection
  <2>2. IsFiniteSet(1..n) /\ Cardinality(1..n) = n
    BY <1>1, FS_Interval
  <2>3. SetToSeq(S) \in Surjection(1..n, S)
    BY <2>1, <2>2, FS_Injection
  <2> QED
    BY <2>1, <2>3 DEF Bijection
<1>6. \A x \in S : \E i \in 1..n : SetToSeq(S)[i] = x
  BY <1>5 DEF Bijection, Surjection
<1> QED
  BY <1>1, <1>4, <1>6 DEF Range

(* Any sequence is one of what is in it. *)
LEMMA SeqIsSeq ==
    ASSUME NEW S, NEW s \in Seq(S)
    PROVE  IsSeq(s) /\ Range(s) \subseteq S /\ Len(s) \in Nat /\ DOMAIN s = 1..Len(s)
<1>1. Len(s) \in Nat /\ s \in [1..Len(s) -> S] /\ DOMAIN s = 1..Len(s)
  BY LenProperties
<1>2. \A i \in 1..Len(s) : s[i] \in Range(s)
  BY <1>1 DEF Range
<1> QED
  BY <1>1, <1>2 DEF Range, IsSeq

(* What a concatenation holds. *)
LEMMA ConcatSeq ==
    ASSUME NEW s, NEW t, IsSeq(s), IsSeq(t)
    PROVE  /\ IsSeq(s \o t) /\ Range(s \o t) = Range(s) \cup Range(t)
           /\ Len(s \o t) = Len(s) + Len(t) /\ Len(s) \in Nat /\ Len(t) \in Nat
           /\ DOMAIN (s \o t) = 1..(Len(s) + Len(t))
           /\ \A i \in 1..Len(s) : (s \o t)[i] = s[i]
           /\ \A i \in 1..Len(t) : (s \o t)[Len(s) + i] = t[i]
           /\ \A i \in 1..(Len(s) + Len(t)) :
                IF i <= Len(s) THEN i \in 1..Len(s) /\ (s \o t)[i] = s[i]
                ELSE i - Len(s) \in 1..Len(t) /\ (s \o t)[i] = t[i - Len(s)]
<1> DEFINE S == Range(s) \cup Range(t)
<1>1. s \in Seq(S) /\ t \in Seq(S)
  BY SeqMonotonic DEF IsSeq
<1>2. /\ s \o t \in Seq(S) /\ Len(s \o t) = Len(s) + Len(t)
      /\ \A i \in 1..(Len(s) + Len(t)) : (s \o t)[i] = IF i <= Len(s) THEN s[i] ELSE t[i - Len(s)]
  <2> HIDE DEF S
  <2> QED BY <1>1, ConcatProperties
<1>3. /\ Len(s) \in Nat /\ DOMAIN s = 1..Len(s) /\ Len(t) \in Nat /\ DOMAIN t = 1..Len(t)
      /\ IsSeq(s \o t) /\ DOMAIN (s \o t) = 1..Len(s \o t)
  <2> HIDE DEF S
  <2> QED BY <1>1, <1>2, SeqIsSeq
<1>4. \A i \in 1..Len(s) : (s \o t)[i] = s[i] /\ i \in 1..(Len(s) + Len(t))
  BY <1>2, <1>3
<1>5. \A i \in 1..Len(t) : (s \o t)[Len(s) + i] = t[i] /\ Len(s) + i \in 1..(Len(s) + Len(t))
  <2> SUFFICES ASSUME NEW i \in 1..Len(t)
               PROVE (s \o t)[Len(s) + i] = t[i] /\ Len(s) + i \in 1..(Len(s) + Len(t))
    OBVIOUS
  <2>1. Len(s) + i \in 1..(Len(s) + Len(t)) /\ ~(Len(s) + i <= Len(s)) /\ (Len(s) + i) - Len(s) = i
    BY <1>3
  <2> QED
    BY <2>1, <1>2
<1>6. \A i \in 1..(Len(s) + Len(t)) :
                IF i <= Len(s) THEN i \in 1..Len(s) /\ (s \o t)[i] = s[i]
                ELSE i - Len(s) \in 1..Len(t) /\ (s \o t)[i] = t[i - Len(s)]
  BY <1>2, <1>3
<1>7. Range(s \o t) = Range(s) \cup Range(t)
  <2>1. \A x \in Range(s) : x \in Range(s \o t)
    BY <1>2, <1>3, <1>4 DEF Range
  <2>2. \A x \in Range(t) : x \in Range(s \o t)
    <3> SUFFICES ASSUME NEW x \in Range(t) PROVE x \in Range(s \o t)
      OBVIOUS
    <3>1. PICK i \in 1..Len(t) : x = t[i]
      BY <1>3 DEF Range
    <3>2. x = (s \o t)[Len(s) + i] /\ Len(s) + i \in DOMAIN (s \o t)
      BY <3>1, <1>2, <1>3, <1>5
    <3> QED
      BY <3>2 DEF Range
  <2>3. \A x \in Range(s \o t) : x \in Range(s) \cup Range(t)
    BY <1>2, <1>3, <1>6 DEF Range
  <2> QED
    BY <2>1, <2>2, <2>3
<1> QED
  BY <1>2, <1>3, <1>4, <1>5, <1>6, <1>7
\* No two elements of a sequence have one id.
Distinct(s) == \A m, n \in DOMAIN s : s[m].id = s[n].id => m = n

(* The ids in a concatenation. *)
LEMMA ConcatIds ==
    ASSUME NEW s, NEW t, IsSeq(s), IsSeq(t)
    PROVE  /\ Ids(s \o t) = Ids(s) \cup Ids(t)
           /\ Distinct(s) /\ Distinct(t) /\ Ids(s) \cap Ids(t) = {} => Distinct(s \o t)
<1>1. \A q : Ids(q) = {x.id : x \in Range(q)}
  BY DEF Ids, Range
<1>2. Ids(s \o t) = Ids(s) \cup Ids(t)
  BY <1>1, ConcatSeq
<1>3. ASSUME Distinct(s), Distinct(t), Ids(s) \cap Ids(t) = {},
             NEW m \in DOMAIN (s \o t), NEW n \in DOMAIN (s \o t), (s \o t)[m].id = (s \o t)[n].id
      PROVE  m = n
  <2> DEFINE st == s \o t
             l == Len(s)
  <2>1. /\ l \in Nat /\ Len(t) \in Nat /\ m \in 1..(l + Len(t)) /\ n \in 1..(l + Len(t))
        /\ DOMAIN s = 1..l /\ DOMAIN t = 1..Len(t)
    BY <1>3, ConcatSeq, SeqIsSeq DEF IsSeq
  <2>2. \A i \in 1..(l + Len(t)) : IF i <= l THEN i \in 1..l /\ st[i] = s[i] ELSE i - l \in 1..Len(t) /\ st[i] = t[i - l]
    BY ConcatSeq
  <2>3. st[m].id = st[n].id
    BY <1>3
  <2> HIDE DEF st, l
  <2>4. CASE m <= l /\ n <= l
    BY <2>1, <2>2, <2>3, <2>4, <1>3 DEF Distinct
  <2>5. CASE ~(m <= l) /\ ~(n <= l)
    <3>1. m - l = n - l
      BY <2>1, <2>2, <2>3, <2>5, <1>3 DEF Distinct
    <3> QED BY <3>1, <2>1
  <2>6. CASE m <= l /\ ~(n <= l)
    <3>1. s[m].id \in Ids(s) /\ t[n - l].id \in Ids(t)
      BY <2>1, <2>2, <2>6 DEF Ids
    <3> QED BY <3>1, <2>1, <2>2, <2>3, <2>6, <1>3
  <2>7. CASE ~(m <= l) /\ n <= l
    <3>1. s[n].id \in Ids(s) /\ t[m - l].id \in Ids(t)
      BY <2>1, <2>2, <2>7 DEF Ids
    <3> QED BY <3>1, <2>1, <2>2, <2>3, <2>7, <1>3
  <2> QED
    BY <2>4, <2>5, <2>6, <2>7
<1> QED
  BY <1>2, <1>3 DEF Distinct

(***************************************************************************)
(* A flattened sequence of sequences                                       *)
(***************************************************************************)
FlatStep(flat, ss, i) == IF i = 1 THEN ss[i] ELSE flat[i - 1] \o ss[i]
IsFlat(flat, ss, N) == flat = [i \in 1..N |-> FlatStep(flat, ss, i)]

(* There is a function that flattens to any length. *)
LEMMA FlatExists ==
    ASSUME NEW ss, NEW N \in Nat
    PROVE  \E flat : IsFlat(flat, ss, N)
<1> DEFINE T == {n \in 0..N : \E flat : IsFlat(flat, ss, n)}
<1>1. 0 \in T
  <2>1. IsFlat([i \in 1..0 |-> ss], ss, 0)
    BY DEF IsFlat
  <2> QED BY <2>1
<1>2. ASSUME NEW n \in 0..N, n < N, n \in T PROVE n + 1 \in T
  <2>1. PICK flat : IsFlat(flat, ss, n)
    BY <1>2
  <2> DEFINE longer == [i \in 1..(n + 1) |-> IF i = n + 1 THEN FlatStep(flat, ss, n + 1) ELSE flat[i]]
  <2>2. ASSUME NEW i \in 1..(n + 1) PROVE longer[i] = FlatStep(longer, ss, i)
    <3>1. CASE i # n + 1
      <4>1. longer[i] = flat[i] /\ flat[i] = FlatStep(flat, ss, i)
        BY <3>1, <2>1 DEF IsFlat
      <4>2. i # 1 => longer[i - 1] = flat[i - 1]
        BY <3>1
      <4> HIDE DEF longer
      <4> QED BY <4>1, <4>2 DEF FlatStep
    <3>2. CASE i = n + 1
      <4>1. longer[i] = FlatStep(flat, ss, n + 1)
        BY <3>2
      <4>2. i # 1 => longer[i - 1] = flat[i - 1] /\ i - 1 = n
        BY <3>2
      <4> HIDE DEF longer
      <4> QED BY <4>1, <4>2, <3>2 DEF FlatStep
    <3> QED BY <3>1, <3>2
  <2>3. IsFlat(longer, ss, n + 1)
    <3>1. longer = [i \in 1..(n + 1) |-> longer[i]]
      OBVIOUS
    <3> HIDE DEF longer
    <3> QED BY <2>2, <3>1 DEF IsFlat
  <2>4. n + 1 \in 0..N
    BY <1>2
  <2> HIDE DEF longer
  <2> QED BY <2>3, <2>4
<1>3. 0..N \subseteq T
  <2> HIDE DEF T
  <2> QED BY <1>1, <1>2, SetInduction
<1> QED
  BY <1>3

\* All sequences of a sequence are sequences.
AreSeqs(ss) == IsSeq(ss) /\ \A n \in DOMAIN ss : IsSeq(ss[n])

\* Nor is one id in two of the sequences.
AreDistinct(ss) == /\ \A n \in DOMAIN ss : Distinct(ss[n])
                   /\ \A m, n \in DOMAIN ss : m # n => Ids(ss[m]) \cap Ids(ss[n]) = {}

(* It holds what the sequences hold, each id once if each was. *)
LEMMA FlattenSeqHolds ==
    ASSUME NEW ss, AreSeqs(ss)
    PROVE  /\ IsSeq(FlattenSeq(ss))
           /\ Range(FlattenSeq(ss)) = UNION {Range(ss[n]) : n \in DOMAIN ss}
           /\ AreDistinct(ss) => Distinct(FlattenSeq(ss))
<1> DEFINE N == Len(ss)
           flat == CHOOSE f : IsFlat(f, ss, N)
           Upto(n) == UNION {Range(ss[m]) : m \in 1..n}
           Holds(n) == /\ IsSeq(flat[n])
                       /\ Range(flat[n]) = Upto(n)
                       /\ AreDistinct(ss) => Distinct(flat[n])
           T == {n \in 0..N : n = 0 \/ Holds(n)}
<1>1. N \in Nat /\ DOMAIN ss = 1..N
  BY SeqIsSeq DEF AreSeqs, IsSeq
<1>2. IsFlat(flat, ss, N)
  BY <1>1, FlatExists
<1>3. FlattenSeq(ss) = IF N = 0 THEN ss ELSE flat[N]
  BY DEF FlattenSeq, IsFlat, FlatStep
<1>4. ASSUME NEW n \in 1..N PROVE flat[n] = IF n = 1 THEN ss[n] ELSE flat[n - 1] \o ss[n]
  BY <1>2 DEF IsFlat, FlatStep
<1> HIDE DEF flat
<1>5. 0 \in T
  BY <1>1
<1>6. ASSUME NEW n \in 0..N, n < N, n \in T PROVE n + 1 \in T
  <2>1. IsSeq(ss[n + 1]) /\ n + 1 \in 1..N
    BY <1>1, <1>6 DEF AreSeqs
  <2>2. CASE n = 0
    <3>1. flat[1] = ss[1]
      BY <2>1, <2>2, <1>4
    <3>2. Upto(1) = Range(ss[1])
      OBVIOUS
    <3> QED
      BY <2>1, <2>2, <3>1, <3>2, <1>1 DEF AreDistinct
  <2>3. CASE n # 0
    <3>1. flat[n + 1] = flat[n] \o ss[n + 1]
      <4>1. n + 1 # 1 /\ (n + 1) - 1 = n
        BY <2>3
      <4> QED BY <2>1, <4>1, <1>4
    <3>2. IsSeq(flat[n]) /\ Range(flat[n]) = Upto(n) /\ (AreDistinct(ss) => Distinct(flat[n]))
      <4> HIDE DEF Upto
      <4> QED BY <1>6, <2>3
    <3>3. Upto(n + 1) = Upto(n) \cup Range(ss[n + 1])
      BY <1>1, <2>1
    <3>4. AreDistinct(ss) => Ids(flat[n]) \cap Ids(ss[n + 1]) = {}
      <4> SUFFICES ASSUME AreDistinct(ss), NEW x \in Range(flat[n]), NEW y \in Range(ss[n + 1]), x.id = y.id
                   PROVE  FALSE
        BY DEF Ids, Range
      <4>1. PICK m \in 1..n : x \in Range(ss[m])
        BY <3>2
      <4>2. x.id \in Ids(ss[m]) /\ y.id \in Ids(ss[n + 1])
        BY <4>1 DEF Ids, Range
      <4> QED
        BY <4>1, <4>2, <1>1, <2>1 DEF AreDistinct
    <3>5. AreDistinct(ss) => Distinct(ss[n + 1])
      BY <1>1, <2>1 DEF AreDistinct
    <3>6. IsSeq(flat[n + 1]) /\ Range(flat[n + 1]) = Range(flat[n]) \cup Range(ss[n + 1])
      BY <2>1, <3>1, <3>2, ConcatSeq
    <3>7. AreDistinct(ss) => Distinct(flat[n + 1])
      BY <2>1, <3>1, <3>2, <3>4, <3>5, ConcatIds
    <3>8. Range(flat[n + 1]) = Upto(n + 1)
      <4> HIDE DEF Upto
      <4> QED BY <3>2, <3>3, <3>6
    <3> QED
      <4> HIDE DEF Upto
      <4> QED BY <2>1, <3>6, <3>7, <3>8
  <2> QED BY <2>2, <2>3
<1>7. 0..N \subseteq T
  <2> HIDE DEF T
  <2> QED BY <1>1, <1>5, <1>6, SetInduction
<1>8. CASE N = 0
  <2>1. ss = <<>> /\ FlattenSeq(ss) = <<>>
    BY <1>1, <1>3, <1>8, EmptySeq DEF AreSeqs, IsSeq
  <2> QED
    <3>1. DOMAIN ss = {}
      BY <1>1, <1>8
    <3>2. Range(ss) = {} /\ UNION {Range(ss[n]) : n \in DOMAIN ss} = {} /\ Distinct(ss)
      BY <3>1 DEF Range, Distinct
    <3> QED
      BY <2>1, <3>2 DEF AreSeqs
<1>9. CASE N # 0
  <2>1. N \in T /\ FlattenSeq(ss) = flat[N]
    BY <1>1, <1>3, <1>7, <1>9
  <2>2. Holds(N)
    <3> HIDE DEF Holds
    <3> QED BY <2>1, <1>9
  <2> QED
    BY <2>1, <2>2, <1>1
<1> QED
  BY <1>8, <1>9

(***************************************************************************)
(* Sums                                                                    *)
(***************************************************************************)
AnyOf(s) == CHOOSE x \in s : TRUE
SumStep(sum, f, s) == IF s = {} THEN 0 ELSE f[AnyOf(s)] + sum[s \ {AnyOf(s)}]
Small(D, n) == {s \in SUBSET D : Cardinality(s) <= n}
IsSum(sum, f, family) == sum = [s \in family |-> SumStep(sum, f, s)]

(* Without one of its elements a small set is smaller. *)
LEMMA WithoutOne ==
    ASSUME NEW D, IsFiniteSet(D), NEW s \in SUBSET D
    PROVE  /\ IsFiniteSet(s) /\ Cardinality(s) \in Nat /\ (Cardinality(s) = 0 <=> s = {})
           /\ s # {} => /\ AnyOf(s) \in s /\ s \ {AnyOf(s)} \in SUBSET D
                        /\ Cardinality(s \ {AnyOf(s)}) = Cardinality(s) - 1
<1>1. IsFiniteSet(s) /\ Cardinality(s) \in Nat /\ (Cardinality(s) = 0 <=> s = {})
  BY FS_Subset, FS_CardinalityType, FS_EmptySet
<1>2. s # {} => AnyOf(s) \in s
  BY DEF AnyOf
<1> QED
  BY <1>1, <1>2, FS_RemoveElement

(* There is a function that sums over the small subsets of a finite set. *)
LEMMA SumExists ==
    ASSUME NEW f, NEW D, IsFiniteSet(D), NEW N \in Nat
    PROVE  \E sum : IsSum(sum, f, Small(D, N))
<1> DEFINE T == {n \in 0..N : \E sum : IsSum(sum, f, Small(D, n))}
<1>1. 0 \in T
  <2> DEFINE none == [s \in Small(D, 0) |-> 0]
  <2>1. \A s \in Small(D, 0) : SumStep(none, f, s) = 0
    <3> HIDE DEF none
    <3> QED BY WithoutOne DEF Small, SumStep
  <2>2. IsSum(none, f, Small(D, 0))
    <3>1. none = [s \in Small(D, 0) |-> 0]
      OBVIOUS
    <3> HIDE DEF none
    <3> QED BY <2>1, <3>1 DEF IsSum
  <2> HIDE DEF none
  <2> QED BY <2>2
<1>2. ASSUME NEW n \in 0..N, n < N, n \in T PROVE n + 1 \in T
  <2>1. PICK sum : IsSum(sum, f, Small(D, n))
    BY <1>2
  <2> DEFINE wider == [s \in Small(D, n + 1) |-> SumStep(sum, f, s)]
  <2>2. ASSUME NEW s \in Small(D, n) PROVE s \in Small(D, n + 1) /\ wider[s] = sum[s]
    <3>1. s \in Small(D, n + 1)
      <4>1. s \in SUBSET D /\ Cardinality(s) <= n
        BY DEF Small
      <4>2. Cardinality(s) \in Nat
        BY <4>1, WithoutOne
      <4>3. Cardinality(s) <= n + 1
        BY <4>1, <4>2
      <4> QED BY <4>1, <4>3 DEF Small
    <3>2. sum[s] = SumStep(sum, f, s)
      BY <2>1 DEF IsSum
    <3> QED BY <3>1, <3>2
  <2>3. ASSUME NEW s \in Small(D, n + 1), s # {} PROVE s \ {AnyOf(s)} \in Small(D, n)
    <3>1. s \in SUBSET D /\ Cardinality(s) <= n + 1
      BY DEF Small
    <3>2. /\ Cardinality(s) \in Nat /\ s \ {AnyOf(s)} \in SUBSET D
          /\ Cardinality(s \ {AnyOf(s)}) = Cardinality(s) - 1
      BY <2>3, <3>1, WithoutOne
    <3>3. Cardinality(s \ {AnyOf(s)}) <= n
      BY <3>1, <3>2
    <3> QED BY <3>2, <3>3 DEF Small
  <2>4. ASSUME NEW s \in Small(D, n + 1) PROVE wider[s] = SumStep(wider, f, s)
    <3>1. wider[s] = SumStep(sum, f, s)
      OBVIOUS
    <3>2. s # {} => wider[s \ {AnyOf(s)}] = sum[s \ {AnyOf(s)}]
      BY <2>2, <2>3
    <3> HIDE DEF wider
    <3> QED BY <3>1, <3>2 DEF SumStep
  <2>5. IsSum(wider, f, Small(D, n + 1))
    <3>1. wider = [s \in Small(D, n + 1) |-> wider[s]]
      OBVIOUS
    <3> HIDE DEF wider
    <3> QED BY <2>4, <3>1 DEF IsSum
  <2>6. n + 1 \in 0..N
    BY <1>2
  <2> HIDE DEF wider
  <2> QED BY <2>5, <2>6
<1>3. 0..N \subseteq T
  <2> HIDE DEF T
  <2> QED BY <1>1, <1>2, SetInduction
<1> QED
  BY <1>3

\* The function by which the library sums.
SumIn(f) == CHOOSE sum : IsSum(sum, f, SUBSET DOMAIN f)

(* The sum over a finite function, one argument at a time. *)
LEMMA SumEquation ==
    ASSUME NEW f, IsFiniteSet(DOMAIN f)
    PROVE  /\ SumFunction(f) = SumIn(f)[DOMAIN f]
           /\ \A s \in SUBSET DOMAIN f : SumIn(f)[s] = SumStep(SumIn(f), f, s)
<1> DEFINE N == Cardinality(DOMAIN f)
<1>1. N \in Nat /\ Small(DOMAIN f, N) = SUBSET DOMAIN f
  BY FS_CardinalityType, FS_Subset DEF Small
<1>2. \E sum : IsSum(sum, f, SUBSET DOMAIN f)
  <2>1. \E sum : IsSum(sum, f, Small(DOMAIN f, N))
    <3> HIDE DEF N
    <3> QED BY <1>1, SumExists
  <2> QED BY <1>1, <2>1
<1>3. IsSum(SumIn(f), f, SUBSET DOMAIN f)
  BY <1>2 DEF SumIn
<1>4. \A s \in SUBSET DOMAIN f : SumIn(f)[s] = SumStep(SumIn(f), f, s)
  <2> DEFINE g == SumIn(f)
  <2>1. g = [s \in SUBSET DOMAIN f |-> SumStep(g, f, s)]
    BY <1>3 DEF IsSum
  <2> HIDE DEF g
  <2>2. \A s \in SUBSET DOMAIN f : g[s] = SumStep(g, f, s)
    BY <2>1
  <2> QED BY <2>2 DEF g
<1>5. SumFunction(f) = SumIn(f)[DOMAIN f]
  BY DEF SumFunction, SumFunctionOnSet, FoldFunctionOnSet, MapThenFoldSet, SumIn, IsSum, SumStep, AnyOf
<1> QED
  BY <1>4, <1>5

(* What natural numbers add up to is one. *)
LEMMA SumIsNat ==
    ASSUME NEW f, IsFiniteSet(DOMAIN f), \A x \in DOMAIN f : f[x] \in Nat
    PROVE  SumFunction(f) \in Nat
<1> DEFINE D == DOMAIN f
           N == Cardinality(D)
           g == SumIn(f)
           T == {n \in 0..N : \A s \in SUBSET D : Cardinality(s) = n => g[s] \in Nat}
<1>1. N \in Nat /\ IsFiniteSet(D)
  BY FS_CardinalityType
<1>2. \A s \in SUBSET D : g[s] = SumStep(g, f, s)
  BY SumEquation
<1> HIDE DEF g
<1>3. 0 \in T
  <2> SUFFICES ASSUME NEW s \in SUBSET D, Cardinality(s) = 0 PROVE g[s] \in Nat
    BY <1>1
  <2>1. s = {}
    BY <1>1, WithoutOne
  <2>2. g[s] = SumStep(g, f, s) /\ SumStep(g, f, s) = 0
    BY <1>2, <2>1 DEF SumStep
  <2> QED BY <2>2
<1>4. ASSUME NEW n \in 0..N, n < N, n \in T PROVE n + 1 \in T
  <2> SUFFICES ASSUME NEW s \in SUBSET D, Cardinality(s) = n + 1 PROVE g[s] \in Nat
    BY <1>1, <1>4
  <2>1. s # {} /\ AnyOf(s) \in D /\ s \ {AnyOf(s)} \in SUBSET D /\ Cardinality(s \ {AnyOf(s)}) = n
    <3>1. s # {}
      <4>1. Cardinality({}) = 0 /\ Cardinality(s) # 0
        BY <1>1, FS_EmptySet
      <4> QED BY <4>1
    <3> QED BY <1>1, <3>1, WithoutOne
  <2>2. g[s \ {AnyOf(s)}] \in Nat /\ f[AnyOf(s)] \in Nat
    BY <1>4, <2>1
  <2>3. g[s] = f[AnyOf(s)] + g[s \ {AnyOf(s)}]
    BY <1>2, <2>1 DEF SumStep
  <2> QED BY <2>2, <2>3
<1>5. 0..N \subseteq T
  <2> HIDE DEF T
  <2> QED BY <1>1, <1>3, <1>4, SetInduction
<1>6. g[D] \in Nat
  BY <1>1, <1>5
<1> QED
  BY <1>6, SumEquation DEF g

(***************************************************************************)
(* The shape of a transaction                                              *)
(***************************************************************************)
SeqOffer(o) ==
  /\ o = [inputs |-> o.inputs, outputs |-> o.outputs, transients |-> o.transients]
  /\ IsSeq(o.inputs) /\ IsSeq(o.outputs) /\ IsSeq(o.transients)

SeqUtxos(u) == IsSeq(u.inputs) /\ IsSeq(u.outputs)
Worth(xs)   == IsSeq(xs) /\ \A n \in DOMAIN xs : xs[n].value \in Nat

SeqIntent(i) ==
  /\ i = [ttl |-> i.ttl, utxos |-> i.utxos, actions |-> i.actions, dust |-> i.dust,
          binding |-> i.binding, signed |-> i.signed]
  /\ i.dust = [spends |-> i.dust.spends, registrations |-> i.dust.registrations]
  /\ i.ttl \in Nat /\ IsSeq(i.actions)
  /\ SeqUtxos(i.utxos[Guaranteed]) /\ SeqUtxos(i.utxos[IntentSegment])
  /\ Worth(i.dust.spends) /\ Worth(i.dust.registrations)

IsFun(f) == f = [x \in DOMAIN f |-> f[x]]

Shaped(tx) ==
  /\ tx = [offers |-> tx.offers, intents |-> tx.intents] /\ IsFun(tx.intents)
  /\ SeqOffer(tx.offers[Guaranteed]) /\ SeqOffer(tx.offers[IntentSegment])
  /\ IsFiniteSet(DOMAIN tx.intents)
  /\ \A s \in DOMAIN tx.intents : SeqIntent(tx.intents[s])

(* The empty sequence. *)
LEMMA NothingIsSeq ==
    /\ IsSeq(<<>>) /\ Len(<<>>) = 0 /\ DOMAIN <<>> = {} /\ Range(<<>>) = {}
    /\ Ids(<<>>) = {} /\ Distinct(<<>>) /\ Worth(<<>>)
<1>1. DOMAIN <<>> = {} /\ <<>> \in Seq({}) /\ Len(<<>>) = 0
  BY EmptySeq
<1>2. Range(<<>>) = {} /\ Ids(<<>>) = {}
  BY <1>1 DEF Range, Ids
<1> QED
  BY <1>1, <1>2 DEF IsSeq, Distinct, Worth

(* A sequence of one. *)
LEMMA OneIsSeq ==
    ASSUME NEW x
    PROVE  /\ IsSeq(<<x>>) /\ Len(<<x>>) = 1 /\ DOMAIN <<x>> = 1..1 /\ <<x>>[1] = x
           /\ Range(<<x>>) = {x} /\ Ids(<<x>>) = {x.id} /\ Distinct(<<x>>)
           /\ x.value \in Nat => Worth(<<x>>)
<1>1. DOMAIN <<x>> = 1..1 /\ <<x>> \in Seq({x}) /\ Len(<<x>>) = 1 /\ <<x>>[1] = x
  OBVIOUS
<1>2. Range(<<x>>) = {x} /\ Ids(<<x>>) = {x.id}
  BY <1>1 DEF Range, Ids
<1> QED
  BY <1>1, <1>2 DEF IsSeq, Distinct, Worth

(* The value of a sequence of coins is a number. *)
LEMMA ValueIsNat ==
    ASSUME NEW xs, Worth(xs)
    PROVE  Value(xs) \in Nat
<1> DEFINE f == [n \in DOMAIN xs |-> xs[n].value]
<1>1. DOMAIN f = DOMAIN xs /\ DOMAIN xs = 1..Len(xs) /\ Len(xs) \in Nat
  BY SeqIsSeq DEF Worth, IsSeq
<1>2. IsFiniteSet(DOMAIN f)
  BY <1>1, FS_Interval
<1>3. \A n \in DOMAIN f : f[n] \in Nat
  BY DEF Worth
<1>4. SumFunction(f) \in Nat
  <2> HIDE DEF f
  <2> QED BY <1>2, <1>3, SumIsNat
<1> QED
  BY <1>4 DEF Value

(* Two sums of natural numbers. *)
LEMMA SumOfThree == \A a, b, c \in Nat : a + b + 2 * c \in Nat
  OBVIOUS
(* A sum of natural numbers is one. *)
LEMMA SumOfEight == \A a, b, c, d, e, f, g \in Nat : 1 + a + b + c + d + e + f + g \in Nat
  OBVIOUS

(* The weight of a transaction and its Dust are numbers. *)
LEMMA WeightIsNat ==
    ASSUME NEW tx, Shaped(tx)
    PROVE  Weight(tx) \in Nat /\ DustOf(tx) \in Nat
<1> DEFINE f == [s \in DOMAIN tx.intents |-> IntentWeight(tx.intents[s])]
           g == [s \in DOMAIN tx.intents |-> IntentDust(tx.intents[s])]
<1>1. \A q : IsSeq(q) => Len(q) \in Nat
  BY SeqIsSeq DEF IsSeq
<1>2. ASSUME NEW s \in DOMAIN tx.intents PROVE f[s] \in Nat /\ g[s] \in Nat
  <2> DEFINE i == tx.intents[s]
  <2>1. SeqIntent(i)
    BY DEF Shaped
  <2> HIDE DEF i
  <2>2. IntentWeight(i) \in Nat
    <3>1. /\ IsSeq(i.actions) /\ IsSeq(i.dust.spends) /\ IsSeq(i.dust.registrations)
          /\ IsSeq(i.utxos[Guaranteed].inputs) /\ IsSeq(i.utxos[Guaranteed].outputs)
          /\ IsSeq(i.utxos[IntentSegment].inputs) /\ IsSeq(i.utxos[IntentSegment].outputs)
      BY <2>1 DEF SeqIntent, SeqUtxos, Worth
    <3>2. /\ Len(i.actions) \in Nat /\ Len(i.dust.spends) \in Nat /\ Len(i.dust.registrations) \in Nat
          /\ Len(i.utxos[Guaranteed].inputs) \in Nat /\ Len(i.utxos[Guaranteed].outputs) \in Nat
          /\ Len(i.utxos[IntentSegment].inputs) \in Nat /\ Len(i.utxos[IntentSegment].outputs) \in Nat
      BY <1>1, <3>1
    <3> QED BY <3>2, SumOfEight, Zenon DEF IntentWeight
  <2>3. IntentDust(i) \in Nat
    BY <2>1, ValueIsNat DEF SeqIntent, IntentDust
  <2> QED BY <2>2, <2>3 DEF i
<1>3. SumFunction(f) \in Nat /\ SumFunction(g) \in Nat
  <2>1. DOMAIN f = DOMAIN tx.intents /\ DOMAIN g = DOMAIN tx.intents /\ IsFiniteSet(DOMAIN tx.intents)
    BY DEF Shaped
  <2> HIDE DEF f, g
  <2> QED BY <1>2, <2>1, SumIsNat
<1>4. OfferWeight(tx.offers[Guaranteed]) \in Nat /\ OfferWeight(tx.offers[IntentSegment]) \in Nat
  <2> SUFFICES ASSUME NEW s, SeqOffer(tx.offers[s]) PROVE OfferWeight(tx.offers[s]) \in Nat
    BY DEF Shaped
  <2> DEFINE o == tx.offers[s]
  <2>1. IsSeq(o.inputs) /\ IsSeq(o.outputs) /\ IsSeq(o.transients)
    BY DEF SeqOffer
  <2> HIDE DEF o
  <2>2. Len(o.inputs) \in Nat /\ Len(o.outputs) \in Nat /\ Len(o.transients) \in Nat
    BY <1>1, <2>1
  <2>3. OfferWeight(o) \in Nat
    BY <2>2, SumOfThree, Zenon DEF OfferWeight
  <2> QED BY <2>3 DEF o
<1>5. OverIntents(tx, IntentWeight) = SumFunction(f) /\ OverIntents(tx, IntentDust) = SumFunction(g)
  BY DEF OverIntents
<1> HIDE DEF f, g
<1> QED
  BY <1>3, <1>4, <1>5 DEF Weight, DustOf

(* A price with more of a margin makes no lower fee. *)
LEMMA FeeGrows ==
    ASSUME NEW p \in Nat, NEW rise \in Nat, rise <= Margin, NEW tx, Weight(tx) \in Nat
    PROVE  Fee(tx, p + rise) <= FeeWithMargin(tx, p)
<1>1. Margin \in Nat
  BY BalancingAssumption
<1>2. \A a, b, c \in Nat : a <= b => a * c <= b * c
  OBVIOUS
<1>3. p + rise \in Nat /\ p + Margin \in Nat /\ p + rise <= p + Margin
  BY <1>1
<1> QED
  BY <1>2, <1>3 DEF Fee, FeeWithMargin

(***************************************************************************)
(* What a wallet can draw on                                               *)
(***************************************************************************)
IsView(view) ==
  /\ IsStock(view.coins) /\ IsStock(view.utxos) /\ IsStock(view.dust)
  /\ IdsIn(view.coins) \cap IdsIn(view.utxos) = {} /\ IdsIn(view.coins) \cap IdsIn(view.dust) = {}
  /\ IdsIn(view.utxos) \cap IdsIn(view.dust) = {}
  /\ view.tblock \in Nat /\ view.last = Now /\ Now \in Nat /\ view.tblock <= Now
  /\ view.price \in Nat /\ view.ratio \in Nat /\ view.decay \in Nat

(* The first of a line that are worth an amount are of the line. *)
LEMMA EnoughOf ==
    ASSUME NEW line, IsSeq(line), NEW amount, Enough(line, amount) # {}
    PROVE  LET k == Min(Enough(line, amount))
           IN /\ k \in 0..Len(line) /\ Len(line) \in Nat /\ Value(SubSeq(line, 1, k)) >= amount
              /\ \A n \in 0..Len(line) : n < k => ~(Value(SubSeq(line, 1, n)) >= amount)
<1> DEFINE E == Enough(line, amount)
<1>1. Len(line) \in Nat
  BY SeqIsSeq DEF IsSeq
<1>2. E \in SUBSET Nat /\ E # {}
  BY <1>1 DEF Enough
<1>3. Min(E) \in E /\ \A n \in E : Min(E) <= n
  <2> HIDE DEF E
  <2> QED BY <1>2, MinIn
<1>4. Min(E) \in 0..Len(line) /\ Value(SubSeq(line, 1, Min(E))) >= amount
  BY <1>3 DEF Enough
<1>5. ASSUME NEW n \in 0..Len(line), n < Min(E), Value(SubSeq(line, 1, n)) >= amount PROVE FALSE
  <2>1. n \in E
    BY <1>5 DEF Enough
  <2>2. Min(E) <= n
    BY <1>3, <2>1
  <2> HIDE DEF E
  <2> QED BY <2>2, <1>1, <1>4, <1>5
<1> QED
  BY <1>1, <1>4, <1>5

(* A prefix of a sequence. *)
LEMMA PrefixSeq ==
    ASSUME NEW s, IsSeq(s), NEW k \in 0..Len(s)
    PROVE  /\ IsSeq(SubSeq(s, 1, k)) /\ Range(SubSeq(s, 1, k)) \subseteq Range(s)
           /\ Ids(SubSeq(s, 1, k)) \subseteq Ids(s)
           /\ Distinct(s) => Distinct(SubSeq(s, 1, k))
           /\ Worth(s) => Worth(SubSeq(s, 1, k))
<1> DEFINE p == SubSeq(s, 1, k)
<1>1. Len(s) \in Nat /\ DOMAIN s = 1..Len(s) /\ \A i \in 1..Len(s) : s[i] \in Range(s)
  BY SeqIsSeq DEF IsSeq, Range
<1>2. k \in Nat /\ \A i \in 1..k : i \in DOMAIN s
  BY <1>1
<1>3. p \in Seq(Range(s)) /\ Len(p) = k /\ \A i \in 1..k : p[i] = s[i]
  <2>1. \A i \in 1..k : s[i] \in Range(s)
    BY <1>1
  <2>2. p \in Seq(Range(s)) /\ Len(p) = (IF 1 <= k THEN k - 1 + 1 ELSE 0) /\ \A i \in 1..(k - 1 + 1) : p[i] = s[1 + i - 1]
    BY <1>2, <2>1, SubSeqProperties
  <2> HIDE DEF p
  <2> QED BY <1>2, <2>2
<1> HIDE DEF p
<1>4. IsSeq(p) /\ Range(p) \subseteq Range(s) /\ DOMAIN p = 1..k
  BY <1>3, SeqIsSeq
<1>5. \A q : Ids(q) = {x.id : x \in Range(q)}
  BY DEF Ids, Range
<1>6. Ids(p) \subseteq Ids(s)
  BY <1>4, <1>5
<1>7. Distinct(s) => Distinct(p)
  BY <1>2, <1>3, <1>4 DEF Distinct
<1>8. Worth(s) => Worth(p)
  BY <1>2, <1>3, <1>4 DEF Worth
<1> QED
  BY <1>4, <1>6, <1>7, <1>8 DEF p

(***************************************************************************)
(* The inputs of a transaction                                             *)
(***************************************************************************)
(* What is at each place. *)
LEMMA InputsAtPlace ==
    ASSUME NEW tx, NEW s
    PROVE  /\ InputsAt(tx, <<"coins", s>>) = tx.offers[s].inputs
           /\ InputsAt(tx, <<"guaranteed", s>>) = tx.intents[s].utxos[Guaranteed].inputs
           /\ InputsAt(tx, <<"fallible", s>>) = tx.intents[s].utxos[IntentSegment].inputs
           /\ InputsAt(tx, <<"dust", s>>) = tx.intents[s].dust.spends
  BY DEF InputsAt

IntentPlaces == {"guaranteed", "fallible", "dust"}

(* Which places there are. *)
LEMMA PlaceIs ==
    ASSUME NEW tx, NEW p \in Places(tx)
    PROVE  /\ p = <<p[1], p[2]>>
           /\ \/ p[1] = "coins" /\ p[2] \in Segments
              \/ p[1] \in IntentPlaces /\ p[2] \in DOMAIN tx.intents
  BY DEF Places, IntentPlaces

(* The places of a transaction are those of its segments and its intents. *)
LEMMA PlacesThere ==
    ASSUME NEW tx
    PROVE  /\ \A s \in Segments : <<"coins", s>> \in Places(tx)
           /\ \A s \in DOMAIN tx.intents : \A k \in IntentPlaces : <<k, s>> \in Places(tx)
  BY DEF Places, IntentPlaces

(* The inputs of a transaction of the right shape are sequences. *)
LEMMA InputsAreSeqs ==
    ASSUME NEW tx, Shaped(tx), NEW p \in Places(tx)
    PROVE  IsSeq(InputsAt(tx, p))
<1>1. CASE p[1] = "coins" /\ p[2] \in Segments
  <2>1. InputsAt(tx, p) = tx.offers[p[2]].inputs
    BY <1>1 DEF InputsAt
  <2> QED BY <2>1, <1>1 DEF Shaped, SeqOffer, Segments
<1>2. CASE p[1] \in IntentPlaces /\ p[2] \in DOMAIN tx.intents
  <2>1. SeqIntent(tx.intents[p[2]])
    BY <1>2 DEF Shaped
  <2>2. InputsAt(tx, p) \in {tx.intents[p[2]].utxos[Guaranteed].inputs,
                             tx.intents[p[2]].utxos[IntentSegment].inputs, tx.intents[p[2]].dust.spends}
    <3>1. p[1] = "guaranteed" \/ p[1] = "fallible" \/ p[1] = "dust"
      BY <1>2 DEF IntentPlaces
    <3> QED BY <3>1 DEF InputsAt
  <2> QED BY <2>1, <2>2 DEF SeqIntent, SeqUtxos, Worth
<1> QED
  BY <1>1, <1>2, PlaceIs

(* To spend once is to spend once at each place, and at one place only. *)
LEMMA OnceMeans ==
    ASSUME NEW tx
    PROVE  SpendsOnce(tx) <=>
             /\ \A p \in Places(tx) : Distinct(InputsAt(tx, p))
             /\ \A p, q \in Places(tx) : p # q => Ids(InputsAt(tx, p)) \cap Ids(InputsAt(tx, q)) = {}
<1>1. ASSUME SpendsOnce(tx), NEW p \in Places(tx) PROVE Distinct(InputsAt(tx, p))
  BY <1>1 DEF SpendsOnce, Distinct
<1>2. ASSUME SpendsOnce(tx), NEW p \in Places(tx), NEW q \in Places(tx), p # q,
             NEW x \in Ids(InputsAt(tx, p)), x \in Ids(InputsAt(tx, q))
      PROVE  FALSE
  <2>1. PICK m \in DOMAIN InputsAt(tx, p) : x = InputsAt(tx, p)[m].id
    BY DEF Ids
  <2>2. PICK n \in DOMAIN InputsAt(tx, q) : x = InputsAt(tx, q)[n].id
    BY <1>2 DEF Ids
  <2> QED BY <1>2, <2>1, <2>2 DEF SpendsOnce
<1>3. ASSUME \A p \in Places(tx) : Distinct(InputsAt(tx, p)),
             \A p, q \in Places(tx) : p # q => Ids(InputsAt(tx, p)) \cap Ids(InputsAt(tx, q)) = {},
             NEW p \in Places(tx), NEW q \in Places(tx),
             NEW m \in DOMAIN InputsAt(tx, p), NEW n \in DOMAIN InputsAt(tx, q),
             InputsAt(tx, p)[m].id = InputsAt(tx, q)[n].id
      PROVE  p = q /\ m = n
  <2>1. InputsAt(tx, p)[m].id \in Ids(InputsAt(tx, p)) /\ InputsAt(tx, q)[n].id \in Ids(InputsAt(tx, q))
    BY DEF Ids
  <2>2. p = q
    BY <1>3, <2>1
  <2> QED BY <1>3, <2>2 DEF Distinct
<1> QED
  BY <1>1, <1>2, <1>3 DEF SpendsOnce

(* A transaction's own inputs by kind. *)
LEMMA IdsOfPlaces ==
    ASSUME NEW tx
    PROVE  \A x : x \in InputIds(tx) <=> \E p \in Places(tx) : x \in Ids(InputsAt(tx, p))
  BY DEF InputIds

(***************************************************************************)
(* Merging                                                                 *)
(***************************************************************************)
Joined(s, t) == s \o t

\* The transaction of two that do not collide.
AreMerged(a, b, tx) == Merge(a, b).ok /\ tx = Merge(a, b).tx

(* What the transaction of two is. *)
LEMMA MergeIs ==
    ASSUME NEW a, NEW b, Shaped(a), Shaped(b), NEW tx, AreMerged(a, b, tx)
    PROVE  /\ DOMAIN a.intents \cap DOMAIN b.intents = {}
           /\ DOMAIN tx.intents = DOMAIN a.intents \cup DOMAIN b.intents
           /\ \A s \in DOMAIN a.intents : tx.intents[s] = a.intents[s]
           /\ \A s \in DOMAIN b.intents : tx.intents[s] = b.intents[s]
           /\ \A s \in Segments : /\ tx.offers[s].inputs = Joined(a.offers[s].inputs, b.offers[s].inputs)
                                  /\ tx.offers[s].outputs = Joined(a.offers[s].outputs, b.offers[s].outputs)
           /\ Shaped(tx)
<1> DEFINE all == DOMAIN a.intents \cup DOMAIN b.intents
           both == [s \in all |-> IF s \in DOMAIN a.intents THEN a.intents[s] ELSE b.intents[s]]
           offers == [s \in Segments |-> [k \in DOMAIN NoOffer |-> a.offers[s][k] \o b.offers[s][k]]]
<1>1. DOMAIN a.intents \cap DOMAIN b.intents = {}
  BY DEF Merge, Refused, AreMerged
<1>2. tx = [offers |-> offers, intents |-> both]
  BY <1>1 DEF Merge, Transaction, AreMerged
<1>3. /\ DOMAIN tx.intents = all
      /\ \A s \in DOMAIN a.intents : tx.intents[s] = a.intents[s]
      /\ \A s \in DOMAIN b.intents : tx.intents[s] = b.intents[s]
  BY <1>1, <1>2
<1>4. ASSUME NEW s \in Segments
      PROVE  /\ tx.offers[s] = [inputs |-> a.offers[s].inputs \o b.offers[s].inputs,
                                outputs |-> a.offers[s].outputs \o b.offers[s].outputs,
                                transients |-> a.offers[s].transients \o b.offers[s].transients]
             /\ SeqOffer(tx.offers[s])
  <2>1. tx.offers[s] = [k \in {"inputs", "outputs", "transients"} |-> a.offers[s][k] \o b.offers[s][k]]
    BY <1>2 DEF NoOffer
  <2>2. tx.offers[s] = [inputs |-> a.offers[s].inputs \o b.offers[s].inputs,
                        outputs |-> a.offers[s].outputs \o b.offers[s].outputs,
                        transients |-> a.offers[s].transients \o b.offers[s].transients]
    BY <2>1
  <2>3. SeqOffer(a.offers[s]) /\ SeqOffer(b.offers[s])
    BY DEF Shaped, Segments
  <2>4. /\ IsSeq(a.offers[s].inputs \o b.offers[s].inputs) /\ IsSeq(a.offers[s].outputs \o b.offers[s].outputs)
        /\ IsSeq(a.offers[s].transients \o b.offers[s].transients)
    BY <2>3, ConcatSeq DEF SeqOffer
  <2> QED
    BY <2>2, <2>4 DEF SeqOffer
<1>5. IsFiniteSet(all)
  BY FS_Union DEF Shaped
<1>6. \A s \in all : SeqIntent(tx.intents[s])
  BY <1>3 DEF Shaped
<1>7. tx = [offers |-> tx.offers, intents |-> tx.intents]
  BY <1>2
<1>8. Shaped(tx)
  <2>1. IsFun(both)
    BY DEF IsFun
  <2>2. tx.intents = both
    BY <1>2
  <2> HIDE DEF both
  <2> QED BY <1>3, <1>4, <1>5, <1>6, <1>7, <2>1, <2>2 DEF Shaped, Segments
<1>9. \A s \in Segments : /\ tx.offers[s].inputs = Joined(a.offers[s].inputs, b.offers[s].inputs)
                          /\ tx.offers[s].outputs = Joined(a.offers[s].outputs, b.offers[s].outputs)
  <2> SUFFICES ASSUME NEW s \in Segments
               PROVE  /\ tx.offers[s].inputs = a.offers[s].inputs \o b.offers[s].inputs
                      /\ tx.offers[s].outputs = a.offers[s].outputs \o b.offers[s].outputs
    BY DEF Joined
  <2> DEFINE i == a.offers[s].inputs \o b.offers[s].inputs
             o == a.offers[s].outputs \o b.offers[s].outputs
             t == a.offers[s].transients \o b.offers[s].transients
             offer == tx.offers[s]
  <2>1. offer = [inputs |-> i, outputs |-> o, transients |-> t]
    BY <1>4
  <2> HIDE DEF i, o, t, offer
  <2>2. offer.inputs = i /\ offer.outputs = o
    BY <2>1
  <2> QED BY <2>2 DEF i, o, offer
<1> QED
  BY <1>1, <1>3, <1>8, <1>9

(* What the transaction of two spends at a place. *)
LEMMA MergedPlaces ==
    ASSUME NEW a, NEW b, Shaped(a), Shaped(b), NEW tx, AreMerged(a, b, tx)
    PROVE     /\ Places(tx) = Places(a) \cup Places(b)
              /\ \A p \in Places(tx) :
                   \/ /\ p \in Places(a) /\ p \in Places(b)
                      /\ InputsAt(tx, p) = Joined(InputsAt(a, p), InputsAt(b, p))
                   \/ p \in Places(a) /\ p \notin Places(b) /\ InputsAt(tx, p) = InputsAt(a, p)
                   \/ p \in Places(b) /\ p \notin Places(a) /\ InputsAt(tx, p) = InputsAt(b, p)
<1>1. /\ DOMAIN a.intents \cap DOMAIN b.intents = {}
      /\ DOMAIN tx.intents = DOMAIN a.intents \cup DOMAIN b.intents
      /\ \A s \in DOMAIN a.intents : tx.intents[s] = a.intents[s]
      /\ \A s \in DOMAIN b.intents : tx.intents[s] = b.intents[s]
      /\ \A s \in Segments : tx.offers[s].inputs = Joined(a.offers[s].inputs, b.offers[s].inputs)
  BY MergeIs
<1>2. Places(tx) = Places(a) \cup Places(b)
  BY <1>1 DEF Places
<1>3. ASSUME NEW p \in Places(tx), p[1] = "coins", p[2] \in Segments
      PROVE  p \in Places(a) /\ p \in Places(b) /\ InputsAt(tx, p) = Joined(InputsAt(a, p), InputsAt(b, p))
  <2>1. p \in Places(a) /\ p \in Places(b)
    <3>1. p = <<"coins", p[2]>>
      BY <1>3, PlaceIs
    <3> QED BY <3>1, <1>3, PlacesThere
  <2>2. InputsAt(tx, p) = tx.offers[p[2]].inputs /\ InputsAt(a, p) = a.offers[p[2]].inputs /\ InputsAt(b, p) = b.offers[p[2]].inputs
    BY <1>3 DEF InputsAt
  <2> QED BY <2>1, <2>2, <1>1, <1>3
<1>4. ASSUME NEW c, NEW d, Shaped(c), Shaped(d), DOMAIN c.intents \cap DOMAIN d.intents = {},
             \A s \in DOMAIN c.intents : tx.intents[s] = c.intents[s],
             NEW p \in Places(tx), p[1] \in IntentPlaces, p[2] \in DOMAIN c.intents
      PROVE  p \in Places(c) /\ p \notin Places(d) /\ InputsAt(tx, p) = InputsAt(c, p)
  <2>1. p[1] \in {"guaranteed", "fallible", "dust"} /\ p[1] # "coins"
    BY <1>4 DEF IntentPlaces
  <2>2. p \in Places(c)
    <3>1. p = <<p[1], p[2]>>
      BY PlaceIs
    <3> QED BY <3>1, <1>4, PlacesThere
  <2>3. p \notin Places(d)
    <3>1. p \in Places(d) => p[2] \in DOMAIN d.intents
      BY <2>1, PlaceIs
    <3> QED BY <3>1, <1>4
  <2>4. tx.intents[p[2]] = c.intents[p[2]]
    BY <1>4
  <2>5. CASE p[1] = "guaranteed"
    BY <2>2, <2>3, <2>4, <2>5 DEF InputsAt
  <2>6. CASE p[1] = "fallible"
    BY <2>2, <2>3, <2>4, <2>6 DEF InputsAt
  <2>7. CASE p[1] = "dust"
    BY <2>2, <2>3, <2>4, <2>7 DEF InputsAt
  <2> QED BY <2>1, <2>5, <2>6, <2>7
<1>5. ASSUME NEW p \in Places(tx)
      PROVE  \/ p \in Places(a) /\ p \in Places(b) /\ InputsAt(tx, p) = Joined(InputsAt(a, p), InputsAt(b, p))
             \/ p \in Places(a) /\ p \notin Places(b) /\ InputsAt(tx, p) = InputsAt(a, p)
             \/ p \in Places(b) /\ p \notin Places(a) /\ InputsAt(tx, p) = InputsAt(b, p)
  <2>1. CASE p[1] = "coins" /\ p[2] \in Segments
    BY <2>1, <1>3
  <2>2. CASE p[1] \in IntentPlaces /\ p[2] \in DOMAIN a.intents
    BY <2>2, <1>1, <1>4
  <2>3. CASE p[1] \in IntentPlaces /\ p[2] \in DOMAIN b.intents
    BY <2>3, <1>1, <1>4
  <2> QED BY <2>1, <2>2, <2>3, <1>1, PlaceIs
<1> QED
  BY <1>2, <1>5

(* It spends what the two spend, and once if they do. *)
LEMMA MergedSpends ==
    ASSUME NEW a, NEW b, Shaped(a), Shaped(b), NEW tx, AreMerged(a, b, tx)
    PROVE     /\ InputIds(tx) = InputIds(a) \cup InputIds(b)
              /\ SpendsOnce(a) /\ SpendsOnce(b) /\ InputIds(a) \cap InputIds(b) = {} => SpendsOnce(tx)
<1>1. Places(tx) = Places(a) \cup Places(b)
  BY MergedPlaces
<1>2. \A p \in Places(tx) :
        \/ p \in Places(a) /\ p \in Places(b) /\ InputsAt(tx, p) = Joined(InputsAt(a, p), InputsAt(b, p))
        \/ p \in Places(a) /\ p \notin Places(b) /\ InputsAt(tx, p) = InputsAt(a, p)
        \/ p \in Places(b) /\ p \notin Places(a) /\ InputsAt(tx, p) = InputsAt(b, p)
  BY MergedPlaces
<1>3. ASSUME NEW p \in Places(tx), NEW x
      PROVE  x \in Ids(InputsAt(tx, p)) <=> \/ p \in Places(a) /\ x \in Ids(InputsAt(a, p))
                                            \/ p \in Places(b) /\ x \in Ids(InputsAt(b, p))
  <2>1. CASE p \in Places(a) /\ p \in Places(b) /\ InputsAt(tx, p) = Joined(InputsAt(a, p), InputsAt(b, p))
    <3>1. IsSeq(InputsAt(a, p)) /\ IsSeq(InputsAt(b, p))
      BY <2>1, InputsAreSeqs
    <3> QED BY <2>1, <3>1, ConcatIds DEF Joined
  <2> QED BY <1>2, <2>1
<1>4. InputIds(tx) = InputIds(a) \cup InputIds(b)
  BY <1>1, <1>3, IdsOfPlaces
<1>5. ASSUME SpendsOnce(a), SpendsOnce(b), InputIds(a) \cap InputIds(b) = {}
      PROVE  SpendsOnce(tx)
  <2>1. \A p \in Places(a) : Distinct(InputsAt(a, p)) /\ Ids(InputsAt(a, p)) \subseteq InputIds(a)
    BY <1>5, OnceMeans, IdsOfPlaces
  <2>2. \A p \in Places(b) : Distinct(InputsAt(b, p)) /\ Ids(InputsAt(b, p)) \subseteq InputIds(b)
    BY <1>5, OnceMeans, IdsOfPlaces
  <2>3. ASSUME NEW p \in Places(tx) PROVE Distinct(InputsAt(tx, p))
    <3>1. CASE p \in Places(a) /\ p \in Places(b) /\ InputsAt(tx, p) = Joined(InputsAt(a, p), InputsAt(b, p))
      <4>1. IsSeq(InputsAt(a, p)) /\ IsSeq(InputsAt(b, p))
        BY <3>1, InputsAreSeqs
      <4>2. Ids(InputsAt(a, p)) \cap Ids(InputsAt(b, p)) = {}
        BY <3>1, <2>1, <2>2, <1>5
      <4> QED BY <2>1, <2>2, <3>1, <4>1, <4>2, ConcatIds DEF Joined
    <3> QED BY <1>2, <2>1, <2>2, <3>1
  <2>4. ASSUME NEW p \in Places(tx), NEW q \in Places(tx), p # q, NEW x,
               x \in Ids(InputsAt(tx, p)), x \in Ids(InputsAt(tx, q))
        PROVE  FALSE
    <3>1. \/ p \in Places(a) /\ x \in Ids(InputsAt(a, p))
          \/ p \in Places(b) /\ x \in Ids(InputsAt(b, p))
      BY <1>3, <2>4
    <3>2. \/ q \in Places(a) /\ x \in Ids(InputsAt(a, q))
          \/ q \in Places(b) /\ x \in Ids(InputsAt(b, q))
      BY <1>3, <2>4
    <3>3. ~(p \in Places(a) /\ x \in Ids(InputsAt(a, p)) /\ q \in Places(a) /\ x \in Ids(InputsAt(a, q)))
      BY <1>5, <2>4, OnceMeans
    <3>4. ~(p \in Places(b) /\ x \in Ids(InputsAt(b, p)) /\ q \in Places(b) /\ x \in Ids(InputsAt(b, q)))
      BY <1>5, <2>4, OnceMeans
    <3> QED BY <3>1, <3>2, <3>3, <3>4, <2>1, <2>2, <1>5
  <2> QED BY <2>3, <2>4, OnceMeans
<1> QED
  BY <1>4, <1>5

(* It can land if the two can, and no input is in both. *)
LEMMA MergedLands ==
    ASSUME NEW a, NEW b, Shaped(a), Shaped(b), NEW tx, AreMerged(a, b, tx),
           Lands(a), Lands(b), InputIds(a) \cap InputIds(b) = {}
    PROVE  Lands(tx)
<1>1. SpendsOnce(tx)
  BY MergedSpends DEF Lands
<1>2. /\ DOMAIN tx.intents = DOMAIN a.intents \cup DOMAIN b.intents
      /\ \A s \in DOMAIN a.intents : tx.intents[s] = a.intents[s]
      /\ \A s \in DOMAIN b.intents : tx.intents[s] = b.intents[s]
  BY MergeIs
<1> QED
  BY <1>1, <1>2 DEF Lands

(***************************************************************************)
(* Sums over parts                                                         *)
(***************************************************************************)
\* What a function yields are whole numbers.
Whole(f) == \A x \in DOMAIN f : f[x] \in Int

(* The sum over a part of the domain depends on the values there. *)
LEMMA SumIsOfValues ==
    ASSUME NEW f, NEW h, IsFiniteSet(DOMAIN f), IsFiniteSet(DOMAIN h),
           NEW D, D \subseteq DOMAIN f, D \subseteq DOMAIN h, \A x \in D : f[x] = h[x]
    PROVE  SumIn(f)[D] = SumIn(h)[D]
<1> DEFINE N == Cardinality(D)
           g == SumIn(f)
           k == SumIn(h)
           T == {n \in 0..N : \A s \in SUBSET D : Cardinality(s) = n => g[s] = k[s]}
<1>1. N \in Nat /\ IsFiniteSet(D)
  BY FS_CardinalityType, FS_Subset
<1>2. \A s \in SUBSET D : g[s] = SumStep(g, f, s) /\ k[s] = SumStep(k, h, s)
  BY SumEquation
<1> HIDE DEF g, k
<1>3. 0 \in T
  <2> SUFFICES ASSUME NEW s \in SUBSET D, Cardinality(s) = 0 PROVE g[s] = k[s]
    BY <1>1
  <2>1. s = {}
    BY <1>1, WithoutOne
  <2> QED BY <1>2, <2>1 DEF SumStep
<1>4. ASSUME NEW n \in 0..N, n < N, n \in T PROVE n + 1 \in T
  <2> SUFFICES ASSUME NEW s \in SUBSET D, Cardinality(s) = n + 1 PROVE g[s] = k[s]
    BY <1>1, <1>4
  <2>1. s # {} /\ AnyOf(s) \in D /\ s \ {AnyOf(s)} \in SUBSET D /\ Cardinality(s \ {AnyOf(s)}) = n
    <3>1. s # {}
      <4>1. Cardinality({}) = 0 /\ Cardinality(s) # 0
        BY <1>1, FS_EmptySet
      <4> QED BY <4>1
    <3> QED BY <1>1, <3>1, WithoutOne
  <2>2. g[s \ {AnyOf(s)}] = k[s \ {AnyOf(s)}] /\ f[AnyOf(s)] = h[AnyOf(s)]
    BY <1>4, <2>1
  <2>3. g[s] = f[AnyOf(s)] + g[s \ {AnyOf(s)}] /\ k[s] = h[AnyOf(s)] + k[s \ {AnyOf(s)}]
    BY <1>2, <2>1 DEF SumStep
  <2> QED BY <2>2, <2>3
<1>5. 0..N \subseteq T
  <2> HIDE DEF T
  <2> QED BY <1>1, <1>3, <1>4, SetInduction
<1>6. g[D] = k[D]
  BY <1>1, <1>5
<1> QED
  BY <1>6 DEF g, k

(* The sum without any one of the elements, whichever is taken first. *)
LEMMA SumWithoutAny ==
    ASSUME NEW f, IsFiniteSet(DOMAIN f), Whole(f), NEW s \in SUBSET DOMAIN f
    PROVE  /\ SumIn(f)[s] \in Int
           /\ \A x \in s : SumIn(f)[s] = f[x] + SumIn(f)[s \ {x}]
<1> DEFINE D == DOMAIN f
           N == Cardinality(D)
           g == SumIn(f)
           Right(r) == g[r] \in Int /\ \A x \in r : g[r] = f[x] + g[r \ {x}]
           T == {n \in 0..N : \A r \in SUBSET D : Cardinality(r) <= n => Right(r)}
<1>1. N \in Nat /\ IsFiniteSet(D)
  BY FS_CardinalityType
<1>2. \A r \in SUBSET D : g[r] = SumStep(g, f, r)
  BY SumEquation
<1> HIDE DEF g
<1>3. 0 \in T
  <2> SUFFICES ASSUME NEW r \in SUBSET D, Cardinality(r) <= 0 PROVE Right(r)
    <3> HIDE DEF Right
    <3> QED BY <1>1
  <2>1. r = {}
    <3>1. Cardinality(r) \in Nat /\ (Cardinality(r) = 0 <=> r = {})
      BY <1>1, WithoutOne
    <3> QED BY <3>1
  <2>2. g[r] = SumStep(g, f, r) /\ SumStep(g, f, r) = 0
    BY <1>2, <2>1 DEF SumStep
  <2> QED BY <2>1, <2>2
<1>4. ASSUME NEW n \in 0..N, n < N, n \in T PROVE n + 1 \in T
  <2> SUFFICES ASSUME NEW r \in SUBSET D, Cardinality(r) = n + 1 PROVE Right(r)
    <3> SUFFICES ASSUME NEW r \in SUBSET D, Cardinality(r) <= n + 1 PROVE Right(r)
      <4> HIDE DEF Right
      <4> QED BY <1>1, <1>4
    <3>1. Cardinality(r) \in Nat
      BY <1>1, WithoutOne
    <3>2. Cardinality(r) <= n => Right(r)
      BY <1>4
    <3> HIDE DEF Right
    <3> QED BY <1>1, <3>1, <3>2
  <2> DEFINE a == AnyOf(r)
  <2>1. r # {} /\ a \in D /\ a \in r /\ r \ {a} \in SUBSET D /\ Cardinality(r \ {a}) = n
    <3>1. r # {}
      <4>1. Cardinality({}) = 0 /\ Cardinality(r) # 0
        BY <1>1, FS_EmptySet
      <4> QED BY <4>1
    <3> QED BY <1>1, <3>1, WithoutOne
  <2>2. g[r] = f[a] + g[r \ {a}]
    BY <1>2, <2>1 DEF SumStep
  <2> HIDE DEF a
  <2>3. Right(r \ {a})
    <3> HIDE DEF Right
    <3> QED BY <1>1, <1>4, <2>1
  <2>4. f[a] \in Int /\ g[r \ {a}] \in Int
    BY <2>1, <2>3 DEF Whole
  <2>5. ASSUME NEW x \in r, x # a PROVE g[r] = f[x] + g[r \ {x}]
    <3> DEFINE less == (r \ {a}) \ {x}
    <3>1. g[r \ {a}] = f[x] + g[less]
      BY <2>3, <2>5
    <3>2. r \ {x} \in SUBSET D /\ Cardinality(r \ {x}) = n
      <4>1. IsFiniteSet(r)
        BY <1>1, FS_Subset
      <4>2. Cardinality(r \ {x}) = Cardinality(r) - 1
        BY <4>1, FS_RemoveElement
      <4> QED BY <1>1, <4>2
    <3>3. a \in r \ {x} /\ Right(r \ {x})
      <4> HIDE DEF Right
      <4> QED BY <1>1, <1>4, <2>1, <2>5, <3>2
    <3>4. g[r \ {x}] = f[a] + g[(r \ {x}) \ {a}]
      BY <3>3
    <3>5. (r \ {x}) \ {a} = less
      OBVIOUS
    <3>6. f[x] \in Int /\ g[less] \in Int
      <4>1. x \in D /\ less \in SUBSET D
        OBVIOUS
      <4>2. Cardinality(less) <= n
        <5>1. IsFiniteSet(r \ {a}) /\ less \subseteq r \ {a}
          BY <1>1, <2>1, FS_Subset
        <5>2. Cardinality(less) <= Cardinality(r \ {a})
          BY <5>1, FS_Subset
        <5> QED BY <2>1, <5>2
      <4>3. Right(less)
        BY <1>4, <4>1, <4>2
      <4> QED BY <4>1, <4>3 DEF Whole
    <3>7. g[r \ {x}] = f[a] + g[less]
      BY <3>4, <3>5
    <3> HIDE DEF less
    <3> DEFINE p == g[r \ {a}]
               q == g[r \ {x}]
               y == g[less]
    <3>8. g[r] = f[a] + p /\ p = f[x] + y /\ q = f[a] + y /\ f[a] \in Int /\ f[x] \in Int /\ y \in Int
      BY <2>2, <2>4, <3>1, <3>6, <3>7
    <3> HIDE DEF p, q, y
    <3>9. g[r] = f[x] + q
      BY <3>8
    <3> QED BY <3>9 DEF q
  <2>6. g[r] \in Int
    BY <2>2, <2>4
  <2> QED BY <2>2, <2>5, <2>6
<1>5. 0..N \subseteq T
  <2> HIDE DEF T
  <2> QED BY <1>1, <1>3, <1>4, SetInduction
<1>6. Cardinality(s) \in 0..N
  BY <1>1, FS_Subset, FS_CardinalityType
<1>7. Right(s)
  BY <1>5, <1>6
<1> QED
  BY <1>7 DEF g

(* Induction over the subsets of a finite set, one element at a time. *)
LEMMA SubsetInduction ==
    ASSUME NEW D, IsFiniteSet(D), NEW T, {} \in T,
           \A s \in SUBSET D, x \in D : s \in T /\ x \notin s => s \cup {x} \in T
    PROVE  SUBSET D \subseteq T
<1> DEFINE N == Cardinality(D)
           R == {n \in 0..N : \A s \in SUBSET D : Cardinality(s) = n => s \in T}
<1>1. N \in Nat
  BY FS_CardinalityType
<1>2. 0 \in R
  <2> SUFFICES ASSUME NEW s \in SUBSET D, Cardinality(s) = 0 PROVE s \in T
    BY <1>1
  <2>1. s = {}
    BY WithoutOne
  <2> QED BY <2>1
<1>3. ASSUME NEW n \in 0..N, n < N, n \in R PROVE n + 1 \in R
  <2> SUFFICES ASSUME NEW s \in SUBSET D, Cardinality(s) = n + 1 PROVE s \in T
    BY <1>1, <1>3
  <2> DEFINE a == AnyOf(s)
             r == s \ {a}
  <2>1. s # {}
    <3>1. Cardinality({}) = 0 /\ Cardinality(s) # 0
      BY <1>1, FS_EmptySet
    <3> QED BY <3>1
  <2>2. a \in s /\ r \in SUBSET D /\ Cardinality(r) = n
    BY <1>1, <2>1, WithoutOne
  <2>3. r \in T
    BY <1>3, <2>2
  <2>4. r \cup {a} \in T
    BY <2>2, <2>3
  <2>5. s = r \cup {a}
    BY <2>2
  <2> QED BY <2>4, <2>5
<1>4. 0..N \subseteq R
  <2> HIDE DEF R
  <2> QED BY <1>1, <1>2, <1>3, SetInduction
<1>5. ASSUME NEW s \in SUBSET D PROVE s \in T
  <2>1. Cardinality(s) \in 0..N
    BY <1>1, FS_Subset, FS_CardinalityType
  <2> QED BY <1>4, <2>1
<1> QED
  BY <1>5

(* The sum over a part and one element more. *)
LEMMA SumWithOneMore ==
    ASSUME NEW f, IsFiniteSet(DOMAIN f), Whole(f), NEW s \in SUBSET DOMAIN f, NEW x \in DOMAIN f \ s
    PROVE  SumIn(f)[s \cup {x}] = f[x] + SumIn(f)[s] /\ f[x] \in Int /\ SumIn(f)[s] \in Int
<1>1. s \cup {x} \in SUBSET DOMAIN f /\ x \in s \cup {x} /\ (s \cup {x}) \ {x} = s
  OBVIOUS
<1>2. SumIn(f)[s \cup {x}] = f[x] + SumIn(f)[(s \cup {x}) \ {x}]
  BY <1>1, SumWithoutAny
<1>3. SumIn(f)[s] \in Int
  BY SumWithoutAny
<1> QED
  BY <1>1, <1>2, <1>3 DEF Whole

(* Sums of nothing, of whole numbers, and of zeros. *)
LEMMA SumsAre ==
    ASSUME NEW f, IsFiniteSet(DOMAIN f)
    PROVE  /\ DOMAIN f = {} => SumFunction(f) = 0
           /\ Whole(f) => SumFunction(f) \in Int
           /\ (\A x \in DOMAIN f : f[x] = 0) => SumFunction(f) = 0
<1> DEFINE g == SumIn(f)
<1>1. SumFunction(f) = g[DOMAIN f] /\ g[{}] = 0
  BY SumEquation DEF SumStep
<1>2. Whole(f) => SumFunction(f) \in Int
  BY <1>1, SumWithoutAny
<1>3. ASSUME \A x \in DOMAIN f : f[x] = 0 PROVE SumFunction(f) = 0
  <2> DEFINE T == {s \in SUBSET DOMAIN f : g[s] = 0}
  <2>1. Whole(f)
    BY <1>3 DEF Whole
  <2>2. ASSUME NEW s \in SUBSET DOMAIN f, NEW x \in DOMAIN f, s \in T, x \notin s PROVE s \cup {x} \in T
    <3>1. g[s \cup {x}] = f[x] + g[s]
      BY <2>1, <2>2, SumWithOneMore
    <3>2. f[x] = 0 /\ g[s] = 0
      BY <1>3, <2>2
    <3> HIDE DEF g
    <3>3. g[s \cup {x}] = 0
      BY <3>1, <3>2
    <3> QED BY <3>3
  <2>3. {} \in T
    BY <1>1
  <2>4. SUBSET DOMAIN f \subseteq T
    <3>1. \A s \in SUBSET DOMAIN f, x \in DOMAIN f : s \in T /\ x \notin s => s \cup {x} \in T
      BY <2>2
    <3> DEFINE D == DOMAIN f
    <3>2. IsFiniteSet(D) /\ \A s \in SUBSET D, x \in D : s \in T /\ x \notin s => s \cup {x} \in T
      BY <3>1
    <3> HIDE DEF T, g, D
    <3>3. SUBSET D \subseteq T
      BY <2>3, <3>2, SubsetInduction
    <3> QED BY <3>3 DEF D
  <2>5. DOMAIN f \in T
    BY <2>4
  <2> QED BY <1>1, <2>5
<1> QED
  BY <1>1, <1>2, <1>3

\* That a function is two others side by side.
SideBySide(f, a, b) ==
  /\ DOMAIN f = DOMAIN a \cup DOMAIN b /\ DOMAIN a \cap DOMAIN b = {}
  /\ \A x \in DOMAIN a : f[x] = a[x]
  /\ \A x \in DOMAIN b : f[x] = b[x]

(* The sum over two functions side by side. *)
LEMMA SumSideBySide ==
    ASSUME NEW f, NEW a, NEW b, IsFiniteSet(DOMAIN a), IsFiniteSet(DOMAIN b), Whole(a), Whole(b), SideBySide(f, a, b)
    PROVE  SumFunction(f) = SumFunction(a) + SumFunction(b)
<1> DEFINE g == SumIn(f)
           A == DOMAIN a
           B == DOMAIN b
           T == {s \in SUBSET B : g[A \cup s] = g[A] + g[s]}
<1>1. IsFiniteSet(DOMAIN f) /\ Whole(f) /\ A \subseteq DOMAIN f /\ B \subseteq DOMAIN f /\ DOMAIN f = A \cup B
  <2>1. IsFiniteSet(A \cup B)
    BY FS_Union
  <2> QED BY <2>1 DEF SideBySide, Whole
<1>2. \A s \in SUBSET DOMAIN f : g[s] \in Int
  BY <1>1, SumWithoutAny
<1>3. g[{}] = 0
  BY <1>1, SumEquation DEF SumStep
<1>4. ASSUME NEW s \in SUBSET B, NEW x \in B, s \in T, x \notin s PROVE s \cup {x} \in T
  <2> DEFINE p == A \cup s
  <2>1. p \in SUBSET DOMAIN f /\ s \in SUBSET DOMAIN f /\ x \in DOMAIN f \ p /\ x \in DOMAIN f \ s
    BY <1>1, <1>4 DEF SideBySide
  <2>2. g[p \cup {x}] = f[x] + g[p] /\ f[x] \in Int
    BY <1>1, <2>1, SumWithOneMore
  <2>3. g[s \cup {x}] = f[x] + g[s]
    BY <1>1, <2>1, SumWithOneMore
  <2>4. g[p] = g[A] + g[s]
    BY <1>4
  <2>5. A \cup (s \cup {x}) = p \cup {x}
    OBVIOUS
  <2>6. g[A] \in Int /\ g[s] \in Int
    BY <1>1, <1>2, <2>1
  <2> HIDE DEF g, p, A
  <2>7. g[A \cup (s \cup {x})] = f[x] + g[p]
    BY <2>2, <2>5
  <2>8. f[x] + (g[A] + g[s]) = g[A] + (f[x] + g[s])
    BY <2>2, <2>6
  <2>9. g[A \cup (s \cup {x})] = g[A] + g[s \cup {x}]
    BY <2>3, <2>4, <2>7, <2>8
  <2> QED BY <1>4, <2>9
<1>5. {} \in T
  <2>1. g[A] + 0 = g[A] /\ A \cup {} = A
    BY <1>1, <1>2
  <2> HIDE DEF g, A
  <2> QED BY <1>3, <2>1
<1>6. SUBSET B \subseteq T
  <2>1. \A s \in SUBSET B, x \in B : s \in T /\ x \notin s => s \cup {x} \in T
    BY <1>4
  <2>2. IsFiniteSet(B)
    OBVIOUS
  <2> HIDE DEF T, g, B
  <2> QED BY <1>5, <2>1, <2>2, SubsetInduction
<1>7. g[A \cup B] = g[A] + g[B]
  BY <1>6
<1>8. SumFunction(f) = g[A \cup B]
  BY <1>1, SumEquation
<1>9. SumFunction(a) = g[A]
  <2>1. SumIn(a)[A] = SumIn(f)[A]
    BY <1>1, SumIsOfValues DEF SideBySide
  <2> QED BY <2>1, SumEquation
<1>10. SumFunction(b) = g[B]
  <2>1. SumIn(b)[B] = SumIn(f)[B]
    BY <1>1, SumIsOfValues DEF SideBySide
  <2> QED BY <2>1, SumEquation
<1> HIDE DEF g, A, B
<1> QED
  BY <1>7, <1>8, <1>9, <1>10

(* The sum over a function of one argument. *)
LEMMA SumOfOne ==
    ASSUME NEW f, NEW x, DOMAIN f = {x}, f[x] \in Int
    PROVE  SumFunction(f) = f[x]
<1>1. IsFiniteSet(DOMAIN f) /\ Whole(f)
  BY FS_Singleton DEF Whole
<1>2. {} \in SUBSET DOMAIN f /\ x \in DOMAIN f \ {} /\ {} \cup {x} = DOMAIN f
  OBVIOUS
<1>3. SumIn(f)[{} \cup {x}] = f[x] + SumIn(f)[{}]
  BY <1>1, <1>2, SumWithOneMore
<1>4. SumIn(f)[{}] = 0
  BY <1>1, SumEquation DEF SumStep
<1>5. SumFunction(f) = SumIn(f)[DOMAIN f]
  BY <1>1, SumEquation
<1> QED
  BY <1>2, <1>3, <1>4, <1>5

(* Functions with the same values have the same sum. *)
LEMMA SumsAgree ==
    ASSUME NEW f, NEW h, IsFiniteSet(DOMAIN f), DOMAIN f = DOMAIN h, \A x \in DOMAIN f : f[x] = h[x]
    PROVE  SumFunction(f) = SumFunction(h)
<1> DEFINE D == DOMAIN f
<1>1. IsFiniteSet(DOMAIN h) /\ D \subseteq DOMAIN f /\ D \subseteq DOMAIN h /\ \A x \in D : f[x] = h[x]
  OBVIOUS
<1>2. SumFunction(f) = SumIn(f)[D] /\ SumFunction(h) = SumIn(h)[D]
  BY <1>1, SumEquation
<1> HIDE DEF D
<1>3. SumIn(f)[D] = SumIn(h)[D]
  BY <1>1, SumIsOfValues
<1> QED
  BY <1>2, <1>3

(* The sum over a line is that over what came before and the last. *)
LEMMA SumOfLast ==
    ASSUME NEW n \in Nat, NEW f, DOMAIN f = 1..n + 1, Whole(f), NEW h, DOMAIN h = 1..n, \A k \in 1..n : h[k] = f[k]
    PROVE  SumFunction(f) = SumFunction(h) + f[n + 1] /\ SumFunction(h) \in Int /\ f[n + 1] \in Int
<1> DEFINE one == [k \in {n + 1} |-> f[k]]
<1>1. n + 1 \in DOMAIN f /\ DOMAIN f = DOMAIN h \cup {n + 1} /\ DOMAIN h \cap {n + 1} = {}
  OBVIOUS
<1>2. f[n + 1] \in Int /\ Whole(h) /\ Whole(one)
  BY <1>1 DEF Whole
<1>3. IsFiniteSet(DOMAIN h) /\ IsFiniteSet(DOMAIN one)
  <2>1. IsFiniteSet(1..n)
    BY FS_Interval
  <2>2. DOMAIN one = {n + 1}
    OBVIOUS
  <2>3. IsFiniteSet({n + 1})
    BY FS_Singleton
  <2> HIDE DEF one
  <2> QED BY <2>1, <2>2, <2>3
<1>4. SideBySide(f, h, one)
  BY <1>1 DEF SideBySide
<1>5. SumFunction(one) = one[n + 1]
  <2>1. DOMAIN one = {n + 1} /\ one[n + 1] \in Int
    BY <1>2
  <2> HIDE DEF one
  <2> QED BY <2>1, SumOfOne
<1>6. SumFunction(f) = SumFunction(h) + SumFunction(one)
  <2> HIDE DEF one
  <2> QED BY <1>2, <1>3, <1>4, SumSideBySide
<1>7. SumFunction(h) \in Int
  BY <1>2, <1>3, SumsAre
<1> QED
  BY <1>2, <1>5, <1>6, <1>7

\* That a line is two others, one after the other.
OneAfterOther(f, a, b, m, n) ==
  /\ DOMAIN a = 1..m /\ DOMAIN b = 1..n /\ DOMAIN f = 1..m + n
  /\ \A k \in 1..m : f[k] = a[k]
  /\ \A k \in 1..n : f[m + k] = b[k]

(* The sum over a line of two parts. *)
LEMMA SumOneAfterOther ==
    ASSUME NEW m \in Nat, NEW n \in Nat, NEW a, NEW b, NEW f, Whole(a), Whole(b), OneAfterOther(f, a, b, m, n)
    PROVE  SumFunction(f) = SumFunction(a) + SumFunction(b)
<1> DEFINE First(k) == [i \in 1..m + k |-> f[i]]
           Of(k) == [i \in 1..k |-> b[i]]
           T == {k \in 0..n : SumFunction(First(k)) = SumFunction(a) + SumFunction(Of(k))}
<1>1. SumFunction(a) \in Int
  <2>1. IsFiniteSet(DOMAIN a)
    BY FS_Interval DEF OneAfterOther
  <2> QED BY <2>1, SumsAre
<1>2. 0 \in T
  <2>1. First(0) = [i \in 1..m |-> a[i]]
    BY DEF OneAfterOther
  <2>2. SumFunction([i \in 1..m |-> a[i]]) = SumFunction(a)
    <3> DEFINE c == [i \in 1..m |-> a[i]]
    <3>1. DOMAIN c = DOMAIN a /\ IsFiniteSet(DOMAIN a) /\ \A i \in DOMAIN a : a[i] = c[i]
      BY FS_Interval DEF OneAfterOther
    <3> HIDE DEF c
    <3>2. SumFunction(a) = SumFunction(c)
      BY <3>1, SumsAgree
    <3> QED BY <3>2 DEF c
  <2>3. SumFunction(Of(0)) = 0
    <3>1. DOMAIN Of(0) = {} /\ IsFiniteSet({})
      BY FS_EmptySet
    <3> HIDE DEF Of
    <3> QED BY <3>1, SumsAre
  <2>4. SumFunction(First(0)) = SumFunction(a)
    BY <2>1, <2>2
  <2> HIDE DEF First, Of
  <2> QED BY <1>1, <2>3, <2>4
<1>3. ASSUME NEW k \in 0..n, k < n, k \in T PROVE k + 1 \in T
  <2> DEFINE p == First(k)
             q == First(k + 1)
             r == Of(k)
             s == Of(k + 1)
  <2>1. m + k \in Nat /\ k \in Nat /\ m + k + 1 \in 1..m + n /\ k + 1 \in 1..n
    BY <1>3
  <2>2. SumFunction(q) = SumFunction(p) + q[m + k + 1] /\ SumFunction(p) \in Int
    <3>1. DOMAIN q = 1..(m + k) + 1 /\ DOMAIN p = 1..m + k /\ \A i \in 1..m + k : p[i] = q[i]
      BY <2>1
    <3>2. Whole(q)
      <4> SUFFICES ASSUME NEW i \in 1..m + k + 1 PROVE f[i] \in Int
        BY <2>1 DEF Whole
      <4>1. CASE i <= m
        BY <2>1, <4>1 DEF OneAfterOther, Whole
      <4>2. CASE i > m
        <5>1. i - m \in 1..n /\ m + (i - m) = i
          BY <2>1, <4>2
        <5>2. f[m + (i - m)] = b[i - m] /\ b[i - m] \in Int
          BY <5>1 DEF OneAfterOther, Whole
        <5> QED BY <5>1, <5>2
      <4> QED BY <2>1, <4>1, <4>2
    <3> HIDE DEF p, q
    <3> QED BY <2>1, <3>1, <3>2, SumOfLast
  <2>3. SumFunction(s) = SumFunction(r) + s[k + 1] /\ SumFunction(r) \in Int /\ s[k + 1] \in Int
    <3>1. DOMAIN s = 1..k + 1 /\ DOMAIN r = 1..k /\ \A i \in 1..k : r[i] = s[i]
      BY <2>1
    <3>2. Whole(s)
      BY <2>1 DEF Whole, OneAfterOther
    <3> HIDE DEF r, s
    <3> QED BY <2>1, <3>1, <3>2, SumOfLast
  <2>4. q[m + k + 1] = s[k + 1]
    <3>1. f[m + (k + 1)] = b[k + 1] /\ m + (k + 1) = m + k + 1
      BY <2>1 DEF OneAfterOther
    <3> QED BY <2>1, <3>1
  <2>5. SumFunction(p) = SumFunction(a) + SumFunction(r)
    BY <1>3
  <2> HIDE DEF p, q, r, s
  <2>6. SumFunction(q) = SumFunction(a) + SumFunction(s)
    BY <1>1, <2>2, <2>3, <2>4, <2>5
  <2> QED BY <2>1, <2>6 DEF q, s
<1>4. 0..n \subseteq T
  <2> HIDE DEF T
  <2> QED BY <1>2, <1>3, SetInduction
<1>5. n \in T
  BY <1>4
<1>6. SumFunction(First(n)) = SumFunction(f) /\ SumFunction(Of(n)) = SumFunction(b)
  <2>1. /\ DOMAIN First(n) = DOMAIN f /\ DOMAIN Of(n) = DOMAIN b /\ IsFiniteSet(DOMAIN f) /\ IsFiniteSet(DOMAIN b)
        /\ \A i \in DOMAIN f : f[i] = First(n)[i]
        /\ \A i \in DOMAIN b : b[i] = Of(n)[i]
    BY FS_Interval DEF OneAfterOther
  <2> HIDE DEF First, Of
  <2> QED BY <2>1, SumsAgree
<1>7. SumFunction(First(n)) = SumFunction(a) + SumFunction(Of(n))
  BY <1>5
<1> HIDE DEF First, Of
<1> QED
  BY <1>6, <1>7

(***************************************************************************)
(* What tokens come to                                                     *)
(***************************************************************************)
TokenTypes == Shielded \cup Unshielded

\* What each coin of a line is worth in a token.
Worths(xs, token) == [n \in DOMAIN xs |-> IF xs[n].token = token THEN xs[n].value ELSE 0]

(* What a line is worth in a token. *)
LEMMA ValueOfIs ==
    ASSUME NEW xs, Worth(xs), NEW token
    PROVE  /\ ValueOf(xs, token) = SumFunction(Worths(xs, token)) /\ ValueOf(xs, token) \in Nat
           /\ IsFiniteSet(DOMAIN xs) /\ DOMAIN Worths(xs, token) = DOMAIN xs /\ Whole(Worths(xs, token))
<1> DEFINE f == Worths(xs, token)
<1>1. IsSeq(xs) /\ \A n \in DOMAIN xs : xs[n].value \in Nat
  BY DEF Worth
<1>2. DOMAIN xs = 1..Len(xs) /\ Len(xs) \in Nat
  BY <1>1, SeqIsSeq DEF IsSeq
<1>3. IsFiniteSet(DOMAIN xs)
  BY <1>2, FS_Interval
<1>4. DOMAIN f = DOMAIN xs /\ \A n \in DOMAIN f : f[n] \in Nat
  BY <1>1 DEF Worths
<1>5. ValueOf(xs, token) = SumFunction(f)
  BY DEF ValueOf, Worths
<1> HIDE DEF f
<1>6. SumFunction(f) \in Nat
  BY <1>3, <1>4, SumIsNat
<1>7. Whole(f)
  BY <1>4 DEF Whole
<1> QED
  BY <1>3, <1>4, <1>5, <1>6, <1>7 DEF f

(* Nothing is worth nothing. *)
LEMMA ValueOfNone == \A token : ValueOf(<<>>, token) = 0
<1> SUFFICES ASSUME NEW token PROVE ValueOf(<<>>, token) = 0
  OBVIOUS
<1> DEFINE xs == <<>>
           f == Worths(xs, token)
<1>1. Worth(xs) /\ DOMAIN xs = {}
  BY NothingIsSeq
<1> HIDE DEF xs
<1>2. ValueOf(xs, token) = SumFunction(f) /\ DOMAIN f = {}
  BY <1>1, ValueOfIs
<1> HIDE DEF f
<1>3. SumFunction(f) = 0
  BY <1>2, FS_EmptySet, SumsAre
<1> QED
  BY <1>2, <1>3 DEF xs

(* What one coin is worth. *)
LEMMA ValueOfOne ==
    ASSUME NEW x, x.value \in Nat, NEW token
    PROVE  Worth(<<x>>) /\ ValueOf(<<x>>, token) = IF x.token = token THEN x.value ELSE 0
<1> DEFINE xs == <<x>>
           f == Worths(xs, token)
<1>1. Worth(xs) /\ DOMAIN xs = 1..1 /\ xs[1] = x
  BY OneIsSeq
<1> HIDE DEF xs
<1>2. f[1] = IF x.token = token THEN x.value ELSE 0
  BY <1>1 DEF Worths
<1>3. ValueOf(xs, token) = SumFunction(f) /\ DOMAIN f = {1}
  BY <1>1, ValueOfIs
<1> HIDE DEF f
<1>4. f[1] \in Int
  BY <1>2
<1>5. SumFunction(f) = f[1]
  BY <1>3, <1>4, SumOfOne
<1> QED
  BY <1>1, <1>2, <1>3, <1>5 DEF xs

(* What two lines are worth together. *)
LEMMA ValueOfJoined ==
    ASSUME NEW s, NEW t, Worth(s), Worth(t)
    PROVE  Worth(Joined(s, t)) /\ \A token : ValueOf(Joined(s, t), token) = ValueOf(s, token) + ValueOf(t, token)
<1> DEFINE st == Joined(s, t)
           m == Len(s)
           k == Len(t)
<1>1. IsSeq(s) /\ IsSeq(t) /\ (\A i \in DOMAIN s : s[i].value \in Nat) /\ (\A i \in DOMAIN t : t[i].value \in Nat)
  BY DEF Worth
<1>2. DOMAIN s = 1..m /\ DOMAIN t = 1..k
  BY <1>1, SeqIsSeq DEF IsSeq
<1>3. /\ IsSeq(st) /\ m \in Nat /\ k \in Nat /\ DOMAIN st = 1..(m + k)
      /\ \A i \in 1..m : st[i] = s[i]
      /\ \A i \in 1..k : st[m + i] = t[i]
      /\ \A i \in 1..(m + k) : IF i <= m THEN i \in 1..m /\ st[i] = s[i]
                               ELSE i - m \in 1..k /\ st[i] = t[i - m]
  BY <1>1, ConcatSeq DEF Joined
<1> HIDE DEF st, m, k
<1>4. Worth(st)
  <2> SUFFICES ASSUME NEW i \in 1..(m + k) PROVE st[i].value \in Nat
    BY <1>3 DEF Worth
  <2> QED BY <1>1, <1>2, <1>3
<1>5. ASSUME NEW token PROVE ValueOf(st, token) = ValueOf(s, token) + ValueOf(t, token)
  <2> DEFINE f == Worths(st, token)
             a == Worths(s, token)
             b == Worths(t, token)
  <2>1. /\ ValueOf(s, token) = SumFunction(a) /\ Whole(a) /\ DOMAIN a = 1..m
        /\ ValueOf(t, token) = SumFunction(b) /\ Whole(b) /\ DOMAIN b = 1..k
        /\ ValueOf(st, token) = SumFunction(f) /\ DOMAIN f = 1..(m + k)
    BY <1>2, <1>3, <1>4, ValueOfIs
  <2>2. \A i \in 1..m : f[i] = a[i]
    <3>1. \A i \in 1..m : i \in DOMAIN st /\ i \in DOMAIN s /\ st[i] = s[i]
      BY <1>2, <1>3
    <3> QED BY <3>1 DEF Worths
  <2>3. \A i \in 1..k : f[m + i] = b[i]
    <3>1. \A i \in 1..k : m + i \in DOMAIN st /\ i \in DOMAIN t /\ st[m + i] = t[i]
      BY <1>2, <1>3
    <3> QED BY <3>1 DEF Worths
  <2> HIDE DEF f, a, b
  <2>4. OneAfterOther(f, a, b, m, k)
    BY <2>1, <2>2, <2>3 DEF OneAfterOther
  <2> QED BY <1>3, <2>1, <2>4, SumOneAfterOther
<1> QED
  BY <1>4, <1>5 DEF st

(* What coins of one token are worth. *)
LEMMA ValueOfAlike ==
    ASSUME NEW xs, Worth(xs), NEW u, \A n \in DOMAIN xs : xs[n].token = u, NEW token
    PROVE  ValueOf(xs, token) = IF token = u THEN Value(xs) ELSE 0
<1> DEFINE f == Worths(xs, token)
           v == [n \in DOMAIN xs |-> xs[n].value]
<1>1. ValueOf(xs, token) = SumFunction(f) /\ DOMAIN f = DOMAIN xs /\ IsFiniteSet(DOMAIN xs) /\ DOMAIN v = DOMAIN xs
  BY ValueOfIs
<1>2. \A n \in DOMAIN xs : f[n] = IF token = u THEN v[n] ELSE 0
  BY DEF Worths
<1>3. Value(xs) = SumFunction(v)
  BY DEF Value
<1> HIDE DEF f, v
<1>4. CASE token = u
  <2>1. SumFunction(f) = SumFunction(v)
    BY <1>1, <1>2, <1>4, SumsAgree
  <2> QED BY <1>1, <1>3, <1>4, <2>1
<1>5. CASE token # u
  <2>1. SumFunction(f) = 0
    BY <1>1, <1>2, <1>5, SumsAre
  <2> QED BY <1>1, <1>5, <2>1
<1> QED
  BY <1>4, <1>5

\* What the intents of a transaction hold of a token in a segment, each.
Holdings(tx, t, s) == [i \in DOMAIN tx.intents |-> IntentBalance(tx.intents[i], t, s)]

\* That the balances of a transaction are numbers.
Valued(tx) ==
  /\ IsFiniteSet(DOMAIN tx.intents)
  /\ \A s \in Segments : Worth(tx.offers[s].inputs) /\ Worth(tx.offers[s].outputs)
  /\ \A t \in TokenTypes, s \in Segments : Whole(Holdings(tx, t, s))

(* A balance is a number, in two parts. *)
LEMMA BalanceIs ==
    ASSUME NEW tx, Valued(tx), NEW t \in TokenTypes, NEW s \in Segments
    PROVE  /\ Balance(tx, t, s) = (IF t \in Shielded THEN OfferBalance(tx.offers[s], t) ELSE 0) + SumFunction(Holdings(tx, t, s))
           /\ OfferBalance(tx.offers[s], t) \in Int /\ SumFunction(Holdings(tx, t, s)) \in Int
           /\ Balance(tx, t, s) \in Int
<1> DEFINE f == Holdings(tx, t, s)
           o == OfferBalance(tx.offers[s], t)
<1>1. Balance(tx, t, s) = (IF t \in Shielded THEN o ELSE 0) + SumFunction(f)
  BY DEF Balance, OverIntents, Holdings
<1>2. o \in Int
  <2>1. ValueOf(tx.offers[s].inputs, t) \in Nat /\ ValueOf(tx.offers[s].outputs, t) \in Nat
    BY ValueOfIs DEF Valued
  <2> QED BY <2>1 DEF OfferBalance
<1>3. IsFiniteSet(DOMAIN f) /\ Whole(f)
  BY DEF Valued, Holdings
<1> HIDE DEF f, o
<1>4. SumFunction(f) \in Int
  BY <1>3, SumsAre
<1> QED
  BY <1>1, <1>2, <1>4 DEF f, o

\* That a transaction has the balances of another.
Keeps(new, tx) ==
  Valued(tx) => Valued(new) /\ \A t \in TokenTypes, s \in Segments : Balance(new, t, s) = Balance(tx, t, s)

(* Balances are kept from step to step. *)
LEMMA KeepsOn ==
    /\ \A tx : Keeps(tx, tx)
    /\ \A a, b, c : Keeps(c, b) /\ Keeps(b, a) => Keeps(c, a)
  BY DEF Keeps

\* That an intent holds nothing of any token.
Empty(i) == \A t \in TokenTypes, s \in Segments : IntentBalance(i, t, s) = 0

(* Whatever keeps the offers and the UTXOs and actions of the intents keeps the balances. *)
LEMMA AlikeKeeps ==
    ASSUME NEW tx, NEW new, new.offers = tx.offers,
           IsFiniteSet(DOMAIN new.intents), DOMAIN tx.intents \subseteq DOMAIN new.intents,
           \A i \in DOMAIN tx.intents : /\ new.intents[i].utxos = tx.intents[i].utxos
                                        /\ new.intents[i].actions = tx.intents[i].actions,
           \A i \in DOMAIN new.intents \ DOMAIN tx.intents : Empty(new.intents[i])
    PROVE  Keeps(new, tx)
<1> SUFFICES ASSUME Valued(tx)
             PROVE  Valued(new) /\ \A t \in TokenTypes, s \in Segments : Balance(new, t, s) = Balance(tx, t, s)
  BY DEF Keeps
<1>1. \A i, j, t, s : i.utxos = j.utxos /\ i.actions = j.actions => IntentBalance(i, t, s) = IntentBalance(j, t, s)
  <2> SUFFICES ASSUME NEW i, NEW j, NEW t, NEW s, i.utxos = j.utxos, i.actions = j.actions
               PROVE  IntentBalance(i, t, s) = IntentBalance(j, t, s)
    OBVIOUS
  <2>1. \A kind : EffectOf(i, s, kind, t) = EffectOf(j, s, kind, t)
    BY DEF EffectOf
  <2>2. OfferBalance(i.utxos[s], t) = OfferBalance(j.utxos[s], t)
    OBVIOUS
  <2>3. /\ EffectOf(i, s, "shieldedMints", t) = EffectOf(j, s, "shieldedMints", t)
        /\ EffectOf(i, s, "mints", t) = EffectOf(j, s, "mints", t)
        /\ EffectOf(i, s, "outputs", t) = EffectOf(j, s, "outputs", t)
        /\ EffectOf(i, s, "inputs", t) = EffectOf(j, s, "inputs", t)
    BY <2>1
  <2> QED BY <2>2, <2>3 DEF IntentBalance
<1>2. ASSUME NEW t \in TokenTypes, NEW s \in Segments
      PROVE  Whole(Holdings(new, t, s)) /\ SumFunction(Holdings(new, t, s)) = SumFunction(Holdings(tx, t, s))
  <2> DEFINE f == Holdings(new, t, s)
             a == Holdings(tx, t, s)
             rest == DOMAIN new.intents \ DOMAIN tx.intents
             b == [i \in rest |-> 0]
  <2>1. DOMAIN f = DOMAIN new.intents /\ DOMAIN a = DOMAIN tx.intents /\ DOMAIN b = rest
    BY DEF Holdings
  <2>2. \A i \in DOMAIN a : f[i] = a[i] /\ a[i] \in Int
    <3>1. \A i \in DOMAIN tx.intents : IntentBalance(new.intents[i], t, s) = IntentBalance(tx.intents[i], t, s)
      BY <1>1
    <3>2. \A i \in DOMAIN a : a[i] \in Int
      BY DEF Valued, Whole
    <3> QED BY <3>1, <3>2, <2>1 DEF Holdings
  <2>3. \A i \in rest : f[i] = 0 /\ b[i] = 0
    BY DEF Holdings, Empty
  <2>4. IsFiniteSet(DOMAIN a) /\ IsFiniteSet(rest)
    BY <2>1, FS_Subset DEF Valued
  <2> HIDE DEF f, a, b
  <2>5. Whole(a) /\ Whole(b) /\ Whole(f)
    BY <2>1, <2>2, <2>3 DEF Whole
  <2>6. SideBySide(f, a, b)
    BY <2>1, <2>2, <2>3 DEF SideBySide
  <2> HIDE DEF rest
  <2>7. SumFunction(f) = SumFunction(a) + SumFunction(b)
    BY <2>1, <2>4, <2>5, <2>6, SumSideBySide
  <2>8. SumFunction(b) = 0
    BY <2>1, <2>3, <2>4, SumsAre
  <2>9. SumFunction(a) \in Int
    BY <2>4, <2>5, SumsAre
  <2>10. SumFunction(f) = SumFunction(a)
    BY <2>7, <2>8, <2>9
  <2> QED BY <2>5, <2>10 DEF f, a
<1>3. Valued(new)
  BY <1>2 DEF Valued
<1>4. ASSUME NEW t \in TokenTypes, NEW s \in Segments PROVE Balance(new, t, s) = Balance(tx, t, s)
  BY <1>2, <1>3, BalanceIs
<1> QED
  BY <1>3, <1>4

\* That a transaction holds what two others do.
Unites(tx, a, b) ==
  /\ DOMAIN a.intents \cap DOMAIN b.intents = {} /\ DOMAIN tx.intents = DOMAIN a.intents \cup DOMAIN b.intents
  /\ \A s \in DOMAIN a.intents : tx.intents[s] = a.intents[s]
  /\ \A s \in DOMAIN b.intents : tx.intents[s] = b.intents[s]
  /\ \A s \in Segments : /\ tx.offers[s].inputs = Joined(a.offers[s].inputs, b.offers[s].inputs)
                         /\ tx.offers[s].outputs = Joined(a.offers[s].outputs, b.offers[s].outputs)

(* Merged transactions have the balances of both. *)
LEMMA MergedBalance ==
    ASSUME NEW a, NEW b, NEW tx, Valued(a), Valued(b), Unites(tx, a, b)
    PROVE  Valued(tx) /\ \A t \in TokenTypes, s \in Segments : Balance(tx, t, s) = Balance(a, t, s) + Balance(b, t, s)
<1>1. IsFiniteSet(DOMAIN tx.intents)
  <2>1. IsFiniteSet(DOMAIN a.intents) /\ IsFiniteSet(DOMAIN b.intents)
    BY DEF Valued
  <2>2. IsFiniteSet(DOMAIN a.intents \cup DOMAIN b.intents)
    BY <2>1, FS_Union
  <2> QED BY <2>2 DEF Unites
<1>2. ASSUME NEW s \in Segments
      PROVE  /\ Worth(tx.offers[s].inputs) /\ Worth(tx.offers[s].outputs)
             /\ \A t \in TokenTypes : OfferBalance(tx.offers[s], t) = OfferBalance(a.offers[s], t) + OfferBalance(b.offers[s], t)
  <2>1. /\ Worth(a.offers[s].inputs) /\ Worth(a.offers[s].outputs)
        /\ Worth(b.offers[s].inputs) /\ Worth(b.offers[s].outputs)
    BY DEF Valued
  <2>2. /\ Worth(tx.offers[s].inputs)
        /\ \A t : ValueOf(tx.offers[s].inputs, t) = ValueOf(a.offers[s].inputs, t) + ValueOf(b.offers[s].inputs, t)
    BY <2>1, ValueOfJoined DEF Unites
  <2>3. /\ Worth(tx.offers[s].outputs)
        /\ \A t : ValueOf(tx.offers[s].outputs, t) = ValueOf(a.offers[s].outputs, t) + ValueOf(b.offers[s].outputs, t)
    BY <2>1, ValueOfJoined DEF Unites
  <2>4. ASSUME NEW t PROVE OfferBalance(tx.offers[s], t) = OfferBalance(a.offers[s], t) + OfferBalance(b.offers[s], t)
    <3> DEFINE p == ValueOf(a.offers[s].inputs, t)
               q == ValueOf(b.offers[s].inputs, t)
               m == ValueOf(a.offers[s].outputs, t)
               n == ValueOf(b.offers[s].outputs, t)
    <3>1. p \in Nat /\ q \in Nat /\ m \in Nat /\ n \in Nat
      BY <2>1, ValueOfIs
    <3>2. /\ OfferBalance(tx.offers[s], t) = (p + q) - (m + n)
          /\ OfferBalance(a.offers[s], t) = p - m /\ OfferBalance(b.offers[s], t) = q - n
      BY <2>2, <2>3 DEF OfferBalance
    <3> HIDE DEF p, q, m, n
    <3> QED BY <3>1, <3>2
  <2> QED BY <2>2, <2>3, <2>4
<1>3. ASSUME NEW t \in TokenTypes, NEW s \in Segments
      PROVE  /\ Whole(Holdings(tx, t, s))
             /\ SumFunction(Holdings(tx, t, s)) = SumFunction(Holdings(a, t, s)) + SumFunction(Holdings(b, t, s))
  <2> DEFINE f == Holdings(tx, t, s)
             g == Holdings(a, t, s)
             h == Holdings(b, t, s)
  <2>1. DOMAIN f = DOMAIN tx.intents /\ DOMAIN g = DOMAIN a.intents /\ DOMAIN h = DOMAIN b.intents
    BY DEF Holdings
  <2>2. IsFiniteSet(DOMAIN g) /\ IsFiniteSet(DOMAIN h) /\ Whole(g) /\ Whole(h)
    BY <2>1 DEF Valued
  <2>3. (\A i \in DOMAIN g : f[i] = g[i]) /\ (\A i \in DOMAIN h : f[i] = h[i])
    BY <2>1 DEF Holdings, Unites
  <2> HIDE DEF f, g, h
  <2>4. SideBySide(f, g, h)
    BY <2>1, <2>3 DEF SideBySide, Unites
  <2>5. SumFunction(f) = SumFunction(g) + SumFunction(h)
    BY <2>2, <2>4, SumSideBySide
  <2>6. Whole(f)
    BY <2>2, <2>4 DEF SideBySide, Whole
  <2> QED BY <2>5, <2>6 DEF f, g, h
<1>4. Valued(tx)
  BY <1>1, <1>2, <1>3 DEF Valued
<1>5. ASSUME NEW t \in TokenTypes, NEW s \in Segments PROVE Balance(tx, t, s) = Balance(a, t, s) + Balance(b, t, s)
  <2> DEFINE x == OfferBalance(a.offers[s], t)
             y == OfferBalance(b.offers[s], t)
             p == SumFunction(Holdings(a, t, s))
             q == SumFunction(Holdings(b, t, s))
  <2>1. Balance(tx, t, s) = (IF t \in Shielded THEN x + y ELSE 0) + (p + q)
    <3>1. OfferBalance(tx.offers[s], t) = x + y
      BY <1>2
    <3>2. SumFunction(Holdings(tx, t, s)) = p + q
      BY <1>3
    <3> HIDE DEF x, y, p, q
    <3> QED BY <1>4, <3>1, <3>2, BalanceIs
  <2>2. Balance(a, t, s) = (IF t \in Shielded THEN x ELSE 0) + p /\ x \in Int /\ p \in Int
    BY BalanceIs
  <2>3. Balance(b, t, s) = (IF t \in Shielded THEN y ELSE 0) + q /\ y \in Int /\ q \in Int
    BY BalanceIs
  <2> HIDE DEF x, y, p, q
  <2> QED BY <2>1, <2>2, <2>3
<1> QED
  BY <1>4, <1>5

(* An intent without actions or UTXOs holds nothing. *)
LEMMA EmptyHolds ==
    ASSUME NEW i, i.actions = <<>>,
           \A s \in Segments : i.utxos[s].inputs = <<>> /\ i.utxos[s].outputs = <<>>
    PROVE  Empty(i)
<1> SUFFICES ASSUME NEW t \in TokenTypes, NEW s \in Segments PROVE IntentBalance(i, t, s) = 0
  BY DEF Empty
<1>1. ASSUME NEW kind PROVE EffectOf(i, s, kind, t) = 0
  <2> DEFINE acts == i.actions
             f == [n \in DOMAIN acts |-> ValueOf(acts[n].effects[s][kind], t)]
  <2>1. EffectOf(i, s, kind, t) = SumFunction(f)
    BY DEF EffectOf
  <2>2. DOMAIN f = {}
    BY NothingIsSeq
  <2> HIDE DEF f
  <2>3. SumFunction(f) = 0
    BY <2>2, FS_EmptySet, SumsAre
  <2> QED BY <2>1, <2>3
<1>2. OfferBalance(i.utxos[s], t) = 0
  BY ValueOfNone DEF OfferBalance
<1> QED
  BY <1>1, <1>2 DEF IntentBalance

\* That a transaction leaves over this much of each token, in the guaranteed segment.
Leaves(tx, left) ==
  Valued(tx) /\ \A t \in TokenTypes, s \in Segments : Balance(tx, t, s) = IF s = Guaranteed THEN left[t] ELSE 0

NothingLeft == [t \in TokenTypes |-> 0]
Difference(give, given, take, taken) ==
  [t \in TokenTypes |-> (IF give = t THEN given ELSE 0) - (IF take = t THEN taken ELSE 0)]

(* It does so as long as its balances are kept. *)
LEMMA KeepsLeaves == \A new, tx, left : Keeps(new, tx) /\ Leaves(tx, left) => Leaves(new, left)
  BY DEF Keeps, Leaves

(* What is given and taken alike leaves nothing. *)
LEMMA DifferenceIs ==
    ASSUME NEW token, NEW value \in Nat
    PROVE  \A t \in TokenTypes : Difference(token, value, token, value)[t] = 0
  BY DEF Difference

(* Coins that cover an amount, against a payment and the change. *)
LEMMA SpendAndChange ==
    ASSUME NEW xs, Worth(xs), NEW token, \A n \in DOMAIN xs : xs[n].token = token, NEW amount \in Nat, Value(xs) >= amount,
           NEW payment, payment.value \in Nat, NEW view, NEW change, change = Value(xs) - amount,
           NEW o, o.inputs = xs, o.outputs = Joined(<<payment>>, ChangeTo(view, token, change))
    PROVE  /\ Worth(o.outputs)
           /\ \A t \in TokenTypes : OfferBalance(o, t) = Difference(token, amount, payment.token, payment.value)[t]
<1> DEFINE one == <<payment>>
           rest == ChangeTo(view, token, change)
<1>1. Value(xs) \in Nat /\ change \in Nat
  <2>1. Value(xs) \in Nat
    BY ValueIsNat
  <2> QED BY <2>1
<1>2. Worth(one) /\ \A t : ValueOf(one, t) = IF payment.token = t THEN payment.value ELSE 0
  BY ValueOfOne
<1>3. Worth(rest) /\ \A t : ValueOf(rest, t) = IF token = t THEN change ELSE 0
  <2>1. CASE change > 0
    <3> DEFINE coin == Payment(token, change, view.wallet)
    <3>1. rest = <<coin>>
      BY <2>1 DEF ChangeTo
    <3>2. coin.value = change /\ coin.token = token
      BY DEF Payment
    <3> HIDE DEF coin
    <3> QED BY <1>1, <3>1, <3>2, ValueOfOne
  <2>2. CASE ~(change > 0)
    <3>1. rest = <<>> /\ change = 0
      BY <1>1, <2>2 DEF ChangeTo
    <3>2. Worth(<<>>)
      BY NothingIsSeq
    <3> QED BY <3>1, <3>2, ValueOfNone
  <2> QED BY <2>1, <2>2
<1>4. o.outputs = Joined(one, rest)
  OBVIOUS
<1> HIDE DEF one, rest
<1>5. Worth(o.outputs) /\ \A t : ValueOf(o.outputs, t) = ValueOf(one, t) + ValueOf(rest, t)
  BY <1>2, <1>3, <1>4, ValueOfJoined
<1>6. ASSUME NEW t \in TokenTypes
      PROVE  OfferBalance(o, t) = (IF token = t THEN amount ELSE 0) - (IF payment.token = t THEN payment.value ELSE 0)
  <2>1. ValueOf(xs, t) = IF t = token THEN Value(xs) ELSE 0
    BY ValueOfAlike
  <2>2. OfferBalance(o, t) = ValueOf(xs, t) - (ValueOf(one, t) + ValueOf(rest, t))
    BY <1>5 DEF OfferBalance
  <2>3. /\ ValueOf(one, t) = IF payment.token = t THEN payment.value ELSE 0
        /\ ValueOf(rest, t) = IF token = t THEN change ELSE 0
    BY <1>2, <1>3
  <2> QED BY <1>1, <2>1, <2>2, <2>3
<1> QED
  BY <1>5, <1>6 DEF Difference

(* What a plan leaves over that is an offer and nothing else. *)
LEMMA OfferLeaves ==
    ASSUME NEW plan, NEW o, plan.offers = GuaranteedOffer(o), plan.intents = NoIntents, Worth(o.inputs), Worth(o.outputs),
           NEW left, \A t \in TokenTypes : left[t] = IF t \in Shielded THEN OfferBalance(o, t) ELSE 0
    PROVE  Leaves(plan, left)
<1>1. /\ plan.offers[Guaranteed] = o /\ plan.offers[IntentSegment] = NoOffer
      /\ NoOffer.inputs = <<>> /\ NoOffer.outputs = <<>> /\ Guaranteed # IntentSegment
  BY DEF GuaranteedOffer, Segments, Guaranteed, IntentSegment, NoOffer
<1>2. \A s \in Segments : s = Guaranteed \/ s = IntentSegment
  BY DEF Segments
<1>3. DOMAIN plan.intents = {}
  BY DEF NoIntents
<1>4. ASSUME NEW t, NEW s PROVE Whole(Holdings(plan, t, s)) /\ SumFunction(Holdings(plan, t, s)) = 0
  <2> DEFINE f == Holdings(plan, t, s)
  <2>1. DOMAIN f = {}
    BY <1>3 DEF Holdings
  <2> HIDE DEF f
  <2>2. SumFunction(f) = 0 /\ Whole(f)
    BY <2>1, FS_EmptySet, SumsAre DEF Whole
  <2> QED BY <2>2 DEF f
<1>5. Valued(plan)
  BY <1>1, <1>2, <1>3, <1>4, NothingIsSeq, FS_EmptySet DEF Valued
<1>6. ASSUME NEW t \in TokenTypes, NEW s \in Segments PROVE Balance(plan, t, s) = IF s = Guaranteed THEN left[t] ELSE 0
  <2>1. /\ Balance(plan, t, s) = (IF t \in Shielded THEN OfferBalance(plan.offers[s], t) ELSE 0) + SumFunction(Holdings(plan, t, s))
        /\ OfferBalance(plan.offers[s], t) \in Int
    BY <1>5, BalanceIs
  <2>2. OfferBalance(NoOffer, t) = 0
    BY <1>1, ValueOfNone DEF OfferBalance
  <2>3. SumFunction(Holdings(plan, t, s)) = 0
    BY <1>4
  <2> QED BY <1>1, <1>2, <2>1, <2>2, <2>3
<1> QED
  BY <1>5, <1>6 DEF Leaves

(* And of one that is an intent and nothing else. *)
LEMMA IntentLeaves ==
    ASSUME NEW plan, NEW i, plan.offers = NoOffers, DOMAIN plan.intents = {IntentSegment}, plan.intents[IntentSegment] = i,
           NEW left, \A t \in TokenTypes : left[t] \in Int,
           \A t \in TokenTypes, s \in Segments : IntentBalance(i, t, s) = IF s = Guaranteed THEN left[t] ELSE 0
    PROVE  Leaves(plan, left)
<1>1. \A s \in Segments : plan.offers[s] = NoOffer
  BY DEF NoOffers
<1>2. NoOffer.inputs = <<>> /\ NoOffer.outputs = <<>>
  BY DEF NoOffer
<1>3. ASSUME NEW t \in TokenTypes, NEW s \in Segments
      PROVE  /\ Whole(Holdings(plan, t, s))
             /\ SumFunction(Holdings(plan, t, s)) = IF s = Guaranteed THEN left[t] ELSE 0
  <2> DEFINE f == Holdings(plan, t, s)
             x == IntentSegment
  <2>1. DOMAIN f = {x} /\ f[x] = IF s = Guaranteed THEN left[t] ELSE 0
    BY DEF Holdings
  <2>2. f[x] \in Int
    BY <2>1
  <2> HIDE DEF f, x
  <2>3. SumFunction(f) = f[x] /\ Whole(f)
    BY <2>1, <2>2, SumOfOne DEF Whole
  <2> QED BY <2>1, <2>3 DEF f
<1>4. IsFiniteSet(DOMAIN plan.intents)
  BY FS_Singleton
<1>5. Valued(plan)
  BY <1>1, <1>2, <1>3, <1>4, NothingIsSeq DEF Valued
<1>6. ASSUME NEW t \in TokenTypes, NEW s \in Segments PROVE Balance(plan, t, s) = IF s = Guaranteed THEN left[t] ELSE 0
  <2>1. /\ Balance(plan, t, s) = (IF t \in Shielded THEN OfferBalance(plan.offers[s], t) ELSE 0) + SumFunction(Holdings(plan, t, s))
    BY <1>5, BalanceIs
  <2>2. OfferBalance(plan.offers[s], t) = 0
    BY <1>1, <1>2, ValueOfNone DEF OfferBalance
  <2> QED BY <1>3, <2>1, <2>2
<1> QED
  BY <1>5, <1>6 DEF Leaves

(* Actions that have no effect, *)
LEMMA NoEffect ==
    ASSUME NEW i, IsSeq(i.actions),
           \A n \in DOMAIN i.actions : \A s \in Segments : i.actions[n].effects[s] = NoEffects
    PROVE  \A s \in Segments, kind \in {"shieldedMints", "mints", "outputs", "inputs"} : \A t : EffectOf(i, s, kind, t) = 0
<1> SUFFICES ASSUME NEW s \in Segments, NEW kind \in {"shieldedMints", "mints", "outputs", "inputs"}, NEW t
             PROVE  EffectOf(i, s, kind, t) = 0
  OBVIOUS
<1> DEFINE acts == i.actions
           f == [n \in DOMAIN acts |-> ValueOf(acts[n].effects[s][kind], t)]
<1>1. EffectOf(i, s, kind, t) = SumFunction(f)
  BY DEF EffectOf
<1>2. \A n \in DOMAIN acts : acts[n].effects[s][kind] = <<>>
  <2>1. NoEffects[kind] = <<>>
    BY DEF NoEffects
  <2> QED BY <2>1
<1>3. DOMAIN f = DOMAIN acts /\ \A n \in DOMAIN f : f[n] = 0
  BY <1>2, ValueOfNone
<1>4. IsFiniteSet(DOMAIN acts)
  <2>1. DOMAIN acts = 1..Len(acts) /\ Len(acts) \in Nat
    BY SeqIsSeq DEF IsSeq
  <2> QED BY <2>1, FS_Interval
<1> HIDE DEF f, acts
<1>5. SumFunction(f) = 0
  BY <1>3, <1>4, SumsAre
<1> QED
  BY <1>1, <1>5

(* and the intent that has them. *)
LEMMA EffectlessHolds ==
    ASSUME NEW i, IsSeq(i.actions),
           \A n \in DOMAIN i.actions : \A s \in Segments : i.actions[n].effects[s] = NoEffects,
           NEW t \in TokenTypes, NEW s \in Segments, OfferBalance(i.utxos[s], t) \in Int
    PROVE  IntentBalance(i, t, s) = IF t \in Shielded THEN 0 ELSE OfferBalance(i.utxos[s], t)
<1>1. /\ EffectOf(i, s, "shieldedMints", t) = 0 /\ EffectOf(i, s, "mints", t) = 0
      /\ EffectOf(i, s, "outputs", t) = 0 /\ EffectOf(i, s, "inputs", t) = 0
  BY NoEffect
<1> QED
  BY <1>1 DEF IntentBalance

(* What UTXOs in the guaranteed segment alone leave over. *)
LEMMA UtxosLeave ==
    ASSUME NEW plan, NEW u, Worth(u.inputs), Worth(u.outputs),
           NEW utxos, utxos = [s \in Segments |-> IF s = Guaranteed THEN u ELSE NoUtxos], NEW actions, IsSeq(actions),
           \A n \in DOMAIN actions : \A s \in Segments : actions[n].effects[s] = NoEffects,
           plan.offers = NoOffers, DOMAIN plan.intents = {IntentSegment},
           plan.intents[IntentSegment].utxos = utxos, plan.intents[IntentSegment].actions = actions,
           NEW left, \A t \in TokenTypes : left[t] = IF t \in Shielded THEN 0 ELSE OfferBalance(u, t)
    PROVE  Leaves(plan, left)
<1> DEFINE i == plan.intents[IntentSegment]
<1>1. utxos[Guaranteed] = u /\ utxos[IntentSegment] = NoUtxos /\ Guaranteed # IntentSegment
      /\ \A s \in Segments : s = Guaranteed \/ s = IntentSegment
  BY DEF Segments, Guaranteed, IntentSegment
<1>2. \A t : OfferBalance(NoUtxos, t) = 0
  BY ValueOfNone DEF OfferBalance, NoUtxos
<1>3. \A t : OfferBalance(u, t) \in Int
  <2>1. \A t : ValueOf(u.inputs, t) \in Nat /\ ValueOf(u.outputs, t) \in Nat
    BY ValueOfIs
  <2> QED BY <2>1 DEF OfferBalance
<1>4. ASSUME NEW t \in TokenTypes, NEW s \in Segments PROVE IntentBalance(i, t, s) = IF s = Guaranteed THEN left[t] ELSE 0
  <2>1. OfferBalance(i.utxos[s], t) = (IF s = Guaranteed THEN OfferBalance(u, t) ELSE 0) /\ OfferBalance(i.utxos[s], t) \in Int
    BY <1>1, <1>2, <1>3
  <2>2. IntentBalance(i, t, s) = IF t \in Shielded THEN 0 ELSE OfferBalance(i.utxos[s], t)
    BY <2>1, EffectlessHolds
  <2> QED BY <2>1, <2>2
<1>5. \A t \in TokenTypes : left[t] \in Int
  BY <1>3
<1> QED
  BY <1>4, <1>5, IntentLeaves

(***************************************************************************)
(* Selection                                                               *)
(***************************************************************************)
\* A sequence of some of the coins, each at most once.
DrawnFrom(s, xs) == IsSeq(s) /\ Distinct(s) /\ Range(s) \subseteq xs

(* The ids in a sequence. *)
LEMMA IdsInRange == \A s : Ids(s) = {x.id : x \in Range(s)}
  BY DEF Ids, Range

(* A sequence made from another, element by element, is as long. *)
LEMMA MapSeq ==
    ASSUME NEW s, IsSeq(s), NEW f, DOMAIN f = DOMAIN s, f = [n \in DOMAIN f |-> f[n]]
    PROVE  IsSeq(f) /\ Len(f) = Len(s)
<1>1. Len(s) \in Nat /\ DOMAIN s = 1..Len(s)
  BY SeqIsSeq DEF IsSeq
<1>2. f \in [1..Len(s) -> Range(f)]
  BY <1>1 DEF Range
<1>3. f \in Seq(Range(f))
  BY <1>1, <1>2
<1>4. Len(f) \in Nat /\ DOMAIN f = 1..Len(f)
  BY <1>3, SeqIsSeq
<1> QED
  BY <1>1, <1>3, <1>4 DEF IsSeq

(* A line of coins in order holds each once. *)
LEMMA OrderedIsDrawn ==
    ASSUME NEW xs, IsStock(xs), NEW strategy
    PROVE  DrawnFrom(Ordered(xs, strategy), xs) /\ Worth(Ordered(xs, strategy))
<1> DEFINE line == Ordered(xs, strategy)
<1>1. line \in Seq(xs) /\ IsInjective(line)
  BY OrderedLine
<1> HIDE DEF line
<1>2. IsSeq(line) /\ Range(line) \subseteq xs
  BY <1>1, SeqIsSeq
<1>3. \A n \in DOMAIN line : line[n] \in xs
  BY <1>2 DEF Range
<1>4. Distinct(line)
  BY <1>1, <1>3 DEF Distinct, IsInjective, IsStock
<1>5. Worth(line)
  BY <1>2, <1>3 DEF Worth, IsStock
<1> QED
  BY <1>2, <1>4, <1>5 DEF DrawnFrom, line

(* A part of a stock is one. *)
LEMMA PartOfStock ==
    ASSUME NEW xs, IsStock(xs), NEW ys \in SUBSET xs
    PROVE  IsStock(ys)
  BY FS_Subset DEF IsStock

(* The coins chosen to cover an amount are coins of that token, each once. *)
LEMMA CoverIsDrawn ==
    ASSUME NEW xs, IsStock(xs), NEW token, NEW amount, NEW strategy,
           NEW r, r = CoverValue(xs, token, amount, strategy), r.ok
    PROVE  DrawnFrom(r.chosen, {x \in xs : x.token = token})
<1> DEFINE ys == {x \in xs : x.token = token}
           line == Ordered(ys, strategy)
           k == Min(Enough(line, amount))
<1>1. IsStock(ys)
  BY PartOfStock
<1>2. DrawnFrom(line, ys)
  <2> HIDE DEF ys
  <2> QED BY <1>1, OrderedIsDrawn
<1>3. r = CoverFrom(line, amount)
  BY DEF CoverValue
<1> HIDE DEF ys, line
<1>4. Enough(line, amount) # {} /\ r.chosen = SubSeq(line, 1, k)
  <2>1. Enough(line, amount) # {}
    BY <1>3 DEF CoverFrom, Refused
  <2>2. r = Cover(SubSeq(line, 1, k), amount)
    BY <1>3, <2>1, Zenon DEF CoverFrom
  <2>3. \A s : Cover(s, amount).chosen = s
    BY DEF Cover
  <2> QED BY <2>1, <2>2, <2>3, Zenon
<1>5. k \in 0..Len(line)
  BY <1>2, <1>4, EnoughOf DEF DrawnFrom
<1>6. DrawnFrom(SubSeq(line, 1, k), ys)
  <2> HIDE DEF k
  <2> QED BY <1>2, <1>5, PrefixSeq DEF DrawnFrom
<1> QED
  BY <1>4, <1>6 DEF ys

(* They are worth the amount, and the change is what they are worth beyond it. *)
LEMMA CoverCovers ==
    ASSUME NEW xs, IsStock(xs), NEW token, NEW amount, NEW strategy,
           NEW r, r = CoverValue(xs, token, amount, strategy), r.ok
    PROVE  /\ Worth(r.chosen) /\ (\A n \in DOMAIN r.chosen : r.chosen[n].token = token)
           /\ Value(r.chosen) >= amount /\ r.change = Value(r.chosen) - amount
<1> DEFINE ys == {x \in xs : x.token = token}
           line == Ordered(ys, strategy)
           first == SubSeq(line, 1, Min(Enough(line, amount)))
<1>1. IsSeq(line)
  <2>1. IsStock(ys)
    BY PartOfStock
  <2> HIDE DEF ys
  <2> QED BY <2>1, OrderedIsDrawn DEF DrawnFrom
<1>2. r = CoverFrom(line, amount)
  BY DEF CoverValue
<1>3. DrawnFrom(r.chosen, ys)
  BY CoverIsDrawn
<1>4. Enough(line, amount) # {} /\ r.chosen = first /\ r.change = Value(first) - amount
  <2> HIDE DEF line, ys
  <2>1. Enough(line, amount) # {}
    BY <1>2 DEF CoverFrom, Refused
  <2>2. r = Cover(first, amount)
    BY <1>2, <2>1, Zenon DEF CoverFrom
  <2>3. \A s : Cover(s, amount).chosen = s /\ Cover(s, amount).change = Value(s) - amount
    BY DEF Cover
  <2> HIDE DEF first
  <2> QED BY <2>1, <2>2, <2>3
<1>5. Value(first) >= amount
  <2> HIDE DEF ys, line
  <2> QED BY <1>1, <1>4, EnoughOf
<1> HIDE DEF first
<1>6. \A n \in DOMAIN r.chosen : r.chosen[n] \in ys
  BY <1>3 DEF DrawnFrom, Range
<1>7. \A n \in DOMAIN r.chosen : r.chosen[n].value \in Nat /\ r.chosen[n].token = token
  BY <1>6 DEF IsStock
<1> QED
  BY <1>3, <1>4, <1>5, <1>7 DEF DrawnFrom, Worth

(* The coins that are spent by name are the wallet's, each once. *)
LEMMA NamedInputs ==
    ASSUME NEW view, IsStock(view.coins), NEW names, IsSeq(names),
           NEW r, r = PrepareShieldedInputs(view, names), r.ok
    PROVE  DrawnFrom(r.inputs, view.coins) /\ Ids(r.inputs) = Range(names)
<1> DEFINE Named(n) == CHOOSE c \in view.coins : c.id = names[n]
           inputs == [n \in DOMAIN names |-> Named(n)]
<1>1. IsInjective(names) /\ Range(names) \subseteq {c.id : c \in view.coins} /\ r.inputs = inputs
  BY DEF PrepareShieldedInputs, Refused
<1>2. \A n \in DOMAIN names : Named(n) \in view.coins /\ Named(n).id = names[n]
  BY <1>1 DEF Range
<1> HIDE DEF Named
<1>3. DOMAIN inputs = DOMAIN names /\ inputs = [n \in DOMAIN inputs |-> inputs[n]]
  OBVIOUS
<1>4. \A n \in DOMAIN names : inputs[n] \in view.coins /\ inputs[n].id = names[n]
  BY <1>2
<1> HIDE DEF inputs
<1>5. IsSeq(inputs)
  BY <1>3, MapSeq
<1>6. Distinct(inputs)
  BY <1>1, <1>3, <1>4 DEF Distinct, IsInjective
<1>7. Range(inputs) \subseteq view.coins /\ Ids(inputs) = Range(names)
  BY <1>3, <1>4 DEF Range, Ids
<1> QED
  BY <1>1, <1>5, <1>6, <1>7 DEF DrawnFrom

(* Those that are named after coins are these coins. *)
LEMMA SpentAsNamed ==
    ASSUME NEW view, IsStock(view.coins), NEW chosen, DrawnFrom(chosen, view.coins),
           NEW names, names = [n \in DOMAIN chosen |-> chosen[n].id],
           NEW r, r = PrepareShieldedInputs(view, names), r.ok
    PROVE  r.inputs = chosen
<1> DEFINE Named(n) == CHOOSE c \in view.coins : c.id = names[n]
<1>1. r.inputs = [n \in DOMAIN names |-> Named(n)]
  BY DEF PrepareShieldedInputs, Refused
<1>2. chosen = [n \in DOMAIN chosen |-> chosen[n]]
  BY DEF DrawnFrom, IsSeq
<1>3. \A n \in DOMAIN chosen : chosen[n] \in view.coins
  BY DEF DrawnFrom, Range
<1>4. ASSUME NEW n \in DOMAIN chosen PROVE Named(n) = chosen[n]
  <2>1. Named(n) \in view.coins /\ Named(n).id = chosen[n].id
    BY <1>3
  <2> QED BY <1>3, <2>1 DEF IsStock
<1>5. DOMAIN names = DOMAIN chosen
  OBVIOUS
<1> HIDE DEF Named
<1> QED
  BY <1>1, <1>2, <1>4, <1>5

(* UTXOs that cover an amount, with their change. *)
LEMMA UnshieldedInputs ==
    ASSUME NEW view, IsStock(view.utxos), NEW token, NEW amount,
           NEW r, r = PrepareUnshieldedInputs(view, token, amount), r.ok
    PROVE  DrawnFrom(r.inputs, {x \in view.utxos : x.token = token}) /\ IsSeq(r.outputs)
<1> DEFINE cover == CoverValue(view.utxos, token, amount, "largest")
<1>1. r = IF cover.ok THEN [ok |-> TRUE, inputs |-> cover.chosen, outputs |-> ChangeTo(view, token, cover.change)] ELSE cover
  BY DEF PrepareUnshieldedInputs, IfOk
<1>2. cover.ok
  BY <1>1
<1>3. r.inputs = cover.chosen /\ r.outputs = ChangeTo(view, token, cover.change)
  BY <1>1, <1>2
<1>4. DrawnFrom(cover.chosen, {x \in view.utxos : x.token = token})
  BY <1>2, CoverIsDrawn
<1>5. IsSeq(ChangeTo(view, token, cover.change))
  BY OneIsSeq, NothingIsSeq DEF ChangeTo
<1> QED
  BY <1>3, <1>4, <1>5

(***************************************************************************)
(* Dust for a fee                                                          *)
(***************************************************************************)
\* The funding of a fee: nothing, or the Dust of one wallet.
IsFunding(funding, xs) == IsStock(xs) /\ (funding = <<>> \/ funding = <<xs>>)

(* The line of Dust that funding gives. *)
LEMMA FundingLineHolds ==
    ASSUME NEW funding, NEW xs, IsFunding(funding, xs)
    PROVE  DrawnFrom(FundingLine(funding), xs) /\ Worth(FundingLine(funding))
<1> DEFINE lines == [n \in DOMAIN funding |-> Ordered(funding[n], "largest")]
<1>1. \A n \in DOMAIN funding : n = 1 /\ funding[n] = xs
  BY NothingIsSeq, OneIsSeq DEF IsFunding
<1>2. IsSeq(funding)
  BY NothingIsSeq, OneIsSeq DEF IsFunding
<1>3. DOMAIN lines = DOMAIN funding /\ lines = [n \in DOMAIN lines |-> lines[n]]
  OBVIOUS
<1>4. ASSUME NEW n \in DOMAIN lines PROVE n = 1 /\ DrawnFrom(lines[n], xs) /\ Worth(lines[n])
  BY <1>1, OrderedIsDrawn DEF IsFunding
<1>5. FundingLine(funding) = FlattenSeq(lines)
  BY DEF FundingLine
<1> HIDE DEF lines
<1>6. IsSeq(lines)
  BY <1>2, <1>3, MapSeq
<1>7. AreSeqs(lines) /\ AreDistinct(lines)
  BY <1>4, <1>6 DEF AreSeqs, AreDistinct, DrawnFrom
<1>8. /\ IsSeq(FlattenSeq(lines)) /\ Distinct(FlattenSeq(lines))
      /\ Range(FlattenSeq(lines)) = UNION {Range(lines[n]) : n \in DOMAIN lines}
  BY <1>7, FlattenSeqHolds
<1>9. Range(FlattenSeq(lines)) \subseteq xs
  BY <1>4, <1>8 DEF DrawnFrom
<1>10. Worth(FlattenSeq(lines))
  BY <1>8, <1>9 DEF Worth, IsFunding, IsStock, Range
<1> QED
  BY <1>5, <1>8, <1>9, <1>10 DEF DrawnFrom

(* What is drawn for a fee is Dust of the line, each once, and no less than nothing. *)
LEMMA GatherFromHolds ==
    ASSUME NEW line, NEW xs, DrawnFrom(line, xs), Worth(line), NEW request \in Nat,
           NEW r, r = GatherFrom(line, request), r.ok
    PROVE  Worth(r.spends) /\ Distinct(r.spends) /\ Ids(r.spends) \subseteq IdsIn(xs)
<1> DEFINE k == Min(Enough(line, request))
           Part(n) == Min({line[n].value, request - Value(SubSeq(line, 1, n - 1))})
           spends == [n \in 1..k |-> [id |-> line[n].id, value |-> Part(n)]]
<1>1. Enough(line, request) # {} /\ r.spends = spends
  BY DEF GatherFrom, Refused, SpeculativeSpend
<1>2. /\ k \in 0..Len(line) /\ Len(line) \in Nat
      /\ \A n \in 0..Len(line) : n < k => ~(Value(SubSeq(line, 1, n)) >= request)
  BY <1>1, EnoughOf DEF DrawnFrom
<1>3. DOMAIN line = 1..Len(line)
  BY SeqIsSeq DEF DrawnFrom, IsSeq
<1>4. ASSUME NEW n \in 1..k PROVE Part(n) \in Nat
  <2> DEFINE before == Value(SubSeq(line, 1, n - 1))
  <2>1. n - 1 \in 0..Len(line) /\ n - 1 < k /\ n \in DOMAIN line
    <3> HIDE DEF k
    <3> QED BY <1>2, <1>3
  <2>2. Worth(SubSeq(line, 1, n - 1))
    BY <2>1, PrefixSeq DEF Worth
  <2>3. before \in Nat /\ ~(before >= request)
    BY <1>2, <2>1, <2>2, ValueIsNat
  <2>4. line[n].value \in Nat
    BY <2>1 DEF Worth
  <2> HIDE DEF before
  <2>5. request - before \in Nat
    BY <2>3
  <2>6. Min({line[n].value, request - before}) \in {line[n].value, request - before}
    <3>1. \A a, b \in Nat : Min({a, b}) \in {a, b}
      BY MaxOf
    <3> QED BY <2>4, <2>5, <3>1
  <2> QED BY <2>4, <2>5, <2>6 DEF before
<1> HIDE DEF Part, k
<1>5. DOMAIN spends = 1..k /\ k \in Nat /\ \A n \in 1..k : n \in DOMAIN line
  BY <1>2, <1>3
<1>6. \A n \in 1..k : spends[n].id = line[n].id /\ spends[n].value \in Nat
  BY <1>4
<1>7. spends \in Seq(Range(spends))
  <2>1. spends = [n \in 1..k |-> spends[n]]
    OBVIOUS
  <2> HIDE DEF spends
  <2>2. spends \in [1..k -> Range(spends)]
    BY <1>5, <2>1 DEF Range
  <2> QED BY <2>2, <1>5
<1> HIDE DEF spends
<1>8. Worth(spends) /\ Distinct(spends)
  BY <1>5, <1>6, <1>7 DEF Worth, Distinct, IsSeq, DrawnFrom
<1>9. Ids(spends) \subseteq IdsIn(xs)
  BY <1>5, <1>6 DEF Ids, IdsIn, DrawnFrom, Range
<1> QED
  BY <1>1, <1>8, <1>9

(* What funding gives for the fee is Dust of the wallet, each spent once. *)
LEMMA GatherHolds ==
    ASSUME NEW funding, NEW xs, IsFunding(funding, xs), NEW request \in Nat,
           NEW r, r = GatherDustSpends(funding, request), r.ok
    PROVE  Worth(r.spends) /\ Distinct(r.spends) /\ Ids(r.spends) \subseteq IdsIn(xs)
  BY FundingLineHolds, GatherFromHolds DEF GatherDustSpends

(***************************************************************************)
(* A transaction with Dust in it                                           *)
(***************************************************************************)
(* A transaction that differs from another by what it spends at one place. *)
LEMMA OnePlaceMore ==
    ASSUME NEW tx, NEW new, NEW place \in Places(new), NEW xs, InputsAt(new, place) = xs, Distinct(xs),
           \A p \in Places(new) : p # place =>
             \/ p \in Places(tx) /\ InputsAt(new, p) = InputsAt(tx, p)
             \/ Ids(InputsAt(new, p)) = {} /\ Distinct(InputsAt(new, p)),
           \A p \in Places(tx) : \/ Ids(InputsAt(tx, p)) = {}
                                 \/ p \in Places(new) /\ p # place /\ InputsAt(new, p) = InputsAt(tx, p)
    PROVE  /\ InputIds(new) = InputIds(tx) \cup Ids(xs)
           /\ SpendsOnce(tx) /\ Ids(xs) \cap InputIds(tx) = {} => SpendsOnce(new)
<1>1. ASSUME NEW x \in InputIds(new) PROVE x \in InputIds(tx) \cup Ids(xs)
  <2>1. PICK p \in Places(new) : x \in Ids(InputsAt(new, p))
    BY IdsOfPlaces
  <2> QED BY <2>1, IdsOfPlaces
<1>2. ASSUME NEW x \in InputIds(tx) PROVE x \in InputIds(new)
  <2>1. PICK p \in Places(tx) : x \in Ids(InputsAt(tx, p))
    BY IdsOfPlaces
  <2> QED BY <2>1, IdsOfPlaces
<1>3. Ids(xs) \subseteq InputIds(new)
  BY IdsOfPlaces
<1>4. ASSUME SpendsOnce(tx), Ids(xs) \cap InputIds(tx) = {} PROVE SpendsOnce(new)
  <2>1. \A p \in Places(tx) : Distinct(InputsAt(tx, p)) /\ Ids(InputsAt(tx, p)) \subseteq InputIds(tx)
    BY <1>4, OnceMeans, IdsOfPlaces
  <2>2. \A p \in Places(new) : Distinct(InputsAt(new, p))
    BY <2>1
  <2>3. ASSUME NEW p \in Places(new), NEW q \in Places(new), p # q, NEW x,
               x \in Ids(InputsAt(new, p)), x \in Ids(InputsAt(new, q))
        PROVE  FALSE
    <3>1. p # place => p \in Places(tx) /\ x \in Ids(InputsAt(tx, p))
      BY <2>3
    <3>2. q # place => q \in Places(tx) /\ x \in Ids(InputsAt(tx, q))
      BY <2>3
    <3>3. p = place => x \in Ids(xs)
      BY <2>3
    <3>4. q = place => x \in Ids(xs)
      BY <2>3
    <3>5. CASE p # place /\ q # place
      BY <2>3, <3>1, <3>2, <3>5, <1>4, OnceMeans
    <3> QED BY <2>1, <2>3, <3>1, <3>2, <3>3, <3>4, <3>5, <1>4
  <2> QED BY <2>2, <2>3, OnceMeans
<1> QED
  BY <1>1, <1>2, <1>3, <1>4

\* An intent takes its place in a transaction.
IsPut(tx, s, i, new) ==
  new = Transaction(tx.offers, [t \in DOMAIN tx.intents \cup {s} |-> IF t = s THEN i ELSE tx.intents[t]])

PutThere(tx, s, i, new) ==
  /\ new.offers = tx.offers /\ DOMAIN new.intents = DOMAIN tx.intents \cup {s} /\ new.intents[s] = i
  /\ \A t \in DOMAIN tx.intents : t # s => new.intents[t] = tx.intents[t]

(* An intent put in a transaction is there, and the others are as they were. *)
LEMMA PutIs ==
    ASSUME NEW tx, Shaped(tx), NEW s, NEW i, SeqIntent(i), NEW new, IsPut(tx, s, i, new)
    PROVE  Shaped(new) /\ PutThere(tx, s, i, new)
<1>1. PutThere(tx, s, i, new) /\ new = [offers |-> new.offers, intents |-> new.intents] /\ IsFun(new.intents)
  BY DEF IsPut, Transaction, PutThere, IsFun
<1>2. IsFiniteSet(DOMAIN tx.intents \cup {s})
  BY FS_AddElement DEF Shaped
<1>3. \A t \in DOMAIN new.intents : SeqIntent(new.intents[t])
  BY <1>1 DEF Shaped, PutThere
<1> QED
  BY <1>1, <1>2, <1>3 DEF Shaped, PutThere

\* What an intent spends outside its Dust.
SameUtxos(i, j) == i.utxos[Guaranteed].inputs = j.utxos[Guaranteed].inputs /\ i.utxos[IntentSegment].inputs = j.utxos[IntentSegment].inputs
NoUtxosIn(i)    == i.utxos[Guaranteed].inputs = <<>> /\ i.utxos[IntentSegment].inputs = <<>>

OnlyDust(tx, s, i) ==
  IF s \in DOMAIN tx.intents THEN SameUtxos(i, tx.intents[s]) /\ tx.intents[s].dust.spends = <<>> ELSE NoUtxosIn(i)

(* An intent put in its place with Dust in it spends just that Dust more. *)
LEMMA PutSpends ==
    ASSUME NEW tx, Shaped(tx), NEW s, NEW i, SeqIntent(i), NEW new, IsPut(tx, s, i, new),
           OnlyDust(tx, s, i), Distinct(i.dust.spends)
    PROVE  /\ InputIds(new) = InputIds(tx) \cup Ids(i.dust.spends)
           /\ SpendsOnce(tx) /\ Ids(i.dust.spends) \cap InputIds(tx) = {} => SpendsOnce(new)
<1> DEFINE place == <<"dust", s>>
<1>1. /\ new.offers = tx.offers /\ DOMAIN new.intents = DOMAIN tx.intents \cup {s} /\ new.intents[s] = i
      /\ \A t \in DOMAIN tx.intents : t # s => new.intents[t] = tx.intents[t]
  BY PutIs DEF PutThere
<1>2. place \in Places(new) /\ InputsAt(new, place) = i.dust.spends
  BY <1>1 DEF Places, InputsAt
<1>3. ASSUME NEW p \in Places(new), p # place
      PROVE  \/ p \in Places(tx) /\ InputsAt(new, p) = InputsAt(tx, p)
             \/ Ids(InputsAt(new, p)) = {} /\ Distinct(InputsAt(new, p))
  <2>1. p = <<p[1], p[2]>>
    BY PlaceIs
  <2>2. CASE p[1] = "coins" /\ p[2] \in Segments
    <3>1. p \in Places(tx)
      BY <2>1, <2>2, PlacesThere
    <3> QED BY <2>2, <3>1, <1>1 DEF InputsAt
  <2>3. CASE p[1] \in IntentPlaces /\ p[2] \in DOMAIN tx.intents
    <3>1. p \in Places(tx)
      BY <2>1, <2>3, PlacesThere
    <3>2. p[2] = s => p[1] # "dust"
      BY <1>3, <2>1
    <3>3. p[1] = "guaranteed" \/ p[1] = "fallible" \/ p[1] = "dust"
      BY <2>3 DEF IntentPlaces
    <3>4. CASE p[2] = s
      BY <3>1, <3>2, <3>3, <3>4, <2>3, <1>1 DEF InputsAt, SameUtxos, OnlyDust
    <3>5. CASE p[2] # s
      BY <3>1, <3>3, <3>5, <2>3, <1>1 DEF InputsAt
    <3> QED BY <3>4, <3>5
  <2>4. CASE p[1] \in IntentPlaces /\ p[2] = s /\ s \notin DOMAIN tx.intents
    <3>1. p[1] = "guaranteed" \/ p[1] = "fallible"
      BY <1>3, <2>1, <2>4 DEF IntentPlaces
    <3>2. InputsAt(new, p) = <<>>
      BY <3>1, <2>4, <1>1 DEF InputsAt, NoUtxosIn, OnlyDust
    <3> QED BY <3>2, NothingIsSeq
  <2> QED BY <2>2, <2>3, <2>4, <1>1, PlaceIs
<1>4. ASSUME NEW p \in Places(tx)
      PROVE  \/ Ids(InputsAt(tx, p)) = {}
             \/ p \in Places(new) /\ p # place /\ InputsAt(new, p) = InputsAt(tx, p)
  <2>1. p = <<p[1], p[2]>>
    BY PlaceIs
  <2>2. CASE p[1] = "coins" /\ p[2] \in Segments
    <3>1. p \in Places(new) /\ p # place
      BY <2>1, <2>2, PlacesThere
    <3> QED BY <2>2, <3>1, <1>1 DEF InputsAt
  <2>3. CASE p[1] \in IntentPlaces /\ p[2] \in DOMAIN tx.intents
    <3>1. p[1] = "guaranteed" \/ p[1] = "fallible" \/ p[1] = "dust"
      BY <2>3 DEF IntentPlaces
    <3>2. p \in Places(new)
      BY <2>1, <2>3, <1>1, PlacesThere
    <3>3. CASE p[2] = s /\ p[1] = "dust"
      <4>1. InputsAt(tx, p) = <<>>
        BY <3>3, <2>3 DEF InputsAt, OnlyDust
      <4> QED BY <4>1, NothingIsSeq
    <3>4. CASE p[2] = s /\ p[1] # "dust"
      <4>1. p # place
        BY <3>4
      <4> QED BY <3>1, <3>2, <3>4, <4>1, <2>3, <1>1 DEF InputsAt, SameUtxos, OnlyDust
    <3>5. CASE p[2] # s
      <4>1. p # place
        BY <3>5
      <4> QED BY <3>1, <3>2, <3>5, <4>1, <2>3, <1>1 DEF InputsAt
    <3> QED BY <3>3, <3>4, <3>5
  <2> QED BY <2>2, <2>3, PlaceIs
<1> HIDE DEF place
<1> QED
  BY <1>2, <1>3, <1>4, OnePlaceMore

(***************************************************************************)
(* Signing                                                                 *)
(***************************************************************************)
\* The record of an intent.
Fields(ttl, utxos, actions, dust, binding, signed) ==
  [ttl |-> ttl, utxos |-> utxos, actions |-> actions, dust |-> dust, binding |-> binding, signed |-> signed]

(* The fields of an intent. *)
LEMMA FieldsAre ==
    ASSUME NEW a, NEW b, NEW c, NEW d, NEW e, NEW f, NEW i, i = Fields(a, b, c, d, e, f)
    PROVE  /\ i.ttl = a /\ i.utxos = b /\ i.actions = c /\ i.dust = d /\ i.binding = e /\ i.signed = f
           /\ i = Fields(i.ttl, i.utxos, i.actions, i.dust, i.binding, i.signed)
  BY DEF Fields

\* Two intents that differ only in their binding and signatures.
SameBody(i, j) == i.ttl = j.ttl /\ i.utxos = j.utxos /\ i.actions = j.actions /\ i.dust = j.dust

(* An intent with the body of another has lists where that one has. *)
LEMMA BodyIsSeq ==
    ASSUME NEW i, NEW j, SeqIntent(j), SameBody(i, j),
           i = Fields(i.ttl, i.utxos, i.actions, i.dust, i.binding, i.signed)
    PROVE  SeqIntent(i)
  BY DEF SeqIntent, SameBody, Fields

(* A signed intent has the body it had, and signatures that cover it. *)
LEMMA SignIs ==
    ASSUME NEW i, SeqIntent(i), NEW s
    PROVE  SeqIntent(Sign(i, s)) /\ SameBody(Sign(i, s), i) /\ SignedInFull(Sign(i, s), s)
<1> DEFINE j == Sign(i, s)
<1>1. i = Fields(i.ttl, i.utxos, i.actions, i.dust, i.binding, i.signed)
  BY DEF SeqIntent, Fields
<1>2. DataToSign(i, s) = Fields(i.ttl, i.utxos, i.actions, i.dust, i.binding, s)
  BY <1>1 DEF DataToSign, Fields
<1>3. j = Fields(i.ttl, i.utxos, i.actions, i.dust, i.binding, DataToSign(i, s))
  BY <1>1 DEF Sign, Fields
<1> HIDE DEF j
<1>4. SameBody(j, i) /\ j = Fields(j.ttl, j.utxos, j.actions, j.dust, j.binding, j.signed)
  BY <1>3, FieldsAre DEF SameBody
<1>5. SeqIntent(j)
  BY <1>4, BodyIsSeq
<1>6. j.signed = DataToSign(j, s)
  <2>1. DataToSign(j, s) = Fields(j.ttl, j.utxos, j.actions, j.dust, j.binding, s)
    BY <1>4 DEF DataToSign, Fields
  <2> QED BY <1>2, <1>3, <2>1, FieldsAre
<1> QED
  BY <1>4, <1>5, <1>6 DEF SignedInFull, j

(* The intent that only carries Dust. *)
LEMMA EmptyIntentIs ==
    ASSUME NEW ttl \in Nat
    PROVE  /\ SeqIntent(EmptyIntent(ttl)) /\ EmptyIntent(ttl).ttl = ttl /\ NoUtxosIn(EmptyIntent(ttl))
           /\ EmptyIntent(ttl).actions = <<>> /\ EmptyIntent(ttl).dust = NoDust
<1> DEFINE i == EmptyIntent(ttl)
           utxos == [s \in Segments |-> NoUtxos]
<1>1. i = Fields(ttl, utxos, <<>>, NoDust, "assembled", Unsigned)
  BY DEF EmptyIntent, Intent, Fields
<1>2. /\ utxos[Guaranteed] = NoUtxos /\ utxos[IntentSegment] = NoUtxos
  BY DEF Segments
<1>3. NoUtxos.inputs = <<>> /\ NoUtxos.outputs = <<>> /\ NoDust.spends = <<>> /\ NoDust.registrations = <<>>
      /\ NoDust = [spends |-> NoDust.spends, registrations |-> NoDust.registrations]
  BY DEF NoUtxos, NoDust
<1> HIDE DEF i, utxos
<1>4. /\ i.ttl = ttl /\ i.utxos = utxos /\ i.actions = <<>> /\ i.dust = NoDust
      /\ i = Fields(i.ttl, i.utxos, i.actions, i.dust, i.binding, i.signed)
  BY <1>1, FieldsAre
<1>5. NoUtxosIn(i)
  BY <1>2, <1>3, <1>4 DEF NoUtxosIn
<1>6. SeqIntent(i)
  BY <1>2, <1>3, <1>4, NothingIsSeq DEF SeqIntent, SeqUtxos, Fields
<1> QED
  BY <1>4, <1>5, <1>6 DEF i

(* An intent with Dust put in it. *)
WithDust(i, spends, registrations) == [i EXCEPT !.dust = [spends |-> spends, registrations |-> registrations]]

(* What Dust in an intent makes of it. *)
LEMMA WithDustIs ==
    ASSUME NEW i, SeqIntent(i), NEW spends, Worth(spends), NEW regs, Worth(regs),
           NEW j, j = WithDust(i, spends, regs)
    PROVE  /\ SeqIntent(j) /\ j.ttl = i.ttl /\ j.utxos = i.utxos /\ j.actions = i.actions
           /\ j.dust.spends = spends /\ j.dust.registrations = regs
<1> DEFINE dust == [spends |-> spends, registrations |-> regs]
<1>1. i = Fields(i.ttl, i.utxos, i.actions, i.dust, i.binding, i.signed)
  BY DEF SeqIntent, Fields
<1>2. j = Fields(i.ttl, i.utxos, i.actions, dust, i.binding, i.signed)
  BY <1>1 DEF WithDust, Fields
<1>3. dust.spends = spends /\ dust.registrations = regs
  OBVIOUS
<1>4. dust = [spends |-> dust.spends, registrations |-> dust.registrations]
  OBVIOUS
<1> HIDE DEF dust
<1>5. /\ j.ttl = i.ttl /\ j.utxos = i.utxos /\ j.actions = i.actions /\ j.dust = dust
      /\ j = Fields(j.ttl, j.utxos, j.actions, j.dust, j.binding, j.signed)
  BY <1>2, FieldsAre
<1>6. SeqIntent(j)
  BY <1>3, <1>4, <1>5 DEF SeqIntent, Fields
<1> QED
  BY <1>3, <1>5, <1>6

(***************************************************************************)
(* Balancing a fee                                                         *)
(***************************************************************************)
Times == Now + 1 .. Now + GlobalTtl

(* The TTLs the chain accepts are natural numbers. *)
LEMMA TimesAreNat == Now \in Nat => Times \subseteq Nat
  BY BalancingAssumption DEF Times

\* The transaction of a build as assembled: one intent at most, without Dust.
Bare(tx) == /\ DOMAIN tx.intents \subseteq {IntentSegment}
            /\ \A s \in DOMAIN tx.intents : tx.intents[s].dust.spends = <<>>

NoCalls(tx) == \A s \in DOMAIN tx.intents : ~ HasCall(tx.intents[s])

\* What a fee is balanced of, with Dust of xs alone.
IsFee(fee, xs) ==
  /\ \/ fee.how = "join" /\ Bare(fee.tx)
     \/ fee.how = "beside" /\ FreeSegments(fee.tx) # {}
  /\ Shaped(fee.tx) /\ Lands(fee.tx) /\ InputIds(fee.tx) \cap IdsIn(xs) = {}
  /\ IsFunding(fee.funding, xs) /\ fee.price \in Nat /\ fee.ttl \in Times /\ Now \in Nat
  /\ Worth(fee.registrations)

\* Dust that may pay it.
IsDraw(spends, xs) == Worth(spends) /\ Distinct(spends) /\ Ids(spends) \subseteq IdsIn(xs)

\* The transaction with that Dust: it spends the Dust more, and nothing else.
Carries(fee, spends, tx) ==
  /\ Shaped(tx) /\ Lands(tx) /\ InputIds(tx) = InputIds(fee.tx) \cup Ids(spends)
  /\ \A s \in DOMAIN fee.tx.intents : s \in DOMAIN tx.intents /\ tx.intents[s].ttl = fee.tx.intents[s].ttl
  /\ (fee.how = "join" => NoCalls(tx)) /\ Keeps(tx, fee.tx)

(* An intent that is to hold Dust alone holds no token. *)
LEMMA EmptyIntentHolds ==
    ASSUME NEW ttl, NEW i, i.utxos = EmptyIntent(ttl).utxos, i.actions = EmptyIntent(ttl).actions
    PROVE  Empty(i)
<1> DEFINE utxos == [s \in Segments |-> NoUtxos]
           actions == <<>>
<1>1. EmptyIntent(ttl) = Fields(ttl, utxos, actions, NoDust, "assembled", Unsigned)
  BY DEF EmptyIntent, Intent, Fields
<1>2. \A s \in Segments : utxos[s].inputs = <<>> /\ utxos[s].outputs = <<>>
  BY DEF NoUtxos
<1> HIDE DEF utxos, actions
<1>3. i.utxos = utxos /\ i.actions = actions
  BY <1>1, FieldsAre
<1>4. i.actions = <<>> /\ \A s \in Segments : i.utxos[s].inputs = <<>> /\ i.utxos[s].outputs = <<>>
  BY <1>2, <1>3 DEF actions
<1> QED
  BY <1>4, EmptyHolds

(* Dust joins the build's own intent. *)
LEMMA ApplyDustHolds ==
    ASSUME NEW fee, NEW xs, IsFee(fee, xs), NEW spends, IsDraw(spends, xs),
           fee.how = "join", NoCalls(fee.tx)
    PROVE  Carries(fee, spends, ApplyDust(fee.tx, spends, fee.registrations, fee.ttl))
<1> DEFINE tx == fee.tx
           own == IF IntentSegment \in DOMAIN tx.intents THEN tx.intents[IntentSegment] ELSE EmptyIntent(fee.ttl)
           paid == WithDust(own, spends, fee.registrations)
           i == Sign(paid, IntentSegment)
           new == Transaction(tx.offers, [s \in DOMAIN tx.intents \cup {IntentSegment} |->
                                            IF s = IntentSegment THEN Sign(paid, s) ELSE tx.intents[s]])
<1>1. /\ Shaped(tx) /\ Lands(tx) /\ Bare(tx) /\ fee.ttl \in Times /\ fee.ttl \in Nat /\ Worth(fee.registrations)
      /\ InputIds(tx) \cap Ids(spends) = {} /\ Worth(spends) /\ Distinct(spends)
  BY TimesAreNat DEF IsFee, IsDraw
<1>2. CASE spends = <<>> /\ fee.registrations = <<>>
  <2>1. ApplyDust(fee.tx, spends, fee.registrations, fee.ttl) = tx
    BY <1>2 DEF ApplyDust
  <2>2. Ids(spends) = {}
    BY <1>2, NothingIsSeq
  <2> QED BY <2>1, <2>2, <1>1, KeepsOn DEF Carries
<1>3. CASE ~(spends = <<>> /\ fee.registrations = <<>>)
  <2>1. ApplyDust(fee.tx, spends, fee.registrations, fee.ttl) = new
    BY <1>3 DEF ApplyDust, WithDust, SignOwn
  <2>2. /\ SeqIntent(own) /\ own.ttl \in Times
        /\ IF IntentSegment \in DOMAIN tx.intents
           THEN own = tx.intents[IntentSegment]
           ELSE NoUtxosIn(own) /\ own.actions = <<>> /\ own = EmptyIntent(fee.ttl)
    <3>1. CASE IntentSegment \in DOMAIN tx.intents
      BY <3>1, <1>1 DEF Shaped, Lands, Times
    <3>2. CASE IntentSegment \notin DOMAIN tx.intents
      BY <3>2, <1>1, EmptyIntentIs
    <3> QED BY <3>1, <3>2
  <2> HIDE DEF own
  <2>3. /\ SeqIntent(paid) /\ paid.ttl = own.ttl /\ paid.utxos = own.utxos /\ paid.actions = own.actions
        /\ paid.dust.spends = spends
    BY <1>1, <2>2, WithDustIs
  <2> HIDE DEF paid
  <2>4. SeqIntent(i) /\ SameBody(i, paid) /\ SignedInFull(i, IntentSegment)
    BY <2>3, SignIs
  <2>5. IsPut(tx, IntentSegment, i, new)
    <3>1. [s \in DOMAIN tx.intents \cup {IntentSegment} |-> IF s = IntentSegment THEN Sign(paid, s) ELSE tx.intents[s]]
          = [s \in DOMAIN tx.intents \cup {IntentSegment} |-> IF s = IntentSegment THEN i ELSE tx.intents[s]]
      OBVIOUS
    <3> HIDE DEF i
    <3> QED BY <3>1 DEF IsPut
  <2> HIDE DEF i, new
  <2>6. OnlyDust(tx, IntentSegment, i) /\ i.dust.spends = spends
    <3>1. i.utxos = own.utxos /\ i.dust.spends = spends
      BY <2>3, <2>4 DEF SameBody
    <3>2. IntentSegment \in DOMAIN tx.intents => tx.intents[IntentSegment].dust.spends = <<>>
      BY <1>1 DEF Bare
    <3>3. CASE IntentSegment \in DOMAIN tx.intents
      BY <3>1, <3>2, <3>3, <2>2 DEF OnlyDust, SameUtxos
    <3>4. CASE IntentSegment \notin DOMAIN tx.intents
      BY <3>1, <3>4, <2>2 DEF OnlyDust, NoUtxosIn
    <3> QED BY <3>3, <3>4
  <2>7. InputIds(new) = InputIds(tx) \cup Ids(spends) /\ SpendsOnce(new)
    <3>1. SpendsOnce(tx)
      BY <1>1 DEF Lands
    <3>2. Distinct(i.dust.spends) /\ Ids(i.dust.spends) \cap InputIds(tx) = {}
      BY <1>1, <2>6
    <3> QED BY <1>1, <2>4, <2>5, <2>6, <3>1, <3>2, PutSpends
  <2>8. /\ Shaped(new) /\ new.intents[IntentSegment] = i
        /\ DOMAIN new.intents = {IntentSegment} /\ DOMAIN tx.intents \subseteq {IntentSegment}
    <3>1. DOMAIN tx.intents \subseteq {IntentSegment}
      BY <1>1 DEF Bare
    <3>2. Shaped(tx) /\ SeqIntent(i) /\ IsPut(tx, IntentSegment, i, new)
      BY <1>1, <2>4, <2>5
    <3> HIDE DEF tx
    <3>3. Shaped(new) /\ DOMAIN new.intents = DOMAIN tx.intents \cup {IntentSegment} /\ new.intents[IntentSegment] = i
      BY <3>2, PutIs DEF PutThere
    <3> QED BY <3>1, <3>3
  <2>9. i.ttl = own.ttl /\ i.actions = own.actions
    BY <2>3, <2>4 DEF SameBody
  <2>10. Lands(new)
    BY <2>2, <2>4, <2>7, <2>8, <2>9 DEF Lands, Times
  <2>11. ~ HasCall(i)
    <3>1. CASE IntentSegment \in DOMAIN tx.intents
      BY <3>1, <2>2, <2>9 DEF HasCall, NoCalls
    <3>2. CASE IntentSegment \notin DOMAIN tx.intents
      BY <3>2, <2>2, <2>9, NothingIsSeq DEF HasCall
    <3> QED BY <3>1, <3>2
  <2>12. \A s \in DOMAIN tx.intents : s \in DOMAIN new.intents /\ new.intents[s].ttl = tx.intents[s].ttl
    BY <2>2, <2>8, <2>9
  <2>13. Keeps(new, tx)
    <3>1. new.offers = tx.offers /\ IsFiniteSet(DOMAIN new.intents) /\ DOMAIN tx.intents \subseteq DOMAIN new.intents
      <4>1. new.offers = tx.offers
        BY <1>1, <2>4, <2>5, PutIs DEF PutThere
      <4> QED BY <2>8, <4>1 DEF Shaped
    <3>2. i.utxos = own.utxos /\ i.actions = own.actions
      BY <2>3, <2>4 DEF SameBody
    <3>3. \A s \in DOMAIN tx.intents : new.intents[s].utxos = tx.intents[s].utxos /\ new.intents[s].actions = tx.intents[s].actions
      BY <2>2, <2>8, <3>2
    <3>4. \A s \in DOMAIN new.intents \ DOMAIN tx.intents : Empty(new.intents[s])
      <4>1. IntentSegment \notin DOMAIN tx.intents => Empty(i)
        BY <2>2, <3>2, EmptyIntentHolds
      <4> QED BY <2>8, <4>1
    <3> HIDE DEF tx
    <3> QED BY <3>1, <3>3, <3>4, AlikeKeeps
  <2> HIDE DEF tx
  <2> QED BY <2>1, <2>7, <2>8, <2>10, <2>11, <2>12, <2>13 DEF Carries, NoCalls, tx
<1> QED
  BY <1>2, <1>3

(* A transaction that is an intent with Dust in it, at any segment. *)
LEMMA FeeIntentHolds ==
    ASSUME NEW ttl \in Times, Now \in Nat, NEW spends, Worth(spends), Distinct(spends), NEW m, NEW tx,
           tx = Transaction(NoOffers, [s \in {m} |-> [EmptyIntent(ttl) EXCEPT !.dust.spends = spends]])
    PROVE  Shaped(tx) /\ Lands(tx) /\ InputIds(tx) = Ids(spends)
<1> DEFINE e == EmptyIntent(ttl)
           i == [e EXCEPT !.dust.spends = spends]
           none == Transaction(NoOffers, NoIntents)
           new == Transaction(NoOffers, [s \in {m} |-> i])
<1>1. /\ SeqIntent(e) /\ e.ttl = ttl /\ NoUtxosIn(e) /\ e.dust = NoDust
  BY TimesAreNat, EmptyIntentIs
<1> HIDE DEF e
<1>2. i = WithDust(e, spends, <<>>)
  <2>1. e = Fields(e.ttl, e.utxos, e.actions, NoDust, e.binding, e.signed)
    BY <1>1 DEF SeqIntent, Fields
  <2> QED BY <2>1 DEF WithDust, Fields, NoDust
<1> HIDE DEF i
<1>3. SeqIntent(i) /\ i.ttl = ttl /\ i.utxos = e.utxos /\ i.dust.spends = spends /\ i.dust.registrations = <<>>
  BY <1>1, <1>2, WithDustIs, NothingIsSeq
<1>4. none.offers = NoOffers /\ none.intents = NoIntents /\ DOMAIN none.intents = {}
  BY DEF Transaction, NoIntents
<1>5. Shaped(none)
  <2>1. none = [offers |-> none.offers, intents |-> none.intents]
    BY DEF Transaction
  <2>3. IsFun(none.intents)
    BY DEF Transaction, IsFun, NoIntents
  <2>2. SeqOffer(NoOffers[Guaranteed]) /\ SeqOffer(NoOffers[IntentSegment])
    BY NothingIsSeq DEF SeqOffer, NoOffers, NoOffer, Segments
  <2> HIDE DEF none
  <2> QED BY <1>4, <2>1, <2>2, <2>3, FS_EmptySet DEF Shaped
<1>6. InputIds(none) = {} /\ SpendsOnce(none)
  <2>1. \A p \in Places(none) : InputsAt(none, p) = <<>>
    <3> SUFFICES ASSUME NEW p \in Places(none) PROVE InputsAt(none, p) = <<>>
      OBVIOUS
    <3> HIDE DEF none
    <3>1. p[1] = "coins" /\ p[2] \in Segments
      BY <1>4, PlaceIs
    <3>2. InputsAt(none, p) = none.offers[p[2]].inputs
      BY <3>1 DEF InputsAt
    <3> QED BY <3>1, <3>2, <1>4 DEF NoOffers, NoOffer
  <2> HIDE DEF none
  <2>2. InputIds(none) = {}
    BY <2>1, NothingIsSeq DEF InputIds
  <2> QED BY <2>1, <2>2, NothingIsSeq, OnceMeans
<1>7. tx = new
  BY DEF i, e
<1>8. IsPut(none, m, i, new)
  <2>1. [t \in {} \cup {m} |-> IF t = m THEN i ELSE NoIntents[t]] = [s \in {m} |-> i]
    OBVIOUS
  <2> HIDE DEF none
  <2>2. DOMAIN none.intents \cup {m} = {m}
    BY <1>4
  <2>3. [t \in DOMAIN none.intents \cup {m} |-> IF t = m THEN i ELSE none.intents[t]] = [s \in {m} |-> i]
    BY <2>2
  <2> QED BY <2>3, <1>4 DEF IsPut
<1> HIDE DEF none, new
<1>9. OnlyDust(none, m, i)
  BY <1>1, <1>3, <1>4 DEF OnlyDust, NoUtxosIn
<1>10. InputIds(new) = Ids(spends) /\ SpendsOnce(new)
  <2>1. /\ InputIds(new) = InputIds(none) \cup Ids(i.dust.spends)
        /\ SpendsOnce(none) /\ Ids(i.dust.spends) \cap InputIds(none) = {} => SpendsOnce(new)
    BY <1>3, <1>5, <1>8, <1>9, PutSpends
  <2> QED BY <2>1, <1>3, <1>6
<1>11. Shaped(new) /\ DOMAIN new.intents = {m} /\ new.intents[m] = i
  <2>1. Shaped(new) /\ DOMAIN new.intents = DOMAIN none.intents \cup {m} /\ new.intents[m] = i
    <3>1. SeqIntent(i)
      BY <1>3
    <3>2. Shaped(new) /\ PutThere(none, m, i, new)
      BY <3>1, <1>5, <1>8, PutIs
    <3> QED BY <3>2 DEF PutThere
  <2> QED BY <2>1, <1>4
<1>12. SignedInFull(i, m)
  BY <1>1, <1>3 DEF SignedInFull, NoUtxosIn, Segments
<1>13. Lands(new)
  BY <1>3, <1>10, <1>11, <1>12 DEF Lands, Times
<1> QED
  BY <1>7, <1>10, <1>11, <1>13

(* A fee intent brings no token. *)
LEMMA FeeIntentNets ==
    ASSUME NEW ttl, NEW spends, NEW m, NEW tx,
           tx = Transaction(NoOffers, [s \in {m} |-> [EmptyIntent(ttl) EXCEPT !.dust.spends = spends]])
    PROVE  Valued(tx) /\ \A t \in TokenTypes, s \in Segments : Balance(tx, t, s) = 0
<1> DEFINE intents == [s \in {m} |-> [EmptyIntent(ttl) EXCEPT !.dust.spends = spends]]
           i == intents[m]
<1>1. tx.offers = NoOffers /\ tx.intents = intents /\ DOMAIN intents = {m}
  BY DEF Transaction
<1>2. Empty(i)
  <2>1. i = [EmptyIntent(ttl) EXCEPT !.dust.spends = spends]
    OBVIOUS
  <2>2. i.utxos = EmptyIntent(ttl).utxos /\ i.actions = EmptyIntent(ttl).actions
    BY <2>1 DEF EmptyIntent, Intent
  <2> HIDE DEF i
  <2> QED BY <2>2, EmptyIntentHolds
<1> HIDE DEF intents
<1>3. ASSUME NEW s \in Segments
      PROVE  tx.offers[s].inputs = <<>> /\ tx.offers[s].outputs = <<>>
  BY <1>1 DEF NoOffers, NoOffer
<1>4. ASSUME NEW t \in TokenTypes, NEW s \in Segments
      PROVE  Whole(Holdings(tx, t, s)) /\ SumFunction(Holdings(tx, t, s)) = 0
  <2> DEFINE f == Holdings(tx, t, s)
  <2>1. DOMAIN f = {m} /\ f[m] = 0
    BY <1>1, <1>2 DEF Holdings, Empty
  <2>2. IsFiniteSet(DOMAIN f) /\ Whole(f) /\ \A x \in DOMAIN f : f[x] = 0
    <3>1. IsFiniteSet({m})
      BY FS_Singleton
    <3> HIDE DEF f
    <3> QED BY <2>1, <3>1 DEF Whole
  <2> HIDE DEF f
  <2>3. SumFunction(f) = 0
    BY <2>2, SumsAre
  <2> QED BY <2>2, <2>3 DEF f
<1>5. Valued(tx)
  BY <1>1, <1>3, <1>4, NothingIsSeq, FS_Singleton DEF Valued
<1>6. ASSUME NEW t \in TokenTypes, NEW s \in Segments PROVE Balance(tx, t, s) = 0
  <2>1. OfferBalance(tx.offers[s], t) = 0
    BY <1>3, ValueOfNone DEF OfferBalance
  <2> QED BY <1>4, <1>5, <2>1, BalanceIs
<1> QED
  BY <1>5, <1>6

(* A fee intent rides beside those of the transaction. *)
LEMMA BesideHolds ==
    ASSUME NEW fee, NEW xs, IsFee(fee, xs), NEW spends, IsDraw(spends, xs), fee.how = "beside",
           NEW alone, alone = Transaction(NoOffers, [s \in {Min(FreeSegments(fee.tx))} |->
                                [EmptyIntent(fee.ttl) EXCEPT !.dust.spends = spends]]),
           NEW tx, AreMerged(fee.tx, alone, tx)
    PROVE  Carries(fee, spends, tx)
<1>1. /\ Shaped(fee.tx) /\ Lands(fee.tx) /\ fee.ttl \in Times /\ Now \in Nat
      /\ InputIds(fee.tx) \cap Ids(spends) = {} /\ Worth(spends) /\ Distinct(spends)
  BY DEF IsFee, IsDraw
<1>2. Shaped(alone) /\ Lands(alone) /\ InputIds(alone) = Ids(spends)
  BY <1>1, FeeIntentHolds
<1>3. InputIds(tx) = InputIds(fee.tx) \cup Ids(spends)
  BY <1>1, <1>2, MergedSpends
<1>4. Shaped(tx) /\ Lands(tx)
  BY <1>1, <1>2, MergeIs, MergedLands
<1>5. \A s \in DOMAIN fee.tx.intents : s \in DOMAIN tx.intents /\ tx.intents[s].ttl = fee.tx.intents[s].ttl
  <2>1. /\ DOMAIN tx.intents = DOMAIN fee.tx.intents \cup DOMAIN alone.intents
        /\ \A s \in DOMAIN fee.tx.intents : tx.intents[s] = fee.tx.intents[s]
    BY <1>1, <1>2, MergeIs
  <2> QED BY <2>1
<1>6. Keeps(tx, fee.tx)
  <2> SUFFICES ASSUME Valued(fee.tx)
               PROVE  Valued(tx) /\ \A t \in TokenTypes, s \in Segments : Balance(tx, t, s) = Balance(fee.tx, t, s)
    BY DEF Keeps
  <2>1. Valued(alone) /\ \A t \in TokenTypes, s \in Segments : Balance(alone, t, s) = 0
    BY FeeIntentNets
  <2>2. Valued(tx) /\ \A t \in TokenTypes, s \in Segments : Balance(tx, t, s) = Balance(fee.tx, t, s) + Balance(alone, t, s)
    <3>1. Unites(tx, fee.tx, alone)
      BY <1>1, <1>2, MergeIs DEF Unites
    <3> QED BY <2>1, <3>1, MergedBalance
  <2>3. \A t \in TokenTypes, s \in Segments : Balance(fee.tx, t, s) \in Int
    BY BalanceIs
  <2>4. ASSUME NEW t \in TokenTypes, NEW s \in Segments PROVE Balance(tx, t, s) = Balance(fee.tx, t, s)
    BY <2>1, <2>2, <2>3
  <2> QED BY <2>2, <2>4
<1> QED
  BY <1>3, <1>4, <1>5, <1>6 DEF Carries

(* The transaction of a round of balancing. *)
LEMMA CandidateHolds ==
    ASSUME NEW fee, NEW xs, IsFee(fee, xs), NEW spends, IsDraw(spends, xs),
           NEW r, r = Candidate(fee, spends), r.ok
    PROVE  Carries(fee, spends, r.tx)
<1>1. CASE fee.how = "join"
  <2>1. NoCalls(fee.tx) /\ r = [ok |-> TRUE, tx |-> ApplyDust(fee.tx, spends, fee.registrations, fee.ttl)]
    BY <1>1 DEF Candidate, Refused, NoCalls
  <2>2. r.tx = ApplyDust(fee.tx, spends, fee.registrations, fee.ttl)
    BY <2>1
  <2> QED BY <1>1, <2>1, <2>2, ApplyDustHolds
<1>2. CASE fee.how = "beside"
  <2> DEFINE alone == Transaction(NoOffers, [s \in {Min(FreeSegments(fee.tx))} |->
                                [EmptyIntent(fee.ttl) EXCEPT !.dust.spends = spends]])
  <2>1. r = IF spends = <<>> THEN [ok |-> TRUE, tx |-> fee.tx] ELSE Merge(fee.tx, alone)
    BY <1>2 DEF Candidate
  <2>2. CASE spends = <<>>
    <3>1. r.tx = fee.tx
      BY <2>1, <2>2
    <3>2. Ids(spends) = {}
      BY <2>2, NothingIsSeq
    <3> QED BY <1>2, <3>1, <3>2, KeepsOn DEF Carries, IsFee
  <2>3. CASE spends # <<>>
    <3>1. AreMerged(fee.tx, alone, r.tx)
      <4> HIDE DEF alone
      <4> QED BY <2>1, <2>3 DEF AreMerged
    <3> QED BY <1>2, <3>1, BesideHolds
  <2> QED BY <2>2, <2>3
<1> QED
  BY <1>1, <1>2 DEF IsFee

\* The rounds of balancing a fee.
RoundStep(f, fee, n) == IF n = 0 THEN FirstRound ELSE FeeRound(fee, f[n - 1])
IsRounds(f, fee, N) == f = [n \in 0..N |-> RoundStep(f, fee, n)]

(* There is a function that balances a fee for any number of rounds. *)
LEMMA RoundsExist ==
    ASSUME NEW fee, NEW N \in Nat
    PROVE  \E f : IsRounds(f, fee, N)
<1> DEFINE T == {n \in 0..N : \E f : IsRounds(f, fee, n)}
<1>1. 0 \in T
  <2> DEFINE first == [n \in 0..0 |-> FirstRound]
  <2>1. \A n \in 0..0 : RoundStep(first, fee, n) = FirstRound
    BY DEF RoundStep
  <2>2. IsRounds(first, fee, 0)
    <3> HIDE DEF FirstRound
    <3> QED BY <2>1 DEF IsRounds
  <2> HIDE DEF first
  <2> QED BY <2>2
<1>2. ASSUME NEW n \in 0..N, n < N, n \in T PROVE n + 1 \in T
  <2>1. PICK f : IsRounds(f, fee, n)
    BY <1>2
  <2> DEFINE longer == [i \in 0..(n + 1) |-> IF i = n + 1 THEN RoundStep(f, fee, n + 1) ELSE f[i]]
  <2>2. ASSUME NEW i \in 0..(n + 1) PROVE longer[i] = RoundStep(longer, fee, i)
    <3>1. CASE i # n + 1
      <4>1. longer[i] = f[i] /\ f[i] = RoundStep(f, fee, i)
        BY <3>1, <2>1 DEF IsRounds
      <4>2. i # 0 => longer[i - 1] = f[i - 1]
        BY <3>1
      <4> HIDE DEF longer
      <4> QED BY <4>1, <4>2 DEF RoundStep
    <3>2. CASE i = n + 1
      <4>1. longer[i] = RoundStep(f, fee, n + 1)
        BY <3>2
      <4>2. longer[i - 1] = f[i - 1] /\ i - 1 = n /\ i # 0
        BY <3>2
      <4> HIDE DEF longer
      <4> QED BY <4>1, <4>2, <3>2 DEF RoundStep
    <3> QED BY <3>1, <3>2
  <2>3. IsRounds(longer, fee, n + 1)
    <3>1. longer = [i \in 0..(n + 1) |-> longer[i]]
      OBVIOUS
    <3> HIDE DEF longer
    <3> QED BY <2>2, <3>1 DEF IsRounds
  <2>4. n + 1 \in 0..N
    BY <1>2
  <2> HIDE DEF longer
  <2> QED BY <2>3, <2>4
<1>3. 0..N \subseteq T
  <2> HIDE DEF T
  <2> QED BY <1>1, <1>2, SetInduction
<1> QED
  BY <1>3

\* What a balanced fee is: the Dust, and the transaction that it pays for.
Balanced(fee, xs, r) ==
  /\ IsDraw(r.spends, xs) /\ Carries(fee, r.spends, r.tx)
  /\ DustOf(r.tx) >= FeeWithMargin(r.tx, fee.price)

RoundOk(fee, xs, round) ==
  /\ round = [settled |-> round.settled, request |-> round.request, result |-> round.result]
  /\ round.request \in Nat
  /\ round.result.ok => Balanced(fee, xs, round.result)

(* What Dust a candidate still lacks. *)
LEMMA MissingIs ==
    ASSUME NEW tx, Shaped(tx), NEW price \in Nat
    PROVE  /\ MissingDust(tx, price) \in Nat
           /\ ~(MissingDust(tx, price) > 0) => DustOf(tx) >= FeeWithMargin(tx, price)
<1> DEFINE d == DustOf(tx)
           f == FeeWithMargin(tx, price)
<1>1. d \in Nat /\ f \in Nat
  <2>1. Weight(tx) \in Nat /\ DustOf(tx) \in Nat
    BY WeightIsNat
  <2>2. Margin \in Nat
    BY BalancingAssumption
  <2>3. \A a, b, c \in Nat : (a + b) * c \in Nat
    OBVIOUS
  <2> QED BY <2>1, <2>2, <2>3 DEF FeeWithMargin
<1>2. MissingDust(tx, price) = Max({0, f - d})
  BY DEF MissingDust
<1> HIDE DEF d, f
<1>3. Max({0, f - d}) = IF 0 >= f - d THEN 0 ELSE f - d
  <2>1. f - d \in Int /\ 0 \in Int
    BY <1>1
  <2>2. \A a, b \in Int : Max({a, b}) = IF a >= b THEN a ELSE b
    BY MaxOf
  <2> QED BY <2>1, <2>2
<1>4. MissingDust(tx, price) \in Nat /\ (~(MissingDust(tx, price) > 0) => d >= f)
  BY <1>1, <1>2, <1>3
<1> QED
  BY <1>4 DEF d, f

(* Each round keeps what it must. *)
LEMMA RoundHolds ==
    ASSUME NEW fee, NEW xs, IsFee(fee, xs), NEW round, RoundOk(fee, xs, round)
    PROVE  RoundOk(fee, xs, FeeRound(fee, round))
<1> DEFINE dust == GatherDustSpends(fee.funding, round.request)
           candidate == Candidate(fee, dust.spends)
           short == MissingDust(candidate.tx, fee.price)
           next == FeeRound(fee, round)
<1> USE DEF RoundOk
<1>1. CASE round.settled
  BY <1>1 DEF FeeRound
<1>2. CASE ~round.settled /\ ~dust.ok
  <2>1. next = Settled(round, dust)
    BY <1>2 DEF FeeRound, Drawn
  <2> HIDE DEF dust, next
  <2>2. next = [settled |-> TRUE, request |-> round.request, result |-> dust]
    BY <2>1 DEF Settled
  <2> QED BY <1>2, <2>2 DEF next
<1>3. CASE ~round.settled /\ dust.ok
  <2>1. next = Tried(fee, round, dust.spends, candidate)
    BY <1>3 DEF FeeRound, Drawn
  <2>2. IsDraw(dust.spends, xs)
    BY <1>3, GatherHolds DEF IsFee, IsDraw
  <2> HIDE DEF dust
  <2>3. CASE ~candidate.ok
    <3>1. next = Settled(round, candidate)
      BY <2>1, <2>3 DEF Tried
    <3> HIDE DEF candidate, next
    <3>2. next = [settled |-> TRUE, request |-> round.request, result |-> candidate]
      BY <3>1 DEF Settled
    <3> QED BY <2>3, <3>2 DEF next
  <2>4. CASE candidate.ok
    <3>1. next = Weighed(round, dust.spends, candidate.tx, short)
      BY <2>1, <2>4 DEF Tried
    <3>2. Carries(fee, dust.spends, candidate.tx)
      BY <2>2, <2>4, CandidateHolds
    <3> HIDE DEF candidate
    <3>3. short \in Nat /\ (~(short > 0) => DustOf(candidate.tx) >= FeeWithMargin(candidate.tx, fee.price))
      BY <3>2, MissingIs DEF IsFee, Carries
    <3> HIDE DEF short, next
    <3>4. CASE short > 0
      <4>1. next = [settled |-> round.settled, request |-> round.request + short, result |-> round.result]
        BY <3>1, <3>4 DEF Weighed
      <4>2. round.request + short \in Nat
        BY <3>3
      <4> QED BY <4>1, <4>2 DEF next
    <3>5. CASE ~(short > 0)
      <4> DEFINE result == [ok |-> TRUE, tx |-> candidate.tx, spends |-> dust.spends]
      <4>1. next = Settled(round, result)
        BY <3>1, <3>5 DEF Weighed
      <4>2. result.tx = candidate.tx /\ result.spends = dust.spends
        OBVIOUS
      <4> HIDE DEF result
      <4>3. Balanced(fee, xs, result)
        BY <2>2, <3>2, <3>3, <3>5, <4>2 DEF Balanced
      <4>4. next = [settled |-> TRUE, request |-> round.request, result |-> result]
        BY <4>1 DEF Settled
      <4> QED BY <4>3, <4>4 DEF next
    <3> QED BY <3>4, <3>5
  <2> QED BY <2>3, <2>4
<1> QED
  BY <1>1, <1>2, <1>3

(* A fee that balances is paid by Dust of its funding, at any price up to the margin. *)
LEMMA BalanceFeesHolds ==
    ASSUME NEW fee, NEW xs, IsFee(fee, xs), NEW r, r = BalanceFees(fee), r.ok
    PROVE  Balanced(fee, xs, r)
<1> DEFINE N == MaxRounds
           f == CHOOSE g : IsRounds(g, fee, N)
           T == {n \in 0..N : RoundOk(fee, xs, f[n])}
<1>1. N \in Nat
  BY BalancingAssumption
<1>2. IsRounds(f, fee, N)
  BY <1>1, RoundsExist
<1>3. r = f[N].result
  BY DEF BalanceFees, IsRounds, RoundStep
<1> HIDE DEF f
<1>4. 0 \in T
  <2>1. f[0] = FirstRound
    BY <1>1, <1>2 DEF IsRounds, RoundStep
  <2>2. FirstRound.request = 0 /\ FirstRound.result = Refused("did not converge") /\ FirstRound.settled = FALSE
    BY DEF FirstRound
  <2>3. FirstRound = [settled |-> FirstRound.settled, request |-> FirstRound.request, result |-> FirstRound.result]
    BY DEF FirstRound
  <2>4. ~ FirstRound.result.ok
    <3>1. \A why : ~ Refused(why).ok
      BY DEF Refused
    <3> QED BY <2>2, <3>1, Zenon
  <2>5. RoundOk(fee, xs, FirstRound)
    <3>1. FirstRound.request \in Nat
      BY DEF FirstRound
    <3> QED BY <2>3, <2>4, <3>1, Zenon DEF RoundOk
  <2> QED BY <1>1, <2>1, <2>5
<1>5. ASSUME NEW n \in 0..N, n < N, n \in T PROVE n + 1 \in T
  <2>1. n + 1 \in 0..N /\ n + 1 # 0 /\ (n + 1) - 1 = n
    BY <1>1, <1>5
  <2>2. f[n + 1] = FeeRound(fee, f[n])
    BY <1>2, <2>1 DEF IsRounds, RoundStep
  <2>3. RoundOk(fee, xs, FeeRound(fee, f[n]))
    BY <1>5, RoundHolds
  <2> QED BY <2>1, <2>2, <2>3
<1>6. 0..N \subseteq T
  <2> HIDE DEF T
  <2> QED BY <1>1, <1>4, <1>5, SetInduction
<1>7. RoundOk(fee, xs, f[N])
  BY <1>1, <1>6
<1> QED
  BY <1>3, <1>7 DEF RoundOk

(***************************************************************************)
(* Assembling, proving and paying                                          *)
(***************************************************************************)
(* A transaction whose intents have the bodies they had. *)
LikeIntents(new, tx) ==
  /\ new = [offers |-> new.offers, intents |-> new.intents] /\ new.offers = tx.offers
  /\ DOMAIN new.intents = DOMAIN tx.intents /\ IsFun(new.intents)
  /\ \A s \in DOMAIN tx.intents :
       LET i == new.intents[s]
       IN SameBody(i, tx.intents[s]) /\ i = Fields(i.ttl, i.utxos, i.actions, i.dust, i.binding, i.signed)

(* What differs in signatures and bindings alone spends, weighs and pays the same. *)
LEMMA LikeIntentsAre ==
    ASSUME NEW tx, Shaped(tx), NEW new, LikeIntents(new, tx)
    PROVE  /\ Shaped(new) /\ InputIds(new) = InputIds(tx) /\ (SpendsOnce(new) <=> SpendsOnce(tx))
           /\ Weight(new) = Weight(tx) /\ DustOf(new) = DustOf(tx)
<1>1. \A s \in DOMAIN tx.intents : SeqIntent(new.intents[s]) /\ SameBody(new.intents[s], tx.intents[s])
  BY BodyIsSeq DEF Shaped, LikeIntents
<1>2. Shaped(new)
  BY <1>1 DEF Shaped, LikeIntents
<1>3. Places(new) = Places(tx)
  BY DEF Places, LikeIntents
<1>4. ASSUME NEW p \in Places(tx) PROVE InputsAt(new, p) = InputsAt(tx, p)
  <2>1. CASE p[1] = "coins" /\ p[2] \in Segments
    BY <2>1 DEF InputsAt, LikeIntents
  <2>2. CASE p[1] \in IntentPlaces /\ p[2] \in DOMAIN tx.intents
    <3>1. p[1] = "guaranteed" \/ p[1] = "fallible" \/ p[1] = "dust"
      BY <2>2 DEF IntentPlaces
    <3>2. SameBody(new.intents[p[2]], tx.intents[p[2]])
      BY <1>1, <2>2
    <3> QED BY <3>1, <3>2 DEF InputsAt, SameBody
  <2> QED BY <2>1, <2>2, PlaceIs
<1>5. InputIds(new) = InputIds(tx) /\ (SpendsOnce(new) <=> SpendsOnce(tx))
  <2>1. \A x : x \in InputIds(new) <=> x \in InputIds(tx)
    BY <1>3, <1>4, IdsOfPlaces
  <2>2. SpendsOnce(new) <=> SpendsOnce(tx)
    BY <1>3, <1>4, OnceMeans
  <2> QED BY <2>1, <2>2
<1>6. \A i, j : SameBody(i, j) => IntentWeight(i) = IntentWeight(j) /\ IntentDust(i) = IntentDust(j)
  BY DEF SameBody, IntentWeight, IntentDust
<1>7. \A s \in DOMAIN tx.intents : IntentWeight(new.intents[s]) = IntentWeight(tx.intents[s])
                                   /\ IntentDust(new.intents[s]) = IntentDust(tx.intents[s])
  BY <1>1, <1>6
<1>8. DOMAIN new.intents = DOMAIN tx.intents /\ new.offers = tx.offers
  BY DEF LikeIntents
<1>9. OverIntents(new, IntentWeight) = OverIntents(tx, IntentWeight)
  <2>1. [s \in DOMAIN new.intents |-> IntentWeight(new.intents[s])] = [s \in DOMAIN tx.intents |-> IntentWeight(tx.intents[s])]
    BY <1>7, <1>8
  <2> QED BY <2>1, Zenon DEF OverIntents
<1>10. OverIntents(new, IntentDust) = OverIntents(tx, IntentDust)
  <2>1. [s \in DOMAIN new.intents |-> IntentDust(new.intents[s])] = [s \in DOMAIN tx.intents |-> IntentDust(tx.intents[s])]
    BY <1>7, <1>8
  <2> QED BY <2>1, Zenon DEF OverIntents
<1>11. Weight(new) = Weight(tx)
  BY <1>8, <1>9, Zenon DEF Weight
<1>12. DustOf(new) = DustOf(tx)
  BY <1>10 DEF DustOf
<1> QED
  BY <1>2, <1>5, <1>11, <1>12

(* Proving fixes the binding of the intents that call, and nothing else. *)
LEMMA SealIs ==
    ASSUME NEW tx, Shaped(tx)
    PROVE  /\ LikeIntents(Seal(tx), tx)
           /\ \A s \in DOMAIN tx.intents : ~ HasCall(tx.intents[s]) => Seal(tx).intents[s] = tx.intents[s]
<1> DEFINE new == Seal(tx)
           intents == [s \in DOMAIN tx.intents |->
                         IF HasCall(tx.intents[s]) THEN [tx.intents[s] EXCEPT !.binding = "sealed"] ELSE tx.intents[s]]
<1>1. new = [offers |-> tx.offers, intents |-> intents]
  BY DEF Seal, Shaped
<1>2. \A s \in DOMAIN tx.intents : ~ HasCall(tx.intents[s]) => intents[s] = tx.intents[s]
  OBVIOUS
<1>3. ASSUME NEW s \in DOMAIN tx.intents
      PROVE  LET i == intents[s]
             IN SameBody(i, tx.intents[s]) /\ i = Fields(i.ttl, i.utxos, i.actions, i.dust, i.binding, i.signed)
  <2> DEFINE i == tx.intents[s]
  <2>1. i = Fields(i.ttl, i.utxos, i.actions, i.dust, i.binding, i.signed)
    BY DEF Shaped, SeqIntent, Fields
  <2>2. CASE HasCall(i)
    <3>1. intents[s] = [i EXCEPT !.binding = "sealed"]
      BY <2>2
    <3> HIDE DEF i, intents
    <3>2. intents[s] = Fields(i.ttl, i.utxos, i.actions, i.dust, "sealed", i.signed)
      BY <2>1, <3>1 DEF Fields
    <3>3. SameBody(intents[s], i)
      BY <3>2, FieldsAre DEF SameBody
    <3> QED BY <3>2, <3>3, FieldsAre DEF i
  <2>3. CASE ~ HasCall(i)
    <3>1. intents[s] = i
      BY <2>3
    <3> HIDE DEF i, intents
    <3> QED BY <2>1, <3>1 DEF SameBody, i
  <2> QED BY <2>2, <2>3
<1>4. DOMAIN intents = DOMAIN tx.intents /\ IsFun(intents)
  BY DEF IsFun
<1> HIDE DEF intents
<1>5. new.offers = tx.offers /\ new.intents = intents
  BY <1>1
<1> HIDE DEF new
<1>6. LikeIntents(new, tx)
  BY <1>1, <1>3, <1>4, <1>5 DEF LikeIntents
<1> QED
  BY <1>2, <1>5, <1>6 DEF new

(* What differs in signatures and bindings alone has the same balances. *)
LEMMA LikeKeeps ==
    ASSUME NEW tx, Shaped(tx), NEW new, LikeIntents(new, tx)
    PROVE  Keeps(new, tx)
<1>1. new.offers = tx.offers /\ DOMAIN new.intents = DOMAIN tx.intents /\ IsFiniteSet(DOMAIN new.intents)
  BY DEF LikeIntents, Shaped
<1>2. \A s \in DOMAIN tx.intents : new.intents[s].utxos = tx.intents[s].utxos /\ new.intents[s].actions = tx.intents[s].actions
  BY DEF LikeIntents, SameBody
<1> QED
  BY <1>1, <1>2, AlikeKeeps

(* What is refused is not ok. *)
LEMMA RefusedIs == \A why : ~ Refused(why).ok
  BY DEF Refused

(* The chain is at the later of two times. *)
LEMMA TimeIsMax == \A a, b \in Nat : a <= b => Max({a, b}) = b
<1> SUFFICES ASSUME NEW a \in Nat, NEW b \in Nat, a <= b PROVE Max({a, b}) = b
  OBVIOUS
<1>1. Max({a, b}) = IF a >= b THEN a ELSE b
  BY MaxOf
<1> QED
  BY <1>1

(* The time of a view, and the TTLs it grants. *)
LEMMA ChainTimeIs ==
    ASSUME NEW view, IsView(view)
    PROVE  /\ ChainTime(view) = Now /\ LongestTtl(view) = Now + GlobalTtl
           /\ Now \in Nat /\ GlobalTtl \in Nat /\ Now + GlobalTtl \in Times
<1>1. view.tblock \in Nat /\ view.last = Now /\ Now \in Nat /\ view.tblock <= Now
  BY DEF IsView
<1>2. ChainTime(view) = Now
  BY <1>1, TimeIsMax DEF ChainTime
<1>3. GlobalTtl \in Nat \ {0}
  BY BalancingAssumption
<1> QED
  BY <1>1, <1>2, <1>3 DEF LongestTtl, Times

(* A TTL that is granted is one the chain accepts. *)
LEMMA GrantedTtl ==
    ASSUME NEW view, IsView(view), NEW ttl \in Nat \cup {Unknown}, NEW r, r = IntentTtl(view, ttl), r.ok
    PROVE  r.ttl \in Times
<1>1. /\ ChainTime(view) = Now /\ LongestTtl(view) = Now + GlobalTtl
      /\ Now \in Nat /\ GlobalTtl \in Nat /\ Now + GlobalTtl \in Times
  BY ChainTimeIs
<1>2. CASE ttl = Unknown
  <2>1. r = [ok |-> TRUE, ttl |-> LongestTtl(view)]
    BY <1>2 DEF IntentTtl
  <2> QED BY <1>1, <2>1
<1>3. CASE ttl # Unknown
  <2>1. ~(ttl = 0 \/ ttl > GlobalTtl)
    BY <1>3, RefusedIs, Zenon DEF IntentTtl
  <2>2. r = [ok |-> TRUE, ttl |-> ChainTime(view) + ttl]
    BY <1>3, <2>1, Zenon DEF IntentTtl
  <2>3. ttl \in Nat /\ ttl > 0 /\ ttl <= GlobalTtl
    BY <1>1, <1>3, <2>1
  <2>4. r.ttl = Now + ttl
    BY <1>1, <2>2
  <2> QED BY <1>1, <2>3, <2>4 DEF Times
<1> QED
  BY <1>2, <1>3

(***************************************************************************)
(* Plans                                                                   *)
(***************************************************************************)
\* The inputs that a plan spends: coins in two segments, and UTXOs in its intent.
PlanUtxos(plan, s) == IF IntentSegment \in DOMAIN plan.intents THEN plan.intents[IntentSegment].utxos[s].inputs ELSE <<>>

IsSpent(spent) == spent = [dust |-> spent.dust, utxos |-> spent.utxos, coins |-> spent.coins]

PlannedShape(plan) ==
  /\ SeqOffer(plan.offers[Guaranteed]) /\ SeqOffer(plan.offers[IntentSegment])
  /\ DOMAIN plan.intents \subseteq {IntentSegment}
  /\ \A s \in DOMAIN plan.intents :
       LET i == plan.intents[s]
       IN IsSeq(i.actions) /\ SeqUtxos(i.utxos[Guaranteed]) /\ SeqUtxos(i.utxos[IntentSegment])
  /\ Worth(plan.registrations) /\ plan.ttl \in Nat \cup {Unknown}

\* Two sequences of different inputs.
Apart(s, t) == Distinct(s) /\ Distinct(t) /\ Ids(s) \cap Ids(t) = {}

PlannedSpends(view, plan, spent) ==
  /\ Apart(plan.offers[Guaranteed].inputs, plan.offers[IntentSegment].inputs)
  /\ Apart(PlanUtxos(plan, Guaranteed), PlanUtxos(plan, IntentSegment))
  /\ IsSpent(spent)
  /\ spent.coins = Ids(plan.offers[Guaranteed].inputs) \cup Ids(plan.offers[IntentSegment].inputs)
  /\ spent.utxos = Ids(PlanUtxos(plan, Guaranteed)) \cup Ids(PlanUtxos(plan, IntentSegment))
  /\ spent.coins \subseteq IdsIn(view.coins) /\ spent.utxos \subseteq IdsIn(view.utxos)

GoodPlan(view, plan, spent) ==
  /\ PlannedShape(plan) /\ PlannedSpends(view, plan, spent)
  /\ plan.funding = <<>> \/ plan.funding = <<view.dust>>

(* An intent as assembled. *)
LEMMA IntentIs ==
    ASSUME NEW ttl \in Nat, NEW utxos, SeqUtxos(utxos[Guaranteed]), SeqUtxos(utxos[IntentSegment]),
           NEW actions, IsSeq(actions), NEW i, i = Intent(ttl, utxos, actions)
    PROVE  SeqIntent(i) /\ i.ttl = ttl /\ i.utxos = utxos /\ i.actions = actions /\ i.dust = NoDust
<1>1. i = Fields(ttl, utxos, actions, NoDust, "assembled", Unsigned)
  BY DEF Intent, Fields
<1>2. /\ i.ttl = ttl /\ i.utxos = utxos /\ i.actions = actions /\ i.dust = NoDust
      /\ i = Fields(i.ttl, i.utxos, i.actions, i.dust, i.binding, i.signed)
  BY <1>1, FieldsAre
<1>3. NoDust.spends = <<>> /\ NoDust.registrations = <<>>
      /\ NoDust = [spends |-> NoDust.spends, registrations |-> NoDust.registrations]
  BY DEF NoDust
<1> QED
  BY <1>2, <1>3, NothingIsSeq DEF SeqIntent, Fields

\* What the assembly of a plan gives.
IsUnproven(view, plan, spent, tx) ==
  /\ Shaped(tx) /\ Lands(tx) /\ Bare(tx) /\ DOMAIN tx.intents = DOMAIN plan.intents
  /\ InputIds(tx) = spent.coins \cup spent.utxos
  /\ \A s \in DOMAIN tx.intents : tx.intents[s].dust = NoDust /\ tx.intents[s].actions = plan.intents[s].actions
  /\ Keeps(tx, plan)

(* What a plan is assembled into spends what the plan does, signed in full. *)
LEMMA AssembleHolds ==
    ASSUME NEW view, IsView(view), NEW plan, NEW spent, GoodPlan(view, plan, spent),
           NEW r, r = AssembleUnproven(view, plan), r.ok
    PROVE  r.ttl \in Times /\ IsUnproven(view, plan, spent, r.tx)
<1> DEFINE granted == IntentTtl(view, plan.ttl)
           intents == [s \in DOMAIN plan.intents |->
                        Sign(Intent(granted.ttl, plan.intents[s].utxos, plan.intents[s].actions), s)]
           tx == Transaction(plan.offers, intents)
<1>1. r = IF granted.ok THEN [ok |-> TRUE, ttl |-> granted.ttl, tx |-> tx] ELSE granted
  <2>1. ~(plan.ttl # Unknown /\ plan.intents = NoIntents /\ ~ PaysOwnFee(plan))
    BY RefusedIs, Zenon DEF AssembleUnproven
  <2> QED BY <2>1, Zenon DEF AssembleUnproven, IfOk
<1>2. granted.ok /\ r.ttl = granted.ttl /\ r.tx = tx
  BY <1>1
<1>3. granted.ttl \in Times /\ granted.ttl \in Nat
  <2>1. granted.ttl \in Times
    BY <1>2, GrantedTtl DEF GoodPlan, PlannedShape
  <2> QED BY <2>1, TimesAreNat DEF IsView
<1> HIDE DEF granted
<1>4. ASSUME NEW s \in DOMAIN plan.intents
      PROVE  /\ SeqIntent(intents[s]) /\ SignedInFull(intents[s], s) /\ intents[s].ttl \in Times
             /\ intents[s].utxos = plan.intents[s].utxos /\ intents[s].dust = NoDust
             /\ intents[s].actions = plan.intents[s].actions
  <2> DEFINE i == Intent(granted.ttl, plan.intents[s].utxos, plan.intents[s].actions)
  <2>1. /\ SeqIntent(i) /\ i.ttl = granted.ttl /\ i.utxos = plan.intents[s].utxos /\ i.dust = NoDust
        /\ i.actions = plan.intents[s].actions
    BY <1>3, IntentIs DEF GoodPlan, PlannedShape
  <2>2. intents[s] = Sign(i, s)
    OBVIOUS
  <2> HIDE DEF i
  <2>3. SeqIntent(Sign(i, s)) /\ SameBody(Sign(i, s), i) /\ SignedInFull(Sign(i, s), s)
    BY <2>1, SignIs
  <2> HIDE DEF intents
  <2> QED BY <1>3, <2>1, <2>2, <2>3 DEF SameBody
<1>5. DOMAIN intents = DOMAIN plan.intents /\ DOMAIN plan.intents \subseteq {IntentSegment} /\ IsFun(intents)
  BY DEF GoodPlan, PlannedShape, IsFun
<1> HIDE DEF intents
<1>6. tx.offers = plan.offers /\ tx.intents = intents /\ tx = [offers |-> tx.offers, intents |-> tx.intents]
  BY DEF Transaction
<1> HIDE DEF tx
<1>7. Shaped(tx)
  <2>1. IsFiniteSet(DOMAIN plan.intents)
    BY <1>5, FS_Singleton, FS_Subset
  <2> QED BY <1>4, <1>5, <1>6, <2>1 DEF Shaped, GoodPlan, PlannedShape
<1>8. ASSUME NEW p \in Places(tx)
      PROVE  \/ p = <<"coins", Guaranteed>> /\ InputsAt(tx, p) = plan.offers[Guaranteed].inputs
             \/ p = <<"coins", IntentSegment>> /\ InputsAt(tx, p) = plan.offers[IntentSegment].inputs
             \/ p = <<"guaranteed", IntentSegment>> /\ InputsAt(tx, p) = PlanUtxos(plan, Guaranteed)
             \/ p = <<"fallible", IntentSegment>> /\ InputsAt(tx, p) = PlanUtxos(plan, IntentSegment)
             \/ p = <<"dust", IntentSegment>> /\ InputsAt(tx, p) = <<>>
  <2>1. p = <<p[1], p[2]>>
    BY PlaceIs
  <2>2. CASE p[1] = "coins" /\ p[2] \in Segments
    BY <2>1, <2>2, <1>6 DEF InputsAt, Segments
  <2>3. CASE p[1] \in IntentPlaces /\ p[2] \in DOMAIN tx.intents
    <3>1. p[1] = "guaranteed" \/ p[1] = "fallible" \/ p[1] = "dust"
      BY <2>3 DEF IntentPlaces
    <3>2. p[2] = IntentSegment /\ IntentSegment \in DOMAIN plan.intents
      BY <2>3, <1>5, <1>6
    <3>3. tx.intents[IntentSegment].utxos = plan.intents[IntentSegment].utxos /\ tx.intents[IntentSegment].dust = NoDust
      BY <3>2, <1>4, <1>6
    <3>4. NoDust.spends = <<>>
      BY DEF NoDust
    <3> QED BY <2>1, <3>1, <3>2, <3>3, <3>4 DEF InputsAt, PlanUtxos
  <2> QED BY <2>2, <2>3, PlaceIs
<1>9. /\ Apart(plan.offers[Guaranteed].inputs, plan.offers[IntentSegment].inputs)
      /\ Apart(PlanUtxos(plan, Guaranteed), PlanUtxos(plan, IntentSegment))
      /\ spent.coins = Ids(plan.offers[Guaranteed].inputs) \cup Ids(plan.offers[IntentSegment].inputs)
      /\ spent.utxos = Ids(PlanUtxos(plan, Guaranteed)) \cup Ids(PlanUtxos(plan, IntentSegment))
      /\ spent.coins \cap spent.utxos = {}
  BY DEF GoodPlan, PlannedSpends, IsView
<1>10. SpendsOnce(tx)
  <2>1. \A p \in Places(tx) : Distinct(InputsAt(tx, p))
    BY <1>8, <1>9, NothingIsSeq DEF Apart
  <2>2. ASSUME NEW p \in Places(tx), NEW q \in Places(tx), p # q
        PROVE  Ids(InputsAt(tx, p)) \cap Ids(InputsAt(tx, q)) = {}
    BY <1>8, <1>9, <2>2, NothingIsSeq DEF Apart
  <2> QED BY <2>1, <2>2, OnceMeans
<1>11. InputIds(tx) = spent.coins \cup spent.utxos
  <2>1. \A x \in InputIds(tx) : x \in spent.coins \cup spent.utxos
    BY <1>8, <1>9, IdsOfPlaces, NothingIsSeq
  <2>2. \A s \in Segments : Ids(plan.offers[s].inputs) \subseteq InputIds(tx)
    <3> SUFFICES ASSUME NEW s \in Segments PROVE Ids(plan.offers[s].inputs) \subseteq InputIds(tx)
      OBVIOUS
    <3>1. <<"coins", s>> \in Places(tx) /\ InputsAt(tx, <<"coins", s>>) = plan.offers[s].inputs
      BY <1>6, PlacesThere, InputsAtPlace
    <3> QED BY <3>1, IdsOfPlaces
  <2>3. Ids(PlanUtxos(plan, Guaranteed)) \cup Ids(PlanUtxos(plan, IntentSegment)) \subseteq InputIds(tx)
    <3>1. CASE IntentSegment \in DOMAIN plan.intents
      <4>1. <<"guaranteed", IntentSegment>> \in Places(tx) /\ <<"fallible", IntentSegment>> \in Places(tx)
        BY <3>1, <1>5, <1>6, PlacesThere DEF IntentPlaces
      <4>2. /\ InputsAt(tx, <<"guaranteed", IntentSegment>>) = PlanUtxos(plan, Guaranteed)
            /\ InputsAt(tx, <<"fallible", IntentSegment>>) = PlanUtxos(plan, IntentSegment)
        BY <4>1, <1>8
      <4> QED BY <4>1, <4>2, IdsOfPlaces
    <3>2. CASE IntentSegment \notin DOMAIN plan.intents
      BY <3>2, NothingIsSeq DEF PlanUtxos
    <3> QED BY <3>1, <3>2
  <2> QED BY <1>9, <2>1, <2>2, <2>3 DEF Segments
<1>12. Lands(tx)
  BY <1>4, <1>5, <1>6, <1>10 DEF Lands, Times
<1>13. \A s \in DOMAIN tx.intents : /\ tx.intents[s].dust = NoDust /\ NoDust.spends = <<>>
                                    /\ tx.intents[s].actions = plan.intents[s].actions
  BY <1>4, <1>5, <1>6 DEF NoDust
<1>14. Keeps(tx, plan)
  <2>1. tx.offers = plan.offers /\ DOMAIN tx.intents = DOMAIN plan.intents /\ IsFiniteSet(DOMAIN tx.intents)
    BY <1>5, <1>6, <1>7 DEF Shaped
  <2>2. \A i \in DOMAIN plan.intents : tx.intents[i].utxos = plan.intents[i].utxos /\ tx.intents[i].actions = plan.intents[i].actions
    BY <1>4, <1>6
  <2> QED BY <2>1, <2>2, AlikeKeeps
<1> QED
  BY <1>2, <1>3, <1>5, <1>6, <1>7, <1>11, <1>12, <1>13, <1>14 DEF IsUnproven, Bare

(***************************************************************************)
(* What a build returns                                                    *)
(***************************************************************************)
\* Until when the inputs are held: no less than one intent leaves them.
Late(tx, until) ==
  until \in Nat /\ (until >= Now + GlobalTtl \/ \E s \in DOMAIN tx.intents : until >= tx.intents[s].ttl)

InTime(tx) == \A s \in DOMAIN tx.intents : tx.intents[s].ttl \in Times
Signed(tx) == \A s \in DOMAIN tx.intents : SignedInFull(tx.intents[s], s)
PaysEnough(tx, price) == DustOf(tx) >= FeeWithMargin(tx, price)

\* The answer of a build.
Result(ok, tx, spent, expires, fee) == [ok |-> ok, tx |-> tx, spent |-> spent, expires |-> expires, fee |-> fee]
IsResult(r) == r = Result(r.ok, r.tx, r.spent, r.expires, r.fee)

(* The fields of an answer. *)
LEMMA ResultIs ==
    ASSUME NEW a, NEW b, NEW c, NEW d, NEW e, NEW r, r = Result(a, b, c, d, e)
    PROVE  IsResult(r) /\ r.ok = a /\ r.tx = b /\ r.spent = c /\ r.expires = d /\ r.fee = e
  BY DEF Result, IsResult

\* The transaction spends what the build says it holds, once, and the wallet's own.
IsBuild(view, r) ==
  /\ IsResult(r)
  /\ IsSpent(r.spent) /\ Shaped(r.tx) /\ SpendsOnce(r.tx) /\ InTime(r.tx)
  /\ r.fee = Fee(r.tx, view.price)
  /\ InputIds(r.tx) = r.spent.dust \cup r.spent.utxos \cup r.spent.coins
  /\ r.spent.dust \subseteq IdsIn(view.dust) /\ r.spent.utxos \subseteq IdsIn(view.utxos)
  /\ r.spent.coins \subseteq IdsIn(view.coins)
  /\ Late(r.tx, r.expires)

(* A transaction lands when it spends once, in time, and is signed. *)
LEMMA LandsMeans == \A tx : Lands(tx) <=> SpendsOnce(tx) /\ InTime(tx) /\ Signed(tx)
  BY DEF Lands, InTime, Signed, Times

(* The fields of what is proven. *)
LEMMA ProvenIs ==
    ASSUME NEW view, NEW tx, NEW spent, NEW expires, NEW r, r = Proven(view, tx, spent, expires)
    PROVE  /\ IsResult(r)
           /\ r.tx = tx /\ r.spent = spent /\ r.expires = expires /\ r.fee = Fee(tx, view.price)
<1> DEFINE yes == TRUE
           fee == Fee(tx, view.price)
<1>1. r = Result(yes, tx, spent, expires, fee)
  BY DEF Proven, Result
<1> HIDE DEF yes, fee
<1>2. IsResult(r) /\ r.tx = tx /\ r.spent = spent /\ r.expires = expires /\ r.fee = fee
  BY <1>1, ResultIs
<1> QED
  BY <1>2 DEF fee

(* The least TTL of the intents. *)
LEMMA ExpiresLate ==
    ASSUME NEW view, IsView(view), NEW tx, InTime(tx), IsFun(tx.intents)
    PROVE  Late(tx, ExpiresAt(view, tx.intents))
<1> DEFINE e == ExpiresAt(view, tx.intents)
           ttls == {tx.intents[s].ttl : s \in DOMAIN tx.intents}
<1>1. LongestTtl(view) = Now + GlobalTtl /\ Now + GlobalTtl \in Nat /\ Times \subseteq Nat
  BY ChainTimeIs, TimesAreNat
<1>2. CASE tx.intents = NoIntents
  <2>1. e = Now + GlobalTtl
    BY <1>1, <1>2 DEF ExpiresAt
  <2> HIDE DEF e
  <2>2. Late(tx, e)
    BY <2>1, <1>1 DEF Late
  <2> QED BY <2>2 DEF e
<1>3. CASE tx.intents # NoIntents /\ DOMAIN tx.intents # {}
  <2>1. e = Min(ttls)
    BY <1>3 DEF ExpiresAt
  <2>2. ttls \in SUBSET Nat /\ ttls # {}
    BY <1>1, <1>3 DEF InTime
  <2> HIDE DEF e
  <2>3. e \in ttls
    <3> HIDE DEF ttls
    <3> QED BY <2>1, <2>2, MinIn
  <2>4. PICK s \in DOMAIN tx.intents : e = tx.intents[s].ttl
    BY <2>3
  <2>5. e \in Nat /\ e >= tx.intents[s].ttl
    <3>1. e \in Nat
      BY <2>2, <2>3
    <3> QED BY <2>4, <3>1
  <2>6. Late(tx, e)
    BY <2>5 DEF Late
  <2> QED BY <2>6 DEF e
<1>4. DOMAIN tx.intents = {} => tx.intents = NoIntents
  BY DEF IsFun, NoIntents
<1> QED
  BY <1>2, <1>3, <1>4

\* The fee of a build that pays it itself.
JoinFee(view, plan, unpaid) ==
  [how |-> "join", tx |-> unpaid.tx, funding |-> plan.funding, ttl |-> unpaid.ttl,
   registrations |-> plan.registrations, price |-> view.price]

(* The fee that a build pays itself is one that can be balanced. *)
LEMMA JoinFeeIs ==
    ASSUME NEW view, IsView(view), NEW plan, NEW spent, GoodPlan(view, plan, spent),
           NEW unpaid, unpaid.ttl \in Times, IsUnproven(view, plan, spent, unpaid.tx)
    PROVE  IsFee(JoinFee(view, plan, unpaid), view.dust)
<1> DEFINE fee == JoinFee(view, plan, unpaid)
<1>1. /\ fee.how = "join" /\ fee.tx = unpaid.tx /\ fee.funding = plan.funding /\ fee.ttl = unpaid.ttl
      /\ fee.registrations = plan.registrations /\ fee.price = view.price
  BY DEF JoinFee
<1> HIDE DEF fee
<1>2. InputIds(unpaid.tx) \cap IdsIn(view.dust) = {}
  BY DEF IsUnproven, GoodPlan, PlannedSpends, IsView
<1>3. IsFunding(plan.funding, view.dust)
  BY DEF IsFunding, GoodPlan, IsView
<1>4. Worth(plan.registrations) /\ view.price \in Nat /\ Now \in Nat
  BY DEF GoodPlan, PlannedShape, IsView
<1>5. Shaped(unpaid.tx) /\ Lands(unpaid.tx) /\ Bare(unpaid.tx)
  BY DEF IsUnproven
<1>6. IsFee(fee, view.dust)
  <2>1. IsFunding(fee.funding, view.dust)
    BY <1>1, <1>3
  <2>2. Worth(fee.registrations) /\ fee.price \in Nat /\ fee.ttl \in Times /\ Now \in Nat
    BY <1>1, <1>4
  <2>3. Shaped(fee.tx) /\ Lands(fee.tx) /\ InputIds(fee.tx) \cap IdsIn(view.dust) = {}
    BY <1>1, <1>2, <1>5
  <2>4. fee.how = "join" /\ Bare(fee.tx)
    BY <1>1, <1>5
  <2> QED BY <2>1, <2>2, <2>3, <2>4, Zenon DEF IsFee
<1> QED
  BY <1>6 DEF fee

\* What paying as built gives.
IsPaid(view, plan, spent, unpaid, paid) ==
  /\ Shaped(paid.tx) /\ Lands(paid.tx)
  /\ InputIds(paid.tx) = spent.coins \cup spent.utxos \cup Ids(paid.spends)
  /\ Ids(paid.spends) \subseteq IdsIn(view.dust)
  /\ IF PaysOwnFee(plan) THEN NoCalls(paid.tx) /\ PaysEnough(paid.tx, view.price) ELSE paid.tx = unpaid.tx
  /\ Keeps(paid.tx, unpaid.tx)

(* A plan that pays its own fee pays enough of it, with Dust of the wallet. *)
LEMMA PayAsBuiltHolds ==
    ASSUME NEW view, IsView(view), NEW plan, NEW spent, GoodPlan(view, plan, spent),
           NEW unpaid, unpaid.ttl \in Times, IsUnproven(view, plan, spent, unpaid.tx),
           NEW paid, paid = PayAsBuilt(view, plan, unpaid), paid.ok
    PROVE  IsPaid(view, plan, spent, unpaid, paid)
<1> DEFINE fee == JoinFee(view, plan, unpaid)
<1>1. CASE PaysOwnFee(plan)
  <2>1. paid = BalanceFees(fee)
    BY <1>1 DEF PayAsBuilt, JoinFee
  <2>2. fee.how = "join" /\ fee.tx = unpaid.tx /\ fee.price = view.price
    BY DEF JoinFee
  <2>3. IsFee(fee, view.dust)
    BY JoinFeeIs
  <2> HIDE DEF fee
  <2>4. Balanced(fee, view.dust, paid)
    BY <2>1, <2>3, BalanceFeesHolds
  <2> QED
    BY <1>1, <2>2, <2>4 DEF Balanced, Carries, IsDraw, IsPaid, IsUnproven, PaysEnough
<1>2. CASE ~ PaysOwnFee(plan)
  <2>1. paid = [ok |-> TRUE, tx |-> unpaid.tx, spends |-> <<>>]
    BY <1>2 DEF PayAsBuilt
  <2>2. paid.tx = unpaid.tx /\ Ids(paid.spends) = {}
    BY <2>1, NothingIsSeq
  <2> QED
    BY <1>2, <2>2, KeepsOn DEF IsPaid, IsUnproven
<1> QED
  BY <1>1, <1>2

PlanCalls(plan) == \E s \in DOMAIN plan.intents : HasCall(plan.intents[s])

\* A transaction that still lacks its fee, and the signatures of a call.
NotPaid(plan, tx) ==
  /\ DOMAIN tx.intents = DOMAIN plan.intents
  /\ \A s \in DOMAIN tx.intents : tx.intents[s].dust = NoDust

(* A build gives what its plan spends, with the Dust it draws. *)
LEMMA PrepareHolds ==
    ASSUME NEW view, IsView(view), NEW plan, NEW spent, GoodPlan(view, plan, spent),
           NEW r, r = Prepare(view, plan, spent), r.ok
    PROVE  /\ IsBuild(view, r) /\ r.spent.coins = spent.coins /\ r.spent.utxos = spent.utxos
           /\ PaysOwnFee(plan) => PaysEnough(r.tx, view.price)
           /\ ~ PaysOwnFee(plan) => NotPaid(plan, r.tx) /\ r.spent.dust = {}
           /\ PaysOwnFee(plan) \/ ~ PlanCalls(plan) => Signed(r.tx)
           /\ Keeps(r.tx, plan)
<1> DEFINE unpaid == AssembleUnproven(view, plan)
           paid == PayAsBuilt(view, plan, unpaid)
           tx == Seal(paid.tx)
           held == [spent EXCEPT !.dust = Ids(paid.spends)]
           until == ExpiresAt(view, paid.tx.intents)
<1>1. r = IF unpaid.ok THEN IF paid.ok THEN Proven(view, tx, held, until) ELSE paid ELSE unpaid
  BY DEF Prepare, IfOk
<1>2. unpaid.ok /\ paid.ok /\ r = Proven(view, tx, held, until)
  <2> HIDE DEF unpaid, paid, tx, held, until
  <2> QED BY <1>1
<1>3. /\ IsResult(r)
      /\ r.tx = tx /\ r.spent = held /\ r.expires = until /\ r.fee = Fee(tx, view.price)
  <2> HIDE DEF unpaid, paid, tx, held, until
  <2> QED BY <1>2, ProvenIs
<1>4. unpaid.ttl \in Times /\ IsUnproven(view, plan, spent, unpaid.tx)
  <2> HIDE DEF paid, tx, held, until
  <2> QED BY <1>2, AssembleHolds
<1> HIDE DEF unpaid
<1>5. IsPaid(view, plan, spent, unpaid, paid)
  BY <1>2, <1>4, PayAsBuiltHolds
<1> HIDE DEF paid
<1>6. held.dust = Ids(paid.spends) /\ held.utxos = spent.utxos /\ held.coins = spent.coins /\ IsSpent(held)
  BY DEF GoodPlan, PlannedSpends, IsSpent
<1>7. InTime(paid.tx) /\ Signed(paid.tx) /\ SpendsOnce(paid.tx) /\ Shaped(paid.tx)
  BY <1>5, LandsMeans DEF IsPaid
<1>8. Late(paid.tx, until)
  BY <1>7, ExpiresLate DEF Shaped
<1> HIDE DEF held, until
<1>9. /\ LikeIntents(tx, paid.tx)
      /\ \A s \in DOMAIN paid.tx.intents : ~ HasCall(paid.tx.intents[s]) => tx.intents[s] = paid.tx.intents[s]
  BY <1>7, SealIs
<1> HIDE DEF tx
<1>10. /\ Shaped(tx) /\ InputIds(tx) = InputIds(paid.tx) /\ SpendsOnce(tx)
       /\ Weight(tx) = Weight(paid.tx) /\ DustOf(tx) = DustOf(paid.tx)
  BY <1>7, <1>9, LikeIntentsAre
<1>11. /\ DOMAIN tx.intents = DOMAIN paid.tx.intents
       /\ \A s \in DOMAIN tx.intents : tx.intents[s].ttl = paid.tx.intents[s].ttl /\ tx.intents[s].dust = paid.tx.intents[s].dust
  BY <1>9 DEF LikeIntents, SameBody
<1>12. InTime(tx) /\ Late(tx, until)
  BY <1>7, <1>8, <1>11 DEF InTime, Late
<1>13. IsBuild(view, r)
  <2>1. InputIds(tx) = held.dust \cup held.utxos \cup held.coins
    BY <1>5, <1>6, <1>10 DEF IsPaid
  <2>2. held.dust \subseteq IdsIn(view.dust) /\ held.utxos \subseteq IdsIn(view.utxos) /\ held.coins \subseteq IdsIn(view.coins)
    BY <1>5, <1>6 DEF IsPaid, GoodPlan, PlannedSpends
  <2> QED BY <1>3, <1>6, <1>10, <1>12, <2>1, <2>2 DEF IsBuild
<1>14. PaysOwnFee(plan) => PaysEnough(tx, view.price)
  BY <1>5, <1>10 DEF IsPaid, PaysEnough, FeeWithMargin
<1>15. ~ PaysOwnFee(plan) => NotPaid(plan, tx) /\ held.dust = {}
  <2> SUFFICES ASSUME ~ PaysOwnFee(plan) PROVE NotPaid(plan, tx) /\ held.dust = {}
    OBVIOUS
  <2>1. paid.tx = unpaid.tx
    BY <1>5 DEF IsPaid
  <2>2. NotPaid(plan, tx)
    BY <2>1, <1>4, <1>11 DEF NotPaid, IsUnproven
  <2>3. paid.spends = <<>>
    BY <1>2 DEF paid, PayAsBuilt
  <2> QED BY <2>2, <2>3, <1>6, NothingIsSeq
<1>16. ASSUME PaysOwnFee(plan) \/ ~ PlanCalls(plan) PROVE Signed(tx)
  <2>1. NoCalls(paid.tx)
    <3>1. CASE PaysOwnFee(plan)
      BY <3>1, <1>5 DEF IsPaid
    <3>2. CASE ~ PaysOwnFee(plan)
      <4>1. paid.tx = unpaid.tx
        BY <3>2, <1>5 DEF IsPaid
      <4>2. \A s \in DOMAIN unpaid.tx.intents : s \in DOMAIN plan.intents /\ unpaid.tx.intents[s].actions = plan.intents[s].actions
        BY <1>4 DEF IsUnproven
      <4> QED BY <3>2, <4>1, <4>2, <1>16 DEF NoCalls, PlanCalls, HasCall
    <3> QED BY <3>1, <3>2
  <2> QED BY <2>1, <1>7, <1>9, <1>11 DEF NoCalls, Signed
<1>17. Keeps(tx, plan)
  <2>1. Keeps(tx, paid.tx)
    BY <1>7, <1>9, LikeKeeps
  <2>2. Keeps(paid.tx, unpaid.tx) /\ Keeps(unpaid.tx, plan)
    BY <1>4, <1>5 DEF IsPaid, IsUnproven
  <2> QED BY <2>1, <2>2, KeepsOn
<1> QED
  BY <1>3, <1>6, <1>13, <1>14, <1>15, <1>16, <1>17

(***************************************************************************)
(* Paying for a transaction that is proven already                         *)
(***************************************************************************)
IsSponsored(view, external, r) ==
  /\ IsResult(r)
  /\ Shaped(r.tx) /\ Lands(r.tx) /\ InputIds(r.tx) = InputIds(external) \cup r.spent.dust
  /\ r.spent.dust \subseteq IdsIn(view.dust) /\ r.fee = Fee(r.tx, view.price)
  /\ r.expires = Now + GlobalTtl /\ PaysEnough(r.tx, view.price) /\ Keeps(r.tx, external)
  /\ \A s \in DOMAIN external.intents : s \in DOMAIN r.tx.intents /\ r.tx.intents[s].ttl = external.intents[s].ttl

\* The fee of a transaction that another build made.
BesideFee(view, external) ==
  [how |-> "beside", tx |-> external, funding |-> <<view.dust>>, ttl |-> LongestTtl(view),
   registrations |-> <<>>, price |-> view.price]

(* A wallet that pays adds Dust of its own, and nothing else. *)
LEMMA BalanceTransactionHolds ==
    ASSUME NEW view, IsView(view), NEW external, Shaped(external), Lands(external),
           InputIds(external) \cap IdsIn(view.dust) = {},
           NEW r, r = BalanceTransaction(view, external), r.ok
    PROVE  IsSponsored(view, external, r)
<1> DEFINE fee == BesideFee(view, external)
           paid == BalanceFees(fee)
           held == [NoneSpent EXCEPT !.dust = Ids(paid.spends)]
<1>1. FreeSegments(external) # {} /\ r = IF paid.ok THEN Proven(view, paid.tx, held, LongestTtl(view)) ELSE paid
  <2>1. ~(\E t \in Shielded \cup Unshielded, s \in Segments : Balance(external, t, s) < 0)
    BY RefusedIs, Zenon DEF BalanceTransaction
  <2>2. FreeSegments(external) # {}
    BY <2>1, RefusedIs, Zenon DEF BalanceTransaction
  <2>3. r = IF paid.ok THEN Proven(view, paid.tx, held, LongestTtl(view)) ELSE paid
    BY <2>1, <2>2, Zenon DEF BalanceTransaction, IfOk, BesideFee
  <2> QED BY <2>2, <2>3
<1>2. /\ fee.how = "beside" /\ fee.tx = external /\ fee.funding = <<view.dust>> /\ fee.ttl = LongestTtl(view)
      /\ fee.registrations = <<>> /\ fee.price = view.price
  BY DEF BesideFee
<1> HIDE DEF fee
<1>3. LongestTtl(view) = Now + GlobalTtl /\ Now + GlobalTtl \in Times
  BY ChainTimeIs
<1>4. IsFee(fee, view.dust)
  <2>1. IsFunding(fee.funding, view.dust)
    BY <1>2 DEF IsFunding, IsView
  <2>2. Worth(fee.registrations) /\ fee.price \in Nat /\ fee.ttl \in Times /\ Now \in Nat
    BY <1>2, <1>3, NothingIsSeq DEF IsView
  <2>3. Shaped(fee.tx) /\ Lands(fee.tx) /\ InputIds(fee.tx) \cap IdsIn(view.dust) = {}
    BY <1>2
  <2>4. fee.how = "beside" /\ FreeSegments(fee.tx) # {}
    BY <1>1, <1>2
  <2> QED BY <2>1, <2>2, <2>3, <2>4, Zenon DEF IsFee
<1>5. paid.ok /\ r = Proven(view, paid.tx, held, LongestTtl(view))
  <2> HIDE DEF paid, held
  <2> QED BY <1>1
<1>6. Balanced(fee, view.dust, paid)
  BY <1>4, <1>5, BalanceFeesHolds
<1>7. held.dust = Ids(paid.spends)
  BY DEF NoneSpent
<1> HIDE DEF paid, held
<1>8. /\ IsResult(r)
      /\ r.tx = paid.tx /\ r.spent = held /\ r.expires = LongestTtl(view) /\ r.fee = Fee(paid.tx, view.price)
  <2> DEFINE tx == paid.tx
             until == LongestTtl(view)
  <2>1. r = Proven(view, tx, held, until)
    BY <1>5
  <2> HIDE DEF tx, until
  <2>2. IsResult(r) /\ r.tx = tx /\ r.spent = held /\ r.expires = until /\ r.fee = Fee(tx, view.price)
    BY <2>1, ProvenIs
  <2> QED BY <2>2 DEF tx, until
<1>9. /\ Shaped(r.tx) /\ Lands(r.tx) /\ InputIds(r.tx) = InputIds(external) \cup r.spent.dust
      /\ r.spent.dust \subseteq IdsIn(view.dust) /\ PaysEnough(r.tx, view.price) /\ Keeps(r.tx, external)
  BY <1>2, <1>6, <1>7, <1>8 DEF Balanced, Carries, IsDraw, PaysEnough
<1>10. \A s \in DOMAIN external.intents : s \in DOMAIN r.tx.intents /\ r.tx.intents[s].ttl = external.intents[s].ttl
  BY <1>2, <1>6, <1>8 DEF Balanced, Carries
<1> QED
  BY <1>3, <1>8, <1>9, <1>10 DEF IsSponsored

\* A build that is not refused is sound: as far as its signatures and, if it
\* pays, its fee.
Sound(view, pay, r) ==
  r.ok => IsBuild(view, r) /\ Signed(r.tx) /\ (pay => PaysEnough(r.tx, view.price))

(* So is one whose fee is paid when it is proven. *)
LEMMA PayFeeHolds ==
    ASSUME NEW view, IsView(view), NEW pay \in BOOLEAN, NEW unpaid, Sound(view, FALSE, unpaid),
           unpaid.ok => unpaid.spent.dust = {},
           NEW r, r = PayFee(view, unpaid, pay)
    PROVE  Sound(view, pay, r)
<1> SUFFICES ASSUME r.ok PROVE IsBuild(view, r) /\ Signed(r.tx) /\ (pay => PaysEnough(r.tx, view.price))
  BY DEF Sound
<1>1. CASE ~unpaid.ok \/ ~pay
  <2>1. r = unpaid
    BY <1>1 DEF PayFee
  <2> QED BY <1>1, <2>1 DEF Sound
<1>2. CASE unpaid.ok /\ pay
  <2> DEFINE paid == BalanceTransaction(view, unpaid.tx)
             held == [unpaid.spent EXCEPT !.dust = paid.spent.dust]
             yes == TRUE
             full == Result(yes, paid.tx, held, unpaid.expires, paid.fee)
  <2>1. r = IF paid.ok THEN full ELSE paid
    BY <1>2 DEF PayFee, IfOk, Result
  <2>2. paid.ok
    <3>1. CASE ~paid.ok
      BY <2>1, <3>1
    <3> QED BY <3>1
  <2>3. IsBuild(view, unpaid) /\ Signed(unpaid.tx) /\ unpaid.spent.dust = {}
    BY <1>2 DEF Sound
  <2>4. Shaped(unpaid.tx) /\ Lands(unpaid.tx)
    BY <2>3, LandsMeans DEF IsBuild
  <2>5. InputIds(unpaid.tx) \cap IdsIn(view.dust) = {}
    BY <2>3 DEF IsBuild, IsView
  <2>6. IsSponsored(view, unpaid.tx, paid)
    BY <2>2, <2>4, <2>5, BalanceTransactionHolds
  <2>7. r = full
    BY <2>1, <2>2
  <2> HIDE DEF paid
  <2>8. held.dust = paid.spent.dust /\ held.utxos = unpaid.spent.utxos /\ held.coins = unpaid.spent.coins /\ IsSpent(held)
    BY <2>3 DEF IsBuild, IsSpent
  <2> HIDE DEF held
  <2> HIDE DEF yes
  <2>10. /\ IsResult(r)
         /\ r.tx = paid.tx /\ r.spent = held /\ r.expires = unpaid.expires /\ r.fee = paid.fee
    BY <2>7, ResultIs
  <2>11. SpendsOnce(r.tx) /\ InTime(r.tx) /\ Signed(r.tx) /\ Shaped(r.tx)
    BY <2>6, <2>10, LandsMeans DEF IsSponsored
  <2>12. r.fee = Fee(r.tx, view.price) /\ PaysEnough(r.tx, view.price)
    BY <2>6, <2>10 DEF IsSponsored
  <2>13. InputIds(r.tx) = r.spent.dust \cup r.spent.utxos \cup r.spent.coins
    BY <2>3, <2>6, <2>8, <2>10 DEF IsSponsored, IsBuild
  <2>14. /\ r.spent.dust \subseteq IdsIn(view.dust) /\ r.spent.utxos \subseteq IdsIn(view.utxos)
         /\ r.spent.coins \subseteq IdsIn(view.coins) /\ IsSpent(r.spent)
    BY <2>3, <2>6, <2>8, <2>10 DEF IsSponsored, IsBuild
  <2>15. Late(r.tx, r.expires)
    BY <2>3, <2>6, <2>10 DEF IsSponsored, IsBuild, Late
  <2> QED BY <2>10, <2>11, <2>12, <2>13, <2>14, <2>15 DEF IsBuild
<1> QED
  BY <1>1, <1>2

(***************************************************************************)
(* Transfers                                                               *)
(***************************************************************************)
\* The fields of a plan.
IsPlan(plan, offers, intents, funding, registrations, ttl) ==
  /\ plan.offers = offers /\ plan.intents = intents /\ plan.funding = funding
  /\ plan.registrations = registrations /\ plan.ttl = ttl

(* The plans of the transactions, field by field: a shielded transfer, *)
LEMMA ShieldedPlanIs ==
    ASSUME NEW f, NEW t, NEW o, NEW plan,
           plan = [NewPlan EXCEPT !.funding = f, !.ttl = t, !.offers = o]
    PROVE  IsPlan(plan, o, NoIntents, f, <<>>, t)
  BY DEF NewPlan, IsPlan

(* an unshielded one, *)
LEMMA UnshieldedPlanIs ==
    ASSUME NEW f, NEW t, NEW i, NEW plan,
           plan = [NewPlan EXCEPT !.funding = f, !.ttl = t, !.intents = i]
    PROVE  IsPlan(plan, NoOffers, i, f, <<>>, t)
  BY DEF NewPlan, IsPlan

(* a registration, *)
LEMMA RegisterPlanIs ==
    ASSUME NEW t, NEW i, NEW g, NEW plan,
           plan = [NewPlan EXCEPT !.ttl = t, !.intents = i, !.registrations = g]
    PROVE  IsPlan(plan, NoOffers, i, <<>>, g, t)
  BY DEF NewPlan, IsPlan

(* a call, *)
LEMMA CallPlanIs ==
    ASSUME NEW o, NEW i, NEW plan,
           plan = [NewPlan EXCEPT !.offers = o, !.intents = i]
    PROVE  IsPlan(plan, o, i, <<>>, <<>>, Unknown)
  BY DEF NewPlan, IsPlan

(* a deploy or an update that pays its fee as it is built, *)
LEMMA UpdatePlanIs ==
    ASSUME NEW f, NEW i, NEW plan,
           plan = [NewPlan EXCEPT !.intents = i, !.funding = f]
    PROVE  IsPlan(plan, NoOffers, i, f, <<>>, Unknown)
  BY DEF NewPlan, IsPlan

(* and a deploy that carries payments. *)
LEMMA DeployPlanIs ==
    ASSUME NEW o, NEW i, NEW plan,
           plan = [NewPlan EXCEPT !.intents = i, !.offers = o]
    PROVE  IsPlan(plan, o, i, <<>>, <<>>, Unknown)
  BY DEF NewPlan, IsPlan

(* A plan without calls makes a sound build. *)
LEMMA PlanIsSound ==
    ASSUME NEW view, IsView(view), NEW plan, NEW spent, GoodPlan(view, plan, spent), ~ PlanCalls(plan),
           NEW pay, pay => PaysOwnFee(plan), NEW r, r = Prepare(view, plan, spent)
    PROVE  Sound(view, pay, r)
  BY PrepareHolds DEF Sound

(* Offers with nothing in them, or something in the guaranteed one. *)
LEMMA OffersAre ==
    /\ SeqOffer(NoOffer) /\ NoOffer.inputs = <<>>
    /\ \A s \in Segments : NoOffers[s] = NoOffer
    /\ \A o : GuaranteedOffer(o)[Guaranteed] = o /\ GuaranteedOffer(o)[IntentSegment] = NoOffer
    /\ Guaranteed \in Segments /\ IntentSegment \in Segments
  BY NothingIsSeq DEF NoOffer, NoOffers, SeqOffer, GuaranteedOffer, Segments, Guaranteed, IntentSegment

(* A plan that spends coins of the wallet in the guaranteed offer is good. *)
LEMMA ShieldedPlanIsGood ==
    ASSUME NEW view, IsView(view), NEW plan, NEW spent, NEW o, NEW ids,
           plan.offers = GuaranteedOffer(o), plan.intents = NoIntents, plan.registrations = <<>>,
           plan.funding = <<>> \/ plan.funding = <<view.dust>>, plan.ttl \in Nat \cup {Unknown},
           SeqOffer(o), DrawnFrom(o.inputs, view.coins), ids = Ids(o.inputs),
           spent = [NoneSpent EXCEPT !.coins = ids]
    PROVE  GoodPlan(view, plan, spent) /\ ~ PlanCalls(plan)
<1>1. DOMAIN plan.intents = {}
  BY DEF NoIntents
<1>2. PlannedShape(plan)
  BY <1>1, OffersAre, NothingIsSeq DEF PlannedShape
<1>3. IsSpent(spent) /\ spent.coins = ids /\ spent.utxos = {}
  BY DEF IsSpent, NoneSpent
<1>4. ids \subseteq IdsIn(view.coins)
  BY IdsInRange DEF DrawnFrom, IdsIn
<1>5. \A s : PlanUtxos(plan, s) = <<>>
  BY <1>1 DEF PlanUtxos
<1>6. PlannedSpends(view, plan, spent)
  <2>1. Apart(o.inputs, NoOffer.inputs) /\ Ids(NoOffer.inputs) = {} /\ Apart(<<>>, <<>>) /\ Ids(<<>>) = {}
    BY OffersAre, NothingIsSeq DEF Apart, DrawnFrom
  <2> QED BY <1>3, <1>4, <1>5, <2>1, OffersAre DEF PlannedSpends
<1> QED
  BY <1>1, <1>2, <1>6 DEF GoodPlan, PlanCalls

(* Whether a plan pays its fee. *)
LEMMA FundingPays ==
    ASSUME NEW view, NEW pay \in BOOLEAN, NEW plan, plan.funding = Funding(view, pay)
    PROVE  /\ plan.funding = <<>> \/ plan.funding = <<view.dust>>
           /\ pay => PaysOwnFee(plan)
<1>1. <<view.dust>> # <<>>
  <2>1. Len(<<view.dust>>) = 1 /\ Len(<<>>) = 0
    BY OneIsSeq, NothingIsSeq
  <2> QED BY <2>1
<1> QED
  BY <1>1 DEF Funding, PaysOwnFee

(* A payment and its change, *)
LEMMA PaymentAndChange ==
    ASSUME NEW payment, NEW view, NEW token, NEW change
    PROVE  IsSeq(<<payment>> \o ChangeTo(view, token, change))
<1>1. IsSeq(<<payment>>) /\ IsSeq(ChangeTo(view, token, change))
  BY OneIsSeq, NothingIsSeq DEF ChangeTo
<1> DEFINE one == <<payment>>
           rest == ChangeTo(view, token, change)
<1> HIDE DEF one, rest
<1>2. IsSeq(one \o rest)
  BY <1>1, ConcatSeq DEF one, rest
<1> QED
  BY <1>2 DEF one, rest

(* and the offer that they are in. *)
LEMMA OfferIs ==
    ASSUME NEW i, IsSeq(i), NEW o, IsSeq(o), NEW t, IsSeq(t)
    PROVE  LET offer == [inputs |-> i, transients |-> t, outputs |-> o]
           IN SeqOffer(offer) /\ offer.inputs = i
  BY DEF SeqOffer

(* A shielded transfer, or half of a swap, is sound. *)
LEMMA ShieldedOfferHolds ==
    ASSUME NEW view, IsView(view), NEW request, request.ttl \in Nat \cup {Unknown}, NEW token, NEW amount \in Nat,
           NEW payment, payment.value \in Nat, NEW pay \in BOOLEAN,
           NEW r, r = PrepareShieldedOffer(view, request, token, amount, payment, pay),
           NEW left, \A t \in TokenTypes : left[t] = IF t \in Shielded THEN Difference(token, amount, payment.token, payment.value)[t] ELSE 0
    PROVE  Sound(view, pay, r) /\ (r.ok => Leaves(r.tx, left))
<1> DEFINE cover == CoverValue(view.coins, token, amount, request.strategy)
           names == [n \in DOMAIN cover.chosen |-> cover.chosen[n].id]
           spend == PrepareShieldedInputs(view, names)
           outputs == <<payment>> \o ChangeTo(view, token, cover.change)
           offer == [inputs |-> spend.inputs, transients |-> <<>>, outputs |-> outputs]
           offers == GuaranteedOffer(offer)
           funding == Funding(view, pay)
           ttl == request.ttl
           plan == [NewPlan EXCEPT !.funding = funding, !.ttl = ttl, !.offers = offers]
           ids == Ids(cover.chosen)
           spent == [NoneSpent EXCEPT !.coins = ids]
<1>1. r = IF cover.ok THEN IF spend.ok THEN Prepare(view, plan, spent) ELSE spend ELSE cover
  BY DEF PrepareShieldedOffer, IfOk
<1> SUFFICES ASSUME r.ok
             PROVE  IsBuild(view, r) /\ Signed(r.tx) /\ (pay => PaysEnough(r.tx, view.price)) /\ Leaves(r.tx, left)
  BY DEF Sound
<1>2. cover.ok /\ spend.ok /\ r = Prepare(view, plan, spent)
  <2> HIDE DEF cover, spend, plan, spent
  <2> QED BY <1>1
<1>3. DrawnFrom(cover.chosen, view.coins)
  <2>1. DrawnFrom(cover.chosen, {x \in view.coins : x.token = token})
    BY <1>2, CoverIsDrawn DEF IsView
  <2> HIDE DEF cover
  <2> QED BY <2>1 DEF DrawnFrom
<1>11. /\ Worth(cover.chosen) /\ (\A n \in DOMAIN cover.chosen : cover.chosen[n].token = token)
       /\ Value(cover.chosen) >= amount /\ cover.change = Value(cover.chosen) - amount
  BY <1>2, CoverCovers DEF IsView
<1> HIDE DEF cover
<1>12. spend.inputs = cover.chosen
  BY <1>2, <1>3, SpentAsNamed DEF IsView
<1>4. IsSeq(names) /\ Range(names) = ids
  <2>1. DOMAIN names = DOMAIN cover.chosen /\ names = [n \in DOMAIN names |-> names[n]] /\ Range(names) = ids
    BY DEF Range, Ids
  <2> HIDE DEF names
  <2> QED BY <1>3, <2>1, MapSeq DEF DrawnFrom
<1> HIDE DEF names
<1>5. DrawnFrom(spend.inputs, view.coins) /\ Ids(spend.inputs) = ids
  BY <1>2, <1>4, NamedInputs DEF IsView
<1> HIDE DEF spend, ids
<1>6. IsSeq(outputs)
  BY PaymentAndChange
<1>13. /\ Worth(offer.inputs) /\ Worth(offer.outputs)
       /\ \A t \in TokenTypes : OfferBalance(offer, t) = Difference(token, amount, payment.token, payment.value)[t]
  <2>1. offer.inputs = cover.chosen /\ offer.outputs = Joined(<<payment>>, ChangeTo(view, token, cover.change))
    BY <1>12 DEF Joined
  <2> HIDE DEF offer
  <2> QED BY <1>11, <2>1, SpendAndChange
<1> HIDE DEF outputs
<1>7. SeqOffer(offer) /\ offer.inputs = spend.inputs
  BY <1>5, <1>6, OfferIs, NothingIsSeq DEF DrawnFrom
<1> HIDE DEF offer
<1>8. /\ plan.funding = funding /\ plan.ttl = ttl /\ plan.offers = offers
      /\ plan.intents = NoIntents /\ plan.registrations = <<>>
  <2>1. plan = [NewPlan EXCEPT !.funding = funding, !.ttl = ttl, !.offers = offers]
    OBVIOUS
  <2> HIDE DEF funding, ttl, offers, plan
  <2>2. IsPlan(plan, offers, NoIntents, funding, <<>>, ttl)
    BY <2>1, ShieldedPlanIs
  <2> QED BY <2>2 DEF IsPlan
<1> HIDE DEF plan
<1>9. (plan.funding = <<>> \/ plan.funding = <<view.dust>>) /\ (pay => PaysOwnFee(plan))
  BY <1>8, FundingPays
<1>10. GoodPlan(view, plan, spent) /\ ~ PlanCalls(plan)
  BY <1>5, <1>7, <1>8, <1>9, ShieldedPlanIsGood
<1> HIDE DEF spent
<1>14. Leaves(plan, left)
  BY <1>8, <1>13, OfferLeaves
<1> QED
  BY <1>2, <1>9, <1>10, <1>14, PrepareHolds, KeepsLeaves

\* What a plan with one intent spends, and that it is the wallet's own.
OffersSpend(view, offers, spent) ==
  /\ SeqOffer(offers[Guaranteed]) /\ SeqOffer(offers[IntentSegment])
  /\ Apart(offers[Guaranteed].inputs, offers[IntentSegment].inputs)
  /\ spent.coins = Ids(offers[Guaranteed].inputs) \cup Ids(offers[IntentSegment].inputs)
  /\ spent.coins \subseteq IdsIn(view.coins)

UtxosSpend(view, utxos, spent) ==
  /\ SeqUtxos(utxos[Guaranteed]) /\ SeqUtxos(utxos[IntentSegment])
  /\ Apart(utxos[Guaranteed].inputs, utxos[IntentSegment].inputs)
  /\ spent.utxos = Ids(utxos[Guaranteed].inputs) \cup Ids(utxos[IntentSegment].inputs)
  /\ spent.utxos \subseteq IdsIn(view.utxos)

Calls(actions) == \E n \in DOMAIN actions : IsCall(actions[n])

(* An intent as it is planned. *)
LEMMA PlannedIntentIs ==
    ASSUME NEW utxos, NEW actions, NEW intents, intents = PlannedIntent(utxos, actions)
    PROVE  /\ DOMAIN intents = {IntentSegment}
           /\ intents[IntentSegment].utxos = utxos /\ intents[IntentSegment].actions = actions
<1>1. intents[IntentSegment] = [utxos |-> utxos, actions |-> actions]
  BY DEF PlannedIntent
<1> QED
  BY <1>1 DEF PlannedIntent

(* A plan with one intent is good. *)
LEMMA IntentPlanIsGood ==
    ASSUME NEW view, IsView(view), NEW plan, NEW spent, NEW offers, NEW utxos, NEW actions, NEW intents,
           NEW funding, NEW registrations, NEW ttl,
           IsPlan(plan, offers, intents, funding, registrations, ttl),
           intents = PlannedIntent(utxos, actions),
           OffersSpend(view, offers, spent), UtxosSpend(view, utxos, spent), IsSpent(spent), IsSeq(actions),
           Worth(registrations), ttl \in Nat \cup {Unknown}, funding = <<>> \/ funding = <<view.dust>>
    PROVE  GoodPlan(view, plan, spent) /\ (PlanCalls(plan) <=> Calls(actions))
<1>1. /\ plan.offers = offers /\ plan.intents = intents /\ plan.funding = funding
      /\ plan.registrations = registrations /\ plan.ttl = ttl
  BY DEF IsPlan
<1>2. /\ DOMAIN intents = {IntentSegment}
      /\ intents[IntentSegment].utxos = utxos /\ intents[IntentSegment].actions = actions
  BY PlannedIntentIs
<1>3. PlanUtxos(plan, Guaranteed) = utxos[Guaranteed].inputs /\ PlanUtxos(plan, IntentSegment) = utxos[IntentSegment].inputs
  BY <1>1, <1>2 DEF PlanUtxos
<1>4. PlannedShape(plan)
  BY <1>1, <1>2 DEF PlannedShape, OffersSpend, UtxosSpend
<1>5. PlannedSpends(view, plan, spent)
  BY <1>1, <1>3 DEF PlannedSpends, OffersSpend, UtxosSpend
<1>6. PlanCalls(plan) <=> Calls(actions)
  BY <1>1, <1>2 DEF PlanCalls, HasCall, Calls
<1> QED
  BY <1>1, <1>4, <1>5, <1>6 DEF GoodPlan

(* Offers that spend nothing. *)
LEMMA NoOffersSpend ==
    ASSUME NEW view, NEW spent, spent.coins = {}
    PROVE  OffersSpend(view, NoOffers, spent)
<1>1. /\ NoOffers[Guaranteed] = NoOffer /\ NoOffers[IntentSegment] = NoOffer /\ SeqOffer(NoOffer)
      /\ NoOffer.inputs = <<>>
  BY OffersAre
<1> QED
  BY <1>1, NothingIsSeq DEF OffersSpend, Apart

(* UTXOs in the guaranteed segment alone. *)
LEMMA GuaranteedSpends ==
    ASSUME NEW view, NEW spent, NEW u, SeqUtxos(u), DrawnFrom(u.inputs, view.utxos), spent.utxos = Ids(u.inputs),
           NEW utxos, utxos = [s \in Segments |-> IF s = Guaranteed THEN u ELSE NoUtxos]
    PROVE  UtxosSpend(view, utxos, spent)
<1>1. utxos[Guaranteed] = u /\ utxos[IntentSegment] = NoUtxos
  BY DEF Segments, Guaranteed, IntentSegment
<1>2. NoUtxos.inputs = <<>> /\ NoUtxos.outputs = <<>>
  BY DEF NoUtxos
<1>3. Ids(u.inputs) \subseteq IdsIn(view.utxos)
  BY IdsInRange DEF DrawnFrom, IdsIn
<1> QED
  BY <1>1, <1>2, <1>3, NothingIsSeq DEF UtxosSpend, Apart, DrawnFrom, SeqUtxos

OnlyGuaranteed(u) == [s \in Segments |-> IF s = Guaranteed THEN u ELSE NoUtxos]

(* They leave over what their own inputs and outputs do. *)
LEMMA GuaranteedPlanLeaves ==
    ASSUME NEW u, Worth(u.inputs), Worth(u.outputs), \A t \in TokenTypes : OfferBalance(u, t) = 0,
           NEW utxos, utxos = OnlyGuaranteed(u), NEW intents, intents = PlannedIntent(utxos, <<>>), NEW plan, NEW f, NEW g, NEW ttl,
           IsPlan(plan, NoOffers, intents, f, g, ttl)
    PROVE  Leaves(plan, NothingLeft)
<1> DEFINE actions == <<>>
<1>4. intents = PlannedIntent(utxos, actions)
  OBVIOUS
<1>2. IsSeq(actions) /\ \A n \in DOMAIN actions : \A s \in Segments : actions[n].effects[s] = NoEffects
  BY NothingIsSeq
<1>3. \A t \in TokenTypes : NothingLeft[t] = IF t \in Shielded THEN 0 ELSE OfferBalance(u, t)
  BY DEF NothingLeft
<1> HIDE DEF actions
<1>1. /\ plan.offers = NoOffers /\ DOMAIN plan.intents = {IntentSegment}
      /\ plan.intents[IntentSegment].utxos = utxos /\ plan.intents[IntentSegment].actions = actions
  <2>1. plan.offers = NoOffers /\ plan.intents = intents
    BY DEF IsPlan
  <2>2. /\ DOMAIN intents = {IntentSegment}
        /\ intents[IntentSegment].utxos = utxos /\ intents[IntentSegment].actions = actions
    <3>1. intents = [s \in {IntentSegment} |-> [utxos |-> utxos, actions |-> actions]]
      BY <1>4 DEF PlannedIntent
    <3>2. intents[IntentSegment] = [utxos |-> utxos, actions |-> actions]
      BY <3>1
    <3> QED BY <3>1, <3>2
  <2> QED BY <2>1, <2>2
<1>5. utxos = [s \in Segments |-> IF s = Guaranteed THEN u ELSE NoUtxos]
  BY DEF OnlyGuaranteed
<1> QED
  BY <1>1, <1>2, <1>3, <1>5, UtxosLeave

(* An unshielded transfer is sound. *)
LEMMA UnshieldedHolds ==
    ASSUME NEW view, IsView(view), NEW request, request.ttl \in Nat \cup {Unknown}, request.pay \in BOOLEAN,
           request.amount \in Nat, NEW r, r = PrepareUnshielded(view, request)
    PROVE  Sound(view, request.pay, r) /\ (r.ok => Leaves(r.tx, NothingLeft))
<1> DEFINE cover == CoverValue(view.utxos, request.token, request.amount, request.strategy)
           payment == Payment(request.token, request.amount, request.to)
           outputs == <<payment>> \o ChangeTo(view, request.token, cover.change)
           u == [inputs |-> cover.chosen, outputs |-> outputs]
           utxos == [s \in Segments |-> IF s = Guaranteed THEN u ELSE NoUtxos]
           intents == GuaranteedUtxos(u)
           funding == Funding(view, request.pay)
           ttl == request.ttl
           plan == [NewPlan EXCEPT !.funding = funding, !.ttl = ttl, !.intents = intents]
           ids == Ids(cover.chosen)
           spent == [NoneSpent EXCEPT !.utxos = ids]
<1>1. r = IF cover.ok THEN Prepare(view, plan, spent) ELSE cover
  BY DEF PrepareUnshielded, IfOk
<1> SUFFICES ASSUME r.ok PROVE Sound(view, request.pay, r) /\ Leaves(r.tx, NothingLeft)
  BY DEF Sound
<1>2. cover.ok /\ r = Prepare(view, plan, spent)
  <2> HIDE DEF cover, plan, spent
  <2> QED BY <1>1
<1>3. DrawnFrom(cover.chosen, view.utxos)
  <2>1. DrawnFrom(cover.chosen, {x \in view.utxos : x.token = request.token})
    BY <1>2, CoverIsDrawn DEF IsView
  <2> HIDE DEF cover
  <2> QED BY <2>1 DEF DrawnFrom
<1>4. IsSeq(outputs)
  BY PaymentAndChange
<1>12. /\ Worth(cover.chosen) /\ (\A n \in DOMAIN cover.chosen : cover.chosen[n].token = request.token)
       /\ Value(cover.chosen) >= request.amount /\ cover.change = Value(cover.chosen) - request.amount
  BY <1>2, CoverCovers DEF IsView
<1> HIDE DEF cover
<1>13. Worth(u.inputs) /\ Worth(u.outputs) /\ \A t \in TokenTypes : OfferBalance(u, t) = 0
  <2>1. /\ u.inputs = cover.chosen /\ u.outputs = Joined(<<payment>>, ChangeTo(view, request.token, cover.change))
        /\ payment.token = request.token /\ payment.value = request.amount
    BY DEF Payment, Joined
  <2> HIDE DEF u, payment
  <2>2. /\ Worth(u.inputs) /\ Worth(u.outputs)
        /\ \A t \in TokenTypes : OfferBalance(u, t) = Difference(request.token, request.amount, payment.token, payment.value)[t]
    BY <1>12, <2>1, SpendAndChange
  <2>3. \A t \in TokenTypes : Difference(request.token, request.amount, request.token, request.amount)[t] = 0
    BY DifferenceIs
  <2> QED BY <2>1, <2>2, <2>3
<1> HIDE DEF outputs
<1>5. SeqUtxos(u) /\ u.inputs = cover.chosen
  BY <1>3, <1>4 DEF SeqUtxos, DrawnFrom
<1>6. IsSpent(spent) /\ spent.coins = {} /\ spent.utxos = ids
  BY DEF IsSpent, NoneSpent
<1>7. intents = PlannedIntent(utxos, <<>>)
  BY DEF GuaranteedUtxos
<1> HIDE DEF u
<1>8. UtxosSpend(view, utxos, spent)
  <2> HIDE DEF spent
  <2> QED BY <1>3, <1>5, <1>6, GuaranteedSpends
<1>9. IsPlan(plan, NoOffers, intents, funding, <<>>, ttl)
  <2>1. plan = [NewPlan EXCEPT !.funding = funding, !.ttl = ttl, !.intents = intents]
    OBVIOUS
  <2> HIDE DEF funding, ttl, intents, plan
  <2> QED BY <2>1, UnshieldedPlanIs
<1>14. Leaves(plan, NothingLeft)
  <2>1. utxos = OnlyGuaranteed(u)
    BY DEF OnlyGuaranteed
  <2> HIDE DEF plan, intents, utxos
  <2> QED BY <1>7, <1>9, <1>13, <2>1, GuaranteedPlanLeaves
<1> HIDE DEF plan, spent, intents, utxos
<1>10. (funding = <<>> \/ funding = <<view.dust>>) /\ (request.pay => PaysOwnFee(plan))
  <2>1. plan.funding = funding
    BY <1>9 DEF IsPlan
  <2> QED BY <2>1, FundingPays
<1> HIDE DEF funding
<1>11. GoodPlan(view, plan, spent) /\ ~ PlanCalls(plan)
  <2>1. OffersSpend(view, NoOffers, spent)
    BY <1>6, NoOffersSpend
  <2>2. ~ Calls(<<>>)
    BY NothingIsSeq DEF Calls
  <2> QED BY <1>6, <1>7, <1>8, <1>9, <1>10, <2>1, <2>2, NothingIsSeq, IntentPlanIsGood
<1>15. Sound(view, request.pay, r)
  BY <1>2, <1>10, <1>11, PlanIsSound
<1>16. Leaves(r.tx, NothingLeft)
  BY <1>2, <1>11, <1>14, PrepareHolds, KeepsLeaves
<1> QED
  BY <1>15, <1>16

(* Of finitely many, one has the most. *)
LEMMA GreatestIn ==
    ASSUME NEW S, IsFiniteSet(S), S # {}, NEW f, \A x \in S : f[x] \in Nat
    PROVE  \E x \in S : \A y \in S : f[y] <= f[x]
<1> DEFINE Above(x) == {y \in S : f[x] < f[y]}
           counts == {Cardinality(Above(x)) : x \in S}
<1>1. \A x \in S : IsFiniteSet(Above(x)) /\ Cardinality(Above(x)) \in Nat
  BY FS_Subset, FS_CardinalityType
<1>2. counts \in SUBSET Nat /\ counts # {}
  BY <1>1
<1>3. PICK n \in counts : \A m \in counts : n <= m
  <2> HIDE DEF counts
  <2> QED BY <1>2, LeastNat
<1>4. PICK x \in S : n = Cardinality(Above(x))
  OBVIOUS
<1>5. ASSUME NEW y \in S, ~(f[y] <= f[x]) PROVE FALSE
  <2>1. f[x] < f[y]
    BY <1>5
  <2>2. Above(y) \in SUBSET Above(x) /\ y \in Above(x) /\ y \notin Above(y)
    BY <2>1
  <2>3. IsFiniteSet(Above(x)) /\ Cardinality(Above(x)) \in Nat /\ Cardinality(Above(y)) \in Nat
    BY <1>1
  <2>4. Cardinality(Above(y)) \in counts
    OBVIOUS
  <2> HIDE DEF Above, counts
  <2>5. Cardinality(Above(y)) < Cardinality(Above(x))
    BY <2>2, <2>3, FewerIn
  <2> QED BY <1>3, <1>4, <2>3, <2>4, <2>5
<1> QED
  BY <1>5

\* The ages of NIGHT are known, or guesses.
KnownAges(view) == \A u \in view.utxos : u.token = "night" => u.ctime \in Int

(* A product of natural numbers. *)
LEMMA ProductIsNat == \A a, b \in Nat : a * b \in Nat
  OBVIOUS

(* The Dust that NIGHT has accrued is a number. *)
LEMMA AvailabilityIsNat ==
    ASSUME NEW view, IsView(view), NEW u \in view.utxos, NEW ctime \in Int
    PROVE  Availability(view, u, ctime) \in Nat
<1> DEFINE age == Max({0, view.tblock - ctime})
           accrued == age * u.value * view.decay
           cap == u.value * view.ratio
<1>1. view.tblock \in Nat /\ view.decay \in Nat /\ view.ratio \in Nat /\ u.value \in Nat
  BY DEF IsView, IsStock
<1>2. age \in Nat
  <2>1. view.tblock - ctime \in Int /\ 0 \in Int
    BY <1>1
  <2>2. Max({0, view.tblock - ctime}) = IF 0 >= view.tblock - ctime THEN 0 ELSE view.tblock - ctime
    BY <2>1, MaxOf
  <2> QED BY <2>1, <2>2
<1>3. Availability(view, u, ctime) = Min({accrued, cap})
  BY DEF Availability
<1> HIDE DEF age
<1>4. accrued \in Nat /\ cap \in Nat
  BY <1>1, <1>2, ProductIsNat
<1> HIDE DEF accrued, cap
<1>5. Min({accrued, cap}) = IF accrued <= cap THEN accrued ELSE cap
  <2>1. accrued \in Int /\ cap \in Int
    BY <1>4
  <2> QED BY <2>1, MaxOf
<1> QED
  BY <1>3, <1>4, <1>5

(* When NIGHT was created. *)
LEMMA CreatedIsInt ==
    ASSUME NEW view, IsView(view), KnownAges(view), NEW request, request.ctime \in Int,
           NEW u \in view.utxos, u.token = "night"
    PROVE  CreatedAt(view, request, u) \in Int
<1>1. view.tblock \in Nat /\ u.ctime \in Int
  BY DEF IsView, KnownAges
<1>2. Max({0, view.tblock - 1}) \in Int
  <2>1. view.tblock - 1 \in Int /\ 0 \in Int
    BY <1>1
  <2>2. Max({0, view.tblock - 1}) = IF 0 >= view.tblock - 1 THEN 0 ELSE view.tblock - 1
    BY <2>1, MaxOf
  <2> QED BY <2>1, <2>2
<1> QED
  BY <1>1, <1>2 DEF CreatedAt

\* One with the most, of those whose age is known if there are any.
Ranked(open)    == LET known == {u \in open : u.ctime # Unknown} IN IF known # {} THEN known ELSE open
Best(ranked, f) == CHOOSE u \in ranked : \A v \in ranked : f[v] <= f[u]

(* It is one of those that are open. *)
LEMMA ChosenIs ==
    ASSUME NEW open, IsFiniteSet(open), open # {}, NEW f, \A u \in open : f[u] \in Nat
    PROVE  Best(Ranked(open), f) \in open
<1> DEFINE ranked == Ranked(open)
<1>1. ranked \in SUBSET open /\ ranked # {}
  BY DEF Ranked
<1> HIDE DEF ranked
<1>2. IsFiniteSet(ranked) /\ \A u \in ranked : f[u] \in Nat
  BY <1>1, FS_Subset
<1>3. \E u \in ranked : \A v \in ranked : f[v] <= f[u]
  BY <1>1, <1>2, GreatestIn
<1>4. Best(ranked, f) \in open
  BY <1>1, <1>3 DEF Best
<1> QED
  BY <1>4 DEF ranked

(* A registration, as it is chosen. *)
LEMMA RegisterIs ==
    ASSUME NEW view, IsView(view), KnownAges(view), NEW request, request.ctime \in Int,
           NEW r, r = PrepareRegisterDust(view, request), r.ok
    PROVE  \E chosen \in view.utxos, available \in Nat : chosen.token = "night" /\ r = Register(view, request, chosen, available)
<1> DEFINE open == {u \in view.utxos : u.token = "night" /\ ~ u.registered}
           available == [u \in open |-> Availability(view, u, CreatedAt(view, request, u))]
           ranked == Ranked(open)
           chosen == ChooseRegistrationInput(open, available)
           best == Best(ranked, available)
<1>1. open # {} /\ r = Register(view, request, chosen, available[chosen])
  <2>1. open # {}
    BY RefusedIs, Zenon DEF PrepareRegisterDust
  <2> QED BY <2>1, Zenon DEF PrepareRegisterDust
<1>2. \A u \in open : available[u] \in Nat
  BY AvailabilityIsNat, CreatedIsInt
<1>3. chosen = best
  <2> HIDE DEF open, available
  <2> QED BY DEF ChooseRegistrationInput, Ranked, Best
<1>4. chosen \in open
  <2>1. IsFiniteSet(open)
    BY FS_Subset DEF IsView, IsStock
  <2>2. best \in open
    <3> HIDE DEF open, available
    <3> QED BY <1>1, <1>2, <2>1, ChosenIs
  <2> HIDE DEF best, chosen
  <2> QED BY <1>3, <2>2
<1>5. chosen \in view.utxos /\ chosen.token = "night" /\ available[chosen] \in Nat
  BY <1>2, <1>4
<1> QED
  BY <1>1, <1>5

(* A registration is sound. *)
LEMMA RegisterHolds ==
    ASSUME NEW view, IsView(view), NEW request, request.ttl \in Nat \cup {Unknown},
           NEW chosen \in view.utxos, NEW available \in Nat,
           chosen.token = "night", NEW r, r = Register(view, request, chosen, available)
    PROVE  Sound(view, TRUE, r) /\ (r.ok => Leaves(r.tx, NothingLeft))
<1> DEFINE payment == Payment("night", chosen.value, view.wallet)
           u == [inputs |-> <<chosen>>, outputs |-> <<payment>>]
           utxos == [s \in Segments |-> IF s = Guaranteed THEN u ELSE NoUtxos]
           intents == GuaranteedUtxos(u)
           ttl == request.ttl
           reg == [value |-> available, utxo |-> chosen.id, to |-> request.target]
           registrations == <<reg>>
           plan == [NewPlan EXCEPT !.ttl = ttl, !.intents = intents, !.registrations = registrations]
           spent == [NoneSpent EXCEPT !.utxos = {chosen.id}]
<1>1. r = Prepare(view, plan, spent)
  BY DEF Register
<1>2. DrawnFrom(<<chosen>>, view.utxos) /\ Ids(<<chosen>>) = {chosen.id}
  BY OneIsSeq DEF DrawnFrom
<1>3. SeqUtxos(u) /\ u.inputs = <<chosen>>
  BY OneIsSeq DEF SeqUtxos
<1>11. Worth(u.inputs) /\ Worth(u.outputs) /\ \A t \in TokenTypes : OfferBalance(u, t) = 0
  <2>1. chosen.value \in Nat
    BY DEF IsView, IsStock
  <2>2. payment.value = chosen.value /\ payment.token = "night" /\ u.inputs = <<chosen>> /\ u.outputs = <<payment>>
    BY DEF Payment
  <2> HIDE DEF u, payment
  <2>3. /\ Worth(u.inputs) /\ Worth(u.outputs)
        /\ \A t : ValueOf(u.inputs, t) = IF t = "night" THEN chosen.value ELSE 0
        /\ \A t : ValueOf(u.outputs, t) = IF t = "night" THEN chosen.value ELSE 0
    BY <2>1, <2>2, ValueOfOne
  <2> QED BY <2>1, <2>3 DEF OfferBalance
<1>4. IsSpent(spent) /\ spent.coins = {} /\ spent.utxos = {chosen.id}
  BY DEF IsSpent, NoneSpent
<1>5. intents = PlannedIntent(utxos, <<>>)
  BY DEF GuaranteedUtxos
<1> HIDE DEF u
<1>6. UtxosSpend(view, utxos, spent)
  <2> HIDE DEF spent
  <2> QED BY <1>2, <1>3, <1>4, GuaranteedSpends
<1>7. Worth(registrations) /\ registrations # <<>>
  <2>1. reg.value = available
    OBVIOUS
  <2> HIDE DEF reg
  <2>2. Worth(registrations) /\ Len(registrations) = 1 /\ Len(<<>>) = 0
    BY <2>1, OneIsSeq, NothingIsSeq
  <2> QED BY <2>2
<1> HIDE DEF registrations
<1>8. IsPlan(plan, NoOffers, intents, <<>>, registrations, ttl)
  <2>1. plan = [NewPlan EXCEPT !.ttl = ttl, !.intents = intents, !.registrations = registrations]
    OBVIOUS
  <2> HIDE DEF ttl, intents, plan
  <2> QED BY <2>1, RegisterPlanIs
<1>12. Leaves(plan, NothingLeft)
  <2>1. utxos = OnlyGuaranteed(u)
    BY DEF OnlyGuaranteed
  <2> HIDE DEF plan, intents, utxos
  <2> QED BY <1>5, <1>8, <1>11, <2>1, GuaranteedPlanLeaves
<1> HIDE DEF plan, spent, intents, utxos
<1>9. PaysOwnFee(plan)
  BY <1>7, <1>8 DEF IsPlan, PaysOwnFee
<1>10. GoodPlan(view, plan, spent) /\ ~ PlanCalls(plan)
  <2>1. OffersSpend(view, NoOffers, spent)
    BY <1>4, NoOffersSpend
  <2>2. ~ Calls(<<>>)
    BY NothingIsSeq DEF Calls
  <2> QED BY <1>4, <1>5, <1>6, <1>7, <1>8, <2>1, <2>2, NothingIsSeq, IntentPlanIsGood
<1>13. Sound(view, TRUE, r)
  BY <1>1, <1>9, <1>10, PlanIsSound
<1>14. r.ok => Leaves(r.tx, NothingLeft)
  BY <1>1, <1>10, <1>12, PrepareHolds, KeepsLeaves
<1> QED
  BY <1>13, <1>14

\* What a request leaves over.
LeftByRequest(request) ==
  IF request.kind = "swap" THEN Difference(request.give, request.given, request.take, request.taken) ELSE NothingLeft

(* A transfer is sound, whatever is asked. *)
LEMMA TransferHolds ==
    ASSUME NEW view, IsView(view), KnownAges(view), NEW request, IsRequest(request),
           NEW r, r = Transfer(view, request)
    PROVE  Sound(view, Pays(request), r) /\ (r.ok => Leaves(r.tx, LeftByRequest(request)))
<1>1. request.ttl \in Nat \cup {Unknown}
  BY DEF IsRequest
<1>2. CASE request.kind = "shielded"
  <2>1. request.pay \in BOOLEAN /\ (Pays(request) <=> request.pay)
    BY <1>2 DEF IsRequest, Pays
  <2>2. r = PrepareShielded(view, request)
    BY <1>2 DEF Transfer
  <2> DEFINE payment == Payment(request.token, request.amount, request.to)
  <2>3. payment.token = request.token /\ payment.value = request.amount /\ request.amount \in Nat
    BY <1>2 DEF Payment, IsRequest
  <2>4. \A t \in TokenTypes : NothingLeft[t] = IF t \in Shielded THEN Difference(request.token, request.amount, payment.token, payment.value)[t] ELSE 0
    BY <2>3, DifferenceIs DEF NothingLeft
  <2>5. r = PrepareShieldedOffer(view, request, request.token, request.amount, payment, request.pay)
    BY <2>2 DEF PrepareShielded
  <2> HIDE DEF payment
  <2>6. Sound(view, request.pay, r) /\ (r.ok => Leaves(r.tx, NothingLeft))
    BY <1>1, <2>1, <2>3, <2>4, <2>5, ShieldedOfferHolds
  <2>7. LeftByRequest(request) = NothingLeft
    BY <1>2 DEF LeftByRequest
  <2> QED BY <2>1, <2>6, <2>7 DEF Sound
<1>3. CASE request.kind = "unshielded"
  <2>1. request.pay \in BOOLEAN /\ (Pays(request) <=> request.pay)
    BY <1>3 DEF IsRequest, Pays
  <2>2. r = PrepareUnshielded(view, request)
    BY <1>3 DEF Transfer
  <2>3. Sound(view, request.pay, r) /\ (r.ok => Leaves(r.tx, NothingLeft))
    <3>1. request.amount \in Nat
      BY <1>3 DEF IsRequest
    <3> QED BY <1>1, <2>1, <2>2, <3>1, UnshieldedHolds
  <2>4. LeftByRequest(request) = NothingLeft
    BY <1>3 DEF LeftByRequest
  <2> QED BY <2>1, <2>3, <2>4 DEF Sound
<1>4. CASE request.kind = "swap"
  <2>1. ~ Pays(request)
    BY <1>4 DEF Pays
  <2>2. r = PrepareShieldedSwap(view, request)
    BY <1>4 DEF Transfer
  <2> DEFINE payment == Payment(request.take, request.taken, view.wallet)
             left == Difference(request.give, request.given, request.take, request.taken)
  <2>3. /\ payment.token = request.take /\ payment.value = request.taken
        /\ request.given \in Nat /\ request.taken \in Nat /\ request.give \in Shielded /\ request.take \in Shielded
    BY <1>4 DEF Payment, IsRequest
  <2>4. \A t \in TokenTypes : left[t] = IF t \in Shielded THEN Difference(request.give, request.given, payment.token, payment.value)[t] ELSE 0
    BY <2>3 DEF Difference
  <2>5. r = PrepareShieldedOffer(view, request, request.give, request.given, payment, FALSE)
    BY <2>2 DEF PrepareShieldedSwap
  <2>6. left = LeftByRequest(request)
    BY <1>4 DEF LeftByRequest
  <2> DEFINE pay == FALSE
  <2>8. pay \in BOOLEAN /\ r = PrepareShieldedOffer(view, request, request.give, request.given, payment, pay)
    BY <2>5
  <2> HIDE DEF payment, left, pay
  <2>9. Sound(view, pay, r) /\ (r.ok => Leaves(r.tx, left))
    BY <1>1, <2>3, <2>4, <2>8, ShieldedOfferHolds
  <2>7. Sound(view, FALSE, r) /\ (r.ok => Leaves(r.tx, left))
    BY <2>9 DEF pay
  <2> QED BY <2>1, <2>6, <2>7 DEF Sound
<1>5. CASE request.kind = "register"
  <2>1. request.ctime \in Int
    BY <1>5 DEF IsRequest, Unknown
  <2>2. r = PrepareRegisterDust(view, request)
    BY <1>5 DEF Transfer
  <2>3. ASSUME r.ok PROVE Sound(view, TRUE, r) /\ Leaves(r.tx, NothingLeft)
    <3>1. PICK chosen \in view.utxos, available \in Nat : chosen.token = "night" /\ r = Register(view, request, chosen, available)
      BY <2>1, <2>2, <2>3, RegisterIs
    <3> QED BY <1>1, <2>3, <3>1, RegisterHolds
  <2>4. LeftByRequest(request) = NothingLeft
    BY <1>5 DEF LeftByRequest
  <2> QED BY <2>3, <2>4 DEF Sound
<1> QED
  BY <1>2, <1>3, <1>4, <1>5 DEF IsRequest

(***************************************************************************)
(* Circuit calls                                                           *)
(***************************************************************************)
\* Offers that hold coins for others, and spend none of the caller's.
OnlyOutputs(offers) == \A s \in Segments : SeqOffer(offers[s]) /\ offers[s].inputs = <<>>

(* One more at the end of a sequence. *)
LEMMA AppendSeq ==
    ASSUME NEW s, IsSeq(s), NEW x
    PROVE  IsSeq(Append(s, x))
<1>1. s \in Seq(Range(s) \cup {x}) /\ x \in Range(s) \cup {x}
  <2>1. Len(s) \in Nat /\ DOMAIN s = 1..Len(s) /\ s \in [1..Len(s) -> Range(s)]
    BY SeqIsSeq DEF IsSeq
  <2>2. s \in [1..Len(s) -> Range(s) \cup {x}]
    BY <2>1
  <2> QED BY <2>1, <2>2
<1>2. Append(s, x) \in Seq(Range(s) \cup {x})
  BY <1>1
<1> QED
  BY <1>2, SeqIsSeq

(* A coin of the circuit adds no input to the offers. *)
LEMMA JoinsHolds ==
    ASSUME NEW offers, OnlyOutputs(offers), NEW s, NEW kind \in {"outputs", "transients"}, NEW coin
    PROVE  OnlyOutputs(Joins(offers, s, kind, coin))
<1> DEFINE new == Joins(offers, s, kind, coin)
<1>1. ASSUME NEW t \in Segments PROVE SeqOffer(new[t]) /\ new[t].inputs = <<>>
  <2> DEFINE Put(k) == IF t = s /\ k = kind THEN Append(offers[t][k], coin) ELSE offers[t][k]
  <2>1. DOMAIN NoOffer = {"inputs", "outputs", "transients"}
    BY DEF NoOffer
  <2>2. new[t] = [k \in {"inputs", "outputs", "transients"} |-> Put(k)]
    BY <2>1 DEF Joins
  <2>3. /\ Put("inputs") = offers[t].inputs
        /\ Put("outputs") = offers[t].outputs \/ Put("outputs") = Append(offers[t].outputs, coin)
        /\ Put("transients") = offers[t].transients \/ Put("transients") = Append(offers[t].transients, coin)
    OBVIOUS
  <2>4. /\ IsSeq(offers[t].outputs) /\ IsSeq(offers[t].transients) /\ offers[t].inputs = <<>>
    BY DEF OnlyOutputs, SeqOffer
  <2>5. IsSeq(Put("outputs")) /\ IsSeq(Put("transients")) /\ Put("inputs") = <<>>
    <3>1. IsSeq(Append(offers[t].outputs, coin)) /\ IsSeq(Append(offers[t].transients, coin))
      BY <2>4, AppendSeq
    <3> HIDE DEF Put
    <3> QED BY <2>3, <2>4, <3>1
  <2> HIDE DEF Put, new
  <2>6. new[t].inputs = Put("inputs") /\ new[t].outputs = Put("outputs") /\ new[t].transients = Put("transients")
    BY <2>2
  <2>7. new[t] = [inputs |-> new[t].inputs, outputs |-> new[t].outputs, transients |-> new[t].transients]
    BY <2>2, <2>6
  <2> QED BY <2>5, <2>6, <2>7, NothingIsSeq DEF SeqOffer
<1> QED
  BY <1>1 DEF OnlyOutputs

(* Nor does the next coin of the circuit, whatever it is. *)
LEMMA AddOutputHolds ==
    ASSUME NEW view, NEW call, NEW c, OnlyOutputs(c.offers), NEW o
    PROVE  OnlyOutputs(AddOutput(view, call, c, o).offers)
<1> DEFINE commitment == Commitment(o, o.to)
           s == SegmentOf(call, commitment)
           coin == OutputOf(view, call, o)
           new == AddOutput(view, call, c, o)
<1>1. new.offers = Joins(c.offers, s, "transients", coin) \/ new.offers = Joins(c.offers, s, "outputs", coin)
  <2>1. CASE Contains(c.pending, commitment)
    BY <2>1 DEF AddOutput
  <2>2. CASE ~ Contains(c.pending, commitment)
    BY <2>2 DEF AddOutput
  <2> QED BY <2>1, <2>2
<1> HIDE DEF s, coin, new
<1>2. OnlyOutputs(new.offers)
  BY <1>1, JoinsHolds
<1> QED
  BY <1>2 DEF new

(* The coins of the circuit, one after the other. *)
CircuitStep(f, view, call, n) ==
  IF n = 0 THEN NoneAdded(call) ELSE AddOutput(view, call, f[n - 1], call.outputs[n])
IsCircuit(f, view, call, N) == f = [n \in 0..N |-> CircuitStep(f, view, call, n)]

(* There is a function that adds the coins of a circuit, however many. *)
LEMMA CircuitExists ==
    ASSUME NEW view, NEW call, NEW N \in Nat
    PROVE  \E f : IsCircuit(f, view, call, N)
<1> DEFINE T == {n \in 0..N : \E f : IsCircuit(f, view, call, n)}
<1>1. 0 \in T
  <2> DEFINE first == [n \in 0..0 |-> NoneAdded(call)]
  <2>1. \A n \in 0..0 : CircuitStep(first, view, call, n) = NoneAdded(call)
    BY DEF CircuitStep
  <2>2. IsCircuit(first, view, call, 0)
    BY <2>1 DEF IsCircuit
  <2> HIDE DEF first
  <2> QED BY <2>2
<1>2. ASSUME NEW n \in 0..N, n < N, n \in T PROVE n + 1 \in T
  <2>1. PICK f : IsCircuit(f, view, call, n)
    BY <1>2
  <2> DEFINE longer == [i \in 0..(n + 1) |-> IF i = n + 1 THEN CircuitStep(f, view, call, n + 1) ELSE f[i]]
  <2>2. ASSUME NEW i \in 0..(n + 1) PROVE longer[i] = CircuitStep(longer, view, call, i)
    <3>1. CASE i # n + 1
      <4>1. longer[i] = f[i] /\ f[i] = CircuitStep(f, view, call, i)
        BY <3>1, <2>1 DEF IsCircuit
      <4>2. i # 0 => longer[i - 1] = f[i - 1]
        BY <3>1
      <4> HIDE DEF longer
      <4> QED BY <4>1, <4>2 DEF CircuitStep
    <3>2. CASE i = n + 1
      <4>1. longer[i] = CircuitStep(f, view, call, n + 1)
        BY <3>2
      <4>2. longer[i - 1] = f[i - 1] /\ i - 1 = n /\ i # 0
        BY <3>2
      <4> HIDE DEF longer
      <4> QED BY <4>1, <4>2, <3>2 DEF CircuitStep
    <3> QED BY <3>1, <3>2
  <2>3. IsCircuit(longer, view, call, n + 1)
    <3>1. longer = [i \in 0..(n + 1) |-> longer[i]]
      OBVIOUS
    <3> HIDE DEF longer
    <3> QED BY <2>2, <3>1 DEF IsCircuit
  <2>4. n + 1 \in 0..N
    BY <1>2
  <2> HIDE DEF longer
  <2> QED BY <2>3, <2>4
<1>3. 0..N \subseteq T
  <2> HIDE DEF T
  <2> QED BY <1>1, <1>2, SetInduction
<1> QED
  BY <1>3

(* The coins of the circuit add no input to the offers. *)
LEMMA CircuitHolds ==
    ASSUME NEW view, NEW call, IsSeq(call.outputs)
    PROVE  OnlyOutputs(CircuitOffers(view, call).offers)
<1> DEFINE N == Len(call.outputs)
           f == CHOOSE g : IsCircuit(g, view, call, N)
           T == {n \in 0..N : OnlyOutputs(f[n].offers)}
<1>1. N \in Nat
  BY SeqIsSeq DEF IsSeq
<1> HIDE DEF N
<1>2. IsCircuit(f, view, call, N)
  BY <1>1, CircuitExists
<1>3. CircuitOffers(view, call) = f[N]
  BY DEF CircuitOffers, IsCircuit, CircuitStep, N
<1> HIDE DEF f
<1>4. \A n \in 0..N : f[n] = CircuitStep(f, view, call, n)
  BY <1>2 DEF IsCircuit
<1>5. 0 \in T
  <2>1. f[0] = NoneAdded(call)
    BY <1>1, <1>4 DEF CircuitStep
  <2>2. NoneAdded(call).offers = NoOffers
    BY DEF NoneAdded
  <2>3. OnlyOutputs(NoOffers)
    BY OffersAre DEF OnlyOutputs
  <2> QED BY <1>1, <2>1, <2>2, <2>3
<1>6. ASSUME NEW n \in 0..N, n < N, n \in T PROVE n + 1 \in T
  <2>1. n + 1 \in 0..N /\ n + 1 # 0 /\ (n + 1) - 1 = n
    BY <1>1, <1>6
  <2>2. f[n + 1] = AddOutput(view, call, f[n], call.outputs[n + 1])
    BY <1>4, <2>1 DEF CircuitStep
  <2>3. OnlyOutputs(f[n].offers)
    BY <1>6
  <2> QED BY <2>1, <2>2, <2>3, AddOutputHolds
<1>7. 0..N \subseteq T
  <2> HIDE DEF T
  <2> QED BY <1>1, <1>5, <1>6, SetInduction
<1>8. OnlyOutputs(f[N].offers)
  BY <1>1, <1>7
<1> QED
  BY <1>3, <1>8

(* Some of the coins in a sequence. *)
LEMMA StockInSeq ==
    ASSUME NEW xs, IsStock(xs), NEW S \in SUBSET xs
    PROVE  DrawnFrom(SetToSeq(S), xs) /\ Ids(SetToSeq(S)) = IdsIn(S) /\ Range(SetToSeq(S)) = S
<1> DEFINE line == SetToSeq(S)
<1>1. IsFiniteSet(S)
  BY FS_Subset DEF IsStock
<1>2. line \in Seq(S) /\ Range(line) = S /\ IsInjective(line)
  BY <1>1, SetInSeq
<1> HIDE DEF line
<1>3. IsSeq(line)
  BY <1>2, SeqIsSeq
<1>4. \A n \in DOMAIN line : line[n] \in xs
  BY <1>2 DEF Range
<1>5. Distinct(line)
  BY <1>2, <1>4 DEF Distinct, IsInjective, IsStock
<1>6. Ids(line) = IdsIn(S)
  BY <1>2, IdsInRange DEF IdsIn
<1>7. DrawnFrom(line, xs)
  BY <1>2, <1>3, <1>5 DEF DrawnFrom
<1> QED
  BY <1>2, <1>6, <1>7 DEF line

(* What is drawn from a stock is a part of it. *)
LEMMA DrawnIsPart ==
    ASSUME NEW xs, IsStock(xs), NEW s, DrawnFrom(s, xs)
    PROVE  Range(s) \in SUBSET xs /\ IdsIn(Range(s)) = Ids(s) /\ IsStock(Range(s))
  BY IdsInRange, PartOfStock DEF DrawnFrom, IdsIn

(* The domain of what is owed is one of keys that are attached. *)
LEMMA KeysAreFinite ==
    ASSUME NEW entries, IsSeq(entries)
    PROVE  IsFiniteSet(DOMAIN TotalByKey(entries))
<1> DEFINE keys == [n \in DOMAIN entries |-> entries[n].key]
<1>1. Len(entries) \in Nat /\ DOMAIN entries = 1..Len(entries)
  BY SeqIsSeq DEF IsSeq
<1>2. IsFiniteSet(DOMAIN entries)
  BY <1>1, FS_Interval
<1>3. DOMAIN TotalByKey(entries) = {keys[n] : n \in DOMAIN entries}
  BY DEF TotalByKey
<1> HIDE DEF keys
<1>4. IsFiniteSet({keys[n] : n \in DOMAIN entries})
  <2>1. keys \in Surjection(DOMAIN entries, {keys[n] : n \in DOMAIN entries})
    <3>1. DOMAIN keys = DOMAIN entries /\ keys = [n \in DOMAIN keys |-> keys[n]]
      BY DEF keys
    <3> QED BY <3>1 DEF Surjection
  <2> QED BY <1>2, <2>1, FS_Surjection
<1> QED
  BY <1>3, <1>4

(* There is change for finitely many keys. *)
LEMMA ChangeKeys ==
    ASSUME NEW attached, NEW drawn, NEW minted, IsFiniteSet(DOMAIN attached)
    PROVE  IsFiniteSet(DOMAIN ChangeDue(attached, drawn, minted))
<1>1. DOMAIN ChangeDue(attached, drawn, minted) \subseteq DOMAIN attached
  BY DEF ChangeDue
<1> HIDE DEF ChangeDue
<1> QED
  BY <1>1, FS_Subset

(* The outputs of change are a sequence. *)
LEMMA ChangeIsSeq ==
    ASSUME NEW view, NEW change, IsFiniteSet(DOMAIN change), NEW s
    PROVE  IsSeq(ChangeIn(view, change, s))
<1> DEFINE some == {k \in DOMAIN change : k[2] = s}
           keys == SetToSeq(some)
           f == [n \in DOMAIN keys |-> Payment(keys[n][1], change[keys[n]], view.wallet)]
<1>1. IsFiniteSet(some)
  BY FS_Subset
<1>2. IsSeq(keys)
  <2>1. keys \in Seq(some)
    BY <1>1, SetInSeq
  <2> HIDE DEF keys
  <2> QED BY <2>1, SeqIsSeq
<1>3. ChangeIn(view, change, s) = f
  BY DEF ChangeIn
<1> HIDE DEF keys
<1>4. DOMAIN f = DOMAIN keys /\ f = [n \in DOMAIN f |-> f[n]]
  OBVIOUS
<1> HIDE DEF f
<1> QED
  BY <1>2, <1>3, <1>4, MapSeq

(* So are the payments that are asked for. *)
LEMMA PaidOutIsSeq ==
    ASSUME NEW payouts, IsSeq(payouts)
    PROVE  IsSeq(PaidOut(payouts))
<1> DEFINE f == PaidOut(payouts)
<1>1. DOMAIN f = DOMAIN payouts /\ f = [n \in DOMAIN f |-> f[n]]
  BY DEF PaidOut
<1> HIDE DEF f
<1>2. IsSeq(f)
  BY <1>1, MapSeq
<1> QED
  BY <1>2 DEF f

(* A segment of what is attached. *)
LEMMA AttachedIs ==
    ASSUME NEW i, IsSeq(i), NEW o, IsSeq(o), NEW p, IsSeq(p), NEW t, IsSeq(t), NEW offer,
           offer = [inputs |-> i, outputs |-> o \o p, transients |-> t]
    PROVE  SeqOffer(offer) /\ offer.inputs = i
<1> DEFINE out == o \o p
<1>1. IsSeq(out)
  BY ConcatSeq
<1> HIDE DEF out
<1>2. offer.inputs = i /\ offer.outputs = out /\ offer.transients = t
  BY DEF out
<1>3. offer = [inputs |-> offer.inputs, outputs |-> offer.outputs, transients |-> offer.transients]
  BY <1>2 DEF out
<1> QED
  BY <1>1, <1>2, <1>3 DEF SeqOffer

\* The coins that ride in a segment.
Riding(circuit, coins, s) == {c \in Range(coins) : ShieldedInputSegment(circuit, c.token) = s}

(* The offers of a call spend the coins that the caller attaches. *)
LEMMA AttachCoinsHolds ==
    ASSUME NEW view, IsView(view), NEW circuit, OnlyOutputs(circuit.offers), NEW coins, DrawnFrom(coins, view.coins),
           NEW change, IsFiniteSet(DOMAIN change), NEW spent, spent.coins = Ids(coins),
           NEW r, r = AttachCoins(view, circuit, coins, change)
    PROVE  r.ok /\ OffersSpend(view, r.offers, spent)
<1> DEFINE In(s) == SetToSeq(Riding(circuit, coins, s))
           Back(s) == ChangeIn(view, change, s)
<1>1. IsStock(view.coins) /\ Range(coins) \in SUBSET view.coins /\ IdsIn(Range(coins)) = Ids(coins)
  BY DrawnIsPart DEF IsView
<1>2. ASSUME NEW s \in Segments
      PROVE  r.offers[s] = [inputs |-> In(s), outputs |-> circuit.offers[s].outputs \o Back(s),
                            transients |-> circuit.offers[s].transients]
  BY DEF AttachCoins, Riding
<1>3. \A s : Riding(circuit, coins, s) \in SUBSET view.coins
  BY <1>1 DEF Riding
<1>4. \A s : DrawnFrom(In(s), view.coins) /\ Ids(In(s)) = IdsIn(Riding(circuit, coins, s))
  BY <1>1, <1>3, StockInSeq
<1>5. \A s : IsSeq(Back(s))
  BY ChangeIsSeq
<1>6. r.ok
  BY DEF AttachCoins
<1> HIDE DEF In, Back
<1>7. ASSUME NEW s \in Segments PROVE SeqOffer(r.offers[s]) /\ r.offers[s].inputs = In(s)
  <2>1. IsSeq(In(s)) /\ IsSeq(Back(s)) /\ IsSeq(circuit.offers[s].outputs) /\ IsSeq(circuit.offers[s].transients)
    BY <1>4, <1>5 DEF DrawnFrom, OnlyOutputs, SeqOffer
  <2> DEFINE i == In(s)
             o == circuit.offers[s].outputs
             p == Back(s)
             t == circuit.offers[s].transients
             offer == r.offers[s]
  <2>2. offer = [inputs |-> i, outputs |-> o \o p, transients |-> t]
    BY <1>2
  <2>3. IsSeq(i) /\ IsSeq(o) /\ IsSeq(p) /\ IsSeq(t)
    BY <2>1
  <2> HIDE DEF i, o, p, t, offer
  <2>4. SeqOffer(offer) /\ offer.inputs = i
    BY <2>2, <2>3, AttachedIs
  <2> QED BY <2>4 DEF offer, i
<1>8. IdsIn(Riding(circuit, coins, Guaranteed)) \cap IdsIn(Riding(circuit, coins, IntentSegment)) = {}
  BY <1>1 DEF Riding, IdsIn, IsStock, Guaranteed, IntentSegment
<1>9. IdsIn(Riding(circuit, coins, Guaranteed)) \cup IdsIn(Riding(circuit, coins, IntentSegment)) = IdsIn(Range(coins))
  BY DEF Riding, IdsIn, ShieldedInputSegment
<1>10. IdsIn(Range(coins)) \subseteq IdsIn(view.coins)
  BY <1>1 DEF IdsIn
<1>11. Guaranteed \in Segments /\ IntentSegment \in Segments
  BY OffersAre
<1>12. Distinct(In(Guaranteed)) /\ Distinct(In(IntentSegment))
  BY <1>4 DEF DrawnFrom
<1> QED
  BY <1>1, <1>4, <1>6, <1>7, <1>8, <1>9, <1>10, <1>11, <1>12 DEF OffersSpend, Apart

(* So they do when no coin is ambiguous and no total overflows. *)
LEMMA AttachInputsHolds ==
    ASSUME NEW view, IsView(view), NEW circuit, OnlyOutputs(circuit.offers), NEW coins, DrawnFrom(coins, view.coins),
           NEW minted, NEW spent, spent.coins = Ids(coins),
           NEW r, r = AttachInputs(view, circuit, coins, minted), r.ok
    PROVE  OffersSpend(view, r.offers, spent)
<1> DEFINE attached == ValueAttached(circuit, coins)
           change == ChangeDue(attached, TotalByKey(circuit.drawn), minted)
<1>1. r = AttachCoins(view, circuit, coins, change)
  <2>1. ~(\E n \in DOMAIN coins : RoutesOf(circuit, coins[n].token) = Segments)
    BY RefusedIs, Zenon DEF AttachInputs
  <2>2. ~ Overflows(attached)
    BY <2>1, RefusedIs, Zenon DEF AttachInputs
  <2> QED BY <2>1, <2>2, Zenon DEF AttachInputs
<1>2. IsFiniteSet(DOMAIN attached)
  <2> DEFINE entries == [n \in DOMAIN coins |-> Entry(<<coins[n].token, ShieldedInputSegment(circuit, coins[n].token)>>, coins[n].value)]
  <2>1. DOMAIN entries = DOMAIN coins /\ entries = [n \in DOMAIN entries |-> entries[n]]
    OBVIOUS
  <2>2. attached = TotalByKey(entries)
    BY DEF ValueAttached
  <2> HIDE DEF entries
  <2>3. IsSeq(entries)
    BY <2>1, MapSeq DEF DrawnFrom
  <2> HIDE DEF attached
  <2> QED BY <2>2, <2>3, KeysAreFinite
<1> HIDE DEF attached
<1>3. IsFiniteSet(DOMAIN change)
  BY <1>2, ChangeKeys
<1> HIDE DEF change
<1> QED
  BY <1>1, <1>3, AttachCoinsHolds

\* The UTXOs that pay the deposits of a segment.
Tokens(view, tokens) == {x \in view.utxos : x.token \in tokens}
IsDeposit(view, tokens, u) == SeqUtxos(u) /\ DrawnFrom(u.inputs, Tokens(view, tokens))

(* Two concatenated sequences, where the second one was flattened. *)
LEMMA OfferFromIs ==
    ASSUME NEW i, IsSeq(i), NEW o, IsSeq(o), NEW p, IsSeq(p), NEW u, u = [inputs |-> i, outputs |-> o \o p]
    PROVE  SeqUtxos(u) /\ u.inputs = i
<1> DEFINE out == o \o p
<1>1. IsSeq(out)
  BY ConcatSeq
<1> HIDE DEF out
<1>2. u.inputs = i /\ u.outputs = out
  BY DEF out
<1> QED
  BY <1>1, <1>2 DEF SeqUtxos

\* The draws for the deposits, none refused.
IsDrawing(view, deposits, tokens, draws) ==
  /\ IsSeq(tokens) /\ IsInjective(tokens) /\ Range(tokens) = DOMAIN deposits
  /\ DOMAIN draws = DOMAIN tokens /\ IsFun(draws)
  /\ \A n \in DOMAIN tokens : /\ DrawnFrom(draws[n].inputs, Tokens(view, {tokens[n]}))
                              /\ IsSeq(draws[n].outputs)

(* Each of the deposits of a segment is drawn from the UTXOs of its token. *)
LEMMA DrawsHold ==
    ASSUME NEW view, IsView(view), NEW deposits, IsFiniteSet(DOMAIN deposits),
           NEW draws, draws = Draws(view, deposits), \A n \in DOMAIN draws : draws[n].ok
    PROVE  IsDrawing(view, deposits, SetToSeq(DOMAIN deposits), draws)
<1> DEFINE tokens == SetToSeq(DOMAIN deposits)
<1>1. tokens \in Seq(DOMAIN deposits) /\ Range(tokens) = DOMAIN deposits /\ IsInjective(tokens)
  BY SetInSeq
<1>2. /\ DOMAIN draws = DOMAIN tokens /\ IsFun(draws)
      /\ \A n \in DOMAIN tokens : draws[n] = PrepareUnshieldedInputs(view, tokens[n], deposits[tokens[n]])
  BY DEF Draws, IsFun
<1> HIDE DEF tokens
<1>3. IsSeq(tokens)
  BY <1>1, SeqIsSeq
<1>4. ASSUME NEW n \in DOMAIN tokens
      PROVE  DrawnFrom(draws[n].inputs, Tokens(view, {tokens[n]})) /\ IsSeq(draws[n].outputs)
  <2> DEFINE t == tokens[n]
             d == draws[n]
             a == deposits[tokens[n]]
  <2>1. d = PrepareUnshieldedInputs(view, t, a) /\ d.ok /\ IsStock(view.utxos)
    BY <1>2, <1>4 DEF IsView
  <2> HIDE DEF d, t, a
  <2>2. DrawnFrom(d.inputs, {x \in view.utxos : x.token = t}) /\ IsSeq(d.outputs)
    BY <2>1, UnshieldedInputs
  <2>3. {x \in view.utxos : x.token = t} = Tokens(view, {t})
    BY DEF Tokens
  <2> QED BY <2>2, <2>3 DEF d, t
<1>5. IsDrawing(view, deposits, tokens, draws)
  BY <1>1, <1>2, <1>3, <1>4 DEF IsDrawing
<1> QED
  BY <1>5 DEF tokens

(* The inputs of the draws, in one sequence. *)
LEMMA InputsOfDraws ==
    ASSUME NEW view, IsView(view), NEW deposits, NEW tokens, NEW draws, IsDrawing(view, deposits, tokens, draws),
           NEW inputs, inputs = [n \in DOMAIN draws |-> draws[n].inputs]
    PROVE  DrawnFrom(FlattenSeq(inputs), Tokens(view, DOMAIN deposits))
<1>1. DOMAIN inputs = DOMAIN tokens /\ inputs = [n \in DOMAIN inputs |-> inputs[n]] /\ IsSeq(tokens)
  BY DEF IsDrawing
<1>2. IsSeq(inputs)
  BY <1>1, MapSeq
<1>3. \A n \in DOMAIN tokens : inputs[n] = draws[n].inputs /\ DrawnFrom(inputs[n], Tokens(view, {tokens[n]}))
  BY DEF IsDrawing
<1>4. \A n \in DOMAIN tokens : IsSeq(inputs[n]) /\ Distinct(inputs[n]) /\ Range(inputs[n]) \subseteq Tokens(view, {tokens[n]})
  BY <1>3 DEF DrawnFrom
<1>5. AreSeqs(inputs)
  BY <1>1, <1>2, <1>4 DEF AreSeqs
<1>6. AreDistinct(inputs)
  <2>1. ASSUME NEW m \in DOMAIN tokens, NEW n \in DOMAIN tokens, m # n
        PROVE  Ids(inputs[m]) \cap Ids(inputs[n]) = {}
    <3> SUFFICES ASSUME NEW x \in Range(inputs[m]), NEW y \in Range(inputs[n]), x.id = y.id PROVE FALSE
      BY IdsInRange
    <3>1. x \in view.utxos /\ y \in view.utxos /\ x.token = tokens[m] /\ y.token = tokens[n]
      BY <1>4 DEF Tokens
    <3>2. x = y
      BY <3>1 DEF IsView, IsStock
    <3> QED BY <2>1, <3>1, <3>2 DEF IsDrawing, IsInjective
  <2> QED BY <1>1, <1>4, <2>1 DEF AreDistinct
<1>7. /\ IsSeq(FlattenSeq(inputs)) /\ Distinct(FlattenSeq(inputs))
      /\ Range(FlattenSeq(inputs)) = UNION {Range(inputs[n]) : n \in DOMAIN inputs}
  BY <1>5, <1>6, FlattenSeqHolds
<1>8. \A n \in DOMAIN inputs : Range(inputs[n]) \subseteq Tokens(view, DOMAIN deposits)
  <2>1. \A n \in DOMAIN tokens : tokens[n] \in DOMAIN deposits
    BY DEF IsDrawing, Range
  <2> QED BY <1>1, <1>4, <2>1 DEF Tokens
<1> QED
  BY <1>7, <1>8 DEF DrawnFrom

(* Their change, in one sequence. *)
LEMMA OutputsOfDraws ==
    ASSUME NEW view, NEW deposits, NEW tokens, NEW draws, IsDrawing(view, deposits, tokens, draws),
           NEW outputs, outputs = [n \in DOMAIN draws |-> draws[n].outputs]
    PROVE  IsSeq(FlattenSeq(outputs))
<1>1. DOMAIN outputs = DOMAIN tokens /\ outputs = [n \in DOMAIN outputs |-> outputs[n]] /\ IsSeq(tokens)
  BY DEF IsDrawing
<1>2. IsSeq(outputs)
  BY <1>1, MapSeq
<1>3. \A n \in DOMAIN tokens : IsSeq(outputs[n])
  BY DEF IsDrawing
<1>4. AreSeqs(outputs)
  BY <1>1, <1>2, <1>3 DEF AreSeqs
<1> QED
  BY <1>4, FlattenSeqHolds

(* The unshielded offer of a segment pays its deposits with the wallet's own. *)
LEMMA UnshieldedOfferHolds ==
    ASSUME NEW view, IsView(view), NEW effects, IsSeq(effects.claims), IsFiniteSet(Unshielded),
           NEW r, r = UnshieldedOffer(view, effects), r.ok
    PROVE  IsDeposit(view, DOMAIN DepositsOf(effects), r.utxos)
<1> DEFINE payouts == PayoutsOf(effects)
           deposits == DepositsOf(effects)
           draws == Draws(view, deposits)
           inputs == [n \in DOMAIN draws |-> draws[n].inputs]
           outputs == [n \in DOMAIN draws |-> draws[n].outputs]
           taken == FlattenSeq(inputs)
           paid == PaidOut(payouts)
           back == FlattenSeq(outputs)
           u == [inputs |-> taken, outputs |-> paid \o back]
<1>1. (\A n \in DOMAIN draws : draws[n].ok) /\ r = [ok |-> TRUE, utxos |-> u]
  <2>1. ~(\E n \in DOMAIN draws : ~ draws[n].ok)
    BY RefusedIs, Zenon DEF UnshieldedOffer, OfferOf
  <2>2. r = [ok |-> TRUE, utxos |-> u]
    BY <2>1, Zenon DEF UnshieldedOffer, OfferOf
  <2> QED BY <2>1, <2>2
<1>2. IsSeq(payouts)
  <2> DEFINE S == {c \in Range(effects.claims) : c.to # Contract /\ c.token \in Unshielded}
  <2>1. IsFiniteSet(S)
    <3>1. Len(effects.claims) \in Nat /\ DOMAIN effects.claims = 1..Len(effects.claims)
      BY SeqIsSeq DEF IsSeq
    <3>2. IsFiniteSet(DOMAIN effects.claims)
      BY <3>1, FS_Interval
    <3>3. effects.claims \in Surjection(DOMAIN effects.claims, Range(effects.claims))
      <4>1. effects.claims \in [1..Len(effects.claims) -> Range(effects.claims)]
        BY <3>1 DEF IsSeq
      <4> QED BY <3>1, <4>1 DEF Surjection, Range
    <3>4. IsFiniteSet(Range(effects.claims))
      BY <3>2, <3>3, FS_Surjection
    <3> QED BY <3>4, FS_Subset
  <2>2. payouts = SetToSeq(S)
    BY DEF PayoutsOf
  <2>3. SetToSeq(S) \in Seq(S)
    BY <2>1, SetInSeq
  <2> HIDE DEF S, payouts
  <2> QED BY <2>2, <2>3, SeqIsSeq
<1>3. IsFiniteSet(DOMAIN deposits)
  <2>1. DOMAIN deposits \subseteq Unshielded
    BY DEF DepositsOf
  <2> HIDE DEF deposits
  <2> QED BY <2>1, FS_Subset
<1> HIDE DEF payouts, deposits
<1>4. IsDrawing(view, deposits, SetToSeq(DOMAIN deposits), draws)
  BY <1>1, <1>3, DrawsHold
<1> HIDE DEF draws
<1>5. DrawnFrom(taken, Tokens(view, DOMAIN deposits))
  BY <1>4, InputsOfDraws
<1>6. IsSeq(back) /\ IsSeq(paid)
  BY <1>2, <1>4, OutputsOfDraws, PaidOutIsSeq
<1>7. r.utxos = u
  BY <1>1
<1> HIDE DEF taken, back, paid
<1>8. SeqUtxos(u) /\ u.inputs = taken
  <2>1. IsSeq(taken) /\ u = [inputs |-> taken, outputs |-> paid \o back]
    BY <1>5 DEF DrawnFrom
  <2> HIDE DEF u
  <2> QED BY <1>6, <2>1, OfferFromIs
<1> HIDE DEF u
<1> QED
  BY <1>5, <1>7, <1>8 DEF IsDeposit, deposits

(* The offers of the two segments spend different UTXOs. *)
LEMMA DepositsSpend ==
    ASSUME NEW view, IsView(view), NEW early, NEW late, NEW s, NEW t, s \cap t = {},
           IsDeposit(view, s, early), IsDeposit(view, t, late),
           NEW utxos, utxos = [g \in Segments |-> IF g = Guaranteed THEN early ELSE late],
           NEW spent, spent.utxos = Ids(early.inputs) \cup Ids(late.inputs)
    PROVE  UtxosSpend(view, utxos, spent)
<1>1. utxos[Guaranteed] = early /\ utxos[IntentSegment] = late
  BY DEF Segments, Guaranteed, IntentSegment
<1>2. Range(early.inputs) \subseteq Tokens(view, s) /\ Range(late.inputs) \subseteq Tokens(view, t)
  BY DEF IsDeposit, DrawnFrom
<1>3. Ids(early.inputs) \cap Ids(late.inputs) = {}
  <2> SUFFICES ASSUME NEW x \in Range(early.inputs), NEW y \in Range(late.inputs), x.id = y.id PROVE FALSE
    BY IdsInRange
  <2>1. x \in view.utxos /\ y \in view.utxos /\ x.token \in s /\ y.token \in t
    BY <1>2 DEF Tokens
  <2>2. x = y
    BY <2>1 DEF IsView, IsStock
  <2> QED BY <2>1, <2>2
<1>4. spent.utxos \subseteq IdsIn(view.utxos)
  BY <1>2, IdsInRange DEF Tokens, IdsIn
<1> QED
  BY <1>1, <1>3, <1>4 DEF UtxosSpend, Apart, IsDeposit, DrawnFrom

(* Every intent of a transaction with one of its own signed, once that is. *)
LEMMA SignOwnIs ==
    ASSUME NEW tx, Shaped(tx), DOMAIN tx.intents = {IntentSegment},
           NEW new, new = SignOwn(tx, tx.intents[IntentSegment])
    PROVE  LikeIntents(new, tx) /\ Signed(new)
<1> DEFINE own == tx.intents[IntentSegment]
           i == Sign(own, IntentSegment)
           intents == [s \in DOMAIN tx.intents \cup {IntentSegment} |->
                         IF s = IntentSegment THEN Sign(own, s) ELSE tx.intents[s]]
<1>1. SeqIntent(own)
  BY DEF Shaped
<1> HIDE DEF own
<1>2. SeqIntent(i) /\ SameBody(i, own) /\ SignedInFull(i, IntentSegment)
  BY <1>1, SignIs
<1>3. new = [offers |-> tx.offers, intents |-> intents]
  BY DEF SignOwn, Transaction, own
<1>4. DOMAIN intents = {IntentSegment} /\ intents[IntentSegment] = i /\ IsFun(intents)
  BY DEF IsFun
<1> HIDE DEF i, intents
<1>5. new.offers = tx.offers /\ new.intents = intents
  BY <1>3
<1>6. i = Fields(i.ttl, i.utxos, i.actions, i.dust, i.binding, i.signed)
  BY <1>2 DEF SeqIntent, Fields
<1>7. LikeIntents(new, tx)
  <2>1. new = [offers |-> new.offers, intents |-> new.intents]
    BY <1>3, <1>5
  <2>2. DOMAIN new.intents = DOMAIN tx.intents /\ IsFun(new.intents)
    BY <1>4, <1>5
  <2>3. ASSUME NEW s \in DOMAIN tx.intents
        PROVE  /\ SameBody(new.intents[s], tx.intents[s])
               /\ new.intents[s] = i
    <3>1. s = IntentSegment
      OBVIOUS
    <3> QED BY <3>1, <1>2, <1>4, <1>5 DEF own
  <2> QED BY <1>5, <1>6, <2>1, <2>2, <2>3 DEF LikeIntents
<1>8. Signed(new)
  BY <1>2, <1>4, <1>5 DEF Signed
<1> QED
  BY <1>7, <1>8

(* Proving fixed the binding of a call; after this, its signatures cover it. *)
LEMMA SignUnshieldedIs ==
    ASSUME NEW tx, Shaped(tx), DOMAIN tx.intents = {IntentSegment}, tx.intents[IntentSegment].dust = NoDust,
           NEW new, new = SignUnshieldedSpends(tx)
    PROVE  /\ Shaped(new) /\ InputIds(new) = InputIds(tx) /\ (SpendsOnce(new) <=> SpendsOnce(tx))
           /\ Weight(new) = Weight(tx) /\ Signed(new)
           /\ DOMAIN new.intents = DOMAIN tx.intents
           /\ \A s \in DOMAIN tx.intents : new.intents[s].ttl = tx.intents[s].ttl
<1> DEFINE own == tx.intents[IntentSegment]
           none == own.utxos[Guaranteed].inputs = <<>> /\ own.utxos[IntentSegment].inputs = <<>>
<1>1. new = IF none THEN tx ELSE SignOwn(tx, own)
  BY DEF SignUnshieldedSpends
<1>2. CASE none
  <2>1. new = tx
    BY <1>1, <1>2
  <2>2. own.dust.registrations = <<>>
    BY DEF NoDust
  <2>3. SignedInFull(own, IntentSegment)
    <3>1. \A g \in Segments : g = Guaranteed \/ g = IntentSegment
      BY DEF Segments
    <3> HIDE DEF own
    <3> QED BY <1>2, <2>2, <3>1 DEF SignedInFull
  <2>4. Signed(tx)
    BY <2>3 DEF Signed
  <2> QED BY <2>1, <2>4
<1>3. CASE ~none
  <2>1. new = SignOwn(tx, own)
    BY <1>1, <1>3
  <2>2. LikeIntents(new, tx) /\ Signed(new)
    BY <2>1, SignOwnIs
  <2>3. /\ Shaped(new) /\ InputIds(new) = InputIds(tx) /\ (SpendsOnce(new) <=> SpendsOnce(tx))
        /\ Weight(new) = Weight(tx)
    BY <2>2, LikeIntentsAre
  <2> QED BY <2>2, <2>3 DEF LikeIntents, SameBody
<1> QED
  BY <1>2, <1>3

\* What a build holds, by kind.
HeldAs(spent, d, u, c) == IsSpent(spent) /\ spent.coins = c /\ spent.utxos = u /\ spent.dust = d

(* It is what its record says. *)
LEMMA HeldIs ==
    ASSUME NEW d, NEW u, NEW c, NEW spent, spent = [dust |-> d, utxos |-> u, coins |-> c]
    PROVE  HeldAs(spent, d, u, c)
  BY DEF IsSpent, HeldAs

\* What a call holds.
IsHeld(spent, coins, u, v) ==
  /\ IsSpent(spent) /\ spent.coins = Ids(coins) /\ spent.utxos = Ids(u) \cup Ids(v) /\ spent.dust = {}

(* What a call holds, as it is recorded. *)
LEMMA CallSpentIs ==
    ASSUME NEW coins, NEW u, NEW v, IsSeq(u), IsSeq(v), NEW spent,
           spent = [NoneSpent EXCEPT !.coins = Ids(coins), !.utxos = Ids(u \o v)]
    PROVE  IsHeld(spent, coins, u, v)
<1> DEFINE c == Ids(coins)
           d == Ids(u \o v)
<1>1. d = Ids(u) \cup Ids(v)
  BY ConcatIds
<1> HIDE DEF c, d
<1>2. spent = [NoneSpent EXCEPT !.coins = c, !.utxos = d]
  BY DEF c, d
<1> DEFINE e == {}
<1>3. spent = [dust |-> e, utxos |-> d, coins |-> c]
  BY <1>2 DEF NoneSpent
<1> HIDE DEF e
<1>4. HeldAs(spent, e, d, c)
  BY <1>3, HeldIs
<1> QED
  BY <1>1, <1>4 DEF c, e, IsHeld, HeldAs

\* The offers of a call spend the coins that are named, and its UTXOs are its own.
SpendCoins(view, offers, coins) == \A spent : spent.coins = Ids(coins) => OffersSpend(view, offers, spent)
SpendUtxos(view, utxos) ==
  \A spent : spent.utxos = Ids(utxos[Guaranteed].inputs) \cup Ids(utxos[IntentSegment].inputs)
               => UtxosSpend(view, utxos, spent)

(* A call as it is proven, before its fee is paid. *)
LEMMA ProveWithoutFeeHolds ==
    ASSUME NEW view, IsView(view), NEW call, NEW coins, NEW offers, NEW utxos,
           SpendCoins(view, offers, coins), SpendUtxos(view, utxos),
           IsSeq(utxos[Guaranteed].inputs), IsSeq(utxos[IntentSegment].inputs),
           NEW r, r = ProveWithoutFee(view, call, coins, offers, utxos)
    PROVE  Sound(view, FALSE, r) /\ (r.ok => r.spent.dust = {})
<1> DEFINE action == [kind |-> "call", effects |-> call.effects]
           intents == PlannedIntent(utxos, <<action>>)
           plan == [NewPlan EXCEPT !.offers = offers, !.intents = intents]
           spent == [NoneSpent EXCEPT !.coins = Ids(coins),
                                      !.utxos = Ids(utxos[Guaranteed].inputs \o utxos[IntentSegment].inputs)]
           proven == Prepare(view, plan, spent)
           new == SignUnshieldedSpends(proven.tx)
           full == [proven EXCEPT !.tx = new]
<1>1. r = IF proven.ok THEN full ELSE proven
  BY DEF ProveWithoutFee, IfOk
<1> SUFFICES ASSUME r.ok PROVE IsBuild(view, r) /\ Signed(r.tx) /\ r.spent.dust = {}
  BY DEF Sound
<1>2. proven.ok /\ r = full
  <2>1. CASE ~ proven.ok
    <3>1. r = proven
      BY <1>1, <2>1
    <3> QED BY <2>1, <3>1
  <2>2. CASE proven.ok
    BY <1>1, <2>2
  <2> QED BY <2>1, <2>2
<1>3. /\ IsSpent(spent) /\ spent.coins = Ids(coins) /\ spent.dust = {}
      /\ spent.utxos = Ids(utxos[Guaranteed].inputs) \cup Ids(utxos[IntentSegment].inputs)
  <2> DEFINE u == utxos[Guaranteed].inputs
             v == utxos[IntentSegment].inputs
  <2>1. spent = [NoneSpent EXCEPT !.coins = Ids(coins), !.utxos = Ids(u \o v)]
    OBVIOUS
  <2> HIDE DEF u, v, spent
  <2>2. IsSeq(u) /\ IsSeq(v)
    BY DEF u, v
  <2>3. IsHeld(spent, coins, u, v)
    BY <2>1, <2>2, CallSpentIs
  <2> QED BY <2>3 DEF u, v, IsHeld
<1> HIDE DEF spent
<1>4. OffersSpend(view, offers, spent) /\ UtxosSpend(view, utxos, spent)
  BY <1>3 DEF SpendCoins, SpendUtxos
<1>5. IsPlan(plan, offers, intents, <<>>, <<>>, Unknown)
  <2>1. plan = [NewPlan EXCEPT !.offers = offers, !.intents = intents]
    OBVIOUS
  <2> HIDE DEF intents, plan
  <2> QED BY <2>1, CallPlanIs
<1> HIDE DEF plan
<1>6. ~ PaysOwnFee(plan) /\ DOMAIN plan.intents = {IntentSegment}
  <2> DEFINE actions == <<action>>
  <2>1. intents = PlannedIntent(utxos, actions)
    OBVIOUS
  <2> HIDE DEF intents, actions
  <2>2. DOMAIN intents = {IntentSegment}
    BY <2>1 DEF PlannedIntent
  <2> QED BY <1>5, <2>2 DEF IsPlan, PaysOwnFee
<1>7. GoodPlan(view, plan, spent)
  <2> DEFINE actions == <<action>>
  <2>1. intents = PlannedIntent(utxos, actions) /\ IsSeq(actions)
    BY OneIsSeq
  <2> HIDE DEF actions, intents
  <2> QED BY <1>3, <1>4, <1>5, <2>1, NothingIsSeq, IntentPlanIsGood
<1> HIDE DEF new
<1>8. IsBuild(view, proven) /\ NotPaid(plan, proven.tx) /\ proven.spent.dust = {}
  BY <1>2, <1>6, <1>7, PrepareHolds
<1> HIDE DEF proven
<1>9. /\ IsResult(r) /\ r.tx = new
      /\ r.spent = proven.spent /\ r.expires = proven.expires /\ r.fee = proven.fee
  <2>1. proven = Result(proven.ok, proven.tx, proven.spent, proven.expires, proven.fee)
    BY <1>8 DEF IsBuild, IsResult
  <2>2. r = Result(proven.ok, new, proven.spent, proven.expires, proven.fee)
    BY <1>2, <2>1 DEF Result
  <2> QED BY <2>2, ResultIs
<1>10. Shaped(proven.tx) /\ DOMAIN proven.tx.intents = {IntentSegment} /\ proven.tx.intents[IntentSegment].dust = NoDust
  BY <1>6, <1>8 DEF IsBuild, NotPaid
<1>11. /\ Shaped(new) /\ InputIds(new) = InputIds(proven.tx) /\ (SpendsOnce(new) <=> SpendsOnce(proven.tx))
       /\ Weight(new) = Weight(proven.tx) /\ Signed(new)
       /\ DOMAIN new.intents = DOMAIN proven.tx.intents
       /\ \A s \in DOMAIN proven.tx.intents : new.intents[s].ttl = proven.tx.intents[s].ttl
  BY <1>10, SignUnshieldedIs DEF new
<1>12. InTime(new) /\ Late(new, proven.expires)
  BY <1>8, <1>11 DEF IsBuild, InTime, Late
<1>13. proven.fee = Fee(new, view.price)
  BY <1>8, <1>11 DEF IsBuild, Fee
<1> QED
  BY <1>8, <1>9, <1>11, <1>12, <1>13 DEF IsBuild

(* A call as it is assembled. *)
LEMMA AssembleCallHolds ==
    ASSUME NEW view, IsView(view), IsFiniteSet(Unshielded), NEW call, CallIsSeq(call),
           DOMAIN DepositsOf(call.effects[Guaranteed]) \cap DOMAIN DepositsOf(call.effects[IntentSegment]) = {},
           NEW circuit, OnlyOutputs(circuit.offers), NEW minted,
           NEW r, r = Assemble(view, call, circuit, minted)
    PROVE  Sound(view, FALSE, r) /\ (r.ok => r.spent.dust = {})
<1> DEFINE spend == PrepareShieldedInputs(view, call.coins)
           early == UnshieldedOffer(view, call.effects[Guaranteed])
           late == UnshieldedOffer(view, call.effects[IntentSegment])
           attached == AttachInputs(view, circuit, spend.inputs, minted)
           utxos == [s \in Segments |-> IF s = Guaranteed THEN early.utxos ELSE late.utxos]
           proven == ProveWithoutFee(view, call, spend.inputs, attached.offers, utxos)
<1> SUFFICES ASSUME r.ok PROVE Sound(view, FALSE, r) /\ (r.ok => r.spent.dust = {})
  BY DEF Sound
<1>1. r = IF spend.ok
          THEN IF early.ok THEN IF late.ok THEN IF attached.ok THEN proven ELSE attached ELSE late ELSE early
          ELSE spend
  <2>1. ~(Overflows(minted) \/ Overflows(TotalByKey(circuit.drawn)))
    BY RefusedIs, Zenon DEF Assemble
  <2>2. ~(circuit.pending # <<>>)
    BY <2>1, RefusedIs, Zenon DEF Assemble
  <2> QED BY <2>1, <2>2, Zenon DEF Assemble, IfOk
<1>2. spend.ok /\ early.ok /\ late.ok /\ attached.ok /\ r = proven
  <2> HIDE DEF spend, early, late, attached, proven
  <2> QED BY <1>1
<1>3. DrawnFrom(spend.inputs, view.coins)
  BY <1>2, NamedInputs DEF CallIsSeq, IsView
<1>4. IsDeposit(view, DOMAIN DepositsOf(call.effects[Guaranteed]), early.utxos)
  BY <1>2, UnshieldedOfferHolds DEF CallIsSeq
<1>5. IsDeposit(view, DOMAIN DepositsOf(call.effects[IntentSegment]), late.utxos)
  BY <1>2, UnshieldedOfferHolds DEF CallIsSeq
<1> HIDE DEF spend, early, late
<1>6. ASSUME NEW spent, spent.coins = Ids(spend.inputs) PROVE OffersSpend(view, attached.offers, spent)
  BY <1>2, <1>3, <1>6, AttachInputsHolds
<1>7. utxos[Guaranteed] = early.utxos /\ utxos[IntentSegment] = late.utxos
  BY DEF Segments, Guaranteed, IntentSegment
<1>8. ASSUME NEW spent, spent.utxos = Ids(utxos[Guaranteed].inputs) \cup Ids(utxos[IntentSegment].inputs)
      PROVE  UtxosSpend(view, utxos, spent)
  <2> DEFINE e == early.utxos
             l == late.utxos
             s == DOMAIN DepositsOf(call.effects[Guaranteed])
             t == DOMAIN DepositsOf(call.effects[IntentSegment])
  <2>1. s \cap t = {} /\ IsDeposit(view, s, e) /\ IsDeposit(view, t, l)
    BY <1>4, <1>5
  <2>2. utxos = [g \in Segments |-> IF g = Guaranteed THEN e ELSE l]
    OBVIOUS
  <2>3. spent.utxos = Ids(e.inputs) \cup Ids(l.inputs)
    BY <1>7, <1>8
  <2> HIDE DEF e, l, s, t, utxos
  <2> QED BY <2>1, <2>2, <2>3, DepositsSpend
<1>9. IsSeq(utxos[Guaranteed].inputs) /\ IsSeq(utxos[IntentSegment].inputs)
  BY <1>4, <1>5, <1>7 DEF IsDeposit, SeqUtxos
<1> HIDE DEF utxos, attached
<1>10. SpendCoins(view, attached.offers, spend.inputs) /\ SpendUtxos(view, utxos)
  BY <1>6, <1>8 DEF SpendCoins, SpendUtxos
<1> DEFINE offers == attached.offers
           coins == spend.inputs
<1>11. r = ProveWithoutFee(view, call, coins, offers, utxos)
  BY <1>2
<1> HIDE DEF offers, coins
<1>12. SpendCoins(view, offers, coins)
  BY <1>10 DEF offers, coins
<1> QED
  BY <1>9, <1>10, <1>11, <1>12, ProveWithoutFeeHolds

(* A call is sound. *)
LEMMA CallHolds ==
    ASSUME NEW view, IsView(view), IsFiniteSet(Unshielded), NEW call, CallIsSeq(call), NEW pay \in BOOLEAN,
           NEW r, r = CallTransaction(view, call, pay)
    PROVE  Sound(view, pay, r)
<1> DEFINE circuit == CircuitOffers(view, call)
           minted == MintedBy(call)
           unpaid == Assemble(view, call, circuit, minted)
           both == DOMAIN DepositsOf(call.effects[Guaranteed]) \cap DOMAIN DepositsOf(call.effects[IntentSegment])
<1> SUFFICES ASSUME r.ok PROVE Sound(view, pay, r)
  BY DEF Sound
<1>1. both = {} /\ r = PayFee(view, unpaid, pay)
  <2>1. ~(both # {})
    BY RefusedIs, Zenon DEF CallTransaction
  <2>2. r = PayFee(view, unpaid, pay)
    BY <2>1, Zenon DEF CallTransaction
  <2> QED BY <2>1, <2>2
<1>2. OnlyOutputs(circuit.offers)
  BY CircuitHolds DEF CallIsSeq
<1> HIDE DEF circuit, minted
<1>3. Sound(view, FALSE, unpaid) /\ (unpaid.ok => unpaid.spent.dust = {})
  BY <1>1, <1>2, AssembleCallHolds
<1> HIDE DEF unpaid
<1> QED
  BY <1>1, <1>3, PayFeeHolds

\* That a plan is an intent and nothing else.
HasAlone(plan, utxos, actions) ==
  /\ plan.offers = NoOffers /\ DOMAIN plan.intents = {IntentSegment}
  /\ plan.intents[IntentSegment].utxos = utxos /\ plan.intents[IntentSegment].actions = actions

(* A plan whose actions have no effect, and which spends nothing, leaves nothing. *)
LEMMA ActionLeaves ==
    ASSUME NEW utxos, utxos = [s \in Segments |-> NoUtxos], NEW actions, IsSeq(actions),
           \A n \in DOMAIN actions : \A s \in Segments : actions[n].effects[s] = NoEffects,
           NEW plan, HasAlone(plan, utxos, actions)
    PROVE  Leaves(plan, NothingLeft)
<1> DEFINE u == NoUtxos
<1>1. u.inputs = <<>> /\ u.outputs = <<>>
  BY DEF NoUtxos
<1>2. utxos = [s \in Segments |-> IF s = Guaranteed THEN u ELSE NoUtxos]
  OBVIOUS
<1> HIDE DEF u
<1>3. Worth(u.inputs) /\ Worth(u.outputs) /\ \A t : OfferBalance(u, t) = 0
  BY <1>1, NothingIsSeq, ValueOfNone DEF OfferBalance
<1>4. \A t \in TokenTypes : NothingLeft[t] = IF t \in Shielded THEN 0 ELSE OfferBalance(u, t)
  BY <1>3 DEF NothingLeft
<1> QED
  BY <1>2, <1>3, <1>4, UtxosLeave DEF HasAlone

(* The intent of a deploy or an update spends nothing. *)
LEMMA ActionSpends ==
    ASSUME NEW kind
    PROVE  \E utxos, actions :
             /\ SingleAction(kind) = PlannedIntent(utxos, actions) /\ IsSeq(actions)
             /\ Calls(actions) => kind = "call"
             /\ \A view, spent : spent.utxos = {} => UtxosSpend(view, utxos, spent)
             /\ \A plan : HasAlone(plan, utxos, actions) => Leaves(plan, NothingLeft)
<1> DEFINE utxos == [s \in Segments |-> NoUtxos]
           action == [kind |-> kind, effects |-> [s \in Segments |-> NoEffects]]
           actions == <<action>>
<1>1. SingleAction(kind) = PlannedIntent(utxos, actions)
  BY DEF SingleAction
<1>2. action.kind = kind /\ \A s \in Segments : action.effects[s] = NoEffects
  OBVIOUS
<1> HIDE DEF action
<1>6. \A n \in DOMAIN actions : \A s \in Segments : actions[n].effects[s] = NoEffects
  <2>1. DOMAIN actions = 1..1 /\ actions[1] = action
    BY OneIsSeq
  <2> HIDE DEF actions
  <2>2. \A n \in DOMAIN actions : n = 1
    BY <2>1
  <2> QED BY <1>2, <2>1, <2>2
<1>3. IsSeq(actions) /\ (Calls(actions) => kind = "call")
  <2>1. IsSeq(actions) /\ DOMAIN actions = 1..1 /\ actions[1] = action
    BY OneIsSeq
  <2> HIDE DEF actions
  <2>2. \A n \in DOMAIN actions : n = 1
    BY <2>1
  <2> QED BY <1>2, <2>1, <2>2 DEF Calls, IsCall
<1>4. utxos[Guaranteed] = NoUtxos /\ utxos[IntentSegment] = NoUtxos /\ NoUtxos.inputs = <<>> /\ NoUtxos.outputs = <<>>
  BY DEF Segments, Guaranteed, IntentSegment, NoUtxos
<1>7. \A plan : HasAlone(plan, utxos, actions) => Leaves(plan, NothingLeft)
  <2>1. utxos = [s \in Segments |-> NoUtxos]
    OBVIOUS
  <2> HIDE DEF utxos, actions
  <2> QED BY <1>3, <1>6, <2>1, ActionLeaves
<1> HIDE DEF utxos, actions
<1>5. ASSUME NEW view, NEW spent, spent.utxos = {} PROVE UtxosSpend(view, utxos, spent)
  BY <1>4, <1>5, NothingIsSeq DEF UtxosSpend, SeqUtxos, Apart
<1> QED
  BY <1>1, <1>3, <1>5, <1>7

(* A deploy without payments and an update are sound. *)
LEMMA UpdateHolds ==
    ASSUME NEW view, IsView(view), NEW kind, kind # "call",
           NEW r, r = BuildWithMockFeeProofs(view, kind)
    PROVE  Sound(view, TRUE, r) /\ (r.ok => Leaves(r.tx, NothingLeft))
<1> DEFINE intents == SingleAction(kind)
           funding == <<view.dust>>
           plan == [NewPlan EXCEPT !.intents = intents, !.funding = funding]
           spent == NoneSpent
<1>1. r = Prepare(view, plan, spent)
  BY DEF BuildWithMockFeeProofs
<1>2. IsSpent(spent) /\ spent.coins = {} /\ spent.utxos = {}
  BY DEF IsSpent, NoneSpent
<1>3. PICK utxos, actions :
        /\ intents = PlannedIntent(utxos, actions) /\ IsSeq(actions)
        /\ Calls(actions) => kind = "call"
        /\ \A v, s : s.utxos = {} => UtxosSpend(v, utxos, s)
        /\ \A q : HasAlone(q, utxos, actions) => Leaves(q, NothingLeft)
  BY ActionSpends
<1>4. funding # <<>>
  <2>1. Len(funding) = 1 /\ Len(<<>>) = 0
    BY OneIsSeq, NothingIsSeq
  <2> QED BY <2>1
<1>5. IsPlan(plan, NoOffers, intents, funding, <<>>, Unknown)
  <2>1. plan = [NewPlan EXCEPT !.intents = intents, !.funding = funding]
    OBVIOUS
  <2> HIDE DEF intents, funding, plan
  <2> QED BY <2>1, UpdatePlanIs
<1> HIDE DEF plan, spent, intents
<1>6. PaysOwnFee(plan)
  BY <1>4, <1>5 DEF IsPlan, PaysOwnFee
<1>7. GoodPlan(view, plan, spent) /\ ~ PlanCalls(plan)
  <2>1. OffersSpend(view, NoOffers, spent) /\ UtxosSpend(view, utxos, spent)
    BY <1>2, <1>3, NoOffersSpend
  <2>2. ~ Calls(actions)
    BY <1>3
  <2>3. intents = PlannedIntent(utxos, actions) /\ IsSeq(actions)
    BY <1>3
  <2>4. funding = <<view.dust>>
    OBVIOUS
  <2> HIDE DEF funding
  <2> QED BY <1>2, <1>5, <2>1, <2>2, <2>3, <2>4, NothingIsSeq, IntentPlanIsGood
<1>8. Leaves(plan, NothingLeft)
  <2>1. plan.offers = NoOffers /\ plan.intents = intents
    BY <1>5 DEF IsPlan
  <2>2. /\ DOMAIN intents = {IntentSegment}
        /\ intents[IntentSegment].utxos = utxos /\ intents[IntentSegment].actions = actions
    BY <1>3, PlannedIntentIs
  <2>3. HasAlone(plan, utxos, actions)
    BY <2>1, <2>2 DEF HasAlone
  <2> QED BY <1>3, <2>3
<1>9. Sound(view, TRUE, r)
  BY <1>1, <1>6, <1>7, PlanIsSound
<1>10. r.ok => Leaves(r.tx, NothingLeft)
  BY <1>1, <1>7, <1>8, PrepareHolds, KeepsLeaves
<1> QED
  BY <1>9, <1>10

(* What a deploy with payments spends. *)
LEMMA OfferSpends ==
    ASSUME NEW view, NEW o, SeqOffer(o), DrawnFrom(o.inputs, view.coins), NEW spent, spent.coins = Ids(o.inputs)
    PROVE  OffersSpend(view, GuaranteedOffer(o), spent)
<1>1. /\ GuaranteedOffer(o)[Guaranteed] = o /\ GuaranteedOffer(o)[IntentSegment] = NoOffer
      /\ SeqOffer(NoOffer) /\ NoOffer.inputs = <<>>
  BY OffersAre
<1>2. Ids(o.inputs) \subseteq IdsIn(view.coins)
  BY IdsInRange DEF DrawnFrom, IdsIn
<1> QED
  BY <1>1, <1>2, NothingIsSeq DEF OffersSpend, Apart, DrawnFrom

(* A deploy with payments, before its fee is paid. *)
LEMMA OfferWithHolds ==
    ASSUME NEW view, IsView(view), NEW inputs, DrawnFrom(inputs, view.coins), NEW outputs, IsSeq(outputs),
           NEW held, IsFiniteSet(DOMAIN held), NEW paid,
           NEW r, r = OfferWith(view, inputs, outputs, held, paid)
    PROVE  Sound(view, FALSE, r) /\ (r.ok => r.spent.dust = {})
<1> DEFINE kind == "deploy"
           intents == SingleAction(kind)
           change == ChangeIn(view, ChangeDue(held, paid, <<>>), Guaranteed)
           out == PaidOut(outputs)
           o == [inputs |-> inputs, transients |-> <<>>, outputs |-> out \o change]
           offers == GuaranteedOffer(o)
           plan == [NewPlan EXCEPT !.intents = intents, !.offers = offers]
           ids == Ids(inputs)
           spent == [NoneSpent EXCEPT !.coins = ids]
<1> SUFFICES ASSUME r.ok PROVE Sound(view, FALSE, r) /\ (r.ok => r.spent.dust = {})
  BY DEF Sound
<1>1. r = Prepare(view, plan, spent)
  <2>1. ~(Overflows(held) \/ Overflows(paid))
    BY RefusedIs, Zenon DEF OfferWith
  <2>2. ~(\E k \in DOMAIN paid : paid[k] > TotalAt(held, k))
    BY <2>1, RefusedIs, Zenon DEF OfferWith
  <2> QED BY <2>1, <2>2, Zenon DEF OfferWith
<1>2. IsSpent(spent) /\ spent.coins = ids /\ spent.utxos = {}
  BY DEF IsSpent, NoneSpent
<1>3. PICK utxos, actions :
        /\ intents = PlannedIntent(utxos, actions) /\ IsSeq(actions)
        /\ Calls(actions) => kind = "call"
        /\ \A v, s : s.utxos = {} => UtxosSpend(v, utxos, s)
  <2> HIDE DEF kind
  <2> QED BY ActionSpends
<1>4. IsSeq(change) /\ IsSeq(out)
  <2>1. IsFiniteSet(DOMAIN ChangeDue(held, paid, <<>>))
    BY ChangeKeys
  <2> QED BY <2>1, ChangeIsSeq, PaidOutIsSeq
<1> HIDE DEF change, out
<1>5. SeqOffer(o) /\ o.inputs = inputs
  <2> DEFINE all == out \o change
             t == <<>>
  <2>1. IsSeq(all) /\ IsSeq(t) /\ IsSeq(inputs)
    BY <1>4, ConcatSeq, NothingIsSeq DEF DrawnFrom
  <2>2. o = [inputs |-> inputs, transients |-> t, outputs |-> all]
    OBVIOUS
  <2> HIDE DEF all, t, o
  <2> QED BY <2>1, <2>2 DEF SeqOffer
<1> HIDE DEF o
<1>6. OffersSpend(view, offers, spent)
  <2> HIDE DEF spent
  <2> QED BY <1>2, <1>5, OfferSpends
<1>7. IsPlan(plan, offers, intents, <<>>, <<>>, Unknown)
  <2>1. plan = [NewPlan EXCEPT !.intents = intents, !.offers = offers]
    OBVIOUS
  <2> HIDE DEF intents, offers, plan
  <2> QED BY <2>1, DeployPlanIs
<1>8. kind # "call"
  OBVIOUS
<1> HIDE DEF plan, spent, intents, offers, kind
<1>9. ~ PaysOwnFee(plan)
  BY <1>7 DEF IsPlan, PaysOwnFee
<1>10. GoodPlan(view, plan, spent) /\ ~ PlanCalls(plan)
  <2>1. UtxosSpend(view, utxos, spent)
    BY <1>2, <1>3
  <2>2. ~ Calls(actions)
    BY <1>3, <1>8
  <2>3. intents = PlannedIntent(utxos, actions) /\ IsSeq(actions)
    BY <1>3
  <2> QED BY <1>2, <1>6, <1>7, <2>1, <2>2, <2>3, NothingIsSeq, IntentPlanIsGood
<1>11. r.ok => r.spent.dust = {}
  BY <1>1, <1>9, <1>10, PrepareHolds
<1>12. Sound(view, FALSE, r)
  BY <1>1, <1>10, PlanIsSound
<1> QED
  BY <1>11, <1>12

(* A deploy with payments is sound. *)
LEMMA OfferHolds ==
    ASSUME NEW view, IsView(view), NEW offer, OfferIsSeq(offer), NEW r, r = OfferTransaction(view, offer)
    PROVE  Sound(view, TRUE, r)
<1> DEFINE spend == PrepareShieldedInputs(view, offer.coins)
           held == TotalOf(spend.inputs)
           paid == TotalOf(offer.outputs)
           unpaid == OfferWith(view, spend.inputs, offer.outputs, held, paid)
           yes == TRUE
<1>1. r = IF spend.ok THEN PayFee(view, unpaid, yes) ELSE spend
  BY DEF OfferTransaction, IfOk
<1> SUFFICES ASSUME r.ok PROVE Sound(view, TRUE, r)
  BY DEF Sound
<1>2. spend.ok /\ r = PayFee(view, unpaid, yes)
  <2> HIDE DEF spend, unpaid
  <2> QED BY <1>1
<1>3. DrawnFrom(spend.inputs, view.coins)
  BY <1>2, NamedInputs DEF OfferIsSeq, IsView
<1> HIDE DEF spend
<1>4. IsFiniteSet(DOMAIN held)
  <2> DEFINE xs == spend.inputs
             entries == [n \in DOMAIN xs |-> Entry(<<xs[n].token, Guaranteed>>, xs[n].value)]
  <2>1. DOMAIN entries = DOMAIN xs /\ entries = [n \in DOMAIN entries |-> entries[n]]
    OBVIOUS
  <2>2. held = TotalByKey(entries)
    BY DEF TotalOf
  <2> HIDE DEF entries
  <2>3. IsSeq(entries)
    BY <1>3, <2>1, MapSeq DEF DrawnFrom
  <2> HIDE DEF held
  <2> QED BY <2>2, <2>3, KeysAreFinite
<1> HIDE DEF held, paid
<1>5. Sound(view, FALSE, unpaid) /\ (unpaid.ok => unpaid.spent.dust = {})
  BY <1>3, <1>4, OfferWithHolds DEF OfferIsSeq
<1>6. yes \in BOOLEAN
  OBVIOUS
<1> HIDE DEF unpaid, yes
<1>7. Sound(view, yes, r)
  BY <1>2, <1>5, <1>6, PayFeeHolds
<1> QED
  BY <1>7 DEF yes

(***************************************************************************)
(* The wallets and their parts                                             *)
(***************************************************************************)
(* What a wallet has. *)
LEMMA StockIs ==
    ASSUME NEW w \in Owner
    PROVE  /\ \A k \in Kinds : IsStock(Stock[w][k])
           /\ \A j, k \in Kinds : j # k => IdsIn(Stock[w][j]) \cap IdsIn(Stock[w][k]) = {}
           /\ \A v \in Owner : v # w => Mine(v) \cap Mine(w) = {}
           /\ \A u \in Stock[w].utxos : u.token = "night" => u.ctime \in Int
<1>1. \A k \in Kinds : IsStock(Stock[w][k])
  BY BuildsAssumption DEF IsStock
<1>2. \A v \in Owner, j, k \in Kinds : \A x \in Stock[v][j], y \in Stock[w][k] : x.id = y.id => v = w /\ j = k
  BY BuildsAssumption
<1>3. \A j, k \in Kinds : j # k => IdsIn(Stock[w][j]) \cap IdsIn(Stock[w][k]) = {}
  BY <1>2 DEF IdsIn
<1>4. \A v \in Owner : v # w => Mine(v) \cap Mine(w) = {}
  BY <1>2 DEF IdsIn, Mine
<1>5. \A u \in Stock[w].utxos : u.token = "night" => u.ctime \in Int
  BY BuildsAssumption DEF Unknown
<1> QED
  BY <1>1, <1>3, <1>4, <1>5

(* The fields of a view. *)
LEMMA ViewFields ==
    ASSUME NEW w, NEW price, NEW held, NEW view, view = View(w, price, held)
    PROVE  /\ view.price = price /\ view.tblock = DustClock[w] /\ view.last = Now
           /\ view.ratio = Ratio /\ view.decay = Decay
           /\ view.coins = Free(w, "coins", held) /\ view.utxos = Free(w, "utxos", held)
           /\ view.dust = Free(w, "dust", held)
  BY DEF View

\* What a view shows of the wallet: what is its own, without what is held.
Shows(view, w, held) ==
  /\ IdsIn(view.coins) \subseteq Mine(w) \ held /\ IdsIn(view.utxos) \subseteq Mine(w) \ held
  /\ IdsIn(view.dust) \subseteq Mine(w) \ held

(* A wallet's view is one. *)
LEMMA ViewIsView ==
    ASSUME NEW w \in Owner, NEW price \in Nat, NEW held, NEW view, view = View(w, price, held)
    PROVE  IsView(view) /\ KnownAges(view) /\ Shows(view, w, held) /\ view.price = price
<1>1. /\ view.price = price /\ view.tblock = DustClock[w] /\ view.last = Now
      /\ view.ratio = Ratio /\ view.decay = Decay
      /\ view.coins = Free(w, "coins", held) /\ view.utxos = Free(w, "utxos", held)
      /\ view.dust = Free(w, "dust", held)
  BY ViewFields
<1>2. "coins" \in Kinds /\ "utxos" \in Kinds /\ "dust" \in Kinds
  BY DEF Kinds
<1>3. ASSUME NEW k \in Kinds
      PROVE  IsStock(Free(w, k, held)) /\ IdsIn(Free(w, k, held)) \subseteq IdsIn(Stock[w][k]) \ held
             /\ IdsIn(Stock[w][k]) \subseteq Mine(w)
  <2>1. IsStock(Free(w, k, held))
    BY StockIs, PartOfStock DEF Free
  <2> QED BY <2>1 DEF Free, IdsIn, Mine
<1>4. IsStock(view.coins) /\ IsStock(view.utxos) /\ IsStock(view.dust)
  BY <1>1, <1>2, <1>3
<1>5. Shows(view, w, held)
  BY <1>1, <1>2, <1>3 DEF Shows
<1>6. /\ IdsIn(view.coins) \cap IdsIn(view.utxos) = {} /\ IdsIn(view.coins) \cap IdsIn(view.dust) = {}
      /\ IdsIn(view.utxos) \cap IdsIn(view.dust) = {}
  <2>1. \A j, k \in Kinds : j # k => IdsIn(Stock[w][j]) \cap IdsIn(Stock[w][k]) = {}
    BY StockIs
  <2>2. "coins" # "utxos" /\ "coins" # "dust" /\ "utxos" # "dust"
    OBVIOUS
  <2> QED BY <1>1, <1>2, <1>3, <2>1, <2>2
<1>7. DustClock[w] \in 0..Now /\ Now \in Nat /\ Ratio \in Nat /\ Decay \in Nat
  BY BuildsAssumption
<1>8. IsView(view)
  BY <1>1, <1>4, <1>6, <1>7 DEF IsView
<1>9. KnownAges(view)
  <2>1. \A u \in view.utxos : u \in Stock[w].utxos
    BY <1>1 DEF Free
  <2> QED BY <2>1, StockIs DEF KnownAges
<1> QED
  BY <1>1, <1>5, <1>8, <1>9

\* What a part leaves over, if it is not a contract's.
Contractual(p) == p.what \in {"call", "offer"}
LeftByPart(p)  == [t \in TokenTypes |-> LeftBy(p, t)]

(* A part is sound, whatever is asked. *)
LEMMA PartHolds ==
    ASSUME NEW p, IsPart(p), NEW view, IsView(view), KnownAges(view), NEW r, r = BuildPart(p, view)
    PROVE  Sound(view, p.pay, r) /\ (r.ok /\ ~ Contractual(p) => Leaves(r.tx, LeftByPart(p)))
<1>1. p.pay \in BOOLEAN /\ IsFiniteSet(Unshielded)
  BY BuildsAssumption DEF IsPart
<1>2. CASE p.what = "transfer"
  <2>1. IsRequest(p.request) /\ p.pay = Pays(p.request) /\ r = Transfer(view, p.request)
    BY <1>2 DEF IsPart, BuildPart
  <2>2. Sound(view, Pays(p.request), r) /\ (r.ok => Leaves(r.tx, LeftByRequest(p.request)))
    BY <2>1, TransferHolds
  <2>3. LeftByRequest(p.request) = LeftByPart(p)
    BY <1>2 DEF LeftByRequest, LeftByPart, LeftBy, NothingLeft, Difference
  <2> QED BY <2>1, <2>2, <2>3
<1>3. CASE p.what = "call"
  <2>1. CallIsSeq(p.call) /\ r = CallTransaction(view, p.call, p.pay)
    BY <1>3 DEF IsPart, BuildPart
  <2>2. Sound(view, p.pay, r)
    BY <1>1, <2>1, CallHolds
  <2> QED BY <1>3, <2>2 DEF Contractual
<1>4. CASE p.what = "offer"
  <2>1. OfferIsSeq(p.offer) /\ r = OfferTransaction(view, p.offer)
    BY <1>4 DEF IsPart, BuildPart
  <2>2. Sound(view, TRUE, r)
    BY <2>1, OfferHolds
  <2>3. Sound(view, p.pay, r)
    BY <2>2 DEF Sound
  <2> QED BY <1>4, <2>3 DEF Contractual
<1>5. CASE p.what \in {"deploy", "maintenance"}
  <2>1. r = BuildWithMockFeeProofs(view, p.what) /\ p.what # "call"
    BY <1>5 DEF BuildPart
  <2>2. Sound(view, TRUE, r) /\ (r.ok => Leaves(r.tx, NothingLeft))
    BY <2>1, UpdateHolds
  <2>3. NothingLeft = LeftByPart(p)
    BY <1>5 DEF LeftByPart, LeftBy, NothingLeft
  <2>4. Sound(view, p.pay, r)
    BY <2>2 DEF Sound
  <2> QED BY <2>2, <2>3, <2>4
<1> QED
  BY <1>2, <1>3, <1>4, <1>5 DEF IsPart

\* The inputs that a part holds.
AllOf(spent) == spent.dust \cup spent.utxos \cup spent.coins

\* What each of the parties has built.
IsOwnPart(p, r) ==
  /\ Shaped(r.tx) /\ Lands(r.tx) /\ IsSpent(r.spent) /\ InputIds(r.tx) = AllOf(r.spent)
  /\ InputIds(r.tx) \subseteq Mine(p.who) /\ Late(r.tx, r.expires)
  /\ r.fee = Fee(r.tx, 1) /\ (p.pay => PaysEnough(r.tx, 1))
  /\ ~ Contractual(p) => Leaves(r.tx, LeftByPart(p))

(* A part is the transaction of one wallet. *)
LEMMA AloneHolds ==
    ASSUME NEW p, IsPart(p), NEW r, r = Alone(p), r.ok
    PROVE  IsOwnPart(p, r)
<1> DEFINE view == View(p.who, 1, {})
<1>1. r = BuildPart(p, view)
  BY DEF Alone
<1>2. IsView(view) /\ KnownAges(view) /\ Shows(view, p.who, {}) /\ view.price = 1
  BY ViewIsView DEF IsPart
<1> HIDE DEF view
<1>3. IsBuild(view, r) /\ Signed(r.tx) /\ (p.pay => PaysEnough(r.tx, 1))
  BY <1>1, <1>2, PartHolds DEF Sound
<1>6. ~ Contractual(p) => Leaves(r.tx, LeftByPart(p))
  BY <1>1, <1>2, PartHolds
<1>4. Lands(r.tx)
  BY <1>3, LandsMeans DEF IsBuild
<1>5. InputIds(r.tx) \subseteq Mine(p.who)
  BY <1>2, <1>3 DEF IsBuild, Shows
<1> QED
  BY <1>2, <1>3, <1>4, <1>5, <1>6 DEF IsBuild, IsOwnPart, AllOf

(***************************************************************************)
(* Several transactions in one                                             *)
(***************************************************************************)
MergeNext(m, tx)       == IF m.ok THEN Merge(m.tx, tx) ELSE m
MergeStep(f, txs, n)   == IF n = 1 THEN [ok |-> TRUE, tx |-> txs[1]] ELSE MergeNext(f[n - 1], txs[n])
IsMerging(f, txs, N)   == f = [n \in 1..N |-> MergeStep(f, txs, n)]

(* There is a function that merges any number of them. *)
LEMMA MergingExists ==
    ASSUME NEW txs, NEW N \in Nat
    PROVE  \E f : IsMerging(f, txs, N)
<1> DEFINE T == {n \in 0..N : \E f : IsMerging(f, txs, n)}
<1>1. 0 \in T
  <2> DEFINE none == [n \in 1..0 |-> MergeStep(<<>>, txs, n)]
  <2>1. IsMerging(none, txs, 0)
    <3>1. none = [n \in 1..0 |-> MergeStep(none, txs, n)]
      OBVIOUS
    <3> HIDE DEF none
    <3> QED BY <3>1 DEF IsMerging
  <2> HIDE DEF none
  <2> QED BY <2>1
<1>2. ASSUME NEW n \in 0..N, n < N, n \in T PROVE n + 1 \in T
  <2>1. PICK f : IsMerging(f, txs, n)
    BY <1>2
  <2> DEFINE longer == [i \in 1..(n + 1) |-> IF i = n + 1 THEN MergeStep(f, txs, n + 1) ELSE f[i]]
  <2>2. ASSUME NEW i \in 1..(n + 1) PROVE longer[i] = MergeStep(longer, txs, i)
    <3>1. CASE i # n + 1
      <4>1. longer[i] = f[i] /\ f[i] = MergeStep(f, txs, i)
        BY <3>1, <2>1 DEF IsMerging
      <4>2. i # 1 => longer[i - 1] = f[i - 1]
        BY <3>1
      <4> HIDE DEF longer
      <4> QED BY <4>1, <4>2 DEF MergeStep
    <3>2. CASE i = n + 1
      <4>1. longer[i] = MergeStep(f, txs, n + 1)
        BY <3>2
      <4>2. i # 1 => longer[i - 1] = f[i - 1] /\ i - 1 = n
        BY <3>2
      <4> HIDE DEF longer
      <4> QED BY <4>1, <4>2, <3>2 DEF MergeStep
    <3> QED BY <3>1, <3>2
  <2>3. IsMerging(longer, txs, n + 1)
    <3>1. longer = [i \in 1..(n + 1) |-> longer[i]]
      OBVIOUS
    <3> HIDE DEF longer
    <3> QED BY <2>2, <3>1 DEF IsMerging
  <2>4. n + 1 \in 0..N
    BY <1>2
  <2> HIDE DEF longer
  <2> QED BY <2>3, <2>4
<1>3. 0..N \subseteq T
  <2> HIDE DEF T
  <2> QED BY <1>1, <1>2, SetInduction
<1> QED
  BY <1>3

\* The transactions land each on its own, and no two spend one input.
AreApart(txs) ==
  /\ \A n \in DOMAIN txs : Shaped(txs[n]) /\ Lands(txs[n])
  /\ \A m, n \in DOMAIN txs : m # n => InputIds(txs[m]) \cap InputIds(txs[n]) = {}

\* A transaction has the balances of the first of several together.
Balances(txs, n, t, s) == [m \in 1..n |-> Balance(txs[m], t, s)]
Totals(txs, n, tx) ==
  (\A m \in 1..n : Valued(txs[m])) =>
    Valued(tx) /\ \A t \in TokenTypes, s \in Segments : Balance(tx, t, s) = SumFunction(Balances(txs, n, t, s))

(* That is so of the first one. *)
LEMMA TotalOfOne ==
    ASSUME NEW txs, NEW tx, tx = txs[1]
    PROVE  Totals(txs, 1, tx)
<1> SUFFICES ASSUME Valued(tx), NEW t \in TokenTypes, NEW s \in Segments
             PROVE  Balance(tx, t, s) = SumFunction(Balances(txs, 1, t, s))
  <2>1. 1 \in 1..1
    OBVIOUS
  <2> QED BY <2>1 DEF Totals
<1> DEFINE f == Balances(txs, 1, t, s)
<1>1. DOMAIN f = {1} /\ f[1] = Balance(tx, t, s)
  <2>1. 1..1 = {1}
    OBVIOUS
  <2> QED BY <2>1 DEF Balances
<1>2. Balance(tx, t, s) \in Int
  BY BalanceIs
<1> HIDE DEF f
<1>3. SumFunction(f) = f[1]
  BY <1>1, <1>2, SumOfOne
<1> QED
  BY <1>1, <1>3 DEF f

(* And of one more, merged with them. *)
LEMMA TotalOfMore ==
    ASSUME NEW txs, NEW n \in Nat, NEW a, Totals(txs, n, a), NEW b, b = txs[n + 1], NEW tx, Unites(tx, a, b)
    PROVE  Totals(txs, n + 1, tx)
<1>1. n + 1 \in 1..(n + 1) /\ \A m \in 1..n : m \in 1..(n + 1)
  OBVIOUS
<1> SUFFICES ASSUME \A m \in 1..(n + 1) : Valued(txs[m])
             PROVE  Valued(tx) /\ \A t \in TokenTypes, s \in Segments :
                                    Balance(tx, t, s) = SumFunction(Balances(txs, n + 1, t, s))
  BY DEF Totals
<1>2. Valued(a) /\ Valued(b) /\ \A m \in 1..n : Valued(txs[m])
  BY <1>1 DEF Totals
<1>3. Valued(tx) /\ \A t \in TokenTypes, s \in Segments : Balance(tx, t, s) = Balance(a, t, s) + Balance(b, t, s)
  BY <1>2, MergedBalance
<1>4. ASSUME NEW t \in TokenTypes, NEW s \in Segments
      PROVE  Balance(tx, t, s) = SumFunction(Balances(txs, n + 1, t, s))
  <2> DEFINE f == Balances(txs, n + 1, t, s)
             h == Balances(txs, n, t, s)
  <2>1. DOMAIN f = 1..(n + 1) /\ DOMAIN h = 1..n
    BY DEF Balances
  <2>2. (\A k \in 1..n : h[k] = f[k]) /\ f[n + 1] = Balance(b, t, s)
    BY <1>1 DEF Balances
  <2>3. Whole(f)
    <3>1. \A m \in 1..(n + 1) : Balance(txs[m], t, s) \in Int
      BY BalanceIs
    <3> QED BY <2>1, <3>1 DEF Balances, Whole
  <2>4. Balance(a, t, s) = SumFunction(h)
    BY <1>2 DEF Totals
  <2> HIDE DEF f, h
  <2>5. SumFunction(f) = SumFunction(h) + f[n + 1]
    BY <2>1, <2>2, <2>3, SumOfLast
  <2> QED BY <1>3, <2>2, <2>4, <2>5 DEF f
<1> QED
  BY <1>3, <1>4

\* A transaction holds the first of several.
HoldsFirst(txs, n, tx) ==
  /\ Shaped(tx) /\ Lands(tx)
  /\ \A x : x \in InputIds(tx) <=> \E m \in 1..n : x \in InputIds(txs[m])
  /\ \A m \in 1..n : \A s \in DOMAIN txs[m].intents :
       s \in DOMAIN tx.intents /\ tx.intents[s].ttl = txs[m].intents[s].ttl
  /\ Totals(txs, n, tx)

(* One more transaction joins the first of several. *)
LEMMA OneMore ==
    ASSUME NEW txs, NEW N \in Nat, DOMAIN txs = 1..N, AreApart(txs), NEW n \in 1..N, n < N,
           NEW a, HoldsFirst(txs, n, a), NEW tx, AreMerged(a, txs[n + 1], tx)
    PROVE  HoldsFirst(txs, n + 1, tx)
<1> DEFINE b == txs[n + 1]
<1>1. n + 1 \in 1..N /\ \A m \in 1..(n + 1) : m \in 1..n \/ m = n + 1
  OBVIOUS
<1>2. \A m \in 1..n : m \in 1..N /\ m # n + 1
  OBVIOUS
<1>3. Shaped(a) /\ Lands(a) /\ Shaped(b) /\ Lands(b)
  BY <1>1 DEF HoldsFirst, AreApart
<1>4. InputIds(a) \cap InputIds(b) = {}
  BY <1>1, <1>2 DEF HoldsFirst, AreApart
<1> HIDE DEF b
<1>5. AreMerged(a, b, tx)
  BY DEF b
<1>6. Shaped(tx) /\ Lands(tx) /\ InputIds(tx) = InputIds(a) \cup InputIds(b)
  BY <1>3, <1>4, <1>5, MergeIs, MergedSpends, MergedLands
<1>7. /\ DOMAIN tx.intents = DOMAIN a.intents \cup DOMAIN b.intents
      /\ \A s \in DOMAIN a.intents : tx.intents[s] = a.intents[s]
      /\ \A s \in DOMAIN b.intents : tx.intents[s] = b.intents[s]
  BY <1>3, <1>5, MergeIs
<1>8. ASSUME NEW x PROVE x \in InputIds(tx) <=> \E m \in 1..(n + 1) : x \in InputIds(txs[m])
  <2>1. x \in InputIds(a) <=> \E m \in 1..n : x \in InputIds(txs[m])
    BY DEF HoldsFirst
  <2>2. n + 1 \in 1..(n + 1) /\ \A m \in 1..n : m \in 1..(n + 1)
    OBVIOUS
  <2> QED BY <1>1, <1>6, <2>1, <2>2 DEF b
<1>9. ASSUME NEW m \in 1..(n + 1), NEW s \in DOMAIN txs[m].intents
      PROVE  s \in DOMAIN tx.intents /\ tx.intents[s].ttl = txs[m].intents[s].ttl
  <2>1. CASE m \in 1..n
    <3>1. s \in DOMAIN a.intents /\ a.intents[s].ttl = txs[m].intents[s].ttl
      BY <2>1 DEF HoldsFirst
    <3> QED BY <3>1, <1>7
  <2>2. CASE m = n + 1
    <3>1. s \in DOMAIN b.intents /\ b.intents[s].ttl = txs[m].intents[s].ttl
      BY <2>2 DEF b
    <3> QED BY <3>1, <1>7
  <2> QED BY <1>1, <2>1, <2>2
<1>10. Totals(txs, n + 1, tx)
  <2>1. Unites(tx, a, b)
    BY <1>3, <1>5, MergeIs DEF Unites
  <2>2. Totals(txs, n, a) /\ b = txs[n + 1] /\ n \in Nat
    BY DEF HoldsFirst, b
  <2> QED BY <2>1, <2>2, TotalOfMore
<1> QED
  BY <1>6, <1>8, <1>9, <1>10 DEF HoldsFirst

(* The transaction of all of them spends what each of them does. *)
LEMMA MergeAllHolds ==
    ASSUME NEW txs, NEW N \in Nat \ {0}, DOMAIN txs = 1..N, Len(txs) = N, AreApart(txs),
           NEW r, r = MergeTransactions(txs), r.ok
    PROVE  HoldsFirst(txs, N, r.tx)
<1> DEFINE f == CHOOSE g : IsMerging(g, txs, N)
           T == {n \in 0..N : n = 0 \/ (f[n].ok => HoldsFirst(txs, n, f[n].tx))}
<1>1. IsMerging(f, txs, N)
  BY MergingExists
<1>2. r = f[N]
  BY DEF MergeTransactions, IfOk, IsMerging, MergeStep, MergeNext
<1> HIDE DEF f
<1>3. \A n \in 1..N : f[n] = MergeStep(f, txs, n)
  BY <1>1 DEF IsMerging
<1>4. 0 \in T
  OBVIOUS
<1>5. ASSUME NEW n \in 0..N, n < N, n \in T PROVE n + 1 \in T
  <2>1. n + 1 \in 0..N /\ n + 1 \in 1..N
    BY <1>5
  <2>2. CASE n = 0
    <3>1. f[1] = [ok |-> TRUE, tx |-> txs[1]]
      <4>1. 1 \in 1..N
        BY <2>1, <2>2
      <4>2. f[1] = MergeStep(f, txs, 1)
        BY <1>3, <4>1
      <4> QED BY <4>2, Zenon DEF MergeStep
    <3>2. f[1].tx = txs[1] /\ 1 \in DOMAIN txs
      BY <2>1, <2>2, <3>1
    <3>3. \A m \in 1..1 : m = 1
      OBVIOUS
    <3>4. HoldsFirst(txs, 1, f[1].tx)
      <4>1. Shaped(txs[1]) /\ Lands(txs[1])
        BY <3>2 DEF AreApart
      <4>2. Totals(txs, 1, f[1].tx)
        BY <3>2, TotalOfOne
      <4> QED BY <3>2, <3>3, <4>1, <4>2 DEF HoldsFirst
    <3> QED BY <2>1, <2>2, <3>4
  <2>3. CASE n # 0
    <3>1. n \in 1..N /\ n + 1 # 1 /\ (n + 1) - 1 = n
      BY <2>3
    <3>2. f[n + 1] = MergeNext(f[n], txs[n + 1])
      BY <1>3, <2>1, <3>1 DEF MergeStep
    <3>3. ASSUME f[n + 1].ok PROVE HoldsFirst(txs, n + 1, f[n + 1].tx)
      <4>1. f[n].ok /\ f[n + 1] = Merge(f[n].tx, txs[n + 1])
        <5>1. CASE ~ f[n].ok
          <6>1. f[n + 1] = f[n]
            BY <3>2, <5>1 DEF MergeNext
          <6> QED BY <3>3, <5>1, <6>1
        <5>2. CASE f[n].ok
          BY <3>2, <5>2 DEF MergeNext
        <5> QED BY <5>1, <5>2
      <4>2. HoldsFirst(txs, n, f[n].tx)
        BY <1>5, <2>3, <4>1
      <4>3. AreMerged(f[n].tx, txs[n + 1], f[n + 1].tx)
        BY <3>3, <4>1 DEF AreMerged
      <4> QED BY <1>5, <3>1, <4>2, <4>3, OneMore
    <3> QED BY <2>1, <3>3
  <2> QED BY <2>2, <2>3
<1>6. 0..N \subseteq T
  <2> HIDE DEF T
  <2> QED BY <1>4, <1>5, SetInduction
<1> QED
  BY <1>2, <1>6

(***************************************************************************)
(* The invariant                                                           *)
(***************************************************************************)
Standing(m) == m.stage \in {"open", "paid"}

\* Each wallet holds what the transaction spends of its own, for long enough.
HeldRight(m) ==
  \A w \in Owner :
    /\ IsSpent(m.spent[w]) /\ AllOf(m.spent[w]) = InputIds(m.tx) \cap Mine(w)
    /\ m.until[w] \in Nat /\ (AllOf(m.spent[w]) # {} => Late(m.tx, m.until[w]))

GoodMade(m) ==
  /\ "stage" \in DOMAIN m /\ m.price \in Nat /\ m.paid \in Nat
  /\ Shaped(m.tx) /\ Lands(m.tx) /\ m.fee = Fee(m.tx, m.price)
  /\ DOMAIN m.spent = Owner /\ IsFun(m.spent) /\ DOMAIN m.until = Owner /\ IsFun(m.until)
  /\ HeldRight(m)
  /\ m.stage = "paid" => PaysEnough(m.tx, m.price)

\* What the parts of a job leave over, and that a transaction of them leaves just
\* that, when none of them is a contract's.
LeftByAll(job)  == [t \in TokenTypes |-> SumFunction([n \in DOMAIN job |-> LeftBy(job[n], t)])]
SumsUp(job, tx) == (\A n \in DOMAIN job : ~ Contractual(job[n])) => Leaves(tx, LeftByAll(job))

BuildsInv == asked \in Jobs /\ (Standing(made) => GoodMade(made) /\ SumsUp(asked, made.tx))

(* What it is to hold nothing. *)
LEMMA NoneSpentIs == IsSpent(NoneSpent) /\ AllOf(NoneSpent) = {}
  BY DEF NoneSpent, IsSpent, AllOf

\* What the parties have built, and what one transaction of them is.
AreParts(parts) ==
  /\ DOMAIN parts = DOMAIN asked
  /\ \A n \in DOMAIN asked : IsOwnPart(asked[n], parts[n])

(* Each party has one part. *)
LEMMA PartOfIs ==
    ASSUME asked \in Jobs, NEW w \in Parties
    PROVE  /\ PartOf(w) \in DOMAIN asked /\ asked[PartOf(w)].who = w
           /\ \A n \in DOMAIN asked : asked[n].who = w => n = PartOf(w)
<1>1. IsJob(asked)
  BY BuildsAssumption
<1>2. \E n \in DOMAIN asked : asked[n].who = w
  BY DEF Parties
<1>3. PartOf(w) \in DOMAIN asked /\ asked[PartOf(w)].who = w
  BY <1>2 DEF PartOf
<1> QED
  BY <1>1, <1>3 DEF IsJob

\* What the transaction of all parts holds of each of them.
HoldsParts(m, parts) ==
  /\ m.spent = [w \in Owner |-> IF w \in Parties THEN parts[PartOf(w)].spent ELSE NoneSpent]
  /\ m.until = [w \in Owner |-> IF w \in Parties THEN parts[PartOf(w)].expires ELSE 0]
AreTxs(txs, parts) == txs = [n \in DOMAIN parts |-> parts[n].tx]

(* What the parties hold of one transaction of all their parts. *)
LEMMA PartsHold ==
    ASSUME asked \in Jobs, NEW parts, AreParts(parts), NEW txs, AreTxs(txs, parts),
           NEW N \in Nat, DOMAIN asked = 1..N, NEW m, HoldsFirst(txs, N, m.tx), HoldsParts(m, parts)
    PROVE  HeldRight(m)
<1>1. \A n \in 1..N : n \in DOMAIN asked /\ txs[n] = parts[n].tx /\ IsOwnPart(asked[n], parts[n]) /\ asked[n].who \in Owner
  <2>1. IsJob(asked)
    BY BuildsAssumption
  <2> QED BY <2>1 DEF AreParts, AreTxs, IsJob, IsPart
<1>2. ASSUME NEW w \in Owner, w \in Parties
      PROVE  /\ IsSpent(m.spent[w]) /\ AllOf(m.spent[w]) = InputIds(m.tx) \cap Mine(w)
             /\ m.until[w] \in Nat /\ Late(m.tx, m.until[w])
  <2> DEFINE k == PartOf(w)
             r == parts[k]
  <2>1. k \in 1..N /\ asked[k].who = w /\ \A n \in 1..N : asked[n].who = w => n = k
    BY <1>2, PartOfIs
  <2>2. m.spent[w] = r.spent /\ m.until[w] = r.expires
    BY <1>2 DEF HoldsParts
  <2> HIDE DEF k
  <2>3. IsOwnPart(asked[k], r) /\ txs[k] = r.tx
    BY <1>1, <2>1
  <2> HIDE DEF r
  <2>4. InputIds(r.tx) = InputIds(m.tx) \cap Mine(w)
    <3>1. ASSUME NEW x \in InputIds(r.tx) PROVE x \in InputIds(m.tx) /\ x \in Mine(w)
      BY <2>1, <2>3 DEF HoldsFirst, IsOwnPart
    <3>2. ASSUME NEW x \in InputIds(m.tx), x \in Mine(w) PROVE x \in InputIds(r.tx)
      <4>1. PICK n \in 1..N : x \in InputIds(txs[n])
        BY DEF HoldsFirst
      <4>2. x \in Mine(asked[n].who) /\ asked[n].who \in Owner
        BY <1>1, <4>1 DEF IsOwnPart
      <4>3. asked[n].who = w
        BY <3>2, <4>2, StockIs
      <4> QED BY <2>1, <2>3, <4>1, <4>3
    <3> QED BY <3>1, <3>2
  <2>5. Late(m.tx, r.expires)
    <3>1. Late(r.tx, r.expires)
      BY <2>3 DEF IsOwnPart
    <3>2. \A s \in DOMAIN r.tx.intents : s \in DOMAIN m.tx.intents /\ m.tx.intents[s].ttl = r.tx.intents[s].ttl
      BY <2>1, <2>3 DEF HoldsFirst
    <3> QED BY <3>1, <3>2 DEF Late
  <2>6. r.expires \in Nat
    BY <2>5 DEF Late
  <2> QED BY <2>2, <2>3, <2>4, <2>5, <2>6 DEF IsOwnPart
<1>3. ASSUME NEW w \in Owner, w \notin Parties
      PROVE  /\ IsSpent(m.spent[w]) /\ AllOf(m.spent[w]) = {} /\ InputIds(m.tx) \cap Mine(w) = {}
             /\ m.until[w] \in Nat
  <2>1. m.spent[w] = NoneSpent /\ m.until[w] = 0
    BY <1>3 DEF HoldsParts
  <2>2. InputIds(m.tx) \cap Mine(w) = {}
    <3> SUFFICES ASSUME NEW x \in InputIds(m.tx), x \in Mine(w) PROVE FALSE
      OBVIOUS
    <3>1. PICK n \in 1..N : x \in InputIds(txs[n])
      BY DEF HoldsFirst
    <3>2. x \in Mine(asked[n].who) /\ asked[n].who \in Owner
      BY <1>1, <3>1 DEF IsOwnPart
    <3>3. asked[n].who # w
      BY <1>1, <1>3 DEF Parties
    <3> QED BY <3>2, <3>3, StockIs
  <2> QED BY <2>1, <2>2, NoneSpentIs
<1> QED
  BY <1>2, <1>3 DEF HeldRight

(* The parts spend different inputs. *)
LEMMA PartsAreApart ==
    ASSUME asked \in Jobs, NEW parts, AreParts(parts), NEW txs, txs = [n \in DOMAIN parts |-> parts[n].tx]
    PROVE  AreApart(txs)
<1>1. IsJob(asked)
  BY BuildsAssumption
<1>2. DOMAIN txs = DOMAIN asked
  BY DEF AreParts
<1>3. \A n \in DOMAIN asked : txs[n] = parts[n].tx /\ IsOwnPart(asked[n], parts[n]) /\ asked[n].who \in Owner
  BY <1>1 DEF AreParts, IsJob, IsPart
<1>4. \A n \in DOMAIN asked : Shaped(txs[n]) /\ Lands(txs[n]) /\ InputIds(txs[n]) \subseteq Mine(asked[n].who)
  BY <1>3 DEF IsOwnPart
<1>5. \A m, n \in DOMAIN asked : m # n => asked[m].who # asked[n].who
  BY <1>1 DEF IsJob
<1>6. ASSUME NEW m \in DOMAIN asked, NEW n \in DOMAIN asked, m # n
      PROVE  InputIds(txs[m]) \cap InputIds(txs[n]) = {}
  <2>1. Mine(asked[m].who) \cap Mine(asked[n].who) = {}
    BY <1>3, <1>5, <1>6, StockIs
  <2> QED BY <1>4, <2>1
<1> QED
  BY <1>2, <1>4, <1>6 DEF AreApart

(* One transaction of all the parts leaves over what they do. *)
LEMMA PartsSumUp ==
    ASSUME NEW parts, AreParts(parts), NEW txs, AreTxs(txs, parts),
           NEW N \in Nat, DOMAIN asked = 1..N, NEW tx, Totals(txs, N, tx)
    PROVE  SumsUp(asked, tx)
<1> SUFFICES ASSUME \A n \in DOMAIN asked : ~ Contractual(asked[n]) PROVE Leaves(tx, LeftByAll(asked))
  BY DEF SumsUp
<1>1. \A n \in 1..N : Leaves(txs[n], LeftByPart(asked[n]))
  BY DEF AreParts, AreTxs, IsOwnPart
<1>2. \A n \in 1..N : Valued(txs[n])
  BY <1>1 DEF Leaves
<1>3. Valued(tx) /\ \A t \in TokenTypes, s \in Segments : Balance(tx, t, s) = SumFunction(Balances(txs, N, t, s))
  BY <1>2 DEF Totals
<1>4. ASSUME NEW t \in TokenTypes, NEW s \in Segments
      PROVE  SumFunction(Balances(txs, N, t, s)) = IF s = Guaranteed THEN LeftByAll(asked)[t] ELSE 0
  <2> DEFINE f == Balances(txs, N, t, s)
             h == [n \in DOMAIN asked |-> LeftBy(asked[n], t)]
  <2>1. LeftByAll(asked)[t] = SumFunction(h)
    BY DEF LeftByAll
  <2>2. DOMAIN f = 1..N /\ DOMAIN h = 1..N /\ IsFiniteSet(1..N)
    BY FS_Interval DEF Balances
  <2>3. \A n \in 1..N : f[n] = IF s = Guaranteed THEN h[n] ELSE 0
    <3>1. \A n \in 1..N : Balance(txs[n], t, s) = IF s = Guaranteed THEN LeftByPart(asked[n])[t] ELSE 0
      BY <1>1 DEF Leaves
    <3>2. \A n \in 1..N : LeftByPart(asked[n])[t] = h[n]
      BY DEF LeftByPart
    <3> HIDE DEF h
    <3> QED BY <3>1, <3>2 DEF Balances
  <2> HIDE DEF f, h
  <2>4. CASE s = Guaranteed
    <3>1. SumFunction(f) = SumFunction(h)
      BY <2>2, <2>3, <2>4, SumsAgree
    <3> QED BY <2>1, <2>4, <3>1 DEF f
  <2>5. CASE s # Guaranteed
    <3>1. SumFunction(f) = 0
      BY <2>2, <2>3, <2>5, SumsAre
    <3> QED BY <2>5, <3>1 DEF f
  <2> QED BY <2>4, <2>5
<1> QED
  BY <1>3, <1>4 DEF Leaves

(* One transaction is merged with none. *)
LEMMA MergeOne ==
    ASSUME NEW txs, Len(txs) = 1
    PROVE  MergeTransactions(txs) = [ok |-> TRUE, tx |-> txs[1]]
<1> DEFINE f == CHOOSE g : IsMerging(g, txs, 1)
<1>1. IsMerging(f, txs, 1)
  BY MergingExists
<1>2. MergeTransactions(txs) = f[1]
  BY DEF MergeTransactions, IfOk, IsMerging, MergeStep, MergeNext
<1> HIDE DEF f
<1>3. f[1] = MergeStep(f, txs, 1)
  <2>1. 1 \in 1..1
    OBVIOUS
  <2> QED BY <1>1, <2>1 DEF IsMerging
<1>4. f[1] = [ok |-> TRUE, tx |-> txs[1]]
  BY <1>3, Zenon DEF MergeStep
<1> QED
  BY <1>2, <1>4

(* What the parties made stands as it must. *)
LEMMA BuiltIsGood ==
    ASSUME asked \in Jobs, NEW parts, parts = [n \in DOMAIN asked |-> Alone(asked[n])],
           NEW m, m = MadeOf(parts), Standing(m)
    PROVE  GoodMade(m) /\ SumsUp(asked, m.tx)
<1> DEFINE txs == [n \in DOMAIN parts |-> parts[n].tx]
           merged == MergeTransactions(txs)
           N == Len(asked)
<1>1. IsJob(asked) /\ N \in Nat \ {0} /\ DOMAIN asked = 1..N
  <2>1. IsJob(asked)
    BY BuildsAssumption
  <2>2. N \in Nat /\ DOMAIN asked = 1..N /\ asked \in [1..N -> Range(asked)]
    BY <2>1, SeqIsSeq DEF IsJob, IsSeq
  <2>3. N # 0
    <3> SUFFICES ASSUME N = 0 PROVE FALSE
      OBVIOUS
    <3>1. asked = <<>>
      BY <2>1 DEF IsJob, IsSeq
    <3> QED BY <2>1, <3>1 DEF IsJob
  <2> QED BY <2>1, <2>2, <2>3
<1>2. (\A n \in DOMAIN parts : parts[n].ok) /\ m = Merged(parts, merged)
  <2>1. CASE \E n \in DOMAIN parts : ~ parts[n].ok
    <3>1. m = [NothingMade EXCEPT !.stage = "refused"]
      BY <2>1 DEF MadeOf
    <3>2. m.stage = "refused"
      BY <3>1 DEF NothingMade
    <3> QED BY <3>2 DEF Standing
  <2>2. CASE ~(\E n \in DOMAIN parts : ~ parts[n].ok)
    BY <2>2 DEF MadeOf
  <2> QED BY <2>1, <2>2
<1>3. AreParts(parts)
  <2>1. \A n \in DOMAIN asked : parts[n] = Alone(asked[n]) /\ parts[n].ok /\ IsPart(asked[n])
    BY <1>1, <1>2 DEF IsJob
  <2> QED BY <2>1, AloneHolds DEF AreParts
<1>4. DOMAIN txs = 1..N /\ Len(txs) = N /\ AreApart(txs)
  <2>1. DOMAIN txs = 1..N /\ txs = [n \in 1..N |-> parts[n].tx]
    BY <1>1
  <2>2. AreApart(txs)
    BY <1>3, PartsAreApart
  <2> HIDE DEF txs, N
  <2> QED BY <1>1, <2>1, <2>2
<1> HIDE DEF N
<1>5. merged.ok /\ m = [stage |-> IF Len(asked) = 1 /\ asked[1].pay THEN "paid" ELSE "open", price |-> 1, paid |-> 0,
          payer |-> asked[1].who, tx |-> merged.tx, fee |-> IF Len(asked) = 1 THEN parts[1].fee ELSE Fee(merged.tx, 1),
          spent |-> [w \in Owner |-> IF w \in Parties THEN parts[PartOf(w)].spent ELSE NoneSpent],
          until |-> [w \in Owner |-> IF w \in Parties THEN parts[PartOf(w)].expires ELSE 0]]
  <2> HIDE DEF merged
  <2>1. CASE ~ merged.ok
    <3>1. m = [NothingMade EXCEPT !.stage = "collided"]
      BY <1>2, <2>1 DEF Merged
    <3>2. m.stage = "collided"
      BY <3>1 DEF NothingMade
    <3> QED BY <3>2 DEF Standing
  <2>2. CASE merged.ok
    BY <1>2, <2>2 DEF Merged
  <2> QED BY <2>1, <2>2
<1>6. HoldsFirst(txs, N, merged.tx)
  <2> HIDE DEF txs
  <2> QED BY <1>1, <1>4, <1>5, MergeAllHolds
<1>7. /\ m.tx = merged.tx /\ m.price = 1 /\ m.paid = 0
      /\ m.fee = IF Len(asked) = 1 THEN parts[1].fee ELSE Fee(m.tx, 1)
      /\ m.stage = IF Len(asked) = 1 /\ asked[1].pay THEN "paid" ELSE "open"
      /\ m.spent = [w \in Owner |-> IF w \in Parties THEN parts[PartOf(w)].spent ELSE NoneSpent]
      /\ m.until = [w \in Owner |-> IF w \in Parties THEN parts[PartOf(w)].expires ELSE 0]
      /\ "stage" \in DOMAIN m
  <2> HIDE DEF merged
  <2> QED BY <1>5
<1>8. Len(asked) = 1 => m.tx = parts[1].tx /\ IsOwnPart(asked[1], parts[1])
  <2> SUFFICES ASSUME Len(asked) = 1 PROVE m.tx = parts[1].tx /\ IsOwnPart(asked[1], parts[1])
    OBVIOUS
  <2>1. N = 1 /\ 1 \in DOMAIN asked
    BY <1>1 DEF N
  <2>2. merged = [ok |-> TRUE, tx |-> txs[1]]
    <3>1. Len(txs) = 1
      BY <1>4, <2>1
    <3> HIDE DEF txs
    <3> QED BY <3>1, MergeOne
  <2>3. txs[1] = parts[1].tx
    BY <1>1, <2>1 DEF AreParts
  <2> HIDE DEF txs, merged
  <2> QED BY <1>3, <1>7, <2>1, <2>2, <2>3 DEF AreParts
<1> HIDE DEF merged
<1>9. m.fee = Fee(m.tx, m.price) /\ (m.stage = "paid" => PaysEnough(m.tx, m.price))
  <2>1. CASE Len(asked) = 1
    BY <1>7, <1>8, <2>1 DEF IsOwnPart
  <2>2. CASE Len(asked) # 1
    BY <1>7, <2>2
  <2> QED BY <2>1, <2>2
<1>10. HeldRight(m)
  <2>1. AreTxs(txs, parts)
    BY DEF AreTxs
  <2> HIDE DEF txs
  <2>2. HoldsFirst(txs, N, m.tx)
    BY <1>6, <1>7
  <2>3. HoldsParts(m, parts)
    BY <1>7 DEF HoldsParts
  <2>4. N \in Nat /\ DOMAIN asked = 1..N
    BY <1>1
  <2> QED BY <1>3, <2>1, <2>2, <2>3, <2>4, PartsHold
<1>11. DOMAIN m.spent = Owner /\ IsFun(m.spent) /\ DOMAIN m.until = Owner /\ IsFun(m.until)
  BY <1>7 DEF IsFun
<1>12. Shaped(m.tx) /\ Lands(m.tx)
  BY <1>6, <1>7 DEF HoldsFirst
<1>13. SumsUp(asked, m.tx)
  <2>1. AreTxs(txs, parts)
    BY DEF AreTxs
  <2> HIDE DEF txs
  <2>2. Totals(txs, N, m.tx)
    BY <1>6, <1>7 DEF HoldsFirst
  <2>3. N \in Nat /\ DOMAIN asked = 1..N
    BY <1>1
  <2> QED BY <1>3, <2>1, <2>2, <2>3, PartsSumUp
<1> QED
  BY <1>7, <1>9, <1>10, <1>11, <1>12, <1>13 DEF GoodMade

\* What a payment makes of the holdings.
AddsDust(m, w, r) ==
  /\ m.tx = r.tx
  /\ m.spent = [made.spent EXCEPT ![w] = [dust |-> @.dust \cup r.spent.dust, utxos |-> @.utxos, coins |-> @.coins]]
  /\ m.until = [made.until EXCEPT ![w] = Max({@, r.expires})]

(* A payment leaves what all the other wallets hold, and holds what the payer drew. *)
LEMMA PaidHeld ==
    ASSUME asked \in Jobs, Standing(made), GoodMade(made), NEW w \in Owner, NEW price \in Nat,
           NEW view, IsView(view), Shows(view, w, HeldBy(w)), view.price = price,
           NEW r, IsSponsored(view, made.tx, r),
           NEW m, AddsDust(m, w, r)
    PROVE  HeldRight(m)
<1>1. HeldRight(made) /\ DOMAIN made.spent = Owner /\ DOMAIN made.until = Owner
  BY DEF GoodMade
<1>2. r.spent.dust \subseteq Mine(w)
  BY DEF IsSponsored, Shows
<1>3. InputIds(m.tx) = InputIds(made.tx) \cup r.spent.dust
  BY DEF IsSponsored, AddsDust
<1>4. ASSUME NEW v \in Owner, v # w
      PROVE  /\ IsSpent(m.spent[v]) /\ AllOf(m.spent[v]) = InputIds(m.tx) \cap Mine(v)
             /\ m.until[v] \in Nat /\ (AllOf(m.spent[v]) # {} => Late(m.tx, m.until[v]))
  <2>1. m.spent[v] = made.spent[v] /\ m.until[v] = made.until[v]
    BY <1>1, <1>4 DEF AddsDust
  <2>2. r.spent.dust \cap Mine(v) = {}
    BY <1>2, <1>4, StockIs
  <2>3. /\ IsSpent(made.spent[v]) /\ AllOf(made.spent[v]) = InputIds(made.tx) \cap Mine(v)
        /\ made.until[v] \in Nat /\ (AllOf(made.spent[v]) # {} => Late(made.tx, made.until[v]))
    BY <1>1 DEF HeldRight
  <2>4. Late(made.tx, made.until[v]) => Late(m.tx, made.until[v])
    BY DEF Late, IsSponsored, AddsDust
  <2> QED BY <1>3, <2>1, <2>2, <2>3, <2>4
<1>5. /\ IsSpent(m.spent[w]) /\ AllOf(m.spent[w]) = InputIds(m.tx) \cap Mine(w)
      /\ m.until[w] \in Nat /\ Late(m.tx, m.until[w])
  <2> DEFINE old == made.spent[w]
             new == [dust |-> old.dust \cup r.spent.dust, utxos |-> old.utxos, coins |-> old.coins]
  <2>1. m.spent[w] = new /\ m.until[w] = Max({made.until[w], r.expires})
    BY <1>1 DEF AddsDust
  <2>2. AllOf(old) = InputIds(made.tx) \cap Mine(w) /\ made.until[w] \in Nat
    BY <1>1 DEF HeldRight
  <2>3. IsSpent(new) /\ AllOf(new) = AllOf(old) \cup r.spent.dust
    BY DEF IsSpent, AllOf
  <2> HIDE DEF new, old
  <2>4. r.expires = Now + GlobalTtl /\ r.expires \in Nat
    BY BuildsAssumption, BalancingAssumption DEF IsSponsored
  <2>5. m.until[w] \in Nat /\ m.until[w] >= r.expires
    BY <2>1, <2>2, <2>4, MaxOf
  <2>6. Late(m.tx, m.until[w])
    BY <2>4, <2>5 DEF Late
  <2>7. AllOf(m.spent[w]) = InputIds(m.tx) \cap Mine(w)
    BY <1>2, <1>3, <2>1, <2>2, <2>3
  <2> QED BY <2>1, <2>3, <2>5, <2>6, <2>7
<1> QED
  BY <1>4, <1>5 DEF HeldRight

(* What a wallet has paid stands as it must. *)
LEMMA PaidIsGood ==
    ASSUME asked \in Jobs, Standing(made), GoodMade(made), SumsUp(asked, made.tx), NEW w \in Owner, NEW price \in Nat,
           NEW r, r = BalanceTransaction(View(w, price, HeldBy(w)), made.tx),
           NEW m, m = Paid(w, price, r), Standing(m)
    PROVE  GoodMade(m) /\ SumsUp(asked, m.tx)
<1> DEFINE view == View(w, price, HeldBy(w))
<1>1. IsView(view) /\ Shows(view, w, HeldBy(w)) /\ view.price = price /\ r = BalanceTransaction(view, made.tx)
  BY ViewIsView
<1> HIDE DEF view
<1>2. HeldBy(w) = InputIds(made.tx) \cap Mine(w)
  BY DEF GoodMade, HeldRight, HeldBy, AllOf
<1>3. Shaped(made.tx) /\ Lands(made.tx) /\ made.paid \in Nat /\ DOMAIN made.spent = Owner /\ DOMAIN made.until = Owner
  BY DEF GoodMade
<1>4. r.ok
  <2> SUFFICES ASSUME ~ r.ok PROVE FALSE
    OBVIOUS
  <2>1. m = [made EXCEPT !.stage = "unpaid", !.price = price, !.payer = w]
    BY DEF Paid
  <2>2. m.stage = "unpaid"
    BY <2>1 DEF GoodMade
  <2> QED BY <2>2 DEF Standing
<1>5. InputIds(made.tx) \cap IdsIn(view.dust) = {}
  BY <1>1, <1>2 DEF Shows
<1>6. IsSponsored(view, made.tx, r)
  BY <1>1, <1>3, <1>4, <1>5, BalanceTransactionHolds
<1> DEFINE spent == [made.spent EXCEPT ![w] = [dust |-> @.dust \cup r.spent.dust, utxos |-> @.utxos, coins |-> @.coins]]
           until == [made.until EXCEPT ![w] = Max({@, r.expires})]
<1>7. m = [stage |-> "paid", price |-> price, paid |-> made.paid + 1, payer |-> w, tx |-> r.tx, fee |-> r.fee,
           spent |-> spent, until |-> until]
  BY <1>4 DEF Paid
<1>8. DOMAIN spent = Owner /\ IsFun(spent) /\ DOMAIN until = Owner /\ IsFun(until)
  BY <1>3 DEF IsFun
<1>9. m.tx = r.tx /\ m.spent = spent /\ m.until = until /\ m.price = price /\ m.paid = made.paid + 1 /\ m.fee = r.fee
      /\ "stage" \in DOMAIN m
  <2> HIDE DEF spent, until
  <2> QED BY <1>7
<1>10. HeldRight(m)
  <2>1. AddsDust(m, w, r)
    BY <1>9 DEF AddsDust
  <2> HIDE DEF spent, until
  <2> QED BY <1>1, <1>6, <2>1, PaidHeld
<1> HIDE DEF spent, until
<1>11. m.paid \in Nat
  BY <1>3, <1>9
<1>12. Shaped(m.tx) /\ Lands(m.tx) /\ m.fee = Fee(m.tx, m.price) /\ PaysEnough(m.tx, m.price)
  BY <1>1, <1>6, <1>9 DEF IsSponsored
<1>13. SumsUp(asked, m.tx)
  <2>1. Keeps(m.tx, made.tx)
    BY <1>6, <1>9 DEF IsSponsored
  <2> QED BY <2>1, KeepsLeaves DEF SumsUp
<1> QED
  BY <1>8, <1>9, <1>10, <1>11, <1>12, <1>13 DEF GoodMade

(* The invariant holds at the start. *)
LEMMA BuildsInvStarts == InitBuilds => BuildsInv
<1> SUFFICES ASSUME InitBuilds PROVE BuildsInv
  OBVIOUS
<1>1. asked \in Jobs /\ made = NothingMade
  BY DEF InitBuilds
<1>2. made.stage = "asked"
  BY <1>1 DEF NothingMade
<1> QED
  BY <1>1, <1>2 DEF BuildsInv, Standing

(* Every step keeps it. *)
LEMMA BuildsInvKept == BuildsInv /\ [Build \/ Pay]_buildVars => BuildsInv'
<1> SUFFICES ASSUME BuildsInv, [Build \/ Pay]_buildVars PROVE BuildsInv'
  OBVIOUS
<1>1. asked \in Jobs
  BY DEF BuildsInv
<1>2. CASE Build
  <2>1. made' = MadeOf([n \in DOMAIN asked |-> Alone(asked[n])]) /\ asked' = asked
    BY <1>2 DEF Build
  <2>2. Standing(made') => GoodMade(made') /\ SumsUp(asked, made'.tx)
    BY <1>1, <2>1, BuiltIsGood
  <2>3. Standing(made)' <=> Standing(made')
    BY DEF Standing
  <2>4. GoodMade(made)' <=> GoodMade(made')
    BY DEF GoodMade, HeldRight
  <2>5. SumsUp(asked, made.tx)' <=> SumsUp(asked, made'.tx)
    BY <2>1
  <2> QED BY <1>1, <2>1, <2>2, <2>3, <2>4, <2>5 DEF BuildsInv
<1>3. CASE Pay
  <2>1. PICK w \in Sponsors : Sponsor(w)
    BY <1>3 DEF Pay
  <2> DEFINE price == made.price + made.paid * (Margin + 1)
             r == BalanceTransaction(View(w, price, HeldBy(w)), made.tx)
  <2>2. Standing(made) /\ made' = Paid(w, price, r) /\ asked' = asked
    BY <2>1 DEF Sponsor, Standing
  <2>3. GoodMade(made) /\ SumsUp(asked, made.tx)
    BY <2>2 DEF BuildsInv
  <2>4. w \in Owner
    BY BuildsAssumption
  <2>5. price \in Nat
    BY <2>3, BalancingAssumption DEF GoodMade
  <2>6. Standing(made') => GoodMade(made') /\ SumsUp(asked, made'.tx)
    <3> HIDE DEF price
    <3> QED BY <1>1, <2>2, <2>3, <2>4, <2>5, PaidIsGood
  <2>7. SumsUp(asked, made.tx)' <=> SumsUp(asked, made'.tx)
    BY <2>2
  <2> QED BY <1>1, <2>2, <2>6, <2>7 DEF BuildsInv, Standing, GoodMade, HeldRight
<1>4. CASE UNCHANGED buildVars
  BY <1>4 DEF buildVars, BuildsInv, Standing, GoodMade, HeldRight
<1> QED
  BY <1>2, <1>3, <1>4

(* The invariant says what is held. *)
LEMMA BuildsInvHolds == BuildsInv => HoldsWhatItSpends
<1> SUFFICES ASSUME BuildsInv, Standing(made)
             PROVE  /\ made.fee = Fee(made.tx, made.price)
                    /\ \A w \in Owner : HeldBy(w) = InputIds(made.tx) \cap Mine(w)
                    /\ \A w \in Owner : HeldBy(w) # {} /\ made.tx.intents # NoIntents =>
                         \E s \in DOMAIN made.tx.intents : made.until[w] >= made.tx.intents[s].ttl
  BY DEF HoldsWhatItSpends, Standing
<1>1. GoodMade(made)
  BY DEF BuildsInv
<1>2. \A w \in Owner : HeldBy(w) = AllOf(made.spent[w])
  BY DEF HeldBy, AllOf
<1>3. \A w \in Owner : HeldBy(w) = InputIds(made.tx) \cap Mine(w) /\ (HeldBy(w) # {} => Late(made.tx, made.until[w]))
  BY <1>1, <1>2 DEF GoodMade, HeldRight
<1>4. ASSUME NEW w \in Owner, HeldBy(w) # {}, made.tx.intents # NoIntents
      PROVE  \E s \in DOMAIN made.tx.intents : made.until[w] >= made.tx.intents[s].ttl
  <2>1. Late(made.tx, made.until[w])
    BY <1>3, <1>4
  <2>2. CASE made.until[w] >= Now + GlobalTtl
    <3>1. IsFun(made.tx.intents) /\ Lands(made.tx)
      BY <1>1 DEF GoodMade, Shaped
    <3>2. PICK s : s \in DOMAIN made.tx.intents
      BY <1>4, <3>1 DEF IsFun, NoIntents
    <3>3. made.tx.intents[s].ttl \in Now + 1 .. Now + GlobalTtl
      BY <3>1, <3>2 DEF Lands
    <3>4. made.until[w] \in Nat /\ Now \in Nat /\ GlobalTtl \in Nat
      BY <2>1, BuildsAssumption, BalancingAssumption DEF Late
    <3> QED BY <2>2, <3>2, <3>3, <3>4
  <2>3. CASE ~(made.until[w] >= Now + GlobalTtl)
    BY <2>1, <2>3 DEF Late
  <2> QED BY <2>2, <2>3
<1> QED
  BY <1>1, <1>3, <1>4 DEF GoodMade

(* For every stock, job, price and payment: what stands is sound. *)
THEOREM BuildsAreSound == BuildsSpec => []BuildsInv
<1> QED
  BY BuildsInvStarts, BuildsInvKept, PTL DEF BuildsSpec

(* For every stock, job, price and payment: each wallet holds what is spent of its own. *)
THEOREM WalletsHold == BuildsSpec => []HoldsWhatItSpends
  BY BuildsAreSound, BuildsInvHolds, PTL

\* A transaction whose fee is paid covers it as the price rises, and lands.
PaidLands ==
  made.stage = "paid" => Lands(made.tx) /\ \A rise \in 0..Margin : Covered(made.tx, made.price + rise)

(* The invariant says what is paid. *)
LEMMA BuildsInvLands == BuildsInv => PaidLands
<1> SUFFICES ASSUME BuildsInv, made.stage = "paid"
             PROVE  Lands(made.tx) /\ \A rise \in 0..Margin : Covered(made.tx, made.price + rise)
  BY DEF PaidLands
<1>1. GoodMade(made) /\ PaysEnough(made.tx, made.price)
  BY DEF BuildsInv, Standing, GoodMade
<1>2. Shaped(made.tx) /\ Lands(made.tx) /\ made.price \in Nat
  BY <1>1 DEF GoodMade
<1>3. Weight(made.tx) \in Nat /\ DustOf(made.tx) \in Nat /\ Margin \in Nat
  BY <1>2, WeightIsNat, BalancingAssumption
<1>4. ASSUME NEW rise \in 0..Margin PROVE Covered(made.tx, made.price + rise)
  <2>1. rise \in Nat /\ rise <= Margin
    BY <1>3
  <2>2. Fee(made.tx, made.price + rise) <= FeeWithMargin(made.tx, made.price)
    BY <1>2, <1>3, <2>1, FeeGrows
  <2>3. Fee(made.tx, made.price + rise) \in Int /\ FeeWithMargin(made.tx, made.price) \in Int
    BY <1>2, <1>3, <2>1 DEF Fee, FeeWithMargin
  <2> QED BY <1>1, <1>3, <2>2, <2>3 DEF PaysEnough, Covered
<1> QED
  BY <1>2, <1>4

(* For every stock, job, price and payment: what is paid lands as the price rises. *)
THEOREM PaidTransactionsLand == BuildsSpec => []PaidLands
  BY BuildsAreSound, BuildsInvLands, PTL

(* The invariant says that tokens add up. *)
LEMMA BuildsInvAddsUp == BuildsInv => AddsUp
<1> SUFFICES ASSUME BuildsInv, Standing(made), \A n \in DOMAIN asked : asked[n].what \notin {"call", "offer"}
             PROVE  Even(made.tx)
  BY DEF AddsUp, Standing
<1>1. Leaves(made.tx, LeftByAll(asked))
  BY DEF BuildsInv, SumsUp, Contractual
<1>2. \A t \in TokenTypes : LeftByAll(asked)[t] = LeftOver(t)
  BY DEF LeftByAll, LeftOver
<1> QED
  BY <1>1, <1>2 DEF Leaves, Even, TokenTypes

(* For every stock, job, price and payment: what no contract is part of adds up. *)
THEOREM TokensAddUp == BuildsSpec => []AddsUp
  BY BuildsAreSound, BuildsInvAddsUp, PTL

=============================================================================
