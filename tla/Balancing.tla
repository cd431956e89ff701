------------------------------ MODULE Balancing ------------------------------
(***************************************************************************)
(* A build: it selects inputs, assembles a transaction, and draws Dust for *)
(* the fee until the transaction, with the Dust in it, covers its own fee. *)
(*                                                                         *)
(* A transaction is its Zswap offers by segment and its intents by segment.*)
(* Values are numbers, and coins, UTXOs and Dust have identities.  What    *)
(* the ledger library does (coin selection, pricing, merging, sealing and  *)
(* the balance of a transaction) is modelled from how the code relies on   *)
(* it.  Proofs and ciphertexts are left out, except whether an output has  *)
(* a ciphertext its recipient can find it by.                              *)
(***************************************************************************)
EXTENDS Integers, FiniteSetsExt, SequencesExt, Functions

CONSTANTS
  Shielded, Unshielded,   \* the token types
  MaxRounds,              \* the most rounds a fee is balanced in
  FeeSegment,             \* the first segment a fee intent of its own may take
  LastSegment,            \* the last segment there is
  GlobalTtl,              \* the longest TTL the chain accepts
  Margin                  \* how far a price may rise before the fee is short

ASSUME BalancingAssumption ==
  /\ Shielded \cap Unshielded = {} /\ "night" \in Unshielded
  /\ MaxRounds \in Nat \ {0} /\ GlobalTtl \in Nat \ {0} /\ Margin \in Nat
  /\ FeeSegment \in Nat /\ FeeSegment > 1 /\ LastSegment \in Nat

Guaranteed    == 0
IntentSegment == 1
Segments      == {Guaranteed, IntentSegment}
Unknown       == -1

\* What fails ends the build, and is its answer.
Refused(why)         == [ok |-> FALSE, why |-> why]
IfOk(answer, Next(_)) == IF answer.ok THEN Next(answer) ELSE answer

---------------------------------------------------------------------------
(***************************************************************************)
(* Transactions.                                                           *)
(***************************************************************************)
NoOffer      == [inputs |-> <<>>, outputs |-> <<>>, transients |-> <<>>]
NoOffers     == [s \in Segments |-> NoOffer]
NoIntents    == [s \in {} |-> Unknown]
NoUtxos      == [inputs |-> <<>>, outputs |-> <<>>]
NoDust       == [spends |-> <<>>, registrations |-> <<>>]
Unsigned     == "unsigned"

\* An intent holds an unshielded offer for each segment, its contract actions
\* and its Dust actions.  Its signatures cover all of it but themselves.
Intent(ttl, utxos, actions) ==
  [ttl |-> ttl, utxos |-> utxos, actions |-> actions, dust |-> NoDust, binding |-> "assembled", signed |-> Unsigned]
EmptyIntent(ttl) == Intent(ttl, [s \in Segments |-> NoUtxos], <<>>)

DataToSign(intent, segment) == [intent EXCEPT !.signed = segment]
Sign(intent, segment)       == [intent EXCEPT !.signed = DataToSign(intent, segment)]

Transaction(offers, intents) == [offers |-> offers, intents |-> intents]

Value(xs)          == SumFunction([n \in DOMAIN xs |-> xs[n].value])
ValueOf(xs, token) == SumFunction([n \in DOMAIN xs |-> IF xs[n].token = token THEN xs[n].value ELSE 0])

\* What the actions of an intent do to a token in a segment, by kind of effect.
EffectOf(intent, s, kind, token) ==
  SumFunction([n \in DOMAIN intent.actions |-> ValueOf(intent.actions[n].effects[s][kind], token)])

OverIntents(tx, F(_)) == SumFunction([s \in DOMAIN tx.intents |-> F(tx.intents[s])])

\* What an offer, an intent and a transaction hold of a token in a segment
\* beyond what they pay.
OfferBalance(o, token) == ValueOf(o.inputs, token) - ValueOf(o.outputs, token)
IntentBalance(i, token, s) ==
  IF token \in Shielded THEN EffectOf(i, s, "shieldedMints", token)
  ELSE OfferBalance(i.utxos[s], token) + EffectOf(i, s, "mints", token)
         + EffectOf(i, s, "outputs", token) - EffectOf(i, s, "inputs", token)
Balance(tx, token, s) ==
  (IF token \in Shielded THEN OfferBalance(tx.offers[s], token) ELSE 0)
    + OverIntents(tx, LAMBDA i : IntentBalance(i, token, s))

\* The Dust a transaction brings, wherever it rides.
IntentDust(i) == Value(i.dust.spends) + Value(i.dust.registrations)
DustOf(tx)    == OverIntents(tx, IntentDust)

OfferWeight(o)  == Len(o.inputs) + Len(o.outputs) + 2 * Len(o.transients)
IntentWeight(i) ==
  1 + Len(i.actions) + Len(i.dust.spends) + Len(i.dust.registrations)
    + Len(i.utxos[Guaranteed].inputs) + Len(i.utxos[Guaranteed].outputs)
    + Len(i.utxos[IntentSegment].inputs) + Len(i.utxos[IntentSegment].outputs)
Weight(tx) ==
  OfferWeight(tx.offers[Guaranteed]) + OfferWeight(tx.offers[IntentSegment]) + OverIntents(tx, IntentWeight)

Fee(tx, price)            == price * Weight(tx)
FeeWithMargin(tx, price)  == (price + Margin) * Weight(tx)

\* Two transactions in one; two intents at one segment collide.
Merge(a, b) ==
  IF DOMAIN a.intents \cap DOMAIN b.intents # {} THEN Refused("collision")
  ELSE [ok |-> TRUE,
        tx |-> Transaction([s \in Segments |-> [k \in DOMAIN NoOffer |-> a.offers[s][k] \o b.offers[s][k]]],
                           [s \in DOMAIN a.intents \cup DOMAIN b.intents |->
                              IF s \in DOMAIN a.intents THEN a.intents[s] ELSE b.intents[s]])]

\* A user circuit: the mock prover refuses to guess the size of its proof.
IsCall(action) == action.kind = "call"
HasCall(intent) == \E n \in DOMAIN intent.actions : IsCall(intent.actions[n])

\* Proving a call fixes the binding of its intent anew.
Seal(tx) ==
  [tx EXCEPT !.intents = [s \in DOMAIN tx.intents |->
     IF HasCall(tx.intents[s]) THEN [tx.intents[s] EXCEPT !.binding = "sealed"] ELSE tx.intents[s]]]

---------------------------------------------------------------------------
(***************************************************************************)
(* Selection.  A view is what a build may draw on: the coins, UTXOs and    *)
(* Dust of one wallet, with the chain's price and clock as it knows them.  *)
(***************************************************************************)
\* Whether a strategy takes x before y.
Before(x, y, strategy) ==
  IF x.value = y.value THEN x.id < y.id
  ELSE IF strategy = "smallest" THEN x.value < y.value ELSE x.value > y.value

Ordered(xs, strategy) ==
  [n \in 1..Cardinality(xs) |-> CHOOSE x \in xs : Cardinality({y \in xs : Before(y, x, strategy)}) = n - 1]

\* How many of the first in a line are worth an amount.
Enough(line, amount) == {n \in 0..Len(line) : Value(SubSeq(line, 1, n)) >= amount}

\* The first coins in the strategy's order that cover the amount.
Cover(chosen, amount) == [ok |-> TRUE, chosen |-> chosen, change |-> Value(chosen) - amount]
CoverFrom(line, amount) ==
  IF Enough(line, amount) = {} THEN Refused("insufficient")
  ELSE Cover(SubSeq(line, 1, Min(Enough(line, amount))), amount)
CoverValue(xs, token, amount, strategy) == CoverFrom(Ordered({x \in xs : x.token = token}, strategy), amount)

Payment(token, value, to) == [token |-> token, value |-> value, to |-> to, found |-> TRUE]
ChangeAboveOne(view, token, value) ==   \* as if change of one were nothing
  IF value > 1 THEN <<Payment(token, value, view.wallet)>> ELSE <<>>

ChangeTo(view, token, value) == IF value > 0 THEN <<Payment(token, value, view.wallet)>> ELSE <<>>

Ids(xs)  == {xs[n].id : n \in DOMAIN xs}
NoneSpent == [dust |-> {}, utxos |-> {}, coins |-> {}]

\* The spend of named coins: each once, and each the wallet's own.
PrepareShieldedInputs(view, names) ==
  IF ~ IsInjective(names) THEN Refused("duplicate")
  ELSE IF ~ Range(names) \subseteq {c.id : c \in view.coins} THEN Refused("not spendable")
  ELSE [ok |-> TRUE, inputs |-> [n \in DOMAIN names |-> CHOOSE c \in view.coins : c.id = names[n]]]

PrepareUnshieldedInputs(view, token, amount) ==
  IfOk(CoverValue(view.utxos, token, amount, "largest"), LAMBDA cover :
    [ok |-> TRUE, inputs |-> cover.chosen, outputs |-> ChangeTo(view, token, cover.change)])

---------------------------------------------------------------------------
(***************************************************************************)
(* The time of a build.                                                    *)
(***************************************************************************)
ChainTime(view)  == Max({view.tblock, view.last})
LongestTtl(view) == ChainTime(view) + GlobalTtl

IntentTtl(view, ttl) ==
  IF ttl = Unknown THEN [ok |-> TRUE, ttl |-> LongestTtl(view)]
  ELSE IF ttl = 0 \/ ttl > GlobalTtl THEN Refused("ttl out of range")
  ELSE [ok |-> TRUE, ttl |-> ChainTime(view) + ttl]

---------------------------------------------------------------------------
(***************************************************************************)
(* Assembly.  A plan is what the transaction should hold, what pays its    *)
(* fee, and the TTL the caller asked for.                                  *)
(***************************************************************************)
NewPlan == [offers |-> NoOffers, intents |-> NoIntents, funding |-> <<>>, registrations |-> <<>>, ttl |-> Unknown]
PlannedIntent(utxos, actions) == [s \in {IntentSegment} |-> [utxos |-> utxos, actions |-> actions]]

GuaranteedOffer(offer) == [s \in Segments |-> IF s = Guaranteed THEN offer ELSE NoOffer]
GuaranteedUtxos(utxos) == PlannedIntent([s \in Segments |-> IF s = Guaranteed THEN utxos ELSE NoUtxos], <<>>)

PaysOwnFee(plan) == plan.funding # <<>> \/ plan.registrations # <<>>

AssembleUnproven(view, plan) ==
  IF plan.ttl # Unknown /\ plan.intents = NoIntents /\ ~ PaysOwnFee(plan) THEN Refused("ttl without intent")
  ELSE IfOk(IntentTtl(view, plan.ttl), LAMBDA granted :
         [ok |-> TRUE, ttl |-> granted.ttl,
          tx |-> Transaction(plan.offers, [s \in DOMAIN plan.intents |->
                   Sign(Intent(granted.ttl, plan.intents[s].utxos, plan.intents[s].actions), s)])])

---------------------------------------------------------------------------
(***************************************************************************)
(* Dust for the fee.                                                       *)
(***************************************************************************)
\* The funding wallets give in turn, each its largest Dust first, until the
\* request is met: the last spend pays what is left to pay, no more.
FundingLine(funding) == FlattenSeq([n \in DOMAIN funding |-> Ordered(funding[n], "largest")])
SpeculativeSpend(line, request) ==
  [n \in 1..Min(Enough(line, request)) |->
     [id |-> line[n].id, value |-> Min({line[n].value, request - Value(SubSeq(line, 1, n - 1))})]]

GatherFrom(line, request) ==
  IF Enough(line, request) = {} THEN Refused("insufficient dust")
  ELSE [ok |-> TRUE, spends |-> SpeculativeSpend(line, request)]
GatherDustSpends(funding, request) == GatherFrom(FundingLine(funding), request)

\* The build's own intent as it is to be, signed.
SignOwn(tx, own) ==
  Transaction(tx.offers, [s \in DOMAIN tx.intents \cup {IntentSegment} |->
                            IF s = IntentSegment THEN Sign(own, s) ELSE tx.intents[s]])

\* The Dust actions join the build's own intent, which is signed again, since
\* its signatures do not cover them.
ApplyDust(tx, spends, registrations, ttl) ==
  IF spends = <<>> /\ registrations = <<>> THEN tx
  ELSE LET own == IF IntentSegment \in DOMAIN tx.intents THEN tx.intents[IntentSegment] ELSE EmptyIntent(ttl)
           paid == [own EXCEPT !.dust = [spends |-> spends, registrations |-> registrations]]
       IN SignOwn(tx, paid)

\* The segment a fee intent takes beside the intents of the transaction.
FreeSegments(external) == (FeeSegment..LastSegment) \ DOMAIN external.intents

\* The transaction of a round: the build's own with Dust in it, or the external
\* one with a fee intent beside it, once there is Dust to put there.
Candidate(fee, spends) ==
  IF fee.how = "join"
  THEN IF \E s \in DOMAIN fee.tx.intents : HasCall(fee.tx.intents[s]) THEN Refused("mock_prove")
       ELSE [ok |-> TRUE, tx |-> ApplyDust(fee.tx, spends, fee.registrations, fee.ttl)]
  ELSE IF spends = <<>> THEN [ok |-> TRUE, tx |-> fee.tx]
  ELSE Merge(fee.tx, Transaction(NoOffers, [s \in {Min(FreeSegments(fee.tx))} |->
                       [EmptyIntent(fee.ttl) EXCEPT !.dust.spends = spends]]))

MissingDust(tx, price) == Max({0, FeeWithMargin(tx, price) - DustOf(tx)})

\* Each round asks for the whole need of the candidate before it, since it
\* starts from the unpaid transaction again.
Settled(round, result) == [round EXCEPT !.settled = TRUE, !.result = result]
WeighedAnew(round, spends, tx, short) ==   \* as if the Dust drawn so far stayed in place
  IF short > 0 THEN [round EXCEPT !.request = short]
  ELSE Settled(round, [ok |-> TRUE, tx |-> tx, spends |-> spends])

Weighed(round, spends, tx, short) ==
  IF short > 0 THEN [round EXCEPT !.request = @ + short]
  ELSE Settled(round, [ok |-> TRUE, tx |-> tx, spends |-> spends])
Tried(fee, round, spends, candidate) ==
  IF ~ candidate.ok THEN Settled(round, candidate)
  ELSE Weighed(round, spends, candidate.tx, MissingDust(candidate.tx, fee.price))
Drawn(fee, round, dust) ==
  IF ~ dust.ok THEN Settled(round, dust) ELSE Tried(fee, round, dust.spends, Candidate(fee, dust.spends))
FeeRound(fee, round) == IF round.settled THEN round ELSE Drawn(fee, round, GatherDustSpends(fee.funding, round.request))

FirstRound == [settled |-> FALSE, request |-> 0, result |-> Refused("did not converge")]
BalanceFees(fee) ==
  LET round[n \in 0..MaxRounds] == IF n = 0 THEN FirstRound ELSE FeeRound(fee, round[n - 1])
  IN round[MaxRounds].result

---------------------------------------------------------------------------
(***************************************************************************)
(* A build, from the plan to the proven transaction.                       *)
(***************************************************************************)
\* The time after which the transaction can no longer land, as its build knows.
ExpiresAt(view, intents) ==
  IF intents = NoIntents THEN LongestTtl(view) ELSE Min({intents[s].ttl : s \in DOMAIN intents})

Proven(view, tx, spent, expires) ==
  [ok |-> TRUE, tx |-> tx, spent |-> spent, expires |-> expires, fee |-> Fee(tx, view.price)]

\* Balance the plan's fee, if it pays one, and prove.
PayAsBuilt(view, plan, unpaid) ==
  IF PaysOwnFee(plan)
  THEN BalanceFees([how |-> "join", tx |-> unpaid.tx, funding |-> plan.funding, ttl |-> unpaid.ttl,
                    registrations |-> plan.registrations, price |-> view.price])
  ELSE [ok |-> TRUE, tx |-> unpaid.tx, spends |-> <<>>]

Prepare(view, plan, spent) ==
  IfOk(AssembleUnproven(view, plan), LAMBDA unpaid :
    IfOk(PayAsBuilt(view, plan, unpaid), LAMBDA paid :
      Proven(view, Seal(paid.tx), [spent EXCEPT !.dust = Ids(paid.spends)], ExpiresAt(view, paid.tx.intents))))

\* Pay the fee of a transaction that is proven already.  What is missing of
\* any other token is not for the payer of the fee to supply.
BalanceTransaction(view, external) ==
  IF \E t \in Shielded \cup Unshielded, s \in Segments : Balance(external, t, s) < 0 THEN Refused("token deficit")
  ELSE IF FreeSegments(external) = {} THEN Refused("no segment left")
  ELSE IfOk(BalanceFees([how |-> "beside", tx |-> external, funding |-> <<view.dust>>, ttl |-> LongestTtl(view),
                         registrations |-> <<>>, price |-> view.price]), LAMBDA paid :
         Proven(view, paid.tx, [NoneSpent EXCEPT !.dust = Ids(paid.spends)], LongestTtl(view)))

MergeTransactions(txs) ==
  LET merged[n \in 1..Len(txs)] ==
        IF n = 1 THEN [ok |-> TRUE, tx |-> txs[1]] ELSE IfOk(merged[n - 1], LAMBDA m : Merge(m.tx, txs[n]))
  IN merged[Len(txs)]

---------------------------------------------------------------------------
(***************************************************************************)
(* Transfers.                                                              *)
(***************************************************************************)
\* What a caller asks for, as its builder starts out; it may then set the
\* strategy and the TTL, or leave the fee to another.
UnshieldedTransfer(token, amount, to) ==
  [kind |-> "unshielded", token |-> token, amount |-> amount, to |-> to, pay |-> TRUE, strategy |-> "largest", ttl |-> Unknown]
ShieldedTransfer(token, amount, to) ==
  [kind |-> "shielded", token |-> token, amount |-> amount, to |-> to, pay |-> TRUE, strategy |-> "largest", ttl |-> Unknown]
ShieldedSwap(give, given, take, taken) ==
  [kind |-> "swap", give |-> give, given |-> given, take |-> take, taken |-> taken, strategy |-> "largest", ttl |-> Unknown]
DustRegistration(ctime, target) == [kind |-> "register", ctime |-> ctime, target |-> target, ttl |-> Unknown]
WithoutDust(request) == [request EXCEPT !.pay = FALSE]

IsRequest(r) ==
  /\ r.ttl \in Nat \cup {Unknown}
  /\ \/ r.kind \in {"unshielded", "shielded"} /\ r.amount \in Nat /\ r.pay \in BOOLEAN
     \/ r.kind = "swap" /\ r.give \in Shielded /\ r.take \in Shielded /\ r.given \in Nat /\ r.taken \in Nat
     \/ r.kind = "register" /\ r.ctime \in Nat \cup {Unknown}

Funding(view, pay) == IF pay THEN <<view.dust>> ELSE <<>>

\* Spend coins that cover an amount, pay, and take the change.
PrepareShieldedOffer(view, request, token, amount, payment, pay) ==
  IfOk(CoverValue(view.coins, token, amount, request.strategy), LAMBDA cover :
    IfOk(PrepareShieldedInputs(view, [n \in DOMAIN cover.chosen |-> cover.chosen[n].id]), LAMBDA spend :
      Prepare(view,
        [NewPlan EXCEPT !.funding = Funding(view, pay), !.ttl = request.ttl,
           !.offers = GuaranteedOffer([inputs |-> spend.inputs, transients |-> <<>>,
                                       outputs |-> <<payment>> \o ChangeTo(view, token, cover.change)])],
        [NoneSpent EXCEPT !.coins = Ids(cover.chosen)])))

PrepareShielded(view, request) ==
  PrepareShieldedOffer(view, request, request.token, request.amount,
                       Payment(request.token, request.amount, request.to), request.pay)

\* Half of a swap: what is given leaves a surplus, and what is received a
\* deficit, that the other half cancels.
PrepareShieldedSwap(view, request) ==
  PrepareShieldedOffer(view, request, request.give, request.given,
                       Payment(request.take, request.taken, view.wallet), FALSE)

PrepareUnshielded(view, request) ==
  IfOk(CoverValue(view.utxos, request.token, request.amount, request.strategy), LAMBDA cover :
    Prepare(view,
      [NewPlan EXCEPT !.funding = Funding(view, request.pay), !.ttl = request.ttl,
         !.intents = GuaranteedUtxos([inputs |-> cover.chosen,
                                      outputs |-> <<Payment(request.token, request.amount, request.to)>>
                                                    \o ChangeTo(view, request.token, cover.change)])],
      [NoneSpent EXCEPT !.utxos = Ids(cover.chosen)]))

\* The Dust that NIGHT has accrued since it was created, up to its cap.
Availability(view, utxo, ctime) ==
  Min({Max({0, view.tblock - ctime}) * utxo.value * view.decay, utxo.value * view.ratio})

\* Spend one NIGHT UTXO that generates no Dust yet, and create it again; the
\* Dust it has accrued pays.  One whose age is a guess ranks last.
Register(view, request, chosen, available) ==
  Prepare(view,
    [NewPlan EXCEPT !.ttl = request.ttl,
       !.intents = GuaranteedUtxos([inputs |-> <<chosen>>, outputs |-> <<Payment("night", chosen.value, view.wallet)>>]),
       !.registrations = <<[value |-> available, utxo |-> chosen.id, to |-> request.target]>>],
    [NoneSpent EXCEPT !.utxos = {chosen.id}])

\* When a UTXO was created: as the indexer says, or the caller, or a while ago.
CreatedAt(view, request, utxo) ==
  IF utxo.ctime # Unknown THEN utxo.ctime
  ELSE IF request.ctime # Unknown THEN request.ctime ELSE Max({0, view.tblock - 1})

\* The one with the most Dust, of those whose age is known if there are any.
ChooseRegistrationInput(open, available) ==
  LET known == {u \in open : u.ctime # Unknown}
      ranked == IF known # {} THEN known ELSE open
  IN CHOOSE u \in ranked : \A v \in ranked : available[v] <= available[u]

PrepareRegisterDust(view, request) ==
  LET open == {u \in view.utxos : u.token = "night" /\ ~ u.registered}
      available == [u \in open |-> Availability(view, u, CreatedAt(view, request, u))]
      For(chosen) == Register(view, request, chosen, available[chosen])
  IN IF open = {} THEN Refused("nothing to register") ELSE For(ChooseRegistrationInput(open, available))

Transfer(view, request) ==
  CASE request.kind = "shielded"   -> PrepareShielded(view, request)
    [] request.kind = "unshielded" -> PrepareUnshielded(view, request)
    [] request.kind = "swap"       -> PrepareShieldedSwap(view, request)
    [] request.kind = "register"   -> PrepareRegisterDust(view, request)

=============================================================================
