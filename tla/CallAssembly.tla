---------------------------- MODULE CallAssembly ----------------------------
(***************************************************************************)
(* The transactions of a contract: a circuit call, with the coins its      *)
(* circuit creates and the caller's value that pays for them, a deploy     *)
(* with the shielded payments it carries, and a maintenance update.        *)
(*                                                                         *)
(* The ledger balances each token in each segment on its own, and a        *)
(* transcript claims the coins of its own segment only.  So every coin,    *)
(* payment and change must ride in the segment that accounts for it.       *)
(***************************************************************************)
EXTENDS Balancing

CONSTANTS
  MaxValue    \* the largest value a total can hold

ASSUME CallAssemblyAssumption == MaxValue \in Nat

Contract == "contract"

---------------------------------------------------------------------------
(***************************************************************************)
(* What a transcript asks of its transaction.                              *)
(***************************************************************************)
\* The outputs that pay what a transcript claims to send to users.
PayoutsOf(effects) == SetToSeq({c \in Range(effects.claims) : c.to # Contract /\ c.token \in Unshielded})

\* What the caller must bring of each unshielded token: what the contract takes
\* and pays out, beyond what it sends and mints.
DepositsOf(effects) ==
  LET Need(t) == ValueOf(effects.inputs \o PayoutsOf(effects), t)
      Have(t) == ValueOf(effects.outputs \o effects.mints, t)
  IN [t \in {u \in Unshielded : Need(u) > Have(u)} |-> Need(t) - Have(t)]

\* The total under each key.
TotalByKey(entries) ==
  [k \in {entries[n].key : n \in DOMAIN entries} |-> Value(SelectSeq(entries, LAMBDA e : e.key = k))]
Overflows(totals) == \E k \in DOMAIN totals : totals[k] > MaxValue
TotalAt(totals, k) == IF k \in DOMAIN totals THEN totals[k] ELSE 0
Entry(key, value) == [key |-> key, value |-> value]

\* What the attached coins carry beyond what is drawn from them: an output that
\* a mint covers draws nothing.  A key that falls short is left out.
ChangeDueUnminted(attached, drawn, minted) ==   \* a minted coin draws too
  LET Owed(k) == attached[k] - TotalAt(drawn, k)
  IN [k \in {a \in DOMAIN attached : Owed(a) > 0} |-> Owed(k)]

ChangeDue(attached, drawn, minted) ==
  LET Owed(k) == attached[k] - Max({0, TotalAt(drawn, k) - TotalAt(minted, k)})
  IN [k \in {a \in DOMAIN attached : Owed(a) > 0} |-> Owed(k)]

---------------------------------------------------------------------------
(***************************************************************************)
(* The coins of the circuit.                                               *)
(***************************************************************************)
Commitment(coin, to) == [id |-> coin.id, to |-> to]

\* The segment whose transcript claims the coin.
SegmentOf(call, commitment) ==
  LET late == call.effects[IntentSegment]
  IN IF commitment \in late.spends \cup late.receives THEN IntentSegment ELSE Guaranteed

\* A user finds a coin by the ciphertext made with its key, if that is known.
OutputOf(view, call, o) ==
  [id |-> o.id, token |-> o.token, value |-> o.value, to |-> o.to,
   found |-> o.to = Contract \/ o.to \in call.keys \cup {view.wallet}]

\* A coin joins the offer of a segment.
Joins(offers, s, kind, coin) ==
  [t \in Segments |-> [k \in DOMAIN NoOffer |->
     IF t = s /\ k = kind THEN Append(offers[t][k], coin) ELSE offers[t][k]]]

\* Add the circuit's next coin to the offer of its segment.  One the circuit
\* also spends is a transient; any other is an output, drawn from what funds it.
AddOutput(view, call, c, o) ==
  LET commitment == Commitment(o, o.to)
      s == SegmentOf(call, commitment)
      coin == OutputOf(view, call, o)
      routes == Append(c.routes, [token |-> o.token, segment |-> s])
  IN IF Contains(c.pending, commitment)
     THEN [offers |-> Joins(c.offers, s, "transients", coin), routes |-> routes,
           drawn |-> c.drawn, pending |-> RemoveFirst(c.pending, commitment)]
     ELSE [offers |-> Joins(c.offers, s, "outputs", coin), routes |-> routes,
           drawn |-> Append(c.drawn, Entry(<<o.token, s>>, o.value)), pending |-> c.pending]

NoneAdded(call) ==
  [offers |-> NoOffers, routes |-> <<>>, drawn |-> <<>>,
   pending |-> [n \in DOMAIN call.inputs |-> Commitment(call.inputs[n], Contract)]]
CircuitOffers(view, call) ==
  LET circuit[n \in 0..Len(call.outputs)] ==
        IF n = 0 THEN NoneAdded(call) ELSE AddOutput(view, call, circuit[n - 1], call.outputs[n])
  IN circuit[Len(call.outputs)]

\* The segments of the circuit's coins of a token.
RoutesOf(circuit, token) ==
  {circuit.routes[n].segment : n \in {m \in DOMAIN circuit.routes : circuit.routes[m].token = token}}

\* A caller's coin rides with the coins it pays for, or in the guaranteed
\* segment when there are none.
ShieldedInputSegment(circuit, token) ==
  IF RoutesOf(circuit, token) = {IntentSegment} THEN IntentSegment ELSE Guaranteed

\* What the call mints, by token and segment.
MintedBy(call) ==
  LET Of1(s) == LET m == call.effects[s].shieldedMints
                IN [n \in DOMAIN m |-> Entry(<<m[n].token, s>>, m[n].value)]
  IN TotalByKey(Of1(Guaranteed) \o Of1(IntentSegment))

\* The outputs that return the change, in the segment of the coins it is of.
ChangeIn(view, change, s) ==
  LET keys == SetToSeq({k \in DOMAIN change : k[2] = s})
  IN [n \in DOMAIN keys |-> Payment(keys[n][1], change[keys[n]], view.wallet)]

ValueAttached(circuit, coins) ==
  TotalByKey([n \in DOMAIN coins |-> Entry(<<coins[n].token, ShieldedInputSegment(circuit, coins[n].token)>>, coins[n].value)])

\* The caller's coins join the circuit's offers, and their change with them.
AttachCoins(view, circuit, coins, change) ==
  [ok |-> TRUE,
   offers |-> [s \in Segments |->
     [inputs |-> SetToSeq({c \in Range(coins) : ShieldedInputSegment(circuit, c.token) = s}),
      outputs |-> circuit.offers[s].outputs \o ChangeIn(view, change, s),
      transients |-> circuit.offers[s].transients]]]

AttachInputs(view, circuit, coins, minted) ==
  IF \E n \in DOMAIN coins : RoutesOf(circuit, coins[n].token) = Segments THEN Refused("ambiguous segment")
  ELSE IF Overflows(ValueAttached(circuit, coins)) THEN Refused("overflow")
  ELSE AttachCoins(view, circuit, coins, ChangeDue(ValueAttached(circuit, coins), TotalByKey(circuit.drawn), minted))

---------------------------------------------------------------------------
(***************************************************************************)
(* The caller's unshielded value.                                          *)
(***************************************************************************)
Draws(view, deposits) ==
  LET tokens == SetToSeq(DOMAIN deposits)
  IN [n \in DOMAIN tokens |-> PrepareUnshieldedInputs(view, tokens[n], deposits[tokens[n]])]

\* The payouts of a segment, and what the caller draws for it with the change.
PaidOut(payouts) == [n \in DOMAIN payouts |-> Payment(payouts[n].token, payouts[n].value, payouts[n].to)]
OfferOf(payouts, draws) ==
  IF \E n \in DOMAIN draws : ~ draws[n].ok THEN Refused("insufficient")
  ELSE [ok |-> TRUE, utxos |->
         [inputs |-> FlattenSeq([n \in DOMAIN draws |-> draws[n].inputs]),
          outputs |-> PaidOut(payouts) \o FlattenSeq([n \in DOMAIN draws |-> draws[n].outputs])]]
UnshieldedOffer(view, effects) == OfferOf(PayoutsOf(effects), Draws(view, DepositsOf(effects)))

\* Proving fixed the binding, which the signatures of the assembly do not cover.
SignUnshieldedSpends(tx) ==
  LET own == tx.intents[IntentSegment]
  IN IF own.utxos[Guaranteed].inputs = <<>> /\ own.utxos[IntentSegment].inputs = <<>> THEN tx
     ELSE SignOwn(tx, own)

---------------------------------------------------------------------------
(***************************************************************************)
(* The transactions.                                                       *)
(***************************************************************************)
\* The fee of a transaction that is proven already, when this build pays it.
PayFeeAlone(view, unpaid, pay) ==   \* the inputs of the fee take the place of the others
  IF ~ unpaid.ok \/ ~ pay THEN unpaid ELSE BalanceTransaction(view, unpaid.tx)

PayFee(view, unpaid, pay) ==
  IF ~ unpaid.ok \/ ~ pay THEN unpaid
  ELSE IfOk(BalanceTransaction(view, unpaid.tx), LAMBDA paid :
         [ok |-> TRUE, tx |-> paid.tx, spent |-> [unpaid.spent EXCEPT !.dust = paid.spent.dust],
          expires |-> unpaid.expires, fee |-> paid.fee])

\* The call as planned, proven, with the signatures its binding needs.
ProveWithoutFee(view, call, coins, offers, utxos) ==
  IfOk(Prepare(view,
         [NewPlan EXCEPT !.offers = offers, !.intents = PlannedIntent(utxos, <<[kind |-> "call", effects |-> call.effects]>>)],
         [NoneSpent EXCEPT !.coins = Ids(coins), !.utxos = Ids(utxos[Guaranteed].inputs \o utxos[IntentSegment].inputs)]),
       LAMBDA proven : [proven EXCEPT !.tx = SignUnshieldedSpends(@)])

Assemble(view, call, circuit, minted) ==
  IF Overflows(minted) \/ Overflows(TotalByKey(circuit.drawn)) THEN Refused("overflow")
  ELSE IF circuit.pending # <<>> THEN Refused("spend of a coin of another call")
  ELSE IfOk(PrepareShieldedInputs(view, call.coins), LAMBDA spend :
       IfOk(UnshieldedOffer(view, call.effects[Guaranteed]), LAMBDA early :
       IfOk(UnshieldedOffer(view, call.effects[IntentSegment]), LAMBDA late :
       IfOk(AttachInputs(view, circuit, spend.inputs, minted), LAMBDA attached :
         ProveWithoutFee(view, call, spend.inputs, attached.offers,
                         [s \in Segments |-> IF s = Guaranteed THEN early.utxos ELSE late.utxos])))))

\* One token in both segments would be paid for by the same UTXOs.
CallTransaction(view, call, pay) ==
  IF DOMAIN DepositsOf(call.effects[Guaranteed]) \cap DOMAIN DepositsOf(call.effects[IntentSegment]) # {}
  THEN Refused("deposit in both segments")
  ELSE PayFee(view, Assemble(view, call, CircuitOffers(view, call), MintedBy(call)), pay)

NoEffects ==
  [inputs |-> <<>>, outputs |-> <<>>, mints |-> <<>>, claims |-> <<>>, shieldedMints |-> <<>>, spends |-> {}, receives |-> {}]
SingleAction(kind) ==
  PlannedIntent([s \in Segments |-> NoUtxos], <<[kind |-> kind, effects |-> [s \in Segments |-> NoEffects]]>>)

\* A deploy or an update with no offer pays its fee as it is built.
BuildWithMockFeeProofs(view, kind) ==
  Prepare(view, [NewPlan EXCEPT !.intents = SingleAction(kind), !.funding = <<view.dust>>], NoneSpent)

\* A deploy that pays shielded tokens spends coins the caller names, each whole.
TotalOf(xs) == TotalByKey([n \in DOMAIN xs |-> Entry(<<xs[n].token, Guaranteed>>, xs[n].value)])
OfferWith(view, inputs, outputs, held, paid) ==
  IF Overflows(held) \/ Overflows(paid) THEN Refused("overflow")
  ELSE IF \E k \in DOMAIN paid : paid[k] > TotalAt(held, k) THEN Refused("shortfall")
  ELSE Prepare(view,
         [NewPlan EXCEPT !.intents = SingleAction("deploy"),
            !.offers = GuaranteedOffer([inputs |-> inputs, transients |-> <<>>,
                                        outputs |-> PaidOut(outputs) \o ChangeIn(view, ChangeDue(held, paid, <<>>), Guaranteed)])],
         [NoneSpent EXCEPT !.coins = Ids(inputs)])

OfferTransaction(view, offer) ==
  IfOk(PrepareShieldedInputs(view, offer.coins), LAMBDA spend :
    PayFee(view, OfferWith(view, spend.inputs, offer.outputs, TotalOf(spend.inputs), TotalOf(offer.outputs)), TRUE))

=============================================================================
