------------------------------- MODULE Builds -------------------------------
(***************************************************************************)
(* Transactions as the parties of one make them: each builds its part, the *)
(* parts are merged, and a wallet pays the fee, perhaps again as the price *)
(* rises.  A part is a transfer, half of a swap, a registration, a deploy, *)
(* an update or a circuit call.                                            *)
(***************************************************************************)
EXTENDS CallAssembly

CONSTANTS
  Owner,          \* the wallets
  Stock,          \* the coins, UTXOs and Dust that each of them has
  Now,            \* the time of the chain
  DustClock,      \* the time at which each wallet knows its Dust
  Ratio, Decay,   \* the most Dust a NIGHT holds, and how fast it accrues
  Jobs,           \* what may be asked: a part of each of some wallets
  Sponsors,       \* the wallets that pay for what others made
  MaxPayments     \* bound: the payments of one transaction

VARIABLES
  asked,     \* the parts, each what one wallet is asked to build
  made       \* what was made of them so far

buildVars == <<asked, made>>

---------------------------------------------------------------------------
(***************************************************************************)
(* The wallets.                                                            *)
(***************************************************************************)
Kinds    == {"coins", "utxos", "dust"}
IdsIn(S) == {x.id : x \in S}
Mine(w)  == UNION {IdsIn(Stock[w][k]) : k \in Kinds}

\* What a wallet may draw on, without what its other builds hold; the price is
\* as it knows it.
Free(w, kind, held) == {x \in Stock[w][kind] : x.id \notin held}
View(w, price, held) ==
  [wallet |-> w, price |-> price, tblock |-> DustClock[w], last |-> Now, ratio |-> Ratio, decay |-> Decay,
   coins |-> Free(w, "coins", held), utxos |-> Free(w, "utxos", held), dust |-> Free(w, "dust", held)]

---------------------------------------------------------------------------
(***************************************************************************)
(* What is asked.                                                          *)
(***************************************************************************)
BuildPart(p, view) ==
  CASE p.what = "transfer" -> Transfer(view, p.request)
    [] p.what = "call"     -> CallTransaction(view, p.call, p.pay)
    [] p.what = "offer"    -> OfferTransaction(view, p.offer)
    [] p.what \in {"deploy", "maintenance"} -> BuildWithMockFeeProofs(view, p.what)

Alone(p) == BuildPart(p, View(p.who, 1, {}))

\* What a part may be: every list in it is one, and it pays what its request does.
IsSeq(xs)        == xs \in Seq(Range(xs))
CallIsSeq(call)  ==
  /\ IsSeq(call.outputs) /\ IsSeq(call.coins)
  /\ IsSeq(call.effects[Guaranteed].claims) /\ IsSeq(call.effects[IntentSegment].claims)
OfferIsSeq(offer) == IsSeq(offer.coins) /\ IsSeq(offer.outputs)
Pays(request)     == request.kind = "register" \/ (request.kind \in {"shielded", "unshielded"} /\ request.pay)

IsPart(p) ==
  /\ p.who \in Owner /\ p.pay \in BOOLEAN
  /\ \/ p.what = "transfer" /\ IsRequest(p.request) /\ p.pay = Pays(p.request)
     \/ p.what = "call" /\ CallIsSeq(p.call)
     \/ p.what = "offer" /\ OfferIsSeq(p.offer)
     \/ p.what \in {"deploy", "maintenance"}

\* Each wallet builds one part.
IsJob(job) ==
  /\ IsSeq(job) /\ job # <<>>
  /\ \A n \in DOMAIN job : IsPart(job[n])
  /\ \A m, n \in DOMAIN job : job[m].who = job[n].who => m = n

\* The ids tell apart whatever the wallets have, and no clock is ahead of the chain.
ASSUME BuildsAssumption ==
  /\ \A w \in Owner, k \in Kinds : /\ IsFiniteSet(Stock[w][k])
                                  /\ \A x \in Stock[w][k] : x.id \in Nat /\ x.value \in Nat
  /\ \A v, w \in Owner, j, k \in Kinds : \A x \in Stock[v][j], y \in Stock[w][k] :
       x.id = y.id => v = w /\ j = k /\ x = y
  /\ \A w \in Owner : \A u \in Stock[w].utxos : u.token = "night" => u.ctime \in Nat \cup {Unknown}
  /\ \A w \in Owner : DustClock[w] \in 0..Now
  /\ Now \in Nat /\ Ratio \in Nat /\ Decay \in Nat /\ MaxPayments \in Nat
  /\ IsFiniteSet(Unshielded) /\ Sponsors \subseteq Owner
  /\ \A job \in Jobs : IsJob(job)

---------------------------------------------------------------------------
(***************************************************************************)
(* The steps.                                                              *)
(***************************************************************************)
NothingMade ==
  [stage |-> "asked", price |-> 1, paid |-> 0, payer |-> "none", spent |-> [w \in Owner |-> NoneSpent], until |-> [w \in Owner |-> 0]]

InitBuilds == asked \in Jobs /\ made = NothingMade

\* Each party builds its part, and the parts are merged.
Parties   == {asked[n].who : n \in DOMAIN asked}
PartOf(w) == CHOOSE n \in DOMAIN asked : asked[n].who = w

Merged(parts, merged) ==
  IF ~ merged.ok THEN [NothingMade EXCEPT !.stage = "collided"]
  ELSE [stage |-> IF Len(asked) = 1 /\ asked[1].pay THEN "paid" ELSE "open", price |-> 1, paid |-> 0, payer |-> asked[1].who,
        tx |-> merged.tx, fee |-> IF Len(asked) = 1 THEN parts[1].fee ELSE Fee(merged.tx, 1),
        spent |-> [w \in Owner |-> IF w \in Parties THEN parts[PartOf(w)].spent ELSE NoneSpent],
        until |-> [w \in Owner |-> IF w \in Parties THEN parts[PartOf(w)].expires ELSE 0]]

MadeOf(parts) ==
  IF \E n \in DOMAIN parts : ~ parts[n].ok THEN [NothingMade EXCEPT !.stage = "refused"]
  ELSE Merged(parts, MergeTransactions([n \in DOMAIN parts |-> parts[n].tx]))

Build ==
  /\ made.stage = "asked" /\ asked # <<>>
  /\ \E parts \in {[n \in DOMAIN asked |-> Alone(asked[n])]} : made' = MadeOf(parts)
  /\ UNCHANGED asked

HeldBy(w) == made.spent[w].coins \cup made.spent[w].utxos \cup made.spent[w].dust

\* A wallet pays what the fee lacks at the price of the moment.
Paid(w, price, r) ==
  IF ~ r.ok THEN [made EXCEPT !.stage = "unpaid", !.price = price, !.payer = w]
  ELSE [stage |-> "paid", price |-> price, paid |-> made.paid + 1, payer |-> w, tx |-> r.tx, fee |-> r.fee,
        spent |-> [made.spent EXCEPT ![w] = [dust |-> @.dust \cup r.spent.dust, utxos |-> @.utxos, coins |-> @.coins]],
        until |-> [made.until EXCEPT ![w] = Max({@, r.expires})]]

Sponsor(w) ==
  /\ made.stage \in {"open", "paid"} /\ made.paid < MaxPayments
  /\ \E price \in {made.price + made.paid * (Margin + 1)} :
       made' = Paid(w, price, BalanceTransaction(View(w, price, HeldBy(w)), made.tx))
  /\ UNCHANGED asked

Pay == \E w \in Sponsors : Sponsor(w)

BuildsSpec == InitBuilds /\ [][Build \/ Pay]_buildVars

---------------------------------------------------------------------------
(***************************************************************************)
(* What the chain accepts.                                                 *)
(***************************************************************************)
\* What the parties of a swap leave over, by agreement.
LeftBy(p, t) ==
  IF p.what # "transfer" \/ p.request.kind # "swap" THEN 0
  ELSE (IF p.request.give = t THEN p.request.given ELSE 0) - (IF p.request.take = t THEN p.request.taken ELSE 0)
LeftOver(t) == SumFunction([n \in DOMAIN asked |-> LeftBy(asked[n], t)])

Even(tx) == \A s \in Segments : \A t \in Shielded \cup Unshielded :
               Balance(tx, t, s) = IF s = Guaranteed THEN LeftOver(t) ELSE 0

\* Where a transaction spends inputs, what it spends there, and all it spends.
Places(tx) == ({"coins"} \X Segments)
                \cup ({"guaranteed", "fallible", "dust"} \X DOMAIN tx.intents)
InputsAt(tx, place) ==
  CASE place[1] = "coins"      -> tx.offers[place[2]].inputs
    [] place[1] = "guaranteed" -> tx.intents[place[2]].utxos[Guaranteed].inputs
    [] place[1] = "fallible"   -> tx.intents[place[2]].utxos[IntentSegment].inputs
    [] place[1] = "dust"       -> tx.intents[place[2]].dust.spends
InputIds(tx) == UNION {Ids(InputsAt(tx, place)) : place \in Places(tx)}

SpendsOnce(tx) ==
  \A p, q \in Places(tx) : \A m \in DOMAIN InputsAt(tx, p), n \in DOMAIN InputsAt(tx, q) :
    InputsAt(tx, p)[m].id = InputsAt(tx, q)[n].id => p = q /\ m = n

\* What a transcript claims is there, in its own segment, and a contract gets no
\* coin that it does not claim.
Backed(tx, intent) ==
  \A n \in DOMAIN intent.actions : \A s \in Segments :
    LET e == intent.actions[n].effects[s]
        coins == Range(tx.offers[s].outputs \o tx.offers[s].transients)
    IN /\ \A c \in e.spends \cup e.receives : \E o \in coins : "id" \in DOMAIN o /\ Commitment(o, o.to) = c
       /\ \A o \in coins : o.to = Contract => Commitment(o, Contract) \in e.receives
       /\ \A m \in DOMAIN e.claims : \E o \in Range(intent.utxos[s].outputs) :
            o.token = e.claims[m].token /\ o.to = e.claims[m].to /\ o.value = e.claims[m].value

\* The age of a registered UTXO is no guess when another one's is known.
Granted(intent) ==
  \A n \in DOMAIN intent.dust.registrations :
    LET r == intent.dust.registrations[n]
        w == asked[1].who
        u == CHOOSE x \in Stock[w].utxos : x.id = r.utxo
        open == {x \in Stock[w].utxos : x.token = "night" /\ ~ x.registered}
    IN r.value <= Availability(View(w, 1, {}), u, u.born) \/ \A x \in open : x.ctime = Unknown

\* The signatures of an intent that spends UTXOs cover it as it is.
SignedInFull(intent, s) ==
  \/ \A g \in Segments : intent.utxos[g].inputs = <<>> /\ intent.dust.registrations = <<>>
  \/ intent.signed = DataToSign(intent, s)

Covered(tx, price) == DustOf(tx) >= Fee(tx, price)
Lands(tx) ==
  /\ SpendsOnce(tx)
  /\ \A s \in DOMAIN tx.intents : tx.intents[s].ttl \in Now + 1 .. Now + GlobalTtl /\ SignedInFull(tx.intents[s], s)

Accepted(tx, price) ==
  /\ Even(tx) /\ Covered(tx, price) /\ Lands(tx)
  /\ \A s \in DOMAIN tx.intents :
       LET i == tx.intents[s]
       IN i # EmptyIntent(i.ttl) /\ Backed(tx, i) /\ Granted(i)

(***************************************************************************)
(* Properties.                                                             *)
(***************************************************************************)
\* A transaction whose fee is paid is accepted as it stands, at any price up to
\* the margin: every token in every segment comes out exactly even, so nothing
\* is destroyed; every claim of a transcript is backed where it is claimed; no
\* input is spent twice; the signatures cover the intent as it ended up; and
\* every user whose key is known, the first party always, finds what it is sent.
PaidIsAccepted ==
  made.stage = "paid" =>
    /\ \A rise \in 0..Margin : Accepted(made.tx, made.price + rise)
    /\ \A s \in Segments : \A o \in Range(made.tx.offers[s].outputs) : o.to = asked[1].who => o.found

\* Where no contract is paid or called, what the parties made adds up at every
\* stage, before the fee and after each payment of it: every token in every
\* segment comes out even, but for what the halves of a swap leave over.
AddsUp ==
  made.stage \in {"open", "paid"} /\ (\A n \in DOMAIN asked : asked[n].what \notin {"call", "offer"}) => Even(made.tx)

\* Each wallet holds exactly the inputs of its own that the transaction spends,
\* at least until an intent leaves it no more time to land, and the fee that is
\* reported is the one the chain will charge.
HoldsWhatItSpends ==
  made.stage \in {"open", "paid"} =>
    /\ made.fee = Fee(made.tx, made.price)
    /\ \A w \in Owner : HeldBy(w) = InputIds(made.tx) \cap Mine(w)
    /\ \A w \in Owner : HeldBy(w) # {} /\ made.tx.intents # NoIntents =>
         \E s \in DOMAIN made.tx.intents : made.until[w] >= made.tx.intents[s].ttl

=============================================================================
