------------------------------ MODULE MCBuilds ------------------------------
(***************************************************************************)
(* What two wallets are asked to build, for TLC, with circuit calls of at  *)
(* most two ledger operations on coins, and what no wallet could build.    *)
(***************************************************************************)
EXTENDS Builds

MCOwner == {"alice", "bob"}

Token(id, token, value)           == [id |-> id, token |-> token, value |-> value]
Night(id, value, ctime, born, registered) ==
  [id |-> id, token |-> "night", value |-> value, ctime |-> ctime, born |-> born, registered |-> registered]

MCStock == [
  alice |-> [coins |-> {Token(1, "gold", 3), Token(2, "gold", 5), Token(3, "silver", 4), Token(4, "badge", 2)},
             utxos |-> {Night(11, 4, 2, 2, FALSE), Night(12, 6, Unknown, 6, FALSE), Night(13, 9, 1, 1, TRUE),
                        Token(14, "usd", 5), Token(15, "usd", 3)},
             dust  |-> {[id |-> 21, value |-> 12], [id |-> 22, value |-> 9], [id |-> 23, value |-> 5]}],
  bob   |-> [coins |-> {Token(31, "silver", 6), Token(32, "gold", 9)},
             utxos |-> {Night(41, 5, Unknown, 1, FALSE), Token(42, "usd", 4)},
             dust  |-> {[id |-> 51, value |-> 40], [id |-> 52, value |-> 30]}]]

\* The clock of alice's Dust trails the chain.
MCDustClock == [w \in MCOwner |-> IF w = "alice" THEN 8 ELSE 10]

---------------------------------------------------------------------------
(***************************************************************************)
(* Circuit calls.  Each operation creates and claims coins as the standard *)
(* library does; an operation runs in the segment it is partitioned into.  *)
(***************************************************************************)
\* A coin the circuit creates, claimed by the transcript of its segment.
Creates(x, s, coin, to) ==
  [x EXCEPT !.outputs = Append(@, [id |-> coin.id, token |-> coin.token, value |-> coin.value, to |-> to])]
Claims(x, s, coin, to) ==
  [x EXCEPT !.effects[s].spends = @ \cup {Commitment(coin, to)},
            !.effects[s].receives = IF to = Contract THEN @ \cup {Commitment(coin, to)} ELSE @]
Moves(x, s, kind, o) == [x EXCEPT !.effects[s][kind] = Append(@, [token |-> o.token, value |-> o.value])]
Claimed(claims, o) ==
  LET totals == TotalByKey([n \in DOMAIN claims |-> Entry(<<claims[n].token, claims[n].to>>, claims[n].value)]
                             \o <<Entry(<<o.token, o.to>>, o.value)>>)
      keys == SetToSeq(DOMAIN totals)
  IN [n \in DOMAIN keys |-> [token |-> keys[n][1], to |-> keys[n][2], value |-> totals[keys[n]]]]
ClaimsUtxo(x, s, o) == [x EXCEPT !.effects[s].claims = Claimed(@, o)]

\* The n-th operation of a circuit.
Perform(x, n, o) ==
  LET coin == Token(100 + 10 * n, o.token, o.value)
      sent == Token(101 + 10 * n, o.token, o.sent)
      rest == Token(102 + 10 * n, o.token, o.value - o.sent)
      receive == [Creates(x, o.at, coin, Contract) EXCEPT !.effects[o.at].receives = @ \cup {Commitment(coin, Contract)}]
      send == Claims(Creates([receive EXCEPT !.inputs = Append(@, coin)], o.at, sent, o.to), o.at, sent, o.to)
  IN CASE o.op = "mint"    -> Claims(Creates(Moves(x, o.at, "shieldedMints", o), o.at, coin, o.to), o.at, coin, o.to)
       [] o.op = "receive" -> receive
       [] o.op = "relay"   -> IF rest.value = 0 THEN send
                              ELSE Claims(Creates(send, o.at, rest, Contract), o.at, rest, Contract)
       [] o.op = "held"    -> [x EXCEPT !.inputs = Append(@, Token(99, o.token, o.value))]
       [] o.op = "deposit" -> Moves(x, o.at, "inputs", o)
       [] o.op = "issue"   -> IF o.to = Contract THEN Moves(Moves(x, o.at, "mints", o), o.at, "inputs", o)
                              ELSE ClaimsUtxo(Moves(x, o.at, "mints", o), o.at, o)
       [] o.op = "pay"     -> IF o.to = Contract THEN Moves(Moves(x, o.at, "outputs", o), o.at, "inputs", o)
                              ELSE ClaimsUtxo(Moves(x, o.at, "outputs", o), o.at, o)

Executed(ops, coins, keys) ==
  FoldLeft(LAMBDA x, n : Perform(x, n, ops[n]),
           [outputs |-> <<>>, inputs |-> <<>>, effects |-> [s \in Segments |-> NoEffects], coins |-> coins, keys |-> keys],
           [n \in DOMAIN ops |-> n])

Operations ==
  LET Op(op, token, value, to) == {[op |-> op, token |-> token, value |-> value, sent |-> 0, to |-> to, at |-> s] : s \in Segments}
  IN Op("mint", "badge", 3, "bob") \cup Op("mint", "badge", 2, Contract) \cup Op("receive", "gold", 4, Contract)
     \cup Op("receive", "gold", 8, Contract) \cup Op("receive", "badge", 2, Contract) \cup Op("held", "gold", 2, Contract)
     \cup {[o EXCEPT !.sent = n] : o \in Op("relay", "gold", 5, "alice"), n \in {2, 5}}
     \cup Op("deposit", "usd", 4, Contract) \cup Op("deposit", "night", 4, Contract) \cup Op("issue", "usd", 3, "bob")
     \cup Op("issue", "usd", 2, Contract) \cup Op("pay", "usd", 3, "bob") \cup Op("pay", "usd", 2, Contract)

Programs == {<<>>} \cup {<<o>> : o \in Operations} \cup {<<o, p>> : o, p \in Operations}

\* The shielded coins a caller may attach, by what its circuit asks for.
Attachable == {<<>>, <<1>>, <<1, 2>>, <<4, 2>>, <<2, 2>>, <<3>>, <<99>>}
Asking(ops) ==
  IF \E n \in DOMAIN ops : ops[n].op \in {"receive", "relay"} THEN Attachable ELSE {<<>>, <<3>>}

\* A longer circuit pays for itself; a shorter one may leave the fee to another.
CallOf(ops, coins, keys, pay) == [who |-> "alice", what |-> "call", ops |-> ops, coins |-> coins, pay |-> pay, call |-> Executed(ops, coins, keys)]
Calls ==
  {CallOf(ops, c, {"bob"}, TRUE) : ops \in Programs, c \in Attachable}
  \cup {CallOf(ops, c, {}, FALSE) : ops \in {p \in Programs : Len(p) < 2}, c \in Attachable}

---------------------------------------------------------------------------
(***************************************************************************)
(* The other parts.                                                        *)
(***************************************************************************)
Part(w, request, pay) == [who |-> w, what |-> "transfer", request |-> request, pay |-> pay]
Paying(w, request) == {Part(w, request, TRUE), Part(w, WithoutDust(request), FALSE)}

Transfers ==
  UNION {Paying("alice", [r EXCEPT !.strategy = g, !.ttl = l]) :
    r \in {ShieldedTransfer(t[1], t[2], to) :
             t \in {<<"gold", 3>>, <<"gold", 6>>, <<"gold", 9>>, <<"silver", 4>>}, to \in MCOwner}
         \cup {UnshieldedTransfer(t[1], t[2], to) :
             t \in {<<"usd", 2>>, <<"usd", 8>>, <<"usd", 9>>, <<"night", 5>>}, to \in MCOwner},
    g \in {"largest", "smallest"}, l \in {Unknown, 0, 1, GlobalTtl, GlobalTtl + 1}}

Registrations ==
  {Part(w, [DustRegistration(c, t) EXCEPT !.ttl = l], TRUE) :
     w \in MCOwner, c \in {Unknown, 3}, t \in MCOwner, l \in {Unknown, 1}}

Half(w, give, given, take, taken) == Part(w, ShieldedSwap(give, given, take, taken), FALSE)

Swaps ==
  {<<Half("alice", "gold", g, "silver", s), Half("bob", "silver", t, "gold", h)>> :
     g \in {4, 5}, s \in {3}, t \in {3, 4}, h \in {4}}

Payments == {<<>>, <<Payment("gold", 3, "bob")>>, <<Payment("gold", 2, "bob"), Payment("gold", 4, "alice")>>,
             <<Payment("silver", 5, "bob")>>, <<Payment("gold", 3, "bob"), Payment("silver", 4, "bob")>>}
Deploys ==
  {[who |-> "alice", what |-> k, pay |-> TRUE] : k \in {"deploy", "maintenance"}}
  \cup {[who |-> "alice", what |-> "offer", offer |-> [coins |-> c, outputs |-> o], pay |-> TRUE] :
          c \in Attachable, o \in Payments}

\* What two parties put in one transaction: a fee-less call and a transfer.
Gift(request) == Part("bob", WithoutDust(request), FALSE)
Shared ==
  {<<c, g>> : c \in {d \in Calls : ~ d.pay /\ Len(d.ops) = 1 /\ d.coins \in {<<>>, <<1, 2>>}},
              g \in {Gift(ShieldedTransfer("gold", 4, "alice")), Gift(UnshieldedTransfer("usd", 2, "alice"))}}

MCJobs == {<<p>> : p \in {c \in Calls : c.coins \in Asking(c.ops)} \cup Transfers \cup Registrations \cup Deploys}
        \cup Swaps \cup Shared

---------------------------------------------------------------------------
(***************************************************************************)
(* What a wallet cannot do, from what was asked and what it owns alone.    *)
(***************************************************************************)
Total(xs, token) == MapThenSumSet(LAMBDA x : IF x.token = token THEN x.value ELSE 0, xs)
Asks(ops, kinds, token, s) ==
  FoldLeft(LAMBDA sum, o : IF o.op \in kinds /\ o.token = token /\ o.at = s THEN sum + o.value ELSE sum, 0, ops)
Uses(ops, token) == {s \in Segments : Asks(ops, {"mint", "receive", "relay"}, token, s) > 0}
Brought(p, token) == FoldLeft(LAMBDA sum, id : sum + Total({c \in Stock[p.who].coins : c.id = id}, token), 0, p.coins)
Spendable(w, names) == IsInjective(names) /\ Range(names) \subseteq {c.id : c \in Stock[w].coins}

\* The coins a call brings of a token all go to one segment.
LacksCoins(p) ==
  \E t \in Shielded, s \in Segments :
    Asks(p.ops, {"receive", "relay"}, t, s)
      > IF s = IntentSegment /\ Uses(p.ops, t) # {IntentSegment} THEN 0
        ELSE IF s = Guaranteed /\ Uses(p.ops, t) = {IntentSegment} THEN 0
        ELSE Brought(p, t)

\* The payer has not the Dust for the transaction and all its Dust in it.
LacksDust(w, tx, price) ==
  LET free == {d \in Stock[w].dust : d.id \notin InputIds(tx)}
  IN DustOf(tx) + MapThenSumSet(LAMBDA d : d.value, free) < (price + Margin) * (Weight(tx) + 1 + Cardinality(free))

CannotCall(p) ==
  \/ ~ Spendable(p.who, p.coins)
  \/ \E n \in DOMAIN p.ops : p.ops[n].op = "held"
  \/ \E t \in Unshielded : \A s \in Segments : Asks(p.ops, {"deposit"}, t, s) > 0
  \/ \E t \in Unshielded, s \in Segments : Asks(p.ops, {"deposit"}, t, s) > Total(Stock[p.who].utxos, t)
  \/ \E t \in Shielded : Brought(p, t) > 0 /\ Uses(p.ops, t) = Segments
  \/ \E t \in Shielded, s \in Segments : Asks(p.ops, {"mint", "receive", "relay"}, t, s) > MaxValue
  \/ p.pay /\ (LacksCoins(p) \/ LacksDust(p.who, BuildPart([p EXCEPT !.pay = FALSE], View(p.who, 1, {})).tx, 1))

Unpayable(r) ==
  \/ r.ttl \notin {Unknown} \cup 1..GlobalTtl
  \/ r.kind = "shielded" /\ ~ r.pay /\ r.ttl # Unknown

Guess(w, r) == IF r.ctime # Unknown THEN r.ctime ELSE View(w, 1, {}).tblock - 1

CannotTransfer(w, r) ==
  CASE r.kind = "register" ->
         \A u \in Stock[w].utxos : u.token = "night" /\ ~ u.registered =>
           \/ u.ctime = Unknown /\ \E v \in Stock[w].utxos : v.token = "night" /\ ~ v.registered /\ v.ctime # Unknown
           \/ Availability(View(w, 1, {}), u, IF u.ctime # Unknown THEN u.ctime ELSE Guess(w, r)) < (1 + Margin) * 4
    [] r.kind = "swap" -> Total(Stock[w].coins, r.give) < r.given
    [] OTHER ->
         \/ Total(Stock[w].coins \cup Stock[w].utxos, r.token) < r.amount \/ Unpayable(r)
         \/ r.pay /\ LacksDust(w, BuildPart(Part(w, [r EXCEPT !.pay = FALSE, !.ttl = Unknown], FALSE), View(w, 1, {})).tx, 1)

CannotOffer(p) ==
  \/ ~ Spendable(p.who, p.offer.coins)
  \/ \E t \in Shielded : ValueOf(p.offer.outputs, t) > Brought([coins |-> p.offer.coins, who |-> p.who], t)
  \/ Value(SetToSeq(Stock[p.who].dust)) < (1 + Margin) * (2 + Len(p.offer.coins) + Len(p.offer.outputs) + 2 + 1 + 3)

Cannot(p) ==
  CASE p.what = "call" -> CannotCall(p)
    [] p.what = "transfer" -> CannotTransfer(p.who, p.request)
    [] p.what = "offer" -> CannotOffer(p)
    [] OTHER -> FALSE

\* What is refused could not be done: the wallet has not what is asked of it,
\* or the request is one the code says it does not support.  In particular the
\* balancing of a fee finds the Dust when there is enough of it.
RefusesOnlyWhatItCannot ==
  /\ made.stage = "refused" => \E n \in DOMAIN asked : Cannot(asked[n])
  /\ made.stage = "collided" => \A n \in DOMAIN asked : asked[n].what = "call" \/ asked[n].request.kind = "unshielded"
  /\ made.stage = "unpaid" =>
       \/ \E n \in DOMAIN asked : asked[n].what = "call" /\ LacksCoins(asked[n])
       \/ \E t \in Shielded : LeftOver(t) < 0
       \/ FeeSegment..LastSegment \subseteq DOMAIN made.tx.intents
       \/ LacksDust(made.payer, made.tx, made.price)

=============================================================================
