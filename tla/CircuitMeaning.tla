---------------------------- MODULE CircuitMeaning ----------------------------
(***************************************************************************)
(* What a circuit means: its expressions as functions on numbers, Booleans *)
(* and sequences, with no encodings in sight.  A strict form evaluates its *)
(* operands from the left to the right and applies a function to them; a   *)
(* ledger operation acts on mathematical cells and maps.  Only what leaves *)
(* the circuit is encoded, at its declared type.                           *)
(***************************************************************************)
EXTENDS Interpreter

CONSTANTS
  Sources,         \* its circuits, witnesses and natives, as they are written
  Declared,        \* the ledger fields: kind, key type and value type
  WitnessMeaning(_, _, _)   \* what a witness answers in a private state to values

MayBe(b, x) == IF b THEN {x} ELSE {}
Digits(n, len) == [i \in 1..len |-> (n \div Base ^ (i - 1)) % Base]
Undigits(ds) == FoldLeft(LAMBDA n, i : n + ds[i] * Base ^ (i - 1), 0, [i \in DOMAIN ds |-> i])

(***************************************************************************)
(* A value at a type, as the atoms that the chain stores.                  *)
(***************************************************************************)
RECURSIVE Flatten(_, _)
FlattenEach(xs, ts) == FlattenSeq([i \in DOMAIN ts |-> Flatten(xs[i], ts[i])])
Flatten(x, ty) ==
  CASE ty.k = "bool"   -> Atom(IF x THEN 1 ELSE 0, 1)
    [] ty.k = "uint"   -> Atom(x, UintByteWidth(ty.max))
    [] ty.k = "enum"   -> Atom(x, 1)
    [] ty.k = "field"  -> Atom(x, FieldWidth)
    [] ty.k = "bytes"  -> Atom(x, ty.len)
    [] ty.k = "alias"  -> Flatten(x, ty.ty)
    [] ty.k = "tuple"  -> FlattenEach(x, ty.ts)
    [] ty.k = "vector" -> FlattenEach(x, [i \in 1..ty.len |-> ty.ty])
    [] ty.k = "struct" -> FlattenEach(x, FieldTypes(ty))

\* The value of default<T>.
RECURSIVE Zero(_)
Zero(ty) ==
  CASE ty.k = "bool"   -> FALSE
    [] ty.k = "alias"  -> Zero(ty.ty)
    [] ty.k = "tuple"  -> [i \in DOMAIN ty.ts |-> Zero(ty.ts[i])]
    [] ty.k = "vector" -> [i \in 1..ty.len |-> Zero(ty.ty)]
    [] ty.k = "struct" -> [i \in DOMAIN ty.fields |-> Zero(ty.fields[i].ty)]
    [] OTHER           -> 0

(***************************************************************************)
(* Strict forms: the operands in order, and the result, if there is one.   *)
(***************************************************************************)
SubExprs(e) ==
  CASE e.op \in {"arith", "eq", "neq", "lt", "le", "gt", "ge"} -> <<e.l, e.r>>
    [] e.op \in {"vector_ref", "bytes_ref", "slice", "bytes_slice"} -> <<e.e, e.index>>
    [] e.op \in {"assert", "tuple_ref", "cast", "elt", "to_bytes", "bytes_to_vector",
                 "vector_to_bytes", "return"} -> <<e.e>>
    [] e.op = "tuple" -> ArgExprs(e.args)
    [] e.op = "new"   -> e.es
    [] OTHER          -> <<>>

Bounded(n, ty) ==
  CASE ty.k = "uint"  -> MayBe(n <= ty.max /\ n <= MaxInteger, n)
    [] ty.k = "field" -> MayBe(n < Modulus, n)
    [] ty.k = "enum"  -> MayBe(n < Len(ty.variants), n)
    [] OTHER          -> {n}

\* A Uint result is exact, and has no representation above MaxInteger.
ArithMeaning(e, n) ==
  IF e.ty.k = "field" THEN {n % Modulus} ELSE MayBe(n \in 0..MaxInteger, n)

Apply(e, xs) ==
  CASE e.op = "int"    -> {e.n}
    [] e.op = "bool"   -> {e.b}
    [] e.op = "bytes"  -> {e.n}
    [] e.op = "enum"   -> {Min({i \in DOMAIN e.ty.variants : e.ty.variants[i] = e.name}) - 1}
    [] e.op = "default" -> {Zero(e.ty)}
    [] e.op = "return" -> {xs[1]}
    [] e.op = "assert" -> MayBe(xs[1], <<>>)
    [] e.op = "arith"  -> ArithMeaning(e, Exact(e.kind, xs[1], xs[2]))
    [] e.op = "eq"     -> {xs[1] = xs[2]}
    [] e.op = "neq"    -> {xs[1] # xs[2]}
    [] e.op = "lt"     -> {xs[1] < xs[2]}
    [] e.op = "le"     -> {xs[1] <= xs[2]}
    [] e.op = "gt"     -> {xs[1] > xs[2]}
    [] e.op = "ge"     -> {xs[1] >= xs[2]}
    [] e.op = "new"    -> {xs}
    [] e.op = "tuple"  -> {FlattenSeq([i \in DOMAIN xs |-> IF e.args[i].spread THEN xs[i] ELSE <<xs[i]>>])}
    [] e.op = "tuple_ref"  -> {xs[1][e.i + 1]}
    [] e.op = "elt" /\ "either" \in DOMAIN e -> {xs[1][IF xs[1][1] THEN 2 ELSE 3][e.index]}
    [] e.op = "elt"        -> {xs[1][e.index + 1]}
    [] e.op = "vector_ref" -> IF xs[2] < Len(xs[1]) THEN {xs[1][xs[2] + 1]} ELSE {}
    [] e.op = "slice"      -> MayBe(xs[2] + e.len <= Len(xs[1]), SubSeq(xs[1], xs[2] + 1, xs[2] + e.len))
    [] e.op = "bytes_ref"  -> MayBe(xs[2] < e.ty.len, (xs[1] \div Base ^ xs[2]) % Base)
    [] e.op = "bytes_slice" -> MayBe(xs[2] + e.len <= e.ty.len, (xs[1] \div Base ^ xs[2]) % Base ^ e.len)
    [] e.op = "cast"       -> Bounded(xs[1], e.to)
    [] e.op = "to_bytes"   -> MayBe(xs[1] < Base ^ e.len, xs[1])
    [] e.op = "bytes_to_vector" -> {Digits(xs[1], e.len)}
    [] e.op = "vector_to_bytes" -> {Undigits(xs[1])}

(***************************************************************************)
(* Ledger operations, on the field `e.f` and the values of the arguments:  *)
(* the result and the new value of the field, and what the chain reads.    *)
(***************************************************************************)
Effect(v, field, read) == {[v |-> v, field |-> field, read |-> read]}

LedgerMeaning(e, xs, field, address) ==
  LET d == Declared[e.f]
      key == xs[1]
  IN CASE e.name = "self"  ->
            IF address = None THEN {} ELSE Effect(<<address>>, field, <<Flatten(<<address>>, e.ty)>>)
       [] e.name = "read"  -> Effect(field, field, <<Flatten(field, d.value)>>)
       [] e.name = "write" -> Effect(<<>>, xs[1], <<>>)
       [] e.name = "increment" ->
            IF field + xs[1] < Base ^ U64Bytes THEN Effect(<<>>, field + xs[1], <<>>) ELSE {}
       [] e.name = "decrement" ->
            IF field >= xs[1] THEN Effect(<<>>, field - xs[1], <<>>) ELSE {}
       [] e.name = "less_than" -> Effect(field < xs[1], field, <<Atom(Number(field < xs[1]), 1)>>)
       [] e.name = "member" -> Effect(key \in DOMAIN field, field, <<Atom(Number(key \in DOMAIN field), 1)>>)
       [] e.name = "size"   -> Effect(Cardinality(DOMAIN field), field,
                                      <<Atom(Cardinality(DOMAIN field), U64Bytes)>>)
       [] e.name = "insert" -> Effect(<<>>, [k \in DOMAIN field \cup {key} |->
                                              IF k = key THEN xs[2] ELSE field[k]], <<>>)
       [] e.name = "reset"  -> Effect(<<>>, <<>>, <<>>)
       [] e.name = "remove" -> Effect(<<>>, [k \in DOMAIN field \ {key} |-> field[k]], <<>>)
       [] e.name = "lookup" -> IF key \in DOMAIN field
                               THEN Effect(field[key], field, <<Flatten(field[key], d.value)>>) ELSE {}

(***************************************************************************)
(* The meaning of an expression: its value, if it has one, and the state   *)
(* after it, the ledger, what was read, what the witnesses answered and    *)
(* the private state that they hold.                                       *)
(***************************************************************************)
Outcome(s, v) == {[s |-> s, v |-> v]}

RECURSIVE Meaning(_, _, _)

\* The values of a sequence of expressions, from the left to the right.
Meanings(env, s, es) ==
  FoldLeft(LAMBDA rs, e : UNION {UNION {Outcome(n.s, Append(r.v, n.v)) : n \in Meaning(env, r.s, e)} : r \in rs},
           Outcome(s, <<>>), es)

\* The body of a function on its arguments, with the names around it.
Applied(env, s, f, xs) ==
  Meaning(FoldLeft(LAMBDA a, i : Bound(a, f.params[i].id, xs[i]), env, [i \in DOMAIN xs |-> i]), s, f.body)

WitnessValue(env, s, e) ==
  UNION {UNION {Outcome([r.s EXCEPT !.held = a.state, !.private = Append(@, Flatten(a.v, Sources.witnesses[e.id].result))], a.v)
                : a \in WitnessMeaning(e.id, r.s.held, r.v)} : r \in Meanings(env, s, e.args)}

HashValue(env, s, e) ==
  UNION {Outcome(r.s, Hash(Av(FlattenEach(r.v, FieldTypes([fields |-> Sources.natives[e.id].params])))).atoms[1].n)
         : r \in Meanings(env, s, e.args)}

Attached(env, s, e) ==
  UNION {Outcome(IF e.id = "createZswapInput" THEN [r.s EXCEPT !.inputs = Append(@, r.v)]
                 ELSE [r.s EXCEPT !.outputs = Append(@, r.v)], <<>>)
         : r \in Meanings(env, s, e.args)}

CallMeaning(env, s, e) ==
  CASE e.id \in DOMAIN Sources.circuits ->
         UNION {Applied(env, r.s, Sources.circuits[e.id], r.v) : r \in Meanings(env, s, e.args)}
    [] e.id = "ownPublicKey" ->
         Outcome([s EXCEPT !.private = Append(@, Flatten(OwnKey, Sources.witnesses[e.id].result))], OwnKey)
    [] e.id \in DOMAIN Sources.natives -> HashValue(env, s, e)
    [] e.id \in {"createZswapInput", "createZswapOutput"} -> Attached(env, s, e)
    [] OTHER -> WitnessValue(env, s, e)

LedgerOutcome(env, s, e) ==
  UNION {UNION {Outcome([r.s EXCEPT !.ledger = IF e.f \in DOMAIN @ THEN [@ EXCEPT ![e.f] = x.field] ELSE @,
                                    !.reads = @ \o x.read], x.v)
                : x \in LedgerMeaning(e, r.v, IF e.f \in DOMAIN r.s.ledger THEN r.s.ledger[e.f] ELSE 0, s.address)}
         : r \in Meanings(env, s, e.values)}

\* A loop over the elements at each index; a fold carries its value along.
LoopMeaning(env, s, e, init) ==
  UNION {FoldLeft(LAMBDA rs, i :
           UNION {UNION {Outcome(n.s, IF e.op = "map" THEN Append(r.v, n.v) ELSE n.v)
                         : n \in Applied(env, r.s, IF "id" \in DOMAIN e.fun THEN Sources.circuits[e.fun.id] ELSE e.fun,
                                         (IF e.op = "map" THEN <<>> ELSE <<r.v>>)
                                         \o [k \in DOMAIN vs.v |-> vs.v[k][i]])} : r \in rs},
           Outcome(vs.s, init), [i \in 1..e.len |-> i])
         : vs \in Meanings(env, s, ArgExprs(e.args))}

RECURSIVE LetMeaning(_, _, _, _)
LetMeaning(env, s, bindings, e) ==
  IF bindings = <<>> THEN Meaning(env, s, e)
  ELSE UNION {LetMeaning(Bound(env, Head(bindings).id, r.v), r.s, Tail(bindings), e)
              : r \in Meaning(env, s, Head(bindings).e)}

Meaning(env, s, e) ==
  CASE e.op = "var"    -> Outcome(s, env[e.id])
    [] e.op = "if"     -> UNION {Meaning(env, r.s, IF r.v THEN e.then ELSE e.else) : r \in Meaning(env, s, e.cond)}
    [] e.op = "let"    -> IF "meant" \in DOMAIN e THEN Meaning(env, s, e.meant)
                          ELSE LetMeaning(env, s, e.bindings, e.e)
    [] e.op = "seq"    -> UNION {Outcome(r.s, Last(r.v)) : r \in Meanings(env, s, e.es)}
    [] e.op = "call"   -> CallMeaning(env, s, e)
    [] e.op = "ledger" -> LedgerOutcome(env, s, e)
    [] e.op = "emit"   -> UNION {Outcome([r.s EXCEPT !.logs = Append(@, Flatten(r.v[1], e.ty))], <<>>)
                                 : r \in Meanings(env, s, <<e.payload>>)}
    [] e.op = "map"    -> LoopMeaning(env, s, e, <<>>)
    [] e.op = "fold"   -> UNION {LoopMeaning(env, r.s, e, r.v) : r \in Meaning(env, s, e.init)}
    [] OTHER           -> UNION {{[s |-> r.s, v |-> x] : x \in Apply(e, r.v)} : r \in Meanings(env, s, SubExprs(e))}

=============================================================================
