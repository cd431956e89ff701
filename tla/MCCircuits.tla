----------------------------- MODULE MCCircuits -----------------------------
(***************************************************************************)
(* The interpreter on every circuit of a small grammar: the well-typed     *)
(* bodies of two levels of nesting over the parameters, the ledger and the *)
(* witnesses below, and a statement before an expression.  A circuit runs  *)
(* once, in one of a few environments, or twice, through the bindings that *)
(* are generated for it.  The bindings also deploy contracts with a few    *)
(* constructors, and read ledgers with lists of several lengths.           *)
(*                                                                         *)
(* A byte has 4 values, a u64 two bytes, a u128 three.                     *)
(***************************************************************************)
EXTENDS CircuitMeaning, IRText, Bindings

CONSTANTS
  Compile(_, _, _),     \* what is loaded, the text of a body: TextOf
  Consume(_),           \* the loader under test: Load
  Interpret(_, _, _, _),  \* the interpreter under test: Execute
  Simulate(_, _, _),    \* the bindings of a circuit: SimulatorCall
  Pure(_, _),           \*   of a pure circuit: PureCircuit
  Construct(_, _, _),   \*   of a constructor: RunConstructor
  Declaring(_),         \*   of a deploy: DeployText, the text of a constructor,
  DeployOf(_, _),       \*     PreparedDeploy
  Deploy(_),            \*     and StateToDeploy
  Compiled(_),          \*   of a whole contract: Compiles
  Views(_, _, _),       \*   and of a ledger field: FieldViews
  ListsOf(_, _),        \*     and of some lists: ListViews
  Denote(_, _, _),      \* what they are compared with: Meaning
  Executions(_, _),     \* a job's runs with their meanings: RunsOf
  Address               \* the address of the contract

VARIABLES
  job,       \* the body, its result type and the environment
  outcome    \* what the interpreter did, once it ran

circuitVars == <<job, outcome>>

---------------------------------------------------------------------------
(***************************************************************************)
(* Expressions.                                                            *)
(***************************************************************************)
U3  == Uint(3)
U15 == Uint(15)
Hashed == Bytes(U128Bytes)
Coin == Record(<<[name |-> "x", ty |-> U3], [name |-> "y", ty |-> Field]>>)
Pair == Vector(2, U3)
Mark == Tuple(<<U3, Boolean>>)
Key  == Record(<<[name |-> "bytes", ty |-> Hashed]>>)
Who  == Record(<<[name |-> "is_left", ty |-> Boolean], [name |-> "left", ty |-> Key], [name |-> "right", ty |-> Key]>>)
Side == Enum(<<"west", "east">>)

Var(id)           == [op |-> "var", id |-> id]
CastTo(e, from, to) == [op |-> "cast", e |-> e, from |-> from, to |-> to]
Constant(n)       == [op |-> "int", n |-> n]
Literal(n, ty)    == CastTo(Constant(n), Field, ty)
Binary(op, l, r)  == [op |-> op, l |-> l, r |-> r]
EqualAt(op, l, r, ty) == [op |-> op, l |-> l, r |-> r, ty |-> ty]
ArithOf(kind, ty, l, r) == [op |-> "arith", kind |-> kind, ty |-> ty, l |-> l, r |-> r]
If(c, t, e)       == [op |-> "if", cond |-> c, then |-> t, else |-> e]
Call(id, es)      == [op |-> "call", id |-> id, args |-> es]
Indexed(op, e, ty, i, len) == [op |-> op, e |-> e, ty |-> ty, index |-> i, len |-> len]
Together(es)       == [op |-> "tuple", args |-> [i \in DOMAIN es |-> [spread |-> FALSE, len |-> 1, e |-> es[i]]]]
Spread(l, e, len) == [op |-> "tuple", args |-> <<[spread |-> FALSE, len |-> 1, e |-> l],
                                                 [spread |-> TRUE, len |-> len, e |-> e]>>]
Block(es)         == [op |-> "seq", es |-> es]
Nothing           == Together(<<>>)
Default(ty)       == [op |-> "default", ty |-> ty]
TupleRef(e, i)    == [op |-> "tuple_ref", e |-> e, i |-> i]
\* The field that both variants of an Either have, of the live one.
Variant(e, name, i) == [op |-> "elt", e |-> e, name |-> name, index |-> i, either |-> TRUE]
Element(e, name, i) == [op |-> "elt", e |-> e, name |-> name, index |-> i]
MapOf(fun, e)     == [op |-> "map", fun |-> fun, len |-> 2, args |-> <<[e |-> e, ty |-> Pair]>>]
FoldOf(id, init, e) == [op |-> "fold", fun |-> [id |-> id], len |-> 2, init |-> init, ty |-> U15,
                        args |-> <<[e |-> e, ty |-> Pair]>>]

(***************************************************************************)
(* The instructions of the ledger operations.  An operation binds its      *)
(* arguments to names of their own, and its instructions refer to those.   *)
(***************************************************************************)
Expr(id)     == [o |-> "expr", e |-> Var(id)]
Index(f)     == [o |-> "align", n |-> f, width |-> 2]
Amount(n)    == [o |-> "num", n |-> n]
CellOf(o)    == [o |-> "cell", x |-> o]
Ins0(i)      == [i |-> i, args |-> <<>>]
Ins1(i, name, o) == [i |-> i, args |-> <<[name |-> name, value |-> o]>>]
Dup(n)       == Ins1("dup", "n", Amount(n))
Idx(keep, o) == [i |-> "idx", args |-> <<[name |-> "pushPath", value |-> [o |-> "bool", b |-> keep]],
                                         [name |-> "path", value |-> [o |-> "list", xs |-> <<o>>]]>>]
PushOf(o)    == Ins1("push", "value", o)
Ins(n)       == Ins1("ins", "n", Amount(n))

\* The expansion names the arguments that the operation binds.
Operation(name, f, ty, instructions, binders, es) ==
  LET meant == [op |-> "ledger", name |-> name, f |-> f, ty |-> ty, instructions |-> instructions, values |-> es]
      node == [meant EXCEPT !.values = [i \in DOMAIN binders |-> Var(binders[i].id)]]
  IN IF binders = <<>> THEN meant
     ELSE [op |-> "let", e |-> node, meant |-> meant,
           bindings |-> [i \in DOMAIN binders |-> [id |-> binders[i].id, ty |-> binders[i].ty, e |-> es[i]]]]
Arg(id, ty) == [id |-> id, ty |-> ty]

Query1(f, tail) == <<Dup(0), Idx(FALSE, Index(f))>> \o tail \o <<Ins0("popeq")>>
Update(f, body) == <<Idx(TRUE, Index(f))>> \o body \o <<Ins(1)>>

ReadOf(f, ty) == Operation("read", f, ty, Query1(f, <<>>), <<>>, <<>>)
WriteOf(f, ty, e, d) ==
  Operation("write", f, Unit, <<PushOf(Index(f)), PushOf(CellOf(Expr("v" \o d))), Ins(1)>>,
            <<Arg("v" \o d, ty)>>, <<e>>)
Increment(f, n) ==
  [Operation("increment", f, Unit, Update(f, <<Ins1("addi", "immediate", Amount(n))>>), <<>>, <<>>)
     EXCEPT !.values = <<Literal(n, U15)>>]
Decrement(f, n) ==
  [Operation("decrement", f, Unit, Update(f, <<Ins1("subi", "immediate", Amount(n))>>), <<>>, <<>>)
     EXCEPT !.values = <<Literal(n, U15)>>]
LessThan(f, e, d) ==
  Operation("less_than", f, Boolean, Query1(f, <<PushOf(CellOf(Expr("v" \o d))), Ins0("lt")>>),
            <<Arg("v" \o d, U15)>>, <<e>>)
Member(f, ty, k, d) ==
  Operation("member", f, Boolean, Query1(f, <<PushOf(Expr("k" \o d)), Ins0("member")>>), <<Arg("k" \o d, ty)>>, <<k>>)
Lookup(f, kty, vty, k, d) ==
  Operation("lookup", f, vty, Query1(f, <<Idx(FALSE, Expr("k" \o d))>>), <<Arg("k" \o d, kty)>>, <<k>>)
Insertion(f, kty, vty, k, v, d) ==
  Operation("insert", f, Unit,
            Update(f, <<PushOf(Expr("k" \o d)), PushOf(CellOf(Expr("v" \o d))), Ins(1)>>),
            <<Arg("k" \o d, kty), Arg("v" \o d, vty)>>, <<k, v>>)
Addition(f, ty, k, d) ==
  LET node == Operation("insert", f, Unit, Update(f, <<PushOf(Expr("k" \o d)), PushOf([o |-> "void"]), Ins(1)>>),
                        <<Arg("k" \o d, ty)>>, <<k>>)
  IN [node EXCEPT !.meant.values = <<k, Nothing>>]
Removal(f, ty, k, d) ==
  Operation("remove", f, Unit, Update(f, <<PushOf(Expr("k" \o d)), Ins0("rem")>>), <<Arg("k" \o d, ty)>>, <<k>>)
SizeOf(f) == Operation("size", f, U15, Query1(f, <<Ins0("size")>>), <<>>, <<>>)
Self ==
  Operation("self", 9, Key,
            <<Dup(2), Idx(FALSE, Index(0)), Ins0("popeq")>>, <<>>, <<>>)
Reset(f) ==
  Operation("reset", f, Unit, <<PushOf(Index(f)), PushOf([o |-> "map", entries |-> <<>>]), Ins(1)>>, <<>>, <<>>)

\* An event is logged with its version and its tag.
EventVersion == 1
EventTag     == 2
Emit(e, ty) ==
  [op |-> "emit", payload |-> e, ty |-> ty,
   instructions |-> <<PushOf([o |-> "array", xs |-> <<CellOf(Amount(EventVersion)), CellOf(Amount(EventTag)),
                                                     CellOf([o |-> "expr", e |-> e])>>]), Ins0("log")>>]

---------------------------------------------------------------------------
(***************************************************************************)
(* The program.                                                            *)
(***************************************************************************)
Library == [
 successor |-> [params |-> <<[id |-> "n", ty |-> U3]>>, result |-> U3,
                body |-> CastTo(ArithOf("add", Uint(4), Var("n"), Literal(1, Uint(1))), Uint(4), U3)],
 mixed |-> [params |-> <<[id |-> "acc", ty |-> U15], [id |-> "n", ty |-> U3]>>, result |-> U15,
            body |-> CastTo(ArithOf("sub", U15, Var("acc"), Var("n")), U15, U15)],
 marked |-> [params |-> <<[id |-> "a", ty |-> U3]>>, result |-> U3,
             body |-> Block(<<WriteOf(1, U3, Var("a"), "c"), Var("a")>>)]]

\* A function in place: the lesser of its argument and the parameter around it.
Least == [params |-> <<[id |-> "m", ty |-> U3]>>, result |-> U3,
          body |-> If(Binary("lt", Var("m"), Var("a")), Var("m"), Var("a"))]

Asked == [
  ownPublicKey |-> [params |-> <<>>, result |-> Hashed],
  secret  |-> [params |-> <<>>, result |-> U3],
  secrets |-> [params |-> <<[id |-> "coin", ty |-> Coin]>>, result |-> Pair],
  createZswapInput  |-> [params |-> <<[id |-> "coin", ty |-> Coin]>>, result |-> Unit],
  createZswapOutput |-> [params |-> <<[id |-> "coin", ty |-> Coin], [id |-> "to", ty |-> U15]>>, result |-> Unit]]

\* The author's witnesses: one counts its calls and fails after a few, the other
\* leaves the private state as it is.
MCMethod(id, state, xs) ==
  IF id = "secret" THEN MayBe(state < 3, [v |-> (state % 3) + 1, state |-> state + 1])
  ELSE {[v |-> <<xs[1][1], (state % 4)>>, state |-> state]}

Hashing == [hash |-> [params |-> <<[id |-> "coin", ty |-> Coin], [id |-> "n", ty |-> U15]>>, result |-> Hashed]]

MCDeclared == [i \in 0..5 |->
  CASE i = 0 -> [kind |-> "counter", value |-> U15]
    [] i = 1 -> [kind |-> "cell", value |-> U3]
    [] i = 2 -> [kind |-> "map", key |-> U3, value |-> Field]
    [] i = 3 -> [kind |-> "map", key |-> Coin, value |-> U15]
    [] i = 4 -> [kind |-> "cell", value |-> Pair]
    [] i = 5 -> [kind |-> "set", key |-> Mark]]

Labels == <<"count", "cell", "fields", "coins", "pair", "marks">>
MCFields ==
  [i \in 1..6 |->
     LET d == MCDeclared[i - 1]
         Arg1(ty) == [ty |-> ty]
     IN [name |-> Labels[i], path |-> <<i - 1>>,
         ty |-> CASE d.kind = "counter" -> Adt("Counter", <<>>)
                  [] d.kind = "cell"    -> Adt("__compact_Cell", <<Arg1(d.value)>>)
                  [] d.kind = "map"     -> Adt("Map", <<Arg1(d.key), Arg1(d.value)>>)
                  [] d.kind = "set"     -> Adt("Set", <<Arg1(d.key)>>)]]
EmptyConstructor == [params |-> <<>>, body |-> Nothing]

MCSources == [circuits |-> Library, witnesses |-> Asked, natives |-> Hashing]

(***************************************************************************)
(* The library of the program, out of the artifact that declares it.       *)
(***************************************************************************)
MCSupported == <<0, 35>>
Family      == MCSupported \o <<101>>

ShowAll(Show(_, _), f) == LET ids == SetToSeq(DOMAIN f) IN [i \in DOMAIN ids |-> Show(ids[i], f[ids[i]])]
LibraryText   == Written(Family, <<>>, ShowAll(ShowCircuit, Library) \o ShowAll(ShowNative, Hashing) \o ShowAll(ShowWitness, Asked)
                           \o <<ShowLedger(MCFields, EmptyConstructor)>>)
LoadedLibrary == CHOOSE c \in UNION {Load(text) : text \in {LibraryText}} : TRUE

ById(Made(_), found) ==
  CHOOSE f \in {[id \in {ds[i].id : i \in DOMAIN ds} |-> Made(ds[CHOOSE i \in DOMAIN ds : ds[i].id = id])] : ds \in {found}} : TRUE
MCCircuits  == ById(LAMBDA c : c, LoadedLibrary.helpers)
MCWitnesses == ById(LAMBDA w : [params |-> w.params, result |-> w.result], LoadedLibrary.witnesses)
MCNatives   == ById(LAMBDA n : [params |-> FieldTypes([fields |-> n.params]), result |-> n.result], LoadedLibrary.natives)

\* A ledger field as the chain stores it.
Stored(d, x) ==
  CASE d.kind = "counter" -> Number64(x)
    [] d.kind = "cell"    -> Cell(Flatten(x, d.value))
    [] d.kind \in {"map", "set"} ->
         Map([k \in {Flatten(y, d.key) : y \in DOMAIN x} |->
                LET y == CHOOSE z \in DOMAIN x : Flatten(z, d.key) = k
                IN IF d.kind = "set" THEN Null ELSE Cell(Flatten(x[y], d.value))])
StoredLedger(fields) == Array([i \in 1..6 |-> Stored(Declared[i - 1], fields[i - 1])])

Fresh == [i \in 0..5 |-> CASE i \in {0, 1} -> 0 [] i \in {2, 3, 5} -> <<>> [] i = 4 -> <<0, 0>>]
Used  == [i \in 0..5 |-> CASE i = 0 -> 14 [] i = 1 -> 2 [] i = 2 -> 2 :> 66 [] i = 3 -> <<1, 40>> :> 5
                           [] i = 4 -> <<3, 1>> [] i = 5 -> <<2, FALSE>> :> <<>>]

Params == <<[id |-> "a", ty |-> U3], [id |-> "w", ty |-> U15], [id |-> "f", ty |-> Field], [id |-> "s", ty |-> Coin],
            [id |-> "v", ty |-> Pair], [id |-> "y", ty |-> Bytes(2)], [id |-> "p", ty |-> Boolean],
            [id |-> "r", ty |-> Who], [id |-> "t", ty |-> Tuple(<<Coin, U3>>)]>>

\* An argument as a caller may build it: from the values, or encoded.
RECURSIVE Built(_, _)
Built(x, ty) ==
  CASE ty.k = "bool" -> Bool(x)
    [] ty.k = "uint" -> Num(x)
    [] ty.k = "vector" -> Tup([i \in DOMAIN x |-> Built(x[i], ty.ty)])
    [] ty.k = "struct" -> Struct([n \in FieldNames(ty) |-> Built(x[FieldAt(ty, n)], ty.fields[FieldAt(ty, n)].ty)])
    [] OTHER -> Av(Flatten(x, ty))

Low  == [a |-> 1, w |-> 3, f |-> 0, s |-> <<1, 40>>, v |-> <<2, 1>>, y |-> 9, p |-> TRUE, r |-> <<TRUE, <<7>>, <<2>>>>, t |-> <<<<3, 66>>, 2>>]
High == [a |-> 2, w |-> 12, f |-> 66, s |-> <<3, 5>>, v |-> <<0, 3>>, y |-> 15, p |-> FALSE, r |-> <<FALSE, <<11>>, <<7>>>>, t |-> <<<<0, 1>>, 1>>]
Environments == {[args |-> Low, encoded |-> FALSE, ledger |-> Fresh], [args |-> Low, encoded |-> TRUE, ledger |-> Used]}

(***************************************************************************)
(* The answers to the witnesses: the typed bindings', or those of a        *)
(* provider that was written by hand, which is free in how it encodes one. *)
(***************************************************************************)
ByHand(id, values, buffer) ==
  LET held == IF buffer = <<>> THEN DefaultState ELSE buffer[1]
      xs == OneOfEach([i \in DOMAIN values |-> Decode(EncodeTyped(values[i], Asked[id].params[i].ty).atoms, Asked[id].params[i].ty)])
  IN {[v |-> IF held % 2 = 0 THEN Built(r.v, Asked[id].result) ELSE Av(Flatten(r.v, Asked[id].result)),
       private_state |-> <<r.state>>] : r \in UNION {MCMethod(id, held, x) : x \in xs}}

MCAsk(provider, id, values, buffer) ==
  CASE provider = "adapter" -> CallWitness(id, values, buffer)
    [] provider = "by hand" -> ByHand(id, values, buffer)
    [] OTHER -> {}

---------------------------------------------------------------------------
(***************************************************************************)
(* The grammar: bodies by type, one level deeper than their operands.      *)
(***************************************************************************)
Names == {"bool", "u3", "u15", "field", "coin", "pair", "bytes", "unit"}
TypeOf == [bool |-> Boolean, u3 |-> U3, u15 |-> U15, field |-> Field, coin |-> Coin, pair |-> Pair,
           bytes |-> Bytes(2), unit |-> Unit]

Atoms == [bool |-> {Var("p")}, u3 |-> {Var("a"), Literal(2, U3)}, u15 |-> {Var("w")}, field |-> {Var("f")},
          coin |-> {Var("s")}, pair |-> {Var("v")}, bytes |-> {Var("y")}, unit |-> {}]

Grown(o, d) == [
  bool |-> {EqualAt("eq", x, y, U3) : x, y \in o.u3} \cup {EqualAt("neq", x, y, Coin) : x, y \in o.coin}
    \cup {EqualAt("eq", x, y, Pair) : x, y \in o.pair} \cup {Binary("lt", x, y) : x \in o.u15, y \in o.u3}
    \cup {LessThan(0, x, d) : x \in o.u15} \cup {Member(2, U3, x, d) : x \in o.u3}
    \cup {Member(3, Coin, x, d) : x \in o.coin}
    \cup {Member(5, Mark, Together(<<x, Var("p")>>), d) : x \in o.u3}
    \cup {If(x, Var("p"), EqualAt("eq", y, Default(Bytes(2)), Bytes(2))) : x \in o.bool, y \in o.bytes}
    \cup {EqualAt("eq", Variant(Var("r"), "bytes", 1), x, Hashed) :
            x \in {Element(Self, "bytes", 0), Call("ownPublicKey", <<>>)} \cup {Call("hash", <<y, Var("w")>>) : y \in o.coin}}
    \cup {EqualAt("eq", [op |-> "enum", name |-> "east", ty |-> Side], CastTo(x, U3, Side), Side) : x \in o.u3},
  u3 |-> {CastTo(x, U15, U3) : x \in o.u15} \cup {CastTo(x, Field, U3) : x \in o.field}
    \cup {Element(x, "x", 0) : x \in o.coin} \cup {Indexed("vector_ref", x, Pair, y, 1) : x \in o.pair, y \in o.u3}
    \cup {TupleRef(x, 1) : x \in o.pair \cup {Var("t")}} \cup {Indexed("bytes_ref", x, Bytes(2), y, 1) : x \in o.bytes, y \in o.u3}
    \cup {ReadOf(1, U3), Call("secret", <<>>)} \cup {Call("marked", <<x>>) : x \in o.u3}
    \cup {If(x, Var("a"), ReadOf(1, U3)) : x \in o.bool},
  u15 |-> {CastTo(ArithOf("mul", Uint(9), x, y), Uint(9), U15) : x, y \in o.u3}
    \cup {ArithOf("sub", U15, x, y) : x \in o.u15, y \in o.u3}
    \cup {CastTo(ArithOf("mul", Uint(225), x, Var("w")), Uint(225), U15) : x \in o.u15}
    \cup {ReadOf(0, U15), SizeOf(2)} \cup {Lookup(3, Coin, U15, x, d) : x \in o.coin}
    \cup {FoldOf("mixed", x, y) : x \in o.u15, y \in o.pair},
  field |-> {ArithOf(k, Field, x, y) : k \in {"add", "sub"}, x, y \in o.field}
    \cup {CastTo(x, U15, Field) : x \in o.u15} \cup {Element(x, "y", 1) : x \in o.coin}
    \cup {Lookup(2, U3, Field, x, d) : x \in o.u3}
    \cup {CastTo(Call("hash", <<x, Var("w")>>), Hashed, Field) : x \in o.coin},
  coin |-> {[op |-> "new", ty |-> Coin, es |-> <<x, y>>] : x \in o.u3, y \in o.field}
    \cup {TupleRef(Var("t"), 0)} \cup {If(x, Var("s"), Default(Coin)) : x \in o.bool},
  pair |-> {Together(<<x, y>>) : x, y \in o.u3} \cup {Spread(x, Indexed("slice", y, Pair, z, 1), 1) :
                                                        x \in o.u3, y \in o.pair, z \in {Constant(1), Var("a")}}
    \cup {MapOf([id |-> "successor"], x) : x \in o.pair} \cup {[op |-> "bytes_to_vector", e |-> x, len |-> 2] : x \in o.bytes}
    \cup {MapOf(Least, x) : x \in o.pair} \cup {ReadOf(4, Pair)} \cup {Call("secrets", <<x>>) : x \in o.coin},
  bytes |-> {[op |-> "vector_to_bytes", e |-> x, len |-> 2] : x \in o.pair}
    \cup {[op |-> "to_bytes", e |-> x, len |-> 2] : x \in o.field}
    \cup {Indexed("bytes_slice", CastTo(x, Bytes(2), Bytes(2)), Bytes(2), y, 2) : x \in o.bytes, y \in {Literal(0, U3)}},
  unit |-> {WriteOf(1, U3, x, d) : x \in o.u3} \cup {WriteOf(4, Pair, x, d) : x \in o.pair}
    \cup {Increment(0, n) : n \in {1, 2}} \cup {Decrement(0, 1), Reset(2)}
    \cup {Insertion(2, U3, Field, x, y, d) : x \in o.u3, y \in o.field}
    \cup {Insertion(3, Coin, U15, x, y, d) : x \in o.coin, y \in o.u15}
    \cup {Addition(5, Mark, Together(<<x, y>>), d) : x \in o.u3, y \in o.bool}
    \cup {Removal(2, U3, x, d) : x \in o.u3}
    \cup {[op |-> "assert", e |-> x] : x \in o.bool} \cup {Emit(x, Coin) : x \in o.coin}
    \cup {Call("createZswapInput", <<x>>) : x \in o.coin}
    \cup {Call("createZswapOutput", <<x, y>>) : x \in o.coin, y \in o.u15}]

Joined(o, n) == [k \in Names |-> o[k] \cup n[k]]

\* The bodies of two levels, and of a statement of one level before an expression.
BodiesOver(shallow, deep) ==
  UNION {{[body |-> e, ty |-> TypeOf[k]] : e \in deep[k]} : k \in Names}
  \cup UNION {{[body |-> Block(<<u, e>>), ty |-> TypeOf[k]] : u \in shallow.unit, e \in shallow[k]} : k \in Names}
  \cup {[body |-> Block(<<u1, u2, [op |-> "return", e |-> Together(<<ReadOf(1, U3), Var("p")>>)]>>), ty |-> Mark] :
          u1, u2 \in shallow.unit}

\* Bound to names, so that each level of the grammar is built once.
Bodies == UNION {UNION {BodiesOver(o, d) : d \in {Grown(o, "2")}} : o \in {Joined(Atoms, Grown(Atoms, "1"))}}

---------------------------------------------------------------------------
(***************************************************************************)
(* A run, and what it should do.                                           *)
(***************************************************************************)
Pending == [ok |-> FALSE, pending |-> TRUE]
NoRun   == [ok |-> FALSE, pending |-> FALSE]
NotLoaded == [ok |-> FALSE, refused |-> TRUE]
NoJob   == [body |-> Nothing]

Passed(args, encoded) ==
  [id \in DOMAIN args |->
     LET ty == Params[CHOOSE i \in DOMAIN Params : Params[i].id = id].ty
     IN IF encoded \/ ty = Who THEN Av(Flatten(args[id], ty)) ELSE Built(args[id], ty)]

\* The text the compiler of a version writes for the circuit.
TextOf(version, body, ty) ==
  Written(version, <<"main">>, <<ShowCircuit("main", [params |-> Params, result |-> ty, body |-> body])>>)

\* Texts that no consumer can execute: of another compiler, cut off, with a form
\* that nothing knows, with the default of a container other than a map, and with
\* a type variable.
Unheard == [op |-> "unheard"]
Unexecutable ==
  {Compile(<<0, 34, 0>>, Var("a"), U3), Front(Compile(Family, Var("a"), U3)), Append(Compile(Family, Var("a"), U3), Closing)}
  \cup {Compile(Family, e, U3) : e \in {Unheard, Block(<<Unheard, Var("a")>>), Default([k |-> "var"]),
                                       If(Var("p"), Var("a"), Default([k |-> "adt", name |-> "Counter", args |-> <<>>]))}}

(***************************************************************************)
(* Constructors: what they write, ask a witness, attach, and fail at.      *)
(***************************************************************************)
ConstructorParams == <<[id |-> "a", ty |-> U3], [id |-> "s", ty |-> Coin]>>
ConstructorArgs   == <<2, <<1, 40>>>>
Unrunnable        == Block(<<Default([k |-> "var"]), Nothing>>)
Assertion(e)      == [op |-> "assert", e |-> e]
Constructors ==
  {EmptyConstructor} \cup
  {[params |-> ConstructorParams, body |-> body] : body \in
     {WriteOf(1, U3, Var("a"), "1"), Block(<<Increment(0, 2), Insertion(2, U3, Field, Var("a"), Element(Var("s"), "y", 1), "1")>>),
      WriteOf(1, U3, Call("secret", <<>>), "1"), WriteOf(4, Pair, Call("secrets", <<Var("s")>>), "1"),
      Block(<<WriteOf(1, U3, Call("marked", <<Var("a")>>), "1"), Assertion(EqualAt("eq", Var("a"), ReadOf(1, U3), U3))>>),
      Assertion(Binary("lt", Var("a"), Literal(2, U3))),
      Block(<<Element(Self, "bytes", 0), Nothing>>),
      Call("createZswapInput", <<Var("s")>>), Call("createZswapOutput", <<Var("s"), Literal(3, U15)>>), Unrunnable}}
Raises == [constructor : Constructors, given : BOOLEAN, args : BOOLEAN]

ArtifactOf(elements)  == Written(Family, <<"main">>, elements)
DeployText(c)         == ArtifactOf(ShowAll(ShowWitness, Asked) \o <<ShowLedger(MCFields, c)>>)

PreparedDeploy(info, d) ==
  LET built  == WithTypedWitnesses(DeployBuilder(info), "adapter", <<>>)
      filled == IF d.args THEN WithConstructorArgs(built, ConstructorParams, ConstructorArgs) ELSE built
  IN IF d.given THEN WithInitialState(filled, StoredLedger(Used)) ELSE filled

(***************************************************************************)
(* A ledger with nested paths, of a list and two trees.                    *)
(***************************************************************************)
U20 == Uint(20)
Nested == <<[name |-> "list", path |-> <<0, 0>>, ty |-> Adt("List", <<[ty |-> U20]>>)],
            [name |-> "tree", path |-> <<0, 1>>, ty |-> Adt("MerkleTree", <<[depth |-> 2], [ty |-> U20]>>)],
            [name |-> "history", path |-> <<1>>, ty |-> Adt("HistoricMerkleTree", <<[depth |-> 3], [ty |-> U20]>>)]>>
NestedText == ArtifactOf(<<ShowLedger(Nested, EmptyConstructor)>>)

At0(set) == CHOOSE x \in set : TRUE

\* A list as the chain keeps it, its last element pushed first.
ListOfLength(n) ==
  FoldLeft(LAMBDA node, k : ListNode(Cell(Flatten((5 * k) % 21, U20)), node, k), ListNode(Null, Null, 0), [k \in 1..n |-> k])
Elements1(n) == [i \in 1..n |-> (5 * (n + 1 - i)) % 21]

ListViews(fields, n) ==
  LET f == fields[1]
      blank == At0(InitialState(fields))
      state == With(blank, Atom(0, 1), With(At(blank, Atom(0, 1)), Atom(0, 1), ListOfLength(n)))
      node == At0(GetFieldPath(state, f.path))
      Tree(i) == UNION {TreeView(t) : t \in GetFieldPath(state, fields[i].path)}
  IN [len |-> ListLen(node), items |-> ListIter(node, f.element, n),
      eager |-> [i \in 0..(n + 1) |-> ListGet(node, f.element, i)],
      lazy  |-> [i \in 0..(n + 1) |-> LazyList(state, f, i)],
      trees |-> <<Tree(2), Tree(3)>>]

\* Both views of a field, on some keys.
FieldViews(state, f, keys) ==
  LET eager == FieldAccessor(state, f, keys) IN [eager |-> eager, lazy |-> LazyFieldAccessor(state, f, keys)]

(***************************************************************************)
(* Artifacts that load, and whether their bindings compile.                *)
(***************************************************************************)
Wide(n) == Tuple([i \in 1..n |-> U3])
ResultText(ty) == ArtifactOf(<<ShowCircuit("main", [params |-> <<>>, result |-> ty, body |-> Default(ty)])>>)
At1(path, adt) == [name |-> "field", path |-> path, ty |-> adt]
FieldsText(fields) == ArtifactOf(<<ShowLedger(fields, EmptyConstructor)>>)
Counter1 == Adt("Counter", <<>>)
Bindable ==
  {LibraryText, ResultText(Wide(MaxTupleLen)), ResultText(Uint(MaxInteger)), FieldsText(<<>>),
   FieldsText(<<At1(<<1>>, Counter1), At1(<<0, 0>>, Counter1)>>),
   FieldsText(<<At1(<<0>>, Adt("MerkleTree", <<[depth |-> 3], [ty |-> Wide(MaxTupleLen + 1)]>>))>>)}
Unbindable ==
  {ResultText(Wide(MaxTupleLen + 1)), ResultText(Vector(2, Wide(MaxTupleLen + 1))), ResultText(Uint(MaxInteger + 1)),
   FieldsText(<<At1(<<0>>, Counter1), At1(<<2>>, Counter1)>>), FieldsText(<<At1(<<0>>, Counter1), At1(<<0, 1>>, Counter1)>>),
   FieldsText(<<At1(<<0>>, Adt("MerkleTree", <<[depth |-> Base], [ty |-> U3]>>))>>)}

Purely == {[id |-> "successor", xs |-> <<n>>] : n \in 0..3} \cup {[id |-> "mixed", xs |-> <<acc, n>>] : acc \in {0, 2, 15}, n \in 0..3}

---------------------------------------------------------------------------
(***************************************************************************)
(* The actions: one step of each job.                                      *)
(***************************************************************************)
InitCircuit ==
  /\ job \in {[body |-> b.body, ty |-> b.ty] : b \in Bodies} \cup {[text |-> t] : t \in Unexecutable}
            \cup {[raise |-> d] : d \in Raises} \cup {[pure |-> p] : p \in Purely}
            \cup {[view |-> n] : n \in 0..(MaxQueryPathDepth + 2)} \cup {[bind |-> t] : t \in Bindable \cup Unbindable}
  /\ outcome = Pending

Has(name) == name \in DOMAIN job

\* The artifact is loaded, and the interpreter executes the circuit.
Run ==
  /\ outcome = Pending /\ (Has("body") \/ Has("text"))
  /\ \E loaded \in {Consume(IF Has("text") THEN job.text ELSE Compile(Family, job.body, job.ty))} :
       IF loaded = {} THEN outcome' = NotLoaded /\ UNCHANGED job
       ELSE \E c \in loaded, e \in Environments :
              /\ job' = job @@ [in |-> e]
              /\ outcome' = Interpret(c.circuits[1].def, Passed(e.args, e.encoded), StoredLedger(e.ledger),
                                      [address |-> Address, witnesses |-> "by hand", private_state |-> <<>>])

\* The simulator of its bindings calls the circuit, twice.
TypedEnvironment == [args |-> High, encoded |-> FALSE, ledger |-> Used]
TypedArgs == [i \in DOMAIN Params |-> TypedEnvironment.args[Params[i].id]]
Simulator == SetAddress(WithWitnesses(Runner(StoredLedger(TypedEnvironment.ledger)), "adapter"), Address)
RunTyped ==
  /\ outcome = Pending /\ Has("body")
  /\ job' = job @@ [in |-> TypedEnvironment]
  /\ \E c \in Consume(Compile(Family, job.body, job.ty)) :
       \E first \in {Simulate(Simulator, c.circuits[1].def, TypedArgs)} :
         outcome' = [ok |-> TRUE, calls |-> <<first, Simulate(first.r, c.circuits[1].def, TypedArgs)>>]

\* A contract is deployed, with the state set or not, with the constructor's
\* arguments or not; and its simulator runs the constructor.
Raise ==
  /\ outcome = Pending /\ Has("raise")
  /\ \E info \in Consume(Declaring(job.raise.constructor)) :
       \E built \in {DeployOf(info, job.raise)} :
         outcome' = [ok |-> TRUE, deployed |-> Deploy(built),
                     simulated |-> {Construct([Simulator EXCEPT !.state = c.state], c.circuit, ConstructorArgs)
                                      : c \in built.constructor}]
  /\ UNCHANGED job

RunPurely ==
  /\ outcome = Pending /\ Has("pure")
  /\ outcome' = [ok |-> TRUE, pure |-> Pure(Circuits[job.pure.id], job.pure.xs)]
  /\ UNCHANGED job

ReadViews ==
  /\ outcome = Pending /\ Has("view")
  /\ \E info \in Consume(NestedText) : outcome' = [ok |-> TRUE, lists |-> ListsOf(info.ledger, job.view)]
  /\ UNCHANGED job

BindText ==
  /\ outcome = Pending /\ Has("bind")
  /\ \E info \in Consume(job.bind) : outcome' = [ok |-> TRUE, compiles |-> Compiled(info)]
  /\ UNCHANGED job

CircuitNext == Run \/ RunTyped \/ Raise \/ RunPurely \/ ReadViews \/ BindText

---------------------------------------------------------------------------
(***************************************************************************)
(* What each of them should do.                                            *)
(***************************************************************************)
Start(ledger, held, address) ==
  [ledger |-> ledger, reads |-> <<>>, private |-> <<>>, inputs |-> <<>>, outputs |-> <<>>, logs |-> <<>>,
   address |-> address, held |-> held]

Ran == "in" \in DOMAIN job

\* A circuit that ran and whose result the bindings do not convert: a Boolean or
\* an integer that it yields encoded.
Undecoded(ran, call) == call.o.ok /\ ran.ty.k \in {"bool", "uint"} /\ call.o.result.t = "av"

\* The executions, each with its meaning: a typed call goes on from the ledger and
\* the private state that the one before left, if it had a meaning.  From a result
\* that was not converted none goes on: nothing is said of what it left.
RunsOf(ran, done) ==
  LET first == Denote(ran.in.args, Start(ran.in.ledger, DefaultState, Address), ran.body)
      left == IF first = {} THEN Start(ran.in.ledger, DefaultState, Address)
              ELSE LET m == At0(first) IN Start(m.s.ledger, m.s.held, Address)
  IN CASE "calls" \notin DOMAIN done        -> <<[o |-> done, ms |-> first]>>
       [] Undecoded(ran, done.calls[1])     -> <<[o |-> done.calls[1].o, ms |-> first]>>
       [] OTHER -> <<[o |-> done.calls[1].o, ms |-> first],
                     [o |-> done.calls[2].o, ms |-> Denote(ran.in.args, left, ran.body)]>>
Runs == Executions(job, outcome)

(***************************************************************************)
(* Properties.                                                             *)
(***************************************************************************)
\* An answer is recorded in its type-free encoding: its numbers are compared.
Numbers(answers) == [i \in DOMAIN answers |-> [k \in DOMAIN answers[i] |-> answers[i][k].n]]

Inputs(o) == [i \in DOMAIN o.inputs |-> EncodeTyped(o.inputs[i], Coin).atoms]

\* The interpreter ends with a result exactly when the circuit has a meaning in
\* this environment, and the result is that value at the circuit's declared
\* type.  Values reach it named, positional or encoded at other widths, and an
\* element of an encoded tuple is found by the atoms its type gives it.
ResultIsDenoted(o, ms) ==
  IF o.ok THEN \E m \in ms : o.value = Flatten(m.v, job.ty) ELSE ms = {}

\* The ledger after the call is the meaning's, with every key and cell at the
\* width of its declared type, whatever form the value had in flight: a later
\* call looks the key up at that width, and two widths are two keys.
LedgerIsDenoted(o, ms) ==
  o.ok => \A m \in ms : o.ledger = StoredLedger(m.s.ledger)

(***************************************************************************)
(* The bindings.                                                           *)
(***************************************************************************)
\* The buffer of a private state that starts at the default and only moves on.
Buffer(held) == IF held = DefaultState THEN <<>> ELSE <<held>>

\* The simulator keeps what a call left, the ledger and the private state, and
\* of a failed call nothing, also when a witness ran before the failure.
KeptBySimulator(call, before, ms) ==
  IF call.result = {} THEN call.r = before
  ELSE LET m == At0(ms)
       IN call.r.state = StoredLedger(m.s.ledger) /\ call.r.private_state = Buffer(m.s.held)

\* The typed result is the meaning's, and an error where there is none.
TypedResult(call, ms) == call.result = {m.v : m \in ms}

\* Views of the whole state and of one path read what the meaning has.
Viewed(d, views, keys, x) ==
  LET at(key) == CASE d.kind = "map" /\ key \in DOMAIN x    -> {<<x[key]>>}
                   [] d.kind = "map" /\ key \notin DOMAIN x -> {<<>>}
                   [] d.kind = "set"                        -> {key \in DOMAIN x}
      entries == {{IF d.kind = "map" THEN <<key, x[key]>> ELSE key} : key \in DOMAIN x}
  IN IF d.kind \in {"counter", "cell"} THEN views.eager = [value |-> {x}] /\ views.lazy = [value |-> {x}]
     ELSE LET answers == [key \in keys |-> at(key)]
          IN views.eager = [at |-> answers, iter |-> entries] /\ views.lazy = [at |-> answers]

KeysOf(d, x) == IF d.kind \in {"map", "set"} THEN DOMAIN x \cup {Zero(d.key)} ELSE {}

ViewsAgree(state, ledger) ==
  \A i \in DOMAIN Declared :
    LET keys == KeysOf(Declared[i], ledger[i])
    IN Viewed(Declared[i], Views(state, LoadedLibrary.ledger[i + 1], keys), keys, ledger[i])

LeftBefore(i) == IF i = 1 THEN Simulator ELSE outcome.calls[i - 1].r

TypedCalls ==
  "calls" \in DOMAIN outcome =>
    \A i \in DOMAIN Runs :
      LET call == outcome.calls[i]
          ms == Runs[i].ms
      IN ~Undecoded(job, call) =>
           /\ TypedResult(call, ms)
           /\ KeptBySimulator(call, LeftBefore(i), ms)
           /\ i = 2 => \A m \in ms : ViewsAgree(call.r.state, m.s.ledger)

\* A call of the simulator that fails changes nothing (the doc of its methods).
\* It does where the bindings do not convert the result of a circuit that ran.
FailedCallChangesNothing ==
  "calls" \in DOMAIN outcome =>
    \A i \in DOMAIN outcome.calls : outcome.calls[i].result = {} => outcome.calls[i].r = LeftBefore(i)

\* A deploy takes the state that was set, or else the constructor's on the zero of
\* every field, run with no address; it refuses a constructor that attaches a
\* coin, lacks an argument or cannot run.  The simulator refuses no coin.
DeployedState ==
  "deployed" \in DOMAIN outcome =>
    LET d == job.raise
        none == d.constructor = EmptyConstructor
        meant == Denote([a |-> ConstructorArgs[1], s |-> ConstructorArgs[2]], Start(Fresh, DefaultState, None), d.constructor.body)
        plain == {m \in meant : m.s.inputs = <<>> /\ m.s.outputs = <<>>}
        Left(m) == [state |-> StoredLedger(m.s.ledger), private_state |-> Buffer(m.s.held)]
    IN /\ outcome.deployed =
            CASE d.given -> {[state |-> StoredLedger(Used), private_state |-> <<>>]}
              [] ~d.given /\ none -> {[state |-> StoredLedger(Fresh), private_state |-> <<>>]}
              [] ~d.given /\ ~none /\ (~d.args \/ d.constructor.body = Unrunnable) -> {}
              [] OTHER -> {Left(m) : m \in plain}
       /\ \A ran \in outcome.simulated :
            IF ran.o.ok THEN [state |-> ran.r.state, private_state |-> ran.r.private_state] \in {Left(m) : m \in meant}
            ELSE meant = {}

PureValue ==
  "pure" \in DOMAIN outcome =>
    LET c == Library[job.pure.id]
        args == [id \in {c.params[i].id : i \in DOMAIN c.params} |->
                   job.pure.xs[CHOOSE i \in DOMAIN c.params : c.params[i].id = id]]
    IN outcome.pure = {m.v : m \in Denote(args, Start(Fresh, DefaultState, None), c.body)}

\* An element of a list is found by its index, also past the deepest node that one
\* path reaches, and none is past the end.
ListsAgree ==
  "lists" \in DOMAIN outcome =>
    LET xs == Elements1(job.view)
        option == [i \in 0..(job.view + 1) |-> IF i < Len(xs) THEN {<<xs[i + 1]>>} ELSE {<<>>}]
        blank(height) == {[height |-> height, first_free |-> 0]}
    IN outcome.lists = [len |-> {Len(xs)}, items |-> [i \in DOMAIN xs |-> {xs[i]}], eager |-> option, lazy |-> option,
                        trees |-> <<blank(2), blank(3)>>]

\* From the text of its artifact, a circuit does what it means: its result and
\* the ledger it leaves, run by itself or through its bindings, whose views of
\* the ledger, deploys and pure functions mean the same, but for the results that
\* the bindings do not convert, of which it says nothing.  A text that is not one
\* of an executable program is refused where it is loaded, bindings that Rust
\* has no type for do not compile, and no other are.
CircuitIsDenoted ==
  /\ outcome = NotLoaded => "text" \in DOMAIN job
  /\ Ran => /\ "text" \notin DOMAIN job
            /\ \A i \in DOMAIN Runs : ResultIsDenoted(Runs[i].o, Runs[i].ms) /\ LedgerIsDenoted(Runs[i].o, Runs[i].ms)
            /\ TypedCalls
  /\ DeployedState /\ PureValue /\ ListsAgree
  /\ "compiles" \in DOMAIN outcome => (outcome.compiles <=> job.bind \in Bindable)

\* The parameters as the caller lists them, the last first.
Listed == [i \in DOMAIN Params |->
  LET p == Params[Len(Params) + 1 - i] IN [id |-> p.id, v |-> Passed(job.in.args, job.in.encoded)[p.id]]]

InOrder(o, m) ==
  /\ o.reads = m.s.reads
  /\ Numbers(o.private) = Numbers(m.s.private)
  /\ Inputs(o) = [i \in DOMAIN m.s.inputs |-> Flatten(m.s.inputs[i][1], Coin)]
  /\ o.logs = [i \in DOMAIN m.s.logs |-> Array(<<Number64(EventVersion), Number64(EventTag), Cell(m.s.logs[i])>>)]

\* What the ledger read, what the witnesses answered, the coins to attach and the
\* events are recorded in the order of the source, each once: a verifier replays
\* them in that order, and a prover takes the answers in it.  The input that the
\* proof binds is the arguments, as listed, each at its own type.
TranscriptInOrder ==
  Ran =>
    /\ EncodeInput(Params, Listed).atoms
         = FlattenSeq([i \in DOMAIN Listed |-> LET p == Params[Len(Params) + 1 - i]
                                              IN Flatten(job.in.args[p.id], p.ty)])
    /\ \A i \in DOMAIN Runs : Runs[i].o.ok => \A m \in Runs[i].ms : InOrder(Runs[i].o, m)

=============================================================================
