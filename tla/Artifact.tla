------------------------------ MODULE Artifact ------------------------------
(***************************************************************************)
(* From the text of an artifact, the compiler's analyzed IR, to what the   *)
(* interpreter and the generated bindings use: the text is read as one     *)
(* datum, the datum is parsed, and the loader refuses what no consumer can *)
(* execute.                                                                *)
(*                                                                         *)
(* A text is a sequence of tokens.  A parser yields the set of what it     *)
(* read: one result, or none when the datum has another form, and a form   *)
(* with a part that has none has none itself.  Names of types, which only  *)
(* the bindings print, and the messages of refusals are left out.          *)
(***************************************************************************)
EXTENDS CompactTypes

CONSTANT
  Supported   \* the family of compilers, as <<major, minor>>

---------------------------------------------------------------------------
(***************************************************************************)
(* Tokens and data.  An atom is both.                                      *)
(***************************************************************************)
Opening      == [s |-> "open"]
Closing      == [s |-> "close"]
Tick         == [s |-> "tick"]
Symbol(x)    == [s |-> "sym", x |-> x]
Text(x)      == [s |-> "str", x |-> x]
Whole(n)     == [s |-> "int", x |-> n]
Flag(b)      == [s |-> "flag", x |-> b]
ByteVector(n, len) == [s |-> "bytes", x |-> n, len |-> len]
ListOf(es)   == [s |-> "list", es |-> es]
Dotted(a, b) == [s |-> "pair", car |-> a, cdr |-> b]
NoDatum      == [s |-> "none"]

IsSymbol(d, x) == d.s = "sym" /\ d.x = x

Got(d, next) == {[d |-> d, next |-> next]}

RECURSIVE ReadDatum(_, _)

\* The items up to the closing token; a dot alone joins one item and a tail.
RECURSIVE ReadList(_, _, _)
ReadList(text, i, items) ==
  CASE i > Len(text) -> {}
    [] i <= Len(text) /\ text[i].s = "close" -> Got(ListOf(items), i + 1)
    [] i <= Len(text) /\ IsSymbol(text[i], ".") ->
         UNION {Got(Dotted(items[1], tail.d), tail.next + 1) :
                  tail \in {r \in ReadDatum(text, i + 1) : /\ Len(items) = 1
                                                          /\ r.next <= Len(text)
                                                          /\ text[r.next].s = "close"}}
    [] OTHER -> UNION {ReadList(text, item.next, Append(items, item.d)) : item \in ReadDatum(text, i)}

\* The datum that starts at token `i`, and the token after it.
ReadDatum(text, i) ==
  CASE i > Len(text) -> {}
    [] i <= Len(text) /\ text[i].s = "open"  -> ReadList(text, i + 1, <<>>)
    [] i <= Len(text) /\ text[i].s = "close" -> {}
    [] i <= Len(text) /\ text[i].s = "tick"  ->
         UNION {Got(ListOf(<<Symbol("quote"), quoted.d>>), quoted.next) : quoted \in ReadDatum(text, i + 1)}
    [] OTHER -> Got(text[i], i + 1)

\* The only datum of a text.
ReadOne(text) == {r.d : r \in {r \in ReadDatum(text, 1) : r.next = Len(text) + 1}}

---------------------------------------------------------------------------
(***************************************************************************)
(* Parts of a datum.  A part that is not there is NoDatum, which no parser *)
(* accepts; the code indexes past the end of a form that is too short, and *)
(* panics.                                                                 *)
(***************************************************************************)
Items(d)     == IF d.s = "list" THEN d.es ELSE <<NoDatum>>
Fixed(d, n)  == IF d.s = "list" /\ Len(d.es) = n THEN d.es ELSE [i \in 1..n |-> NoDatum]
Nth(l, i)    == IF i < Len(l) THEN l[i + 1] ELSE NoDatum
From(l, i)   == SubSeq(l, i + 1, Len(l))
HasHead(d)   == d.s = "list" /\ d.es # <<>> /\ d.es[1].s = "sym"
Headed(d, x) == HasHead(d) /\ d.es[1].x = x
Keyed(d, key)   == IF Headed(d, key) /\ Len(d.es) = 2 THEN d.es[2] ELSE NoDatum
Tagged(d, head) == IF Headed(d, head) THEN Tail(d.es) ELSE <<NoDatum>>

ParseName(d)    == IF d.s = "sym" THEN {d.x} ELSE {}
ParseString(d)  == IF d.s = "str" THEN {d.x} ELSE {}
ParseBoolean(d) == IF d.s = "flag" THEN {d.x} ELSE {}
ParseBigNat(d)  == IF d.s = "int" THEN {d.x} \cap Nat ELSE {}
ParseNat(d)     == {n \in ParseBigNat(d) : n < Base ^ U64Bytes}

\* What a parser reads at the place of an item, and of each item in turn.
PartAt(Parse(_), l, i) == UNION {Parse(d) : d \in {l[k] : k \in {i + 1} \cap DOMAIN l}}
NatAt(l, i)  == PartAt(ParseNat, l, i)
NameAt(l, i) == PartAt(ParseName, l, i)

EachOf(Parse(_), ds) ==
  FoldLeft(LAMBDA done, i : {Append(xs, x) : xs \in done, x \in PartAt(Parse, ds, i - 1)}, {<<>>}, [i \in DOMAIN ds |-> i])

---------------------------------------------------------------------------
(***************************************************************************)
(* Types.  A head that is no type's is the name of a ledger ADT.           *)
(***************************************************************************)
Adt(name, args)  == [k |-> "adt", name |-> name, args |-> args]
TypeVar          == [k |-> "var"]
UnknownType      == [k |-> "unknown"]
Opaque           == [k |-> "opaque"]
Point            == [k |-> "point"]
ForeignField     == [k |-> "foreign"]
ContractType     == [k |-> "contract"]

ParseCurve(d) ==
  IF HasHead(d) /\ d.es[1].x \in {"curve-jubjub", "curve-secp256k1", "curve-secp256r1", "curve-curve25519"}
  THEN {Point} ELSE {}

ParseFieldType(d) ==
  CASE Headed(d, "field-native") -> {Field}
    [] Headed(d, "field-base") \/ Headed(d, "field-scalar") -> {ForeignField : c \in ParseCurve(Nth(d.es, 1))}
    [] OTHER -> {}

RECURSIVE ParseType(_)
TypeAt(l, i) == PartAt(ParseType, l, i)

ParseAdtArg(d) ==
  IF d.s = "int" THEN {[depth |-> n] : n \in ParseNat(d)} ELSE {[ty |-> t] : t \in ParseType(d)}

ParseStructField(d) ==
  LET l == Fixed(d, 2) IN {[name |-> n, ty |-> t] : n \in ParseName(l[1]), t \in ParseType(l[2])}

ParseContractCircuit(d) ==
  LET l == Fixed(d, 4)
  IN {[params |-> ps, result |-> t] : n \in ParseName(l[1]), pure \in ParseBoolean(l[2]),
        ps \in EachOf(ParseType, Items(l[3])), t \in ParseType(l[4])}

ParseCompoundType(h, l) ==
  CASE h = "tvector"  -> {Vector(n, t) : n \in NatAt(l, 1), t \in TypeAt(l, 2)}
    [] h = "ttuple"   -> {Tuple(ts) : ts \in EachOf(ParseType, From(l, 1))}
    [] h = "tstruct"  -> {Record(fs) : n \in NameAt(l, 1), fs \in EachOf(ParseStructField, From(l, 2))}
    [] h = "tenum"    -> {Enum(vs) : n \in NameAt(l, 1), vs \in EachOf(ParseName, From(l, 2))}
    [] h = "talias"   -> {Alias(t) : b \in ParseBoolean(Nth(l, 1)), n \in NameAt(l, 2), t \in TypeAt(l, 3)}
    [] h = "tcontract" -> {ContractType : n \in NameAt(l, 1), cs \in EachOf(ParseContractCircuit, From(l, 2))}
    [] OTHER          -> {Adt(h, as) : as \in EachOf(ParseAdtArg, From(l, 1))}

ParseType(d) ==
  CASE d.s = "sym" -> {TypeVar}
    [] d.s # "sym" /\ ~HasHead(d) -> {}
    [] OTHER ->
         LET h == d.es[1].x
             first == Nth(d.es, 1)
         IN CASE h = "tboolean"  -> {Boolean}
              [] h = "tfield"    -> ParseFieldType(first)
              [] h = "tunsigned" -> {Uint(n) : n \in ParseBigNat(first)}
              [] h = "tpoint"    -> ParseCurve(first)
              [] h = "tbytes"    -> {Bytes(n) : n \in ParseNat(first)}
              [] h = "topaque"   -> {Opaque : x \in ParseString(first)}
              [] h = "tunknown"  -> {UnknownType}
              [] OTHER           -> ParseCompoundType(h, d.es)

---------------------------------------------------------------------------
(***************************************************************************)
(* Instructions and their operands.  An instruction keeps its arguments by *)
(* name, whatever they are: the interpreter refuses what it does not know. *)
(***************************************************************************)
RECURSIVE ParseExpr(_), ParseOperand(_)
ExprAt(l, i) == PartAt(ParseExpr, l, i)

Operands2(Make(_, _), l) ==
  {Make(x, y) : x \in ParseOperand(Nth(l, 1)), y \in ParseOperand(Nth(l, 2))}

ParseEntry(d) ==
  LET l == Fixed(d, 2) IN {[key |-> k, value |-> v] : k \in ParseOperand(l[1]), v \in ParseOperand(l[2])}

\* A state value: a marker, a cell, a value or default of a type, a container.
ParseStateValue(l) ==
  LET first == Nth(l, 1)
  IN CASE IsSymbol(Nth(l, 0), "null")  -> {[o |-> "void"]}
       [] IsSymbol(Nth(l, 0), "cell")  -> {[o |-> "cell", x |-> x] : x \in ParseOperand(first)}
       [] IsSymbol(Nth(l, 0), "ADT")   ->
            {[o |-> "adt", x |-> x, ty |-> t] : x \in ParseOperand(first), t \in TypeAt(l, 2)}
       [] IsSymbol(Nth(l, 0), "array") -> {[o |-> "array", xs |-> xs] : xs \in EachOf(ParseOperand, From(l, 1))}
       [] IsSymbol(Nth(l, 0), "map")   -> {[o |-> "map", entries |-> es] : es \in EachOf(ParseEntry, From(l, 1))}
       [] IsSymbol(Nth(l, 0), "merkle-tree") ->
            {[o |-> "tree", depth |-> n, entries |-> es] : n \in ParseNat(first), es \in EachOf(ParseEntry, From(l, 2))}
       [] OTHER -> {}

\* An addition of two operands is the machine's; one with a type is the source's.
ParseHeadedOperand(d) ==
  LET l == d.es
      h == l[1].x
      first == Nth(l, 1)
  IN CASE h = "align"      -> {[o |-> "align", n |-> n, width |-> w] : n \in ParseBigNat(first), w \in NatAt(l, 2)}
       [] h = "stack"      -> {[o |-> "stack"]}
       [] h = "void"       -> {[o |-> "void"]}
       [] h = "value->int" -> {[o |-> "value_to_int", x |-> x] : x \in ParseOperand(first)}
       [] h = "null"       -> {[o |-> "null", ty |-> t] : t \in ParseType(first)}
       [] h = "max-sizeof" -> {[o |-> "max_sizeof", ty |-> t] : t \in ParseType(first)}
       [] h = "+" /\ Len(l) = 3 -> Operands2(LAMBDA x, y : [o |-> "add", l |-> x, r |-> y], l)
       [] h = "leaf-hash"  -> {[o |-> "leaf_hash", x |-> x] : x \in ParseOperand(first)}
       [] h = "coin-commit" -> Operands2(LAMBDA x, y : [o |-> "coin_commit", l |-> x, r |-> y], l)
       [] h = "aligned-concat" -> {[o |-> "concat", xs |-> xs] : xs \in EachOf(ParseOperand, From(l, 1))}
       [] h = "state-value" -> ParseStateValue(From(l, 1))
       [] OTHER -> {[o |-> "expr", e |-> e] : e \in ParseExpr(d)}

ParseOperand(d) ==
  CASE d.s = "int"  -> {[o |-> "num", n |-> d.x]}
    [] d.s = "flag" -> {[o |-> "bool", b |-> d.x]}
    [] d.s = "str"  -> {[o |-> "str"]}
    [] d.s = "list" /\ HasHead(d)  -> ParseHeadedOperand(d)
    [] d.s = "list" /\ ~HasHead(d) -> {[o |-> "list", xs |-> xs] : xs \in EachOf(ParseOperand, d.es)}
    [] OTHER -> {}

ParseInstructionArg(d) ==
  LET l == Fixed(d, 2) IN {[name |-> n, value |-> v] : n \in ParseName(l[1]), v \in ParseOperand(l[2])}

ParseInstruction(d) ==
  LET l == Items(d) IN {[i |-> n, args |-> as] : n \in NameAt(l, 0), as \in EachOf(ParseInstructionArg, From(l, 1))}

ParseInstructions(d) == EachOf(ParseInstruction, Tagged(d, "instructions"))

---------------------------------------------------------------------------
(***************************************************************************)
(* Expressions, by their head.  A cast keeps the types it is between,      *)
(* whichever of its heads it has.                                          *)
(***************************************************************************)
ParseArgument(d) ==
  LET l == Fixed(d, 2) IN {[id |-> n, ty |-> t] : n \in ParseName(l[1]), t \in ParseType(l[2])}
ParseArguments(d) == EachOf(ParseArgument, Items(d))

ParseLiteral(d) ==
  CASE d.s = "int"   -> {[op |-> "int", n |-> d.x]}
    [] d.s = "flag"  -> {[op |-> "bool", b |-> d.x]}
    [] d.s = "bytes" -> {[op |-> "bytes", n |-> d.x, len |-> d.len]}
    [] OTHER -> {}

ParseTupleArg(d) ==
  CASE Headed(d, "single") -> {[spread |-> FALSE, len |-> 1, e |-> e] : e \in ExprAt(d.es, 1)}
    [] Headed(d, "spread") -> {[spread |-> TRUE, len |-> n, e |-> e] : n \in NatAt(d.es, 1), e \in ExprAt(d.es, 2)}
    [] OTHER -> {}

ParseMapArg(d) ==
  LET l == Fixed(d, 3)
  IN {[e |-> e, ty |-> t] : e \in ParseExpr(l[1]), t \in ParseType(l[2]), element \in ParseType(l[3])}

ParseFun(d) ==
  CASE Headed(d, "fref")    -> {[id |-> n] : n \in NameAt(d.es, 1)}
    [] Headed(d, "circuit") ->
         {[params |-> ps, result |-> t, body |-> e] : ps \in ParseArguments(Nth(d.es, 1)),
            t \in TypeAt(d.es, 2), e \in ExprAt(d.es, 3)}
    [] OTHER -> {}

ParsePathElement(d) ==
  IF d.s = "int" THEN {[at |-> n] : n \in ParseNat(d)}
  ELSE LET l == Fixed(d, 2) IN {[ty |-> t, e |-> e] : t \in ParseType(l[1]), e \in ParseExpr(l[2])}

ParseBinding(d) ==
  LET l == Fixed(d, 2) IN {[id |-> a.id, ty |-> a.ty, e |-> e] : a \in ParseArgument(l[1]), e \in ParseExpr(l[2])}

\* An operation that the runtime checks a coin before is of a class of its own.
ParseOpClass(d) ==
  IF d.s = "sym" THEN {[coin_check |-> FALSE]}
  ELSE LET l == Fixed(d, 3)
       IN {[coin_check |-> TRUE] : n \in ParseName(l[1]), coin \in ParseNat(l[2]), recipient \in ParseNat(l[3])}

Exprs(l, i)  == EachOf(ParseExpr, From(l, i))

\* What a value is made of, and the forms that take it apart.
Reaching(h, l) ==
  CASE h = "elt-ref" ->
         {[op |-> "elt", e |-> e, name |-> n] : e \in ExprAt(l, 1), n \in NameAt(l, 2), i \in NatAt(l, 3)}
    [] h = "tuple-ref" -> {[op |-> "tuple_ref", e |-> e, i |-> i] : e \in ExprAt(l, 1), i \in NatAt(l, 2)}
    [] h = "enum-ref"  -> {[op |-> "enum", ty |-> t, name |-> n] : t \in TypeAt(l, 1), n \in NameAt(l, 2)}
    [] h \in {"tuple", "vector"} -> {[op |-> "tuple", args |-> as] : as \in EachOf(ParseTupleArg, From(l, 1))}
    [] h = "new" -> {[op |-> "new", ty |-> t, es |-> es] : t \in TypeAt(l, 1), es \in Exprs(l, 2)}
    [] h = "vector-ref" ->
         {[op |-> "vector_ref", ty |-> t, e |-> e, index |-> i] : t \in TypeAt(l, 1), e \in ExprAt(l, 2), i \in ExprAt(l, 3)}
    [] h = "bytes-ref" ->
         {[op |-> "bytes_ref", ty |-> t, e |-> e, index |-> i] : t \in TypeAt(l, 1), e \in ExprAt(l, 2), i \in ExprAt(l, 3)}
    [] h = "tuple-slice" ->
         {[op |-> "slice", ty |-> t, e |-> e, index |-> [op |-> "int", n |-> i], len |-> n] :
            t \in TypeAt(l, 1), e \in ExprAt(l, 2), i \in NatAt(l, 3), n \in NatAt(l, 4)}
    [] h = "vector-slice" ->
         {[op |-> "slice", ty |-> t, e |-> e, index |-> i, len |-> n] :
            t \in TypeAt(l, 1), e \in ExprAt(l, 2), i \in ExprAt(l, 3), n \in NatAt(l, 4)}
    [] h = "bytes-slice" ->
         {[op |-> "bytes_slice", ty |-> t, e |-> e, index |-> i, len |-> n] :
            t \in TypeAt(l, 1), e \in ExprAt(l, 2), i \in ExprAt(l, 3), n \in NatAt(l, 4)}

ArithHeads   == [x \in {"+", "-", "*"} |-> CASE x = "+" -> "add" [] x = "-" -> "sub" [] x = "*" -> "mul"]
CompareHeads == [x \in {"<", "<=", ">", ">="} |-> CASE x = "<" -> "lt" [] x = "<=" -> "le" [] x = ">" -> "gt" [] x = ">=" -> "ge"]
EqualHeads   == [x \in {"==", "!="} |-> IF x = "==" THEN "eq" ELSE "neq"]

\* Two operands, after their type, or after the bits that a comparison is on.
Computing(h, l) ==
  CASE h \in DOMAIN ArithHeads ->
         {[op |-> "arith", kind |-> ArithHeads[h], ty |-> t, l |-> x, r |-> y] :
            t \in TypeAt(l, 1), x \in ExprAt(l, 2), y \in ExprAt(l, 3)}
    [] h \in DOMAIN CompareHeads ->
         {[op |-> CompareHeads[h], l |-> x, r |-> y] : bits \in NatAt(l, 1), x \in ExprAt(l, 2), y \in ExprAt(l, 3)}
    [] h \in DOMAIN EqualHeads ->
         {[op |-> EqualHeads[h], ty |-> t, l |-> x, r |-> y] : t \in TypeAt(l, 1), x \in ExprAt(l, 2), y \in ExprAt(l, 3)}

Casting(h, from, to, es) == {[op |-> "cast", head |-> h, from |-> f, to |-> t, e |-> e] : f \in from, t \in to, e \in es}

UintUpTo(d) == {Uint(n) : n \in ParseBigNat(d)}

\* A cast reads its types or bounds in the order of its head.
Converting(h, l) ==
  LET e == ExprAt(l, 3)
  IN CASE h \in {"cast-from-enum", "cast-to-enum", "safe-cast"} -> Casting(h, TypeAt(l, 2), TypeAt(l, 1), e)
       [] h = "cast-from-bytes"   -> Casting(h, {Bytes(n) : n \in NatAt(l, 2)}, TypeAt(l, 1), e)
       [] h = "cast-to-field"     -> Casting(h, TypeAt(l, 2), ParseFieldType(Nth(l, 1)), e)
       [] h = "cast-from-field"   -> Casting(h, ParseFieldType(Nth(l, 2)), UintUpTo(Nth(l, 1)), e)
       [] h = "downcast-unsigned" -> Casting(h, UintUpTo(Nth(l, 1)), UintUpTo(Nth(l, 2)), e)
       [] h = "field->bytes"      ->
            {[op |-> "to_bytes", len |-> n, field |-> f, e |-> x] : n \in NatAt(l, 1), f \in ParseFieldType(Nth(l, 2)), x \in e}
       [] h = "vector->bytes"     -> {[op |-> "vector_to_bytes", len |-> n, e |-> x] : n \in NatAt(l, 1), x \in ExprAt(l, 2)}
       [] h = "bytes->vector"     -> {[op |-> "bytes_to_vector", len |-> n, e |-> x] : n \in NatAt(l, 1), x \in ExprAt(l, 2)}

\* Calls and loops.  A fold starts from a value and its type.
Calling(h, l) ==
  LET init == Fixed(Nth(l, 3), 2)
      receiver == Fixed(Nth(l, 2), 2)
  IN CASE h = "call" -> {[op |-> "call", id |-> n, args |-> es] : n \in NameAt(l, 1), es \in Exprs(l, 2)}
       [] h = "map"  -> {[op |-> "map", len |-> n, fun |-> f, args |-> as] :
                           n \in NatAt(l, 1), f \in ParseFun(Nth(l, 2)), as \in EachOf(ParseMapArg, From(l, 3))}
       [] h = "fold" -> {[op |-> "fold", len |-> n, fun |-> f, init |-> e, args |-> as] :
                           n \in NatAt(l, 1), f \in ParseFun(Nth(l, 2)), e \in ParseExpr(init[1]), t \in ParseType(init[2]),
                           as \in EachOf(ParseMapArg, From(l, 4))}
       [] h = "contract-call" ->
            {[op |-> "contract_call", ty |-> t, receiver |-> e, args |-> es] : n \in NameAt(l, 1),
               e \in ParseExpr(receiver[1]), t \in ParseType(receiver[2]), es \in Exprs(l, 3)}

\* What reads or writes the state of the contract.
Acting(h, l) ==
  CASE h = "emit" -> {[op |-> "emit", payload |-> e, instructions |-> is] : version \in NatAt(l, 1), tag \in NatAt(l, 2),
                        n \in NatAt(l, 3), e \in ExprAt(l, 4), is \in ParseInstructions(Nth(l, 5))}
    [] h = "public-ledger" ->
         {[op |-> "ledger", class |-> c, path |-> p, name |-> n, ty |-> t, instructions |-> is, values |-> es] :
            f \in NameAt(l, 1), c \in ParseOpClass(Nth(l, 2)), p \in EachOf(ParsePathElement, Items(Nth(l, 3))),
            n \in NameAt(l, 4), t \in TypeAt(l, 5), is \in ParseInstructions(Nth(l, 6)), es \in Exprs(l, 7)}

\* The remaining forms, and a refusal of a head that is none of them.
Controlling(h, l) ==
  CASE h = "quote"   -> ParseLiteral(Nth(l, 1))
    [] h = "var-ref" -> {[op |-> "var", id |-> n] : n \in NameAt(l, 1)}
    [] h = "default" -> {[op |-> "default", ty |-> t] : t \in TypeAt(l, 1)}
    [] h = "if"      -> {[op |-> "if", cond |-> c, then |-> t, else |-> e] : c \in ExprAt(l, 1), t \in ExprAt(l, 2), e \in ExprAt(l, 3)}
    [] h = "seq"     -> {[op |-> "seq", es |-> es] : es \in Exprs(l, 1)}
    [] h = "let*"    -> {[op |-> "let", bindings |-> bs, e |-> e] : bs \in EachOf(ParseBinding, Items(Nth(l, 1))), e \in ExprAt(l, 2)}
    [] h = "assert"  -> {[op |-> "assert", e |-> e] : e \in ExprAt(l, 1), message \in ParseString(Nth(l, 2))}
    [] h = "return"  -> {[op |-> "return", e |-> e] : e \in ExprAt(l, 1)}
    [] OTHER         -> {}

ParseExpr(d) ==
  IF ~HasHead(d) THEN {}
  ELSE LET h == d.es[1].x
       IN CASE h \in {"elt-ref", "tuple-ref", "enum-ref", "tuple", "vector", "new", "vector-ref", "bytes-ref",
                      "tuple-slice", "vector-slice", "bytes-slice"} -> Reaching(h, d.es)
            [] h \in {"+", "-", "*", "<", "<=", ">", ">=", "==", "!="} -> Computing(h, d.es)
            [] h \in {"cast-from-enum", "cast-to-enum", "safe-cast", "cast-from-bytes", "cast-to-field", "cast-from-field",
                      "downcast-unsigned", "field->bytes", "vector->bytes", "bytes->vector"} -> Converting(h, d.es)
            [] h \in {"call", "map", "fold", "contract-call"} -> Calling(h, d.es)
            [] h \in {"emit", "public-ledger"} -> Acting(h, d.es)
            [] OTHER -> Controlling(h, d.es)

---------------------------------------------------------------------------
(***************************************************************************)
(* Program elements, and the artifact.                                     *)
(***************************************************************************)
ParseLedgerBinding(d) ==
  LET l == Fixed(d, 4)
  IN {[name |-> n, path |-> p, exported |-> b, ty |-> t] : n \in ParseName(l[1]), p \in EachOf(ParseNat, Items(l[2])),
        b \in ParseBoolean(Keyed(l[3], "exported")), t \in ParseType(l[4])}

\* Fields lie in nested arrays when they are many: the bindings in the order they are met.
RECURSIVE ParseLedgerArray(_)
ParseLedgerArray(d) ==
  LET Entry(x) == IF Headed(x, "public-ledger-array") THEN ParseLedgerArray(x) ELSE {<<b>> : b \in ParseLedgerBinding(x)}
  IN {FlattenSeq(parts) : parts \in EachOf(Entry, Tagged(d, "public-ledger-array"))}

ParseCircuit(l) ==
  {[what |-> "circuit", id |-> n, exported |-> e, pure |-> u, proof |-> f, params |-> ps, result |-> t, body |-> b] :
     n \in NameAt(l, 1), e \in ParseBoolean(Keyed(Nth(l, 2), "exported")), u \in ParseBoolean(Keyed(Nth(l, 3), "pure")),
     f \in ParseBoolean(Keyed(Nth(l, 4), "proof")), ps \in ParseArguments(Nth(l, 5)), t \in TypeAt(l, 6), b \in ExprAt(l, 7)}

ParseNative(l) ==
  LET entry == Fixed(Nth(l, 2), 3)
      types == Tagged(Nth(l, 3), "type-arguments")
  IN IF ~IsSymbol(entry[1], "entry") THEN {}
     ELSE {[what |-> "native", id |-> n, entry |-> f, class |-> c, params |-> ps, result |-> t] :
             n \in NameAt(l, 1), f \in ParseString(entry[2]), c \in ParseName(entry[3]),
             ts \in EachOf(ParseType, types), ps \in ParseArguments(Nth(l, 4)), t \in TypeAt(l, 5)}

ParseLedger(l) ==
  LET constructor == Fixed(Nth(l, 2), 3)
  IN IF ~IsSymbol(constructor[1], "constructor") THEN {}
     ELSE {[what |-> "ledger", fields |-> fs, constructor |-> [params |-> ps, body |-> e]] :
             fs \in ParseLedgerArray(Nth(l, 1)), ps \in ParseArguments(constructor[2]), e \in ParseExpr(constructor[3])}

ParseElement(d) ==
  LET l == Items(d)
  IN CASE Headed(d, "circuit") -> ParseCircuit(l)
       [] Headed(d, "native")  -> ParseNative(l)
       [] Headed(d, "witness") ->
            {[what |-> "witness", id |-> n, params |-> ps, result |-> t] :
               n \in NameAt(l, 1), ps \in ParseArguments(Nth(l, 2)), t \in TypeAt(l, 3)}
       [] Headed(d, "kernel-declaration") -> {[what |-> "kernel"] : b \in ParseLedgerBinding(Nth(l, 1))}
       [] Headed(d, "public-ledger-declaration") -> ParseLedger(l)
       [] Headed(d, "export-typedef") ->
            {[what |-> "typedef"] : n \in NameAt(l, 1), vs \in EachOf(ParseName, Items(Nth(l, 2))), t \in TypeAt(l, 3)}
       [] OTHER -> {}

HeaderHeads == {"compiler-version", "language-version", "runtime-version", "exports", "contract-types"}

ParseVersion(d, key) == ParseString(Keyed(d, key))

\* The first compiler version among the elements, whatever the others are.
CompilerVersion(d) ==
  LET found == SelectSeq(Tagged(d, "analyzed-ir"), LAMBDA e : Headed(e, "compiler-version"))
  IN IF found = <<>> THEN {} ELSE ParseVersion(found[1], "compiler-version")

ParseExport(d) ==
  IF d.s = "pair" THEN {[name |-> n, target |-> id] : n \in ParseName(d.car), id \in ParseName(d.cdr)} ELSE {}

\* The elements with one of the heads of the header; of a version, the last counts.
Among(d, head) == SelectSeq(Tagged(d, "analyzed-ir"), LAMBDA e : Headed(e, head))
InHeader(d, head, Parse(_)) ==
  {FlattenSeq(xs) : xs \in EachOf(LAMBDA e : EachOf(Parse, Tail(e.es)), Among(d, head))}
VersionIn(d, key) ==
  {vs \in EachOf(LAMBDA e : ParseVersion(e, key), Among(d, key)) : vs # <<>>}

ParseArtifact(d) ==
  LET others == SelectSeq(Tagged(d, "analyzed-ir"), LAMBDA e : ~(HasHead(e) /\ e.es[1].x \in HeaderHeads))
  IN {[exports |-> xs, elements |-> es] : compiler \in CompilerVersion(d),
        language \in VersionIn(d, "language-version"), runtime \in VersionIn(d, "runtime-version"),
        xs \in InHeader(d, "exports", ParseExport), ts \in InHeader(d, "contract-types", ParseType),
        es \in EachOf(ParseElement, others)}

---------------------------------------------------------------------------
(***************************************************************************)
(* What the loader refuses: a type or an expression that no consumer can   *)
(* execute, so that an artifact fails where it is loaded and not while one *)
(* of its circuits runs.                                                   *)
(***************************************************************************)
\* A type without values, a ledger ADT or a type variable, is within the type.
RECURSIVE Unsupported(_)
Unsupported(ty) ==
  CASE ty.k \in {"adt", "var"}      -> TRUE
    [] ty.k \in {"vector", "alias"} -> Unsupported(ty.ty)
    [] ty.k = "tuple"               -> \E i \in DOMAIN ty.ts : Unsupported(ty.ts[i])
    [] ty.k = "struct"              -> \E i \in DOMAIN ty.fields : Unsupported(ty.fields[i].ty)
    [] OTHER                        -> FALSE

CheckType(ty) == ~Unsupported(ty)

RECURSIVE HoldsUnknown(_)
HoldsUnknown(ty) ==
  CASE ty.k = "unknown" -> TRUE
    [] ty.k \in {"vector", "alias"} -> HoldsUnknown(ty.ty)
    [] ty.k = "tuple"  -> \E i \in DOMAIN ty.ts : HoldsUnknown(ty.ts[i])
    [] ty.k = "struct" -> \E i \in DOMAIN ty.fields : HoldsUnknown(ty.fields[i].ty)
    [] ty.k = "adt"    -> \E i \in DOMAIN ty.args : "ty" \in DOMAIN ty.args[i] /\ HoldsUnknown(ty.args[i].ty)
    [] OTHER           -> FALSE

\* The default of a container can be pushed when it is an empty map.
RECURSIVE CheckAdtDefault(_)
CheckAdtDefault(ty) ==
  IF ty.k # "adt" THEN CheckType(ty)
  ELSE ty.name = "Map" /\ \A i \in DOMAIN ty.args : "ty" \in DOMAIN ty.args[i] => CheckAdtDefault(ty.args[i].ty)

CheckArguments(params) == \A i \in DOMAIN params : CheckType(params[i].ty)
CheckCallee(fun) ==
  "id" \in DOMAIN fun \/ (CheckArguments(fun.params) /\ CheckType(fun.result))

\* The types that an expression names, apart from those of its parts.
TypesOf(e) ==
  CASE e.op \in {"default", "enum", "new", "ledger", "contract_call", "vector_ref", "bytes_ref",
                 "slice", "bytes_slice", "arith", "eq", "neq"} -> <<e.ty>>
    [] e.op = "cast"  -> IF e.head = "safe-cast" THEN <<e.to>> ELSE <<e.from, e.to>>
    [] e.op = "let"   -> [i \in DOMAIN e.bindings |-> e.bindings[i].ty]
    [] OTHER          -> <<>>

BodyOf(fun)       == IF "id" \in DOMAIN fun THEN <<>> ELSE <<fun.body>>
ExprsOf(args)     == [i \in DOMAIN args |-> args[i].e]
ComputedOf(path)  == SelectSeq(path, LAMBDA p : "e" \in DOMAIN p)

PartsOf(e) ==
  CASE e.op \in {"elt", "tuple_ref", "return", "assert", "cast", "to_bytes", "vector_to_bytes", "bytes_to_vector"} -> <<e.e>>
    [] e.op \in {"arith", "eq", "neq", "lt", "le", "gt", "ge"} -> <<e.l, e.r>>
    [] e.op \in {"vector_ref", "bytes_ref", "slice", "bytes_slice"} -> <<e.e, e.index>>
    [] e.op = "if"    -> <<e.cond, e.then, e.else>>
    [] e.op = "tuple" -> ExprsOf(e.args)
    [] e.op \in {"new", "seq"} -> e.es
    [] e.op = "call"  -> e.args
    [] e.op = "contract_call" -> <<e.receiver>> \o e.args
    [] e.op = "map"   -> BodyOf(e.fun) \o ExprsOf(e.args)
    [] e.op = "fold"  -> BodyOf(e.fun) \o <<e.init>> \o ExprsOf(e.args)
    [] e.op = "let"   -> ExprsOf(e.bindings) \o <<e.e>>
    [] e.op = "emit"  -> <<e.payload>>
    [] e.op = "ledger" -> ExprsOf(ComputedOf(e.path))
    [] OTHER          -> <<>>

RECURSIVE CheckExpr(_)

\* A container as a state value is its type's default; any other is checked.
RECURSIVE CheckOperand(_)
CheckAdtState(x, ty) ==
  IF ty.k # "adt" THEN CheckOperand(x) /\ CheckType(ty)
  ELSE x.o = "expr" /\ x.e.op = "default" /\ x.e.ty = ty /\ CheckAdtDefault(ty)

CheckOperand(o) ==
  CASE o.o = "expr" -> CheckExpr(o.e)
    [] o.o \in {"value_to_int", "leaf_hash", "cell"} -> CheckOperand(o.x)
    [] o.o \in {"null", "max_sizeof"}    -> CheckType(o.ty)
    [] o.o \in {"coin_commit", "add"}    -> CheckOperand(o.l) /\ CheckOperand(o.r)
    [] o.o \in {"concat", "list", "array"} -> \A i \in DOMAIN o.xs : CheckOperand(o.xs[i])
    [] o.o = "adt"  -> CheckAdtState(o.x, o.ty)
    [] o.o \in {"map", "tree"} -> \A i \in DOMAIN o.entries : CheckOperand(o.entries[i].key) /\ CheckOperand(o.entries[i].value)
    [] OTHER        -> TRUE

CheckInstructions(is) == \A i \in DOMAIN is : \A k \in DOMAIN is[i].args : CheckOperand(is[i].args[k].value)

\* An argument may be the default of a container: it only types the operation.
CheckLedgerCall(e) ==
  /\ ~e.class.coin_check
  /\ \A i \in DOMAIN e.path : "ty" \in DOMAIN e.path[i] => CheckType(e.path[i].ty)
  /\ \A i \in DOMAIN e.values :
       LET x == e.values[i] IN IF x.op = "default" /\ x.ty.k = "adt" THEN CheckAdtDefault(x.ty) ELSE CheckExpr(x)

CheckExpr(e) ==
  /\ \A i \in DOMAIN TypesOf(e) : CheckType(TypesOf(e)[i])
  /\ \A i \in DOMAIN PartsOf(e) : CheckExpr(PartsOf(e)[i])
  /\ e.op = "ledger" => CheckLedgerCall(e)
  /\ e.op \in {"ledger", "emit"} => CheckInstructions(e.instructions)
  /\ e.op \in {"map", "fold"} => CheckCallee(e.fun)

CheckCircuit(c) == CheckArguments(c.params) /\ CheckType(c.result) /\ CheckExpr(c.body)

---------------------------------------------------------------------------
(***************************************************************************)
(* The contract as its consumers see it.                                   *)
(***************************************************************************)
StorageKinds == {"Cell", "Counter", "Map", "Set", "List", "MerkleTree", "HistoricMerkleTree"}

\* The compiler may print a kind under a name of its own.
StorageKind(name) ==
  IF \E kind \in StorageKinds : name = "__compact_" \o kind
  THEN CHOOSE kind \in StorageKinds : name = "__compact_" \o kind ELSE name

ValueArg(arg)     == IF "ty" \in DOMAIN arg THEN {ty \in {arg.ty} : CheckType(ty)} ELSE {}
MapValue(arg)     ==
  IF "ty" \in DOMAIN arg /\ arg.ty.k = "adt" THEN {ty \in {arg.ty} : CheckAdtDefault(ty)} ELSE ValueArg(arg)

\* A ledger field: where it lies and what it holds.
LedgerField(f) ==
  LET ty == Resolved(f.ty)
      field == [name |-> f.name, path |-> f.path, exported |-> f.exported]
  IN IF ty.k # "adt" \/ HoldsUnknown(f.ty) THEN {}
     ELSE LET kind == StorageKind(ty.name)
          IN CASE kind \in {"Cell", "Set", "List"} -> {field @@ [storage |-> kind, element |-> t] : t \in ValueArg(ty.args[1])}
               [] kind = "Counter" -> {field @@ [storage |-> kind]}
               [] kind = "Map" -> {field @@ [storage |-> kind, key |-> k, value |-> v] :
                                     k \in ValueArg(ty.args[1]), v \in MapValue(ty.args[2])}
               [] kind \in {"MerkleTree", "HistoricMerkleTree"} /\ "depth" \in DOMAIN ty.args[1] ->
                    {field @@ [storage |-> kind, depth |-> ty.args[1].depth, element |-> t] : t \in ValueArg(ty.args[2])}
               [] OTHER -> {}

ElementsOf(ir, what) == SelectSeq(ir.elements, LAMBDA e : e.what = what)
CircuitOf(ir, id)    == SelectSeq(ElementsOf(ir, "circuit"), LAMBDA c : c.id = id)

LedgerOf(ir) ==
  LET found == ElementsOf(ir, "ledger")
  IN IF found = <<>> THEN [fields |-> <<>>, constructor |-> [params |-> <<>>, body |-> [op |-> "tuple", args |-> <<>>]]]
     ELSE found[1]

IsEmptyConstructor(c) == c.params = <<>> /\ c.body.op = "tuple" /\ c.body.args = <<>>

\* The constructor runs as a circuit with a unit result.
LowerConstructor(c) == [params |-> c.params, result |-> Unit, body |-> c.body]

\* A constructor that cannot run loads all the same.
Constructor(c) ==
  CASE IsEmptyConstructor(c) -> [has |-> FALSE]
    [] ~IsEmptyConstructor(c) /\ CheckCircuit(LowerConstructor(c)) -> [has |-> TRUE, runs |-> TRUE, circuit |-> LowerConstructor(c)]
    [] OTHER -> [has |-> TRUE, runs |-> FALSE]

FromProgram(ir) ==
  LET circuits == ElementsOf(ir, "circuit")
      natives == ElementsOf(ir, "native")
      witnesses == ElementsOf(ir, "witness")
      executable == /\ \A i \in DOMAIN circuits : CheckCircuit(circuits[i])
                    /\ \A i \in DOMAIN natives : CheckType(natives[i].result)
                    /\ \A i \in DOMAIN witnesses : CheckArguments(witnesses[i].params) /\ CheckType(witnesses[i].result)
      exported == SelectSeq(ir.exports, LAMBDA x : CircuitOf(ir, x.target) # <<>>)
  IN {[circuits |-> [i \in DOMAIN exported |-> [name |-> exported[i].name, def |-> Last(CircuitOf(ir, exported[i].target))]],
       helpers |-> circuits, natives |-> natives, witnesses |-> witnesses, ledger |-> fields,
       constructor |-> Constructor(LedgerOf(ir).constructor)]
      : fields \in {fs \in EachOf(LedgerField, LedgerOf(ir).fields) : executable}}

CheckCompilerVersion(v) == Len(v) >= 2 /\ SubSeq(v, 1, 2) = Supported

\* The version is checked before the rest is parsed.
Load(text) ==
  UNION {FromProgram(ir) : ir \in
    UNION {ParseArtifact(d) : d \in {d \in ReadOne(text) : \E v \in CompilerVersion(d) : CheckCompilerVersion(v)}}}

=============================================================================
