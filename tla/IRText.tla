------------------------------- MODULE IRText -------------------------------
(***************************************************************************)
(* How the compiler prints an analyzed IR, external: the inverse of what   *)
(* Artifact reads.  Expressions are the records of Interpreter; what only  *)
(* the meaning of a circuit uses is not printed.                           *)
(***************************************************************************)
EXTENDS Artifact

Form(head, parts) == ListOf(<<Symbol(head)>> \o parts)

---------------------------------------------------------------------------
(***************************************************************************)
(* Types, and names with their types.                                      *)
(***************************************************************************)
NativeField == Form("field-native", <<>>)

RECURSIVE ShowType(_)
ShowTypes(ts) == [i \in DOMAIN ts |-> ShowType(ts[i])]

ShowAdtArg(arg) == IF "ty" \in DOMAIN arg THEN ShowType(arg.ty) ELSE Whole(arg.depth)

ShowType(ty) ==
  CASE ty.k = "bool"   -> Form("tboolean", <<>>)
    [] ty.k = "field"  -> Form("tfield", <<NativeField>>)
    [] ty.k = "uint"   -> Form("tunsigned", <<Whole(ty.max)>>)
    [] ty.k = "bytes"  -> Form("tbytes", <<Whole(ty.len)>>)
    [] ty.k = "tuple"  -> Form("ttuple", ShowTypes(ty.ts))
    [] ty.k = "vector" -> Form("tvector", <<Whole(ty.len), ShowType(ty.ty)>>)
    [] ty.k = "struct" -> Form("tstruct", <<Symbol("Struct")>> \o
                            [i \in DOMAIN ty.fields |-> ListOf(<<Symbol(ty.fields[i].name), ShowType(ty.fields[i].ty)>>)])
    [] ty.k = "enum"   -> Form("tenum", <<Symbol("Enum")>> \o [i \in DOMAIN ty.variants |-> Symbol(ty.variants[i])])
    [] ty.k = "alias"  -> Form("talias", <<Flag(FALSE), Symbol("Alias"), ShowType(ty.ty)>>)
    [] ty.k = "adt"    -> Form(ty.name, [i \in DOMAIN ty.args |-> ShowAdtArg(ty.args[i])])
    [] ty.k = "var"    -> Symbol("A")

ShowArgument(a) == ListOf(<<Symbol(a.id), ShowType(a.ty)>>)
ShowArguments(params) == ListOf([i \in DOMAIN params |-> ShowArgument(params[i])])

---------------------------------------------------------------------------
(***************************************************************************)
(* Expressions and instructions.                                           *)
(***************************************************************************)
RECURSIVE ShowExpr(_), ShowOperand(_)
ShowExprs(es)    == [i \in DOMAIN es |-> ShowExpr(es[i])]
ShowOperands(os) == [i \in DOMAIN os |-> ShowOperand(os[i])]

ShowOperand(o) ==
  CASE o.o = "expr"  -> ShowExpr(o.e)
    [] o.o = "num"   -> Whole(o.n)
    [] o.o = "bool"  -> Flag(o.b)
    [] o.o = "align" -> Form("align", <<Whole(o.n), Whole(o.width)>>)
    [] o.o = "add"   -> Form("+", <<ShowOperand(o.l), ShowOperand(o.r)>>)
    [] o.o = "list"  -> ListOf(ShowOperands(o.xs))
    [] o.o = "value_to_int" -> Form("value->int", <<ShowOperand(o.x)>>)
    [] o.o = "null"  -> Form("null", <<ShowType(o.ty)>>)
    [] o.o = "concat" -> Form("aligned-concat", ShowOperands(o.xs))
    [] o.o = "void"  -> Form("state-value", <<Symbol("null")>>)
    [] o.o = "cell"  -> Form("state-value", <<Symbol("cell"), ShowOperand(o.x)>>)
    [] o.o = "array" -> Form("state-value", <<Symbol("array")>> \o ShowOperands(o.xs))
    [] o.o = "map"   -> Form("state-value", <<Symbol("map")>> \o
                          [i \in DOMAIN o.entries |-> ListOf(ShowOperands(<<o.entries[i].key, o.entries[i].value>>))])
    [] o.o = "adt"   -> Form("state-value", <<Symbol("ADT"), ShowOperand(o.x), ShowType(o.ty)>>)

ShowInstruction(ins) ==
  Form(ins.i, [i \in DOMAIN ins.args |-> ListOf(<<Symbol(ins.args[i].name), ShowOperand(ins.args[i].value)>>)])
ShowInstructions(is) == Form("instructions", [i \in DOMAIN is |-> ShowInstruction(is[i])])

ShowFun(fun) ==
  IF "id" \in DOMAIN fun THEN Form("fref", <<Symbol(fun.id)>>)
  ELSE Form("circuit", <<ShowArguments(fun.params), ShowType(fun.result), ShowExpr(fun.body)>>)

ShowTupleArg(arg) ==
  IF arg.spread THEN Form("spread", <<Whole(arg.len), ShowExpr(arg.e)>>) ELSE Form("single", <<ShowExpr(arg.e)>>)

ShowMapArgs(args) ==
  [i \in DOMAIN args |-> ListOf(<<ShowExpr(args[i].e), ShowType(args[i].ty), ShowType(ElementTypeAt(args[i].ty, 0))>>)]

\* The compiler has a form for each direction of a cast.
ShowCast(from, to, e) ==
  CASE from.k = "bytes" -> Form("cast-from-bytes", <<ShowType(to), Whole(from.len), e>>)
    [] from.k = "enum"  -> Form("cast-from-enum", <<ShowType(to), ShowType(from), e>>)
    [] from.k \notin {"bytes", "enum"} /\ to.k = "enum" -> Form("cast-to-enum", <<ShowType(to), ShowType(from), e>>)
    [] from.k = "uint" /\ to.k = "field" -> Form("cast-to-field", <<NativeField, ShowType(from), e>>)
    [] from.k = "field" /\ to.k = "uint" -> Form("cast-from-field", <<Whole(to.max), NativeField, e>>)
    [] from.k = "uint" /\ to.k = "uint" /\ to.max < from.max -> Form("downcast-unsigned", <<Whole(from.max), Whole(to.max), e>>)
    [] OTHER -> Form("safe-cast", <<ShowType(to), ShowType(from), e>>)

ShowSlice(e) ==
  IF e.index.op = "int" THEN Form("tuple-slice", <<ShowType(e.ty), ShowExpr(e.e), Whole(e.index.n), Whole(e.len)>>)
  ELSE Form("vector-slice", <<ShowType(e.ty), ShowExpr(e.e), ShowExpr(e.index), Whole(e.len)>>)

ArithHead   == [add |-> "+", sub |-> "-", mul |-> "*"]
CompareHead == [lt |-> "<", le |-> "<=", gt |-> ">", ge |-> ">="]

ShowExpr(e) ==
  CASE e.op = "int"   -> Form("quote", <<Whole(e.n)>>)
    [] e.op = "var"   -> Form("var-ref", <<Symbol(e.id)>>)
    [] e.op = "default" -> Form("default", <<ShowType(e.ty)>>)
    [] e.op = "if"    -> Form("if", ShowExprs(<<e.cond, e.then, e.else>>))
    [] e.op = "seq"   -> Form("seq", ShowExprs(e.es))
    [] e.op = "let"   -> Form("let*", <<ListOf([i \in DOMAIN e.bindings |->
                                          ListOf(<<ShowArgument(e.bindings[i]), ShowExpr(e.bindings[i].e)>>)]), ShowExpr(e.e)>>)
    [] e.op = "return" -> Form("return", <<ShowExpr(e.e)>>)
    [] e.op = "assert" -> Form("assert", <<ShowExpr(e.e), Text("failed")>>)
    [] e.op = "elt"    -> Form("elt-ref", <<ShowExpr(e.e), Symbol(e.name), Whole(e.index)>>)
    [] e.op = "tuple_ref" -> Form("tuple-ref", <<ShowExpr(e.e), Whole(e.i)>>)
    [] e.op = "enum"   -> Form("enum-ref", <<ShowType(e.ty), Symbol(e.name)>>)
    [] e.op = "tuple"  -> Form("tuple", [i \in DOMAIN e.args |-> ShowTupleArg(e.args[i])])
    [] e.op = "new"    -> Form("new", <<ShowType(e.ty)>> \o ShowExprs(e.es))
    [] e.op = "vector_ref" -> Form("vector-ref", <<ShowType(e.ty)>> \o ShowExprs(<<e.e, e.index>>))
    [] e.op = "bytes_ref"  -> Form("bytes-ref", <<ShowType(e.ty)>> \o ShowExprs(<<e.e, e.index>>))
    [] e.op = "slice"  -> ShowSlice(e)
    [] e.op = "bytes_slice" -> Form("bytes-slice", <<ShowType(e.ty)>> \o ShowExprs(<<e.e, e.index>>) \o <<Whole(e.len)>>)
    [] e.op = "arith"  -> Form(ArithHead[e.kind], <<ShowType(e.ty)>> \o ShowExprs(<<e.l, e.r>>))
    [] e.op \in DOMAIN CompareHead -> Form(CompareHead[e.op], <<Whole(2)>> \o ShowExprs(<<e.l, e.r>>))
    [] e.op = "eq"     -> Form("==", <<ShowType(e.ty)>> \o ShowExprs(<<e.l, e.r>>))
    [] e.op = "neq"    -> Form("!=", <<ShowType(e.ty)>> \o ShowExprs(<<e.l, e.r>>))
    [] e.op = "cast"   -> ShowCast(e.from, e.to, ShowExpr(e.e))
    [] e.op = "to_bytes" -> Form("field->bytes", <<Whole(e.len), NativeField, ShowExpr(e.e)>>)
    [] e.op = "vector_to_bytes" -> Form("vector->bytes", <<Whole(e.len), ShowExpr(e.e)>>)
    [] e.op = "bytes_to_vector" -> Form("bytes->vector", <<Whole(e.len), ShowExpr(e.e)>>)
    [] e.op = "call"   -> Form("call", <<Symbol(e.id)>> \o ShowExprs(e.args))
    [] e.op = "map"    -> Form("map", <<Whole(e.len), ShowFun(e.fun)>> \o ShowMapArgs(e.args))
    [] e.op = "fold"   -> Form("fold", <<Whole(e.len), ShowFun(e.fun), ListOf(<<ShowExpr(e.init), ShowType(e.ty)>>)>>
                                 \o ShowMapArgs(e.args))
    [] e.op = "emit"   -> Form("emit", <<Whole(1), Whole(0), Whole(1), ShowExpr(e.payload), ShowInstructions(e.instructions)>>)
    [] e.op = "ledger" -> Form("public-ledger", <<Symbol("field"), Symbol("update"), ListOf(<<Whole(e.f)>>), Symbol(e.name),
                                  ShowType(e.ty), ShowInstructions(e.instructions)>> \o ShowExprs(e.values))
    [] e.op = "unheard" -> Form("unheard", <<>>)

---------------------------------------------------------------------------
(***************************************************************************)
(* Elements, and the text of an artifact.                                  *)
(***************************************************************************)
ShowCircuit(id, c) ==
  Form("circuit", <<Symbol(id), Form("exported", <<Flag(TRUE)>>), Form("pure", <<Flag(FALSE)>>), Form("proof", <<Flag(TRUE)>>),
                    ShowArguments(c.params), ShowType(c.result), ShowExpr(c.body)>>)

ShowWitness(id, w) == Form("witness", <<Symbol(id), ShowArguments(w.params), ShowType(w.result)>>)

ShowNative(id, n) ==
  Form("native", <<Symbol(id), Form("entry", <<Text(id), Symbol("circuit")>>), Form("type-arguments", <<>>),
                   ShowArguments(n.params), ShowType(n.result)>>)

ShowField(f) ==
  ListOf(<<Symbol(f.name), ListOf([i \in DOMAIN f.path |-> Whole(f.path[i])]), Form("exported", <<Flag(TRUE)>>), ShowType(f.ty)>>)

ShowLedger(fields, constructor) ==
  Form("public-ledger-declaration",
       <<Form("public-ledger-array", [i \in DOMAIN fields |-> ShowField(fields[i])]),
         Form("constructor", <<ShowArguments(constructor.params), ShowExpr(constructor.body)>>)>>)

\* The quote of a literal is a tick before it.
RECURSIVE Tokens(_)
Tokens(d) ==
  CASE Headed(d, "quote") -> <<Tick>> \o Tokens(d.es[2])
    [] d.s = "list" /\ ~Headed(d, "quote") -> <<Opening>> \o FlattenSeq([i \in DOMAIN d.es |-> Tokens(d.es[i])]) \o <<Closing>>
    [] d.s = "pair" -> <<Opening>> \o Tokens(d.car) \o <<Symbol(".")>> \o Tokens(d.cdr) \o <<Closing>>
    [] OTHER        -> <<d>>

Version(heading, n) == Form(heading, <<Text(n)>>)

Written(version, exports, elements) ==
  Tokens(Form("analyzed-ir", <<Version("compiler-version", version), Version("language-version", <<0, 1>>),
                               Version("runtime-version", <<0, 1>>),
                               Form("exports", [i \in DOMAIN exports |-> Dotted(Symbol(exports[i]), Symbol(exports[i]))])>>
                             \o elements))

=============================================================================
