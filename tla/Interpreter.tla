----------------------------- MODULE Interpreter -----------------------------
(***************************************************************************)
(* The circuit interpreter: it evaluates the body of a circuit against the *)
(* state of a contract, and collects what a proof of the call needs, the   *)
(* ledger operations, what they read, and what the witnesses answered, in  *)
(* the order of the evaluation.                                            *)
(*                                                                         *)
(* An expression is a record whose `op` names its form.  Evaluation        *)
(* carries a context (the locals and their types, the ledger and the       *)
(* transcripts) and yields a value, or Err once anything failed.           *)
(* Cross-contract calls, which are refused, foreign fields and the         *)
(* builtins' cryptography are left out.                                    *)
(***************************************************************************)
EXTENDS CompactTypes

CONSTANTS
  Circuits,    \* the circuits by identifier: parameters, result type, body
  Witnesses,   \* the witnesses by name: parameters and result type
  Ask(_, _, _, _),  \* what a provider answers a witness call on a private
                    \* state: a value and the state after it, or nothing
  Natives,     \* the pure natives by name: argument types and result type
  OwnKey       \* the coin public key of the caller, or None

---------------------------------------------------------------------------
(***************************************************************************)
(* The context.                                                            *)
(***************************************************************************)
\* No locals, no transcripts: the context a circuit starts in, in an environment
\* with the address of the contract, or None, the witness provider, and the
\* private state that it reads and updates.
Context(ledger, env) ==
  [locals |-> <<>>, types |-> <<>>, ledger |-> ledger, ops |-> <<>>, reads |-> <<>>,
   private |-> <<>>, outputs |-> <<>>, inputs |-> <<>>, logs |-> <<>>,
   address |-> env.address, witnesses |-> env.witnesses, private_state |-> env.private_state]

Done(c, v) == [c |-> c, v |-> v]
Fail(c)    == Done(c, Err)

\* Go on with the context and the value, unless the evaluation failed.
Then(r, Go(_, _)) == IF Failed(r.v) THEN r ELSE Go(r.c, r.v)

Bound(f, id, x) == [i \in DOMAIN f \cup {id} |-> IF i = id THEN x ELSE f[i]]

Bind(c, id, v, ty) ==
  [c EXCEPT !.locals = Bound(c.locals, id, v), !.types = Bound(c.types, id, ty)]

---------------------------------------------------------------------------
(***************************************************************************)
(* The static type of an expression, as far as it can be told.             *)
(***************************************************************************)
ConstIndex(e) == IF e.op = "int" THEN e.n ELSE None

\* The type of the run of elements that a slice takes.
SliceResultType(ty, start, len) ==
  LET r == Resolved(ty)
  IN CASE r.k = "vector" -> Vector(len, r.ty)
       [] r.k = "tuple" /\ start # None /\ start + len <= Len(r.ts) ->
            Tuple(SubSeq(r.ts, start + 1, start + len))
       [] OTHER -> NoType

RECURSIVE InferType(_, _)

\* What one argument of a tuple contributes: its type, or those of a spread.
ArgTypes(c, arg) ==
  LET ty == InferType(c, arg.e)
  IN IF ~arg.spread THEN <<ty>>
     ELSE IF ElementCount(ty) = arg.len
          THEN [i \in 1..arg.len |-> ElementTypeAt(ty, i - 1)] ELSE <<NoType>>

TupleType(c, args) ==
  LET ts == FlattenSeq([i \in DOMAIN args |-> ArgTypes(c, args[i])])
  IN IF NoType \in Range(ts) THEN NoType ELSE Tuple(ts)

ResultType(id) ==
  IF id \in DOMAIN Circuits       THEN Circuits[id].result
  ELSE IF id \in DOMAIN Witnesses THEN Witnesses[id].result
  ELSE IF id \in DOMAIN Natives   THEN Natives[id].result
  ELSE NoType

\* The callee of a loop: a circuit of the program, or one in place.
FunOf(fun) == IF "id" \in DOMAIN fun THEN Circuits[fun.id] ELSE fun

InferElement(c, e) ==
  LET i == ConstIndex(e.index)
      declared == ElementTypeAt(e.ty, i)
  IN IF declared # NoType THEN declared ELSE ElementTypeAt(InferType(c, e.e), i)

InferField(c, e) ==
  LET r == Resolved(InferType(c, e.e))
  IN IF r.k = "struct" /\ e.name \in FieldNames(r) THEN r.fields[FieldAt(r, e.name)].ty ELSE NoType

InferType(c, e) ==
  CASE e.op = "var"   -> IF e.id \in DOMAIN c.types THEN c.types[e.id] ELSE NoType
    [] e.op = "int"   -> Field
    [] e.op \in {"bool", "eq", "neq", "lt", "le", "gt", "ge"} -> Boolean
    [] e.op \in {"bytes", "to_bytes", "vector_to_bytes", "bytes_slice"} -> Bytes(e.len)
    [] e.op = "call" -> ResultType(e.id)
    [] e.op \in {"ledger", "new", "default", "arith", "enum"} -> e.ty
    [] e.op = "cast"  -> e.to
    [] e.op = "if"    -> InferType(c, e.then)
    [] e.op \in {"let", "return"} -> InferType(c, e.e)
    [] e.op = "seq"   -> InferType(c, Last(e.es))
    [] e.op = "tuple" -> TupleType(c, e.args)
    [] e.op = "tuple_ref"   -> ElementTypeAt(InferType(c, e.e), e.i)
    [] e.op = "vector_ref"  -> InferElement(c, e)
    [] e.op = "elt"         -> InferField(c, e)
    [] e.op \in {"assert", "emit"} -> Unit
    [] e.op = "bytes_to_vector" -> Vector(e.len, ByteType)
    [] e.op = "bytes_ref"   -> ByteType
    [] e.op = "slice"       -> SliceResultType(e.ty, ConstIndex(e.index), e.len)
    [] e.op = "fold"        -> InferType(c, e.init)
    [] e.op = "map"         -> Vector(e.len, FunOf(e.fun).result)

---------------------------------------------------------------------------
(***************************************************************************)
(* Operations on values.                                                   *)
(***************************************************************************)
Truthy(v) ==
  CASE v.t = "bool" -> v.b
    [] v.t = "int"  -> v.n # 0
    [] v.t = "void" -> FALSE
    [] v.t = "av"   -> \E i \in DOMAIN v.atoms : v.atoms[i].n # 0
    [] OTHER        -> TRUE

\* The number a Field, a Uint, an enum or a Boolean holds.
NumericValue(v) ==
  CASE v.t = "int"  -> v.n
    [] v.t = "bool" -> Number(v.b)
    [] OTHER -> LET av == TypeFree(v)
                IN IF ~Failed(av) /\ Len(av.atoms) = 1 THEN av.atoms[1].n ELSE None

\* The number whose digits are a byte string of at most `len` bytes.
ByteString(v, len) ==
  IF v.t = "av" /\ Len(v.atoms) = 1 /\ v.atoms[1].n < Base ^ len THEN v.atoms[1].n ELSE None

ByteAt(v, len, i) ==
  LET n == ByteString(v, len)
  IN IF n = None \/ i >= len THEN Err ELSE Num((n \div Base ^ i) % Base)

UintValue(n) == IF n > MaxInteger THEN Err ELSE Num(n)

(***************************************************************************)
(* A cast to a Field, a Uint or an enum checks the range; any other only   *)
(* changes the static type.                                                *)
(***************************************************************************)
Cast(v, from, to) ==
  LET source == Resolved(from)
      target == Resolved(to)
      n == IF source.k = "bytes" THEN ByteString(v, source.len) ELSE NumericValue(v)
  IN IF target.k \in {"field", "uint", "enum"} /\ n = None THEN Err
     ELSE CASE target.k = "field" -> IF n < Modulus THEN FieldAv(n) ELSE Err
            [] target.k = "uint"  -> IF n <= target.max THEN UintValue(n) ELSE Err
            [] target.k = "enum"  -> IF n < Len(target.variants) THEN UintValue(n) ELSE Err
            [] OTHER -> v

(***************************************************************************)
(* Element `i` of a value with several: by position, or by the atoms that  *)
(* its declared type gives the element.                                    *)
(***************************************************************************)
IndexedElement(v, ty, i) ==
  LET r == Resolved(ty)
  IN CASE v.t = "tuple" -> IF i < Len(v.es) THEN v.es[i + 1] ELSE Err
       [] v.t = "av" /\ r.k = "bytes" -> ByteAt(v, r.len, i)
       [] v.t = "av" /\ r.k # "bytes" /\ i < ElementCount(r) -> SliceAtoms(v.atoms, ElementRange(r, i))
       [] OTHER -> Err

SliceElements(v, ty, start, len) ==
  LET es == [k \in 1..len |-> IndexedElement(v, ty, start + k - 1)]
  IN IF \E k \in DOMAIN es : Failed(es[k]) THEN Err ELSE Tup(es)

BytesSlice(v, width, start, len) ==
  LET n == ByteString(v, width)
  IN IF n = None \/ start + len > width THEN Err
     ELSE BytesAv((n \div Base ^ start) % Base ^ len, len)

\* The elements a spread splices in: by the type when it is known, else one
\* for every atom.
SpreadElements(v, ty, len) ==
  CASE v.t = "av" /\ ElementCount(ty) = len -> SliceElements(v, ty, 0, len)
    [] v.t = "tuple" -> IF Len(v.es) = len THEN v ELSE Err
    [] v.t = "av" /\ ElementCount(ty) # len -> IF Len(v.atoms) = len THEN Tup([i \in 1..len |-> Av(<<v.atoms[i]>>)]) ELSE Err
    [] OTHER -> Err

VectorToBytes(v, len) ==
  LET es == CASE v.t = "tuple" -> [i \in DOMAIN v.es |-> ValueToU128(v.es[i])]
              [] v.t = "av"    -> [i \in DOMAIN v.atoms |-> v.atoms[i].n]
              [] OTHER         -> <<>>
  IN IF Len(es) # len \/ \E i \in DOMAIN es : es[i] \notin 0..(Base - 1) THEN Err
     ELSE BytesAv(FoldLeft(LAMBDA n, i : n + es[i] * Base ^ (i - 1), 0, [i \in 1..len |-> i]), len)

BytesToVector(v, len) ==
  LET n == ByteString(v, len)
  IN IF n = None THEN Err ELSE Tup([i \in 1..len |-> Av(Atom((n \div Base ^ (i - 1)) % Base, 1))])

FieldToBytes(v, len) ==
  LET n == ValueToFr(v) IN IF n = None THEN Err ELSE BytesAv(n, len)

\* Two values of a type are equal when their atoms are, whatever their widths.
Equal(v, w, ty) ==
  LET l == EncodeTyped(v, ty)
      r == EncodeTyped(w, ty)
  IN IF Failed(l) \/ Failed(r) THEN Err
     ELSE Bool([i \in DOMAIN l.atoms |-> l.atoms[i].n] = [i \in DOMAIN r.atoms |-> r.atoms[i].n])

Compare(v, w, rel) ==
  LET l == ValueToU128(v)
      r == ValueToU128(w)
  IN IF None \in {l, r} THEN Err
     ELSE Bool(CASE rel = "lt" -> l < r [] rel = "le" -> l <= r
                 [] rel = "gt" -> l > r [] rel = "ge" -> l >= r)

Exact(kind, l, r) == CASE kind = "add" -> l + r [] kind = "sub" -> l - r [] kind = "mul" -> l * r

\* A Field wraps at its order; a Uint is exact, or there is no result.
Arith(kind, ty, v, w) ==
  IF Resolved(ty).k = "field"
  THEN IF None \in {ValueToFr(v), ValueToFr(w)} THEN Err
       ELSE FieldAv(Exact(kind, ValueToFr(v), ValueToFr(w)))
  ELSE LET l == ValueToU128(v)
           r == ValueToU128(w)
       IN IF None \in {l, r} \/ (kind = "sub" /\ l < r) THEN Err ELSE UintValue(Exact(kind, l, r))

(***************************************************************************)
(* A field of a struct: by name, or by the atoms the declared type gives   *)
(* it.  Of an Either without that field, a field of the live variant.      *)
(***************************************************************************)
EitherField(ty, atoms, name) ==
  LET left == Truthy(SliceAtoms(atoms, FieldSlice(ty, "is_left")))
      side == IF left THEN "left" ELSE "right"
      variant == Resolved(ty.fields[FieldAt(ty, side)].ty)
  IN IF variant.k = "struct" /\ name \in FieldNames(variant)
     THEN LET outer == FieldSlice(ty, side)
              inner == FieldSlice(variant, name)
          IN SliceAtoms(atoms, [off |-> outer.off + inner.off, len |-> inner.len])
     ELSE Err

FieldOf(v, ty, name) ==
  LET r == Resolved(ty)
  IN CASE v.t = "struct" -> IF name \in DOMAIN v.fs THEN v.fs[name] ELSE Err
       [] v.t = "av" /\ r.k = "struct" ->
            IF name \in FieldNames(r) THEN SliceAtoms(v.atoms, FieldSlice(r, name))
            ELSE IF {"is_left", "left", "right"} \subseteq FieldNames(r)
                 THEN EitherField(r, v.atoms, name) ELSE Err
       [] OTHER -> Err

---------------------------------------------------------------------------
(***************************************************************************)
(* The VM, external: a stack of ledger nodes, its last element the top.    *)
(***************************************************************************)
Null       == [s |-> "null"]
Cell(atoms) == [s |-> "cell", atoms |-> atoms]
Array(es)  == [s |-> "array", es |-> es]
Map(f)     == [s |-> "map", f |-> f]

HasKey(node, key) ==
  CASE node.s = "array" -> Len(key) = 1 /\ key[1].n < Len(node.es)
    [] node.s = "map"   -> key \in DOMAIN node.f
    [] OTHER            -> FALSE
At(node, key) == IF node.s = "array" THEN node.es[key[1].n + 1] ELSE node.f[key]
With(node, key, x) ==
  IF node.s = "array" THEN Array([node.es EXCEPT ![key[1].n + 1] = x])
  ELSE Map([k \in DOMAIN node.f \cup {key} |-> IF k = key THEN x ELSE node.f[k]])

Machine(stack)   == [stack |-> stack, reads |-> <<>>, logs |-> <<>>, ok |-> TRUE]
Top(m, n)        == m.stack[Len(m.stack) - n]
Popped(m, n)     == SubSeq(m.stack, 1, Len(m.stack) - n)
Push(m, n, x)    == [m EXCEPT !.stack = Append(Popped(m, n), x)]
Number64(n)      == Cell(Atom(n, U64Bytes))

\* Follow a path from the top; with `keep`, leave each container and key there.
Follow(m, path, keep) ==
  FoldLeft(LAMBDA a, key :
             IF ~a.ok \/ ~HasKey(Top(a, 0), key) THEN [a EXCEPT !.ok = FALSE]
             ELSE IF keep THEN [a EXCEPT !.stack = a.stack \o <<Cell(key), At(Top(a, 0), key)>>]
             ELSE Push(a, 1, At(Top(a, 0), key)), m, path)

\* Put the top in its container, `n` times.
Insert(m, n) ==
  FoldLeft(LAMBDA a, k : Push(a, 3, With(Top(a, 2), Top(a, 1).atoms, Top(a, 0))),
           m, [k \in 1..n |-> k])

Step(m, o) ==
  IF ~m.ok THEN m ELSE
  CASE o.i = "dup"    -> Push(m, 0, Top(m, o.n))
    [] o.i = "idx"    -> Follow(m, o.path, o.keep)
    [] o.i = "push"   -> Push(m, 0, o.node)
    [] o.i = "ins"    -> Insert(m, o.n)
    [] o.i = "rem"    -> Push(m, 2, Map([k \in DOMAIN Top(m, 1).f \ {Top(m, 0).atoms} |-> Top(m, 1).f[k]]))
    [] o.i = "member" -> Push(m, 2, Cell(Atom(Number(HasKey(Top(m, 1), Top(m, 0).atoms)), 1)))
    [] o.i = "size"   -> Push(m, 1, Number64(Cardinality(DOMAIN Top(m, 0).f)))
    [] o.i = "lt"     -> Push(m, 2, Cell(Atom(Number(Top(m, 1).atoms[1].n < Top(m, 0).atoms[1].n), 1)))
    [] o.i = "eq"     -> Push(m, 2, Cell(Atom(Number(Top(m, 1) = Top(m, 0)), 1)))
    [] o.i = "addi"   -> IF Top(m, 0).atoms[1].n + o.n < Base ^ U64Bytes
                         THEN Push(m, 1, Number64(Top(m, 0).atoms[1].n + o.n)) ELSE [m EXCEPT !.ok = FALSE]
    [] o.i = "subi"   -> IF Top(m, 0).atoms[1].n >= o.n
                         THEN Push(m, 1, Number64(Top(m, 0).atoms[1].n - o.n)) ELSE [m EXCEPT !.ok = FALSE]
    [] o.i = "popeq"  -> IF Top(m, 0).s = "cell"
                         THEN [m EXCEPT !.reads = Append(@, Top(m, 0).atoms), !.stack = Popped(m, 1)]
                         ELSE [m EXCEPT !.ok = FALSE]
    [] o.i = "log"    -> [m EXCEPT !.logs = Append(@, Top(m, 0)), !.stack = Popped(m, 1)]
    [] OTHER          -> [m EXCEPT !.ok = FALSE]

---------------------------------------------------------------------------
(***************************************************************************)
(* Ledger operations: the operands of the instructions are evaluated, in   *)
(* their order, then the VM runs them.                                     *)
(***************************************************************************)
RECURSIVE Eval(_, _)

\* A plausible slip: the encoding in flight, whatever the declared type.
EncodeOperandTypeFree(v, ty) == TypeFree(v)

\* The declared type gives the widths; without one a tuple is refused.
EncodeOperand(v, ty) ==
  CASE v.t \in {"int", "struct", "tuple"} /\ ty # NoType -> EncodeTyped(v, ty)
    [] v.t = "tuple" /\ ty = NoType -> Err
    [] OTHER -> TypeFree(v)

\* The wrappers the ledger language prints around a value have no width.
RECURSIVE Reduced(_)
Reduced(o) == IF o.o \in {"cell", "adt", "value_to_int"} THEN Reduced(o.x) ELSE o

\* Evaluate each item of a sequence in turn and collect the values.
Each(c, items, One(_, _)) ==
  FoldLeft(LAMBDA r, x : Then(r, LAMBDA d, vs :
             Then(One(d, x), LAMBDA d2, v : Done(d2, Tup(Append(vs.es, v))))),
           Done(c, Tup(<<>>)), items)

RECURSIVE OperandAligned(_, _)
OperandAligned(c, operand) ==
  LET o == Reduced(operand)
  IN CASE o.o = "expr"   -> LET ty == InferType(c, o.e)
                            IN Then(Eval(c, o.e), LAMBDA d, v : Done(d, EncodeOperand(v, ty)))
       [] o.o = "align"  -> Done(c, EncodeTyped(Num(o.n), Uint(Base ^ o.width - 1)))
       [] o.o = "num"    -> Done(c, Av(Atom(o.n, U64Bytes)))
       [] o.o = "bool"   -> Done(c, Av(Atom(Number(o.b), 1)))
       [] o.o = "null"   -> Done(c, EncodeTyped(DefaultValue(o.ty), o.ty))
       [] o.o = "concat" -> Then(Each(c, o.xs, OperandAligned), LAMBDA d, vs : Done(d, ConcatAll(vs.es)))
       [] OTHER -> Fail(c)

\* What a push puts on the stack: a container, a marker or a cell.  The default
\* of a container in another one is an empty map.
Node(x) == [t |-> "node", node |-> x]
Nodes(vs) == [i \in DOMAIN vs.es |-> vs.es[i].node]

RECURSIVE PushValue(_, _)
PushEntry(c, x) ==
  Then(OperandAligned(c, x.key), LAMBDA d, k :
    Then(PushValue(d, x.value), LAMBDA d2, v : Done(d2, [t |-> "entry", key |-> k.atoms, node |-> v.node])))

PushValue(c, o) ==
  CASE o.o = "array" -> Then(Each(c, o.xs, PushValue), LAMBDA d, vs : Done(d, Node(Array(Nodes(vs)))))
    [] o.o = "map"   -> Then(Each(c, o.entries, PushEntry), LAMBDA d, vs :
                          Done(d, Node(Map(FoldLeft(LAMBDA f, x : Bound(f, x.key, x.node), <<>>, vs.es)))))
    [] o.o = "adt" /\ o.ty.k = "adt" /\ o.x.o = "expr" /\ o.x.e.op = "default" ->
         IF o.ty.name = "Map" THEN Done(c, Node(Map(<<>>))) ELSE Fail(c)
    [] Reduced(o).o \in {"void", "stack"} -> Done(c, Node(Null))
    [] OTHER -> Then(OperandAligned(c, o), LAMBDA d, v : Done(d, Node(Cell(v.atoms))))

Immediate(c, operand) ==
  LET o == Reduced(operand)
  IN CASE o.o = "num"  -> Done(c, Num(o.n))
       [] o.o = "expr" -> Then(Eval(c, o.e), LAMBDA d, v : IF v.t = "int" THEN Done(d, v) ELSE Fail(d))
       [] OTHER -> Fail(c)

\* The operand an instruction has under a name.
Named(ins, name) ==
  LET found == SelectSeq(ins.args, LAMBDA a : a.name = name)
  IN IF found = <<>> THEN [o |-> "absent"] ELSE found[1].value

FlagOf(ins, name) == Named(ins, name).o = "bool" /\ Named(ins, name).b

\* A number of stack slots or bytes, as a literal or a sum.
RECURSIVE Count(_)
Count(o) ==
  CASE o.o = "num" -> IF o.n < 0 THEN None ELSE o.n
    [] o.o = "add" -> IF None \in {Count(o.l), Count(o.r)} THEN None ELSE Count(o.l) + Count(o.r)
    [] OTHER       -> None

PathKey(c, o) == IF o.o \in {"align", "expr"} THEN OperandAligned(c, o) ELSE Fail(c)

(***************************************************************************)
(* An instruction for the VM.  One that is not implemented is refused, and *)
(* not skipped.  Those on Merkle trees and of the VM's own control flow,   *)
(* and the paths that take a key off the stack, are left out.              *)
(***************************************************************************)
Bare == {"popeq", "rem", "member", "eq", "lt", "size", "log"}
Instruction(x) == [t |-> "instruction", o |-> x]
BuildOp(c, ins) ==
  CASE ins.i = "idx" ->
         LET path == Named(ins, "path")
         IN IF path.o # "list" THEN Fail(c)
            ELSE Then(Each(c, path.xs, PathKey), LAMBDA d, ks :
                   Done(d, Instruction([i |-> "idx", keep |-> FlagOf(ins, "pushPath"),
                                        path |-> [k \in DOMAIN ks.es |-> ks.es[k].atoms]])))
    [] ins.i = "push" -> Then(PushValue(c, Named(ins, "value")), LAMBDA d, v :
                           Done(d, Instruction([i |-> "push", node |-> v.node])))
    [] ins.i \in {"addi", "subi"} -> Then(Immediate(c, Named(ins, "immediate")), LAMBDA d, v :
                           Done(d, Instruction([i |-> ins.i, n |-> v.n])))
    [] ins.i = "ins"  -> IF Count(Named(ins, "n")) = None THEN Fail(c)
                         ELSE Done(c, Instruction([i |-> "ins", n |-> Count(Named(ins, "n"))]))
    [] ins.i = "dup"  -> Done(c, Instruction([i |-> "dup", n |-> Max({0, Count(Named(ins, "n"))})]))
    [] ins.i \in Bare -> Done(c, Instruction([i |-> ins.i]))
    [] OTHER -> Fail(c)

\* The contract's address is the first slot of the context, at the bottom.
Query(c, instructions) ==
  Then(Each(c, instructions, BuildOp), LAMBDA d, built :
    LET ops == [k \in DOMAIN built.es |-> built.es[k].o]
        start == <<Array(<<Cell(Atom(d.address, U128Bytes))>>), Null, d.ledger>>
        m == FoldLeft(Step, Machine(start), ops)
    IN IF ~m.ok THEN Fail(d)
       ELSE Done([d EXCEPT !.ops = @ \o ops, !.reads = @ \o m.reads, !.logs = @ \o m.logs,
                           !.ledger = Top(m, 0)],
                 IF m.reads = <<>> THEN Void ELSE Av(Last(m.reads))))

---------------------------------------------------------------------------
(***************************************************************************)
(* Calls.                                                                  *)
(***************************************************************************)
\* Parameters shadow the locals of the caller, which come back afterwards.
CallCircuit(c, f, values) ==
  IF Len(f.params) # Len(values) THEN Fail(c)
  ELSE LET inner == FoldLeft(LAMBDA d, i : Bind(d, f.params[i].id, values[i], f.params[i].ty),
                             c, [i \in DOMAIN values |-> i])
           r == Eval(inner, f.body)
       IN Done([r.c EXCEPT !.locals = c.locals, !.types = c.types], r.v)

\* The digest of a byte string, external: any function of the bytes.
Digest(n, len) == (3 * n + len) % Base ^ U128Bytes

\* Each argument at its declared type, padded to its width, one after the other.
HashPreimage(values, types) ==
  ConcatAll([i \in DOMAIN values |-> EncodeTyped(values[i], types[i])])

Hash(av) ==
  LET padded == FoldLeft(LAMBDA a, x : [n |-> a.n + x.n * Base ^ a.len,
                                        len |-> a.len + (IF x.w = FieldWidth THEN U128Bytes + 1 ELSE x.w)],
                         [n |-> 0, len |-> 0], av.atoms)
  IN Av(Atom(Digest(padded.n, padded.len), U128Bytes))

PureCall(c, id, values) ==
  LET preimage == HashPreimage(values, Natives[id].params)
  IN IF Failed(preimage) THEN Fail(c) ELSE Done(c, Hash(preimage))

\* An answer joins the private transcript in its type-free encoding.
Answered(c, v) ==
  LET av == TypeFree(v)
  IN IF Failed(av) THEN Fail(c) ELSE Done([c EXCEPT !.private = Append(@, av.atoms)], v)

(***************************************************************************)
(* A witness.  The natives about coins record what the caller must attach  *)
(* to the transaction.  Any other is the provider's, whose answer can      *)
(* depend on the private state that it updates; a name that the provider   *)
(* does not know ends the call.                                            *)
(***************************************************************************)
WitnessCall(c, id, values) ==
  CASE id = "createZswapOutput" ->
         IF Len(values) < 2 THEN Fail(c)
         ELSE Done([c EXCEPT !.outputs = Append(@, SubSeq(values, 1, 2))], Void)
    [] id = "createZswapInput" ->
         IF values = <<>> THEN Fail(c) ELSE Done([c EXCEPT !.inputs = Append(@, values[1])], Void)
    [] id = "ownPublicKey" -> IF OwnKey = None THEN Fail(c) ELSE Answered(c, Av(Atom(OwnKey, U128Bytes)))
    [] OTHER ->
         LET answers == Ask(c.witnesses, id, values, c.private_state)
         IN IF answers = {} THEN Fail(c)
            ELSE LET a == CHOOSE a \in answers : TRUE
                 IN Answered([c EXCEPT !.private_state = a.private_state], a.v)

---------------------------------------------------------------------------
(***************************************************************************)
(* Evaluation, by the form of the expression.                              *)
(***************************************************************************)
\* A plausible slip: the operands are evaluated from the right to the left.
EvalAllReversed(c, es) ==
  Then(Each(c, Reverse(es), Eval), LAMBDA d, vs : Done(d, Tup(Reverse(vs.es))))

\* Operands are evaluated from the left to the right.
EvalAll(c, es) == Each(c, es, Eval)

Operands(c, e, Apply(_, _)) ==
  Then(EvalAll(c, <<e.l, e.r>>), LAMBDA d, vs : Done(d, Apply(vs.es[1], vs.es[2])))

\* An empty tuple is the unit value.
EvalTuple(c, args) ==
  LET Elements(d, arg) ==
        LET ty == InferType(d, arg.e)
        IN Then(Eval(d, arg.e), LAMBDA d2, v :
             Done(d2, IF arg.spread THEN SpreadElements(v, ty, arg.len) ELSE Tup(<<v>>)))
  IN IF args = <<>> THEN Done(c, Void)
     ELSE Then(Each(c, args, Elements), LAMBDA d, parts :
            Done(d, Tup(FlattenSeq([i \in DOMAIN parts.es |-> parts.es[i].es]))))

\* The type inferred for the bound expression, or else the binder's.
EvalLet(c, e) ==
  LET BindOne(r, b) ==
        Then(r, LAMBDA d, u :
          LET ty == InferType(d, b.e)
          IN Then(Eval(d, b.e), LAMBDA d2, v :
               Done(Bind(d2, b.id, v, IF ty = NoType THEN b.ty ELSE ty), Void)))
  IN Then(FoldLeft(BindOne, Done(c, Void), e.bindings), LAMBDA d, u : Eval(d, e.e))

EvalCall(c, e) ==
  Then(EvalAll(c, e.args), LAMBDA d, vs :
    IF e.id \in DOMAIN Circuits     THEN CallCircuit(d, Circuits[e.id], vs.es)
    ELSE IF e.id \in DOMAIN Natives THEN PureCall(d, e.id, vs.es)
    ELSE WitnessCall(d, e.id, vs.es))

LoopArgs(values, args, i) ==
  [k \in DOMAIN args |-> IndexedElement(values[k], args[k].ty, i)]

ArgExprs(args) == [k \in DOMAIN args |-> args[k].e]

\* One element for every iteration.
EvalMap(c, e) ==
  Then(EvalAll(c, ArgExprs(e.args)), LAMBDA d, vs :
    LET Iterate(d2, i) ==
          LET xs == LoopArgs(vs.es, e.args, i)
          IN IF \E k \in DOMAIN xs : Failed(xs[k]) THEN Fail(d2) ELSE CallCircuit(d2, FunOf(e.fun), xs)
    IN Each(d, [i \in 1..e.len |-> i - 1], Iterate))

\* The accumulator is the first argument of the callee.
EvalFold(c, e) ==
  Then(Eval(c, e.init), LAMBDA d, init : Then(EvalAll(d, ArgExprs(e.args)), LAMBDA d2, vs :
    LET Iterate(r, i) ==
          Then(r, LAMBDA d3, acc :
            LET xs == LoopArgs(vs.es, e.args, i)
            IN IF \E k \in DOMAIN xs : Failed(xs[k]) THEN Fail(d3)
               ELSE CallCircuit(d3, FunOf(e.fun), <<acc>> \o xs))
    IN FoldLeft(Iterate, Done(d2, init), [i \in 1..e.len |-> i - 1])))

EvalSeq(c, es) == FoldLeft(LAMBDA r, e : Then(r, LAMBDA d, u : Eval(d, e)), Done(c, Void), es)

\* One operand, and a function of its value.
Unary(c, e, F(_)) == Then(Eval(c, e.e), LAMBDA d, v : Done(d, F(v)))

EvalField(c, e) ==
  LET ty == InferType(c, e.e) IN Unary(c, e, LAMBDA v : FieldOf(v, ty, e.name))

\* What is indexed, then the index.
EvalIndexed(c, e) ==
  Then(EvalAll(c, <<e.e, e.index>>), LAMBDA d, vs :
    LET v == vs.es[1]
        i == ValueToU128(vs.es[2])
    IN IF i = None THEN Fail(d)
       ELSE Done(d, CASE e.op = "vector_ref" -> IndexedElement(v, e.ty, i)
                      [] e.op = "slice"      -> SliceElements(v, e.ty, i, e.len)
                      [] e.op = "bytes_ref"  -> ByteAt(v, Resolved(e.ty).len, i)
                      [] e.op = "bytes_slice" -> BytesSlice(v, Resolved(e.ty).len, i, e.len)))

EvalConversion(c, e) ==
  Unary(c, e, LAMBDA v :
    CASE e.op = "cast"            -> Cast(v, e.from, e.to)
      [] e.op = "to_bytes"        -> FieldToBytes(v, e.len)
      [] e.op = "bytes_to_vector" -> BytesToVector(v, e.len)
      [] e.op = "vector_to_bytes" -> VectorToBytes(v, e.len))

\* The place of a member in its declaration.
EnumIndex(ty, name) ==
  IF ty.k # "enum" THEN Err
  ELSE LET at == {i \in DOMAIN ty.variants : ty.variants[i] = name}
       IN IF at = {} THEN Err ELSE Num(Min(at) - 1)

EvalTupleRef(c, e) ==
  LET ty == InferType(c, e.e) IN Unary(c, e, LAMBDA v : IndexedElement(v, ty, e.i))

Eval(c, e) ==
  CASE e.op = "int"   -> Done(c, IF e.n <= MaxInteger THEN Num(e.n) ELSE FieldAv(e.n))
    [] e.op = "bool"  -> Done(c, Bool(e.b))
    [] e.op = "bytes" -> Done(c, BytesAv(e.n, e.len))
    [] e.op = "var"   -> Done(c, IF e.id \in DOMAIN c.locals THEN c.locals[e.id] ELSE Err)
    [] e.op = "default" -> Done(c, DefaultValue(e.ty))
    [] e.op = "assert" -> Unary(c, e, LAMBDA v : IF Truthy(v) THEN Void ELSE Err)
    [] e.op = "ledger" -> IF e.name = "self" /\ c.address = None THEN Fail(c) ELSE Query(c, e.instructions)
    [] e.op = "emit"   -> Then(Query(c, e.instructions), LAMBDA d, v : Done(d, Void))
    [] e.op = "seq"    -> EvalSeq(c, e.es)
    [] e.op = "return" -> Eval(c, e.e)
    [] e.op = "tuple"  -> EvalTuple(c, e.args)
    [] e.op = "let"    -> EvalLet(c, e)
    [] e.op = "call"   -> EvalCall(c, e)
    [] e.op = "arith"  -> Operands(c, e, LAMBDA l, r : Arith(e.kind, e.ty, l, r))
    [] e.op = "eq"     -> Operands(c, e, LAMBDA l, r : Equal(l, r, e.ty))
    [] e.op = "neq"    -> Operands(c, e, LAMBDA l, r :
                            LET q == Equal(l, r, e.ty) IN IF Failed(q) THEN Err ELSE Bool(~q.b))
    [] e.op \in {"lt", "le", "gt", "ge"} -> Operands(c, e, LAMBDA l, r : Compare(l, r, e.op))
    [] e.op = "if"     -> Then(Eval(c, e.cond), LAMBDA d, v :
                            IF Truthy(v) THEN Eval(d, e.then) ELSE Eval(d, e.else))
    [] e.op \in {"vector_ref", "bytes_ref", "slice", "bytes_slice"} -> EvalIndexed(c, e)
    [] e.op = "tuple_ref"  -> EvalTupleRef(c, e)
    [] e.op = "new"    -> Then(EvalAll(c, e.es), LAMBDA d, vs : Done(d, EncodeTyped(vs, e.ty)))
    [] e.op \in {"cast", "to_bytes", "bytes_to_vector", "vector_to_bytes"} -> EvalConversion(c, e)
    [] e.op = "elt"    -> EvalField(c, e)
    [] e.op = "enum"   -> Done(c, EnumIndex(e.ty, e.name))
    [] e.op = "map"    -> EvalMap(c, e)
    [] e.op = "fold"   -> EvalFold(c, e)
    [] e.op = "contract_call" -> Fail(c)

---------------------------------------------------------------------------
(***************************************************************************)
(* Execution of a circuit: its arguments by name, its body, and its result *)
(* encoded at the declared type.                                           *)
(***************************************************************************)
\* The arguments as the input that a proof binds: each at the declared type of
\* the parameter with its name.
EncodeInput(params, args) ==
  ConcatAll([i \in DOMAIN args |->
    LET declared == SelectSeq(params, LAMBDA p : p.id = args[i].id)
    IN IF declared = <<>> THEN TypeFree(args[i].v) ELSE EncodeTyped(args[i].v, declared[1].ty)])

\* The private state is the provider's at the end, also of an execution that
\* fails.
Execute(circuit, args, ledger, env) ==
  LET known == SelectSeq(circuit.params, LAMBDA p : p.id \in DOMAIN args)
      start == FoldLeft(LAMBDA c, p : Bind(c, p.id, args[p.id], p.ty), Context(ledger, env), known)
      r == Eval(start, circuit.body)
      encoded == IF r.v.t = "void" THEN Av(<<>>) ELSE EncodeTyped(r.v, circuit.result)
  IN IF Failed(r.v) \/ Failed(encoded) THEN [ok |-> FALSE, private_state |-> r.c.private_state]
     ELSE [ok |-> TRUE, value |-> encoded.atoms, result |-> r.v, ledger |-> r.c.ledger, ops |-> r.c.ops,
           reads |-> r.c.reads, private |-> r.c.private, private_state |-> r.c.private_state,
           inputs |-> r.c.inputs, outputs |-> r.c.outputs, logs |-> r.c.logs]

=============================================================================
