------------------------------ MODULE Bindings ------------------------------
(***************************************************************************)
(* The typed Rust that is generated for a contract: its types and their    *)
(* conversions, the adapter of typed witnesses, the state to deploy, the   *)
(* views of a ledger, and the ways to run a circuit off the chain.         *)
(*                                                                         *)
(* A typed value is a number, a Boolean or the sequence of its parts.  An  *)
(* operation that can fail yields the set of what it returns, one result   *)
(* or none; an optional result is a sequence of at most one.  The private  *)
(* state travels as a buffer, empty before anything stored one.  Names and *)
(* their collisions, foreign fields, points and opaque values are left     *)
(* out.                                                                    *)
(***************************************************************************)
EXTENDS Artifact, Interpreter

CONSTANTS
  Primitives,         \* the byte widths of the language's unsigned integers
  MaxQueryPathDepth,  \* the most keys of a path that a node accepts
  Method(_, _, _),    \* what the author's witness returns, and its new state
  DefaultState        \* the private state of a contract that stored none

ASSUME BindingsAssumption == Primitives \subseteq Nat \ {0} /\ MaxQueryPathDepth \in Nat

\* One result of each, in order, when all have one.
OneOfEach(sets) == FoldLeft(LAMBDA xs, s : {Append(x, y) : x \in xs, y \in s}, {<<>>}, sets)

---------------------------------------------------------------------------
(***************************************************************************)
(* Types.                                                                  *)
(***************************************************************************)
MaxTupleLen == 11
U64         == Uint(Base ^ U64Bytes - 1)

Bits(n) == CHOOSE b \in 0..n : n < 2 ^ b /\ (b = 0 \/ n >= 2 ^ (b - 1))

\* An integer type of the language, at the width that the compiler gives the
\* bound, or else one of as many bits as the bound has.
UintLayout(max) ==
  LET w == UintByteWidth(max)
      b == Bits(max)
      byte == Bits(Base - 1)
  IN IF w \in Primitives THEN [width |-> w, bound |-> Base ^ w - 1]
     ELSE [width |-> Max({1, (b + byte - 1) \div byte}), bound |-> 2 ^ b - 1]

\* The parts of a type, in the order of its declaration.
Components(ty) ==
  CASE ty.k = "tuple"  -> ty.ts
    [] ty.k = "vector" -> [i \in 1..ty.len |-> ty.ty]
    [] ty.k = "struct" -> FieldTypes(ty)
    [] OTHER           -> <<>>
Compound(ty) == ty.k \in {"tuple", "vector", "struct"}

\* A type and the types in it.
RECURSIVE CollectTypes(_)
CollectTypes(ty) ==
  LET r == Resolved(ty)
  IN {r} \cup UNION {CollectTypes(t) : t \in IF r.k = "vector" THEN {r.ty} ELSE Range(Components(r))}

\* A longer tuple, or a wider integer, does not compile.
Renders(r) == (r.k = "uint" => r.max <= MaxInteger) /\ (r.k = "tuple" => Len(r.ts) <= MaxTupleLen)

LeafWidth(ty) ==
  CASE ty.k \in {"bool", "enum"} -> 1
    [] ty.k = "uint"  -> UintLayout(ty.max).width
    [] ty.k = "bytes" -> ty.len
    [] ty.k = "field" -> FieldWidth

\* Part by part, each at its own width.
RECURSIVE Encode(_, _)
Encode(x, ty) ==
  LET r == Resolved(ty)
      parts == Components(r)
  IN IF Compound(r) THEN FlattenSeq([i \in DOMAIN parts |-> Encode(x[i], parts[i])])
     ELSE Atom(IF r.k = "bool" THEN Number(x) ELSE x, LeafWidth(r))

LeafHolds(n, ty) ==
  CASE ty.k = "bool"  -> n \in {0, 1}
    [] ty.k = "uint"  -> n <= UintLayout(ty.max).bound
    [] ty.k = "enum"  -> n < Len(ty.variants)
    [] ty.k = "bytes" -> n < Base ^ ty.len
    [] ty.k = "field" -> n < Modulus

\* The atoms are divided by the counts of the parts, and none may be left over.
RECURSIVE Decode(_, _)
Decode(atoms, ty) ==
  LET r == Resolved(ty)
      parts == Components(r)
  IN CASE Len(atoms) # AtomCount(r) -> {}
       [] Len(atoms) = AtomCount(r) /\ Compound(r) ->
            OneOfEach([i \in DOMAIN parts |-> Decode(SliceAtoms(atoms, Slice(parts, i)).atoms, parts[i])])
       [] OTHER -> {IF r.k = "bool" THEN n = 1 ELSE n : n \in {m \in {atoms[1].n} : LeafHolds(m, r)}}

---------------------------------------------------------------------------
(***************************************************************************)
(* Between typed values and the values of the interpreter.                 *)
(***************************************************************************)
\* A vector stays a tuple, so that a loop can reach its elements.
RECURSIVE ToValue(_, _)
ToValue(x, ty) ==
  LET r == Resolved(ty)
  IN CASE r.k = "bool"   -> Bool(x)
       [] r.k = "uint"   -> Num(x)
       [] r.k = "vector" -> Tup([i \in DOMAIN x |-> ToValue(x[i], r.ty)])
       [] OTHER          -> Av(Encode(x, r))

\* A Boolean and an integer are only taken out of a value of that very form, and
\* not out of its encoding.
FromValue(v, ty) ==
  LET r == Resolved(ty)
  IN CASE r.k = "bool" -> IF v.t = "bool" THEN {v.b} ELSE {}
       [] r.k = "uint" -> IF v.t = "int" THEN {v.n} \cap 0..UintLayout(r.max).bound ELSE {}
       [] OTHER -> LET av == EncodeTyped(v, r) IN IF Failed(av) THEN {} ELSE Decode(av.atoms, r)

\* The arguments by name, from those of the typed method in their order.
ArgsBinding(params, xs) ==
  [id \in {params[i].id : i \in DOMAIN params} |->
     LET i == CHOOSE i \in DOMAIN params : params[i].id = id IN ToValue(xs[i], params[i].ty)]

IsVoid(ty) == ty.k = "tuple" /\ ty.ts = <<>>

\* The typed result; one of no information is not looked at.
CircuitDecode(circuit, v) == IF IsVoid(circuit.result) THEN {<<>>} ELSE FromValue(v, circuit.result)

(***************************************************************************)
(* The adapter of typed witnesses.  An empty buffer stands for the default *)
(* state, and stays empty when the witness leaves that as it is.           *)
(***************************************************************************)
\* The arguments of the author's method: all that it takes, each at its type.
WitnessArgs(w, values) ==
  IF Len(values) < Len(w.params) THEN {}
  ELSE OneOfEach([i \in DOMAIN w.params |-> FromValue(values[i], w.params[i].ty)])

CallWitness(id, values, buffer) ==
  IF id \notin DOMAIN Witnesses THEN {}
  ELSE LET w == Witnesses[id]
           held == IF buffer = <<>> THEN DefaultState ELSE buffer[1]
           returned == UNION {Method(id, held, xs) : xs \in WitnessArgs(w, values)}
       IN {[v |-> IF IsVoid(w.result) THEN Void ELSE ToValue(r.v, w.result),
            private_state |-> IF r.state = held THEN buffer ELSE <<r.state>>] : r \in returned}

---------------------------------------------------------------------------
(***************************************************************************)
(* The state of a ledger before anything wrote to it.                      *)
(***************************************************************************)
BlankTree(depth) == [s |-> "tree", depth |-> depth]
\* The root of a blank tree, external: any digest of its depth.
BlankRoot(depth) == Atom(Digest(depth, 0), U128Bytes)
ListNode(head, tail, len) == Array(<<head, tail, Number64(len)>>)

InitialNode(f) ==
  CASE f.storage = "Cell" /\ f.element.k = "bool" -> Cell(Encode(FALSE, f.element))
    [] f.storage = "Cell" /\ f.element.k = "uint" -> Cell(Encode(0, f.element))
    [] f.storage = "Cell" /\ f.element.k \notin {"bool", "uint"} ->
         Cell(EncodeTyped(DefaultValue(f.element), f.element).atoms)
    [] f.storage = "Counter" -> Number64(0)
    [] f.storage \in {"Map", "Set"} -> Map(<<>>)
    [] f.storage = "List" -> ListNode(Null, Null, 0)
    [] f.storage = "MerkleTree" -> Array(<<BlankTree(f.depth), Number64(0)>>)
    [] f.storage = "HistoricMerkleTree" ->
         Array(<<BlankTree(f.depth), Number64(0), Map([root \in {BlankRoot(f.depth)} |-> Null])>>)

\* The slots by the first index of their paths, and so on down the paths: every
\* array is full from its first slot, and no field lies on the path of another.
RECURSIVE StateArray(_)
StateArray(slots) ==
  LET firsts == {Head(slots[i].path) : i \in DOMAIN slots}
      below(k) == SelectSeq(slots, LAMBDA s : Head(s.path) = k)
      rest(k) == [i \in DOMAIN below(k) |-> [below(k)[i] EXCEPT !.path = Tail(@)]]
  IN CASE Len(slots) = 1 /\ slots[1].path = <<>> -> {slots[1].node}
       [] Len(slots) > 1 /\ \E i \in DOMAIN slots : slots[i].path = <<>> -> {}
       [] OTHER -> IF firsts # 0..(Cardinality(firsts) - 1) THEN {}
                   ELSE {Array(es) : es \in OneOfEach([k \in 1..Cardinality(firsts) |-> StateArray(rest(k - 1))])}

InitialState(fields) ==
  StateArray([i \in DOMAIN fields |-> [path |-> fields[i].path, node |-> InitialNode(fields[i])]])

\* The types that the code of a field names; that of a tree's elements is none.
FieldTypesNamed(f) ==
  CASE f.storage \in {"Cell", "Set", "List"} -> {f.element}
    [] f.storage = "Map" -> {f.key, f.value}
    [] OTHER -> {}

ParamTypes(params) == {params[i].ty : i \in DOMAIN params}

TypesNamed(info) ==
  UNION {FieldTypesNamed(info.ledger[i]) : i \in DOMAIN info.ledger}
  \cup UNION {{c.def.result} \cup ParamTypes(c.def.params) : c \in Range(info.circuits)}
  \cup UNION {{w.result} \cup ParamTypes(w.params) : w \in Range(info.witnesses)}
  \cup (IF info.constructor.has /\ info.constructor.runs THEN ParamTypes(info.constructor.circuit.params) ELSE {})

\* The bindings of the contract compile.
Compiles(info) ==
  /\ \A ty \in UNION {CollectTypes(t) : t \in TypesNamed(info)} : Renders(ty)
  /\ \A i \in DOMAIN info.ledger : "depth" \in DOMAIN info.ledger[i] => info.ledger[i].depth < Base
  /\ InitialState(info.ledger) # {}

---------------------------------------------------------------------------
(***************************************************************************)
(* Views of a whole state.                                                 *)
(***************************************************************************)
GetField(node, i) == IF node.s = "array" /\ i < Len(node.es) THEN {node.es[i + 1]} ELSE {}

GetFieldPath(node, path) ==
  FoldLeft(LAMBDA nodes, i : UNION {GetField(n, i) : n \in nodes}, {node}, path)

CellAs(node, ty) == IF node.s = "cell" THEN Decode(node.atoms, ty) ELSE {}
MapValueOf(node) == IF node.s = "map" THEN {node.f} ELSE {}

MapGet(map, f, x) ==
  LET key == Encode(x, f.key)
  IN IF key \in DOMAIN map THEN {<<v>> : v \in CellAs(map[key], f.value)} ELSE {<<>>}

\* Every entry, or its error.
MapIter(map, f) == {OneOfEach(<<Decode(key, f.key), CellAs(map[key], f.value)>>) : key \in DOMAIN map}

SetContains(map, f, x) == Encode(x, f.element) \in DOMAIN map
SetIter(map, f)        == {Decode(key, f.element) : key \in DOMAIN map}

ListHead   == 0
ListTail   == 1
ListLength == 2

ListLen(node)      == UNION {CellAs(n, U64) : n \in GetField(node, ListLength)}
HeadOf(node, ty)   == UNION {CellAs(n, ty) : n \in GetField(node, ListHead)}
Tails(node, n)     == GetFieldPath(node, [k \in 1..n |-> ListTail])

\* The element at an index, if the list is longer.
ListGet(node, ty, i) ==
  UNION {IF i >= len THEN {<<>>} ELSE {<<x>> : x \in UNION {HeadOf(n, ty) : n \in Tails(node, i)}}
         : len \in ListLen(node)}

\* The elements in turn, up to the first error.
ListIter(node, ty, len) ==
  LET Next1(a, k) ==
        IF a.next = <<>> THEN a
        ELSE LET head == UNION {HeadOf(n, ty) : n \in a.next[1]}
             IN [items |-> Append(a.items, head),
                 next |-> IF head = {} THEN <<>> ELSE <<UNION {GetField(n, ListTail) : n \in a.next[1]}>>]
  IN FoldLeft(Next1, [items |-> <<>>, next |-> <<{node}>>], [k \in 1..len |-> k]).items

TreeView(node) ==
  {[height |-> tree.depth, first_free |-> free]
     : tree \in {t \in GetField(node, 0) : t.s = "tree"}, free \in UNION {CellAs(n, U64) : n \in GetField(node, 1)}}

\* What the accessor of a field yields: a value, or a container, here on some keys
\* and whole.
FieldAccessor(state, f, keys) ==
  LET nodes == GetFieldPath(state, f.path)
      map == UNION {MapValueOf(n) : n \in nodes}
  IN CASE f.storage = "Cell"    -> [value |-> UNION {CellAs(n, f.element) : n \in nodes}]
       [] f.storage = "Counter" -> [value |-> UNION {CellAs(n, U64) : n \in nodes}]
       [] f.storage = "Map"     -> [at |-> [x \in keys |-> UNION {MapGet(m, f, x) : m \in map}],
                                    iter |-> UNION {MapIter(m, f) : m \in map}]
       [] f.storage = "Set"     -> [at |-> [x \in keys |-> {SetContains(m, f, x) : m \in map}],
                                    iter |-> UNION {SetIter(m, f) : m \in map}]

---------------------------------------------------------------------------
(***************************************************************************)
(* Views that ask a node for one path at a time.                           *)
(***************************************************************************)
\* An index as a key of a byte, and a path of indices.
QueryKey(i)            == Atom(i, 1)
BuildQueryPath(path)   == [k \in DOMAIN path |-> QueryKey(path[k])]
ListLengthPath(path)   == BuildQueryPath(Append(path, ListLength))
Repeated(i, n)         == [k \in 1..n |-> i]

\* The path to an element, or to the deepest node before it that a node accepts
\* and how far the element is from there.
ListElementPath(path, i) ==
  LET tails == Max({0, MaxQueryPathDepth - Len(path)})
  IN IF i < tails
     THEN [path |-> BuildQueryPath(path \o Repeated(ListTail, i) \o <<ListHead>>), tails_left |-> None]
     ELSE [path |-> BuildQueryPath(path \o Repeated(ListTail, tails)), tails_left |-> i - tails]

(***************************************************************************)
(* The node, external: it refuses a call with a path that is too long; a   *)
(* key that a map does not have is no value, and another dead end an error.*)
(***************************************************************************)
Answer(node) == [a |-> "value", node |-> node]
NoValue     == [a |-> "none"]
QueryError  == [a |-> "error"]

Ask1(state, path) ==
  FoldLeft(LAMBDA a, key : CASE a.a # "value" -> QueryError
                             [] a.a = "value" /\ HasKey(a.node, key) -> Answer(At(a.node, key))
                             [] OTHER -> IF a.node.s = "map" THEN NoValue ELSE QueryError,
           Answer(state), path)

QueryContractState(state, paths) ==
  IF \E i \in DOMAIN paths : Len(paths[i]) > MaxQueryPathDepth THEN {}
  ELSE {[i \in DOMAIN paths |-> Ask1(state, paths[i])]}

DecodeStateValue(answer) == IF answer.a = "value" THEN {answer.node} ELSE {}

LazyCell(state, path, ty) ==
  UNION {UNION {CellAs(n, ty) : n \in DecodeStateValue(as[1])}
         : as \in QueryContractState(state, <<BuildQueryPath(path)>>)}

LazyMap(state, f, x) ==
  UNION {IF as[1] = NoValue THEN {<<>>}
         ELSE {<<v>> : v \in UNION {CellAs(n, f.value) : n \in DecodeStateValue(as[1])}}
         : as \in QueryContractState(state, <<Append(BuildQueryPath(f.path), Encode(x, f.key))>>)}

LazySet(state, f, x) ==
  UNION {IF as[1] = NoValue THEN {FALSE} ELSE {TRUE : n \in DecodeStateValue(as[1])}
         : as \in QueryContractState(state, <<Append(BuildQueryPath(f.path), Encode(x, f.element))>>)}

\* The length and the element, in one call and so out of one state.
LazyList(state, f, i) ==
  LET to == ListElementPath(f.path, i)
      Element1(node) ==
        IF to.tails_left = None THEN {<<x>> : x \in CellAs(node, f.element)}
        ELSE ListGet(node, f.element, to.tails_left) \ {<<>>}
  IN UNION {UNION {IF i >= len THEN {<<>>} ELSE UNION {Element1(n) : n \in DecodeStateValue(as[2])}
                   : len \in UNION {CellAs(n, U64) : n \in DecodeStateValue(as[1])}}
            : as \in QueryContractState(state, <<ListLengthPath(f.path), to.path>>)}

LazyFieldAccessor(state, f, keys) ==
  CASE f.storage = "Cell"    -> [value |-> LazyCell(state, f.path, f.element)]
    [] f.storage = "Counter" -> [value |-> LazyCell(state, f.path, U64)]
    [] f.storage = "Map"     -> [at |-> [x \in keys |-> LazyMap(state, f, x)]]
    [] f.storage = "Set"     -> [at |-> [x \in keys |-> LazySet(state, f, x)]]

---------------------------------------------------------------------------
(***************************************************************************)
(* Running a circuit off the chain.                                        *)
(***************************************************************************)
\* With no witnesses, every name is unknown.
NoWitnesses == "none"

\* Pure circuits touch no state, so any will do.
RunPure(circuit, args) ==
  LET o == Execute(circuit, args, Null, [address |-> None, witnesses |-> NoWitnesses, private_state |-> <<>>])
  IN IF o.ok THEN {o.result} ELSE {}

PureCircuit(circuit, xs) ==
  LET values == RunPure(circuit, ArgsBinding(circuit.params, xs))
  IN UNION {CircuitDecode(circuit, v) : v \in values}

Runner(state) == [state |-> state, private_state |-> <<>>, witnesses |-> NoWitnesses, address |-> None]
WithWitnesses(r, provider) == [r EXCEPT !.witnesses = provider]
SetAddress(r, address)     == [r EXCEPT !.address = address]

\* The witnesses run on a copy of the private state: only a run that succeeds
\* leaves the runner with it, and with the new state.
RunAt(r, address, circuit, args) ==
  LET o == Execute(circuit, args, r.state,
                   [address |-> address, witnesses |-> r.witnesses, private_state |-> r.private_state])
  IN [o |-> o, r |-> IF o.ok THEN [r EXCEPT !.state = o.ledger, !.private_state = o.private_state] ELSE r]

\* A call of the typed simulator.  The result is read after the run, so that a
\* result it cannot read is an error of a call that was kept.
SimulatorCall(r, circuit, xs) ==
  LET ran == RunAt(r, r.address, circuit, ArgsBinding(circuit.params, xs))
  IN ran @@ [result |-> IF ran.o.ok THEN CircuitDecode(circuit, ran.o.result) ELSE {}]

\* The constructor runs before the contract has an address.
RunConstructor(r, c, xs) == LET args == ArgsBinding(c.params, xs) IN RunAt(r, None, c, args)

---------------------------------------------------------------------------
(***************************************************************************)
(* The state that a deploy deploys.                                        *)
(***************************************************************************)
\* What the builder of a deploy starts from: a state, or a constructor and the
\* state it runs on, or, when the constructor cannot run, neither.
DeployBuilder(info) ==
  [initial_state |-> IF info.constructor.has THEN {} ELSE InitialState(info.ledger),
   constructor |-> IF info.constructor.has /\ info.constructor.runs
                   THEN {[circuit |-> info.constructor.circuit, state |-> s] : s \in InitialState(info.ledger)} ELSE {},
   args |-> <<>>, witnesses |-> NoWitnesses, private_state |-> <<>>]

WithInitialState(b, state)    == [b EXCEPT !.initial_state = {state}]
WithConstructorArgs(b, params, xs) == [b EXCEPT !.args = ArgsBinding(params, xs)]
WithTypedWitnesses(b, provider, private_state) ==
  [b EXCEPT !.witnesses = provider, !.private_state = private_state]

CheckArgs(c, args) == \A i \in DOMAIN c.circuit.params : c.circuit.params[i].id \in DOMAIN args

\* A deploy carries a state and no coins; other effects are left out.
RefuseEffects(o) == o.inputs = <<>> /\ o.outputs = <<>>

ConstructorRun(c, b) ==
  LET o == Execute(c.circuit, b.args, c.state,
                   [address |-> None, witnesses |-> b.witnesses, private_state |-> b.private_state])
  IN IF o.ok /\ RefuseEffects(o) THEN {[state |-> o.ledger, private_state |-> o.private_state]} ELSE {}

\* A state that was set skips the constructor.
StateToDeploy(b) ==
  LET runs == {c \in b.constructor : CheckArgs(c, b.args)}
  IN IF b.initial_state # {} THEN {[state |-> s, private_state |-> b.private_state] : s \in b.initial_state}
     ELSE UNION {ConstructorRun(c, b) : c \in runs}

=============================================================================
