---------------------------- MODULE CompactTypes ----------------------------
(***************************************************************************)
(* The values of a circuit and their encoding on the chain: a sequence of  *)
(* atoms, each a number and the width it is aligned to.  Two encodings of  *)
(* one number at two widths are different ledger keys and hash apart, so   *)
(* the width of every atom comes from the declared type.                   *)
(*                                                                         *)
(* A byte is a digit to the base Base and a byte string the number whose   *)
(* digits, the least significant first, are its bytes.  Foreign fields,    *)
(* curve points and opaque values, whose contents are cryptographic, are   *)
(* left out.                                                               *)
(***************************************************************************)
EXTENDS Integers, SequencesExt

CONSTANTS
  Base,        \* the number of values of a byte
  U64Bytes,    \* the width an integer takes when no type is known
  U128Bytes,   \* the width of the largest integer
  Modulus      \* the order of the field

ASSUME CompactTypesAssumption ==
  /\ Base \in Nat \ {0, 1} /\ U64Bytes \in Nat \ {0}
  /\ U128Bytes \in Nat /\ U128Bytes > U64Bytes
  /\ Modulus \in Nat /\ Modulus > Base ^ U128Bytes

MaxInteger == Base ^ U128Bytes - 1

---------------------------------------------------------------------------
(***************************************************************************)
(* Values.  An integer holds no width; an aligned value is encoded         *)
(* already; a struct names its fields.                                     *)
(***************************************************************************)
Void       == [t |-> "void"]
Err        == [t |-> "err"]
Bool(b)    == [t |-> "bool", b |-> b]
Num(n)     == [t |-> "int", n |-> n]
Av(atoms)  == [t |-> "av", atoms |-> atoms]
Tup(es)    == [t |-> "tuple", es |-> es]
Struct(fs) == [t |-> "struct", fs |-> fs]

Failed(v) == v.t = "err"

FieldWidth   == 0
Atom(n, w)   == <<[n |-> n, w |-> w]>>
FieldAv(n)   == Av(Atom(n % Modulus, FieldWidth))
Number(b)    == IF b THEN 1 ELSE 0
None         == -1

---------------------------------------------------------------------------
(***************************************************************************)
(* Types.  A struct is its fields in the order of its declaration.         *)
(***************************************************************************)
Boolean        == [k |-> "bool"]
Field          == [k |-> "field"]
Uint(max)      == [k |-> "uint", max |-> max]
Bytes(len)     == [k |-> "bytes", len |-> len]
Enum(variants) == [k |-> "enum", variants |-> variants]
Tuple(ts)      == [k |-> "tuple", ts |-> ts]
Vector(len, t) == [k |-> "vector", len |-> len, ty |-> t]
Record(fields) == [k |-> "struct", fields |-> fields]
Alias(t)       == [k |-> "alias", ty |-> t]
NoType         == [k |-> "none"]
Unit           == Tuple(<<>>)
ByteType       == Uint(Base - 1)

RECURSIVE Resolved(_)
Resolved(ty) == IF ty.k = "alias" THEN Resolved(ty.ty) ELSE ty

FieldTypes(ty) == [i \in DOMAIN ty.fields |-> ty.fields[i].ty]
FieldNames(ty) == {ty.fields[i].name : i \in DOMAIN ty.fields}
FieldAt(ty, name) == CHOOSE i \in DOMAIN ty.fields : ty.fields[i].name = name

\* The fewest bytes that hold the bound, and one for a bound of zero.
UintByteWidth(max) ==
  CHOOSE w \in 1..(max + 1) : max < Base ^ w /\ (w = 1 \/ max >= Base ^ (w - 1))

(***************************************************************************)
(* How many atoms a type takes, and which of them an element or a field    *)
(* does, as an offset and a length.                                        *)
(***************************************************************************)
RECURSIVE AtomCount(_)
AtomsOf(ts) == FoldLeft(LAMBDA n, ty : n + AtomCount(ty), 0, ts)
AtomCount(ty) ==
  CASE ty.k = "tuple"  -> AtomsOf(ty.ts)
    [] ty.k = "vector" -> ty.len * AtomCount(ty.ty)
    [] ty.k = "struct" -> AtomsOf(FieldTypes(ty))
    [] ty.k = "alias"  -> AtomCount(ty.ty)
    [] OTHER           -> 1

Slice(ts, i) == [off |-> AtomsOf(SubSeq(ts, 1, i - 1)), len |-> AtomCount(ts[i])]

FieldSlice(ty, name) == Slice(FieldTypes(ty), FieldAt(ty, name))

\* The elements of a tuple or a vector, from 0; of any other type none.
ElementCount(ty) ==
  LET r == Resolved(ty)
  IN CASE r.k = "vector" -> r.len [] r.k = "tuple" -> Len(r.ts) [] OTHER -> None

ElementTypeAt(ty, i) ==
  LET r == Resolved(ty)
  IN CASE r.k = "vector" -> r.ty
       [] r.k = "tuple" -> IF i \in 0..(Len(r.ts) - 1) THEN r.ts[i + 1] ELSE NoType
       [] OTHER -> NoType

\* A plausible slip: every element starts at its index times the width of the first.
ElementRangeStride(ty, i) ==
  LET w == AtomCount(ElementTypeAt(ty, 0)) IN [off |-> i * w, len |-> w]

ElementRange(ty, i) ==
  LET r == Resolved(ty)
  IN IF r.k = "vector" THEN [off |-> i * AtomCount(r.ty), len |-> AtomCount(r.ty)]
                       ELSE Slice(r.ts, i + 1)

SliceAtoms(atoms, s) ==
  IF s.off + s.len <= Len(atoms) THEN Av(SubSeq(atoms, s.off + 1, s.off + s.len)) ELSE Err

---------------------------------------------------------------------------
(***************************************************************************)
(* Numbers out of values.  None is no number.                              *)
(***************************************************************************)
ValueToU128(v) ==
  CASE v.t = "int"  -> v.n
    [] v.t = "bool" -> Number(v.b)
    [] v.t = "av"   -> IF v.atoms # <<>> /\ v.atoms[1].n <= MaxInteger THEN v.atoms[1].n ELSE None
    [] OTHER        -> None

ValueToFr(v) ==
  CASE v.t = "int" -> v.n
    [] v.t = "av"  -> IF Len(v.atoms) = 1 THEN v.atoms[1].n ELSE None
    [] OTHER       -> None

BytesAv(n, len) == IF n < Base ^ len THEN Av(Atom(n, len)) ELSE Err

\* Encodings in a row, if every one succeeded.
ConcatAll(parts) ==
  IF \E i \in DOMAIN parts : Failed(parts[i]) THEN Err
  ELSE Av(FlattenSeq([i \in DOMAIN parts |-> parts[i].atoms]))

(***************************************************************************)
(* The encoding of a value of no known type.  A struct has none.           *)
(***************************************************************************)
RECURSIVE TypeFree(_)
TypeFree(v) ==
  CASE v.t = "int"   -> Av(Atom(v.n, IF v.n < Base ^ U64Bytes THEN U64Bytes ELSE U128Bytes))
    [] v.t = "bool"  -> Av(Atom(Number(v.b), 1))
    [] v.t = "void"  -> Av(<<>>)
    [] v.t = "av"    -> v
    [] v.t = "tuple" -> ConcatAll([i \in DOMAIN v.es |-> TypeFree(v.es[i])])
    [] OTHER         -> Err

(***************************************************************************)
(* The encoding of a value at a declared type.  A value that is encoded    *)
(* already keeps its widths, but for a byte string and a number.           *)
(***************************************************************************)
EncodeUint(n, max) ==
  IF n = None \/ n > max THEN Err ELSE Av(Atom(n, UintByteWidth(max)))

EncodeBytes(v, len) ==
  CASE v.t = "av"   -> Av([v.atoms EXCEPT ![1].w = len])
    [] v.t = "void" -> BytesAv(0, len)
    [] OTHER        -> Err

RECURSIVE EncodeTyped(_, _)
EncodeEach(vs, ts) ==
  IF Len(vs) # Len(ts) THEN Err
  ELSE ConcatAll([i \in DOMAIN ts |-> EncodeTyped(vs[i], ts[i])])

\* Fields by name, or in the order of the declaration.
EncodeStruct(v, ty) ==
  CASE v.t = "struct" ->
         IF DOMAIN v.fs = FieldNames(ty)
         THEN EncodeEach([i \in DOMAIN ty.fields |-> v.fs[ty.fields[i].name]], FieldTypes(ty))
         ELSE Err
    [] v.t = "tuple" -> EncodeEach(v.es, FieldTypes(ty))
    [] OTHER         -> Err

EncodeTyped(v, ty) ==
  CASE ty.k = "bool"  -> LET n == ValueToU128(v)
                         IN IF n = None THEN Err ELSE Av(Atom(Number(n # 0), 1))
    [] ty.k = "uint"  -> EncodeUint(ValueToU128(v), ty.max)
    [] ty.k = "bytes" -> EncodeBytes(v, ty.len)
    [] ty.k = "alias" -> EncodeTyped(v, ty.ty)
    [] ty.k \notin {"bool", "uint", "bytes", "alias"} /\ v.t = "av" -> v
    [] ty.k = "field" /\ v.t = "int"  -> FieldAv(v.n)
    [] ty.k = "enum" /\ v.t = "int"   -> EncodeUint(v.n, Base - 1)
    [] ty.k = "tuple" /\ v.t = "void" /\ ty.ts = <<>> -> Av(<<>>)
    [] ty.k = "tuple" /\ v.t = "tuple"  -> EncodeEach(v.es, ty.ts)
    [] ty.k = "vector" /\ v.t = "tuple" -> EncodeEach(v.es, [i \in 1..ty.len |-> ty.ty])
    [] ty.k = "struct" /\ v.t \in {"struct", "tuple"} -> EncodeStruct(v, ty)
    [] OTHER -> Err

(***************************************************************************)
(* The value of default<T>.                                                *)
(***************************************************************************)
RECURSIVE DefaultValue(_)
Defaults(ts) == Tup([i \in DOMAIN ts |-> DefaultValue(ts[i])])
DefaultValue(ty) ==
  CASE ty.k = "bool"            -> Bool(FALSE)
    [] ty.k \in {"uint", "enum"} -> Num(0)
    [] ty.k = "field"           -> FieldAv(0)
    [] ty.k = "bytes"           -> BytesAv(0, ty.len)
    [] ty.k = "struct"          -> EncodeTyped(Defaults(FieldTypes(ty)), ty)
    [] ty.k = "tuple"           -> IF ty.ts = <<>> THEN Void ELSE Defaults(ty.ts)
    [] ty.k = "vector"          -> Defaults([i \in 1..ty.len |-> ty.ty])
    [] ty.k = "alias"           -> DefaultValue(ty.ty)

=============================================================================
