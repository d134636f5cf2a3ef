------------------------------ MODULE GoValue ------------------------------
(***************************************************************************)
(* Go values, and the tree Marshal makes of one: reflectEncode and its     *)
(* helpers (reflect.go).                                                   *)
(*                                                                         *)
(* A Go value is a leaf that is a tree value already (a boolean, a number, *)
(* a string, what an interface holds), bytes, a value of a type with a     *)
(* text marshaler, a pointer, a slice or an array with its items, a map    *)
(* with its entries, or a struct with the values of its fields.  Nil is a  *)
(* pointer, a slice, a map or an interface.                                *)
(***************************************************************************)
EXTENDS FieldSet, JtonValue

CONSTANTS
    Base64,         \* the string each byte sequence is encoded to
    EmptyLeaves,    \* the leaves that are zero: 0, false, ""
    FormatKey       \* the string each integer map key is written as

Leaf(v)       == [leaf |-> v]
Bytes(b)      == [bytes |-> b]
Named(v, s)   == [leaf |-> v, marshals |-> s]
Pointer(v)    == [to |-> v]
Nil           == [nil |-> TRUE]
Items(vs)     == [items |-> vs]
Octets(vs)    == [items |-> vs, octets |-> TRUE]    \* an array of bytes
Entries(m)    == [entries |-> m, numbered |-> FALSE]
Numbered(m)   == [entries |-> m, numbered |-> TRUE] \* a map with integer keys
Struct(t, fs) == [struct |-> t, fields |-> fs]

Deref(v) == IF "to" \in DOMAIN v THEN v.to ELSE v

\* A field behind an embedded pointer that is nil.
Absent == [absent |-> TRUE]
-----------------------------------------------------------------------------
\* isEmptyValue
IsEmptyValue(v) ==
    \/ v = Nil
    \/ "leaf" \in DOMAIN v /\ v.leaf \in EmptyLeaves
    \/ "bytes" \in DOMAIN v /\ Base64[v.bytes] = <<>>
    \/ "items" \in DOMAIN v /\ v.items = <<>>
    \/ "entries" \in DOMAIN v /\ DOMAIN v.entries = {}

\* fieldByIndex
FieldByIndex(v, index) ==
    FoldLeft(LAMBDA w, i : IF w \in {Nil, Absent} THEN Absent ELSE Deref(w).fields[i], v, index)

\* mapKeyString
MapKeyString(m, k) == IF m.numbered THEN FormatKey[k] ELSE k

RECURSIVE ReflectEncode(_)

\* encodeStruct, with the fields cachedFields returned.
EncodeStruct(v, fields) ==
    LET kept == SelectSeq(fields, LAMBDA f :
                    LET w == FieldByIndex(v, f.index)
                    IN  w # Absent /\ ~(f.omit /\ IsEmptyValue(w)))
    IN  Obj([i \in DOMAIN kept |->
                [key |-> kept[i].name, val |-> ReflectEncode(FieldByIndex(v, kept[i].index))]])

\* encodeMap.  The order of the keys is some order, as no property is about it.
EncodeMap(m) ==
    Obj(FoldLeft(LAMBDA ms, k : Put(ms, MapKeyString(m, k), ReflectEncode(m.entries[k])),
                 <<>>, SetToSeq(DOMAIN m.entries)))

\* reflectEncode: a marshaler comes first, unless the pointer is nil.
ReflectEncode(v) ==
    CASE v = Nil                  -> Null
      [] "to" \in DOMAIN v        -> ReflectEncode(v.to)
      [] "marshals" \in DOMAIN v  -> Str(v.marshals)
      [] "bytes" \in DOMAIN v     -> Str(Base64[v.bytes])
      [] "octets" \in DOMAIN v    -> Str(Base64[v.items])
      [] "items" \in DOMAIN v /\ "octets" \notin DOMAIN v ->
             List([i \in DOMAIN v.items |-> ReflectEncode(v.items[i])])
      [] "entries" \in DOMAIN v   -> EncodeMap(v)
      [] "struct" \in DOMAIN v    -> EncodeStruct(v, ComputeFields(v.struct))
      [] "leaf" \in DOMAIN v /\ "marshals" \notin DOMAIN v -> v.leaf
=============================================================================
