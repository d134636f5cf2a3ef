----------------------------- MODULE ProtoCodec -----------------------------
(***************************************************************************)
(* The codec protoc-gen-jton generates for a message type                  *)
(* (protojton/internal/generator/generator.go, and the output kept in      *)
(* protojton/internal/testpb/test.pb.jton.go), and the calls of            *)
(* protojton/runtime.go on top of it.  It writes and reads value trees;    *)
(* of their text, the subject of ZenWriter and ZenParser, there is here    *)
(* what the options forwarded to the core make Parse read differently.     *)
(*                                                                         *)
(* A field has a name, a JSON name, a shape (scalar, optional, message,    *)
(* list, map, oneof) and a type: a scalar kind or a message type; a map    *)
(* field has the kind of its keys, a member of a oneof its oneof's name.   *)
(* A message is a function from its slots, one for each field and one for  *)
(* each oneof, to their values.                                            *)
(***************************************************************************)
EXTENDS NumericCoercion, SequencesExt

CONSTANTS
    Messages,       \* the fields of every message type, in order
    Narrow,         \* bits of the 32-bit kinds; Word of the 64-bit ones
    Cpu,            \* what the program runs on
    EnumValue,      \* <Enum>_value: the number of each name
    EnumName,       \* <Enum>_name: a name of each known number
    Base64,         \* the string each byte slice is encoded to
    ParseInt,       \* strconv.ParseInt on the key texts it accepts
    FormatInt,      \* strconv.FormatInt
    Hyphenated      \* the identifiers with a hyphen or a $ in them

\* A string is an atom here: an identifier among Literals, FalseStarts (which
\* begin like a literal and are none) and Hyphenated, or any other, which an
\* unquoted key or cell is read as.  None has a semicolon in it.

\* MarshalOptions.JTON (runtime.go), as far as a message's text depends on it.
\* No cell of a message is null, so implicit nulls change nothing; nor do the
\* delimiter and the row count, in what is read.  A table that is not compact
\* is indented or multi-line.
JTONOptions == [noZenGrid : BOOLEAN, unquotedKeys : BOOLEAN, bareStrings : BOOLEAN,
                layout : {"compact", "indented", "multiline"}]

IsMessage(type) == type \in DOMAIN Messages
Slot(f)  == IF f.shape = "oneof" THEN f.oneof ELSE f.name
Slots(t) == {Slot(f) : f \in Range(Messages[t])}

Unset == [unset |-> TRUE]
BytesOf(b) == [bytes |-> b]

\* The zero value of a Go field.
ZeroScalar(kind) ==
    CASE kind = "bool"   -> Lit("false")
      [] kind = "string" -> Str("")
      [] kind = "bytes"  -> BytesOf("")
      [] kind = "double" -> FloatNum(0)
      [] kind \in {"int32", "int64", "uint32", "uint64", "enum"} -> IntNum(0)
ZeroField(f) ==
    CASE f.shape = "scalar" -> ZeroScalar(f.type)
      [] f.shape \in {"list", "map"} -> <<>>
      [] f.shape \in {"optional", "message", "oneof"} -> Unset
ZeroMessage(t) ==
    [s \in Slots(t) |-> ZeroField(CHOOSE f \in Range(Messages[t]) : Slot(f) = s)]
-----------------------------------------------------------------------------
\* Marshalling.

\* emitWriteKind
ScalarTree(v, kind, o) ==
    CASE kind = "bytes" -> Str(Base64[v.bytes])
      [] kind = "enum" /\ ~o.enumsAsInts /\ v.num.n \in DOMAIN EnumName -> Str(EnumName[v.num.n])
      [] OTHER -> v

\* nonZero
NonZero(f, v) == v # ZeroScalar(f.type)

\* nameExpr, PickName
PickName(f, o) == IF o.useJSONNames THEN f.json ELSE f.name

\* Mutant: with OmitDefaults, explicit presence is not looked at.
Written_ByValue(f, v, o) ==
    CASE f.shape \in {"scalar", "optional"} ->
             v # Unset /\ (o.omitDefaults => NonZero(f, v))
      [] f.shape \in {"list", "map"} -> o.omitDefaults => v # <<>>
      [] f.shape = "message" -> v # Unset
      [] f.shape = "oneof"   -> v # Unset /\ v.field = f.name

\* genFieldMarshal: whether the field is written at all.
Written(f, v, o) ==
    CASE f.shape = "scalar" -> o.omitDefaults => NonZero(f, v)
      [] f.shape \in {"list", "map"} -> o.omitDefaults => v # <<>>
      [] f.shape \in {"optional", "message"} -> v # Unset
      [] f.shape = "oneof"  -> v # Unset /\ v.field = f.name

RECURSIVE ObjectTree(_, _, _)
ElementTree(f, v, o) ==
    IF IsMessage(f.type) THEN ObjectTree(f.type, v, o) ELSE ScalarTree(v, f.type, o)

\* genMapMarshal, its keys in some order.
KeyText(f, k) == IF f.key = "string" THEN k ELSE FormatInt[k]
MapTree(f, v, o) ==
    LET ks == SetToSeq(DOMAIN v) IN
    Obj([i \in DOMAIN ks |-> [key |-> KeyText(f, ks[i]), val |-> ElementTree(f, v[ks[i]], o)]])

FieldTree(f, v, o) ==
    CASE f.shape = "list"  -> List([i \in DOMAIN v |-> ElementTree(f, v[i], o)])
      [] f.shape = "map"   -> MapTree(f, v, o)
      [] f.shape = "oneof" -> ElementTree(f, v.value, o)
      [] OTHER             -> ElementTree(f, v, o)

\* MarshalJTONObject
ObjectTree(t, m, o) ==
    LET fs == SelectSeq(Messages[t], LAMBDA f : Written(f, m[Slot(f)], o)) IN
    Obj([i \in DOMAIN fs |->
            [key |-> PickName(fs[i], o), val |-> FieldTree(fs[i], m[Slot(fs[i])], o)]])

\* tableEligible
TableEligible(t) ==
    Messages[t] # <<>> /\ \A f \in Range(Messages[t]) : f.shape = "scalar"

\* Mutant: the cells of default values are left out.
TableCells_NonZero(t, m, o) ==
    LET fs == SelectSeq(Messages[t], LAMBDA f : NonZero(f, m[f.name]))
    IN  [i \in DOMAIN fs |-> ScalarTree(m[fs[i].name], fs[i].type, o)]

\* JTONTableHeaders and MarshalJTONCells.
TableHeaders(t, o) == [i \in DOMAIN Messages[t] |-> PickName(Messages[t][i], o)]
TableCells(t, m, o) ==
    [i \in DOMAIN Messages[t] |->
        ScalarTree(m[Messages[t][i].name], Messages[t][i].type, o)]

\* Mutant: a table, if the last message is of a table's type.
WrittenList_Last(ms, o) ==
    IF Len(ms) >= 2 /\ ~o.JTON.noZenGrid /\ TableEligible(Last(ms).type)
    THEN [headers |-> TableHeaders(Last(ms).type, o),
          rows |-> [i \in DOMAIN ms |-> TableCells(ms[i].type, ms[i].m, o)]]
    ELSE List([i \in DOMAIN ms |-> ObjectTree(ms[i].type, ms[i].m, o)])

\* MarshalList, of messages that need not have one type: a Zen Grid when the
\* first is of a table's type, an array of objects otherwise.  A message of
\* another kind of type in a table is a failed type assertion.
Panics == [panics |-> TRUE]
WrittenList(ms, o) ==
    IF Len(ms) >= 2 /\ ~o.JTON.noZenGrid /\ TableEligible(ms[1].type)
    THEN IF \A i \in DOMAIN ms : TableEligible(ms[i].type)
         THEN [headers |-> TableHeaders(ms[1].type, o),
               rows |-> [i \in DOMAIN ms |-> TableCells(ms[i].type, ms[i].m, o)]]
         ELSE Panics
    ELSE List([i \in DOMAIN ms |-> ObjectTree(ms[i].type, ms[i].m, o)])
-----------------------------------------------------------------------------
\* What Parse makes of it.
Rejected == [rejected |-> TRUE]

\* Field, writeKey and parseKey: a key with a hyphen is written bare, if keys
\* are, and not accepted.
RECURSIVE KeysRead(_, _)
KeysRead(d, o) ==
    CASE IsObj(d)  -> \A x \in Range(d.obj) :
                         /\ o.JTON.unquotedKeys => x.key \notin Hyphenated
                         /\ KeysRead(x.val, o)
      [] IsList(d) -> \A x \in Range(d.list) : KeysRead(x, o)
      [] OTHER     -> TRUE
Reparsed(d, o) == IF KeysRead(d, o) THEN d ELSE Rejected

\* Cells.String and parseCellValue: a bare cell is what it begins like.
ReparsedCell(c, o) ==
    CASE IsStr(c) /\ o.JTON.bareStrings /\ c.str \in Literals    -> Lit(c.str)
      [] IsStr(c) /\ o.JTON.bareStrings /\ c.str \in FalseStarts -> Rejected
      [] OTHER -> c

\* A row: an absent cell is null, and there may be none too many.
ReparsedRow(hs, cs, o) ==
    Obj([i \in DOMAIN hs |->
            [key |-> hs[i], val |-> IF i \in DOMAIN cs THEN ReparsedCell(cs[i], o) ELSE Null]])

\* writeZenFrame: only the compact table is one Parse reads.  Of the indented
\* one it takes all rows for headers, of the multi-line one the row count for
\* an array.
TableReads(w, o) ==
    /\ o.JTON.layout = "compact"
    /\ \A i \in DOMAIN w.rows :
          /\ Len(w.rows[i]) <= Len(w.headers)
          /\ \A c \in Range(w.rows[i]) : ReparsedCell(c, o) # Rejected
ReparsedList(w, o) ==
    IF w = Panics \/ IsList(w) THEN Reparsed(w, o)
    ELSE IF TableReads(w, o)
         THEN List([i \in DOMAIN w.rows |-> ReparsedRow(w.headers, w.rows[i], o)])
         ELSE Rejected
-----------------------------------------------------------------------------
\* Unmarshalling.  A result is the value reached, and whether there was an error.
Read(v)    == [v |-> v, ok |-> TRUE]
Stopped(v) == [v |-> v, ok |-> FALSE]

\* AsEnum
AsNumber(r) == IF r.ok THEN Got(IntNum(r.n)) ELSE Failed
AsEnum(d) ==
    IF IsStr(d) THEN OnlyIf(d.str \in DOMAIN EnumValue, IntNum(EnumValue[d.str]))
    ELSE AsNumber(AsInt(d, Narrow, Cpu))

\* emitDecodeKind
AsScalar(d, kind) ==
    CASE kind = "bool"   -> OnlyIf(d \in {Lit("true"), Lit("false")}, d)
      [] kind = "string" -> OnlyIf(IsStr(d), d)
      [] kind = "bytes"  -> LET bs == {b \in DOMAIN Base64 : Str(Base64[b]) = d}
                            IN  OnlyIf(bs # {}, BytesOf(CHOOSE b \in bs : TRUE))
      [] kind = "int32"  -> AsNumber(AsInt(d, Narrow, Cpu))
      [] kind = "int64"  -> AsNumber(AsInt(d, Word, Cpu))
      [] kind = "uint32" -> AsNumber(AsUint(d, Narrow, Cpu))
      [] kind = "uint64" -> AsNumber(AsUint(d, Word, Cpu))
      [] kind = "double" -> AsFloat(d)
      [] kind = "enum"   -> AsEnum(d)

\* Step on every element of xs in turn, until one fails.
Through(xs, start, Step(_, _)) ==
    FoldLeft(LAMBDA acc, x : IF acc.ok THEN Step(acc.v, x) ELSE acc, Read(start), xs)

\* What is made of the result e of reading a part: appended to a list, put in the
\* place of a value, chosen in a oneof, stored in a message's slot, or entered in
\* a map.  A part that could not be read leaves things as they are, but for a
\* slot, which has what the failed part left.
AsResult(r)      == [v |-> r.n, ok |-> r.ok]
Appended(w, e)   == IF e.ok THEN Read(Append(w, e.v)) ELSE Stopped(w)
Replaced(v, e)   == IF e.ok THEN Read(e.v) ELSE Stopped(v)
Chosen(f, v, e)  == IF e.ok THEN Read([field |-> f.name, value |-> e.v]) ELSE Stopped(v)
Updated(m, s, e) == [v |-> [m EXCEPT ![s] = e.v], ok |-> e.ok]
KeyOk(f, k) == f.key = "string" \/ (k \in DOMAIN ParseInt /\ ParseInt[k] \in Signed(Narrow))
KeyOf(f, k) == IF f.key = "string" THEN k ELSE ParseInt[k]
Entered(f, w, k, e) ==
    IF KeyOk(f, k) /\ e.ok THEN Read((KeyOf(f, k) :> e.v) @@ w) ELSE Stopped(w)

RECURSIVE ReadObject(_, _, _, _)

\* Mutant: the options are not passed to the elements.
ReadElement_Lax(f, d, o) ==
    IF IsMessage(f.type) THEN ReadObject(f.type, d, ZeroMessage(f.type), [discardUnknown |-> TRUE])
    ELSE AsResult(AsScalar(d, f.type))

\* An element of a list, a map or a oneof: a message is a fresh one.
ReadElement(f, d, o) ==
    IF IsMessage(f.type) THEN ReadObject(f.type, d, ZeroMessage(f.type), o)
    ELSE AsResult(AsScalar(d, f.type))

\* Appended to what the list has.
ReadList(f, d, v, o) ==
    IF ~IsList(d) THEN Stopped(v)
    ELSE Through(d.list, v, LAMBDA w, x : Appended(w, ReadElement(f, x, o)))

\* genMapUnmarshal: into the map there is.
ReadMap(f, d, v, o) ==
    IF ~IsObj(d) THEN Stopped(v)
    ELSE Through(d.obj, v, LAMBDA w, x : Entered(f, w, x.key, ReadElement(f, x.val, o)))

\* Mutant: a message field is read into a fresh message.
ReadField_Fresh(f, d, v, o) ==
    CASE f.shape = "list"    -> ReadList(f, d, v, o)
      [] f.shape = "map"     -> ReadMap(f, d, v, o)
      [] f.shape = "oneof"   -> Chosen(f, v, ReadElement(f, d, o))
      [] OTHER -> Replaced(v, ReadElement(f, d, o))

\* genFieldUnmarshal: a message field is read into the message there is.
ReadField(f, d, v, o) ==
    CASE f.shape = "list"    -> ReadList(f, d, v, o)
      [] f.shape = "map"     -> ReadMap(f, d, v, o)
      [] f.shape = "message" ->
             ReadObject(f.type, d, IF v = Unset THEN ZeroMessage(f.type) ELSE v, o)
      [] f.shape = "oneof"   -> Chosen(f, v, ReadElement(f, d, o))
      [] f.shape \in {"scalar", "optional"} -> Replaced(v, ReadElement(f, d, o))

\* UnmarshalJTON: member by member, null skipped, in either spelling.
FieldsNamed(t, k) == {f \in Range(Messages[t]) : k \in {f.name, f.json}}
ReadInto(f, m, x, o) == Updated(m, Slot(f), ReadField(f, x.val, m[Slot(f)], o))
ReadMember(t, m, x, o) ==
    IF x.val = Null THEN Read(m)
    ELSE IF FieldsNamed(t, x.key) = {} THEN IF o.discardUnknown THEN Read(m) ELSE Stopped(m)
    ELSE ReadInto(CHOOSE f \in FieldsNamed(t, x.key) : TRUE, m, x, o)
ReadObject(t, d, m, o) ==
    IF ~IsObj(d) THEN Stopped(m)
    ELSE Through(d.obj, m, LAMBDA w, x : ReadMember(t, w, x, o))

\* UnmarshalList
ReadListOf(t, d, o) ==
    IF ~IsList(d) THEN Stopped(<<>>)
    ELSE Through(d.list, <<>>, LAMBDA w, x :
             Appended(w, ReadObject(t, x, ZeroMessage(t), o)))
=============================================================================
