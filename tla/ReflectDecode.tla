--------------------------- MODULE ReflectDecode ---------------------------
(***************************************************************************)
(* Unmarshal into a Go value that is used again and again: reflectDecode   *)
(* and its helpers (reflect.go).  A call writes into its target as it goes *)
(* and returns at the first error, with what it has written left there.    *)
(*                                                                         *)
(* A type is a record: its kind, and with it the bits of an integer, the   *)
(* type of the elements and the length of an array, whether map keys are   *)
(* integers.  A struct type is named in Structs, any other in Types.       *)
(***************************************************************************)
EXTENDS GoValue, NumericCoercion

CONSTANTS
    Types,      \* the named types that are no structs
    KeyBits,    \* bits of an integer map key
    ParseKey,   \* strconv.ParseInt: the integer of each key text that has one
    Targets,    \* the types Unmarshal is called with, each with a processor
    Docs        \* the trees Parse may return, for each type

VARIABLES
    root,       \* the type of the target
    target,     \* its value
    doc, ok,    \* what Unmarshal was called with, and whether it succeeded
    cpu         \* what the program runs on

decodeVars == <<root, target, doc, ok, cpu>>

NoCall == [call |-> FALSE]

StructOf(t) == [kind |-> "struct", struct |-> t]
TypeOf(t)   == IF t \in DOMAIN Structs THEN StructOf(t) ELSE Types[t]
FieldType(f) == IF f.ptr THEN [kind |-> "pointer", elem |-> f.type] ELSE TypeOf(f.type)
ElemOf(T)   == TypeOf(T.elem)

\* reflect.Zero
RECURSIVE Zero(_)
Zero(T) ==
    CASE T.kind \in {"pointer", "slice", "map", "any"} -> Nil
      [] T.kind \in {"int", "uint"}   -> Leaf(IntNum(0))
      [] T.kind = "float"             -> Leaf(FloatNum(0))
      [] T.kind = "string"            -> Leaf(Str(<<>>))
      [] T.kind = "text"              -> Named(Str(<<>>), <<>>)
      [] T.kind = "bytes"             -> Bytes(<<>>)
      [] T.kind = "array"             -> Items([i \in 1..T.len |-> Zero(ElemOf(T))])
      [] T.kind = "octets"            -> Octets([i \in 1..T.len |-> Zero(ElemOf(T))])
      [] T.kind = "struct"            ->
             Struct(T.struct, [i \in DOMAIN Structs[T.struct] |->
                                   Zero(FieldType(Structs[T.struct][i]))])

\* The fields of each struct type (cachedFields), with the type of each.
RECURSIVE TypeAt(_, _)
TypeAt(t, index) ==
    LET f == Structs[t][Head(index)] IN
    IF Len(index) = 1 THEN FieldType(f) ELSE TypeAt(f.type, Tail(index))
Typed(t, fs) ==
    [i \in DOMAIN fs |-> [name |-> fs[i].name, index |-> fs[i].index,
                          type |-> TypeAt(t, fs[i].index)]]
FieldsOf == [t \in DOMAIN Structs |-> Typed(t, ComputeFields(t))]
-----------------------------------------------------------------------------
\* The value of a target after a call, and whether the call succeeded.
Done(v) == [v |-> v, ok |-> TRUE]
Left(v) == [v |-> v, ok |-> FALSE]

RECURSIVE Decode(_, _, _, _)

\* The kinds that are no containers, but for null.
DecodeScalar(d, T, v, p) ==
    LET int   == AsInt(d, T.bits, p)
        uint  == AsUint(d, T.bits, p)
        float == AsFloat(d)
    IN
    CASE T.kind = "any"    -> Done(Leaf(d))
      [] T.kind = "string" -> IF IsStr(d) THEN Done(Leaf(d)) ELSE Left(v)
      [] T.kind = "bytes"  ->
             IF IsStr(d) /\ \E b \in DOMAIN Base64 : Base64[b] = d.str
             THEN Done(Bytes(CHOOSE b \in DOMAIN Base64 : Base64[b] = d.str)) ELSE Left(v)
      [] T.kind = "int"    -> IF int.ok THEN Done(Leaf(IntNum(int.n))) ELSE Left(v)
      [] T.kind = "uint"   -> IF uint.ok THEN Done(Leaf(IntNum(uint.n))) ELSE Left(v)
      [] T.kind = "float"  -> IF float.ok THEN Done(Leaf(float.n)) ELSE Left(v)

\* Mutant: the slice is set before its elements are decoded.
DecodeSlice_InPlace(d, T, v, p) ==
    IF ~IsList(d) THEN Left(v)
    ELSE LET rs == [i \in DOMAIN d.list |-> Decode(d.list[i], ElemOf(T), Zero(ElemOf(T)), p)]
             out == Items([i \in DOMAIN rs |-> rs[i].v])
         IN  IF \A i \in DOMAIN rs : rs[i].ok THEN Done(out) ELSE Left(out)

\* Mutant: the elements are appended.
DecodeSlice_Appends(d, T, v, p) ==
    IF ~IsList(d) THEN Left(v)
    ELSE LET rs == [i \in DOMAIN d.list |-> Decode(d.list[i], ElemOf(T), Zero(ElemOf(T)), p)]
             old == IF v = Nil THEN <<>> ELSE v.items
         IN  IF \A i \in DOMAIN rs : rs[i].ok
             THEN Done(Items(old \o [i \in DOMAIN rs |-> rs[i].v])) ELSE Left(v)

\* decodeSlice: a new slice, set when every element is decoded.
DecodeSlice(d, T, v, p) ==
    IF ~IsList(d) THEN Left(v)
    ELSE LET rs == [i \in DOMAIN d.list |-> Decode(d.list[i], ElemOf(T), Zero(ElemOf(T)), p)]
         IN  IF \A i \in DOMAIN rs : rs[i].ok
             THEN Done(Items([i \in DOMAIN rs |-> rs[i].v])) ELSE Left(v)

\* The positions of an array beyond the document's elements.
Rest(d, T) == (Len(d.list) + 1)..T.len

\* decodeArray: in place, element by element.
DecodeArray(d, T, v, p) ==
    IF ~IsList(d) THEN Left(v)
    ELSE LET n  == IF Len(d.list) < T.len THEN Len(d.list) ELSE T.len
             r  == FoldLeft(LAMBDA acc, i :
                        IF ~acc.ok THEN acc
                        ELSE LET e == Decode(d.list[i], ElemOf(T), acc.v.items[i], p)
                             IN  [v |-> [acc.v EXCEPT !.items[i] = e.v], ok |-> e.ok],
                        Done(v), [i \in 1..n |-> i])
         IN  IF ~r.ok THEN r
             ELSE Done([r.v EXCEPT !.items = [i \in DOMAIN @ |->
                           IF i \in Rest(d, T) THEN Zero(ElemOf(T)) ELSE @[i]]])

\* stringToMapKey: an integer key is cut to its type's bits.
MapKey(T, k) ==
    IF ~T.numbered THEN k
    ELSE Cut(ParseKey[k], KeyBits)
MapKeyOk(T, k) == T.numbered => k \in DOMAIN ParseKey

\* decodeMap: into the map there is, each element fresh.
DecodeMap(d, T, v, p) ==
    IF ~IsObj(d) THEN Left(v)
    ELSE FoldLeft(LAMBDA acc, m :
             IF ~acc.ok \/ ~MapKeyOk(T, m.key) THEN Left(acc.v)
             ELSE LET e == Decode(m.val, ElemOf(T), Zero(ElemOf(T)), p)
                  IN  IF ~e.ok THEN Left(acc.v)
                      ELSE Done([acc.v EXCEPT !.entries =
                                     (MapKey(T, m.key) :> e.v) @@ @]),
             Done(IF v = Nil THEN [entries |-> <<>>, numbered |-> T.numbered] ELSE v), d.obj)

\* fieldByIndexAlloc, and the store through what it returns.
RECURSIVE Allocated(_, _, _), Stored(_, _, _)
Allocated(t, v, index) ==
    LET f == Structs[t][Head(index)]
        w == v.fields[Head(index)]
        s == IF w = Nil THEN Zero(StructOf(f.type)) ELSE Deref(w)
    IN  IF Len(index) = 1 THEN w ELSE Allocated(f.type, s, Tail(index))

\* Mutant: an embedded pointer is always made anew.
Stored_Anew(v, index, new) ==
    LET at == Head(index)
        f  == Structs[v.struct][at]
    IN  IF Len(index) = 1 THEN [v EXCEPT !.fields[at] = new]
        ELSE [v EXCEPT !.fields[at] =
                 LET s == Stored(IF f.ptr THEN Zero(StructOf(f.type)) ELSE v.fields[at],
                                 Tail(index), new)
                 IN  IF f.ptr THEN Pointer(s) ELSE s]

Stored(v, index, new) ==
    LET at == Head(index)
        w  == v.fields[at]
    IN  IF Len(index) = 1 THEN [v EXCEPT !.fields[at] = new]
        ELSE LET f == Structs[v.struct][at]
                 s == Stored(IF w = Nil THEN Zero(StructOf(f.type)) ELSE Deref(w),
                             Tail(index), new)
             IN  [v EXCEPT !.fields[at] = IF f.ptr THEN Pointer(s) ELSE s]

\* decodeStruct: the fields the document has, in the order of the plan.
DecodeStruct(d, T, v, p) ==
    IF ~IsObj(d) THEN Left(v)
    ELSE FoldLeft(LAMBDA acc, f :
             IF ~acc.ok \/ ~HasKey(d.obj, f.name) THEN acc
             ELSE LET e == Decode(ValueAt(d.obj, f.name), f.type,
                                  Allocated(T.struct, acc.v, f.index), p)
                  IN  [v |-> Stored(acc.v, f.index, e.v), ok |-> e.ok],
             Done(v), FieldsOf[T.struct])

\* reflectDecode: through pointers, which are made for null as well; then an
\* unmarshaler, then null, then by kind.
Decode(d, T, v, p) ==
    IF T.kind = "pointer"
    THEN LET e == Decode(d, ElemOf(T), IF v = Nil THEN Zero(ElemOf(T)) ELSE v.to, p)
         IN  [e EXCEPT !.v = Pointer(@)]
    ELSE IF T.kind = "text" THEN IF IsStr(d) THEN Done(Named(d, d.str)) ELSE Left(v)
    ELSE IF d = Null THEN Done(Zero(T))
    ELSE CASE T.kind = "slice"  -> DecodeSlice(d, T, v, p)
           [] T.kind \in {"array", "octets"} -> DecodeArray(d, T, v, p)
           [] T.kind = "map"    -> DecodeMap(d, T, v, p)
           [] T.kind = "struct" -> DecodeStruct(d, T, v, p)
           [] OTHER             -> DecodeScalar(d, T, v, p)
-----------------------------------------------------------------------------
DecodeInit ==
    /\ \E t \in Targets : root = t[1] /\ cpu = t[2]
    /\ target = Zero(TypeOf(root))
    /\ doc = NoCall
    /\ ok = FALSE

\* Unmarshal, of a text Parse accepts, into the target.
LeavesAs(r) == target' = r.v /\ ok' = r.ok
Unmarshal(d) ==
    /\ doc' = d
    /\ LeavesAs(Decode(d, TypeOf(root), target, cpu))
    /\ UNCHANGED <<root, cpu>>

\* It has returned, and the caller goes on with the target as it is.
Return ==
    /\ doc # NoCall
    /\ doc' = NoCall
    /\ ok' = FALSE
    /\ UNCHANGED <<root, target, cpu>>

Call == doc = NoCall /\ \E d \in Docs[root] : Unmarshal(d)

DecodeNext == Call \/ Return

DecodeSpec == DecodeInit /\ [][DecodeNext]_decodeVars
-----------------------------------------------------------------------------
\* What a float field may hold for a number: no float is nearer to it.
Floats == {n \in -(2^(Word + 2))..(2^(Word + 2)) : Nearest(n) = n}
Distance(a, b) == IF a < b THEN b - a ELSE a - b

\* What a document's key means, whatever the bits of the key type; and whether
\* that type has every key of the document.
KeyMeans(T, k) == IF T.numbered THEN ParseKey[k] ELSE k
KeysFit(T, d)  == T.numbered => \A m \in Range(d.obj) : ParseKey[m.key] \in Signed(KeyBits)

\* The target holds what the document says, at every level: every member that
\* names a field, every key of a map with the last value given for it, every
\* element of a list that an array has room for, every integer with its exact
\* value and every float with the nearest one; null is the zero value.
\*
\* Two things are left out, for which it does not hold.  A float beyond 64 bits
\* becomes the integer the processor makes of it, except that no narrower signed
\* field takes one.  A map is not looked into when the document has a key beyond
\* its key type: that key is cut, and may take the place of another.
RECURSIVE Holds(_, _, _)
HoldsScalar(T, d, v) ==
    CASE T.kind \in {"any", "string"} -> v = Leaf(d)
      [] T.kind = "bytes" -> d = Str(Base64[v.bytes])
      [] T.kind = "int"   -> \/ IsWhole(d) /\ v = Leaf(IntNum(d.num.n))
                             \/ T.bits = Word /\ LeftToProcessor(d, Signed(Word))
      [] T.kind = "uint"  -> \/ IsWhole(d) /\ v = Leaf(IntNum(d.num.n))
                             \/ LeftToProcessor(d, Unsigned(Word))
      [] T.kind = "float" ->
             /\ IsNum(d)
             /\ d.num.form = "float" => v = Leaf(d)
             /\ \A x \in Floats :
                    Distance(v.leaf.num.n, d.num.n) <= Distance(x, d.num.n)
Holds(T, d, v) ==
    IF T.kind = "pointer" THEN v # Nil /\ Holds(ElemOf(T), d, v.to)
    ELSE IF T.kind = "text" THEN IsStr(d) /\ v = Named(d, d.str)
    ELSE IF d = Null THEN v = Zero(T)
    ELSE CASE T.kind = "slice" ->
                /\ IsList(d) /\ v # Nil
                /\ Len(v.items) = Len(d.list)
                /\ \A i \in DOMAIN d.list : Holds(ElemOf(T), d.list[i], v.items[i])
           [] T.kind \in {"array", "octets"} ->
                /\ IsList(d)
                /\ \A i \in 1..T.len :
                      IF i <= Len(d.list) THEN Holds(ElemOf(T), d.list[i], v.items[i])
                      ELSE v.items[i] = Zero(ElemOf(T))
           [] T.kind = "map" ->
                /\ IsObj(d) /\ v # Nil
                /\ \A m \in Range(d.obj) : MapKeyOk(T, m.key)
                /\ KeysFit(T, d) =>
                      \A i \in DOMAIN d.obj :
                         LET k == KeyMeans(T, d.obj[i].key) IN
                         /\ k \in DOMAIN v.entries
                         /\ \E j \in i..Len(d.obj) :
                               /\ KeyMeans(T, d.obj[j].key) = k
                               /\ Holds(ElemOf(T), d.obj[j].val, v.entries[k])
           [] T.kind = "struct" ->
                /\ IsObj(d)
                /\ \A f \in Range(FieldsOf[T.struct]) : HasKey(d.obj, f.name) =>
                      Holds(f.type, ValueAt(d.obj, f.name), FieldByIndex(v, f.index))
           [] OTHER -> HoldsScalar(T, d, v)

\* After a successful Unmarshal the target holds what the document says (Holds),
\* whatever it held before and whatever calls came before.
HoldsDocument == ok => Holds(TypeOf(root), doc, target)

\* The fields of a struct that are no part of its plan, embedded ones apart.
Unplanned(t) == Range(Positions(t, LAMBDA f : ~f.embedded /\ ~(f.exported /\ ~f.skip)))

\* From old to new, nothing has changed but what the document mentions; and
\* that is as it was, or is what the document says.
RECURSIVE OnlyThere(_, _, _, _)
OnlyThere(T, d, old, new) ==
    \/ new = old
    \/ IF T.kind = "pointer"
       THEN /\ new # Nil
            /\ OnlyThere(ElemOf(T), d, IF old = Nil THEN Zero(ElemOf(T)) ELSE old.to, new.to)
       ELSE IF d = Null \/ T.kind \notin {"array", "octets", "map", "struct"}
       THEN Holds(T, d, new)
       ELSE CASE T.kind \in {"array", "octets"} ->
                   \A i \in 1..T.len :
                      IF i <= Len(d.list)
                      THEN OnlyThere(ElemOf(T), d.list[i], old.items[i], new.items[i])
                      ELSE new.items[i] \in {old.items[i], Zero(ElemOf(T))}
              [] T.kind = "map" ->
                   LET was  == IF old = Nil THEN {} ELSE DOMAIN old.entries
                       said == {m \in Range(d.obj) : MapKeyOk(T, m.key)}
                   IN  /\ was \subseteq DOMAIN new.entries
                       /\ \A k \in DOMAIN new.entries :
                             \/ k \in was /\ new.entries[k] = old.entries[k]
                             \/ \E m \in said : /\ MapKey(T, m.key) = k
                                                /\ Holds(ElemOf(T), m.val, new.entries[k])
              [] T.kind = "struct" ->
                   /\ \A i \in Unplanned(T.struct) : new.fields[i] = old.fields[i]
                   /\ \A f \in Range(FieldsOf[T.struct]) :
                        LET o == FieldByIndex(old, f.index)
                            n == FieldByIndex(new, f.index)
                            was == IF o = Absent THEN Zero(f.type) ELSE o
                        IN  IF HasKey(d.obj, f.name)
                            THEN n = o \/ OnlyThere(f.type, ValueAt(d.obj, f.name), was, n)
                            ELSE n = o \/ n = was

\* Whether it succeeds or fails halfway, Unmarshal changes nothing the
\* document does not mention: no map entry, no field, no element of an array
\* but those beyond the document's, which become zero.  A slice whose elements
\* do not all decode is left as it was.  An integer map key mentions the entry
\* it is cut to (stringToMapKey).
OnlyMentioned ==
    [][doc' = NoCall \/ OnlyThere(TypeOf(root), doc', target, target')]_decodeVars

\* Unmarshal can be repeated: a second call with the same document finds the
\* target as the first one left it and has the same outcome, an error too.
Repeatable ==
    doc # NoCall =>
        Decode(doc, TypeOf(root), target, cpu) = [v |-> target, ok |-> ok]

\* No pointer is nil, and no array is of bytes.
RECURSIVE Settled(_, _)
Settled(T, v) ==
    CASE T.kind = "pointer" -> v # Nil /\ Settled(ElemOf(T), v.to)
      [] T.kind = "octets"  -> FALSE
      [] T.kind = "struct"  ->
             \A f \in Range(FieldsOf[T.struct]) :
                 LET w == FieldByIndex(v, f.index) IN w = Absent \/ Settled(f.type, w)
      [] T.kind \in {"slice", "array"} ->
             v = Nil \/ \A i \in DOMAIN v.items : Settled(ElemOf(T), v.items[i])
      [] T.kind = "map"     ->
             v = Nil \/ \A k \in DOMAIN v.entries : Settled(ElemOf(T), v.entries[k])
      [] OTHER -> TRUE

\* Marshal's tree of the target, decoded into a fresh target, has the tree of
\* the target.  Nothing in the repository says so of a nil pointer, which comes
\* back as a pointer to zero or, when its type has a text unmarshaler, as an
\* error; nor of an array of bytes, which is written as a string and read as a
\* list.  Of any other value, reached by any calls, it holds.
SameTree(tree, r) == r.ok /\ ReflectEncode(r.v) = tree
ReadAnew(tree)    == SameTree(tree, Decode(tree, TypeOf(root), Zero(TypeOf(root)), cpu))
TreeReadsBack     == ReadAnew(ReflectEncode(target))
ReadsBack == Settled(TypeOf(root), target) => TreeReadsBack
=============================================================================
