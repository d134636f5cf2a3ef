---------------------------- MODULE ProtoSession ----------------------------
(***************************************************************************)
(* A program that unmarshals into one message again and again, and lists   *)
(* of messages, with the calls of protojton/runtime.go.  Unmarshal does    *)
(* not reset the message; a call that fails leaves what it had done.       *)
(***************************************************************************)
EXTENDS ProtoCodec

CONSTANTS
    Roots,          \* the types of the messages
    Docs,           \* the trees Parse may return for a message of each type
    ListDocs,       \* and for a list of them
    Others,         \* the types of messages a list of others may end with
    CoreOptions,    \* the options forwarded to the core, some of JTONOptions
    MaxCalls        \* bound on the calls, as lists grow with each

ASSUME CoreOptionsAssumption == CoreOptions \subseteq JTONOptions

VARIABLES
    root,       \* the type
    m,          \* the message
    rows,       \* what the last UnmarshalList that succeeded returned
    call,       \* the call that has returned: its document, options, outcome
    calls       \* how many there were

sessionVars == <<root, m, rows, call, calls>>

NoCall == [op |-> "none"]
MarshalOptions ==
    [useJSONNames : BOOLEAN, enumsAsInts : BOOLEAN, omitDefaults : BOOLEAN, JTON : CoreOptions]
UnmarshalOptions == [discardUnknown : BOOLEAN]

SessionInit ==
    /\ root \in Roots
    /\ m = ZeroMessage(root)
    /\ rows = <<>>
    /\ call = NoCall
    /\ calls = 0

\* Unmarshal: a document that is null is left alone.
Returned(op, d, o, r) == call' = [op |-> op, doc |-> d, opts |-> o, ok |-> r.ok]
MessageRead(d, o, r) == m' = r.v /\ Returned("message", d, o, r)
Unmarshal(d, o) ==
    /\ MessageRead(d, o, IF d = Null THEN Read(m) ELSE ReadObject(root, d, m, o))
    /\ UNCHANGED <<root, rows>>

\* UnmarshalList: every element into a new message, all of them or none.
RowsRead(d, o, r) == rows' = (IF r.ok THEN r.v ELSE rows) /\ Returned("list", d, o, r)
UnmarshalList(d, o) ==
    /\ RowsRead(d, o, ReadListOf(root, d, o))
    /\ UNCHANGED <<root, m>>

Call ==
    /\ call = NoCall
    /\ calls < MaxCalls
    /\ calls' = calls + 1
    /\ \E o \in UnmarshalOptions :
          \/ \E d \in Docs[root] : Unmarshal(d, o)
          \/ \E d \in ListDocs[root] : UnmarshalList(d, o)

\* The caller has seen the outcome and goes on.
Return ==
    /\ call # NoCall
    /\ call' = NoCall
    /\ UNCHANGED <<root, m, rows, calls>>

SessionNext == Call \/ Return

SessionSpec == SessionInit /\ [][SessionNext]_sessionVars
-----------------------------------------------------------------------------
Strict == [discardUnknown |-> FALSE]

\* A key with a hyphen or a $ in it, at any depth.
RECURSIVE HyphenatedKey(_)
HyphenatedKey(d) ==
    \/ IsObj(d)  /\ \E x \in Range(d.obj) : x.key \in Hyphenated \/ HyphenatedKey(x.val)
    \/ IsList(d) /\ \E x \in Range(d.list) : HyphenatedKey(x)

\* Between two calls, a message reached by any calls, failed ones among them, is
\* marshalled to a text that unmarshals into an equal message (the property of
\* TestRandomRoundTrip and FuzzProtoText), with any MarshalOptions but for one
\* case: with UnquotedKeys, a message that has a map key with a hyphen or a $
\* is written, and the text is refused.
RoundTrips ==
    call = NoCall => \A o \in MarshalOptions :
        LET tree == ObjectTree(root, m, o)
            back == ReadObject(root, Reparsed(tree, o), ZeroMessage(root), Strict)
        IN  IF o.JTON.unquotedKeys /\ HyphenatedKey(tree) THEN ~back.ok ELSE back = Read(m)

\* The strings a table of messages would have in its cells: strings, the base64
\* of bytes, the names of enum values.
Texts(t, ms, o) ==
    {c.str : c \in {c \in UNION {Range(TableCells(t, ms[i], o)) : i \in DOMAIN ms} : IsStr(c)}}

\* The words among them that no bare cell can be.
Words(texts, o) == IF o.JTON.bareStrings THEN texts \cap (Literals \cup FalseStarts) ELSE {}
AsTable(o) == ~o.JTON.noZenGrid /\ TableEligible(root)
Typed(t, xs) == [i \in DOMAIN xs |-> [type |-> t, m |-> xs[i]]]
ReadsAs(d, x) == ReadObject(x.type, d, ZeroMessage(x.type), Strict) = Read(x.m)

\* Messages of one type come back as they were.
OneType(o) ==
    LET w     == WrittenList(Typed(root, rows), o)
        back  == ReadListOf(root, ReparsedList(w, o), Strict)
        table == Len(rows) >= 2 /\ AsTable(o)
        words == Words(Texts(root, rows, o), o)
        plain == IF table THEN o.JTON.layout = "compact" /\ words = {}
                 ELSE o.JTON.unquotedKeys => ~HyphenatedKey(w)
    IN  IF plain THEN back = Read(rows)
        ELSE back.ok => table /\ words = {"null"}

\* Behind messages of one type comes one of type t: each comes back as what it
\* is, if the first is written as an object; if it is a row, the others are cells
\* under its headers.
TwoTypes(t, o) ==
    LET own == Typed(root, rows)
        ms  == own \o Typed(t, <<ZeroMessage(t)>>)
        w   == WrittenList(ms, o)
        d   == ReparsedList(w, o)
    IN  IF ~AsTable(o)
        THEN (o.JTON.unquotedKeys => ~HyphenatedKey(w)) =>
                 IsList(d) /\ \A i \in DOMAIN ms : ReadsAs(d.list[i], ms[i])
        ELSE IF ~TableEligible(t) THEN w = Panics
        ELSE IF o.JTON.layout # "compact" \/ Len(Messages[t]) > Len(Messages[root])
        THEN d = Rejected
        ELSE Words(Texts(root, rows, o) \cup Texts(t, <<ZeroMessage(t)>>, o), o) = {} =>
                 /\ IsList(d) /\ Len(d.list) = Len(ms)
                 /\ \A i \in DOMAIN own : ReadsAs(d.list[i], own[i])

\* MarshalList and UnmarshalList are inverse, whether the list is written as an
\* array of objects or as a Zen Grid, but for four cases: a hyphenated key as
\* above; a Zen Grid that is indented or multi-line, which is refused; with
\* BareStrings, a Zen Grid with a text that is a literal or begins like one (true,
\* an enum value named NONE), which is refused too, unless the text is null, which
\* is read as a field left out; and a slice of several types (a []proto.Message)
\* whose first is a table's: a message of a type that is no table's is a panic,
\* one with more fields makes the text unreadable, and with any other the
\* messages of the first type come back all the same.
ListsRoundTrip ==
    call = NoCall => \A o \in MarshalOptions :
        /\ OneType(o)
        /\ rows # <<>> => \A t \in Others : TwoTypes(t, o)

\* The members of a document that name a field, in either spelling.
Mentions(f, ms) == SelectSeq(ms, LAMBDA x : x.key \in {f.name, f.json} /\ x.val # Null)
AllElements(xs) == FlattenSeq([i \in DOMAIN xs |-> xs[i].val.list])
AllMembers(xs)  == FlattenSeq([i \in DOMAIN xs |-> xs[i].val.obj])

\* "AsInt32 / AsInt64 / AsUint32 / AsUint64 ... convert a JTON number to the named
\* proto scalar type, range-checking where applicable" (convert.go:102-103): an
\* integer is held exactly.  It does not hold of a float beyond 64 bits: asInt64
\* and asUint64 convert it without a check, and only an int32 field never takes
\* what the processor makes of one.
Integers == {"int32", "int64", "uint32", "uint64"}
InRange(f, d, v) ==
    \/ IsWhole(d) /\ v = IntNum(d.num.n)
    \/ f.type # "int32" /\ LeftToProcessor(d, IF f.type = "int64" THEN Signed(Word) ELSE Unsigned(Word))

\* new is old with all that the members ms say: a scalar, an optional field and
\* a oneof have the last value mentioned, a list has every element added, a map
\* the last value of each key, and a message field all its members together.
RECURSIVE Says(_, _, _, _)
ElementSays(f, d, v) ==
    IF IsMessage(f.type) THEN Says(f.type, d.obj, ZeroMessage(f.type), v)
    ELSE IF f.type \in Integers THEN InRange(f, d, v)
    ELSE AsScalar(d, f.type) = Got(v)
FieldSays(f, xs, was, is) ==
    CASE f.shape = "message" ->
           Says(f.type, AllMembers(xs), IF was = Unset THEN ZeroMessage(f.type) ELSE was, is)
      [] f.shape = "list" ->
           LET ds == AllElements(xs) IN
           /\ Len(is) = Len(was) + Len(ds)
           /\ IsPrefix(was, is)
           /\ \A i \in DOMAIN ds : ElementSays(f, ds[i], is[Len(was) + i])
      [] f.shape = "map" ->
           LET Named(k) == SelectSeq(AllMembers(xs), LAMBDA x : KeyOf(f, x.key) = k)
           IN  /\ DOMAIN is = DOMAIN was \cup {KeyOf(f, x.key) : x \in Range(AllMembers(xs))}
               /\ \A k \in DOMAIN is : IF Named(k) = <<>> THEN is[k] = was[k]
                                       ELSE ElementSays(f, Last(Named(k)).val, is[k])
      [] f.shape \in {"scalar", "optional"} -> ElementSays(f, Last(xs).val, is)
OneofSays(fs, ms, is) ==
    LET last == Last(SelectSeq(ms, LAMBDA x : \E f \in fs : Mentions(f, <<x>>) # <<>>))
        f    == CHOOSE f \in fs : Mentions(f, <<last>>) # <<>>
    IN  is.field = f.name /\ ElementSays(f, last.val, is.value)
Says(t, ms, old, new) ==
    \A s \in Slots(t) :
        LET fs == {f \in Range(Messages[t]) : Slot(f) = s /\ Mentions(f, ms) # <<>>} IN
        IF fs = {} THEN new[s] = old[s]
        ELSE IF \E f \in fs : f.shape = "oneof" THEN OneofSays(fs, ms, new[s])
        ELSE \A f \in fs : FieldSays(f, Mentions(f, ms), old[s], new[s])

\* Of what a message held, a call that fails takes nothing away but the value
\* of a field its document mentions.
Keeps(t, ms, old, new) ==
    \A s \in Slots(t) : \A f \in {x \in Range(Messages[t]) : Slot(x) = s} :
        CASE f.shape = "list"    -> IsPrefix(old[s], new[s])
          [] f.shape = "map"     -> DOMAIN old[s] \subseteq DOMAIN new[s]
          [] f.shape = "message" -> old[s] # Unset => new[s] # Unset
          [] OTHER -> \/ new[s] = old[s]
                      \/ \E g \in Range(Messages[t]) : Slot(g) = s /\ Mentions(g, ms) # <<>>

\* Unmarshal merges its document into the message: when it succeeds, all of it
\* and nothing else, its integers exactly; when it fails, without a loss.
Merges ==
    [][(call' # NoCall /\ call'.op = "message" /\ call'.doc # Null) =>
         IF call'.ok THEN Says(root, call'.doc.obj, m, m')
         ELSE IF IsObj(call'.doc) THEN Keeps(root, call'.doc.obj, m, m')
         ELSE m' = m]_sessionVars

\* Every member that is not null, at any depth, names a field of its message.
RECURSIVE Known(_, _)
KnownElements(f, ds) == IsMessage(f.type) => \A d \in ds : Known(f.type, d)
Known(t, d) ==
    IsObj(d) =>
        \A x \in Range(d.obj) : x.val # Null =>
            /\ FieldsNamed(t, x.key) # {}
            /\ \A f \in FieldsNamed(t, x.key) :
                 CASE f.shape = "list" -> IsList(x.val) => KnownElements(f, Range(x.val.list))
                   [] f.shape = "map"  -> IsObj(x.val) =>
                                            KnownElements(f, {y.val : y \in Range(x.val.obj)})
                   [] OTHER -> KnownElements(f, {x.val})

\* DiscardUnknown makes no other difference than that unknown fields are errors
\* without it, at every depth; and an outcome does not depend on what the
\* message held before.
UnknownAnywhere ==
    call # NoCall =>
        LET elements == IF call.op = "list" /\ IsList(call.doc) THEN Range(call.doc.list)
                        ELSE {call.doc}
            lax == [discardUnknown |-> TRUE]
            fits == \A d \in elements : ReadObject(root, d, ZeroMessage(root), lax).ok
            known == \A d \in elements : Known(root, d)
        IN  call.ok <=> IF call.op = "list"
                        THEN IsList(call.doc) /\ fits /\ (known \/ call.opts = lax)
                        ELSE call.doc = Null \/ (fits /\ (known \/ call.opts = lax))

=============================================================================
