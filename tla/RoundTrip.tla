------------------------------ MODULE RoundTrip ------------------------------
(***************************************************************************)
(* A document's way through the library: its JSON text is parsed, the value*)
(* is marshalled with some options, and the result is parsed again.  This  *)
(* is what FuzzParse (fuzz_test.go) does with its inputs, and what the CLI *)
(* (cmd/jton/main.go, run) does over two calls, one encoding and one with  *)
(* --decode.                                                               *)
(*                                                                         *)
(* The parser runs step by step (ZenParser); Marshal is one step, its text *)
(* given by ZenEncoder.                                                    *)
(***************************************************************************)
EXTENDS ZenParser, ZenEncoder

CONSTANT Cases  \* pairs of a document and the options it is marshalled with

VARIABLES
    doc,        \* the document whose JSON text is loaded
    opts,       \* the options of Marshal
    phase,      \* "load": JSON is parsed; "reload": Marshal's text is; "failed"
    loaded      \* what the first Parse returned

roundTripVars == <<vars, doc, opts, phase, loaded>>

\* Marshal(v, Options{NoZenGrid: true}), the standard JSON form.
Json == [delimiter |-> ",", noZenGrid |-> TRUE, noRowCount |-> FALSE,
         implicitNull |-> FALSE, bareStrings |-> FALSE, unquotedKeys |-> FALSE]
-----------------------------------------------------------------------------
RTInit ==
    /\ \E case \in Cases : doc = case[1] /\ opts = case[2]
    /\ phase = "load"
    /\ loaded = Null
    /\ input = EncodedText(doc, Json)
    /\ AtStart

ParseStep ==
    /\ Next
    /\ UNCHANGED <<doc, opts, phase, loaded>>

\* Marshal of the value loaded, and Parse of the text it returns.
Remarshal ==
    /\ phase = "load"
    /\ mode = "accept"
    /\ Encodable(val, opts)
    /\ loaded' = val
    /\ phase' = "reload"
    /\ input' = EncodedText(val, opts)
    /\ pos' = 1 /\ mode' = "value" /\ stack' = <<>> /\ val' = Null
    /\ UNCHANGED <<doc, opts>>

\* Marshal of the value loaded returns an error.
MarshalFails ==
    /\ phase = "load"
    /\ mode = "accept"
    /\ ~Encodable(val, opts)
    /\ phase' = "failed"
    /\ loaded' = val
    /\ UNCHANGED <<vars, doc, opts>>

RTNext == ParseStep \/ Remarshal \/ MarshalFails

\* Every call runs until it returns, and the next one follows.
RTSpec == RTInit /\ [][RTNext]_roundTripVars /\ WF_roundTripVars(RTNext)
-----------------------------------------------------------------------------
\* Two values are the same when they differ in the order of keys at most
\* (eqVal, jton_test.go).
RECURSIVE SameValue(_, _)
SameValue(v, w) ==
    CASE IsObj(v) /\ IsObj(w) ->
             /\ Len(v.obj) = Len(w.obj)
             /\ \A i \in DOMAIN v.obj :
                    /\ HasKey(w.obj, v.obj[i].key)
                    /\ SameValue(v.obj[i].val, ValueAt(w.obj, v.obj[i].key))
      [] IsList(v) /\ IsList(w) ->
             /\ Len(v.list) = Len(w.list)
             /\ \A i \in DOMAIN v.list : SameValue(v.list[i], w.list[i])
      [] OTHER -> v = w

\* What a table can say of the list v: each row's values for the first row's
\* keys, in that order, null for those it lacks; a row that is no object
\* stands in the first column.
RECURSIVE AsTables(_, _)
AsTables(v, o) ==
    CASE IsObj(v) -> Obj([i \in DOMAIN v.obj |->
                              [v.obj[i] EXCEPT !.val = AsTables(@, o)]])
      [] IsList(v) /\ ~IsTable(v.list, o) ->
             List([i \in DOMAIN v.list |-> AsTables(v.list[i], o)])
      [] IsList(v) /\ IsTable(v.list, o) ->
             LET headers == HeadersOf(v.list)
                 Cell(row, c) ==
                     CASE IsObj(row) /\ HasKey(row.obj, headers[c])
                              -> AsTables(ValueAt(row.obj, headers[c]), o)
                       [] ~IsObj(row) /\ c = 1 -> AsTables(row, o)
                       [] OTHER -> Null
             IN  List([i \in DOMAIN v.list |->
                     Obj([c \in DOMAIN headers |->
                              [key |-> headers[c], val |-> Cell(v.list[i], c)]])])
      [] OTHER -> v

\* The lists in v, v itself included, at any depth.
RECURSIVE ListsIn(_)
ListsIn(v) ==
    CASE IsObj(v)  -> UNION {ListsIn(v.obj[i].val) : i \in DOMAIN v.obj}
      [] IsList(v) -> {v.list} \cup UNION {ListsIn(v.list[i]) : i \in DOMAIN v.list}
      [] OTHER     -> {}

\* Detection takes the list xs for objects: those it looks at always are.
BeginsAsRows(xs) == \A i \in 1..AtMost(Len(xs), FastSample) : IsObj(xs[i])

\* Such a list may go on with something else; AllRows says that none in v does,
RowsOnly(xs) == BeginsAsRows(xs) => \A i \in DOMAIN xs : IsObj(xs[i])
AllRows(v)   == \A xs \in ListsIn(v) : RowsOnly(xs)

\* and Uniform that its objects have one set of keys, too.
Uniform(v) ==
    \A xs \in ListsIn(v) :
        /\ RowsOnly(xs)
        /\ BeginsAsRows(xs) =>
               \A i, j \in DOMAIN xs :
                   Range(KeysInOrder(xs[i].obj)) = Range(KeysInOrder(xs[j].obj))
-----------------------------------------------------------------------------
\* How many containers are open at once in the JSON text of v.
RECURSIVE Nesting(_)
Nesting(v) ==
    LET items == IF IsObj(v) THEN {v.obj[i].val : i \in DOMAIN v.obj}
                 ELSE IF IsList(v) THEN Range(v.list) ELSE {}
    IN  IF IsObj(v) \/ IsList(v) THEN 1 + Max({0} \cup {Nesting(x) : x \in items}) ELSE 0

\* "JTON accepts everything JSON does" (doc.go): the JSON text of a document
\* yields that document, keys in their order.
JsonLoads == phase = "load" /\ mode = "accept" => val = doc

\* Both depth limits are exact, in whatever mixture the containers are opened:
\* Parse accepts a JSON text that opens maxParseDepth of them at once and rejects
\* one that opens more, and no other; Marshal fails only beyond maxDepth of them.
DepthDecides ==
    /\ phase = "load" =>
          /\ mode = "accept" => Nesting(doc) <= MaxParseDepth
          /\ mode = "reject" => Nesting(doc) > MaxParseDepth
    /\ phase = "failed" => Nesting(loaded) > MaxDepth

\* Marshal's own text is accepted, and gives back exactly what its tables can
\* say of the value: nothing shifts between columns, rows or containers.
ReloadIsProjection ==
    phase = "reload" =>
        /\ mode # "reject"
        /\ mode = "accept" => val = AsTables(loaded, opts)

\* Where no table has to leave anything out, nothing is lost at all: when all
\* lists that begin with objects are objects of one set of keys to their end,
\* behind the sample as well as in it.
UniformSurvives ==
    phase = "reload" /\ mode = "accept" /\ Uniform(loaded) => SameValue(val, loaded)

\* "Marshal is idempotent over the parsed value" (fuzz_test.go): marshalling
\* what was reloaded gives the same text, also where a table has left keys out.
\* The lists that begin with objects may have any keys, but no other items, for
\* which it does not hold: such an item behind the sample of a table of two
\* columns is written as a row of one cell, and written again with its second.
FixedPoint ==
    phase = "reload" /\ mode = "accept" /\ AllRows(loaded) =>
        Encodable(val, opts) /\ EncodedText(val, opts) = input

\* The whole way is always gone to its end, past the depth checks it passes.
Completes ==
    <>(IF Nesting(doc) > MaxParseDepth THEN phase = "load" /\ mode = "reject"
       ELSE phase = "failed" \/ (phase = "reload" /\ mode = "accept"))
-----------------------------------------------------------------------------
(***************************************************************************)
(* What the repository says of the round trip and the code does not do.    *)
(***************************************************************************)

\* "for any input it accepts, re-encoding is a fixed point ... and the value
\* round-trips" (fuzz_test.go).  Violated by a table whose rows have keys the
\* first row lacks, by a table whose later items are no objects, by bare
\* strings that spell a literal, and by unquoted keys with a hyphen.
ValueRoundTrips ==
    phase = "reload" =>
        /\ mode # "reject"
        /\ mode = "accept" => SameValue(val, loaded)
=============================================================================
