---------------------------- MODULE MCTypeCache ----------------------------
(* Struct types for every rule of computeFields and computeScalarTablePlan,
   rows of them, and two goroutines: any job beside a plain job on the same type
   or another. *)
EXTENDS TypeCache

A == <<"a">>
B == <<"b">>
C == <<"c">>

\* A field: exported, untagged, of a kind or a struct type.
F(n, t) == [name |-> n, tag |-> <<>>, omit |-> FALSE, skip |-> FALSE, exported |-> TRUE,
            embedded |-> FALSE, type |-> t, ptr |-> FALSE]
Embed(t)       == [F(<<t>>, t) EXCEPT !.embedded = TRUE]
EmbedPtr(t)    == [Embed(t) EXCEPT !.ptr = TRUE]
Tagged(f, tag) == [f EXCEPT !.tag = tag]

MCStructs == [
    Row     |-> <<F(A, "int"), [F(B, "string") EXCEPT !.ptr = TRUE],
                  [F(C, "string") EXCEPT !.exported = FALSE], [F(C, "int") EXCEPT !.skip = TRUE]>>,
    Blob    |-> <<Tagged(F(C, "bytes"), A), F(B, "bool")>>,
    Omit    |-> <<F(A, "int"), [F(B, "bytes") EXCEPT !.omit = TRUE]>>,
    Empty   |-> <<[F(A, "int") EXCEPT !.exported = FALSE]>>,
    Lists   |-> <<F(A, "int"), F(B, "list")>>,
    Base    |-> <<F(A, "int"), F(B, "int")>>,
    Over    |-> <<Embed("Base"), F(B, "int")>>,
    ByPtr   |-> <<EmbedPtr("Base"), F(C, "int")>>,
    Tie     |-> <<Embed("Base"), Embed("Other")>>,
    Other   |-> <<F(A, "int"), F(C, "int")>>,
    Wins    |-> <<Embed("Base"), Embed("Spelt")>>,
    Spelt   |-> <<Tagged(F(C, "int"), A)>>,
    Kept    |-> <<Tagged(Embed("Base"), B), Embed("Over")>>,
    Node    |-> <<F(A, "int"), EmbedPtr("Node"), [Embed("Other") EXCEPT !.exported = FALSE]>>,
    Twice   |-> <<Tagged(F(A, "int"), C), Tagged(F(B, "int"), C), F(A, "int")>>,
    Custom  |-> <<F(A, "int"), F(B, "string")>>,
    Left    |-> <<Embed("Base")>>,
    Right   |-> <<Embed("Base")>>,
    Both    |-> <<Embed("Left"), Embed("Right")>>]

MCEmptyLeaves == {Num("0"), Lit("false"), Str(<<>>)}
MCFormatKey == [k \in {} |-> k]     \* no job has a map
MCBase64 == [empty |-> <<>>, word |-> <<"b">>, padded |-> <<"a", "=">>]

One == Leaf(Num("1"))
BaseVal  == Struct("Base", <<One, Leaf(Num("2"))>>)
OtherVal == Struct("Other", <<Leaf(Num("3")), One>>)
OverVal  == Struct("Over", <<BaseVal, Leaf(Num("3"))>>)

\* A few values of each type.
Values == [
    Row     |-> {Struct("Row", <<One, p, Leaf(Str(C)), One>>) :
                    p \in {Nil, Pointer(Leaf(Str(B))), Pointer(Leaf(Str(<<"a", "SP", "b">>))),
                           Pointer(Leaf(Str(<<";">>)))}},
    Blob    |-> {Struct("Blob", <<Bytes(b), Leaf(Lit("true"))>>) : b \in DOMAIN MCBase64},
    Omit    |-> {Struct("Omit", <<Leaf(Num("0")), Bytes(b)>>) : b \in {"empty", "word"}},
    Empty   |-> {Struct("Empty", <<One>>)},
    Lists   |-> {Struct("Lists", <<One, Leaf(List(xs))>>) : xs \in {<<>>, <<Num("1")>>}},
    Base    |-> {BaseVal},
    Over    |-> {OverVal},
    ByPtr   |-> {Struct("ByPtr", <<p, One>>) : p \in {Nil, Pointer(BaseVal)}},
    Tie     |-> {Struct("Tie", <<BaseVal, OtherVal>>)},
    Other   |-> {OtherVal},
    Wins    |-> {Struct("Wins", <<BaseVal, Struct("Spelt", <<Leaf(Num("3"))>>)>>)},
    Spelt   |-> {Struct("Spelt", <<One>>)},
    Kept    |-> {},     \* its field b is a struct, which no cell can be
    Node    |-> {Struct("Node", <<One, p, OtherVal>>) :
                    p \in {Nil, Pointer(Struct("Node", <<One, Nil, OtherVal>>))}},
    Twice   |-> {Struct("Twice", <<One, Leaf(Num("2")), Leaf(Num("3"))>>)},
    Custom  |-> {Struct("Custom", <<One, Named(Str(A), B)>>)},
    Left    |-> {Struct("Left", <<BaseVal>>)},
    Right   |-> {Struct("Right", <<BaseVal>>)},
    Both    |-> {Struct("Both", <<Struct("Left", <<BaseVal>>), Struct("Right", <<BaseVal>>)>>)}]

Default == [delimiter |-> ",", noZenGrid |-> FALSE, noRowCount |-> FALSE,
            implicitNull |-> FALSE, bareStrings |-> FALSE, unquotedKeys |-> FALSE]
MCOptions ==
    {Default, [Default EXCEPT !.noZenGrid = TRUE, !.unquotedKeys = TRUE],
     [Default EXCEPT !.delimiter = "TAB", !.bareStrings = TRUE, !.noRowCount = TRUE],
     [Default EXCEPT !.delimiter = "|", !.implicitNull = TRUE]}

JobsOf(t, lens, options) ==
    {[type |-> t, rows |-> rs, opts |-> o] :
        rs \in UNION {[1..n -> Values[t]] : n \in lens}, o \in options}
AllJobs == UNION {JobsOf(t, 1..3, MCOptions) : t \in DOMAIN MCStructs}

\* Jobs on one type for each way through the code.  Kept is resolved for its own
\* sake, though no cell can hold it.
RowJob  == [type |-> "Row", opts |-> Default,
            rows |-> [i \in 1..2 |-> Struct("Row", <<One, Nil, Leaf(Str(C)), One>>)]]
KeptJob == [type |-> "Kept", rows |-> <<>>, opts |-> Default]
BothJobs == UNION {JobsOf(t, {1, 2}, {Default}) : t \in DOMAIN MCStructs \ {"Row"}} \cup {RowJob, KeptJob}

MCGoroutines == {"g1", "g2"}
BothJobPairs == {[g1 |-> j, g2 |-> j] : j \in BothJobs}

\* Jobs whose table is not the tree's, one set for each reason.
TwicePairs  == {j \in BothJobPairs : j["g1"].type = "Twice"}
CustomPairs == {j \in BothJobPairs : j["g1"].type = "Custom"}

MCJobs == {[g1 |-> j, g2 |-> RowJob] : j \in AllJobs} \cup BothJobPairs
=============================================================================
