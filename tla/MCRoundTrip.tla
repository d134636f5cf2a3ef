---------------------------- MODULE MCRoundTrip ----------------------------
(***************************************************************************)
(* The documents and options of the round-trip runs.                       *)
(***************************************************************************)
EXTENDS RoundTrip

A == <<"a">>
B == <<"b">>

Pair(k, v) == [key |-> k, val |-> v]

\* Cells: null, a number, and a string; strings no table may hold, or that
\* only quotes keep what they are, are among the items below.
Cells == {Null, Num("1"), Str(A)}

\* Objects with no, one or two keys, in either order.
Rows(V) ==
    {Obj(<<>>)}
    \cup {Obj(<<Pair(k, v)>>) : k \in {A, B}, v \in V}
    \cup {Obj(<<Pair(p[1], v), Pair(p[2], w)>>) : p \in {<<A, B>>, <<B, A>>}, v \in V, w \in V}

\* Items that keep a list from being a table, or a table from being a cell.
Odd == {Num("1"), Lit("true"), Lit("NaN"), Str(<<>>), Str(<<",">>), Str(<<"QUOTE">>), List(<<>>),
        List(<<Num("1")>>), Obj(<<Pair(A, List(<<>>))>>), Obj(<<Pair(<<",">>, Str(<<"1">>))>>),
        Obj(<<Pair(A, Str(<<"nope">>))>>), Obj(<<Pair(A, Str(<<"a", "SP", "b">>))>>),
        Obj(<<Pair(A, Str(<<"TAB">>))>>), Obj(<<Pair(<<"true">>, Null), Pair(A, Str(<<"true">>))>>)}

Lists(n, S) == {List(xs) : xs \in [1..n -> S]}

\* A table of two rows, as it occurs inside other values.
Inner == List(<<Obj(<<Pair(A, Num("1"))>>), Obj(<<Pair(A, Null)>>)>>)

MCDocs ==
    Lists(2, Rows(Cells))
    \cup Lists(2, Odd)
    \cup Lists(4, Rows({Num("1")}) \ {Obj(<<>>)})
    \cup {Obj(<<Pair(A, x), Pair(B, y)>>) : x \in Odd \cup {Inner}, y \in {Inner, Num("1")}}
    \cup {List(<<x, Inner, y>>) : x, y \in {Inner, Num("1")}}
    \cup {List(<<Obj(<<Pair(A, Inner)>>), Obj(<<Pair(A, Inner)>>)>>)}

Default == [Json EXCEPT !.noZenGrid = FALSE]

MCOptions ==
    {Json, Default, [Default EXCEPT !.noRowCount = TRUE],
     [Default EXCEPT !.delimiter = "TAB"],
     [Default EXCEPT !.delimiter = "|", !.unquotedKeys = TRUE]}

\* Documents for the options that leave more out: two columns, so that an
\* empty row still has its delimiter, and strings no bare cell can confuse.
CompactRows ==
    {Obj(<<Pair(A, v), Pair(B, w)>>) : v, w \in {Null, Num("1"), Str(B), Str(<<"a", "SP", "b">>),
                                                 Str(<<"$">>), Str(<<>>)}}
CompactDocs == Lists(2, CompactRows)
CompactOptions ==
    {[Default EXCEPT !.implicitNull = TRUE],
     [Default EXCEPT !.bareStrings = TRUE, !.delimiter = "TAB"],
     [Default EXCEPT !.implicitNull = TRUE, !.bareStrings = TRUE, !.delimiter = "|"]}

\* Values nested up to five deep, lists and objects mixed, around a number, an
\* empty container or a table.
RECURSIVE Nested(_)
Nested(n) ==
    IF n = 0 THEN {Num("1"), List(<<>>), Obj(<<>>), Inner}
    ELSE {List(<<x>>) : x \in Nested(n - 1)} \cup {Obj(<<Pair(A, x)>>) : x \in Nested(n - 1)}
DeepDocs == UNION {Nested(n) : n \in 0..5}
DeepCases == DeepDocs \X {Json, Default}

\* Lists that begin as a table, exact in the fast sample or nearly so in the
\* slow one, and go on behind it with any item.
One == Obj(<<Pair(A, Num("1"))>>)
Two == Obj(<<Pair(A, Num("1")), Pair(B, Num("2"))>>)
Tails == Odd \cup Rows({Num("1")}) \cup {Null, Inner, Str(<<"true">>)}
LongDocs ==
    {List(<<r, r, x>>) : r \in {One, Two}, x \in Tails}
        \cup {List(<<Two, r, Two, Two, x>>) : r \in {One, Two}, x \in Tails}
        \cup {Obj(<<Pair(A, List(<<Two, Two, x, y>>))>>) : x, y \in {Null, One, Two, Inner}}

MCCases == (LongDocs \X MCOptions) \cup (MCDocs \X MCOptions) \cup (CompactDocs \X CompactOptions) \cup DeepCases

\* Documents that do not survive, one for each reason.
ExtraKey ==
    {List(<<Obj(<<Pair(A, Num("1"))>>), Obj(<<Pair(A, Num("1")), Pair(B, Num("2"))>>)>>)}
        \X {Default}
OddEleventh ==
    {List([i \in 1..11 |-> IF i = 11 THEN Num("2") ELSE Obj(<<Pair(A, Num("1"))>>)])}
        \X {Default}
LiteralWord ==
    {List(<<Obj(<<Pair(A, Str(<<"true">>))>>), Obj(<<Pair(A, Str(B))>>)>>)}
        \X {[Default EXCEPT !.bareStrings = TRUE]}
HyphenKey ==
    {Obj(<<Pair(<<"a", "-", "b">>, Num("1"))>>)}
        \X {[Default EXCEPT !.unquotedKeys = TRUE]}
EmptyTabCell ==
    {List(<<Obj(<<Pair(A, Null), Pair(B, Num("1"))>>), Obj(<<Pair(A, Null), Pair(B, Num("2"))>>)>>)}
        \X {[Default EXCEPT !.implicitNull = TRUE, !.delimiter = "TAB"]}

LostCases == ExtraKey \cup OddEleventh \cup LiteralWord \cup HyphenKey \cup EmptyTabCell
=============================================================================
