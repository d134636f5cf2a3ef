--------------------------- MODULE MCWriterReload ---------------------------
(***************************************************************************)
(* The values, headers and options of the writer runs.                     *)
(***************************************************************************)
EXTENDS WriterReload

\* No value of the run nests as deep as 8.  The LET keeps TLC's coverage
\* statistics from following the override into itself.
Encoder == INSTANCE ZenEncoder WITH MaxDepth <- 8
MCEncode(v, o) == LET text == Encoder!EncodedText(v, o) IN text

MCWriterOptions ==
    LET default == [delimiter |-> ",", noZenGrid |-> FALSE, noRowCount |-> FALSE,
                    implicitNull |-> FALSE, bareStrings |-> FALSE, unquotedKeys |-> FALSE]
    IN  {default,
         [default EXCEPT !.delimiter = "TAB", !.bareStrings = TRUE],
         [default EXCEPT !.delimiter = "|", !.implicitNull = TRUE, !.noRowCount = TRUE,
                         !.unquotedKeys = TRUE]}

MCFieldNames  == {<<"a">>, <<"b", "SP">>}
MCLeaves      == {Str(<<"a">>), List(<<Num("1"), Null>>)}
MCCellValues  == {Null, Num("1"), Str(<<"b">>), Str(<<"a", "SP">>)}
MCTrees ==
    LET inner == MCLeaves \cup Containers(MCLeaves)
    IN  [d \in 0..2 |-> CASE d = 2 -> MCLeaves
                          [] d = 1 -> inner
                          [] d = 0 -> inner \cup Containers(inner)]
MCColumnLists == {<<<<"a">>>>, <<<<"b">>, <<"1">>>>}
=============================================================================
