----------------------------- MODULE ZenLayout ------------------------------
(***************************************************************************)
(* What MarshalOptions and the Writer write around the values: keys,       *)
(* headers, separators and the head of a table (encode.go), compact output.*)
(* The text is a sequence of tokens (JtonValue).                           *)
(***************************************************************************)
EXTENDS ZenDetect, SequencesExt

\* Options: the fields of jton.Options that compact output depends on.
Options ==
    [delimiter : {",", "TAB", "|"}, noZenGrid : BOOLEAN, noRowCount : BOOLEAN,
     implicitNull : BOOLEAN, bareStrings : BOOLEAN, unquotedKeys : BOOLEAN]
-----------------------------------------------------------------------------
\* The tokens of s written without quotes.
Spelled(s) == [i \in DOMAIN s |-> Raw(s[i])]

\* isValidIdentifier: a letter, _ or $, then also digits and hyphens.
IsValidIdentifier(s) ==
    /\ s # <<>>
    /\ s[1] \in (KeyRuns \ Numbers) \cup {"$"}
    /\ \A i \in DOMAIN s : s[i] \in KeyRuns \cup {"$", "-"}

\* writeZenHeaderKey and writeKey.
HeaderText(h) == IF IsValidIdentifier(h) THEN Spelled(h) ELSE <<Quoted(h)>>
KeyText(k, o) == IF o.unquotedKeys THEN HeaderText(k) ELSE <<Quoted(k)>>

\* Delimiter.sep
Sep(o) ==
    CASE o.delimiter = ","   -> <<Raw(","), Raw("SP")>>
      [] o.delimiter = "TAB" -> <<Raw("TAB")>>
      [] o.delimiter = "|"   -> <<Raw("SP"), Raw("|"), Raw("SP")>>

\* The texts ts with sep before each but the first.
Joined(ts, sep) ==
    FlattenSeq([i \in DOMAIN ts |-> IF i = 1 THEN ts[i] ELSE sep \o ts[i]])

\* encodeListOrTable: whether the list becomes a Zen Grid.
IsTable(arr, o) == ~o.noZenGrid /\ DetectZenGrid(arr)

\* writeZenFrame: what precedes the rows of a table.
TableHead(n, headers, o) ==
    (IF o.noRowCount THEN <<Raw("[")>> ELSE <<Raw("["), Raw(ToString(n))>>)
    \o <<Raw(":"), Raw("SP")>>
    \o Joined([i \in DOMAIN headers |-> HeaderText(headers[i])], Sep(o))
=============================================================================
