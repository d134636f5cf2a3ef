------------------------------ MODULE ZenParser ------------------------------
(***************************************************************************)
(* The container half of Parse (decode.go): parseValue, parseObject,       *)
(* parseArrayOrGrid, parseArrayBody, parseZenGrid, parseHeaders, parseRow  *)
(* and parseCellValue, over tokens.                                        *)
(*                                                                         *)
(* The recursion of the code is a stack of open containers.  mode says     *)
(* which loop of the code runs next, for the container on top:             *)
(*                                                                         *)
(*   "value"   parseValue is about to be called                            *)
(*   "got"     parseValue (or parseCellValue) has returned val             *)
(*   "key"     the top of parseObject's loop                               *)
(*   "header"  the top of parseHeaders' loop                               *)
(*   "row"     the top of parseZenGrid's loop                              *)
(*   "cell"    the top of parseRow's loop                                  *)
(*   "accept", "reject"   Parse has returned val, or an error              *)
(*                                                                         *)
(* Each action is what the code does between two of these points, so the   *)
(* position it reads at and the whitespace it skips are those of the code. *)
(***************************************************************************)
EXTENDS JtonValue, FiniteSets, SequencesExt

CONSTANTS
    Inputs,         \* the texts parsed
    MaxParseDepth   \* maxParseDepth: 10000 in the code

\* No token passes for the end of the text.
ASSUME InputsAssumption ==
    /\ Inputs \subseteq Seq([raw : STRING \ {"EOF"}] \cup [quoted : Seq(STRING)])
    /\ "EOF" \notin KeyRuns

ASSUME DepthAssumption == MaxParseDepth \in Nat

VARIABLES
    input,      \* parser.data
    pos,        \* parser.pos, counted from 1
    mode,       \* where the code is
    stack,      \* the open containers, innermost last
    val         \* the value the last parseValue returned

vars == <<input, pos, mode, stack, val>>
-----------------------------------------------------------------------------
White      == {"SP", "TAB", "NL", "CMT"}    \* what skipWS skips
AsciiSpace == {"SP", "TAB", "NL"}           \* what isAsciiSpace accepts
Delimiters == {",", "TAB", "|"}             \* what separates cells and headers
CellEnds   == Delimiters \cup {";", "]"}    \* where an unquoted cell stops

\* The byte at q, as the switches of the code look at it: a quoted token shows
\* its opening quote, a position past the end shows "EOF".
ByteAt(q) ==
    IF q > Len(input) THEN "EOF"
    ELSE IF "quoted" \in DOMAIN input[q] THEN "QUOTE" ELSE input[q].raw

\* The first position from q on that holds none of the bytes of S.
After(S, q) ==
    CHOOSE r \in q..(Len(input) + 1) :
        /\ ByteAt(r) \notin S
        /\ \A m \in q..(r - 1) : ByteAt(m) \in S

SkipWS(q)     == After(White, q)
SkipSpaces(q) == After({"SP"}, q)    \* skipSpacesOnly

\* Bytes parseCellValue hands to parseValue; the others start an unquoted cell.
ValueStarts == {"{", "[", "QUOTE", "-"} \cup Numbers \cup Literals \cup FalseStarts

\* Mutant: parseValue's switch has no case for N.
IsScalar_NoNaN(q) == ByteAt(q) \in {"QUOTE"} \cup Numbers \cup (Literals \ {"NaN"})

\* parseString, parseNumber and parseLiteral on the token at q.
IsScalar(q) == ByteAt(q) \in {"QUOTE"} \cup Numbers \cup Literals
ScalarAt(q) ==
    CASE ByteAt(q) = "QUOTE"    -> Str(input[q].quoted)
      [] ByteAt(q) \in Numbers  -> Num(ByteAt(q))
      [] ByteAt(q) \in Literals -> Lit(ByteAt(q))

\* parseKey and parseHeaderKey agree on quoted names.
IsKey(q) == ByteAt(q) \in {"QUOTE"} \cup KeyRuns
KeyAt(q) == IF ByteAt(q) = "QUOTE" THEN input[q].quoted ELSE <<ByteAt(q)>>

\* The pieces of the tokens in q..r, without their trailing spaces.
TrimmedEnd(q, r) ==
    CHOOSE e \in (q - 1)..r :
        /\ e >= q => ByteAt(e) \notin AsciiSpace
        /\ \A m \in (e + 1)..r : ByteAt(m) \in AsciiSpace
TextOf(q, r) == [i \in 1..(r - q + 1) |-> ByteAt(q + i - 1)]

\* A backslash in an unquoted cell that started at q takes the next byte as it
\* is; one preceded by an odd number of backslashes is itself taken.
Escaped(q, r) ==
    \E m \in q..(r - 1) :
        /\ \A x \in m..(r - 1) : ByteAt(x) = "BSL"
        /\ m = q \/ ByteAt(m - 1) # "BSL"
        /\ (r - m) % 2 = 1

\* Where the unquoted cell that starts at q stops.
BareEnd(q) ==
    CHOOSE r \in q..(Len(input) + 1) :
        /\ ByteAt(r) = "EOF" \/ (ByteAt(r) \in CellEnds /\ ~Escaped(q, r))
        /\ \A m \in q..(r - 1) : ByteAt(m) \notin CellEnds \/ Escaped(q, m)

\* Its text: the escaping backslashes dropped.
Unescaped(q, e) ==
    FoldLeft(LAMBDA s, i : IF ByteAt(i) = "BSL" /\ ~Escaped(q, i)
                           THEN s ELSE Append(s, ByteAt(i)),
             <<>>, [i \in 1..(e - q + 1) |-> q + i - 1])
BareValue(q, r) ==
    LET e == TrimmedEnd(q, r - 1)
    IN  IF e < q THEN Null ELSE Str(Unescaped(q, e))
-----------------------------------------------------------------------------
Top == stack[Len(stack)]
Below == SubSeq(stack, 1, Len(stack) - 1)
WithTop(f) == Append(Below, f)
In(kind) == stack # <<>> /\ Top.kind = kind

\* Mutant: the depth is compared before it is counted.
CanNest_OffByOne == Len(stack) <= MaxParseDepth

\* parseValue's depth check: p.depth is the number of open containers.
CanNest == Len(stack) < MaxParseDepth

ObjFrame  == [kind |-> "obj", members |-> <<>>, key |-> <<>>]
ArrFrame  == [kind |-> "arr", items |-> <<>>]
GridFrame == [kind |-> "grid", headers |-> <<>>, rows |-> <<>>, row |-> <<>>, col |-> 1]

Reject == mode' = "reject" /\ UNCHANGED <<input, pos, stack, val>>

\* Go on at position q in mode m, with the stack s.
Continue(m, q, s) ==
    mode' = m /\ pos' = q /\ stack' = s /\ UNCHANGED <<input, val>>

\* parseValue or a container loop returns v, with the text consumed up to q.
Return(v, q, s) ==
    mode' = "got" /\ pos' = q /\ val' = v /\ stack' = s /\ UNCHANGED input

\* The row as it is returned: fillNull has given the missing cells null.
Filled(f) ==
    FoldLeft(LAMBDA ms, h : Put(ms, h, Null), f.row,
             SubSeq(f.headers, f.col, Len(f.headers)))
RowDone(f) == [f EXCEPT !.rows = Append(@, Obj(Filled(f))), !.row = <<>>, !.col = 1]
-----------------------------------------------------------------------------
\* Parse begins.
AtStart ==
    /\ pos = 1
    /\ mode = "value"
    /\ stack = <<>>
    /\ val = Null

Init == input \in Inputs /\ AtStart

\* parseValue: a string, number or literal.
ReadScalar ==
    LET q == SkipWS(pos) IN
    /\ mode = "value"
    /\ IsScalar(q)
    /\ Return(ScalarAt(q), q + 1, stack)

\* parseValue: "{", and parseObject begins.
OpenObject ==
    LET q == SkipWS(pos) IN
    /\ mode = "value"
    /\ ByteAt(q) = "{"
    /\ CanNest
    /\ Continue("key", q + 1, Append(stack, ObjFrame))

\* parseValue: "[", and parseArrayOrGrid decides what follows.  A colon, alone
\* or after a row count and spaces, makes it a Zen Grid.  Either kind may be
\* empty.
OpenArray ==
    LET q == SkipWS(pos)
        p == SkipWS(q + 1)
        c == IF ByteAt(p) \in Numbers THEN SkipSpaces(p + 1) ELSE p
        h == SkipWS(c + 1)
    IN
    /\ mode = "value"
    /\ ByteAt(q) = "["
    /\ CanNest
    /\ \/ /\ ByteAt(c) = ":"
          /\ ByteAt(h) = "]"
          /\ Return(List(<<>>), h + 1, stack)
       \/ /\ ByteAt(c) = ":"
          /\ ByteAt(h) # "]"
          /\ Continue("header", h, Append(stack, GridFrame))
       \/ /\ ByteAt(c) # ":"
          /\ ByteAt(p) = "]"
          /\ Return(List(<<>>), p + 1, stack)
       \/ /\ ByteAt(c) # ":"
          /\ ByteAt(p) # "]"
          /\ Continue("value", p, Append(stack, ArrFrame))

\* parseValue: no value starts here, or it would nest too deep.
NoValue ==
    LET q == SkipWS(pos) IN
    /\ mode = "value"
    /\ ~IsScalar(q)
    /\ ByteAt(q) \in {"{", "["} => ~CanNest
    /\ Reject

\* Parse: the document is complete, only whitespace may follow.
EndDocument ==
    /\ mode = "got"
    /\ stack = <<>>
    /\ IF ByteAt(SkipWS(pos)) = "EOF"
       THEN mode' = "accept" /\ UNCHANGED <<input, pos, stack, val>>
       ELSE Reject

\* parseObject: the loop's top, a key and its colon, or the closing brace
\* (which may follow a comma).
ReadKey ==
    LET q == SkipWS(pos)
        c == SkipWS(q + 1)
    IN
    /\ mode = "key"
    /\ \/ /\ ByteAt(q) = "}"
          /\ Return(Obj(Top.members), q + 1, Below)
       \/ /\ IsKey(q)
          /\ ByteAt(c) = ":"
          /\ Continue("value", c + 1, WithTop([Top EXCEPT !.key = KeyAt(q)]))
       \/ /\ ByteAt(q) # "}"
          /\ ~(IsKey(q) /\ ByteAt(c) = ":")
          /\ Reject

\* parseObject: the member's value has been read.
EndMember ==
    LET q == SkipWS(pos)
        f == [Top EXCEPT !.members = Put(@, Top.key, val)]
    IN
    /\ mode = "got"
    /\ In("obj")
    /\ \/ ByteAt(q) = "," /\ Continue("key", q + 1, WithTop(f))
       \/ ByteAt(q) = "}" /\ Return(Obj(f.members), q + 1, Below)
       \/ ByteAt(q) \notin {",", "}"} /\ Reject

\* parseArrayBody: the item has been read; a comma may precede the bracket.
EndItem ==
    LET q == SkipWS(pos)
        r == SkipWS(q + 1)
        f == [Top EXCEPT !.items = Append(@, val)]
    IN
    /\ mode = "got"
    /\ In("arr")
    /\ \/ /\ ByteAt(q) = ","
          /\ ByteAt(r) = "]"
          /\ Return(List(f.items), r + 1, Below)
       \/ /\ ByteAt(q) = ","
          /\ ByteAt(r) # "]"
          /\ Continue("value", r, WithTop(f))
       \/ /\ ByteAt(q) = "]"
          /\ Return(List(f.items), q + 1, Below)
       \/ /\ ByteAt(q) \notin {",", "]"}
          /\ Reject

\* parseHeaders: one header and what follows it, or the semicolon that ends
\* the list.  An unquoted header runs to the next delimiter, whatever is in it.
ReadHeader ==
    LET q == SkipWS(pos)
        quoted == ByteAt(q) = "QUOTE"
        e == CHOOSE r \in q..(Len(input) + 1) :
                 /\ ByteAt(r) \in CellEnds \cup {"EOF"}
                 /\ \A m \in q..(r - 1) : ByteAt(m) \notin CellEnds
        name == IF quoted THEN KeyAt(q) ELSE TextOf(q, TrimmedEnd(q, e - 1))
        d == SkipSpaces(IF quoted THEN q + 1 ELSE e)
        f == [Top EXCEPT !.headers = Append(@, name)]
    IN
    /\ mode = "header"
    /\ \/ /\ ByteAt(q) = ";"
          /\ Continue("row", q + 1, stack)
       \/ /\ ByteAt(q) \notin {";", "EOF"}
          /\ ByteAt(d) \in Delimiters
          /\ Continue("header", d + 1, WithTop(f))
       \/ /\ ByteAt(q) \notin {";", "EOF"}
          /\ ByteAt(d) = ";"
          /\ Continue("row", d + 1, WithTop(f))
       \/ /\ ByteAt(q) = "EOF" \/ (ByteAt(q) # ";" /\ ByteAt(d) \notin Delimiters \cup {";"})
          /\ Reject

\* parseZenGrid: the loop's top, the closing bracket or another row.
NextRow ==
    LET q == SkipWS(pos) IN
    /\ mode = "row"
    /\ \/ ByteAt(q) = "]" /\ Return(List(Top.rows), q + 1, Below)
       \/ ByteAt(q) = "EOF" /\ Reject
       \/ ByteAt(q) \notin {"]", "EOF"} /\ Continue("cell", q, stack)

\* Mutant: the end of the text passes for the closing bracket.
EndRow_NoEndCheck(f, q) ==
    \/ ByteAt(q) = ";" /\ Continue("row", q + 1, WithTop(RowDone(f)))
    \/ ByteAt(q) \in {"]", "EOF"} /\ Return(List(RowDone(f).rows), q + 1, Below)

\* Mutant: the semicolon is not consumed.
EndRow_Stays(f, q) ==
    \/ ByteAt(q) = ";" /\ Continue("row", q, WithTop(RowDone(f)))
    \/ ByteAt(q) = "]" /\ Return(List(RowDone(f).rows), q + 1, Below)

\* Mutant: parseRow returns at the closing bracket before it calls fillNull.
EndRow_BracketFirst(f, q) ==
    \/ ByteAt(q) = ";" /\ Continue("row", q + 1, WithTop(RowDone(f)))
    \/ ByteAt(q) = "]" /\ Return(List(Append(f.rows, Obj(f.row))), q + 1, Below)

\* parseRow and parseZenGrid: the row ends at q, with frame f.
EndRow(f, q) ==
    \/ ByteAt(q) = ";" /\ Continue("row", q + 1, WithTop(RowDone(f)))
    \/ ByteAt(q) = "]" /\ Return(List(RowDone(f).rows), q + 1, Below)

\* parseRow: the loop's top, before a cell.
EndRowEarly ==
    LET q == SkipSpaces(pos) IN
    /\ mode = "cell"
    /\ EndRow(Top, q)

\* Mutant: parseRow does not check for the end of the text.
NoCell_NoEndCheck ==
    LET q == SkipSpaces(pos) IN
    /\ mode = "cell"
    /\ ByteAt(q) \notin {";", "]"}
    /\ Top.col > Len(Top.headers)
    /\ Reject

\* parseRow: no cell can be read here, because the text ends or because the
\* row has more cells than headers.
NoCell ==
    LET q == SkipSpaces(pos) IN
    /\ mode = "cell"
    /\ ByteAt(q) \notin {";", "]"}
    /\ \/ ByteAt(SkipWS(q)) = "EOF"
       \/ Top.col > Len(Top.headers)
    /\ Reject

\* parseCellValue: a value proper.
OpenCell ==
    LET q == SkipSpaces(pos)
        w == SkipWS(q)
    IN
    /\ mode = "cell"
    /\ ByteAt(q) \notin {";", "]"}
    /\ Top.col <= Len(Top.headers)
    /\ ByteAt(w) \in ValueStarts
    /\ Continue("value", w, stack)

\* parseCellValue: an unquoted cell.
BareCell ==
    LET q == SkipSpaces(pos)
        w == SkipWS(q)
    IN
    /\ mode = "cell"
    /\ ByteAt(q) \notin {";", "]"}
    /\ Top.col <= Len(Top.headers)
    /\ ByteAt(w) \notin ValueStarts \cup {"EOF"}
    /\ Return(BareValue(w, BareEnd(w)), BareEnd(w), stack)

\* parseRow: the cell has been read; setOrPush stores it.
EndCell ==
    LET q == SkipSpaces(pos)
        f == [Top EXCEPT !.row = Put(@, Top.headers[Top.col], val), !.col = @ + 1]
    IN
    /\ mode = "got"
    /\ In("grid")
    /\ \/ ByteAt(q) \in Delimiters /\ Continue("cell", q + 1, WithTop(f))
       \/ EndRow(f, q)
       \/ ByteAt(q) \notin Delimiters \cup {";", "]"} /\ Reject

Finished == mode \in {"accept", "reject"}

Next ==
    \/ ReadScalar
    \/ OpenObject
    \/ OpenArray
    \/ NoValue
    \/ EndDocument
    \/ ReadKey
    \/ EndMember
    \/ EndItem
    \/ ReadHeader
    \/ NextRow
    \/ EndRowEarly
    \/ NoCell
    \/ OpenCell
    \/ BareCell
    \/ EndCell

\* Parse is a plain call: it runs until it returns.
Spec == Init /\ [][Next]_vars /\ WF_vars(Next)
-----------------------------------------------------------------------------
Modes == {"value", "got", "key", "header", "row", "cell", "accept", "reject"}

TypeOK ==
    /\ pos \in 1..(Len(input) + 1)
    /\ mode \in Modes
    /\ \A i \in DOMAIN stack : stack[i].kind \in {"obj", "arr", "grid"}
    /\ mode = "key" => In("obj")
    /\ mode \in {"header", "row", "cell"} => In("grid")
    /\ mode = "accept" => stack = <<>>

\* No text opens more containers than maxParseDepth, through any mixture of
\* objects, arrays and the values inside table cells.
NestingBounded == Len(stack) <= MaxParseDepth

\* The names ks are the distinct ones of the first n of the headers hs, in the
\* order in which they first appear there.
ColumnsOf(ks, hs, n) ==
    /\ \A i \in DOMAIN ks : \E m \in 1..n : hs[m] = ks[i]
    /\ \A m \in 1..n : \E i \in DOMAIN ks : ks[i] = hs[m]
    /\ \A i, j \in DOMAIN ks : i < j =>
           \E m \in 1..n : hs[m] = ks[i] /\ \A p \in 1..m : hs[p] # ks[j]

\* Whatever list parseZenGrid returns, each of its rows has every column, in
\* header order: those ended by a semicolon and the last one, which the closing
\* bracket may end before its first cell, after a delimiter or after a cell.
\* Repeated headers count once.
RowsComplete ==
    [][In("grid") /\ stack' = Below =>
           \A r \in DOMAIN val'.list :
               ColumnsOf(KeysInOrder(val'.list[r].obj), Top.headers, Len(Top.headers))]_vars

\* How much parsing is left: the text first, then how far the code has come at
\* this position.
Rank ==
    CASE mode \in {"accept", "reject"}    -> 0
      [] mode = "got"                     -> 1
      [] mode \in {"value", "key", "header"} -> 2
      [] mode = "cell"                    -> 3
      [] mode = "row"                     -> 4
Remaining == 5 * (Len(input) + 1 - pos) + Rank

\* No loop of the parser goes round without consuming a byte: an empty cell,
\* an empty header or an empty row always leads to a step that does.
Progress == [][Remaining' < Remaining]_vars

\* Parse returns, for every text.
Terminates == <>Finished
=============================================================================
