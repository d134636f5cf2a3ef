------------------------------ MODULE ZenWriter ------------------------------
(***************************************************************************)
(* The streaming writer (stream.go): calls append tokens to a buffer, with *)
(* no value tree.  Each action is one call; Table is one call that calls   *)
(* back for every row, so it is the actions OpenTable, BeginRow, one Cell  *)
(* per header, and EndTable.                                               *)
(*                                                                         *)
(* The caller keeps to the protocol the comments state: Field is followed  *)
(* by exactly one value, a row gets exactly one cell per header, Table is  *)
(* called at the top level, containers are closed by their own kind.  It   *)
(* gives every member of an object a key of its own, as generated codecs   *)
(* do, and stops at the first error.                                       *)
(*                                                                         *)
(* built and root are not in the code: they are the value the calls        *)
(* describe, which the buffer is compared with.                            *)
(***************************************************************************)
EXTENDS ZenText

CONSTANTS
    WriterOptions,  \* the options a Writer is created with
    FieldNames,     \* the keys passed to Field
    Leaves,         \* the values written by one call outside a table
    CellValues,     \* the values written by one call of Cells
    ColumnLists,    \* the headers passed to Table
    Trees,          \* the values that d open containers can hold, for each d
    MaxOpen,        \* bound: containers open at once
    MaxElements,    \* bound: elements of one container
    MaxRows         \* bound: rows of a table

\* The options without tables.
Plain(o) == [o EXCEPT !.noZenGrid = TRUE]

ASSUME CallsAssumption ==
    /\ WriterOptions \subseteq Options /\ FieldNames \subseteq Seq(STRING)
    /\ \A headers \in ColumnLists :
           headers \in Seq(Seq(STRING)) \ {<<>>} /\ IsInjective(headers)
    /\ \A v \in CellValues : IsStr(v) => v.str \in Seq(STRING)
    /\ MaxOpen \in Nat /\ MaxElements \in Nat /\ MaxRows \in Nat

\* What is written for a leaf or a cell is a sequence of tokens, and no table.
ASSUME LeavesAssumption == \A o \in WriterOptions :
    /\ \A v \in Leaves \cup CellValues : Encode(v, o) \in Seq(Range(Encode(v, o)))
    /\ \A v \in Leaves : Encode(v, Plain(o)) = Encode(v, o)

\* The arrays and objects of values in S, and the rows of a table.
Containers(S) ==
    {List(xs) : xs \in BoundedSeq(S, MaxElements)}
        \cup {Obj(ms) : ms \in BoundedSeq([key : FieldNames, val : S], MaxElements)}
RowOf(headers, cells) == Obj([i \in DOMAIN headers |-> [key |-> headers[i], val |-> cells[i]]])
RowsOf(headers) == {RowOf(headers, cells) : cells \in [DOMAIN headers -> CellValues]}

\* A leaf fits everywhere, and a container of what it may hold where it stands.
ASSUME TreesAssumption ==
    /\ \A d \in 0..MaxOpen : Leaves \subseteq Trees[d]
    /\ \A d \in 1..MaxOpen : Containers(Trees[d]) \subseteq Trees[d - 1]

\* On what the calls describe, Encode is what encode makes of its nested calls:
\* it holds of ZenEncoder's EncodedText by definition.
ASSUME EncodeAssumption == \A o \in WriterOptions :
    /\ \A d \in 1..MaxOpen : \A v \in Containers(Trees[d]) :
           Encode(v, Plain(o)) = EncodeStep(v, Plain(o))
    /\ \A headers \in ColumnLists : \A rows \in BoundedSeq(RowsOf(headers), MaxRows) :
           Encode(List(rows), o) = EncodeStep(List(rows), o)

VARIABLES
    wopts,      \* encoder.opts
    buf,        \* encoder.buf
    frames,     \* Writer.stack: the kind of each container, its elements so far
    table,      \* the call of Table in progress, or None
    failed,     \* a call has returned an error
    built,      \* the values of the open containers so far
    root        \* the value written at the top level, or None

writerVars == <<wopts, buf, frames, table, failed, built, root>>
-----------------------------------------------------------------------------
None == [none |-> TRUE]

\* The sequence s with x in place of its last element.
WithLast(s, x) == Append(Front(s), x)

\* The caller may write a value: the first at the top level, an array's next
\* element, or the value of the field just written.
Expecting ==
    /\ ~failed
    /\ table = None
    /\ IF frames = <<>> THEN root = None
       ELSE /\ Last(frames).kind = "o" => Last(built).pending
            /\ Last(frames).kind = "a" => Last(frames).n < MaxElements

\* Mutant: the comma depends on the nesting, not on the element count.
Separator_ByDepth ==
    IF Len(frames) > 1 /\ Last(frames).kind = "a" THEN <<Raw(",")>> ELSE <<>>

\* beforeValue: the comma before every element of an array but the first ...
Separator ==
    IF frames # <<>> /\ Last(frames).kind = "a" /\ Last(frames).n > 0
    THEN <<Raw(",")>> ELSE <<>>

\* ... and the count of its elements.
Counted ==
    IF frames # <<>> /\ Last(frames).kind = "a"
    THEN WithLast(frames, [Last(frames) EXCEPT !.n = @ + 1]) ELSE frames

\* The open values b with v as the next element of the innermost.
Holding(b, v) ==
    LET f == Last(b) IN
    WithLast(b, IF f.kind = "o"
                THEN [f EXCEPT !.members = Append(@, [key |-> f.key, val |-> v]),
                               !.pending = FALSE]
                ELSE [f EXCEPT !.items = Append(@, v)])

\* The value v is complete: an element of the innermost of the open values b,
\* or the whole document.
Completed(b, v) ==
    IF b = <<>> THEN root' = [val |-> v, byTable |-> FALSE] /\ built' = b
    ELSE built' = Holding(b, v) /\ UNCHANGED root
-----------------------------------------------------------------------------
WriterInit ==
    /\ wopts \in WriterOptions
    /\ buf = <<>>
    /\ frames = <<>>
    /\ table = None
    /\ failed = FALSE
    /\ built = <<>>
    /\ root = None

\* Null, Bool, Int, Uint, BigInt, Float, String, Base64, and Value, which
\* encodes any tree.
WriteLeaf(v) ==
    /\ Expecting
    /\ buf' = buf \o Separator \o Encode(v, wopts)
    /\ frames' = Counted
    /\ Completed(built, v)
    /\ UNCHANGED <<wopts, table, failed>>

\* Value returns an error: what came before the part of v that cannot be
\* encoded has been written.
ValueFails(v) ==
    /\ Expecting
    /\ \E n \in 0..(Len(Encode(v, wopts)) - 1) :
           buf' = buf \o Separator \o SubSeq(Encode(v, wopts), 1, n)
    /\ frames' = Counted
    /\ failed' = TRUE
    /\ UNCHANGED <<wopts, table, built, root>>

BeginObject ==
    /\ Expecting
    /\ Len(frames) < MaxOpen
    /\ buf' = buf \o Separator \o <<Raw("{")>>
    /\ frames' = Append(Counted, [kind |-> "o", n |-> 0])
    /\ built' = Append(built, [kind |-> "o", members |-> <<>>, key |-> <<>>, pending |-> FALSE])
    /\ UNCHANGED <<wopts, table, failed, root>>

BeginArray ==
    /\ Expecting
    /\ Len(frames) < MaxOpen
    /\ buf' = buf \o Separator \o <<Raw("[")>>
    /\ frames' = Append(Counted, [kind |-> "a", n |-> 0])
    /\ built' = Append(built, [kind |-> "a", items |-> <<>>])
    /\ UNCHANGED <<wopts, table, failed, root>>

\* The innermost container is an object, and its last field has its value.
AfterMember == ~failed /\ frames # <<>> /\ Last(frames).kind = "o" /\ ~Last(built).pending

Field(k) ==
    LET f == Last(frames)
        b == Last(built)
    IN
    /\ AfterMember
    /\ f.n < MaxElements
    /\ ~HasKey(b.members, k)
    /\ buf' = buf \o (IF f.n > 0 THEN <<Raw(",")>> ELSE <<>>)
                  \o KeyText(k, wopts) \o <<Raw(":")>>
    /\ frames' = WithLast(frames, [f EXCEPT !.n = @ + 1])
    /\ built' = WithLast(built, [b EXCEPT !.key = k, !.pending = TRUE])
    /\ UNCHANGED <<wopts, table, failed, root>>

EndObject ==
    /\ AfterMember
    /\ buf' = Append(buf, Raw("}"))
    /\ frames' = Front(frames)
    /\ Completed(Front(built), Obj(Last(built).members))
    /\ UNCHANGED <<wopts, table, failed>>

EndArray ==
    /\ ~failed
    /\ frames # <<>>
    /\ Last(frames).kind = "a"
    /\ buf' = Append(buf, Raw("]"))
    /\ frames' = Front(frames)
    /\ Completed(Front(built), List(Last(built).items))
    /\ UNCHANGED <<wopts, table, failed>>
-----------------------------------------------------------------------------
\* Table, and writeZenFrame up to its rows.
OpenTable(headers, n) ==
    /\ Expecting
    /\ frames = <<>>
    /\ buf' = buf \o TableHead(n, headers, wopts)
    /\ table' = [headers |-> headers, nRows |-> n, rows |-> <<>>, row |-> <<>>,
                 col |-> Len(headers)]
    /\ UNCHANGED <<wopts, frames, failed, built, root>>

\* The row before, if any, has all its cells.
BetweenRows == ~failed /\ table # None /\ table.col = Len(table.headers)
InRow == ~failed /\ table # None /\ table.col < Len(table.headers)

\* writeZenFrame: the next row begins, and Table resets c.col.
BeginRow ==
    /\ BetweenRows
    /\ Len(table.rows) < table.nRows
    /\ buf' = buf \o <<Raw(";"), Raw("SP")>>
    /\ table' = [table EXCEPT !.row = <<>>, !.col = 0]
    /\ UNCHANGED <<wopts, frames, failed, built, root>>

\* Mutant: the count of cells is not reset for a new row.
CellSep_NoReset ==
    IF table.col > 0 \/ table.rows # <<>> THEN Sep(wopts) ELSE <<>>

\* Cells.pre: the delimiter before every cell but a row's first.
CellSep == IF table.col > 0 THEN Sep(wopts) ELSE <<>>

\* A method of Cells writes the cell v.
Cell(v) ==
    /\ InRow
    /\ buf' = buf \o CellSep \o CellOf(v, wopts)
    /\ LET col == table.col + 1
           row == Append(table.row, [key |-> table.headers[col], val |-> v])
       IN  table' = [table EXCEPT !.col = col, !.row = row,
                         !.rows = IF col = Len(table.headers) THEN Append(@, Obj(row)) ELSE @]
    /\ UNCHANGED <<wopts, frames, failed, built, root>>

\* Mutant: the table is closed all the same.
CellFails_Closes ==
    /\ InRow
    /\ \E cut \in {buf, buf \o CellSep} : buf' = cut \o <<Raw("SP"), Raw("]")>>
    /\ failed' = TRUE
    /\ UNCHANGED <<wopts, frames, table, built, root>>

\* writeRow itself returns an error, or Cells.Value does, with what came before
\* the part of v that cannot be encoded written; and Table returns it.
CellFails ==
    /\ InRow
    /\ \/ UNCHANGED buf
       \/ \E v \in Leaves : \E n \in 0..(Len(Encode(v, wopts)) - 1) :
             buf' = buf \o CellSep \o SubSeq(Encode(v, wopts), 1, n)
    /\ failed' = TRUE
    /\ UNCHANGED <<wopts, frames, table, built, root>>

\* writeZenFrame: all the rows have been written.
EndTable ==
    /\ BetweenRows
    /\ Len(table.rows) = table.nRows
    /\ buf' = buf \o <<Raw("SP"), Raw("]")>>
    /\ root' = [val |-> List(table.rows), byTable |-> TRUE]
    /\ table' = None
    /\ UNCHANGED <<wopts, frames, failed, built>>

WriterNext ==
    \/ \E v \in Leaves : WriteLeaf(v) \/ ValueFails(v)
    \/ BeginObject
    \/ BeginArray
    \/ \E k \in FieldNames : Field(k)
    \/ EndObject
    \/ EndArray
    \/ \E headers \in ColumnLists, n \in 0..MaxRows : OpenTable(headers, n)
    \/ BeginRow
    \/ \E v \in CellValues : Cell(v)
    \/ CellFails
    \/ EndTable

WriterSpec == WriterInit /\ [][WriterNext]_writerVars
-----------------------------------------------------------------------------
\* Values streamed without Table are what Marshal writes for them without
\* tables, however the calls nest: the commas come from counts kept per
\* container, over calls that do not see each other.
PlainStream ==
    root # None /\ ~root.byTable => buf = Encode(root.val, Plain(wopts))

\* "the output is byte-identical to Marshaling the equivalent slice of
\* objects" (Table), for the slices Marshal does write as a table.
TableStream ==
    root # None /\ root.byTable /\ IsTable(root.val.list, wopts)
        => buf = Encode(root.val, wopts)
=============================================================================
