----------------------------- MODULE ZenText --------------------------------
(***************************************************************************)
(* MarshalOptions on a value tree (encode.go), compact output: encode,     *)
(* encodeObject, encodeListOrTable, writeArray, writeZenFrame, writeZenRow,*)
(* given what encode returns to its own callees.                           *)
(***************************************************************************)
EXTENDS ZenLayout

CONSTANT Encode(_, _)   \* what a nested call of encode writes (ZenEncoder)
-----------------------------------------------------------------------------
\* One cell: writeZenRow and the methods of Cells (stream.go).
CellOf(v, o) ==
    IF v = Null THEN IF o.implicitNull THEN <<>> ELSE <<Raw("null")>>
    ELSE IF o.bareStrings /\ IsStr(v) THEN HeaderText(v.str)
    ELSE Encode(v, o)

\* writeZenRow: the cell of the row's value for h, or of its absence.
CellText(row, h, o) ==
    CellOf(IF HasKey(row.obj, h) THEN ValueAt(row.obj, h) ELSE Null, o)

\* Mutant: the cells are written in the row's own order.
RowText_OwnOrder(row, headers, o) ==
    IF ~IsObj(row) THEN Encode(row, o)
    ELSE Joined([i \in DOMAIN row.obj |-> CellText(row, row.obj[i].key, o)], Sep(o))

\* writeZenRow: the cells in header order; anything but an object is encoded
\* as it is.
RowText(row, headers, o) ==
    IF ~IsObj(row) THEN Encode(row, o)
    ELSE Joined([i \in DOMAIN headers |-> CellText(row, headers[i], o)], Sep(o))

\* writeZenFrame: a whole table.
TableText(arr, headers, o) ==
    TableHead(Len(arr), headers, o)
    \o FlattenSeq([i \in DOMAIN arr |->
                       <<Raw(";"), Raw("SP")>> \o RowText(arr[i], headers, o)])
    \o <<Raw("SP"), Raw("]")>>

\* encode, encodeObject, encodeListOrTable and writeArray.
EncodeStep(v, o) ==
    CASE "lit" \in DOMAIN v -> <<Raw(v.lit)>>
      [] "num" \in DOMAIN v -> <<Raw(v.num)>>
      [] IsStr(v)  -> <<Quoted(v.str)>>
      [] IsObj(v)  -> <<Raw("{")>>
                      \o Joined([i \in DOMAIN v.obj |->
                                     KeyText(v.obj[i].key, o) \o <<Raw(":")>>
                                         \o Encode(v.obj[i].val, o)], <<Raw(",")>>)
                      \o <<Raw("}")>>
      [] IsList(v) /\ IsTable(v.list, o) -> TableText(v.list, HeadersOf(v.list), o)
      [] IsList(v) /\ ~IsTable(v.list, o) ->
                      <<Raw("[")>>
                      \o Joined([i \in DOMAIN v.list |-> Encode(v.list[i], o)], <<Raw(",")>>)
                      \o <<Raw("]")>>
=============================================================================
