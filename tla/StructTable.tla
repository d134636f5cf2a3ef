---------------------------- MODULE StructTable ----------------------------
(***************************************************************************)
(* A slice of structs, marshalled in two ways: through the value tree      *)
(* (reflectEncode, encodeStruct, reflect.go, and then encode), or straight *)
(* to a Zen Grid (tryStructTable and its helpers, marshal_reflect.go).     *)
(***************************************************************************)
EXTENDS ZenEncoder, GoValue
-----------------------------------------------------------------------------
\* normalizeForeign and encode: encodeList over the rows.
TreeText(rows, fields, o) ==
    EncodedText(List([i \in DOMAIN rows |-> EncodeStruct(rows[i], fields)]), o)
-----------------------------------------------------------------------------
\* The value of a column, as the plan's kind makes of it: the methods of its
\* type are not asked.
ColumnValue(v, col) ==
    LET w == Deref(v.fields[col.at]) IN
    IF col.type = "bytes" THEN Str(Base64[w.bytes]) ELSE w.leaf

\* structTableEligible: the strings of the sampled rows.
Eligible(rows, plan) ==
    \A i \in 1..AtMost(Len(rows), FastSample), c \in DOMAIN plan :
        (plan[c].type = "string" /\ rows[i].fields[plan[c].at] # Nil)
            => SafeZenString(ColumnValue(rows[i], plan[c]).str)

\* writeCellString
CellString(s, o) == IF o.bareStrings THEN HeaderText(s) ELSE <<Quoted(s)>>

\* Mutant: a nil pointer is always spelled out.
StructCell_NullSpelled(v, col, o) ==
    IF v.fields[col.at] = Nil THEN <<Raw("null")>>
    ELSE LET w == ColumnValue(v, col)
         IN  IF IsStr(w) THEN CellString(w.str, o) ELSE EncodedText(w, o)

\* writeStructRow: one cell, and the row.
StructCell(v, col, o) ==
    IF v.fields[col.at] = Nil THEN IF o.implicitNull THEN <<>> ELSE <<Raw("null")>>
    ELSE LET w == ColumnValue(v, col)
         IN  IF IsStr(w) THEN CellString(w.str, o) ELSE EncodedText(w, o)
StructRow(v, plan, o) == Joined([c \in DOMAIN plan |-> StructCell(v, plan[c], o)], Sep(o))

\* writeZenFrame over the rows.
StructTableText(rows, plan, o) ==
    TableHead(Len(rows), [c \in DOMAIN plan |-> plan[c].header], o)
    \o FlattenSeq([i \in DOMAIN rows |-> <<Raw(";"), Raw("SP")>> \o StructRow(rows[i], plan, o)])
    \o <<Raw("SP"), Raw("]")>>
=============================================================================
