----------------------------- MODULE ZenEncoder -----------------------------
(***************************************************************************)
(* MarshalOptions on a value tree (encode.go): its text (ZenText), and how *)
(* deep encode goes before it gives up.                                    *)
(***************************************************************************)
EXTENDS ZenLayout

CONSTANT MaxDepth    \* maxDepth: 256 in the code
-----------------------------------------------------------------------------
\* encode, whose callees call encode.
RECURSIVE EncodedText(_, _)
Text == INSTANCE ZenText WITH Encode <- EncodedText
EncodedText(v, o) == Text!EncodeStep(v, o)

\* writeZenRow writes nulls, and bare strings when asked to, by itself.
Inline(c, o) == c = Null \/ (o.bareStrings /\ IsStr(c))

\* The cells of row that are passed on to encode.
PassedOn(row, headers, o) ==
    {c \in {ValueAt(row.obj, h) : h \in {k \in Range(headers) : HasKey(row.obj, k)}} :
         ~Inline(c, o)}

\* The values encode is called on while it encodes v.
Visited(v, o) ==
    CASE IsObj(v) -> {v.obj[i].val : i \in DOMAIN v.obj}
      [] IsList(v) /\ ~IsTable(v.list, o) -> Range(v.list)
      [] IsList(v) /\ IsTable(v.list, o) ->
             UNION {IF IsObj(r) THEN PassedOn(r, HeadersOf(v.list), o) ELSE {r} :
                        r \in Range(v.list)}
      [] OTHER -> {}

\* Mutant: the last level is refused.
DepthAllowed_OffByOne(depth) == depth < MaxDepth

\* encode's depth check.
DepthAllowed(depth) == depth <= MaxDepth

\* The check fails when the values visited nest deeper than maxDepth.
RECURSIVE WithinDepth(_, _, _)
WithinDepth(v, depth, o) ==
    /\ DepthAllowed(depth)
    /\ \A c \in Visited(v, o) : WithinDepth(c, depth + 1, o)

\* MarshalOptions returns a text rather than an error.
Encodable(v, o) == WithinDepth(v, 0, o)
=============================================================================
