-------------------------- MODULE MCReflectDecode --------------------------
(* A target of each shape, and documents for it: right and wrong values for
   every part, parts left out, and null.  Integers have three bits and two. *)
EXTENDS ReflectDecode

A == <<"a">>
B == <<"b">>
C == <<"c">>

F(n, t) == [name |-> n, tag |-> <<>>, omit |-> FALSE, skip |-> FALSE, exported |-> TRUE,
            embedded |-> FALSE, type |-> t, ptr |-> FALSE]
Embed(t) == [F(<<t>>, t) EXCEPT !.embedded = TRUE]

MCStructs == [
    Base  |-> <<F(A, "narrow"), F(B, "string")>>,
    Outer |-> <<[Embed("Base") EXCEPT !.ptr = TRUE], F(C, "narrows"),
                [F(C, "string") EXCEPT !.exported = FALSE]>>,
    Over  |-> <<Embed("Base"), F(B, "any"), [F(C, "bytes") EXCEPT !.omit = TRUE]>>,
    Held  |-> <<F(A, "addressPtr"), F(B, "narrowPtr"), F(C, "address")>>]

MCTypes == [
    narrow     |-> [kind |-> "int", bits |-> 2],
    wide       |-> [kind |-> "int", bits |-> 3],
    byte       |-> [kind |-> "uint", bits |-> 2],
    uwide      |-> [kind |-> "uint", bits |-> 3],
    float      |-> [kind |-> "float", bits |-> 0],
    string     |-> [kind |-> "string", bits |-> 0],
    bytes      |-> [kind |-> "bytes", bits |-> 0],
    any        |-> [kind |-> "any", bits |-> 0],
    address    |-> [kind |-> "text"],
    addressPtr |-> [kind |-> "pointer", elem |-> "address"],
    narrowPtr  |-> [kind |-> "pointer", elem |-> "narrow"],
    narrows    |-> [kind |-> "slice", elem |-> "narrow"],
    rows       |-> [kind |-> "slice", elem |-> "Base"],
    pair       |-> [kind |-> "array", elem |-> "Base", len |-> 2],
    hash       |-> [kind |-> "octets", elem |-> "byte", len |-> 2],
    byName     |-> [kind |-> "map", elem |-> "Base", numbered |-> FALSE],
    byNumber   |-> [kind |-> "map", elem |-> "string", numbered |-> TRUE]]

Byte(n) == Leaf(IntNum(n))
MCBase64 == [b \in {<<>>, <<Byte(1)>>} \cup {<<Byte(m), Byte(n)>> : m, n \in 0..3} |->
                [i \in DOMAIN b |-> b[i].leaf.num.n]]
MCEmptyLeaves == {IntNum(0), FloatNum(0), Str(<<>>)}

\* Key texts: canonical ones, other spellings, and one beyond two bits.
MCFormatKey == (0 :> <<"0">>) @@ (1 :> <<"1">>) @@ (-1 :> <<"-", "1">>) @@ (-2 :> <<"-", "2">>)
MCParseKey == (<<"0">> :> 0) @@ (<<"1">> :> 1) @@ (<<"-", "1">> :> -1) @@ (<<"-", "2">> :> -2)
                  @@ (<<"0", "1">> :> 1) @@ (<<"5">> :> 5)
-----------------------------------------------------------------------------
MCFloats == {n \in -16..16 : Nearest(n) = n}
AllNumbers == {IntNum(n) : n \in -9..9} \cup {FloatNum(n) : n \in MCFloats}
                  \cup {HalfNum(n) : n \in -1..0}
Wrong == {Str(A), List(<<>>)}

\* The values given for a field, or for an element that is no struct.
Simple(T) ==
    CASE T.kind = "int"     -> {IntNum(1), FloatNum(-1), IntNum(2), Null}
      [] T.kind = "uint"    -> {IntNum(1), IntNum(3), IntNum(4)}
      [] T.kind = "string"  -> {Str(A), IntNum(1)}
      [] T.kind = "bytes"   -> {Str(<<1>>), Str(<<9>>)}
      [] T.kind = "any"     -> {Str(A), List(<<IntNum(1)>>), Null}
      [] T.kind = "text"    -> {Str(B), Null}
      [] T.kind = "slice"   -> {Null, IntNum(1)}
                 \cup {List(xs) : xs \in UNION {[1..n -> {IntNum(1), IntNum(2)}] : n \in 0..2}}
Given(T) == Simple(IF T.kind = "pointer" THEN ElemOf(T) ELSE T)

\* The types behind the names a, b and c in each struct, promoted fields
\* included; and objects with any of them.
Behind == [Base  |-> <<"narrow", "string">>,
           Outer |-> <<"narrow", "string", "narrows">>,
           Over  |-> <<"narrow", "any", "bytes">>,
           Held  |-> <<"addressPtr", "narrowPtr", "address">>]
Member(k, v)  == [key |-> k, val |-> v]
Picks(k, t)   == {<<>>} \cup {<<Member(k, v)>> : v \in Given(Types[t])}
ObjectsOf(t) ==
    LET ts == Behind[t]
        cs == IF Len(ts) = 2 THEN {<<>>} ELSE Picks(C, ts[3])
    IN  {Obj(a \o b \o c) : a \in Picks(A, ts[1]), b \in Picks(B, ts[2]), c \in cs}

Elements(t) ==
    {Null} \cup IF t \in DOMAIN Structs THEN ObjectsOf(t) ELSE Given(TypeOf(t))
Lists(t, n) == {List(xs) : xs \in UNION {[1..k -> Elements(t)] : k \in 0..n}}
Maps(keys, t) ==
    {Obj(<<>>), Str(A)} \cup {Obj(<<Member(k, v)>>) : k \in keys, v \in Elements(t)}
    \cup {Obj(<<Member(k, v), Member(l, w)>>) :
             <<k, l>> \in {p \in keys \X keys : p[1] # p[2]}, v \in Elements(t), w \in Elements(t)}

Numeric    == {"narrow", "wide", "byte", "uwide", "float"}
Containers == {"Outer", "Over", "Held", "rows", "pair", "hash", "byName", "byNumber"}
MCTargets  == (Numeric \X Processors) \cup (Containers \X {"arm64"})
MCDocs == [t \in Numeric \cup Containers |->
    CASE t \in Numeric -> AllNumbers \cup Wrong \cup {Null}
      [] t \in DOMAIN Structs -> ObjectsOf(t) \cup {Null, Obj(<<Member(<<"z">>, Null)>>)}
      [] t \in {"rows", "hash"} -> Lists(Types[t].elem, 2) \cup {Null, IntNum(1)}
      [] t = "pair" -> Lists("Base", 2) \cup {List(<<Null, Null, IntNum(1)>>), Null}
      [] t = "byName" -> Maps({A, B}, "Base")
      [] t = "byNumber" -> Maps(DOMAIN ParseKey \cup {A}, "string")]
=============================================================================
