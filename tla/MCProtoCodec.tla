---------------------------- MODULE MCProtoCodec ----------------------------
(* The messages of testpb, AllTypes in parts, and documents for them: right and
   wrong values in both spellings, unknown members, two spellings at once. *)
EXTENDS ProtoSession

F(n, s, t)    == [name |-> n, json |-> n, shape |-> s, type |-> t, key |-> "", oneof |-> ""]
FJ(n, j, s, t) == [F(n, s, t) EXCEPT !.json = j]
Choice(n, j, t) == [FJ(n, j, "oneof", t) EXCEPT !.oneof = "choice"]
MapField(n, j, k, t) == [FJ(n, j, "map", t) EXCEPT !.key = k]

MCMessages == [
    Inner   |-> <<F("id", "scalar", "int32"), F("label", "scalar", "string")>>,
    Scalars |-> <<F("b", "scalar", "bool"), F("color", "scalar", "enum"),
                  FJ("opt_i32", "optI32", "optional", "int32")>>,
    Wide    |-> <<F("u64", "scalar", "uint64"), F("by", "scalar", "bytes"),
                  F("db", "scalar", "double")>>,
    Nested  |-> <<F("inner", "message", "Inner"), FJ("rep_inner", "repInner", "list", "Inner")>>,
    Lists   |-> <<FJ("rep_i32", "repI32", "list", "int32"),
                  FJ("rep_enum", "repEnum", "list", "enum")>>,
    Maps    |-> <<MapField("map_is", "mapIs", "int32", "string"),
                  MapField("map_smsg", "mapSmsg", "string", "Inner")>>,
    OneOf   |-> <<Choice("choice_str", "choiceStr", "string"),
                  Choice("choice_msg", "choiceMsg", "Inner")>>,
    Tree    |-> <<F("value", "scalar", "int32"), F("children", "list", "Tree"),
                  FJ("parent_label", "parentLabel", "message", "Tree")>>,
    Item    |-> <<F("id", "scalar", "int32"), Choice("choice_msg", "choiceMsg", "Inner")>>,
    Paint   |-> <<F("color", "scalar", "enum")>>,
    Empty   |-> <<>>]

MCEnumValue == [UNSPECIFIED |-> 0, RED |-> 1, NONE |-> -1]
MCEnumName  == (0 :> "UNSPECIFIED") @@ (1 :> "RED") @@ (-1 :> "NONE")
MCBase64    == ("" :> "") @@ ("hi" :> "aGk=") @@ ("nul" :> "null")
MCParseInt  == ("0" :> 0) @@ ("1" :> 1) @@ ("01" :> 1) @@ ("-2" :> -2) @@ ("9" :> 9)
MCFormatInt == (0 :> "0") @@ (1 :> "1") @@ (-2 :> "-2")
-----------------------------------------------------------------------------
Member(k, v) == [key |-> k, val |-> v]
OneMember(ms) == {Obj(<<x>>) : x \in ms}
Pairs(ms) == {Obj(<<p[1], p[2]>>) : p \in {q \in ms \X ms : q[1].key # q[2].key}}
Objects(ms) == {Obj(<<>>)} \cup OneMember(ms) \cup Pairs(ms)
Members(ks, vs) == {Member(k, v) : k \in ks, v \in vs}

Unknown == Member("zz", IntNum(1))
I1 == IntNum(1)
Inner(i, s) == Obj(<<Member("id", IntNum(i)), Member("label", Str(s))>>)
BadInner    == Obj(<<Member("id", I1), Member("label", I1)>>)
InnerPart   == Obj(<<Member("label", Str("b"))>>)
OddInner    == Obj(<<Unknown, Member("id", I1)>>)
Inners      == {Inner(1, "a"), InnerPart, OddInner, BadInner, Null}
SomeLists   == {List(<<Inner(1, "a"), InnerPart>>), List(<<InnerPart, BadInner>>),
                List(<<OddInner>>), List(<<Null>>), I1}
Node(v)     == Obj(<<Member("value", v)>>)
Leaves      == {List(<<Node(I1), Obj(<<>>)>>), List(<<Node(I1), Node(Str("a"))>>), Null}

MembersOf == [
    Inner   |-> Members({"id"}, {I1, IntNum(2), FloatNum(-1), Null})
                    \cup Members({"label"}, {Str("a"), Str("true"), Str("null"), I1}) \cup {Unknown},
    Scalars |-> Members({"b"}, {Lit("true"), Lit("false"), I1})
                    \cup Members({"color"}, {Str("RED"), Str("BLUE"), IntNum(-2), IntNum(0)})
                    \cup Members({"opt_i32", "optI32"}, {IntNum(0), I1, Str("1")}),
    Wide    |-> Members({"u64"}, {IntNum(7), IntNum(8), FloatNum(8), IntNum(-1)})
                    \cup Members({"by"}, {Str("aGk="), Str("aGk"), Str("null"), Null})
                    \cup Members({"db"}, {IntNum(5), HalfNum(0), Str("1")}),
    Nested  |-> Members({"inner"}, Inners) \cup Members({"rep_inner", "repInner"}, SomeLists),
    Lists   |-> Members({"rep_i32", "repI32"}, {List(<<>>), List(<<I1, IntNum(0)>>), List(<<I1, Null>>)})
                    \cup Members({"rep_enum"}, {List(<<Str("RED"), IntNum(-1)>>), List(<<Str("BLUE")>>)}),
    Maps    |-> Members({"map_is"}, {Obj(<<Member("1", Str("a")), Member("01", Str("b"))>>),
                                     Obj(<<Member("-2", Str("a")), Member("9", Str("a"))>>)})
                    \cup Members({"map_smsg", "mapSmsg"},
                            {Obj(<<Member("x", i)>>) : i \in Inners}
                            \cup {Obj(<<Member("y", InnerPart), Member("x", BadInner)>>),
                             Obj(<<Member("a-b", InnerPart)>>)}),
    OneOf   |-> Members({"choice_str", "choiceStr"}, {Str("a"), Str(""), I1, Null})
                    \cup Members({"choice_msg"}, Inners),
    Tree    |-> Members({"value"}, {I1, IntNum(5), IntNum(-3)}) \cup Members({"children"}, Leaves)
                    \cup Members({"parent_label", "parentLabel"},
                            {Node(I1), Obj(<<Member("children", List(<<Node(I1)>>))>>),
                             Obj(<<Member("parentLabel", Node(I1)), Unknown>>)}),
    Item    |-> Members({"id"}, {I1, Str("1")}) \cup Members({"choiceMsg"}, Inners),
    Paint   |-> Members({"color"}, {Str("RED"), Str("NONE"), IntNum(-2), Str("BLUE")}),
    Empty   |-> {Unknown, Member("zz", Null)}]

\* Lists of some types, a message of each of the others.
ListRoots == {"Inner", "Wide", "Item", "Paint", "Empty"}
MCRoots == DOMAIN MCMessages

\* Each core option alone, and three together.
DefaultOptions ==
    [noZenGrid |-> FALSE, unquotedKeys |-> FALSE, bareStrings |-> FALSE, layout |-> "compact"]
MCCoreOptions ==
    {[DefaultOptions EXCEPT !.noZenGrid = TRUE], [DefaultOptions EXCEPT !.unquotedKeys = TRUE],
     [DefaultOptions EXCEPT !.bareStrings = TRUE], DefaultOptions,
     [DefaultOptions EXCEPT !.bareStrings = TRUE, !.noZenGrid = TRUE, !.unquotedKeys = TRUE],
     [DefaultOptions EXCEPT !.layout = "indented"], [DefaultOptions EXCEPT !.layout = "multiline"]}
MCDocs == [t \in MCRoots |->
    IF t \in ListRoots THEN {} ELSE Objects(MembersOf[t]) \cup {Null, I1}]
MCOthers == {"Wide", "Paint", "Tree"}
MCListDocs == [t \in MCRoots |->
    LET some == {Obj(<<>>), Null} \cup OneMember(MembersOf[t])
    IN  IF t \notin ListRoots THEN {}
        ELSE {Null} \cup {List(xs) : xs \in UNION {[1..n -> some] : n \in 0..2}}]
=============================================================================
