--------------------------- MODULE ZenWriterProofs ---------------------------
(***************************************************************************)
(* The streaming writer, for calls of any number and nesting: what is in   *)
(* the buffer when the document is complete is what Marshal writes for the *)
(* value the calls describe.                                               *)
(***************************************************************************)
EXTENDS ZenWriter, SequenceFacts

-----------------------------------------------------------------------------
(* Sequences.                                                              *)

\* A function over the numbers to n is a sequence.
LEMMA FunctionIsSeq ==
    ASSUME NEW n \in Nat, NEW f, f = [i \in 1..n |-> f[i]]
    PROVE  IsSeq(f) /\ Len(f) = n /\ DOMAIN f = 1..n
<1> DEFINE S == Range(f)
<1>1. DOMAIN f = 1..n
  OBVIOUS
<1>2. \A i \in 1..n : f[i] \in S
  BY <1>1 DEF Range
<1> HIDE DEF S
<1>3. f \in [1..n -> S]
  BY <1>2
<1>4. f \in Seq(S) /\ Len(f) = n
  BY <1>3
<1> QED
  BY <1>1, <1>4, SeqIsSeq

LEMMA OneTokenIsSeq ==
    ASSUME NEW e
    PROVE  IsSeq(<<e>>) /\ Len(<<e>>) = 1
<1>1. <<e>> \in Seq({e})
  OBVIOUS
<1> QED
  BY <1>1, SeqIsSeq

\* All but the last, and the last.
LEMMA FrontLast ==
    ASSUME NEW s, IsSeq(s), NEW e
    PROVE  Front(Append(s, e)) = s /\ Last(Append(s, e)) = e
<1> DEFINE t == Append(s, e)
           b == SubSeq(t, 1, Len(t) - 1)
<1>1. /\ IsSeq(t) /\ Len(t) = Len(s) + 1 /\ t # <<>> /\ t[Len(s) + 1] = e
      /\ \A i \in 1..Len(s) : t[i] = s[i]
  BY AppendIsSeq
<1>2. Len(s) \in Nat
  BY IsSeqLen
<1> HIDE DEF t
<1>3. IsSeq(b) /\ Len(b) = Len(t) - 1 /\ \A i \in 1..Len(b) : b[i] = t[i]
  BY <1>1, ButLast
<1>4. Len(b) = Len(s)
  BY <1>1, <1>2, <1>3
<1> HIDE DEF b
<1>5. b = s
  BY <1>1, <1>3, <1>4, SameSeq
<1>6. Front(t) = b /\ Last(t) = t[Len(t)]
  BY DEF Front, Last, b
<1> QED
  BY <1>1, <1>5, <1>6 DEF t

LEMMA IsFrontLast ==
    ASSUME NEW s, IsSeq(s), s # <<>>
    PROVE  \E t, e : IsSeq(t) /\ s = Append(t, e)
<1>1. s \in Seq(Range(s))
  BY DEF IsSeq
<1>2. PICK t \in Seq(Range(s)), e \in Range(s) : s = Append(t, e)
  BY <1>1, SequenceEmptyOrAppend
<1> QED
  BY <1>2, SeqIsSeq

\* A sequence of at most n elements.
LEMMA BoundedIs ==
    ASSUME NEW S, NEW n \in Nat
    PROVE  \A s : s \in BoundedSeq(S, n) <=> s \in Seq(S) /\ Len(s) <= n
<1> SUFFICES ASSUME NEW s PROVE s \in BoundedSeq(S, n) <=> s \in Seq(S) /\ Len(s) <= n
  OBVIOUS
<1>1. s \in BoundedSeq(S, n) <=> \E m \in 0..n : s \in [1..m -> S]
  BY DEF BoundedSeq, SeqOf
<1>2. ASSUME NEW m \in 0..n, s \in [1..m -> S] PROVE s \in Seq(S) /\ Len(s) <= n
  BY <1>2
<1>3. ASSUME s \in Seq(S), Len(s) <= n PROVE \E m \in 0..n : s \in [1..m -> S]
  <2>1. Len(s) \in Nat /\ s \in [1..Len(s) -> S]
    BY <1>3, LenProperties
  <2>2. Len(s) \in 0..n
    BY <1>3, <2>1
  <2> QED
    BY <2>1, <2>2
<1> QED
  BY <1>1, <1>2, <1>3

LEMMA BoundedMore ==
    ASSUME NEW S, NEW n \in Nat, NEW s \in BoundedSeq(S, n), NEW e \in S, Len(s) + 1 <= n
    PROVE  Append(s, e) \in BoundedSeq(S, n)
<1>1. s \in Seq(S)
  BY BoundedIs
<1>2. Append(s, e) \in Seq(S) /\ Len(Append(s, e)) = Len(s) + 1
  BY <1>1, AppendProperties
<1> QED
  BY <1>2, BoundedIs
-----------------------------------------------------------------------------
(* Texts with a separator between them.                                    *)

Parts(ts, sep) == [i \in DOMAIN ts |-> IF i = 1 THEN ts[i] ELSE sep \o ts[i]]

LEMMA PartsTexts ==
    ASSUME NEW ts, Texts(ts), NEW sep, IsSeq(sep)
    PROVE  Texts(Parts(ts, sep)) /\ Len(Parts(ts, sep)) = Len(ts)
<1> DEFINE n == Len(ts)
           ps == Parts(ts, sep)
<1>1. n \in Nat /\ DOMAIN ts = 1..n
  BY IsSeqLen DEF Texts
<1>2. ps = [i \in 1..n |-> IF i = 1 THEN ts[i] ELSE sep \o ts[i]]
  BY <1>1 DEF Parts
<1>3. \A i \in 1..n : IsSeq(ts[i])
  BY DEF Texts
<1> HIDE DEF ps, n
<1>4. \A i \in 1..n : IsSeq(ps[i])
  BY <1>2, <1>3, ConcatIsSeq
<1>5. IsSeq(ps) /\ Len(ps) = n
  <2>1. ps = [i \in 1..n |-> ps[i]]
    BY <1>2
  <2> QED
    BY <1>1, <2>1, FunctionIsSeq
<1> QED
  BY <1>4, <1>5 DEF Texts, ps, n

LEMMA JoinedIsSeq ==
    ASSUME NEW ts, Texts(ts), NEW sep, IsSeq(sep)
    PROVE  IsSeq(Joined(ts, sep))
<1>1. Joined(ts, sep) = FlattenSeq(Parts(ts, sep))
  BY DEF Joined, Parts
<1> QED
  BY <1>1, PartsTexts, FlattenIsSeq

LEMMA JoinedEmpty ==
    ASSUME NEW sep
    PROVE  Joined(<<>>, sep) = <<>>
<1>1. [i \in DOMAIN <<>> |-> IF i = 1 THEN <<>>[i] ELSE sep \o <<>>[i]] = <<>>
  OBVIOUS
<1> QED
  BY <1>1, FlattenEmpty DEF Joined

LEMMA JoinedAppend ==
    ASSUME NEW ts, Texts(ts), NEW sep, IsSeq(sep), NEW x, IsSeq(x)
    PROVE  Joined(Append(ts, x), sep) = IF ts = <<>> THEN x ELSE Joined(ts, sep) \o (sep \o x)
<1> DEFINE n == Len(ts)
           us == Append(ts, x)
           y == IF ts = <<>> THEN x ELSE sep \o x
<1>1. Texts(us)
  BY FlattenAppend
<1>2. IsSeq(y)
  BY ConcatIsSeq
<1>3. /\ n \in Nat /\ DOMAIN ts = 1..n /\ IsSeq(us) /\ Len(us) = n + 1 /\ DOMAIN us = 1..(n + 1)
      /\ \A i \in 1..n : us[i] = ts[i]
      /\ us[n + 1] = x /\ (ts = <<>> <=> n = 0)
  BY AppendIsSeq, IsSeqLen DEF Texts
<1>4. Texts(Parts(ts, sep)) /\ Len(Parts(ts, sep)) = n
  BY PartsTexts
<1>5. Texts(Parts(us, sep)) /\ Len(Parts(us, sep)) = n + 1
  BY <1>1, <1>3, PartsTexts
<1> DEFINE a == Parts(us, sep)
           b == Append(Parts(ts, sep), y)
<1>6. IsSeq(b) /\ Len(b) = n + 1
  BY <1>3, <1>4, AppendIsSeq DEF Texts
<1>7. \A i \in 1..(n + 1) : a[i] = b[i]
  <2>1. /\ \A i \in 1..n : b[i] = Parts(ts, sep)[i]
        /\ b[n + 1] = y
    BY <1>3, <1>4, AppendIsSeq DEF Texts
  <2> HIDE DEF us, n, b, y
  <2>2. \A i \in 1..(n + 1) : a[i] = IF i = 1 THEN us[i] ELSE sep \o us[i]
    BY <1>3 DEF Parts
  <2>3. \A i \in 1..n : Parts(ts, sep)[i] = IF i = 1 THEN ts[i] ELSE sep \o ts[i]
    BY <1>3 DEF Parts
  <2> HIDE DEF a
  <2>4. ASSUME NEW i \in 1..n PROVE a[i] = b[i]
    <3>1. i \in 1..(n + 1)
      BY <1>3
    <3> QED
      BY <1>3, <2>1, <2>2, <2>3, <3>1
  <2>5. a[n + 1] = b[n + 1]
    <3>1. n + 1 \in 1..(n + 1) /\ (n + 1 = 1 <=> n = 0)
      BY <1>3
    <3>2. a[n + 1] = IF n = 0 THEN x ELSE sep \o x
      BY <1>3, <2>2, <3>1
    <3> QED
      BY <1>3, <2>1, <3>2 DEF y
  <2> QED
    BY <1>3, <2>4, <2>5
<1>8. a = b
  <2>1. IsSeq(a) /\ Len(a) = Len(b)
    BY <1>5, <1>6 DEF Texts
  <2> HIDE DEF a, b, n
  <2> QED
    BY <1>6, <1>7, <2>1, SameSeq
<1>9. FlattenSeq(b) = FlattenSeq(Parts(ts, sep)) \o y
  BY <1>2, <1>4, FlattenAppend
<1>10. Joined(us, sep) = FlattenSeq(a) /\ Joined(ts, sep) = FlattenSeq(Parts(ts, sep))
  BY DEF Joined, Parts
<1>11. Joined(us, sep) = Joined(ts, sep) \o y
  BY <1>8, <1>9, <1>10
<1>12. ts = <<>> => Joined(us, sep) = x
  BY <1>11, JoinedEmpty, ConcatEmpty
<1> QED
  BY <1>11, <1>12
-----------------------------------------------------------------------------
(* What a container looks like while it is being written.                  *)

Comma == <<Raw(",")>>
Colon == <<Raw(":")>>

\* A container's elements and their texts, the token it opens with and the one it
\* closes with.
Elements(b) == IF b.kind = "o" THEN b.members ELSE b.items
ElementText(b, i, o) ==
    IF b.kind = "o"
    THEN KeyText(b.members[i].key, o) \o Colon \o Encode(b.members[i].val, o)
    ELSE Encode(b.items[i], o)
ElementTexts(b, o) == [i \in DOMAIN Elements(b) |-> ElementText(b, i, o)]
Opening(b) == <<Raw(IF b.kind = "o" THEN "{" ELSE "[")>>
Closing(b) == <<Raw(IF b.kind = "o" THEN "}" ELSE "]")>>

\* Its text with the elements so far, and up to the next value.
Shown(b, o) == Opening(b) \o Joined(ElementTexts(b, o), Comma)
Onward(b, o) == IF Elements(b) = <<>> THEN Shown(b, o) ELSE Shown(b, o) \o Comma
Before(b, o) == IF b.kind = "o" THEN (Onward(b, o) \o KeyText(b.key, o)) \o Colon ELSE Onward(b, o)

Pending(b) == b.kind = "o" /\ b.pending
Current(b, o) == IF Pending(b) THEN Before(b, o) ELSE Shown(b, o)

\* The value it is when it is closed.
Whole(b) == IF b.kind = "o" THEN Obj(b.members) ELSE List(b.items)

Objects(S) ==
    [kind : {"o"}, members : BoundedSeq([key : FieldNames, val : S], MaxElements),
     key : FieldNames \cup {<<>>}, pending : BOOLEAN]
Arrays(S) == [kind : {"a"}, items : BoundedSeq(S, MaxElements)]

\* A container of values in S.
Container(b, S, o) ==
    /\ b \in Objects(S) \cup Arrays(S) /\ (Pending(b) => b.key \in FieldNames)
    /\ Texts(ElementTexts(b, o))

LEMMA Kinds ==
    ASSUME NEW S, NEW b \in Objects(S) \cup Arrays(S)
    PROVE  /\ b.kind = "o" => b \in Objects(S)
           /\ b.kind # "o" => b \in Arrays(S) /\ b.kind = "a"
  BY DEF Objects, Arrays

LEMMA KeyIsSeq ==
    ASSUME NEW k \in Seq(STRING), NEW o
    PROVE  IsSeq(KeyText(k, o)) /\ IsSeq(HeaderText(k))
<1>1. IsSeq(Spelled(k))
  <2>1. Len(k) \in Nat /\ DOMAIN k = 1..Len(k)
    BY LenProperties
  <2>2. Spelled(k) = [i \in 1..Len(k) |-> Spelled(k)[i]]
    BY <2>1 DEF Spelled
  <2> QED
    BY <2>1, <2>2, FunctionIsSeq
<1>2. IsSeq(<<Quoted(k)>>)
  BY OneTokenIsSeq
<1>3. IsSeq(HeaderText(k))
  BY <1>1, <1>2 DEF HeaderText
<1> QED
  BY <1>2, <1>3 DEF KeyText

LEMMA ElementsLen ==
    ASSUME NEW S, NEW o, NEW b, Container(b, S, o)
    PROVE  /\ Len(Elements(b)) \in Nat /\ Len(Elements(b)) <= MaxElements
           /\ IsSeq(Elements(b)) /\ DOMAIN Elements(b) = 1..Len(Elements(b))
           /\ Len(ElementTexts(b, o)) = Len(Elements(b))
           /\ Elements(b) = <<>> <=> ElementTexts(b, o) = <<>>
<1>1. MaxElements \in Nat
  BY CallsAssumption
<1>2. \E T : Elements(b) \in BoundedSeq(T, MaxElements)
  BY Kinds DEF Container, Elements, Objects, Arrays
<1>3. PICK T : Elements(b) \in Seq(T) /\ Len(Elements(b)) <= MaxElements
  BY <1>1, <1>2, BoundedIs
<1>4. Len(Elements(b)) \in Nat /\ DOMAIN Elements(b) = 1..Len(Elements(b)) /\ IsSeq(Elements(b))
  BY <1>3, LenProperties, SeqIsSeq
<1> DEFINE n == Len(Elements(b))
<1>5. Len(ElementTexts(b, o)) = n
  <2>1. ElementTexts(b, o) = [i \in 1..n |-> ElementTexts(b, o)[i]]
    BY <1>4 DEF ElementTexts
  <2> QED
    BY <1>4, <2>1, FunctionIsSeq
<1>6. IsSeq(ElementTexts(b, o))
  BY DEF Container, Texts
<1> QED
  BY <1>3, <1>4, <1>5, <1>6, IsSeqLen

LEMMA ShownIsSeq ==
    ASSUME NEW S, NEW o, NEW b, Container(b, S, o)
    PROVE  /\ IsSeq(Shown(b, o)) /\ IsSeq(Onward(b, o))
           /\ (b.kind = "o" => b.key \in Seq(STRING)) => IsSeq(Before(b, o))
<1>1. IsSeq(Comma) /\ IsSeq(Colon) /\ IsSeq(Opening(b))
  BY OneTokenIsSeq DEF Comma, Colon, Opening
<1>2. IsSeq(Joined(ElementTexts(b, o), Comma))
  BY <1>1, JoinedIsSeq DEF Container
<1>3. IsSeq(Shown(b, o))
  BY <1>1, <1>2, ConcatIsSeq DEF Shown
<1>4. IsSeq(Onward(b, o))
  BY <1>1, <1>3, ConcatIsSeq DEF Onward
<1>5. ASSUME b.kind = "o", b.key \in Seq(STRING) PROVE IsSeq(Before(b, o))
  <2>1. IsSeq(KeyText(b.key, o))
    BY <1>5, KeyIsSeq
  <2>2. IsSeq(Onward(b, o) \o KeyText(b.key, o))
    BY <1>4, <2>1, ConcatIsSeq
  <2> QED
    BY <1>1, <1>5, <2>2, ConcatIsSeq DEF Before
<1>6. b.kind # "o" => IsSeq(Before(b, o))
  BY <1>4 DEF Before
<1> QED
  BY <1>3, <1>4, <1>5, <1>6

\* One more text behind an opening token and the texts so far.
LEMMA OneMoreText ==
    ASSUME NEW l, IsSeq(l), NEW ts, Texts(ts), NEW x, IsSeq(x)
    PROVE  l \o Joined(Append(ts, x), Comma)
               = (IF ts = <<>> THEN l \o Joined(ts, Comma)
                  ELSE (l \o Joined(ts, Comma)) \o Comma) \o x
<1> DEFINE j == Joined(ts, Comma)
<1>1. IsSeq(Comma)
  BY OneTokenIsSeq DEF Comma
<1>2. IsSeq(j)
  BY <1>1, JoinedIsSeq
<1>3. Joined(Append(ts, x), Comma) = IF ts = <<>> THEN x ELSE j \o (Comma \o x)
  BY <1>1, JoinedAppend
<1>4. ((l \o j) \o Comma) \o x = l \o (j \o (Comma \o x))
  <2>1. Four(l, j, Comma, x)
    BY <1>1, <1>2 DEF Four, Three
  <2> HIDE DEF j
  <2> QED
    BY <2>1, ConcatFour
<1>5. ts = <<>> => j = <<>> /\ l \o <<>> = l
  BY JoinedEmpty, ConcatEmpty
<1> HIDE DEF j
<1>6. CASE ts = <<>>
  BY <1>3, <1>5, <1>6 DEF j
<1>7. CASE ts # <<>>
  BY <1>3, <1>4, <1>7 DEF j
<1> QED
  BY <1>6, <1>7

\* One more element: its text comes behind what is written up to it.
LEMMA OneMore ==
    ASSUME NEW S, NEW o, NEW b, Container(b, S, o), NEW e, e.kind = b.kind,
           NEW x, IsSeq(x), ElementTexts(e, o) = Append(ElementTexts(b, o), x)
    PROVE  Texts(ElementTexts(e, o)) /\ Shown(e, o) = Onward(b, o) \o x
<1>1. Texts(ElementTexts(b, o)) /\ IsSeq(Opening(b)) /\ Opening(e) = Opening(b)
  BY OneTokenIsSeq DEF Container, Opening
<1>2. Texts(ElementTexts(e, o))
  BY <1>1, FlattenAppend
<1>3. Elements(b) = <<>> <=> ElementTexts(b, o) = <<>>
  BY ElementsLen
<1>4. Shown(e, o) = Opening(b) \o Joined(Append(ElementTexts(b, o), x), Comma)
  BY <1>1 DEF Shown
<1>5. Onward(b, o) = IF ElementTexts(b, o) = <<>> THEN Opening(b) \o Joined(ElementTexts(b, o), Comma)
                     ELSE (Opening(b) \o Joined(ElementTexts(b, o), Comma)) \o Comma
  BY <1>3 DEF Onward, Shown
<1> DEFINE ts == ElementTexts(b, o)
           l == Opening(b)
<1>6. Texts(ts) /\ IsSeq(l)
  BY <1>1
<1> HIDE DEF ts, l
<1>7. l \o Joined(Append(ts, x), Comma)
          = (IF ts = <<>> THEN l \o Joined(ts, Comma) ELSE (l \o Joined(ts, Comma)) \o Comma) \o x
  BY <1>6, OneMoreText
<1> QED
  BY <1>2, <1>4, <1>5, <1>7 DEF ts, l

\* The container b with v as its next element, as Holding has it.
With(b, v) ==
    IF b.kind = "o"
    THEN [b EXCEPT !.members = Append(@, [key |-> b.key, val |-> v]), !.pending = FALSE]
    ELSE [b EXCEPT !.items = Append(@, v)]

LEMMA WithIs ==
    ASSUME NEW S, NEW o, NEW b, Container(b, S, o), NEW v \in S,
           b.kind = "o" => b.pending, Len(Elements(b)) + 1 <= MaxElements
    PROVE  LET h == With(b, v) IN
           /\ h \in Objects(S) \cup Arrays(S) /\ ~Pending(h) /\ h.kind = b.kind
           /\ Elements(h) = Append(Elements(b), IF b.kind = "o" THEN [key |-> b.key, val |-> v] ELSE v)
<1> DEFINE h == With(b, v)
<1>1. MaxElements \in Nat
  BY CallsAssumption
<1>2. CASE b.kind = "o"
  <2> DEFINE M == [key : FieldNames, val : S]
             e == [key |-> b.key, val |-> v]
  <2>1. b \in Objects(S) /\ b.key \in FieldNames /\ Elements(b) = b.members
    BY <1>2, Kinds DEF Container, Pending, Elements
  <2>2. b.members \in BoundedSeq(M, MaxElements) /\ e \in M
    BY <2>1 DEF Objects
  <2>3. Append(b.members, e) \in BoundedSeq(M, MaxElements)
    <3> HIDE DEF M, e
    <3> QED
      BY <1>1, <2>1, <2>2, BoundedMore
  <2>4. h = [b EXCEPT !.members = Append(b.members, e), !.pending = FALSE]
    BY <1>2 DEF With
  <2> HIDE DEF e, h
  <2>5. h \in Objects(S) /\ h.members = Append(b.members, e) /\ ~h.pending /\ h.kind = "o"
    BY <2>1, <2>3, <2>4 DEF Objects
  <2> QED
    BY <1>2, <2>1, <2>5 DEF Elements, Pending, h, e
<1>3. CASE b.kind # "o"
  <2>1. b \in Arrays(S) /\ Elements(b) = b.items
    BY <1>3, Kinds DEF Container, Elements
  <2>2. b.items \in BoundedSeq(S, MaxElements) /\ b.kind = "a"
    BY <2>1 DEF Arrays
  <2>3. Append(b.items, v) \in BoundedSeq(S, MaxElements)
    BY <1>1, <2>1, <2>2, BoundedMore
  <2>4. h = [b EXCEPT !.items = Append(b.items, v)]
    BY <1>3 DEF With
  <2> HIDE DEF h
  <2>5. h \in Arrays(S) /\ h.items = Append(b.items, v) /\ h.kind = "a"
    BY <2>1, <2>3, <2>4 DEF Arrays
  <2> QED
    BY <1>3, <2>1, <2>2, <2>5 DEF Elements, Pending, h
<1> QED
  BY <1>2, <1>3

\* Its text follows what the writer has written before the value.
LEMMA Held ==
    ASSUME NEW S, NEW o, NEW b, Container(b, S, o), NEW v \in S, IsSeq(Encode(v, o)),
           b.kind = "o" => b.pending, Len(Elements(b)) + 1 <= MaxElements
    PROVE  LET h == With(b, v) IN
           /\ Container(h, S, o) /\ ~Pending(h) /\ h.kind = b.kind
           /\ Len(Elements(h)) = Len(Elements(b)) + 1
           /\ Shown(h, o) = Before(b, o) \o Encode(v, o)
<1> DEFINE h == With(b, v)
           e == IF b.kind = "o" THEN [key |-> b.key, val |-> v] ELSE v
           k == KeyText(b.key, o)
           x == IF b.kind = "o" THEN (k \o Colon) \o Encode(v, o) ELSE Encode(v, o)
           n == Len(Elements(b))
<1>1. /\ h \in Objects(S) \cup Arrays(S) /\ ~Pending(h) /\ h.kind = b.kind
      /\ Elements(h) = Append(Elements(b), e)
  BY WithIs
<1>2. /\ n \in Nat /\ IsSeq(Elements(b)) /\ DOMAIN Elements(b) = 1..n
      /\ Len(ElementTexts(b, o)) = n
  BY ElementsLen
<1>3. IsSeq(Colon) /\ IsSeq(Onward(b, o)) /\ (b.kind = "o" => b.key \in Seq(STRING))
  <2>1. b.kind = "o" => b.key \in Seq(STRING)
    BY CallsAssumption DEF Container, Pending
  <2> QED
    BY <2>1, ShownIsSeq, OneTokenIsSeq DEF Colon
<1>4. b.kind = "o" => IsSeq(k) /\ IsSeq(k \o Colon)
  BY <1>3, KeyIsSeq, ConcatIsSeq
<1>5. IsSeq(x)
  BY <1>4, ConcatIsSeq
<1>6. /\ IsSeq(Elements(h)) /\ Len(Elements(h)) = n + 1 /\ DOMAIN Elements(h) = 1..(n + 1)
      /\ \A i \in 1..n : Elements(h)[i] = Elements(b)[i]
      /\ Elements(h)[n + 1] = e
  BY <1>1, <1>2, AppendIsSeq, IsSeqLen
<1> HIDE DEF h
<1>7. ElementTexts(h, o) = Append(ElementTexts(b, o), x)
  <2> DEFINE p == ElementTexts(h, o)
             q == Append(ElementTexts(b, o), x)
  <2>1. IsSeq(ElementTexts(b, o))
    BY DEF Container, Texts
  <2>2. /\ IsSeq(q) /\ Len(q) = n + 1 /\ q[n + 1] = x
        /\ \A i \in 1..n : q[i] = ElementTexts(b, o)[i]
    BY <1>2, <2>1, AppendIsSeq
  <2> HIDE DEF n
  <2>3. p = [i \in 1..(n + 1) |-> p[i]] /\ \A i \in 1..(n + 1) : p[i] = ElementText(h, i, o)
    BY <1>6 DEF ElementTexts
  <2>4. IsSeq(p) /\ Len(p) = n + 1
    BY <1>2, <2>3, FunctionIsSeq
  <2> HIDE DEF p, q
  <2>5. ASSUME NEW i \in 1..n PROVE p[i] = q[i]
    <3>1. i \in 1..(n + 1)
      BY <1>2
    <3>2. ElementTexts(b, o)[i] = ElementText(b, i, o)
      BY <1>2 DEF ElementTexts
    <3>3. ElementText(h, i, o) = ElementText(b, i, o)
      BY <1>1, <1>6 DEF ElementText, Elements
    <3> QED
      BY <2>2, <2>3, <3>1, <3>2, <3>3
  <2>6. p[n + 1] = q[n + 1]
    <3>1. n + 1 \in 1..(n + 1)
      BY <1>2
    <3>2. ElementText(h, n + 1, o) = x
      BY <1>1, <1>6 DEF ElementText, Elements
    <3> QED
      BY <2>2, <2>3, <3>1, <3>2
  <2>7. \A i \in 1..(n + 1) : p[i] = q[i]
    BY <1>2, <2>5, <2>6
  <2>8. p = q
    BY <2>2, <2>4, <2>7, SameSeq
  <2> QED
    BY <2>8 DEF p, q
<1> HIDE DEF x
<1>8. Texts(ElementTexts(h, o)) /\ Shown(h, o) = Onward(b, o) \o x
  BY <1>1, <1>5, <1>7, OneMore
<1>9. Container(h, S, o)
  BY <1>1, <1>8 DEF Container
<1>10. Onward(b, o) \o x = Before(b, o) \o Encode(v, o)
  <2>1. CASE b.kind = "o"
    <3> DEFINE y == Onward(b, o)
    <3>1. Four(y, k, Colon, Encode(v, o)) /\ Three(k, Colon, Encode(v, o))
      BY <1>3, <1>4, <2>1 DEF Four, Three
    <3> HIDE DEF k, y
    <3>2. ((y \o k) \o Colon) \o Encode(v, o) = y \o (k \o (Colon \o Encode(v, o)))
      BY <3>1, ConcatFour
    <3>3. (k \o Colon) \o Encode(v, o) = k \o (Colon \o Encode(v, o))
      BY <3>1, ConcatThree
    <3>4. Before(b, o) = (y \o k) \o Colon /\ x = (k \o Colon) \o Encode(v, o)
      BY <2>1 DEF Before, x, y, k
    <3> QED
      BY <3>2, <3>3, <3>4 DEF y
  <2>2. CASE b.kind # "o"
    BY <2>2 DEF Before, x
  <2> QED
    BY <2>1, <2>2
<1> QED
  BY <1>1, <1>6, <1>8, <1>9, <1>10 DEF h, n

\* A closed container is a value of the level it stands at, and its text is what
\* has been written, closed.
LEMMA Closed ==
    ASSUME NEW w \in WriterOptions, NEW d \in 1..MaxOpen, NEW b,
           Container(b, Trees[d], Plain(w))
    PROVE  /\ Whole(b) \in Trees[d - 1]
           /\ Encode(Whole(b), Plain(w)) = Shown(b, Plain(w)) \o Closing(b)
           /\ IsSeq(Encode(Whole(b), Plain(w)))
<1> DEFINE o == Plain(w)
           v == Whole(b)
           S == Trees[d]
<1>1. w \in Options /\ o.noZenGrid
  BY CallsAssumption DEF Options, Plain
<1> HIDE DEF o, S
<1>2. b \in Objects(S) \cup Arrays(S) /\ Texts(ElementTexts(b, o))
  BY DEF Container, o, S
<1>3. v \in Containers(S)
  <2>1. CASE b.kind = "o"
    BY <1>2, <2>1, Kinds DEF Whole, Objects, Containers
  <2>2. CASE b.kind # "o"
    BY <1>2, <2>2, Kinds DEF Whole, Arrays, Containers
  <2> QED
    BY <2>1, <2>2
<1>4. v \in Trees[d - 1]
  BY <1>3, TreesAssumption DEF S
<1>5. Encode(v, o) = EncodeStep(v, o)
  BY <1>3, EncodeAssumption DEF S, o
<1>6. EncodeStep(v, o) = Shown(b, o) \o Closing(b)
  <2>1. CASE b.kind = "o"
    <3>1. v = Obj(b.members) /\ Elements(b) = b.members
      BY <2>1 DEF Whole, Elements
    <3>2. "lit" \notin DOMAIN v /\ "num" \notin DOMAIN v /\ ~IsStr(v) /\ IsObj(v) /\ ~IsList(v)
          /\ v.obj = b.members
      BY <3>1 DEF Obj, IsStr, IsObj, IsList
    <3>3. EncodeStep(v, o) =
              <<Raw("{")>> \o Joined([i \in DOMAIN v.obj |->
                  KeyText(v.obj[i].key, o) \o <<Raw(":")>> \o Encode(v.obj[i].val, o)],
                  <<Raw(",")>>) \o <<Raw("}")>>
      BY <3>2, Zenon DEF EncodeStep
    <3>4. ElementTexts(b, o) = [i \in DOMAIN v.obj |->
              KeyText(v.obj[i].key, o) \o <<Raw(":")>> \o Encode(v.obj[i].val, o)]
      BY <2>1, <3>1, <3>2 DEF ElementTexts, ElementText, Colon
    <3> QED
      BY <2>1, <3>3, <3>4 DEF Shown, Opening, Closing, Comma
  <2>2. CASE b.kind # "o"
    <3>1. v = List(b.items) /\ Elements(b) = b.items
      BY <2>2 DEF Whole, Elements
    <3>2. "lit" \notin DOMAIN v /\ "num" \notin DOMAIN v /\ ~IsStr(v) /\ ~IsObj(v) /\ IsList(v)
          /\ v.list = b.items
      BY <3>1 DEF List, IsStr, IsObj, IsList
    <3>3. ~IsTable(v.list, o)
      BY <1>1 DEF IsTable, o
    <3>4. EncodeStep(v, o) =
              <<Raw("[")>> \o Joined([i \in DOMAIN v.list |-> Encode(v.list[i], o)], <<Raw(",")>>)
                  \o <<Raw("]")>>
      BY <3>2, <3>3, Zenon DEF EncodeStep
    <3>5. ElementTexts(b, o) = [i \in DOMAIN v.list |-> Encode(v.list[i], o)]
      BY <2>2, <3>1, <3>2 DEF ElementTexts, ElementText
    <3> QED
      BY <2>2, <3>4, <3>5 DEF Shown, Opening, Closing, Comma
  <2> QED
    BY <2>1, <2>2
<1>7. IsSeq(Shown(b, o) \o Closing(b))
  BY ShownIsSeq, OneTokenIsSeq, ConcatIsSeq DEF Closing, o
<1> QED
  BY <1>4, <1>5, <1>6, <1>7 DEF o, v
-----------------------------------------------------------------------------
(* Containers inside one another.                                          *)

\* The frame f of the container b, which is written at depth d, behind the text p,
\* and waits for its next element, whose own text comes behind q.
Link(f, b, d, p, q, o) ==
    /\ Container(b, Trees[d], o)
    /\ b.kind = "o" => b.pending
    /\ f = [kind |-> b.kind, n |-> Len(Elements(b)) + 1]
    /\ f.n <= MaxElements
    /\ IsSeq(p) /\ q = p \o Before(b, o) /\ IsSeq(q)

\* The frames fs of the containers bs, each but the first written for the element
\* that the one before it waits for.  The text before the j-th is pre[j].
Outer(fs, bs, pre, o) ==
    /\ IsSeq(fs) /\ IsSeq(bs) /\ IsSeq(pre)
    /\ Len(fs) = Len(bs) /\ Len(pre) = Len(bs) + 1 /\ Len(bs) <= MaxOpen
    /\ pre[1] = <<>>
    /\ \A j \in 1..Len(bs) : Link(fs[j], bs[j], j, pre[j], pre[j + 1], o)

\* The frame f of the innermost container b.
Inner(f, b, d, o) ==
    /\ Container(b, Trees[d], o)
    /\ f = [kind |-> b.kind, n |-> Len(Elements(b)) + (IF Pending(b) THEN 1 ELSE 0)]
    /\ f.n <= MaxElements
    /\ d <= MaxOpen

\* The text written inside open containers.
Open(fr, bu, text, o) ==
    \E fs, bs, pre, f, b :
        /\ Outer(fs, bs, pre, o) /\ Inner(f, b, Len(bs) + 1, o)
        /\ fr = Append(fs, f) /\ bu = Append(bs, b)
        /\ text = pre[Len(bs) + 1] \o Current(b, o)

LEMMA OuterNone ==
    ASSUME NEW o
    PROVE  /\ Outer(<<>>, <<>>, << <<>> >>, o)
           /\ \A fs, bs, pre : Outer(fs, bs, pre, o) /\ (fs = <<>> \/ bs = <<>>)
                  => fs = <<>> /\ bs = <<>> /\ pre[1] = <<>>
<1>1. Outer(<<>>, <<>>, << <<>> >>, o)
  <2>1. IsSeq(<< <<>> >>) /\ Len(<< <<>> >>) = 1
    BY OneTokenIsSeq
  <2> QED
    BY <2>1, EmptyIsSeq, CallsAssumption DEF Outer
<1>2. ASSUME NEW fs, NEW bs, NEW pre, Outer(fs, bs, pre, o), fs = <<>> \/ bs = <<>>
      PROVE  fs = <<>> /\ bs = <<>> /\ pre[1] = <<>>
  BY <1>2, EmptyIsSeq, IsSeqLen DEF Outer
<1> QED
  BY <1>1, <1>2

LEMMA OuterText ==
    ASSUME NEW o, NEW fs, NEW bs, NEW pre, Outer(fs, bs, pre, o)
    PROVE  IsSeq(pre[Len(bs) + 1]) /\ Len(bs) \in Nat
<1>1. Len(bs) \in Nat /\ pre[1] = <<>>
      /\ \A j \in 1..Len(bs) : IsSeq(pre[j + 1])
  BY IsSeqLen DEF Outer, Link
<1>2. CASE Len(bs) = 0
  BY <1>1, <1>2, EmptyIsSeq
<1>3. CASE Len(bs) # 0
  <2>1. Len(bs) \in 1..Len(bs)
    BY <1>1, <1>3
  <2> QED
    BY <1>1, <2>1
<1> QED
  BY <1>1, <1>2, <1>3

LEMMA OuterMore ==
    ASSUME NEW o, NEW fs, NEW bs, NEW pre, Outer(fs, bs, pre, o),
           NEW f, NEW b, NEW q, Len(bs) + 1 <= MaxOpen,
           Link(f, b, Len(bs) + 1, pre[Len(bs) + 1], q, o)
    PROVE  \E pre2 : /\ Outer(Append(fs, f), Append(bs, b), pre2, o)
                     /\ pre2[Len(Append(bs, b)) + 1] = q
<1> DEFINE n == Len(bs)
           fs2 == Append(fs, f)
           bs2 == Append(bs, b)
           pre2 == Append(pre, q)
<1>1. n \in Nat /\ IsSeq(fs) /\ IsSeq(bs) /\ IsSeq(pre) /\ Len(fs) = n /\ Len(pre) = n + 1
  BY IsSeqLen DEF Outer
<1>2. IsSeq(fs2) /\ Len(fs2) = n + 1 /\ fs2[n + 1] = f /\ \A i \in 1..n : fs2[i] = fs[i]
  BY <1>1, AppendIsSeq
<1>3. IsSeq(bs2) /\ Len(bs2) = n + 1 /\ bs2[n + 1] = b /\ \A i \in 1..n : bs2[i] = bs[i]
  BY <1>1, AppendIsSeq
<1>4. /\ IsSeq(pre2) /\ Len(pre2) = (n + 1) + 1 /\ pre2[(n + 1) + 1] = q
      /\ \A i \in 1..(n + 1) : pre2[i] = pre[i]
  BY <1>1, AppendIsSeq
<1>5. /\ pre[1] = <<>> /\ \A j \in 1..n : Link(fs[j], bs[j], j, pre[j], pre[j + 1], o)
      /\ Link(f, b, n + 1, pre[n + 1], q, o) /\ n + 1 <= MaxOpen
  BY DEF Outer
<1> HIDE DEF n, fs2, bs2, pre2
<1>6. pre2[1] = <<>>
  <2>1. 1 \in 1..(n + 1)
    BY <1>1
  <2> QED
    BY <1>4, <1>5, <2>1
<1>7. ASSUME NEW j \in 1..(n + 1) PROVE Link(fs2[j], bs2[j], j, pre2[j], pre2[j + 1], o)
  <2>1. CASE j \in 1..n
    <3>1. j + 1 \in 1..(n + 1)
      BY <1>1, <2>1
    <3>2. fs2[j] = fs[j] /\ bs2[j] = bs[j] /\ pre2[j] = pre[j] /\ pre2[j + 1] = pre[j + 1]
      BY <1>2, <1>3, <1>4, <2>1, <3>1
    <3> QED
      BY <1>5, <2>1, <3>2
  <2>2. CASE j = n + 1
    <3>1. fs2[j] = f /\ bs2[j] = b /\ pre2[j] = pre[n + 1] /\ pre2[j + 1] = q
      BY <1>2, <1>3, <1>4, <2>2
    <3> QED
      BY <1>5, <2>2, <3>1
  <2> QED
    BY <1>1, <2>1, <2>2
<1>8. Outer(fs2, bs2, pre2, o)
  BY <1>2, <1>3, <1>4, <1>5, <1>6, <1>7 DEF Outer
<1>9. pre2[Len(bs2) + 1] = q
  BY <1>3, <1>4
<1> QED
  BY <1>8, <1>9 DEF fs2, bs2

LEMMA OuterLess ==
    ASSUME NEW o, NEW fs, NEW bs, NEW pre, Outer(fs, bs, pre, o), bs # <<>>
    PROVE  \E fs1, bs1, pre1, f, b :
               /\ Outer(fs1, bs1, pre1, o)
               /\ fs = Append(fs1, f) /\ bs = Append(bs1, b)
               /\ Link(f, b, Len(bs1) + 1, pre1[Len(bs1) + 1], pre[Len(bs) + 1], o)
               /\ Len(bs1) + 1 <= MaxOpen /\ Len(bs) = Len(bs1) + 1
<1>1. Len(bs) \in Nat /\ IsSeq(fs) /\ IsSeq(bs) /\ IsSeq(pre) /\ Len(fs) = Len(bs) /\ Len(pre) = Len(bs) + 1
      /\ Len(bs) # 0
  BY IsSeqLen DEF Outer
<1>2. fs # <<>> /\ pre # <<>>
  BY <1>1, IsSeqLen
<1>3. PICK fs1, f : IsSeq(fs1) /\ fs = Append(fs1, f)
  BY <1>1, <1>2, IsFrontLast
<1>4. PICK bs1, b : IsSeq(bs1) /\ bs = Append(bs1, b)
  BY <1>1, IsFrontLast
<1>5. PICK pre1, q : IsSeq(pre1) /\ pre = Append(pre1, q)
  BY <1>1, <1>2, IsFrontLast
<1> DEFINE n == Len(bs1)
<1>6. n \in Nat /\ Len(bs) = n + 1 /\ bs[n + 1] = b /\ \A i \in 1..n : bs[i] = bs1[i]
  BY <1>4, AppendIsSeq, IsSeqLen
<1>7. Len(fs1) = n /\ fs[n + 1] = f /\ \A i \in 1..n : fs[i] = fs1[i]
  <2>1. Len(fs1) \in Nat /\ Len(fs) = Len(fs1) + 1
    BY <1>3, AppendIsSeq, IsSeqLen
  <2>2. Len(fs1) = n
    BY <1>1, <1>6, <2>1
  <2> QED
    BY <1>3, <2>2, AppendIsSeq
<1>8. Len(pre1) = n + 1 /\ pre[(n + 1) + 1] = q /\ \A i \in 1..(n + 1) : pre[i] = pre1[i]
  <2>1. Len(pre1) \in Nat /\ Len(pre) = Len(pre1) + 1
    BY <1>5, AppendIsSeq, IsSeqLen
  <2>2. Len(pre1) = n + 1
    BY <1>1, <1>6, <2>1
  <2> QED
    BY <1>5, <2>2, AppendIsSeq
<1>9. /\ pre[1] = <<>> /\ n + 1 <= MaxOpen
      /\ \A j \in 1..(n + 1) : Link(fs[j], bs[j], j, pre[j], pre[j + 1], o)
  BY <1>6 DEF Outer
<1> HIDE DEF n
<1>10. pre1[1] = <<>>
  <2>1. 1 \in 1..(n + 1)
    BY <1>6
  <2> QED
    BY <1>8, <1>9, <2>1
<1>11. ASSUME NEW j \in 1..n PROVE Link(fs1[j], bs1[j], j, pre1[j], pre1[j + 1], o)
  <2>1. j \in 1..(n + 1) /\ j + 1 \in 1..(n + 1)
    BY <1>6
  <2>2. fs1[j] = fs[j] /\ bs1[j] = bs[j] /\ pre1[j] = pre[j] /\ pre1[j + 1] = pre[j + 1]
    BY <1>6, <1>7, <1>8, <2>1
  <2> QED
    BY <1>9, <2>1, <2>2
<1>12. Outer(fs1, bs1, pre1, o)
  <2>1. n <= MaxOpen
    BY <1>6, <1>9, CallsAssumption
  <2> QED
    BY <1>3, <1>4, <1>5, <1>7, <1>8, <1>10, <1>11, <2>1 DEF Outer, n
<1>13. Link(f, b, n + 1, pre1[n + 1], pre[(n + 1) + 1], o)
  <2>1. n + 1 \in 1..(n + 1)
    BY <1>6
  <2> QED
    BY <1>6, <1>7, <1>8, <1>9, <2>1
<1> QED
  BY <1>3, <1>4, <1>6, <1>9, <1>12, <1>13 DEF n

\* The element that the innermost container waits for is complete.
LEMMA Taken ==
    ASSUME NEW o, NEW fs, NEW bs, NEW pre, Outer(fs, bs, pre, o), bs # <<>>,
           NEW v \in Trees[Len(bs)], IsSeq(Encode(v, o))
    PROVE  Open(fs, Holding(bs, v), pre[Len(bs) + 1] \o Encode(v, o), o)
<1>1. PICK fs1, bs1, pre1, f, b :
               /\ Outer(fs1, bs1, pre1, o)
               /\ fs = Append(fs1, f) /\ bs = Append(bs1, b)
               /\ Link(f, b, Len(bs1) + 1, pre1[Len(bs1) + 1], pre[Len(bs) + 1], o)
               /\ Len(bs1) + 1 <= MaxOpen /\ Len(bs) = Len(bs1) + 1
  BY OuterLess
<1> DEFINE d == Len(bs1) + 1
           h == With(b, v)
           p == pre1[d]
<1>2. /\ Container(b, Trees[d], o) /\ (b.kind = "o" => b.pending)
      /\ f = [kind |-> b.kind, n |-> Len(Elements(b)) + 1] /\ Len(Elements(b)) + 1 <= MaxElements
      /\ IsSeq(p) /\ pre[Len(bs) + 1] = p \o Before(b, o)
  BY <1>1 DEF Link
<1>3. v \in Trees[d]
  BY <1>1
<1>4. IsSeq(bs1)
  BY <1>1 DEF Outer
<1> HIDE DEF d, p
<1>5. /\ Container(h, Trees[d], o) /\ ~Pending(h) /\ h.kind = b.kind
      /\ Len(Elements(h)) = Len(Elements(b)) + 1
      /\ Shown(h, o) = Before(b, o) \o Encode(v, o)
  BY <1>2, <1>3, Held
<1>6. Holding(bs, v) = Append(bs1, h)
  <2>1. Front(bs) = bs1 /\ Last(bs) = b
    BY <1>1, <1>4, FrontLast
  <2> QED
    BY <2>1 DEF Holding, WithLast, With
<1> HIDE DEF h
<1>7. Inner(f, h, d, o)
  <2>1. Len(Elements(h)) \in Nat
    BY <1>5, ElementsLen
  <2>2. f = [kind |-> h.kind, n |-> Len(Elements(h)) + (IF Pending(h) THEN 1 ELSE 0)]
    BY <1>2, <1>5, <2>1
  <2>3. f.n <= MaxElements
    BY <1>2
  <2> QED
    BY <1>1, <1>5, <2>2, <2>3 DEF Inner, d
<1>8. (p \o Before(b, o)) \o Encode(v, o) = p \o Current(h, o)
  <2>1. b.kind = "o" => b.key \in Seq(STRING)
    BY <1>2, CallsAssumption DEF Container, Pending
  <2>2. IsSeq(Before(b, o))
    BY <1>2, <2>1, ShownIsSeq
  <2>3. Three(p, Before(b, o), Encode(v, o))
    BY <1>2, <2>2 DEF Three
  <2>4. (p \o Before(b, o)) \o Encode(v, o) = p \o (Before(b, o) \o Encode(v, o))
    BY <2>3, ConcatThree
  <2> QED
    BY <1>5, <2>4 DEF Current
<1> QED
  BY <1>1, <1>2, <1>6, <1>7, <1>8 DEF Open, d, p
-----------------------------------------------------------------------------
(* Calls without tables.                                                   *)

\* No container is open and nothing is written, or what is written so far is the
\* text of the open containers.
Nesting ==
    /\ root = None /\ table = None /\ ~failed
    /\ \/ frames = <<>> /\ built = <<>> /\ buf = <<>>
       \/ Open(frames, built, buf, Plain(wopts))

\* A value may be written: the comma and the count that beforeValue adds leave the
\* open containers waiting for it.
LEMMA Ready ==
    ASSUME wopts \in WriterOptions, Nesting, Expecting
    PROVE  \E pre : /\ Outer(Counted, built, pre, Plain(wopts))
                    /\ pre[Len(built) + 1] = buf \o Separator
<1> DEFINE o == Plain(wopts)
<1>1. CASE frames = <<>> /\ built = <<>> /\ buf = <<>>
  <2>1. Counted = <<>> /\ Separator = <<>>
    BY <1>1 DEF Counted, Separator
  <2>2. Outer(<<>>, <<>>, << <<>> >>, o)
    BY OuterNone
  <2>3. Len(<<>>) + 1 = 1 /\ << <<>> >>[1] = <<>> /\ <<>> \o <<>> = <<>>
    BY EmptyIsSeq, ConcatEmpty
  <2> HIDE DEF o
  <2> WITNESS << <<>> >>
  <2> QED
    BY <1>1, <2>1, <2>2, <2>3 DEF o
<1>2. CASE Open(frames, built, buf, o)
  <2>1. PICK fs, bs, pre, f, b :
            /\ Outer(fs, bs, pre, o) /\ Inner(f, b, Len(bs) + 1, o)
            /\ frames = Append(fs, f) /\ built = Append(bs, b)
            /\ buf = pre[Len(bs) + 1] \o Current(b, o)
    BY <1>2 DEF Open
  <2> DEFINE d == Len(bs) + 1
             p == pre[d]
             n == Len(Elements(b))
             q == p \o Before(b, o)
             f2 == [kind |-> b.kind, n |-> n + 1]
  <2>2. /\ IsSeq(fs) /\ IsSeq(bs)
        /\ Container(b, Trees[d], o) /\ d <= MaxOpen
        /\ f = [kind |-> b.kind, n |-> n + (IF Pending(b) THEN 1 ELSE 0)] /\ f.n <= MaxElements
    BY <2>1 DEF Outer, Inner
  <2>3. frames # <<>> /\ Front(frames) = fs /\ Last(frames) = f /\ Last(built) = b
    <3>1. frames # <<>>
      BY <2>1, <2>2, AppendIsSeq
    <3>2. Front(frames) = fs /\ Last(frames) = f
      BY <2>1, <2>2, FrontLast
    <3>3. Last(built) = b
      BY <2>1, <2>2, FrontLast
    <3> QED
      BY <3>1, <3>2, <3>3
  <2>4. n \in Nat /\ n <= MaxElements /\ (Elements(b) = <<>> <=> n = 0)
    BY <2>2, ElementsLen, IsSeqLen
  <2>5. /\ f.kind = "o" => b.pending
        /\ f.kind = "a" => f.n < MaxElements
    BY <2>3 DEF Expecting
  <2>6. f.kind = b.kind /\ (b.kind = "o" \/ b.kind = "a")
    BY <2>2, Kinds DEF Container
  <2>7. IsSeq(p)
    BY <2>1, OuterText
  <2>8. IsSeq(Before(b, o)) /\ IsSeq(Shown(b, o)) /\ IsSeq(Comma)
    <3>1. b.kind = "o" => b.key \in Seq(STRING)
      BY <2>2, <2>5, <2>6, CallsAssumption DEF Container, Pending
    <3> QED
      BY <2>2, <3>1, ShownIsSeq, OneTokenIsSeq DEF Comma
  <2> HIDE DEF d, p, n
  <2>9. n + 1 <= MaxElements /\ f2 = IF b.kind = "a" THEN [f EXCEPT !.n = @ + 1] ELSE f
    BY <2>2, <2>4, <2>5, <2>6, CallsAssumption DEF Pending
  <2>10. Link(f2, b, d, p, q, o)
    <3>1. IsSeq(q)
      BY <2>7, <2>8, ConcatIsSeq
    <3> HIDE DEF q
    <3> QED
      BY <2>2, <2>5, <2>6, <2>7, <2>9, <3>1 DEF Link, q, n
  <2>11. Counted = Append(fs, f2)
    BY <2>1, <2>3, <2>6, <2>9 DEF Counted, WithLast
  <2>12. buf \o Separator = q
    <3>1. CASE b.kind = "o"
      <4>1. Separator = <<>> /\ buf = q
        BY <2>1, <2>3, <2>5, <2>6, <3>1 DEF Separator, Current, Pending, p, d
      <4>2. IsSeq(q)
        BY <2>10 DEF Link
      <4> QED
        BY <4>1, <4>2, ConcatEmpty
    <3>2. CASE b.kind = "a"
      <4>1. buf = p \o Shown(b, o) /\ Before(b, o) = Onward(b, o)
        BY <2>1, <3>2 DEF Current, Pending, Before, p, d
      <4>2. Separator = IF n > 0 THEN Comma ELSE <<>>
        <5>1. f.kind = "a" /\ f.n = n
          BY <2>2, <2>4, <2>6, <3>2 DEF Pending
        <5> QED
          BY <2>3, <5>1 DEF Separator, Comma
      <4>3. CASE n = 0
        <5>1. Onward(b, o) = Shown(b, o)
          BY <2>4, <4>3 DEF Onward
        <5>2. buf = q /\ IsSeq(q)
          BY <2>10, <4>1, <5>1 DEF Link
        <5> QED
          BY <4>2, <4>3, <5>2, ConcatEmpty
      <4>4. CASE n # 0
        <5>1. Onward(b, o) = Shown(b, o) \o Comma
          BY <2>4, <4>4 DEF Onward
        <5>2. Three(p, Shown(b, o), Comma)
          BY <2>7, <2>8 DEF Three
        <5>3. (p \o Shown(b, o)) \o Comma = p \o (Shown(b, o) \o Comma)
          BY <5>2, ConcatThree
        <5>4. Separator = Comma
          BY <2>4, <4>2, <4>4
        <5> QED
          BY <4>1, <5>1, <5>3, <5>4
      <4> QED
        BY <4>3, <4>4
    <3> QED
      BY <2>6, <3>1, <3>2
  <2>13. \E pre2 : Outer(Append(fs, f2), Append(bs, b), pre2, o) /\ pre2[Len(Append(bs, b)) + 1] = q
    <3>1. Outer(fs, bs, pre, o) /\ Len(bs) + 1 <= MaxOpen
          /\ Link(f2, b, Len(bs) + 1, pre[Len(bs) + 1], q, o)
      BY <2>1, <2>2, <2>10 DEF d, p
    <3> HIDE DEF q, f2, o
    <3> QED
      BY <3>1, OuterMore
  <2> HIDE DEF o, q, f2
  <2>14. \E pre2 : Outer(Counted, built, pre2, o) /\ pre2[Len(built) + 1] = buf \o Separator
    BY <2>1, <2>11, <2>12, <2>13
  <2> QED
    BY <2>14 DEF o
<1> QED
  BY <1>1, <1>2 DEF Nesting

\* A document is complete: nothing can follow it.
Finished ==
    /\ root # None /\ table = None /\ ~failed /\ frames = <<>>
    /\ PlainStream /\ TableStream

LEMMA NestingDepth ==
    ASSUME Nesting
    PROVE  Len(frames) = Len(built) /\ Len(built) \in 0..MaxOpen
<1>1. CASE frames = <<>> /\ built = <<>> /\ buf = <<>>
  BY <1>1, EmptyIsSeq, CallsAssumption
<1>2. CASE Open(frames, built, buf, Plain(wopts))
  <2>1. PICK fs, bs, pre, f, b :
            /\ Outer(fs, bs, pre, Plain(wopts)) /\ Inner(f, b, Len(bs) + 1, Plain(wopts))
            /\ frames = Append(fs, f) /\ built = Append(bs, b)
    BY <1>2 DEF Open
  <2>2. /\ IsSeq(fs) /\ IsSeq(bs) /\ Len(fs) = Len(bs) /\ Len(bs) \in Nat /\ Len(bs) + 1 <= MaxOpen
    BY <2>1, IsSeqLen DEF Outer, Inner
  <2>3. Len(frames) = Len(fs) + 1 /\ Len(built) = Len(bs) + 1
    BY <2>1, <2>2, AppendIsSeq
  <2> QED
    BY <2>2, <2>3, CallsAssumption
<1> QED
  BY <1>1, <1>2 DEF Nesting

\* The value v is complete: an element of the innermost container, or the document.
LEMMA Value ==
    ASSUME Nesting, NEW fs, NEW bs, NEW pre, Outer(fs, bs, pre, Plain(wopts)),
           NEW v \in Trees[Len(bs)], IsSeq(Encode(v, Plain(wopts))),
           UNCHANGED <<wopts, table, failed>>, frames' = fs,
           buf' = pre[Len(bs) + 1] \o Encode(v, Plain(wopts)), Completed(bs, v)
    PROVE  Nesting' \/ Finished'
<1>1. CASE bs = <<>>
  <2>1. fs = <<>> /\ pre[1] = <<>> /\ Len(bs) = 0
    <3>1. fs = <<>>
      BY <1>1, EmptyIsSeq, IsSeqLen DEF Outer
    <3>2. pre[1] = <<>>
      BY DEF Outer
    <3> QED
      BY <1>1, <3>1, <3>2, EmptyIsSeq
  <2>2. root' = [val |-> v, byTable |-> FALSE]
    BY <1>1 DEF Completed
  <2>3. root'.val = v /\ root'.byTable = FALSE /\ root' # None
    BY <2>2 DEF None
  <2>4. buf' = Encode(v, Plain(wopts))
    <3>1. pre[Len(bs) + 1] = <<>>
      BY <2>1
    <3>2. <<>> \o Encode(v, Plain(wopts)) = Encode(v, Plain(wopts))
      BY ConcatEmpty
    <3> QED
      BY <3>1, <3>2
  <2>5. PlainStream' /\ TableStream'
    BY <2>3, <2>4 DEF PlainStream, TableStream
  <2> QED
    BY <2>1, <2>3, <2>5 DEF Finished, Nesting
<1>2. CASE bs # <<>>
  <2>1. built' = Holding(bs, v) /\ root' = root
    BY <1>2 DEF Completed
  <2>2. Open(fs, Holding(bs, v), pre[Len(bs) + 1] \o Encode(v, Plain(wopts)), Plain(wopts))
    BY <1>2, Taken
  <2>3. Open(frames', built', buf', Plain(wopts'))
    BY <2>1, <2>2
  <2> QED
    BY <2>1, <2>3 DEF Nesting
<1> QED
  BY <1>1, <1>2

LEMMA LeafStep ==
    ASSUME wopts \in WriterOptions, Nesting, NEW v \in Leaves, WriteLeaf(v)
    PROVE  Nesting' \/ Finished'
<1>1. Expecting
  BY DEF WriteLeaf
<1>2. PICK pre : /\ Outer(Counted, built, pre, Plain(wopts))
                 /\ pre[Len(built) + 1] = buf \o Separator
  BY <1>1, Ready
<1>3. v \in Trees[Len(built)]
  BY NestingDepth, TreesAssumption
<1>4. Encode(v, Plain(wopts)) = Encode(v, wopts) /\ IsSeq(Encode(v, wopts))
  BY LeavesAssumption DEF IsSeq
<1>5. /\ buf' = pre[Len(built) + 1] \o Encode(v, Plain(wopts))
      /\ frames' = Counted /\ Completed(built, v) /\ UNCHANGED <<wopts, table, failed>>
  BY <1>2, <1>4 DEF WriteLeaf
<1>6. IsSeq(Encode(v, Plain(wopts)))
  BY <1>4
<1> QED
  BY <1>2, <1>3, <1>5, <1>6, Value

\* A container that has just been opened.
LEMMA Fresh ==
    ASSUME NEW S, NEW o, NEW b,
           \/ b = [kind |-> "o", members |-> <<>>, key |-> <<>>, pending |-> FALSE]
           \/ b = [kind |-> "a", items |-> <<>>]
    PROVE  Container(b, S, o) /\ ~Pending(b) /\ Elements(b) = <<>> /\ Shown(b, o) = Opening(b)
<1>1. MaxElements \in Nat
  BY CallsAssumption
<1>2. \A T : <<>> \in BoundedSeq(T, MaxElements)
  <2> TAKE T
  <2>1. <<>> \in Seq(T) /\ Len(<<>>) <= MaxElements
    BY <1>1, EmptyIsSeq
  <2> QED
    BY <1>1, <2>1, BoundedIs
<1>3. b \in Objects(S) \cup Arrays(S)
  <2>1. CASE b = [kind |-> "o", members |-> <<>>, key |-> <<>>, pending |-> FALSE]
    <3> DEFINE M == BoundedSeq([key : FieldNames, val : S], MaxElements)
    <3>1. <<>> \in M
      BY <1>2
    <3> HIDE DEF M
    <3>2. b \in [kind : {"o"}, members : M, key : FieldNames \cup {<<>>}, pending : BOOLEAN]
      BY <2>1, <3>1
    <3> QED
      BY <3>2 DEF Objects, M
  <2>2. CASE b = [kind |-> "a", items |-> <<>>]
    <3> DEFINE M == BoundedSeq(S, MaxElements)
    <3>1. <<>> \in M
      BY <1>2
    <3> HIDE DEF M
    <3>2. b \in [kind : {"a"}, items : M]
      BY <2>2, <3>1
    <3> QED
      BY <3>2 DEF Arrays, M
  <2> QED
    BY <2>1, <2>2
<1>4. ~Pending(b) /\ Elements(b) = <<>>
  BY DEF Pending, Elements
<1>5. ElementTexts(b, o) = <<>>
  <2>1. ElementTexts(b, o) = [i \in DOMAIN <<>> |-> ElementText(b, i, o)]
    BY <1>4 DEF ElementTexts
  <2> QED
    BY <2>1
<1>6. Texts(<<>>)
  BY EmptyIsSeq DEF Texts
<1>7. Shown(b, o) = Opening(b)
  <2>1. IsSeq(Opening(b))
    BY OneTokenIsSeq DEF Opening
  <2> QED
    BY <1>5, <2>1, JoinedEmpty, ConcatEmpty DEF Shown
<1> QED
  BY <1>3, <1>4, <1>5, <1>6, <1>7 DEF Container

LEMMA BeginStep ==
    ASSUME wopts \in WriterOptions, Nesting, BeginObject \/ BeginArray
    PROVE  Nesting'
<1>1. Expecting /\ Len(frames) < MaxOpen /\ UNCHANGED <<wopts, table, failed, root>>
  BY DEF BeginObject, BeginArray
<1>2. PICK pre : /\ Outer(Counted, built, pre, Plain(wopts))
                 /\ pre[Len(built) + 1] = buf \o Separator
  BY <1>1, Ready
<1>3. PICK f, b :
         /\ \/ b = [kind |-> "o", members |-> <<>>, key |-> <<>>, pending |-> FALSE]
            \/ b = [kind |-> "a", items |-> <<>>]
         /\ f = [kind |-> b.kind, n |-> 0]
         /\ frames' = Append(Counted, f) /\ built' = Append(built, b)
         /\ buf' = (buf \o Separator) \o Opening(b)
  <2>1. CASE BeginObject
    <3> DEFINE b == [kind |-> "o", members |-> <<>>, key |-> <<>>, pending |-> FALSE]
    <3>1. b.kind = "o" /\ Opening(b) = <<Raw("{")>>
      BY DEF Opening
    <3>2. frames' = Append(Counted, [kind |-> b.kind, n |-> 0]) /\ built' = Append(built, b)
          /\ buf' = (buf \o Separator) \o Opening(b)
      BY <2>1, <3>1 DEF BeginObject
    <3> QED
      BY <3>2
  <2>2. CASE BeginArray
    <3> DEFINE b == [kind |-> "a", items |-> <<>>]
    <3>1. b.kind = "a" /\ Opening(b) = <<Raw("[")>>
      BY DEF Opening
    <3>2. frames' = Append(Counted, [kind |-> b.kind, n |-> 0]) /\ built' = Append(built, b)
          /\ buf' = (buf \o Separator) \o Opening(b)
      BY <2>2, <3>1 DEF BeginArray
    <3> QED
      BY <3>2
  <2> QED
    BY <2>1, <2>2
<1> DEFINE d == Len(built) + 1
           o == Plain(wopts)
<1>4. /\ Container(b, Trees[d], o) /\ ~Pending(b) /\ Elements(b) = <<>> /\ Shown(b, o) = Opening(b)
  BY <1>3, Fresh
<1>5. Inner(f, b, d, o)
  <2>1. Len(Elements(b)) = 0
    BY <1>4, EmptyIsSeq
  <2>2. d <= MaxOpen /\ 0 <= MaxElements
    BY <1>1, NestingDepth, CallsAssumption
  <2>3. f = [kind |-> b.kind, n |-> Len(Elements(b)) + (IF Pending(b) THEN 1 ELSE 0)]
    BY <1>3, <1>4, <2>1
  <2>4. f.n <= MaxElements
    BY <1>3, <2>2
  <2> QED
    BY <1>4, <2>2, <2>3, <2>4 DEF Inner
<1>6. buf' = pre[d] \o Current(b, o)
  BY <1>2, <1>3, <1>4 DEF Current
<1>7. Open(frames', built', buf', o)
  BY <1>2, <1>3, <1>5, <1>6 DEF Open
<1> QED
  BY <1>1, <1>7 DEF Nesting

\* What is written when the container b is closed, behind the text p.
LEMMA ClosingText ==
    ASSUME NEW w \in WriterOptions, NEW d \in 1..MaxOpen, NEW b,
           Container(b, Trees[d], Plain(w)), NEW p, IsSeq(p)
    PROVE  Append(p \o Shown(b, Plain(w)), Raw(IF b.kind = "o" THEN "}" ELSE "]"))
               = p \o Encode(Whole(b), Plain(w))
<1> DEFINE s == Shown(b, Plain(w))
           c == Closing(b)
           x == Raw(IF b.kind = "o" THEN "}" ELSE "]")
<1>1. IsSeq(s) /\ IsSeq(c) /\ c = <<x>>
  BY ShownIsSeq, OneTokenIsSeq DEF Closing
<1>2. Encode(Whole(b), Plain(w)) = s \o c
  BY Closed
<1> HIDE DEF s, c, x
<1>3. Append(p \o s, x) = (p \o s) \o c
  BY <1>1, ConcatIsSeq, AppendConcat
<1>4. (p \o s) \o c = p \o (s \o c)
  BY <1>1, ConcatThree DEF Three
<1> QED
  BY <1>2, <1>3, <1>4 DEF s, x

LEMMA EndStep ==
    ASSUME wopts \in WriterOptions, Nesting, EndObject \/ EndArray
    PROVE  Nesting' \/ Finished'
<1> DEFINE o == Plain(wopts)
<1>1. frames # <<>> /\ frames' = Front(frames) /\ UNCHANGED <<wopts, table, failed>>
  BY DEF EndObject, EndArray, AfterMember
<1>2. PICK fs, bs, pre, f, b :
          /\ Outer(fs, bs, pre, o) /\ Inner(f, b, Len(bs) + 1, o)
          /\ frames = Append(fs, f) /\ built = Append(bs, b)
          /\ buf = pre[Len(bs) + 1] \o Current(b, o)
  BY <1>1 DEF Open, Nesting
<1>3. IsSeq(fs) /\ IsSeq(bs) /\ IsSeq(pre[Len(bs) + 1]) /\ Len(bs) \in Nat
  BY <1>2, OuterText DEF Outer
<1>4. Front(frames) = fs /\ Last(frames) = f
  BY <1>2, <1>3, FrontLast
<1>5. Front(built) = bs /\ Last(built) = b
  BY <1>2, <1>3, FrontLast
<1> DEFINE d == Len(bs) + 1
           v == Whole(b)
<1>6. Container(b, Trees[d], o) /\ d \in 1..MaxOpen /\ f.kind = b.kind
  BY <1>2, <1>3, CallsAssumption DEF Inner
<1>7. /\ ~Pending(b) /\ Completed(bs, v)
      /\ buf' = Append(buf, Raw(IF b.kind = "o" THEN "}" ELSE "]"))
  <2>1. CASE EndObject
    <3>1. b.kind = "o" /\ ~b.pending /\ v = Obj(b.members)
      BY <1>4, <1>5, <1>6, <2>1 DEF EndObject, AfterMember, Whole
    <3> QED
      BY <1>5, <2>1, <3>1 DEF EndObject, Pending
  <2>2. CASE EndArray
    <3>1. b.kind = "a" /\ v = List(b.items)
      BY <1>4, <1>5, <1>6, <2>2 DEF EndArray, Whole
    <3> QED
      BY <1>5, <2>2, <3>1 DEF EndArray, Pending
  <2> QED
    BY <2>1, <2>2
<1>8. v \in Trees[Len(bs)] /\ IsSeq(Encode(v, o))
  <2>1. d - 1 = Len(bs)
    BY <1>3
  <2> QED
    BY <1>6, <2>1, Closed
<1>9. buf' = pre[Len(bs) + 1] \o Encode(v, o)
  <2>1. buf = pre[d] \o Shown(b, o)
    BY <1>2, <1>7 DEF Current
  <2> QED
    BY <1>3, <1>6, <1>7, <2>1, ClosingText
<1>10. frames' = fs
  BY <1>1, <1>4
<1> HIDE DEF d, v
<1> QED
  BY <1>1, <1>2, <1>7, <1>8, <1>9, <1>10, Value

\* A comma before every element but the first.
LEMMA CommaIf ==
    ASSUME NEW S, NEW o, NEW b, Container(b, S, o), NEW p, IsSeq(p)
    PROVE  (p \o Shown(b, o)) \o (IF Len(Elements(b)) > 0 THEN Comma ELSE <<>>) = p \o Onward(b, o)
<1> DEFINE s == Shown(b, o)
           n == Len(Elements(b))
<1>1. n \in Nat /\ (Elements(b) = <<>> <=> n = 0)
  BY ElementsLen, IsSeqLen
<1>2. IsSeq(s) /\ IsSeq(Comma) /\ IsSeq(p \o s)
  BY ShownIsSeq, OneTokenIsSeq, ConcatIsSeq DEF Comma
<1>3. (p \o s) \o Comma = p \o (s \o Comma) /\ (p \o s) \o <<>> = p \o s
  BY <1>2, ConcatThree, ConcatEmpty DEF Three
<1>4. CASE n = 0
  BY <1>1, <1>3, <1>4 DEF Onward
<1>5. CASE n # 0
  <2>1. n > 0 /\ Onward(b, o) = s \o Comma
    BY <1>1, <1>5 DEF Onward
  <2> QED
    BY <1>3, <2>1
<1> QED
  BY <1>4, <1>5

\* The object b with the field k written and its value to come.
Naming(b, k) == [b EXCEPT !.key = k, !.pending = TRUE]

LEMMA Named ==
    ASSUME NEW S, NEW o, NEW b, Container(b, S, o), b.kind = "o", ~b.pending,
           NEW k \in FieldNames
    PROVE  LET h == Naming(b, k) IN
           /\ Container(h, S, o) /\ Pending(h) /\ h.kind = "o" /\ Elements(h) = Elements(b)
           /\ Current(h, o) = (Onward(b, o) \o KeyText(k, o)) \o Colon
<1> DEFINE h == Naming(b, k)
<1>1. b \in Objects(S)
  BY Kinds DEF Container
<1>2. h \in Objects(S) /\ h.members = b.members /\ h.key = k /\ h.pending = TRUE /\ h.kind = "o"
  BY <1>1 DEF Objects, Naming
<1> HIDE DEF h
<1>3. Elements(h) = Elements(b) /\ Pending(h) /\ Opening(h) = Opening(b)
  BY <1>2 DEF Elements, Pending, Opening
<1>4. ElementTexts(h, o) = ElementTexts(b, o)
  <2>1. \A i \in DOMAIN Elements(b) : ElementText(h, i, o) = ElementText(b, i, o)
    BY <1>2 DEF ElementText
  <2> QED
    BY <1>3, <2>1 DEF ElementTexts
<1>5. Container(h, S, o)
  BY <1>2, <1>3, <1>4 DEF Container
<1>6. Current(h, o) = (Onward(b, o) \o KeyText(k, o)) \o Colon
  <2>1. Onward(h, o) = Onward(b, o)
    BY <1>3, <1>4 DEF Onward, Shown
  <2> QED
    BY <1>2, <1>3, <2>1 DEF Current, Before
<1> QED
  BY <1>2, <1>3, <1>5, <1>6 DEF h

LEMMA NamedText ==
    ASSUME NEW S, NEW o, NEW b, Container(b, S, o), b.kind = "o", ~b.pending,
           NEW k \in FieldNames, NEW p, IsSeq(p)
    PROVE  LET h == Naming(b, k) IN
           ((p \o Onward(b, o)) \o KeyText(k, o)) \o Colon = p \o Current(h, o)
<1> DEFINE a == Onward(b, o)
           c == KeyText(k, o)
           h == Naming(b, k)
<1>6. Current(h, o) = (a \o c) \o Colon
  BY Named
<1>7. IsSeq(a) /\ IsSeq(c) /\ IsSeq(Colon)
  <2>1. k \in Seq(STRING)
    BY CallsAssumption
  <2> QED
    BY <2>1, ShownIsSeq, KeyIsSeq, OneTokenIsSeq DEF Colon
<1> HIDE DEF a, c, h
<1>8. ((p \o a) \o c) \o Colon = p \o ((a \o c) \o Colon)
  <2>1. ((p \o a) \o c) \o Colon = p \o (a \o (c \o Colon))
    <3>1. Four(p, a, c, Colon)
      BY <1>7 DEF Four, Three
    <3> QED
      BY <3>1, ConcatFour
  <2>2. (a \o c) \o Colon = a \o (c \o Colon)
    <3>1. Three(a, c, Colon)
      BY <1>7 DEF Three
    <3> QED
      BY <3>1, ConcatThree
  <2> QED
    BY <2>1, <2>2
<1> QED
  BY <1>6, <1>8 DEF h, a, c

LEMMA FieldStep ==
    ASSUME wopts \in WriterOptions, Nesting, NEW k \in FieldNames, Field(k)
    PROVE  Nesting'
<1> DEFINE o == Plain(wopts)
<1>1. frames # <<>> /\ UNCHANGED <<wopts, table, failed, root>>
  BY DEF Field, AfterMember
<1>2. PICK fs, bs, pre, f, b :
          /\ Outer(fs, bs, pre, o) /\ Inner(f, b, Len(bs) + 1, o)
          /\ frames = Append(fs, f) /\ built = Append(bs, b)
          /\ buf = pre[Len(bs) + 1] \o Current(b, o)
  BY <1>1 DEF Open, Nesting
<1> DEFINE d == Len(bs) + 1
           p == pre[d]
           n == Len(Elements(b))
           h == Naming(b, k)
           g == [f EXCEPT !.n = @ + 1]
<1>3. IsSeq(fs) /\ IsSeq(bs) /\ IsSeq(p)
  BY <1>2, OuterText DEF Outer
<1>4. Front(frames) = fs /\ Last(frames) = f
  BY <1>2, <1>3, FrontLast
<1>5. Front(built) = bs /\ Last(built) = b
  BY <1>2, <1>3, FrontLast
<1>6. /\ f.kind = "o" /\ ~b.pending /\ f.n < MaxElements
      /\ buf' = ((buf \o (IF f.n > 0 THEN <<Raw(",")>> ELSE <<>>)) \o KeyText(k, wopts)) \o <<Raw(":")>>
      /\ frames' = Append(fs, g) /\ built' = Append(bs, h)
  BY <1>4, <1>5 DEF Field, AfterMember, WithLast, Naming
<1>7. /\ Container(b, Trees[d], o) /\ d <= MaxOpen
      /\ f = [kind |-> b.kind, n |-> n + (IF Pending(b) THEN 1 ELSE 0)]
  BY <1>2 DEF Inner
<1>8. b.kind = "o" /\ n \in Nat
  BY <1>6, <1>7, ElementsLen
<1>9. f = [kind |-> "o", n |-> n] /\ f.n = n
  <2>1. ~Pending(b)
    BY <1>6 DEF Pending
  <2> HIDE DEF n
  <2> QED
    BY <1>7, <1>8, <2>1
<1>10. KeyText(k, wopts) = KeyText(k, o)
  <2>1. wopts \in Options
    BY CallsAssumption
  <2>2. o.unquotedKeys = wopts.unquotedKeys
    BY <2>1 DEF Options, Plain
  <2> QED
    BY <2>2 DEF KeyText
<1>11. buf = p \o Shown(b, o)
  BY <1>2, <1>6 DEF Current, Pending
<1>12. buf' = ((p \o Onward(b, o)) \o KeyText(k, o)) \o Colon
  <2>1. buf \o (IF n > 0 THEN Comma ELSE <<>>) = p \o Onward(b, o)
    BY <1>3, <1>7, <1>11, CommaIf
  <2> HIDE DEF p, o, n
  <2> QED
    BY <1>6, <1>9, <1>10, <2>1 DEF Comma, Colon
<1>13. Container(h, Trees[d], o) /\ Pending(h) /\ h.kind = "o" /\ Elements(h) = Elements(b)
  <2>1. b.kind = "o" /\ ~b.pending
    BY <1>6, <1>8
  <2>2. Container(b, Trees[d], o)
    BY <1>7
  <2> HIDE DEF o, d
  <2> QED
    BY <2>1, <2>2, Named
<1>14. ((p \o Onward(b, o)) \o KeyText(k, o)) \o Colon = p \o Current(h, o)
  <2>1. b.kind = "o" /\ ~b.pending
    BY <1>6, <1>8
  <2> HIDE DEF p, o
  <2> QED
    BY <1>3, <1>7, <2>1, NamedText
<1>15. Inner(g, h, d, o)
  <2>1. g = [kind |-> "o", n |-> n + 1]
    BY <1>9
  <2>2. n + 1 <= MaxElements
    <3>1. MaxElements \in Nat
      BY CallsAssumption
    <3> HIDE DEF n, g, h, p, o, d
    <3> QED
      <4>1. f.n < MaxElements
        BY <1>6
      <4> QED
        BY <1>8, <1>9, <3>1, <4>1
  <2> HIDE DEF g, h
  <2> QED
    BY <1>7, <1>13, <2>1, <2>2 DEF Inner
<1> HIDE DEF g, h
<1>16. Open(frames', built', buf', o)
  BY <1>2, <1>6, <1>12, <1>14, <1>15 DEF Open
<1> QED
  BY <1>1, <1>16 DEF Nesting
-----------------------------------------------------------------------------
(* Tables.                                                                 *)

RowStart == <<Raw(";"), Raw("SP")>>
CellTexts(cells, o) == [i \in DOMAIN cells |-> CellOf(cells[i], o)]

\* The members of a row that has these cells so far.
Members(headers, cells) == [i \in DOMAIN cells |-> [key |-> headers[i], val |-> cells[i]]]

\* The texts of the rows, and of the table up to them.
RowTexts(rows, headers, o) == [i \in DOMAIN rows |-> RowStart \o RowText(rows[i], headers, o)]
Lines(n, headers, rows, o) == TableHead(n, headers, o) \o FlattenSeq(RowTexts(rows, headers, o))

LEMMA SepIsSeq ==
    ASSUME NEW o \in WriterOptions
    PROVE  IsSeq(Sep(o)) /\ IsSeq(RowStart)
<1>1. o.delimiter \in {",", "TAB", "|"}
  BY CallsAssumption DEF Options
<1>2. \A x, y, z : IsSeq(<<x, y>>) /\ IsSeq(<<x, y, z>>)
  <2> TAKE x, y, z
  <2>1. <<x, y>> \in Seq({x, y}) /\ <<x, y, z>> \in Seq({x, y, z})
    OBVIOUS
  <2> QED
    BY <2>1, SeqIsSeq
<1>3. IsSeq(<<Raw("TAB")>>)
  BY OneTokenIsSeq
<1> QED
  BY <1>1, <1>2, <1>3 DEF Sep, RowStart

\* A function over the places of a sequence, whose values are sequences.
LEMMA TextsOf ==
    ASSUME NEW s, IsSeq(s), NEW ts, ts = [i \in DOMAIN s |-> ts[i]],
           \A i \in DOMAIN s : IsSeq(ts[i])
    PROVE  Texts(ts) /\ Len(ts) = Len(s)
<1>1. Len(s) \in Nat /\ DOMAIN s = 1..Len(s)
  BY IsSeqLen
<1>2. ts = [i \in 1..Len(s) |-> ts[i]]
  BY <1>1
<1>3. IsSeq(ts) /\ Len(ts) = Len(s)
  BY <1>1, <1>2, FunctionIsSeq
<1> QED
  BY <1>1, <1>3 DEF Texts

LEMMA HeadIsSeq ==
    ASSUME NEW o \in WriterOptions, NEW headers \in ColumnLists, NEW n
    PROVE  IsSeq(TableHead(n, headers, o))
<1> DEFINE hs == [i \in DOMAIN headers |-> HeaderText(headers[i])]
           a == IF o.noRowCount THEN <<Raw("[")>> ELSE <<Raw("["), Raw(ToString(n))>>
           c == <<Raw(":"), Raw("SP")>>
<1>1. \A x, y : IsSeq(<<x, y>>) /\ IsSeq(<<x>>)
  <2> TAKE x, y
  <2>1. <<x, y>> \in Seq({x, y}) /\ <<x>> \in Seq({x})
    OBVIOUS
  <2> QED
    BY <2>1, SeqIsSeq
<1>2. IsSeq(a) /\ IsSeq(c)
  BY <1>1
<1>3. headers \in Seq(Seq(STRING))
  BY CallsAssumption
<1>4. \A i \in DOMAIN headers : headers[i] \in Seq(STRING)
  BY <1>3, ElementOfSeq, LenProperties
<1>5. \A i \in DOMAIN headers : IsSeq(HeaderText(headers[i]))
  BY <1>4, KeyIsSeq
<1>6. IsSeq(headers)
  BY <1>3, SeqIsSeq
<1>7. hs = [i \in DOMAIN headers |-> hs[i]] /\ \A i \in DOMAIN headers : IsSeq(hs[i])
  BY <1>5
<1> HIDE DEF hs
<1>8. Texts(hs)
  BY <1>6, <1>7, TextsOf
<1>9. IsSeq(Joined(hs, Sep(o)))
  BY <1>8, SepIsSeq, JoinedIsSeq
<1> HIDE DEF a, c
<1>10. IsSeq(a \o c)
  BY <1>2, ConcatIsSeq
<1>11. IsSeq((a \o c) \o Joined(hs, Sep(o)))
  BY <1>9, <1>10, ConcatIsSeq
<1>12. TableHead(n, headers, o) = (a \o c) \o Joined(hs, Sep(o))
  BY DEF TableHead, a, c, hs
<1> QED
  BY <1>11, <1>12

LEMMA CellIsSeq ==
    ASSUME NEW o \in WriterOptions, NEW v \in CellValues
    PROVE  IsSeq(CellOf(v, o))
<1>1. IsSeq(<<>>) /\ IsSeq(<<Raw("null")>>)
  BY EmptyIsSeq, OneTokenIsSeq
<1>2. IsStr(v) => IsSeq(HeaderText(v.str))
  BY CallsAssumption, KeyIsSeq
<1>3. IsSeq(Encode(v, o))
  BY LeavesAssumption DEF IsSeq
<1> QED
  BY <1>1, <1>2, <1>3 DEF CellOf

LEMMA CellsAreTexts ==
    ASSUME NEW o \in WriterOptions, NEW cells \in Seq(CellValues)
    PROVE  Texts(CellTexts(cells, o)) /\ Len(CellTexts(cells, o)) = Len(cells)
<1> DEFINE ts == CellTexts(cells, o)
<1>1. \A i \in DOMAIN cells : cells[i] \in CellValues
  BY ElementOfSeq, LenProperties
<1>2. ts = [i \in DOMAIN cells |-> ts[i]] /\ \A i \in DOMAIN cells : ts[i] = CellOf(cells[i], o)
  BY DEF CellTexts
<1>3. \A i \in DOMAIN cells : IsSeq(ts[i])
  BY <1>1, <1>2, CellIsSeq
<1>4. IsSeq(cells)
  BY SeqIsSeq
<1> HIDE DEF ts
<1>5. Texts(ts) /\ Len(ts) = Len(cells)
  BY <1>2, <1>3, <1>4, TextsOf
<1> QED
  BY <1>5 DEF ts

\* A whole row, and what writeZenRow writes for it.
LEMMA WholeRow ==
    ASSUME NEW o \in WriterOptions, NEW headers \in ColumnLists,
           NEW cells \in Seq(CellValues), Len(cells) = Len(headers)
    PROVE  LET r == Obj(Members(headers, cells)) IN
           /\ r \in RowsOf(headers)
           /\ RowText(r, headers, o) = Joined(CellTexts(cells, o), Sep(o))
<1> DEFINE ms == Members(headers, cells)
           r == Obj(ms)
           n == Len(cells)
<1>1. headers \in Seq(Seq(STRING)) /\ IsInjective(headers)
  BY CallsAssumption
<1>2. n \in Nat /\ DOMAIN cells = 1..n /\ DOMAIN headers = 1..n /\ cells \in [1..n -> CellValues]
  BY <1>1, LenProperties
<1>3. ms = [i \in 1..n |-> [key |-> headers[i], val |-> cells[i]]]
  BY <1>2 DEF Members
<1>4. r = RowOf(headers, cells)
  BY <1>2, <1>3 DEF RowOf
<1>5. r \in RowsOf(headers)
  BY <1>2, <1>4 DEF RowsOf
<1>6. \A i \in 1..n : HasKey(ms, headers[i]) /\ ValueAt(ms, headers[i]) = cells[i]
  <2> HIDE DEF ms, n
  <2> TAKE i \in 1..n
  <2>1. DOMAIN ms = 1..n /\ \A j \in 1..n : ms[j].key = headers[j] /\ ms[j].val = cells[j]
    BY <1>3
  <2>2. \A j \in 1..n : headers[j] = headers[i] => j = i
    BY <1>1, <1>2 DEF IsInjective
  <2> DEFINE k == CHOOSE j \in DOMAIN ms : ms[j].key = headers[i]
  <2>3. k \in DOMAIN ms /\ ms[k].key = headers[i]
    BY <2>1
  <2>4. k = i
    BY <2>1, <2>2, <2>3
  <2> HIDE DEF k
  <2>5. ms[k].val = cells[i]
    BY <2>1, <2>4
  <2> QED
    BY <2>1, <2>5 DEF HasKey, ValueAt, k
<1>7. IsObj(r) /\ r.obj = ms
  BY DEF Obj, IsObj
<1> HIDE DEF r, ms
<1>8. \A i \in 1..n : CellText(r, headers[i], o) = CellOf(cells[i], o)
  BY <1>6, <1>7 DEF CellText
<1>9. [i \in DOMAIN headers |-> CellText(r, headers[i], o)] = CellTexts(cells, o)
  BY <1>2, <1>8 DEF CellTexts
<1>10. RowText(r, headers, o) = Joined(CellTexts(cells, o), Sep(o))
  BY <1>7, <1>9 DEF RowText
<1> QED
  BY <1>5, <1>10 DEF r, ms

LEMMA RowIsSeq ==
    ASSUME NEW o \in WriterOptions, NEW headers \in ColumnLists, NEW r \in RowsOf(headers)
    PROVE  IsSeq(RowText(r, headers, o)) /\ IsObj(r) /\ KeysInOrder(r.obj) = headers
<1>1. PICK cells \in [DOMAIN headers -> CellValues] : r = RowOf(headers, cells)
  BY DEF RowsOf
<1> DEFINE n == Len(headers)
<1>2. headers \in Seq(Seq(STRING))
  BY CallsAssumption
<1>3. n \in Nat /\ DOMAIN headers = 1..n /\ headers = [i \in 1..n |-> headers[i]]
  BY <1>2, LenProperties
<1>4. cells \in Seq(CellValues) /\ Len(cells) = n /\ DOMAIN cells = DOMAIN headers
  BY <1>3
<1>5. r = Obj(Members(headers, cells))
  BY <1>1, <1>4 DEF RowOf, Members
<1>6. RowText(r, headers, o) = Joined(CellTexts(cells, o), Sep(o))
  BY <1>4, <1>5, WholeRow
<1>7. IsSeq(RowText(r, headers, o))
  BY <1>4, <1>6, CellsAreTexts, SepIsSeq, JoinedIsSeq
<1>8. IsObj(r) /\ r.obj = [i \in DOMAIN headers |-> [key |-> headers[i], val |-> cells[i]]]
  BY <1>1 DEF RowOf, Obj, IsObj
<1>9. KeysInOrder(r.obj) = headers
  BY <1>3, <1>8 DEF KeysInOrder
<1> QED
  BY <1>7, <1>8, <1>9

LEMMA RowsAreTexts ==
    ASSUME NEW o \in WriterOptions, NEW headers \in ColumnLists, NEW rows \in Seq(RowsOf(headers))
    PROVE  Texts(RowTexts(rows, headers, o))
<1> DEFINE ts == RowTexts(rows, headers, o)
<1>1. \A i \in DOMAIN rows : rows[i] \in RowsOf(headers)
  BY ElementOfSeq, LenProperties
<1>2. /\ ts = [i \in DOMAIN rows |-> ts[i]]
      /\ \A i \in DOMAIN rows : ts[i] = RowStart \o RowText(rows[i], headers, o)
  BY DEF RowTexts
<1>3. \A i \in DOMAIN rows : IsSeq(ts[i])
  BY <1>1, <1>2, RowIsSeq, SepIsSeq, ConcatIsSeq
<1>4. IsSeq(rows)
  BY SeqIsSeq
<1> HIDE DEF ts
<1>5. Texts(ts)
  BY <1>2, <1>3, <1>4, TextsOf
<1> QED
  BY <1>5 DEF ts

LEMMA LinesIsSeq ==
    ASSUME NEW o \in WriterOptions, NEW headers \in ColumnLists, NEW rows \in Seq(RowsOf(headers)), NEW n
    PROVE  IsSeq(Lines(n, headers, rows, o))
  BY HeadIsSeq, RowsAreTexts, FlattenIsSeq, ConcatIsSeq DEF Lines

\* One more row.
LEMMA MoreLines ==
    ASSUME NEW o \in WriterOptions, NEW headers \in ColumnLists, NEW rows \in Seq(RowsOf(headers)), NEW n,
           NEW r \in RowsOf(headers)
    PROVE  Lines(n, headers, Append(rows, r), o)
               = (Lines(n, headers, rows, o) \o RowStart) \o RowText(r, headers, o)
<1> DEFINE ts == RowTexts(rows, headers, o)
           x == RowText(r, headers, o)
           us == RowTexts(Append(rows, r), headers, o)
           vs == Append(ts, RowStart \o x)
           k == Len(rows)
           a == TableHead(n, headers, o)
<1>1. Texts(ts) /\ IsSeq(x) /\ IsSeq(RowStart) /\ IsSeq(a)
  BY RowsAreTexts, RowIsSeq, SepIsSeq, HeadIsSeq
<1>2. IsSeq(RowStart \o x)
  BY <1>1, ConcatIsSeq
<1>3. us = vs
  <2>1. Append(rows, r) \in Seq(RowsOf(headers))
    OBVIOUS
  <2>2. Texts(us)
    BY <2>1, RowsAreTexts
  <2>3. k \in Nat /\ DOMAIN rows = 1..k /\ IsSeq(rows)
    BY LenProperties, SeqIsSeq
  <2>4. /\ DOMAIN Append(rows, r) = 1..(k + 1)
        /\ \A i \in 1..k : Append(rows, r)[i] = rows[i]
        /\ Append(rows, r)[k + 1] = r
    BY <2>3, AppendIsSeq, IsSeqLen
  <2>5. \A i \in 1..(k + 1) : us[i] = RowStart \o RowText(Append(rows, r)[i], headers, o)
    BY <2>4 DEF RowTexts
  <2>6. us = [i \in 1..(k + 1) |-> us[i]]
    BY <2>4 DEF RowTexts
  <2>7. \A i \in 1..k : ts[i] = RowStart \o RowText(rows[i], headers, o)
    BY <2>3 DEF RowTexts
  <2>8. IsSeq(ts) /\ Len(ts) = k
    <3>1. ts = [i \in 1..k |-> ts[i]]
      BY <2>3 DEF RowTexts
    <3> HIDE DEF ts
    <3> QED
      BY <2>3, <3>1, FunctionIsSeq
  <2> HIDE DEF us, ts, k
  <2>9. IsSeq(us) /\ Len(us) = k + 1
    BY <2>3, <2>6, FunctionIsSeq
  <2>10. /\ IsSeq(vs) /\ Len(vs) = k + 1 /\ vs[k + 1] = RowStart \o x
         /\ \A i \in 1..k : vs[i] = ts[i]
    BY <2>8, AppendIsSeq
  <2> HIDE DEF vs
  <2>11. ASSUME NEW i \in 1..(k + 1) PROVE us[i] = vs[i]
    <3>1. CASE i \in 1..k
      BY <2>4, <2>5, <2>7, <2>10, <3>1
    <3>2. CASE i = k + 1
      BY <2>4, <2>5, <2>10, <3>2
    <3> QED
      BY <2>3, <3>1, <3>2
  <2> QED
    BY <2>9, <2>10, <2>11, SameSeq
<1>4. FlattenSeq(vs) = FlattenSeq(ts) \o (RowStart \o x)
  <2> HIDE DEF ts, x
  <2> QED
    BY <1>1, <1>2, FlattenAppend
<1>5. IsSeq(FlattenSeq(ts))
  BY <1>1, FlattenIsSeq
<1> DEFINE t == FlattenSeq(ts)
<1> HIDE DEF a, t, x
<1>6. a \o (t \o (RowStart \o x)) = ((a \o t) \o RowStart) \o x
  <2>1. Four(a, t, RowStart, x)
    BY <1>1, <1>5 DEF Four, Three, t
  <2> QED
    BY <2>1, ConcatFour
<1> QED
  BY <1>3, <1>4, <1>6 DEF Lines, a, t, x

\* The call of Table t and the text written so far: whole rows, or a row of which
\* there are these cells.
Sheet(t, text, o) ==
    \E headers, n, rows, row, col :
        /\ headers \in ColumnLists /\ n \in 0..MaxRows
        /\ rows \in Seq(RowsOf(headers)) /\ Len(rows) <= n
        /\ t = [headers |-> headers, nRows |-> n, rows |-> rows, row |-> row, col |-> col]
        /\ \/ col = Len(headers) /\ text = Lines(n, headers, rows, o)
           \/ \E cells \in Seq(CellValues) :
                  /\ col = Len(cells) /\ col < Len(headers) /\ Len(rows) < n
                  /\ row = Members(headers, cells)
                  /\ text = (Lines(n, headers, rows, o) \o RowStart)
                                \o Joined(CellTexts(cells, o), Sep(o))

\* Table has been called, and what is written so far is its text.
Tabling ==
    /\ root = None /\ table # None /\ ~failed /\ frames = <<>>
    /\ Sheet(table, buf, wopts)

LEMMA OpenStep ==
    ASSUME wopts \in WriterOptions, Nesting, NEW headers \in ColumnLists, NEW n \in 0..MaxRows,
           OpenTable(headers, n)
    PROVE  Tabling'
<1>1. frames = <<>> /\ UNCHANGED <<wopts, frames, failed, root>>
  BY DEF OpenTable
<1>2. buf = <<>>
  <2>1. CASE Open(frames, built, buf, Plain(wopts))
    <3>1. PICK fs, f : IsSeq(fs) /\ frames = Append(fs, f)
      BY <2>1 DEF Open, Outer
    <3> QED
      BY <1>1, <3>1, AppendIsSeq
  <2> QED
    BY <2>1 DEF Nesting
<1> DEFINE a == TableHead(n, headers, wopts)
           t == [headers |-> headers, nRows |-> n, rows |-> <<>>, row |-> <<>>, col |-> Len(headers)]
<1>3. IsSeq(a) /\ <<>> \o a = a /\ a \o <<>> = a
  BY HeadIsSeq, ConcatEmpty
<1>4. buf' = a /\ table' = t
  BY <1>2, <1>3 DEF OpenTable
<1>5. Lines(n, headers, <<>>, wopts) = a
  <2>1. RowTexts(<<>>, headers, wopts) = <<>>
    <3>1. [i \in DOMAIN <<>> |-> RowStart \o RowText(<<>>[i], headers, wopts)] = <<>>
      OBVIOUS
    <3> QED
      BY <3>1 DEF RowTexts
  <2> QED
    BY <1>3, <2>1, FlattenEmpty DEF Lines
<1>6. Sheet(t, a, wopts)
  <2>1. <<>> \in Seq(RowsOf(headers)) /\ Len(<<>>) <= n
    BY EmptyIsSeq
  <2> HIDE DEF a
  <2> QED
    BY <1>5, <2>1 DEF Sheet
<1>7. t # None
  <2>1. "nRows" \in DOMAIN t /\ "nRows" \notin DOMAIN None
    BY DEF None
  <2> QED
    BY <2>1
<1> HIDE DEF t
<1> QED
  BY <1>1, <1>4, <1>6, <1>7 DEF Tabling, Nesting

\* The calls of Table as the steps see it.
LEMMA SheetIs ==
    ASSUME NEW o \in WriterOptions, NEW t, NEW text, Sheet(t, text, o)
    PROVE  /\ t.headers \in ColumnLists /\ t.nRows \in 0..MaxRows
           /\ t.rows \in Seq(RowsOf(t.headers)) /\ Len(t.rows) <= t.nRows
           /\ t = [headers |-> t.headers, nRows |-> t.nRows, rows |-> t.rows, row |-> t.row, col |-> t.col]
           /\ \/ t.col = Len(t.headers) /\ text = Lines(t.nRows, t.headers, t.rows, o)
              \/ \E cells \in Seq(CellValues) :
                     /\ t.col = Len(cells) /\ t.col < Len(t.headers) /\ Len(t.rows) < t.nRows
                     /\ t.row = Members(t.headers, cells)
                     /\ text = (Lines(t.nRows, t.headers, t.rows, o) \o RowStart)
                                   \o Joined(CellTexts(cells, o), Sep(o))
  BY DEF Sheet

LEMMA HeadersLen ==
    ASSUME NEW headers \in ColumnLists
    PROVE  Len(headers) \in Nat \ {0}
<1>1. headers \in Seq(Seq(STRING)) /\ headers # <<>>
  BY CallsAssumption
<1> QED
  BY <1>1, EmptySeq, LenProperties

LEMMA RowStep ==
    ASSUME wopts \in WriterOptions, Tabling, BeginRow
    PROVE  Tabling'
<1> DEFINE t == table
           o == wopts
           b == Lines(t.nRows, t.headers, t.rows, o)
<1>1. /\ t.col = Len(t.headers) /\ Len(t.rows) < t.nRows
      /\ buf' = buf \o RowStart /\ table' = [t EXCEPT !.row = <<>>, !.col = 0]
      /\ UNCHANGED <<wopts, frames, failed, root>>
  BY DEF BeginRow, BetweenRows, RowStart
<1>2. /\ t.headers \in ColumnLists /\ t.nRows \in 0..MaxRows
      /\ t.rows \in Seq(RowsOf(t.headers)) /\ Len(t.rows) <= t.nRows
      /\ t = [headers |-> t.headers, nRows |-> t.nRows, rows |-> t.rows, row |-> t.row, col |-> t.col]
  BY SheetIs DEF Tabling
<1>3. buf = b
  BY <1>1, SheetIs DEF Tabling
<1> DEFINE u == [headers |-> t.headers, nRows |-> t.nRows, rows |-> t.rows, row |-> <<>>, col |-> 0]
<1>4. table' = u
  BY <1>1, <1>2
<1>5. buf' = (b \o RowStart) \o Joined(CellTexts(<<>>, o), Sep(o))
  <2>1. CellTexts(<<>>, o) = <<>>
    <3>1. [i \in DOMAIN <<>> |-> CellOf(<<>>[i], o)] = <<>>
      OBVIOUS
    <3> QED
      BY <3>1 DEF CellTexts
  <2>2. IsSeq(b \o RowStart)
    BY <1>2, LinesIsSeq, SepIsSeq, ConcatIsSeq
  <2> QED
    BY <1>1, <1>3, <2>1, <2>2, JoinedEmpty, ConcatEmpty
<1>6. Members(t.headers, <<>>) = <<>> /\ <<>> \in Seq(CellValues) /\ Len(<<>>) = 0 /\ 0 < Len(t.headers)
  <2>1. [i \in DOMAIN <<>> |-> [key |-> t.headers[i], val |-> <<>>[i]]] = <<>>
    OBVIOUS
  <2>2. 0 < Len(t.headers)
    BY <1>2, HeadersLen
  <2> QED
    BY <2>1, <2>2, EmptyIsSeq DEF Members
<1>7. Sheet(u, (b \o RowStart) \o Joined(CellTexts(<<>>, o), Sep(o)), o)
  BY <1>1, <1>2, <1>6 DEF Sheet
<1>8. u # None
  <2>1. "nRows" \in DOMAIN u /\ "nRows" \notin DOMAIN None
    BY DEF None
  <2> QED
    BY <2>1
<1> HIDE DEF u, t, b
<1> QED
  BY <1>1, <1>4, <1>5, <1>7, <1>8 DEF Tabling

\* A cell more: its member and its text.
LEMMA OneMoreCell ==
    ASSUME NEW o \in WriterOptions, NEW headers, NEW cells \in Seq(CellValues), NEW v \in CellValues
    PROVE  LET more == Append(cells, v) IN
           /\ more \in Seq(CellValues) /\ Len(more) = Len(cells) + 1
           /\ Members(headers, more)
                  = Append(Members(headers, cells), [key |-> headers[Len(cells) + 1], val |-> v])
           /\ CellTexts(more, o) = Append(CellTexts(cells, o), CellOf(v, o))
<1> DEFINE more == Append(cells, v)
           n == Len(cells)
           e == [key |-> headers[n + 1], val |-> v]
           x == CellOf(v, o)
<1>1. n \in Nat /\ DOMAIN cells = 1..n /\ IsSeq(cells) /\ more \in Seq(CellValues)
  BY LenProperties, SeqIsSeq
<1>2. /\ Len(more) = n + 1 /\ DOMAIN more = 1..(n + 1) /\ more[n + 1] = v
      /\ \A i \in 1..n : more[i] = cells[i]
  BY <1>1, AppendIsSeq, IsSeqLen
<1> DEFINE ms == Members(headers, cells)
           us == Members(headers, more)
           ws == Append(ms, e)
<1> HIDE DEF more, n
<1>3. us = ws
  <2>1. ms = [i \in 1..n |-> ms[i]] /\ \A i \in 1..n : ms[i] = [key |-> headers[i], val |-> cells[i]]
    BY <1>1 DEF Members
  <2>2. /\ us = [i \in 1..(n + 1) |-> us[i]]
        /\ \A i \in 1..(n + 1) : us[i] = [key |-> headers[i], val |-> more[i]]
    BY <1>2 DEF Members
  <2> HIDE DEF ms, us
  <2>3. IsSeq(ms) /\ Len(ms) = n
    BY <1>1, <2>1, FunctionIsSeq
  <2>4. IsSeq(us) /\ Len(us) = n + 1
    BY <1>1, <2>2, FunctionIsSeq
  <2>5. IsSeq(ws) /\ Len(ws) = n + 1 /\ ws[n + 1] = e /\ \A i \in 1..n : ws[i] = ms[i]
    BY <2>3, AppendIsSeq
  <2> HIDE DEF ws
  <2>6. ASSUME NEW i \in 1..(n + 1) PROVE us[i] = ws[i]
    <3>1. CASE i \in 1..n
      BY <1>2, <2>1, <2>2, <2>5, <3>1
    <3>2. CASE i = n + 1
      BY <1>2, <2>2, <2>5, <3>2
    <3> QED
      BY <1>1, <3>1, <3>2
  <2> QED
    BY <2>4, <2>5, <2>6, SameSeq
<1> DEFINE cs == CellTexts(cells, o)
           ds == CellTexts(more, o)
           zs == Append(cs, x)
<1>4. ds = zs
  <2>1. cs = [i \in 1..n |-> cs[i]] /\ \A i \in 1..n : cs[i] = CellOf(cells[i], o)
    BY <1>1 DEF CellTexts
  <2>2. ds = [i \in 1..(n + 1) |-> ds[i]] /\ \A i \in 1..(n + 1) : ds[i] = CellOf(more[i], o)
    BY <1>2 DEF CellTexts
  <2> HIDE DEF cs, ds
  <2>3. IsSeq(cs) /\ Len(cs) = n
    BY <1>1, <2>1, FunctionIsSeq
  <2>4. IsSeq(ds) /\ Len(ds) = n + 1
    BY <1>1, <2>2, FunctionIsSeq
  <2>5. IsSeq(zs) /\ Len(zs) = n + 1 /\ zs[n + 1] = x /\ \A i \in 1..n : zs[i] = cs[i]
    BY <2>3, AppendIsSeq
  <2> HIDE DEF zs
  <2>6. ASSUME NEW i \in 1..(n + 1) PROVE ds[i] = zs[i]
    <3>1. CASE i \in 1..n
      BY <1>2, <2>1, <2>2, <2>5, <3>1
    <3>2. CASE i = n + 1
      BY <1>2, <2>2, <2>5, <3>2
    <3> QED
      BY <1>1, <3>1, <3>2
  <2> QED
    BY <2>4, <2>5, <2>6, SameSeq
<1> QED
  BY <1>1, <1>2, <1>3, <1>4 DEF more, n

\* The delimiter before a row's next cell, whose count Cells keeps.
LEMMA NextCell ==
    ASSUME NEW o \in WriterOptions, NEW cells \in Seq(CellValues), NEW v \in CellValues,
           NEW a, IsSeq(a)
    PROVE  ((a \o Joined(CellTexts(cells, o), Sep(o)))
                \o (IF Len(cells) > 0 THEN Sep(o) ELSE <<>>)) \o CellOf(v, o)
               = a \o Joined(Append(CellTexts(cells, o), CellOf(v, o)), Sep(o))
<1> DEFINE ts == CellTexts(cells, o)
           s == Sep(o)
           x == CellOf(v, o)
           j == Joined(ts, s)
           c == IF Len(cells) > 0 THEN s ELSE <<>>
<1>1. Texts(ts) /\ Len(ts) = Len(cells) /\ Len(cells) \in Nat /\ IsSeq(s) /\ IsSeq(x)
  BY CellsAreTexts, LenProperties, SepIsSeq, CellIsSeq
<1>2. IsSeq(j)
  BY <1>1, JoinedIsSeq
<1>3. ts # <<>> => Joined(Append(ts, x), s) = j \o (s \o x)
  <2> HIDE DEF ts, s, x
  <2> QED
    BY <1>1, JoinedAppend
<1>4. ts = <<>> => Joined(Append(ts, x), s) = x
  <2> HIDE DEF ts, s, x
  <2> QED
    BY <1>1, JoinedAppend
<1>5. ts = <<>> <=> Len(cells) = 0
  BY <1>1, IsSeqLen DEF Texts
<1>6. ts = <<>> => j = <<>>
  BY JoinedEmpty
<1> HIDE DEF ts, s, x, j
<1>7. ((a \o j) \o s) \o x = a \o (j \o (s \o x))
  <2>1. Four(a, j, s, x)
    BY <1>1, <1>2 DEF Four, Three
  <2> QED
    BY <2>1, ConcatFour
<1>8. CASE Len(cells) = 0
  <2>1. a \o <<>> = a
    BY ConcatEmpty
  <2>2. c = <<>> /\ j = <<>> /\ ts = <<>>
    BY <1>5, <1>6, <1>8
  <2>3. ((a \o j) \o c) \o x = a \o x
    BY <2>1, <2>2
  <2>4. Joined(Append(ts, x), s) = x
    BY <1>4, <2>2
  <2> HIDE DEF c
  <2>5. ((a \o j) \o c) \o x = a \o Joined(Append(ts, x), s)
    BY <2>3, <2>4
  <2> QED
    BY <2>5 DEF c, ts, s, x, j
<1>9. CASE Len(cells) # 0
  <2>1. c = s
    BY <1>1, <1>9
  <2>2. Joined(Append(ts, x), s) = j \o (s \o x)
    BY <1>3, <1>5, <1>9
  <2> HIDE DEF c
  <2>3. ((a \o j) \o c) \o x = a \o Joined(Append(ts, x), s)
    BY <1>7, <2>1, <2>2
  <2> QED
    BY <2>3 DEF c, ts, s, x, j
<1> QED
  BY <1>8, <1>9

LEMMA CellStep ==
    ASSUME wopts \in WriterOptions, Tabling, NEW v \in CellValues, Cell(v)
    PROVE  Tabling'
<1> DEFINE t == table
           o == wopts
           b == Lines(t.nRows, t.headers, t.rows, o)
<1>1. /\ t.col < Len(t.headers) /\ buf' = (buf \o CellSep) \o CellOf(v, o)
      /\ UNCHANGED <<wopts, frames, failed, root>>
  BY DEF Cell, InRow
<1>2. /\ t.headers \in ColumnLists /\ t.nRows \in 0..MaxRows /\ t.rows \in Seq(RowsOf(t.headers))
      /\ t = [headers |-> t.headers, nRows |-> t.nRows, rows |-> t.rows, row |-> t.row, col |-> t.col]
  BY SheetIs DEF Tabling
<1>3. Len(t.headers) \in Nat
  BY <1>2, HeadersLen
<1>4. PICK cells \in Seq(CellValues) :
          /\ t.col = Len(cells) /\ Len(t.rows) < t.nRows
          /\ t.row = Members(t.headers, cells)
          /\ buf = (b \o RowStart) \o Joined(CellTexts(cells, o), Sep(o))
  <2>1. t.col # Len(t.headers)
    BY <1>1, <1>3
  <2> QED
    BY <2>1, SheetIs DEF Tabling
<1> DEFINE more == Append(cells, v)
           row == Append(t.row, [key |-> t.headers[t.col + 1], val |-> v])
           rows == IF t.col + 1 = Len(t.headers) THEN Append(t.rows, Obj(row)) ELSE t.rows
           u == [headers |-> t.headers, nRows |-> t.nRows, rows |-> rows, row |-> row, col |-> t.col + 1]
<1>5. /\ more \in Seq(CellValues) /\ Len(more) = Len(cells) + 1
      /\ Members(t.headers, more) = row
      /\ CellTexts(more, o) = Append(CellTexts(cells, o), CellOf(v, o))
  BY <1>4, OneMoreCell
<1>6. table' = u
  BY <1>2 DEF Cell
<1>7. IsSeq(b \o RowStart)
  BY <1>2, LinesIsSeq, SepIsSeq, ConcatIsSeq
<1>8. buf' = (b \o RowStart) \o Joined(CellTexts(more, o), Sep(o))
  <2> DEFINE a == b \o RowStart
  <2>1. CellSep = IF Len(cells) > 0 THEN Sep(o) ELSE <<>>
    BY <1>4 DEF CellSep
  <2>2. IsSeq(a)
    BY <1>7
  <2>3. buf' = ((a \o Joined(CellTexts(cells, o), Sep(o)))
                    \o (IF Len(cells) > 0 THEN Sep(o) ELSE <<>>)) \o CellOf(v, o)
    BY <1>1, <1>4, <2>1
  <2> HIDE DEF a
  <2>4. buf' = a \o Joined(Append(CellTexts(cells, o), CellOf(v, o)), Sep(o))
    BY <2>2, <2>3, NextCell
  <2> QED
    BY <1>5, <2>4 DEF a
<1> HIDE DEF more, row
<1>9. Sheet(u, buf', o)
  <2>1. CASE t.col + 1 = Len(t.headers)
    <3> DEFINE r == Obj(row)
    <3>1. Len(more) = Len(t.headers) /\ r = Obj(Members(t.headers, more))
      BY <1>4, <1>5, <2>1
    <3>2. r \in RowsOf(t.headers) /\ RowText(r, t.headers, o) = Joined(CellTexts(more, o), Sep(o))
      BY <1>2, <1>5, <3>1, WholeRow
    <3> HIDE DEF r
    <3>3. Lines(t.nRows, t.headers, Append(t.rows, r), o) = buf'
      BY <1>2, <1>8, <3>2, MoreLines
    <3>4. Append(t.rows, r) \in Seq(RowsOf(t.headers)) /\ Len(Append(t.rows, r)) <= t.nRows
      BY <1>2, <1>4, <3>2, LenProperties, AppendProperties
    <3>5. u = [headers |-> t.headers, nRows |-> t.nRows, rows |-> Append(t.rows, r), row |-> row,
               col |-> Len(t.headers)]
      BY <2>1 DEF r
    <3> HIDE DEF u
    <3> QED
      BY <1>2, <3>3, <3>4, <3>5 DEF Sheet
  <2>2. CASE t.col + 1 # Len(t.headers)
    <3>1. u = [headers |-> t.headers, nRows |-> t.nRows, rows |-> t.rows, row |-> row, col |-> t.col + 1]
      BY <2>2
    <3>2. t.col + 1 = Len(more) /\ Len(more) < Len(t.headers) /\ Len(t.rows) <= t.nRows
      BY <1>1, <1>2, <1>3, <1>4, <1>5, <2>2, LenProperties
    <3> HIDE DEF u
    <3> QED
      BY <1>2, <1>4, <1>5, <1>8, <3>1, <3>2 DEF Sheet
  <2> QED
    BY <2>1, <2>2
<1>10. u # None
  <2>1. "nRows" \in DOMAIN u /\ "nRows" \notin DOMAIN None
    BY DEF None
  <2> QED
    BY <2>1
<1> HIDE DEF u
<1> QED
  BY <1>1, <1>6, <1>9, <1>10 DEF Tabling

\* The table is complete: the text is Marshal's for a list it writes as a table.
LEMMA TableWhole ==
    ASSUME NEW o \in WriterOptions, NEW headers \in ColumnLists, NEW n \in 0..MaxRows,
           NEW rows \in Seq(RowsOf(headers)), Len(rows) = n, IsTable(rows, o)
    PROVE  Encode(List(rows), o) = Lines(n, headers, rows, o) \o <<Raw("SP"), Raw("]")>>
<1> DEFINE v == List(rows)
<1>1. rows \in BoundedSeq(RowsOf(headers), MaxRows)
  <2>1. n <= MaxRows /\ MaxRows \in Nat
    BY CallsAssumption
  <2> QED
    BY <2>1, BoundedIs
<1>2. Encode(v, o) = EncodeStep(v, o)
  BY <1>1, EncodeAssumption
<1>3. "lit" \notin DOMAIN v /\ "num" \notin DOMAIN v /\ ~IsStr(v) /\ ~IsObj(v) /\ IsList(v) /\ v.list = rows
  BY DEF List, IsStr, IsObj, IsList
<1> HIDE DEF v
<1>4. EncodeStep(v, o) = TableText(rows, HeadersOf(rows), o)
  BY <1>3, Zenon DEF EncodeStep
<1>5. HeadersOf(rows) = headers
  <2>1. Len(rows) >= 2
    BY DEF IsTable, DetectZenGrid
  <2>2. rows[1] \in RowsOf(headers)
    BY <2>1, ElementOfSeq
  <2> QED
    BY <2>2, RowIsSeq DEF HeadersOf
<1>6. [i \in DOMAIN rows |-> <<Raw(";"), Raw("SP")>> \o RowText(rows[i], headers, o)]
          = RowTexts(rows, headers, o)
  BY DEF RowTexts, RowStart
<1>7. TableText(rows, headers, o) = Lines(n, headers, rows, o) \o <<Raw("SP"), Raw("]")>>
  <2>1. TableText(rows, headers, o) =
            (TableHead(Len(rows), headers, o) \o FlattenSeq(RowTexts(rows, headers, o)))
            \o <<Raw("SP"), Raw("]")>>
    BY <1>6 DEF TableText
  <2> QED
    BY <2>1 DEF Lines
<1> QED
  BY <1>2, <1>4, <1>5, <1>7 DEF v

LEMMA EndTableStep ==
    ASSUME wopts \in WriterOptions, Tabling, EndTable
    PROVE  Finished'
<1> DEFINE t == table
           o == wopts
           v == List(t.rows)
<1>1. /\ t.col = Len(t.headers) /\ Len(t.rows) = t.nRows
      /\ buf' = buf \o <<Raw("SP"), Raw("]")>> /\ root' = [val |-> v, byTable |-> TRUE]
      /\ table' = None /\ UNCHANGED <<wopts, frames, failed>>
  BY DEF EndTable, BetweenRows
<1>2. /\ t.headers \in ColumnLists /\ t.nRows \in 0..MaxRows /\ t.rows \in Seq(RowsOf(t.headers))
      /\ buf = Lines(t.nRows, t.headers, t.rows, o)
  BY <1>1, SheetIs DEF Tabling
<1>3. root'.val = v /\ root'.byTable = TRUE /\ root' # None
  BY <1>1 DEF None
<1>4. v.list = t.rows
  BY DEF List
<1>5. IsTable(t.rows, o) => buf' = Encode(v, o)
  BY <1>1, <1>2, TableWhole
<1>6. PlainStream'
  BY <1>3 DEF PlainStream
<1> HIDE DEF v, t
<1>7. TableStream'
  BY <1>1, <1>3, <1>4, <1>5 DEF TableStream
<1> QED
  BY <1>1, <1>3, <1>6, <1>7 DEF Finished, Tabling
-----------------------------------------------------------------------------
\* A call has failed, and the caller has stopped.
Stopped == failed /\ root = None

StreamInv == wopts \in WriterOptions /\ (Stopped \/ Nesting \/ Tabling \/ Finished)

\* At every moment the buffer is what Marshal would have written so far, or a call
\* has failed.
THEOREM Streaming == WriterSpec => []StreamInv
<1>1. WriterInit => StreamInv
  BY DEF WriterInit, StreamInv, Nesting
<1>2. ASSUME StreamInv, [WriterNext]_writerVars
      PROVE  StreamInv'
  <2>1. CASE UNCHANGED writerVars
    BY <1>2, <2>1 DEF writerVars, StreamInv, Stopped, Nesting, Tabling, Finished, PlainStream, TableStream
  <2>2. wopts \in WriterOptions
    BY <1>2 DEF StreamInv
  <2>3. ASSUME NEW v \in Leaves, WriteLeaf(v) PROVE StreamInv'
    <3>1. Nesting
      BY <1>2, <2>3 DEF StreamInv, WriteLeaf, Expecting, Stopped, Tabling, Finished
    <3>2. wopts' = wopts
      BY <2>3 DEF WriteLeaf
    <3> QED
      BY <2>2, <2>3, <3>1, <3>2, LeafStep DEF StreamInv
  <2>4. ASSUME NEW v \in Leaves, ValueFails(v) PROVE StreamInv'
    <3>1. Nesting
      BY <1>2, <2>4 DEF StreamInv, ValueFails, Expecting, Stopped, Tabling, Finished
    <3>2. wopts' = wopts /\ failed' = TRUE /\ root' = root
      BY <2>4 DEF ValueFails
    <3> QED
      BY <2>2, <3>1, <3>2 DEF StreamInv, Nesting, Stopped
  <2>5. ASSUME BeginObject \/ BeginArray PROVE StreamInv'
    <3>1. Nesting
      BY <1>2, <2>5 DEF StreamInv, BeginObject, BeginArray, Expecting, Stopped, Tabling, Finished
    <3>2. wopts' = wopts
      BY <2>5 DEF BeginObject, BeginArray
    <3> QED
      BY <2>2, <2>5, <3>1, <3>2, BeginStep DEF StreamInv
  <2>6. ASSUME NEW k \in FieldNames, Field(k) PROVE StreamInv'
    <3>1. Nesting
      BY <1>2, <2>6 DEF StreamInv, Field, AfterMember, Stopped, Tabling, Finished
    <3>2. wopts' = wopts
      BY <2>6 DEF Field
    <3> QED
      BY <2>2, <2>6, <3>1, <3>2, FieldStep DEF StreamInv
  <2>7. ASSUME EndObject \/ EndArray PROVE StreamInv'
    <3>1. Nesting
      BY <1>2, <2>7 DEF StreamInv, EndObject, EndArray, AfterMember, Stopped, Tabling, Finished
    <3>2. wopts' = wopts
      BY <2>7 DEF EndObject, EndArray
    <3> QED
      BY <2>2, <2>7, <3>1, <3>2, EndStep DEF StreamInv
  <2>8. ASSUME NEW headers \in ColumnLists, NEW n \in 0..MaxRows, OpenTable(headers, n) PROVE StreamInv'
    <3>1. Nesting
      BY <1>2, <2>8 DEF StreamInv, OpenTable, Expecting, Stopped, Tabling, Finished
    <3>2. wopts' = wopts
      BY <2>8 DEF OpenTable
    <3> QED
      BY <2>2, <2>8, <3>1, <3>2, OpenStep DEF StreamInv
  <2>9. ASSUME BeginRow PROVE StreamInv'
    <3>1. Tabling
      BY <1>2, <2>9 DEF StreamInv, BeginRow, BetweenRows, Stopped, Nesting, Finished
    <3>2. wopts' = wopts
      BY <2>9 DEF BeginRow
    <3> QED
      BY <2>2, <2>9, <3>1, <3>2, RowStep DEF StreamInv
  <2>10. ASSUME NEW v \in CellValues, Cell(v) PROVE StreamInv'
    <3>1. Tabling
      BY <1>2, <2>10 DEF StreamInv, Cell, InRow, Stopped, Nesting, Finished
    <3>2. wopts' = wopts
      BY <2>10 DEF Cell
    <3> QED
      BY <2>2, <2>10, <3>1, <3>2, CellStep DEF StreamInv
  <2>11. ASSUME CellFails PROVE StreamInv'
    <3>1. Tabling
      BY <1>2, <2>11 DEF StreamInv, CellFails, InRow, Stopped, Nesting, Finished
    <3>2. wopts' = wopts /\ failed' = TRUE /\ root' = root
      BY <2>11 DEF CellFails
    <3> QED
      BY <2>2, <3>1, <3>2 DEF StreamInv, Tabling, Stopped
  <2>12. ASSUME EndTable PROVE StreamInv'
    <3>1. Tabling
      BY <1>2, <2>12 DEF StreamInv, EndTable, BetweenRows, Stopped, Nesting, Finished
    <3>2. wopts' = wopts
      BY <2>12 DEF EndTable
    <3> QED
      BY <2>2, <2>12, <3>1, <3>2, EndTableStep DEF StreamInv
  <2> QED
    BY <1>2, <2>1, <2>3, <2>4, <2>5, <2>6, <2>7, <2>8, <2>9, <2>10, <2>11, <2>12 DEF WriterNext
<1> QED
  BY <1>1, <1>2, PTL DEF WriterSpec

LEMMA StreamMeans == StreamInv => PlainStream /\ TableStream
  BY DEF StreamInv, Stopped, Nesting, Tabling, Finished, PlainStream, TableStream

\* However the calls nest, and however many there are, a document streamed without
\* Table is, token for token, what Marshal writes without tables for the value the
\* calls describe (Writer.beforeValue, Field, End...).
THEOREM StreamedAsMarshalled == WriterSpec => []PlainStream
  BY Streaming, StreamMeans, PTL

\* A table of any rows and columns is what Marshal writes for the same slice of
\* objects, whenever Marshal writes that slice as a table (Writer.Table, Cells.pre).
THEOREM TablesAsMarshalled == WriterSpec => []TableStream
  BY Streaming, StreamMeans, PTL
=============================================================================
