--------------------------- MODULE ZenParserProofs ---------------------------
(***************************************************************************)
(* The parser on texts of any length, with any nesting bound: it stays     *)
(* within the text and the bound, gives every row of a table every column, *)
(* and consumes something on every turn of every loop.                     *)
(***************************************************************************)
EXTENDS ZenParser, SequenceFacts

-----------------------------------------------------------------------------
(* Positions.                                                              *)

\* Inside the text there is a byte, and only there.
LEMMA InsideText ==
    ASSUME input \in Inputs
    PROVE  /\ IsSeq(input)
           /\ Len(input) \in Nat
           /\ \A q \in Nat \ {0} : ByteAt(q) = "EOF" <=> q > Len(input)
<1> DEFINE Token == [raw : STRING \ {"EOF"}] \cup [quoted : Seq(STRING)]
<1>1. input \in Seq(Token)
  BY InputsAssumption
<1>2. \A t \in Token : "quoted" \notin DOMAIN t => t.raw # "EOF"
  OBVIOUS
<1> HIDE DEF Token
<1>3. Len(input) \in Nat /\ \A q \in 1..Len(input) : input[q] \in Token
  BY <1>1
<1>4. \A q \in Nat \ {0} : ByteAt(q) = "EOF" <=> q > Len(input)
  BY <1>2, <1>3 DEF ByteAt
<1> QED
  BY <1>1, <1>3, <1>4, SeqIsSeq

\* A position of the text, or the one behind it.
Here == 1..(Len(input) + 1)

\* What skips bytes stops within the text, and not before it began.
LEMMA AfterStops ==
    ASSUME input \in Inputs, NEW S, "EOF" \notin S, NEW q \in Here
    PROVE  /\ After(S, q) \in Here
           /\ After(S, q) >= q
           /\ ByteAt(After(S, q)) \notin S
<1> USE DEF Here
<1>1. Len(input) \in Nat /\ ByteAt(Len(input) + 1) = "EOF"
  BY InsideText
<1> DEFINE Ends == {r \in q..(Len(input) + 1) : ByteAt(r) \notin S}
<1>2. Ends # {} /\ Ends \in SUBSET Nat
  BY <1>1
<1>3. PICK r \in Ends : \A m \in Ends : r <= m
  BY <1>2, LeastNumber
<1>4. \A m \in q..(r - 1) : ByteAt(m) \in S
  BY <1>1, <1>3
<1>5. /\ After(S, q) \in q..(Len(input) + 1)
      /\ ByteAt(After(S, q)) \notin S
  BY <1>3, <1>4 DEF After
<1> QED
  BY <1>1, <1>5

LEMMA SkipsStop ==
    ASSUME input \in Inputs, NEW q \in Here
    PROVE  /\ SkipWS(q) \in Here /\ SkipWS(q) >= q
           /\ SkipSpaces(q) \in Here /\ SkipSpaces(q) >= q
<1>1. "EOF" \notin White /\ "EOF" \notin {"SP"}
  BY DEF White
<1> QED
  BY <1>1, AfterStops DEF SkipWS, SkipSpaces

\* Where an unquoted header ends.
LEMMA HeaderStops ==
    ASSUME input \in Inputs, NEW q \in Here
    PROVE  LET e == CHOOSE r \in q..(Len(input) + 1) :
                        /\ ByteAt(r) \in CellEnds \cup {"EOF"}
                        /\ \A m \in q..(r - 1) : ByteAt(m) \notin CellEnds
           IN  e \in Here /\ e >= q
<1> USE DEF Here
<1>1. Len(input) \in Nat /\ ByteAt(Len(input) + 1) = "EOF"
  BY InsideText
<1> DEFINE Ends == {r \in q..(Len(input) + 1) : ByteAt(r) \in CellEnds \cup {"EOF"}}
<1>2. Ends # {} /\ Ends \in SUBSET Nat
  BY <1>1
<1>3. PICK r \in Ends : \A m \in Ends : r <= m
  BY <1>2, LeastNumber
<1>4. \A m \in q..(r - 1) : ByteAt(m) \notin CellEnds
  BY <1>1, <1>3
<1> QED
  BY <1>1, <1>3, <1>4

\* Where an unquoted cell ends.
LEMMA BareStops ==
    ASSUME input \in Inputs, NEW q \in Here
    PROVE  BareEnd(q) \in Here /\ BareEnd(q) >= q
<1> USE DEF Here
<1>1. Len(input) \in Nat /\ ByteAt(Len(input) + 1) = "EOF"
  BY InsideText
<1> DEFINE Stop(r) == ByteAt(r) = "EOF" \/ (ByteAt(r) \in CellEnds /\ ~Escaped(q, r))
           Ends == {r \in q..(Len(input) + 1) : Stop(r)}
<1>2. Ends # {} /\ Ends \in SUBSET Nat
  BY <1>1
<1>3. PICK r \in Ends : \A m \in Ends : r <= m
  BY <1>2, LeastNumber
<1>4. \A m \in q..(r - 1) : ByteAt(m) \notin CellEnds \/ Escaped(q, m)
  BY <1>1, <1>3
<1> QED
  BY <1>1, <1>3, <1>4 DEF BareEnd

\* A byte that is none of those behind the text leaves room for one step.
LEMMA OneMore ==
    ASSUME input \in Inputs, NEW q \in Here, ByteAt(q) # "EOF"
    PROVE  q + 1 \in Here
  BY InsideText DEF Here
-----------------------------------------------------------------------------
(* Rows.                                                                   *)

\* A member slice.
IsMembers(ms) ==
    IsSeq(ms) /\ \A i \in DOMAIN ms : ms[i] = [key |-> ms[i].key, val |-> ms[i].val]

\* Set keeps every key where it is, and puts a new one at the end.
LEMMA PutKeys ==
    ASSUME NEW ms, IsMembers(ms), NEW k, NEW v
    PROVE  /\ IsMembers(Put(ms, k, v))
           /\ \A i \in 1..Len(ms) : Put(ms, k, v)[i].key = ms[i].key
           /\ HasKey(ms, k) => Len(Put(ms, k, v)) = Len(ms)
           /\ ~HasKey(ms, k) => /\ Len(Put(ms, k, v)) = Len(ms) + 1
                                /\ Put(ms, k, v)[Len(ms) + 1].key = k
<1>1. Len(ms) \in Nat /\ DOMAIN ms = 1..Len(ms)
  BY IsSeqLen DEF IsMembers
<1>2. CASE HasKey(ms, k)
  <2> DEFINE new == [i \in 1..Len(ms) |-> IF ms[i].key = k THEN [ms[i] EXCEPT !.val = v] ELSE ms[i]]
  <2>1. Put(ms, k, v) = new
    BY <1>1, <1>2 DEF Put, HasKey
  <2>2. new \in Seq(Range(new)) /\ Len(new) = Len(ms) /\ DOMAIN new = 1..Len(ms)
    BY <1>1 DEF Range
  <2>3. ASSUME NEW i \in 1..Len(ms)
        PROVE  new[i].key = ms[i].key /\ new[i] = [key |-> new[i].key, val |-> new[i].val]
    <3>1. ms[i] = [key |-> ms[i].key, val |-> ms[i].val]
      BY <1>1 DEF IsMembers
    <3>2. [ms[i] EXCEPT !.val = v] = [key |-> ms[i].key, val |-> v]
      BY <3>1
    <3> QED
      BY <3>1, <3>2
  <2> QED
    BY <1>2, <2>1, <2>2, <2>3 DEF IsMembers, IsSeq
<1>3. CASE ~HasKey(ms, k)
  <2> DEFINE m == [key |-> k, val |-> v]
  <2>1. Put(ms, k, v) = Append(ms, m)
    BY <1>3 DEF Put, HasKey
  <2>2. m = [key |-> m.key, val |-> m.val] /\ m.key = k
    OBVIOUS
  <2> HIDE DEF m
  <2>3. /\ IsSeq(Append(ms, m)) /\ Len(Append(ms, m)) = Len(ms) + 1
        /\ \A i \in 1..Len(ms) : Append(ms, m)[i] = ms[i]
        /\ Append(ms, m)[Len(ms) + 1] = m
    BY AppendIsSeq DEF IsMembers
  <2>4. DOMAIN Append(ms, m) = 1..(Len(ms) + 1)
    BY <2>3, IsSeqLen
  <2>5. \A i \in 1..(Len(ms) + 1) :
            Append(ms, m)[i] = [key |-> Append(ms, m)[i].key, val |-> Append(ms, m)[i].val]
    <3> TAKE i \in 1..(Len(ms) + 1)
    <3>1. CASE i = Len(ms) + 1
      BY <2>2, <2>3, <3>1
    <3>2. CASE i \in 1..Len(ms)
      BY <1>1, <2>3, <3>2 DEF IsMembers
    <3> QED
      BY <1>1, <3>1, <3>2
  <2> QED
    BY <1>3, <2>1, <2>2, <2>3, <2>4, <2>5 DEF IsMembers
<1> QED
  BY <1>2, <1>3

\* A row with the first n columns and one more column set has the first n + 1.
LEMMA PutColumn ==
    ASSUME NEW ms, IsMembers(ms), NEW hs, NEW n \in Nat, NEW v,
           ColumnsOf(KeysInOrder(ms), hs, n)
    PROVE  ColumnsOf(KeysInOrder(Put(ms, hs[n + 1], v)), hs, n + 1)
<1> DEFINE k == hs[n + 1]
           new == Put(ms, k, v)
           old == KeysInOrder(ms)
           ks == KeysInOrder(new)
<1>1. Len(ms) \in Nat /\ DOMAIN ms = 1..Len(ms) /\ DOMAIN old = 1..Len(ms)
  BY IsSeqLen DEF IsMembers, KeysInOrder
<1>2. /\ \A i \in 1..Len(ms) : old[i] = ms[i].key
      /\ HasKey(ms, k) <=> \E i \in 1..Len(ms) : old[i] = k
  BY <1>1 DEF KeysInOrder, HasKey
<1>3. \A i \in 1..Len(ms) : \E m \in 1..n : hs[m] = old[i]
  BY <1>1 DEF ColumnsOf
<1>4. \A m \in 1..n : \E i \in 1..Len(ms) : old[i] = hs[m]
  BY <1>1 DEF ColumnsOf
<1>5. \A i, j \in 1..Len(ms) : i < j =>
          \E m \in 1..n : hs[m] = old[i] /\ \A p \in 1..m : hs[p] # old[j]
  <2>1. \A i, j \in DOMAIN old : i < j =>
            \E m \in 1..n : hs[m] = old[i] /\ \A p \in 1..m : hs[p] # old[j]
    BY DEF ColumnsOf
  <2> QED
    BY <1>1, <2>1, Zenon
<1>6. /\ IsMembers(new)
      /\ \A i \in 1..Len(ms) : new[i].key = ms[i].key
      /\ HasKey(ms, k) => Len(new) = Len(ms)
      /\ ~HasKey(ms, k) => Len(new) = Len(ms) + 1 /\ new[Len(ms) + 1].key = k
  BY PutKeys
<1>7. DOMAIN new = 1..Len(new) /\ DOMAIN ks = 1..Len(new)
  BY <1>6, IsSeqLen DEF IsMembers, KeysInOrder
<1> HIDE DEF new
<1>8. \A i \in 1..Len(new) : ks[i] = new[i].key
  BY <1>7 DEF KeysInOrder
<1> HIDE DEF old, ks, k
<1>9. 1..(n + 1) = 1..n \cup {n + 1} /\ hs[n + 1] = k
  BY DEF k
<1>10. CASE HasKey(ms, k)
  <2>1. \A i \in 1..Len(ms) : ks[i] = old[i]
    BY <1>1, <1>2, <1>6, <1>8, <1>10
  <2>2. Len(new) = Len(ms) /\ \E i \in 1..Len(ms) : old[i] = k
    BY <1>2, <1>6, <1>10
  <2>3. \A i \in 1..Len(new) : \E m \in 1..(n + 1) : ks[i] = hs[m]
    BY <1>3, <1>9, <2>1, <2>2
  <2>4. \A m \in 1..(n + 1) : \E i \in 1..Len(new) : ks[i] = hs[m]
    BY <1>4, <1>9, <2>1, <2>2
  <2>5. \A i, j \in DOMAIN ks : i < j =>
            \E m \in 1..(n + 1) : hs[m] = ks[i] /\ \A p \in 1..m : hs[p] # ks[j]
    BY <1>7, <1>5, <1>9, <2>1, <2>2
  <2> QED
    BY <1>7, <2>3, <2>4, <2>5 DEF ColumnsOf, ks, new, k
<1>11. CASE ~HasKey(ms, k)
  <2>1. Len(new) = Len(ms) + 1 /\ new[Len(ms) + 1].key = k
    BY <1>6, <1>11
  <2>2. 1..Len(new) = 1..Len(ms) \cup {Len(ms) + 1}
    BY <1>1, <2>1
  <2>3. \A i \in 1..Len(ms) : ks[i] = old[i]
    BY <1>2, <1>6, <1>8, <2>2
  <2>4. ks[Len(ms) + 1] = k
    BY <1>8, <2>1, <2>2
  <2>5. \A i \in 1..Len(new) : \E m \in 1..(n + 1) : ks[i] = hs[m]
    BY <1>3, <1>9, <2>1, <2>3, <2>4, <2>2
  <2>6. \A m \in 1..(n + 1) : \E i \in 1..Len(new) : ks[i] = hs[m]
    BY <1>1, <1>4, <1>9, <2>1, <2>3, <2>4, <2>2
  <2>7. \A m \in 1..n : hs[m] # k
    BY <1>2, <1>4, <1>11
  <2>8. ASSUME NEW i \in 1..Len(new), NEW j \in 1..Len(new), i < j
        PROVE  \E m \in 1..(n + 1) : hs[m] = ks[i] /\ \A p \in 1..m : hs[p] # ks[j]
    <3>1. i \in 1..Len(ms)
      BY <1>1, <2>1, <2>8
    <3>2. CASE j \in 1..Len(ms)
      BY <1>5, <1>9, <2>3, <2>8, <3>1, <3>2
    <3>3. CASE j = Len(ms) + 1
      <4>1. PICK m \in 1..n : hs[m] = old[i]
        BY <1>3, <3>1
      <4>2. \A p \in 1..m : hs[p] # k
        BY <2>7, <4>1
      <4> QED
        BY <1>9, <2>3, <2>4, <3>1, <3>3, <4>1, <4>2
    <3> QED
      BY <2>1, <2>2, <3>2, <3>3
  <2>9. \A i, j \in DOMAIN ks : i < j =>
            \E m \in 1..(n + 1) : hs[m] = ks[i] /\ \A p \in 1..m : hs[p] # ks[j]
    BY <1>7, <2>8, Zenon
  <2> QED
    BY <1>7, <2>5, <2>6, <2>9 DEF ColumnsOf, ks, new, k
<1> QED
  BY <1>10, <1>11
\* What Filled makes of a row that lacks the columns hs.
NullsFor(ms, hs) == FoldLeft(LAMBDA xs, h : Put(xs, h, Null), ms, hs)

\* fillNull, one column after another: what FoldLeft goes through.
LEMMA FoldOfPut ==
    ASSUME NEW hs, IsSeq(hs), NEW ms
    PROVE  \E acc : /\ acc[0] = ms
                    /\ \A i \in 1..Len(hs) : acc[i] = Put(acc[i - 1], hs[i], Null)
                    /\ acc[Len(hs)] = NullsFor(ms, hs)
<1> DEFINE Step(g, s) == IF s = {} THEN ms ELSE Put(g[s \ {Max(s)}], hs[Max(s)], Null)
           Folds(g, k) == g = [s \in SUBSET (1..k) |-> Step(g, s)]
<1>1. Len(hs) \in Nat /\ DOMAIN hs = 1..Len(hs)
  BY IsSeqLen
<1>2. \A k \in Nat : Max(1..(k + 1)) = k + 1
  BY DEF Max
<1>3. ASSUME NEW k \in Nat, NEW s \in SUBSET (1..(k + 1)), k + 1 \in s
      PROVE  Max(s) = k + 1 /\ s \ {k + 1} \in SUBSET (1..k)
  <2>1. \A x \in s : x <= k + 1
    OBVIOUS
  <2>2. \A x \in s : (\A y \in s : x >= y) => x = k + 1
    BY <1>3, <2>1
  <2>3. Max(s) = k + 1
    BY <1>3, <2>1, <2>2 DEF Max
  <2>4. \A x \in s : x # k + 1 => x \in 1..k
    OBVIOUS
  <2> QED
    BY <2>3, <2>4
<1>4. ASSUME NEW k \in Nat, NEW g, Folds(g, k)
      PROVE  \E f : Folds(f, k + 1)
  <2> DEFINE f == [s \in SUBSET (1..(k + 1)) |->
                      IF k + 1 \in s THEN Put(g[s \ {k + 1}], hs[k + 1], Null) ELSE g[s]]
  <2>1. \A s \in SUBSET (1..(k + 1)) : k + 1 \notin s => s \in SUBSET (1..k)
    OBVIOUS
  <2>2. \A s \in SUBSET (1..k) : s \in SUBSET (1..(k + 1)) /\ k + 1 \notin s
    OBVIOUS
  <2>3. \A s \in SUBSET (1..k) : f[s] = g[s]
    BY <2>2
  <2>4. \A s \in SUBSET (1..k) : g[s] = Step(g, s) /\ s \ {Max(s)} \in SUBSET (1..k)
    BY <1>4
  <2>5. ASSUME NEW s \in SUBSET (1..(k + 1))
        PROVE  f[s] = Step(f, s)
    <3>1. CASE k + 1 \in s
      <4>1. f[s] = Put(g[s \ {k + 1}], hs[k + 1], Null)
        BY <3>1
      <4> HIDE DEF f
      <4> QED
        BY <1>3, <2>3, <3>1, <4>1
    <3>2. CASE k + 1 \notin s
      <4>1. f[s] = g[s] /\ s \in SUBSET (1..k)
        BY <2>1, <3>2
      <4> HIDE DEF f
      <4> QED
        BY <2>3, <2>4, <4>1
    <3> QED
      BY <3>1, <3>2
  <2>6. f = [s \in SUBSET (1..(k + 1)) |-> f[s]]
    OBVIOUS
  <2> HIDE DEF f
  <2>7. f = [s \in SUBSET (1..(k + 1)) |-> Step(f, s)]
    BY <2>5, <2>6
  <2> QED
    BY <2>7
<1>5. \E g : Folds(g, 0)
  <2>1. SUBSET (1..0) = {{}}
    OBVIOUS
  <2> DEFINE g == [s \in SUBSET (1..0) |-> ms]
  <2>2. \A s \in SUBSET (1..0) : s = {}
    OBVIOUS
  <2>3. g = [s \in SUBSET (1..0) |-> Step(g, s)]
    BY <2>2
  <2> QED
    BY <2>3
<1> HIDE DEF Folds
<1>6. \A k \in Nat : \E g : Folds(g, k)
  <2> DEFINE Bad == {k \in Nat : ~\E g : Folds(g, k)}
  <2>1. SUFFICES ASSUME Bad # {} PROVE FALSE
    OBVIOUS
  <2>2. PICK k \in Bad : \A m \in Bad : k <= m
    BY <2>1, LeastNumber
  <2>3. k # 0 /\ k - 1 \in Nat /\ k - 1 \notin Bad /\ (k - 1) + 1 = k
    BY <1>5, <2>2
  <2>4. PICK g : Folds(g, k - 1)
    BY <2>3
  <2>5. \E f : Folds(f, k)
    BY <1>4, <2>3, <2>4
  <2> QED
    BY <2>2, <2>5
<1> DEFINE iter == CHOOSE g : Folds(g, Len(hs))
           acc == [i \in 0..Len(hs) |-> iter[1..i]]
<1>7. iter = [s \in SUBSET (1..Len(hs)) |-> Step(iter, s)]
  <2>1. Folds(iter, Len(hs))
    BY <1>1, <1>6
  <2> HIDE DEF iter
  <2> QED
    BY <2>1 DEF Folds
<1>8. NullsFor(ms, hs) = iter[1..Len(hs)]
  BY <1>1 DEF NullsFor, FoldLeft, MapThenFoldSet, Folds
<1> HIDE DEF iter
<1>9. acc[0] = ms
  BY <1>1, <1>7
<1>10. ASSUME NEW i \in 1..Len(hs)
       PROVE  acc[i] = Put(acc[i - 1], hs[i], Null)
  <2>1. 1..i \in SUBSET (1..Len(hs)) /\ 1..i # {} /\ (1..i) \ {i} = 1..(i - 1)
    BY <1>1
  <2>2. i - 1 \in Nat /\ (i - 1) + 1 = i
    BY <1>1
  <2>3. Max(1..i) = i
    BY <1>2, <2>2
  <2>4. iter[1..i] = Put(iter[1..(i - 1)], hs[i], Null)
    BY <1>7, <2>1, <2>3
  <2> QED
    BY <1>1, <2>4
<1>11. acc[Len(hs)] = NullsFor(ms, hs)
  BY <1>1, <1>8
<1> HIDE DEF acc
<1> QED
  BY <1>9, <1>10, <1>11
\* A row that is returned has all columns.
LEMMA FilledRow ==
    ASSUME NEW f, IsSeq(f.headers), IsMembers(f.row), f.col \in 1..(Len(f.headers) + 1),
           ColumnsOf(KeysInOrder(f.row), f.headers, f.col - 1)
    PROVE  ColumnsOf(KeysInOrder(Filled(f)), f.headers, Len(f.headers))
<1> DEFINE n == Len(f.headers)
           hs == SubSeq(f.headers, f.col, n)
           rest == n + 1 - f.col
<1>1. n \in Nat
  BY IsSeqLen
<1>2. IsSeq(hs) /\ Len(hs) = rest /\ rest \in Nat
      /\ \A i \in 1..rest : hs[i] = f.headers[f.col + i - 1]
  BY SMTT(30), <1>1, SubSeqIsSeq
<1>3. Filled(f) = NullsFor(f.row, hs)
  BY DEF Filled, NullsFor
<1> HIDE DEF hs
<1>4. PICK acc : /\ acc[0] = f.row
                 /\ \A i \in 1..Len(hs) : acc[i] = Put(acc[i - 1], hs[i], Null)
                 /\ acc[Len(hs)] = NullsFor(f.row, hs)
  BY <1>2, FoldOfPut
<1> DEFINE Has(i) == /\ IsMembers(acc[i])
                     /\ ColumnsOf(KeysInOrder(acc[i]), f.headers, f.col - 1 + i)
           Bad == {i \in 0..rest : ~Has(i)}
<1>5. Has(0)
  BY <1>1, <1>4
<1>6. ASSUME NEW i \in 1..rest, Has(i - 1)
      PROVE  Has(i)
  <2> DEFINE c == f.col - 1 + (i - 1)
  <2>1. c \in Nat /\ c + 1 = f.col + i - 1 /\ c + 1 = f.col - 1 + i
    BY <1>1
  <2>2. acc[i] = Put(acc[i - 1], f.headers[c + 1], Null)
    BY <1>2, <1>4, <2>1
  <2>3. IsMembers(acc[i - 1]) /\ ColumnsOf(KeysInOrder(acc[i - 1]), f.headers, c)
    BY <1>6
  <2> HIDE DEF c
  <2>4. ColumnsOf(KeysInOrder(acc[i]), f.headers, c + 1)
    BY <2>1, <2>2, <2>3, PutColumn
  <2>5. IsMembers(acc[i])
    BY <2>2, <2>3, PutKeys
  <2> QED
    BY <2>1, <2>4, <2>5
<1>7. Has(rest)
  <2> HIDE DEF Has
  <2>1. SUFFICES ASSUME Bad # {} PROVE FALSE
    BY <1>2
  <2>2. Bad \in SUBSET Nat
    BY <1>2
  <2>3. PICK i \in Bad : \A m \in Bad : i <= m
    BY <2>1, <2>2, LeastNumber
  <2>4. i # 0 /\ i \in 1..rest /\ i - 1 \notin Bad
    BY <1>2, <1>5, <2>3
  <2> QED
    BY <1>2, <1>6, <2>3, <2>4
<1>8. f.col - 1 + rest = n
  BY <1>1
<1> HIDE DEF rest
<1> QED
  BY <1>2, <1>3, <1>4, <1>7, <1>8
-----------------------------------------------------------------------------
(* The stack.                                                              *)

\* A frame of each loop, with the columns its rows have by now.
IsGrid(f) ==
    /\ f = [kind |-> "grid", headers |-> f.headers, rows |-> f.rows, row |-> f.row, col |-> f.col]
    /\ IsSeq(f.headers) /\ IsSeq(f.rows) /\ IsMembers(f.row)
    /\ f.col \in 1..(Len(f.headers) + 1)
    /\ \A r \in DOMAIN f.rows :
           ColumnsOf(KeysInOrder(f.rows[r].obj), f.headers, Len(f.headers))
    /\ ColumnsOf(KeysInOrder(f.row), f.headers, f.col - 1)
IsFrame(f) ==
    \/ f.kind = "obj" /\ f = [kind |-> "obj", members |-> f.members, key |-> f.key]
    \/ f.kind = "arr" /\ f = [kind |-> "arr", items |-> f.items]
    \/ f.kind = "grid" /\ IsGrid(f)

\* A table whose cell is being read has a header for it.
Awaits(f) == f.kind = "grid" => f.col <= Len(f.headers)

\* What the innermost frame is in mode m.
Serves(f, m) ==
    /\ m = "key" => f.kind = "obj"
    /\ m \in {"header", "row", "cell"} => f.kind = "grid"
    /\ m \in {"header", "row"} => f.row = <<>> /\ f.col = 1
    /\ m = "header" => f.rows = <<>>
    /\ m \in {"value", "got"} => Awaits(f)

StackOK(s, m) ==
    /\ IsSeq(s)
    /\ Len(s) <= MaxParseDepth
    /\ \A i \in 1..Len(s) : IsFrame(s[i])
    /\ \A i \in 1..(Len(s) - 1) : Awaits(s[i])
    /\ m \in {"key", "header", "row", "cell"} => s # <<>>
    /\ m = "accept" => s = <<>>
    /\ s # <<>> => Serves(s[Len(s)], m)

\* The inductive invariant.
ParserInv ==
    /\ input \in Inputs
    /\ pos \in Here
    /\ mode \in Modes
    /\ StackOK(stack, mode)

LEMMA Frames ==
    /\ IsFrame(ObjFrame) /\ IsFrame(ArrFrame) /\ IsFrame(GridFrame)
    /\ Serves(ObjFrame, "key") /\ Serves(ArrFrame, "value") /\ Serves(GridFrame, "header")
<1>1. IsFrame(ObjFrame) /\ Serves(ObjFrame, "key")
  BY DEF ObjFrame, IsFrame, Serves, Awaits
<1>2. IsFrame(ArrFrame) /\ Serves(ArrFrame, "value")
  BY DEF ArrFrame, IsFrame, Serves, Awaits
<1>3. IsSeq(<<>>) /\ IsMembers(<<>>) /\ Len(<<>>) = 0 /\ DOMAIN <<>> = {} /\ DOMAIN KeysInOrder(<<>>) = {}
  BY EmptyIsSeq DEF IsMembers, KeysInOrder
<1>4. ColumnsOf(KeysInOrder(<<>>), <<>>, 0)
  BY <1>3 DEF ColumnsOf
<1>5. IsGrid(GridFrame)
  BY <1>3, <1>4 DEF GridFrame, IsGrid
<1>6. Serves(GridFrame, "header")
  BY DEF GridFrame, Serves
<1> QED
  BY <1>1, <1>2, <1>5, <1>6 DEF IsFrame, GridFrame

\* A container opens.
LEMMA Push ==
    ASSUME StackOK(stack, "value"), CanNest, NEW f, NEW m \in {"key", "header", "value"},
           IsFrame(f), Serves(f, m)
    PROVE  StackOK(Append(stack, f), m)
<1> DEFINE s == Append(stack, f)
<1>1. IsSeq(stack) /\ Len(stack) \in Nat
  BY IsSeqLen DEF StackOK
<1>2. /\ IsSeq(s) /\ Len(s) = Len(stack) + 1 /\ s # <<>>
      /\ s[Len(s)] = f
      /\ \A i \in 1..Len(stack) : s[i] = stack[i]
  BY <1>1, AppendIsSeq
<1> HIDE DEF s
<1>3. Len(s) <= MaxParseDepth
  BY <1>1, <1>2, DepthAssumption DEF CanNest
<1>4. \A i \in 1..Len(s) : i = Len(s) \/ i \in 1..Len(stack)
  BY <1>1, <1>2
<1>5. \A i \in 1..Len(s) : IsFrame(s[i])
  BY <1>2, <1>4 DEF StackOK
<1>6. \A i \in 1..Len(stack) : Awaits(stack[i])
  <2>1. \A i \in 1..Len(stack) : i \in 1..(Len(stack) - 1) \/ i = Len(stack)
    BY <1>1
  <2>2. Len(stack) # 0 => Awaits(stack[Len(stack)])
    BY <1>1, IsSeqLen DEF StackOK, Serves
  <2> QED
    BY <1>1, <2>1, <2>2 DEF StackOK
<1>7. \A i \in 1..(Len(s) - 1) : Awaits(s[i])
  BY <1>1, <1>2, <1>6
<1> QED
  BY <1>2, <1>3, <1>5, <1>7 DEF StackOK, s

\* A container closes.
LEMMA Pop ==
    ASSUME NEW m, StackOK(stack, m), stack # <<>>
    PROVE  StackOK(Below, "got")
<1> DEFINE s == Below
<1>1. IsSeq(stack) /\ Len(stack) \in Nat \ {0}
  BY IsSeqLen DEF StackOK
<1>2. IsSeq(s) /\ Len(s) = Len(stack) - 1 /\ \A i \in 1..Len(s) : s[i] = stack[i]
  BY <1>1, ButLast DEF Below
<1>3. s # <<>> => Len(s) # 0
  BY <1>2, IsSeqLen
<1> HIDE DEF s
<1>4. \A i \in 1..Len(s) : i \in 1..Len(stack) /\ i \in 1..(Len(stack) - 1)
  BY <1>1, <1>2
<1>5. Len(s) <= MaxParseDepth
  BY <1>1, <1>2, DepthAssumption DEF StackOK
<1>6. \A i \in 1..Len(s) : IsFrame(s[i]) /\ Awaits(s[i])
  BY <1>2, <1>4 DEF StackOK
<1>7. s # <<>> => Serves(s[Len(s)], "got")
  BY <1>1, <1>2, <1>3, <1>6 DEF Serves
<1> QED
  BY <1>1, <1>2, <1>5, <1>6, <1>7 DEF StackOK, s

\* The innermost container changes.
LEMMA Replace ==
    ASSUME NEW m, StackOK(stack, m), stack # <<>>,
           NEW f, NEW n \in {"key", "header", "row", "cell", "value", "got"},
           IsFrame(f), Serves(f, n)
    PROVE  StackOK(WithTop(f), n)
<1> DEFINE s == WithTop(f)
<1>1. IsSeq(stack) /\ Len(stack) \in Nat \ {0}
  BY IsSeqLen DEF StackOK
<1>2. IsSeq(Below) /\ Len(Below) = Len(stack) - 1 /\ \A i \in 1..Len(Below) : Below[i] = stack[i]
  BY <1>1, ButLast DEF Below
<1>3. IsSeq(s) /\ Len(s) = Len(stack) /\ s # <<>> /\ s[Len(s)] = f
      /\ \A i \in 1..(Len(s) - 1) : s[i] = stack[i]
  BY <1>1, <1>2, AppendIsSeq DEF WithTop
<1> HIDE DEF s
<1>4. \A i \in 1..Len(s) : i = Len(s) \/ i \in 1..(Len(s) - 1)
  BY <1>1, <1>3
<1>5. \A i \in 1..(Len(s) - 1) : i \in 1..Len(stack)
  BY <1>1, <1>3
<1>6. \A i \in 1..Len(s) : IsFrame(s[i])
  BY <1>3, <1>4, <1>5 DEF StackOK
<1>7. \A i \in 1..(Len(s) - 1) : Awaits(s[i])
  BY <1>3 DEF StackOK
<1>8. Len(s) <= MaxParseDepth
  BY <1>3 DEF StackOK
<1> QED
  BY <1>3, <1>6, <1>7, <1>8 DEF StackOK, s

\* The mode changes and the stack stays.
LEMMA Keep ==
    ASSUME NEW m, StackOK(stack, m), NEW n \in Modes,
           n \in {"key", "header", "row", "cell"} => stack # <<>>,
           n = "accept" => stack = <<>>,
           stack # <<>> => Serves(Top, n)
    PROVE  StackOK(stack, n)
  BY DEF StackOK, Top
-----------------------------------------------------------------------------
(* The steps.                                                              *)

RankOf(m) ==
    CASE m \in {"accept", "reject"}          -> 0
      [] m = "got"                           -> 1
      [] m \in {"value", "key", "header"}    -> 2
      [] m = "cell"                          -> 3
      [] m = "row"                           -> 4

\* What every step has to keep, and to do.
Kept == ParserInv' /\ Remaining' < Remaining

\* The code goes on at q with the stack s: behind where it was, or there but
\* further in its loops.
LEMMA Onward ==
    ASSUME ParserInv, NEW m \in Modes, NEW q \in Here, NEW s, StackOK(s, m),
           mode' = m, pos' = q, stack' = s, UNCHANGED input,
           q > pos \/ (q >= pos /\ RankOf(m) < RankOf(mode))
    PROVE  Kept
<1> USE DEF ParserInv
<1>1. Here' = Here /\ Len(input)' = Len(input) /\ Len(input) \in Nat
  BY InsideText DEF Here
<1>2. StackOK(stack, mode)'
  BY DEF StackOK
<1>3. Rank = RankOf(mode) /\ Rank' = RankOf(m)
  BY DEF Rank, RankOf
<1>4. \A n \in Modes : RankOf(n) \in 0..4
  BY DEF RankOf, Modes
<1>5. pos \in Nat /\ q \in Nat
  BY <1>1 DEF Here
<1>6. Remaining = 5 * (Len(input) + 1 - pos) + RankOf(mode)
      /\ Remaining' = 5 * (Len(input) + 1 - q) + RankOf(m)
  BY <1>1, <1>3 DEF Remaining
<1>7. RankOf(mode) \in 0..4 /\ RankOf(m) \in 0..4
  BY <1>4
<1>8. 5 * (Len(input) + 1 - q) + RankOf(m) < 5 * (Len(input) + 1 - pos) + RankOf(mode)
  BY <1>1, <1>5, <1>7
<1> HIDE DEF Remaining
<1>9. Remaining' < Remaining
  BY <1>6, <1>8
<1> QED
  BY <1>1, <1>2, <1>9 DEF Kept

LEMMA Continues ==
    ASSUME ParserInv, NEW m \in Modes, NEW q \in Here, NEW s, StackOK(s, m),
           Continue(m, q, s),
           q > pos \/ (q >= pos /\ RankOf(m) < RankOf(mode))
    PROVE  Kept
  BY Onward DEF Continue

LEMMA Returns ==
    ASSUME ParserInv, NEW v, NEW q \in Here, NEW s, StackOK(s, "got"),
           Return(v, q, s),
           q > pos \/ (q >= pos /\ RankOf("got") < RankOf(mode))
    PROVE  Kept
  BY Onward DEF Return, Modes

LEMMA RejectKeeps ==
    ASSUME ParserInv, Reject, mode \notin {"accept", "reject"}
    PROVE  Kept
<1>1. StackOK(stack, "reject")
  BY Keep DEF ParserInv, Serves, Modes
<1>2. RankOf("reject") = 0 /\ RankOf(mode) \in 1..4
  BY DEF RankOf, ParserInv, Modes
<1>3. pos \in Here /\ pos >= pos
  BY InsideText DEF ParserInv, Here
<1> QED
  BY <1>1, <1>2, <1>3, Onward DEF Reject, Modes

LEMMA ReadScalarKeeps == ASSUME ParserInv, ReadScalar PROVE Kept
<1> DEFINE q == SkipWS(pos)
<1>1. input \in Inputs /\ pos \in Here /\ StackOK(stack, "value")
  BY DEF ParserInv, ReadScalar
<1>2. q \in Here /\ q >= pos
  BY <1>1, SkipsStop
<1>3. IsScalar(q) /\ Return(ScalarAt(q), q + 1, stack)
  BY DEF ReadScalar
<1> HIDE DEF q
<1>4. ByteAt(q) # "EOF"
  BY <1>3, InputsAssumption DEF IsScalar, KeyRuns
<1>5. q + 1 \in Here /\ q + 1 > pos
  BY <1>1, <1>2, <1>4, OneMore DEF Here
<1>6. StackOK(stack, "got")
  BY <1>1, Keep DEF StackOK, Serves, Modes, Top
<1> QED
  BY <1>3, <1>5, <1>6, Returns

LEMMA OpenObjectKeeps == ASSUME ParserInv, OpenObject PROVE Kept
<1> DEFINE q == SkipWS(pos)
<1>1. input \in Inputs /\ pos \in Here /\ StackOK(stack, "value")
  BY DEF ParserInv, OpenObject
<1>2. q \in Here /\ q >= pos
  BY <1>1, SkipsStop
<1>3. ByteAt(q) = "{" /\ Continue("key", q + 1, Append(stack, ObjFrame))
  BY DEF OpenObject
<1> HIDE DEF q
<1>4. q + 1 \in Here
  BY <1>1, <1>2, <1>3, OneMore
<1>5. q + 1 > pos
  BY <1>1, <1>2 DEF Here
<1>6. StackOK(Append(stack, ObjFrame), "key")
  BY <1>1, Push, Frames DEF OpenObject
<1> QED
  BY <1>3, <1>4, <1>5, <1>6, Continues DEF Modes

LEMMA OpenArrayKeeps == ASSUME ParserInv, OpenArray PROVE Kept
<1> DEFINE q == SkipWS(pos)
           p == SkipWS(q + 1)
           c == IF ByteAt(p) \in Numbers THEN SkipSpaces(p + 1) ELSE p
           h == SkipWS(c + 1)
<1>1. input \in Inputs /\ pos \in Here /\ StackOK(stack, "value")
  BY DEF ParserInv, OpenArray
<1>2. ByteAt(q) = "["
  BY DEF OpenArray
<1>3. q \in Here /\ q >= pos /\ q + 1 \in Here
  BY <1>1, <1>2, SkipsStop, OneMore
<1>4. p \in Here /\ p >= q + 1
  BY <1>1, <1>3, SkipsStop
<1>5. ByteAt(p) \in Numbers => ByteAt(p) # "EOF"
  BY InputsAssumption DEF KeyRuns
<1>6. c \in Here /\ c >= p
  <2>1. CASE ByteAt(p) \in Numbers
    <3>1. p + 1 \in Here
      BY <1>1, <1>4, <1>5, <2>1, OneMore
    <3>2. SkipSpaces(p + 1) \in Here /\ SkipSpaces(p + 1) >= p + 1
      BY <1>1, <3>1, SkipsStop
    <3> QED
      BY <1>4, <2>1, <3>2 DEF Here
  <2>2. CASE ByteAt(p) \notin Numbers
    BY <1>4, <2>2 DEF Here
  <2> QED
    BY <2>1, <2>2
<1>7. ByteAt(c) = ":" => h \in Here /\ h >= c + 1
  BY <1>1, <1>6, OneMore, SkipsStop
<1>8. StackOK(stack, "got")
  BY <1>1, Keep DEF StackOK, Serves, Modes, Top
<1>9. \/ ByteAt(c) = ":" /\ Return(List(<<>>), h + 1, stack) /\ ByteAt(h) = "]"
      \/ ByteAt(c) = ":" /\ Continue("header", h, Append(stack, GridFrame))
      \/ ByteAt(p) = "]" /\ Return(List(<<>>), p + 1, stack)
      \/ Continue("value", p, Append(stack, ArrFrame))
  BY DEF OpenArray
<1>10. CanNest
  BY DEF OpenArray
<1> HIDE DEF q, p, c, h
<1>11. p > pos
  BY <1>1, <1>3, <1>4 DEF Here
<1>12. CASE ByteAt(c) = ":" /\ Return(List(<<>>), h + 1, stack) /\ ByteAt(h) = "]"
  <2>1. h + 1 \in Here /\ h + 1 > pos
    BY <1>1, <1>4, <1>6, <1>7, <1>11, <1>12, OneMore DEF Here
  <2> QED
    BY <1>8, <1>12, <2>1, Returns
<1>13. CASE ByteAt(c) = ":" /\ Continue("header", h, Append(stack, GridFrame))
  <2>1. h \in Here /\ h > pos
    BY <1>1, <1>4, <1>6, <1>7, <1>11, <1>13 DEF Here
  <2>2. StackOK(Append(stack, GridFrame), "header")
    BY <1>1, <1>10, Push, Frames
  <2> QED
    BY <1>13, <2>1, <2>2, Continues DEF Modes
<1>14. CASE ByteAt(p) = "]" /\ Return(List(<<>>), p + 1, stack)
  <2>1. p + 1 \in Here /\ p + 1 > pos
    BY <1>1, <1>4, <1>11, <1>14, OneMore DEF Here
  <2> QED
    BY <1>8, <1>14, <2>1, Returns
<1>15. CASE Continue("value", p, Append(stack, ArrFrame))
  <2>1. StackOK(Append(stack, ArrFrame), "value")
    BY <1>1, <1>10, Push, Frames
  <2> QED
    BY <1>4, <1>11, <1>15, <2>1, Continues DEF Modes
<1> QED
  BY <1>9, <1>12, <1>13, <1>14, <1>15

LEMMA NoValueKeeps == ASSUME ParserInv, NoValue PROVE Kept
  BY RejectKeeps DEF NoValue

LEMMA EndDocumentKeeps == ASSUME ParserInv, EndDocument PROVE Kept
<1>1. CASE ByteAt(SkipWS(pos)) = "EOF"
  <2>1. StackOK(stack, "accept")
    BY Keep DEF EndDocument, ParserInv, Modes
  <2>2. pos \in Here /\ pos >= pos
    BY InsideText DEF ParserInv, Here
  <2>3. RankOf("accept") < RankOf(mode)
    BY DEF RankOf, EndDocument
  <2> QED
    BY <1>1, <2>1, <2>2, <2>3, Onward DEF EndDocument, Modes
<1>2. CASE ByteAt(SkipWS(pos)) # "EOF"
  BY <1>2, RejectKeeps DEF EndDocument
<1> QED
  BY <1>1, <1>2

LEMMA ReadKeyKeeps == ASSUME ParserInv, ReadKey PROVE Kept
<1> DEFINE q == SkipWS(pos)
           c == SkipWS(q + 1)
           f == [Top EXCEPT !.key = KeyAt(q)]
<1>1. input \in Inputs /\ pos \in Here /\ StackOK(stack, "key") /\ mode = "key"
  BY DEF ParserInv, ReadKey
<1>2. q \in Here /\ q >= pos
  BY <1>1, SkipsStop
<1>3. stack # <<>> /\ IsFrame(Top) /\ Top.kind = "obj"
  <2>1. stack # <<>> /\ IsSeq(stack)
    BY <1>1 DEF StackOK
  <2>2. Len(stack) \in 1..Len(stack)
    BY <2>1, IsSeqLen
  <2> QED
    BY <1>1, <2>1, <2>2 DEF StackOK, Serves, Top
<1>4. \/ ByteAt(q) = "}" /\ Return(Obj(Top.members), q + 1, Below)
      \/ IsKey(q) /\ ByteAt(c) = ":" /\ Continue("value", c + 1, WithTop(f))
      \/ Reject
  BY DEF ReadKey
<1>5. q + 1 \in Here => c \in Here /\ c >= q + 1
  BY <1>1, SkipsStop
<1>6. IsKey(q) => ByteAt(q) # "EOF"
  BY InputsAssumption DEF IsKey
<1>7. IsFrame(f) /\ Serves(f, "value")
  <2>1. Top = [kind |-> "obj", members |-> Top.members, key |-> Top.key]
    BY <1>3 DEF IsFrame
  <2>2. f = [kind |-> "obj", members |-> Top.members, key |-> KeyAt(q)]
    BY <2>1
  <2> QED
    BY <2>2 DEF IsFrame, Serves, Awaits
<1> HIDE DEF q, c, f
<1>8. CASE ByteAt(q) = "}" /\ Return(Obj(Top.members), q + 1, Below)
  <2>1. q + 1 \in Here
    BY <1>1, <1>2, <1>8, OneMore
  <2>2. q + 1 > pos
    BY <1>1, <1>2 DEF Here
  <2> QED
    BY <1>1, <1>3, <1>8, <2>1, <2>2, Pop, Returns
<1>9. CASE IsKey(q) /\ ByteAt(c) = ":" /\ Continue("value", c + 1, WithTop(f))
  <2>1. q + 1 \in Here
    BY <1>1, <1>2, <1>6, <1>9, OneMore
  <2>2. c + 1 \in Here
    BY <1>1, <1>5, <1>9, <2>1, OneMore
  <2>3. c + 1 > pos
    BY <1>1, <1>2, <1>5, <2>1 DEF Here
  <2>4. StackOK(WithTop(f), "value")
    BY <1>1, <1>3, <1>7, Replace
  <2> QED
    BY <1>9, <2>2, <2>3, <2>4, Continues DEF Modes
<1> QED
  BY <1>1, <1>4, <1>8, <1>9, RejectKeeps

\* What is known of the innermost container.
LEMMA TopFrame ==
    ASSUME NEW m, StackOK(stack, m), stack # <<>>
    PROVE  IsFrame(Top) /\ Serves(Top, m)
<1>1. Len(stack) \in 1..Len(stack)
  BY IsSeqLen DEF StackOK
<1> QED
  BY <1>1 DEF StackOK, Top

LEMMA EndMemberKeeps == ASSUME ParserInv, EndMember PROVE Kept
<1> DEFINE q == SkipWS(pos)
           f == [Top EXCEPT !.members = Put(@, Top.key, val)]
<1>1. input \in Inputs /\ pos \in Here /\ StackOK(stack, "got") /\ mode = "got" /\ stack # <<>>
  BY DEF ParserInv, EndMember, In
<1>2. q \in Here /\ q >= pos /\ q + 1 > pos
  BY <1>1, SkipsStop DEF Here
<1>3. \/ ByteAt(q) = "," /\ Continue("key", q + 1, WithTop(f))
      \/ ByteAt(q) = "}" /\ Return(Obj(f.members), q + 1, Below)
      \/ Reject
  BY DEF EndMember
<1>4. IsFrame(f) /\ Serves(f, "key")
  <2>1. IsFrame(Top) /\ Top.kind = "obj"
    BY <1>1, TopFrame DEF EndMember, In
  <2>2. Top = [kind |-> "obj", members |-> Top.members, key |-> Top.key]
    BY <2>1 DEF IsFrame
  <2>3. f = [kind |-> "obj", members |-> Put(Top.members, Top.key, val), key |-> Top.key]
    BY <2>2
  <2> QED
    BY <2>3 DEF IsFrame, Serves, Awaits
<1> HIDE DEF q, f
<1>5. CASE ByteAt(q) = "," /\ Continue("key", q + 1, WithTop(f))
  <2>1. q + 1 \in Here
    BY <1>1, <1>2, <1>5, OneMore
  <2>2. StackOK(WithTop(f), "key")
    BY <1>1, <1>4, Replace
  <2> QED
    BY <1>2, <1>5, <2>1, <2>2, Continues DEF Modes
<1>6. CASE ByteAt(q) = "}" /\ Return(Obj(f.members), q + 1, Below)
  <2>1. q + 1 \in Here
    BY <1>1, <1>2, <1>6, OneMore
  <2> QED
    BY <1>1, <1>2, <1>6, <2>1, Pop, Returns
<1> QED
  BY <1>1, <1>3, <1>5, <1>6, RejectKeeps

LEMMA EndItemKeeps == ASSUME ParserInv, EndItem PROVE Kept
<1> DEFINE q == SkipWS(pos)
           r == SkipWS(q + 1)
           f == [Top EXCEPT !.items = Append(@, val)]
<1>1. input \in Inputs /\ pos \in Here /\ StackOK(stack, "got") /\ mode = "got" /\ stack # <<>>
  BY DEF ParserInv, EndItem, In
<1>2. q \in Here /\ q >= pos /\ q + 1 > pos
  BY <1>1, SkipsStop DEF Here
<1>3. \/ ByteAt(q) = "," /\ ByteAt(r) = "]" /\ Return(List(f.items), r + 1, Below)
      \/ ByteAt(q) = "," /\ Continue("value", r, WithTop(f))
      \/ ByteAt(q) = "]" /\ Return(List(f.items), q + 1, Below)
      \/ Reject
  BY DEF EndItem
<1>4. IsFrame(f) /\ Serves(f, "value")
  <2>1. IsFrame(Top) /\ Top.kind = "arr"
    BY <1>1, TopFrame DEF EndItem, In
  <2>2. Top = [kind |-> "arr", items |-> Top.items]
    BY <2>1 DEF IsFrame
  <2>3. f = [kind |-> "arr", items |-> Append(Top.items, val)]
    BY <2>2
  <2> QED
    BY <2>3 DEF IsFrame, Serves, Awaits
<1>5. q + 1 \in Here => r \in Here /\ r > pos /\ r + 1 > pos
  <2>1. q + 1 \in Here => r \in Here /\ r >= q + 1
    BY <1>1, SkipsStop
  <2> HIDE DEF q, r
  <2> QED
    BY <1>1, <1>2, <2>1 DEF Here
<1> HIDE DEF q, r, f
<1>6. CASE ByteAt(q) = "," /\ ByteAt(r) = "]" /\ Return(List(f.items), r + 1, Below)
  <2>1. q + 1 \in Here
    BY <1>1, <1>2, <1>6, OneMore
  <2>2. r + 1 \in Here
    BY <1>1, <1>5, <1>6, <2>1, OneMore
  <2> QED
    BY <1>1, <1>5, <1>6, <2>1, <2>2, Pop, Returns
<1>7. CASE ByteAt(q) = "," /\ Continue("value", r, WithTop(f))
  <2>1. q + 1 \in Here
    BY <1>1, <1>2, <1>7, OneMore
  <2>2. StackOK(WithTop(f), "value")
    BY <1>1, <1>4, Replace
  <2> QED
    BY <1>5, <1>7, <2>1, <2>2, Continues DEF Modes
<1>8. CASE ByteAt(q) = "]" /\ Return(List(f.items), q + 1, Below)
  <2>1. q + 1 \in Here
    BY <1>1, <1>2, <1>8, OneMore
  <2> QED
    BY <1>1, <1>2, <1>8, <2>1, Pop, Returns
<1> QED
  BY <1>1, <1>3, <1>6, <1>7, <1>8, RejectKeeps

LEMMA ReadHeaderKeeps == ASSUME ParserInv, ReadHeader PROVE Kept
<1> DEFINE q == SkipWS(pos)
           quoted == ByteAt(q) = "QUOTE"
           e == CHOOSE r \in q..(Len(input) + 1) :
                    /\ ByteAt(r) \in CellEnds \cup {"EOF"}
                    /\ \A m \in q..(r - 1) : ByteAt(m) \notin CellEnds
           name == IF quoted THEN KeyAt(q) ELSE TextOf(q, TrimmedEnd(q, e - 1))
           from == IF quoted THEN q + 1 ELSE e
           d == SkipSpaces(from)
           f == [Top EXCEPT !.headers = Append(@, name)]
<1>1. input \in Inputs /\ pos \in Here /\ StackOK(stack, "header") /\ mode = "header" /\ stack # <<>>
  BY DEF ParserInv, ReadHeader, StackOK
<1>2. q \in Here /\ q >= pos /\ q + 1 > pos
  BY <1>1, SkipsStop DEF Here
<1>3. \/ ByteAt(q) = ";" /\ Continue("row", q + 1, stack)
      \/ ByteAt(d) \in Delimiters /\ Continue("header", d + 1, WithTop(f))
      \/ ByteAt(d) = ";" /\ Continue("row", d + 1, WithTop(f))
      \/ Reject
  BY DEF ReadHeader
<1>4. from \in Here /\ from >= q
  <2>1. e \in Here /\ e >= q
    BY <1>1, <1>2, HeaderStops
  <2> HIDE DEF e
  <2>2. CASE quoted
    <3>1. q + 1 \in Here
      BY <1>1, <1>2, <2>2, OneMore
    <3> QED
      BY <1>2, <2>2, <3>1 DEF Here
  <2>3. CASE ~quoted
    BY <2>1, <2>3
  <2> QED
    BY <2>2, <2>3
<1>5. IsFrame(Top) /\ Serves(Top, "header")
  BY <1>1, TopFrame
<1>6. IsFrame(f) /\ Serves(f, "header") /\ Serves(f, "row")
  <2> HIDE DEF name
  <2>1. IsGrid(Top) /\ Top.row = <<>> /\ Top.col = 1 /\ Top.rows = <<>> /\ Top.kind = "grid"
    BY <1>5 DEF IsFrame, Serves
  <2>2. f = [kind |-> "grid", headers |-> Append(Top.headers, name),
             rows |-> <<>>, row |-> <<>>, col |-> 1]
    BY SMTT(30), <2>1 DEF IsGrid
  <2>3. IsSeq(f.headers) /\ Len(f.headers) \in Nat
    BY <2>1, <2>2, AppendIsSeq, IsSeqLen DEF IsGrid
  <2>4. IsSeq(f.rows) /\ DOMAIN f.rows = {}
    BY <2>2, EmptyIsSeq
  <2>5. IsMembers(f.row) /\ DOMAIN KeysInOrder(f.row) = {}
    BY <2>2, EmptyIsSeq DEF IsMembers, KeysInOrder
  <2>6. ColumnsOf(KeysInOrder(f.row), f.headers, f.col - 1)
    BY <2>2, <2>5 DEF ColumnsOf
  <2>7. IsGrid(f)
    BY <2>2, <2>3, <2>4, <2>5, <2>6 DEF IsGrid
  <2> QED
    BY <2>2, <2>7 DEF IsFrame, Serves
<1> HIDE DEF q, f, from
<1>7. d \in Here /\ d >= from
  BY <1>1, <1>4, SkipsStop
<1> HIDE DEF d
<1>8. d + 1 > pos
  BY <1>1, <1>2, <1>4, <1>7 DEF Here
<1>9. CASE ByteAt(q) = ";" /\ Continue("row", q + 1, stack)
  <2>1. q + 1 \in Here
    BY <1>1, <1>2, <1>9, OneMore
  <2>2. StackOK(stack, "row")
    BY <1>1, <1>5, Keep DEF Serves, Modes
  <2> QED
    BY <1>2, <1>9, <2>1, <2>2, Continues DEF Modes
<1>10. CASE ByteAt(d) \in Delimiters /\ Continue("header", d + 1, WithTop(f))
  <2>1. d + 1 \in Here
    BY <1>1, <1>7, <1>10, OneMore DEF Delimiters
  <2>2. StackOK(WithTop(f), "header")
    BY <1>1, <1>6, Replace
  <2> QED
    BY <1>8, <1>10, <2>1, <2>2, Continues DEF Modes
<1>11. CASE ByteAt(d) = ";" /\ Continue("row", d + 1, WithTop(f))
  <2>1. d + 1 \in Here
    BY <1>1, <1>7, <1>11, OneMore
  <2>2. StackOK(WithTop(f), "row")
    BY <1>1, <1>6, Replace
  <2> QED
    BY <1>8, <1>11, <2>1, <2>2, Continues DEF Modes
<1> QED
  BY <1>1, <1>3, <1>9, <1>10, <1>11, RejectKeeps

LEMMA NextRowKeeps == ASSUME ParserInv, NextRow PROVE Kept
<1> DEFINE q == SkipWS(pos)
<1>1. input \in Inputs /\ pos \in Here /\ StackOK(stack, "row") /\ mode = "row" /\ stack # <<>>
  BY DEF ParserInv, NextRow, StackOK
<1>2. q \in Here /\ q >= pos /\ q + 1 > pos
  BY <1>1, SkipsStop DEF Here
<1>3. \/ ByteAt(q) = "]" /\ Return(List(Top.rows), q + 1, Below)
      \/ Reject
      \/ Continue("cell", q, stack)
  BY DEF NextRow
<1> HIDE DEF q
<1>4. CASE ByteAt(q) = "]" /\ Return(List(Top.rows), q + 1, Below)
  <2>1. q + 1 \in Here
    BY <1>1, <1>2, <1>4, OneMore
  <2> QED
    BY <1>1, <1>2, <1>4, <2>1, Pop, Returns
<1>5. CASE Continue("cell", q, stack)
  <2>1. Serves(Top, "row")
    BY <1>1, TopFrame
  <2>2. StackOK(stack, "cell")
    BY <1>1, <2>1, Keep DEF Serves, Modes
  <2>3. RankOf("cell") < RankOf(mode)
    BY <1>1 DEF RankOf
  <2> QED
    BY <1>2, <1>5, <2>2, <2>3, Continues DEF Modes
<1> QED
  BY <1>1, <1>3, <1>4, <1>5, RejectKeeps

\* A row joins the table with every column.
LEMMA RowJoins ==
    ASSUME NEW f, IsGrid(f)
    PROVE  IsFrame(RowDone(f)) /\ Serves(RowDone(f), "row")
<1> DEFINE row == Obj(Filled(f))
           g == RowDone(f)
<1>1. row.obj = Filled(f)
  BY DEF Obj
<1>2. ColumnsOf(KeysInOrder(row.obj), f.headers, Len(f.headers))
  BY <1>1, FilledRow DEF IsGrid
<1>3. g = [kind |-> "grid", headers |-> f.headers, rows |-> Append(f.rows, row),
           row |-> <<>>, col |-> 1]
  <2>1. f = [kind |-> "grid", headers |-> f.headers, rows |-> f.rows, row |-> f.row, col |-> f.col]
    BY DEF IsGrid
  <2> DEFINE rs == Append(f.rows, row)
  <2>2. g = [f EXCEPT !.rows = rs, !.row = <<>>, !.col = 1]
    BY Zenon DEF RowDone
  <2> HIDE DEF row, g, rs
  <2>3. DOMAIN g = {"kind", "headers", "rows", "row", "col"} /\ g = [x \in DOMAIN g |-> g[x]]
    BY <2>1, <2>2
  <2>4. g.kind = "grid" /\ g.headers = f.headers /\ g.rows = rs /\ g.row = <<>> /\ g.col = 1
    BY <2>1, <2>2
  <2>5. g = [kind |-> "grid", headers |-> f.headers, rows |-> rs, row |-> <<>>, col |-> 1]
    BY <2>3, <2>4
  <2> QED
    BY <2>5 DEF rs
<1> HIDE DEF row, g
<1>4. /\ IsSeq(g.rows) /\ DOMAIN g.rows = 1..(Len(f.rows) + 1)
      /\ \A r \in 1..Len(f.rows) : g.rows[r] = f.rows[r]
      /\ g.rows[Len(f.rows) + 1] = row
  BY <1>3, AppendIsSeq, IsSeqLen DEF IsGrid
<1>5. Len(f.rows) \in Nat /\ DOMAIN f.rows = 1..Len(f.rows)
  BY IsSeqLen DEF IsGrid
<1>6. \A r \in 1..(Len(f.rows) + 1) : r = Len(f.rows) + 1 \/ r \in 1..Len(f.rows)
  BY <1>5
<1>7. g.headers = f.headers
  BY <1>3
<1>8. \A r \in DOMAIN g.rows :
          ColumnsOf(KeysInOrder(g.rows[r].obj), g.headers, Len(g.headers))
  BY <1>2, <1>4, <1>5, <1>6, <1>7 DEF IsGrid
<1>9. IsMembers(g.row) /\ DOMAIN KeysInOrder(g.row) = {}
  BY <1>3, EmptyIsSeq DEF IsMembers, KeysInOrder
<1>10. ColumnsOf(KeysInOrder(g.row), g.headers, g.col - 1)
  BY <1>3, <1>9 DEF ColumnsOf
<1>11. IsSeq(g.headers) /\ g.col \in 1..(Len(g.headers) + 1)
  BY <1>3, IsSeqLen DEF IsGrid
<1>12. IsGrid(g)
  BY <1>3, <1>4, <1>8, <1>9, <1>10, <1>11 DEF IsGrid
<1> QED
  BY <1>3, <1>12 DEF IsFrame, Serves, g

LEMMA EndRowKeeps ==
    ASSUME ParserInv, stack # <<>>, NEW f, IsGrid(f), NEW q \in Here, q >= pos, EndRow(f, q)
    PROVE  Kept
<1>1. input \in Inputs /\ pos \in Here /\ StackOK(stack, mode)
  BY DEF ParserInv
<1>2. q + 1 > pos
  BY <1>1 DEF Here
<1>3. CASE ByteAt(q) = ";" /\ Continue("row", q + 1, WithTop(RowDone(f)))
  <2>1. q + 1 \in Here
    BY <1>1, <1>3, OneMore
  <2>2. StackOK(WithTop(RowDone(f)), "row")
    BY <1>1, RowJoins, Replace
  <2> QED
    BY <1>2, <1>3, <2>1, <2>2, Continues DEF Modes
<1>4. CASE ByteAt(q) = "]" /\ Return(List(RowDone(f).rows), q + 1, Below)
  <2>1. q + 1 \in Here
    BY <1>1, <1>4, OneMore
  <2> QED
    BY <1>1, <1>2, <1>4, <2>1, Pop, Returns
<1> QED
  BY <1>3, <1>4 DEF EndRow

LEMMA EndRowEarlyKeeps == ASSUME ParserInv, EndRowEarly PROVE Kept
<1> DEFINE q == SkipSpaces(pos)
<1>1. input \in Inputs /\ pos \in Here /\ StackOK(stack, "cell") /\ stack # <<>>
  BY DEF ParserInv, EndRowEarly, StackOK
<1>2. q \in Here /\ q >= pos
  BY <1>1, SkipsStop
<1>3. IsGrid(Top)
  BY <1>1, TopFrame DEF IsFrame, Serves
<1> QED
  BY <1>1, <1>2, <1>3, EndRowKeeps DEF EndRowEarly

LEMMA NoCellKeeps == ASSUME ParserInv, NoCell PROVE Kept
  BY RejectKeeps DEF NoCell

LEMMA OpenCellKeeps == ASSUME ParserInv, OpenCell PROVE Kept
<1> DEFINE q == SkipSpaces(pos)
           w == SkipWS(q)
<1>1. input \in Inputs /\ pos \in Here /\ StackOK(stack, "cell") /\ mode = "cell" /\ stack # <<>>
  BY DEF ParserInv, OpenCell, StackOK
<1>2. q \in Here /\ q >= pos
  BY <1>1, SkipsStop
<1>3. w \in Here /\ w >= q
  BY <1>1, <1>2, SkipsStop
<1>4. Top.col <= Len(Top.headers) /\ Continue("value", w, stack)
  BY DEF OpenCell
<1> HIDE DEF q, w
<1>5. w >= pos
  BY <1>1, <1>2, <1>3 DEF Here
<1>6. StackOK(stack, "value")
  BY <1>1, <1>4, Keep DEF Serves, Awaits, Modes
<1>7. RankOf("value") < RankOf(mode)
  BY <1>1 DEF RankOf
<1> QED
  BY <1>3, <1>4, <1>5, <1>6, <1>7, Continues DEF Modes

LEMMA BareCellKeeps == ASSUME ParserInv, BareCell PROVE Kept
<1> DEFINE q == SkipSpaces(pos)
           w == SkipWS(q)
<1>1. input \in Inputs /\ pos \in Here /\ StackOK(stack, "cell") /\ mode = "cell" /\ stack # <<>>
  BY DEF ParserInv, BareCell, StackOK
<1>2. q \in Here /\ q >= pos
  BY <1>1, SkipsStop
<1>3. w \in Here /\ w >= q
  BY <1>1, <1>2, SkipsStop
<1>4. BareEnd(w) \in Here /\ BareEnd(w) >= w
  BY <1>1, <1>3, BareStops
<1>5. Top.col <= Len(Top.headers) /\ Return(BareValue(w, BareEnd(w)), BareEnd(w), stack)
  BY DEF BareCell
<1> HIDE DEF q, w
<1>6. BareEnd(w) >= pos
  BY <1>1, <1>2, <1>3, <1>4 DEF Here
<1>7. StackOK(stack, "got")
  BY <1>1, <1>5, Keep DEF Serves, Awaits, Modes
<1>8. RankOf("got") < RankOf(mode)
  BY <1>1 DEF RankOf
<1> QED
  BY <1>4, <1>5, <1>6, <1>7, <1>8, Returns

\* A cell joins its row.
LEMMA CellJoins ==
    ASSUME IsGrid(Top), Top.col <= Len(Top.headers)
    PROVE  LET f == [Top EXCEPT !.row = Put(@, Top.headers[Top.col], val), !.col = @ + 1]
           IN  IsGrid(f) /\ f.headers = Top.headers
<1> DEFINE row == Put(Top.row, Top.headers[Top.col], val)
           f == [Top EXCEPT !.row = Put(@, Top.headers[Top.col], val), !.col = @ + 1]
<1>1. IsGrid(f)
  <2>1. f = [kind |-> "grid", headers |-> Top.headers, rows |-> Top.rows,
             row |-> row, col |-> Top.col + 1]
    <3>1. Top = [kind |-> "grid", headers |-> Top.headers, rows |-> Top.rows,
                 row |-> Top.row, col |-> Top.col]
      BY DEF IsGrid
    <3> DEFINE c == Top.col + 1
    <3> HIDE DEF row
    <3>2. DOMAIN f = {"kind", "headers", "rows", "row", "col"} /\ f = [x \in DOMAIN f |-> f[x]]
      BY <3>1
    <3>3. f.kind = "grid" /\ f.headers = Top.headers /\ f.rows = Top.rows /\ f.row = row /\ f.col = c
      BY <3>1 DEF row
    <3> HIDE DEF f, c
    <3>4. f = [kind |-> "grid", headers |-> Top.headers, rows |-> Top.rows, row |-> row, col |-> c]
      BY <3>2, <3>3
    <3> QED
      BY <3>4 DEF c
  <2>2. /\ IsMembers(Top.row) /\ Top.col \in Nat /\ Top.col - 1 \in Nat
        /\ Top.col - 1 + 1 = Top.col /\ Top.col + 1 - 1 = Top.col
        /\ Top.col + 1 \in 1..(Len(Top.headers) + 1)
    BY IsSeqLen DEF IsGrid
  <2>3. ColumnsOf(KeysInOrder(Top.row), Top.headers, Top.col - 1)
    BY DEF IsGrid
  <2>4. ColumnsOf(KeysInOrder(row), Top.headers, Top.col)
    BY <2>2, <2>3, PutColumn
  <2>5. IsMembers(row)
    BY <2>2, PutKeys
  <2> HIDE DEF f, row
  <2>6. ColumnsOf(KeysInOrder(f.row), f.headers, f.col - 1)
    BY <2>1, <2>2, <2>4
  <2> QED
    BY <2>1, <2>2, <2>5, <2>6 DEF IsGrid
<1>2. f.headers = Top.headers
  <2>1. DOMAIN Top = {"kind", "headers", "rows", "row", "col"}
    BY DEF IsGrid
  <2> QED
    BY <2>1
<1> HIDE DEF f
<1> QED
  BY <1>1, <1>2 DEF f

LEMMA EndCellKeeps == ASSUME ParserInv, EndCell PROVE Kept
<1> DEFINE q == SkipSpaces(pos)
           f == [Top EXCEPT !.row = Put(@, Top.headers[Top.col], val), !.col = @ + 1]
<1>1. input \in Inputs /\ pos \in Here /\ StackOK(stack, "got") /\ mode = "got" /\ stack # <<>>
  BY DEF ParserInv, EndCell, In
<1>2. q \in Here /\ q >= pos /\ q + 1 > pos
  BY <1>1, SkipsStop DEF Here
<1>3. \/ ByteAt(q) \in Delimiters /\ Continue("cell", q + 1, WithTop(f))
      \/ EndRow(f, q)
      \/ Reject
  BY DEF EndCell
<1>4. IsGrid(Top) /\ Top.col <= Len(Top.headers)
  BY <1>1, TopFrame DEF IsFrame, Serves, Awaits, EndCell, In
<1>5. IsGrid(f)
  BY <1>4, CellJoins
<1>6. IsFrame(f) /\ Serves(f, "cell")
  <2> HIDE DEF f
  <2> QED
    BY <1>5 DEF IsFrame, IsGrid, Serves
<1> HIDE DEF q, f
<1>7. CASE ByteAt(q) \in Delimiters /\ Continue("cell", q + 1, WithTop(f))
  <2>1. q + 1 \in Here
    BY <1>1, <1>2, <1>7, OneMore DEF Delimiters
  <2>2. StackOK(WithTop(f), "cell")
    BY <1>1, <1>6, Replace
  <2> QED
    BY <1>2, <1>7, <2>1, <2>2, Continues DEF Modes
<1>8. CASE EndRow(f, q)
  BY <1>1, <1>2, <1>5, <1>8, EndRowKeeps
<1> QED
  BY <1>1, <1>3, <1>7, <1>8, RejectKeeps

LEMMA InitParser == ASSUME Init PROVE ParserInv
<1>1. IsSeq(<<>>) /\ Len(<<>>) = 0
  BY EmptyIsSeq
<1>2. StackOK(stack, "value")
  BY <1>1, DepthAssumption DEF Init, AtStart, StackOK
<1>3. pos \in Here
  BY InsideText DEF Init, AtStart, Here
<1> QED
  BY <1>2, <1>3 DEF Init, AtStart, ParserInv, Modes

LEMMA NextKeeps == ASSUME ParserInv, Next PROVE Kept
  BY ReadScalarKeeps, OpenObjectKeeps, OpenArrayKeeps, NoValueKeeps, EndDocumentKeeps,
     ReadKeyKeeps, EndMemberKeeps, EndItemKeeps, ReadHeaderKeeps, NextRowKeeps,
     EndRowEarlyKeeps, NoCellKeeps, OpenCellKeeps, BareCellKeeps, EndCellKeeps
  DEF Next

LEMMA ParserAlways == Spec => []ParserInv
<1>1. ParserInv /\ [Next]_vars => ParserInv'
  <2>1. ASSUME ParserInv, Next PROVE ParserInv'
    BY <2>1, NextKeeps DEF Kept
  <2>2. ASSUME ParserInv, UNCHANGED vars PROVE ParserInv'
    BY <2>2 DEF ParserInv, vars, Here, StackOK
  <2> QED
    BY <2>1, <2>2
<1> QED
  BY <1>1, InitParser, PTL DEF Spec
-----------------------------------------------------------------------------
(* What follows.                                                           *)

LEMMA Typed == ASSUME ParserInv PROVE TypeOK
<1>1. pos \in 1..(Len(input) + 1) /\ mode \in Modes /\ StackOK(stack, mode)
  BY DEF ParserInv, Here
<1>2. DOMAIN stack = 1..Len(stack)
  BY <1>1, IsSeqLen DEF StackOK
<1>3. \A i \in DOMAIN stack : stack[i].kind \in {"obj", "arr", "grid"}
  BY <1>1, <1>2 DEF StackOK, IsFrame
<1>4. stack # <<>> => Serves(Top, mode)
  BY <1>1, TopFrame
<1>5. mode = "key" => In("obj")
  BY <1>1, <1>4 DEF StackOK, Serves, In
<1>6. mode \in {"header", "row", "cell"} => In("grid")
  BY <1>1, <1>4 DEF StackOK, Serves, In
<1>7. mode = "accept" => stack = <<>>
  BY <1>1 DEF StackOK
<1> QED
  BY <1>1, <1>3, <1>5, <1>6, <1>7 DEF TypeOK

\* What a table returns, in one step.
Whole ==
    In("grid") /\ stack' = Below =>
        \A r \in DOMAIN val'.list :
            ColumnsOf(KeysInOrder(val'.list[r].obj), Top.headers, Len(Top.headers))

\* Only a container that closes makes the stack one shorter.
LEMMA Open ==
    ASSUME ParserInv, stack # <<>>
    PROVE  stack # Below /\ (\A f : WithTop(f) # Below) /\ (\A f : Append(stack, f) # Below)
<1>1. IsSeq(stack) /\ Len(stack) \in Nat \ {0}
  BY IsSeqLen DEF ParserInv, StackOK
<1>2. IsSeq(Below) /\ Len(Below) = Len(stack) - 1
  BY <1>1, ButLast DEF Below
<1>3. \A f : Len(WithTop(f)) = Len(stack)
  BY <1>1, <1>2, AppendIsSeq DEF WithTop
<1>4. \A f : Len(Append(stack, f)) = Len(stack) + 1
  BY <1>1, AppendIsSeq
<1> QED
  BY <1>1, <1>2, <1>3, <1>4

\* The other containers and the steps inside one return no table.
LEMMA NoTable == ASSUME ParserInv, Next, ~NextRow, ~EndRowEarly, ~EndCell PROVE Whole
<1>1. CASE stack = <<>>
  BY <1>1 DEF Whole, In
<1>2. CASE stack # <<>> /\ ~In("grid")
  BY <1>2 DEF Whole
<1>3. CASE In("grid")
  <2>1. stack # <<>> /\ ~In("obj") /\ ~In("arr") /\ mode # "key"
    <3>1. stack # <<>> /\ ~In("obj") /\ ~In("arr")
      BY <1>3 DEF In
    <3> QED
      BY <3>1, TopFrame DEF ParserInv, Serves, In
  <2>2. \/ stack' = stack
        \/ \E f : stack' = WithTop(f)
        \/ \E f : stack' = Append(stack, f)
    <3>1. ReadScalar => stack' = stack
      BY DEF ReadScalar, Return
    <3>2. OpenObject => \E f : stack' = Append(stack, f)
      BY DEF OpenObject, Continue
    <3>3. OpenArray => stack' = stack \/ \E f : stack' = Append(stack, f)
      BY DEF OpenArray, Continue, Return
    <3>4. NoValue \/ NoCell => stack' = stack
      BY DEF NoValue, NoCell, Reject
    <3>5. ~EndDocument /\ ~ReadKey /\ ~EndMember /\ ~EndItem
      BY <2>1 DEF EndDocument, ReadKey, EndMember, EndItem
    <3>6. ReadHeader => stack' = stack \/ \E f : stack' = WithTop(f)
      BY DEF ReadHeader, Continue, Reject
    <3>7. OpenCell \/ BareCell => stack' = stack
      BY DEF OpenCell, BareCell, Continue, Return
    <3> QED
      BY <3>1, <3>2, <3>3, <3>4, <3>5, <3>6, <3>7 DEF Next
  <2> QED
    BY <2>1, <2>2, Open DEF Whole
<1> QED
  BY <1>1, <1>2, <1>3

\* The table closes between two rows.
LEMMA NextRowWhole == ASSUME ParserInv, NextRow PROVE Whole
<1>1. stack # <<>> /\ StackOK(stack, "row")
  BY DEF ParserInv, NextRow, StackOK
<1>2. IsGrid(Top)
  BY <1>1, TopFrame DEF IsFrame, Serves
<1>3. stack' = stack \/ val' = List(Top.rows)
  BY DEF NextRow, Return, Continue, Reject
<1>4. CASE stack' = stack
  BY <1>1, <1>4, Open DEF Whole
<1>5. CASE val' = List(Top.rows)
  <2>1. val'.list = Top.rows
    BY <1>5 DEF List
  <2> QED
    BY <1>2, <2>1 DEF Whole, IsGrid
<1> QED
  BY <1>3, <1>4, <1>5

\* The table closes with a row in progress, which becomes its last.
LEMMA EndRowWhole ==
    ASSUME ParserInv, stack # <<>>, NEW f, IsGrid(f), f.headers = Top.headers,
           NEW q, EndRow(f, q)
    PROVE  Whole
<1> DEFINE g == RowDone(f)
<1>1. IsGrid(g) /\ g.headers = f.headers
  <2>1. IsGrid(g)
    BY RowJoins DEF IsFrame, Serves
  <2>2. DOMAIN f = {"kind", "headers", "rows", "row", "col"}
    BY DEF IsGrid
  <2> QED
    BY <2>1, <2>2 DEF RowDone
<1>2. (\E h : stack' = WithTop(h)) \/ val' = List(g.rows)
  BY DEF EndRow, Return, Continue
<1> HIDE DEF g
<1>3. CASE \E h : stack' = WithTop(h)
  BY <1>3, Open DEF Whole
<1>4. CASE val' = List(g.rows)
  <2>1. val'.list = g.rows
    BY <1>4 DEF List
  <2> QED
    BY <1>1, <2>1 DEF Whole, IsGrid
<1> QED
  BY <1>2, <1>3, <1>4

LEMMA EndRowEarlyWhole == ASSUME ParserInv, EndRowEarly PROVE Whole
<1>1. stack # <<>> /\ StackOK(stack, "cell")
  BY DEF ParserInv, EndRowEarly, StackOK
<1>2. IsGrid(Top)
  BY <1>1, TopFrame DEF IsFrame, Serves
<1> QED
  BY <1>1, <1>2, EndRowWhole DEF EndRowEarly

LEMMA EndCellWhole == ASSUME ParserInv, EndCell PROVE Whole
<1> DEFINE q == SkipSpaces(pos)
           f == [Top EXCEPT !.row = Put(@, Top.headers[Top.col], val), !.col = @ + 1]
<1>1. StackOK(stack, "got") /\ stack # <<>>
  BY DEF ParserInv, EndCell, In
<1>2. \/ stack' = WithTop(f)
      \/ EndRow(f, q)
      \/ stack' = stack
  BY DEF EndCell, Continue, Reject
<1>3. IsGrid(Top) /\ Top.col <= Len(Top.headers)
  BY <1>1, TopFrame DEF IsFrame, Serves, Awaits, EndCell, In
<1>4. IsGrid(f) /\ f.headers = Top.headers
  BY <1>3, CellJoins
<1> HIDE DEF f, q
<1>5. CASE EndRow(f, q)
  BY <1>1, <1>4, <1>5, EndRowWhole
<1>6. CASE stack' = WithTop(f) \/ stack' = stack
  BY <1>1, <1>6, Open DEF Whole
<1> QED
  BY <1>2, <1>5, <1>6

LEMMA NextWhole == ASSUME ParserInv, Next PROVE Whole
  BY NoTable, NextRowWhole, EndRowEarlyWhole, EndCellWhole

\* parseValue and the loops it calls never read outside the text, and each runs
\* only inside the container it belongs to.
THEOREM ParserTypeCorrect == Spec => []TypeOK
<1>1. ParserInv => TypeOK
  BY Typed
<1> QED
  BY <1>1, ParserAlways, PTL

\* No text opens more containers than maxParseDepth, whatever that bound is.
THEOREM NestingWithinBound == Spec => []NestingBounded
<1>1. ParserInv => NestingBounded
  BY DEF ParserInv, StackOK, NestingBounded
<1> QED
  BY <1>1, ParserAlways, PTL

\* Whatever list parseZenGrid returns, from any depth, each of its rows has every
\* column of the table, in header order: the last one too, which the closing
\* bracket may end before or after a cell.
THEOREM RowsAlwaysComplete == Spec => RowsComplete
<1>1. ParserInv /\ [Next]_vars => [Whole]_vars
  BY NextWhole
<1> QED
  BY <1>1, ParserAlways, PTL DEF Spec, RowsComplete, Whole

LEMMA Bounded == ASSUME ParserInv PROVE Remaining \in Nat
<1>1. pos \in 1..(Len(input) + 1) /\ Len(input) \in Nat
  BY InsideText DEF ParserInv, Here
<1>2. Rank \in 0..4
  BY DEF Rank, ParserInv, Modes
<1>3. 5 * (Len(input) + 1 - pos) \in Nat
  BY <1>1
<1> QED
  BY <1>2, <1>3 DEF Remaining

\* Every step of the parser consumes a byte or goes further in its loops, and
\* what remains is never less than nothing: no text keeps it running for more
\* than five steps a byte.
THEOREM EveryStepConsumes == Spec => Progress /\ [](Remaining \in Nat)
<1>1. ParserInv /\ [Next]_vars => [Remaining' < Remaining]_vars
  <2>1. ASSUME ParserInv, Next PROVE Remaining' < Remaining
    BY <2>1, NextKeeps DEF Kept
  <2> QED
    BY <2>1
<1>2. ParserInv => Remaining \in Nat
  BY Bounded
<1> QED
  BY <1>1, <1>2, ParserAlways, PTL DEF Spec, Progress
=============================================================================
