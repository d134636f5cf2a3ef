---------------------------- MODULE SequenceFacts ----------------------------
(***************************************************************************)
(* What the proofs about parsers, writers and caches keep needing: a least *)
(* number in every set of numbers, which is how they do their inductions,  *)
(* and the sequence operators on sequences of anything at all.             *)
(***************************************************************************)
EXTENDS SequencesExt, SequenceTheorems, WellFoundedInduction, TLAPS

\* Every set of natural numbers that is not empty has a least element.  Induction
\* is done with it: a least counterexample has a predecessor that is none.
LEMMA LeastNumber ==
    ASSUME NEW S \in SUBSET Nat, S # {}
    PROVE  \E l \in S : \A m \in S : l <= m
<1> DEFINE Less == {p \in Nat \X Nat : p[1] < p[2]}
<1>1. IsWellFoundedOn(Less, Nat)
  BY NatLessThanWellFounded DEF OpToRel
<1>2. PICK l \in S : \A m \in S : <<m, l>> \notin Less
  BY <1>1, WFMin
<1>3. \A m \in S : l <= m
  <2> TAKE m \in S
  <2>1. m \in Nat /\ l \in Nat
    OBVIOUS
  <2>2. m < l => <<m, l>> \in Less
    BY <2>1
  <2> QED
    BY <1>2, <2>1, <2>2
<1> QED
  BY <1>3
-----------------------------------------------------------------------------
\* A sequence, whatever its elements are.
IsSeq(s) == s \in Seq(Range(s))

LEMMA SeqIsSeq ==
    ASSUME NEW S, NEW s \in Seq(S)
    PROVE  IsSeq(s)
  BY SeqOfRange DEF IsSeq

LEMMA EmptyIsSeq == IsSeq(<<>>) /\ Len(<<>>) = 0
<1>1. <<>> \in Seq({})
  OBVIOUS
<1> QED
  BY <1>1, SeqIsSeq

LEMMA IsSeqLen ==
    ASSUME NEW s, IsSeq(s)
    PROVE  Len(s) \in Nat /\ DOMAIN s = 1..Len(s) /\ (s = <<>> <=> Len(s) = 0)
<1>1. s \in Seq(Range(s))
  BY DEF IsSeq
<1> QED
  BY <1>1, LenProperties, EmptySeq

LEMMA AppendIsSeq ==
    ASSUME NEW s, IsSeq(s), NEW e
    PROVE  /\ IsSeq(Append(s, e))
           /\ Len(Append(s, e)) = Len(s) + 1
           /\ \A i \in 1..Len(s) : Append(s, e)[i] = s[i]
           /\ Append(s, e)[Len(s) + 1] = e
           /\ Append(s, e) # <<>>
<1> DEFINE S == Range(s) \cup {e}
<1>1. s \in Seq(S) /\ e \in S
  BY SeqMonotonic DEF IsSeq
<1> HIDE DEF S
<1>2. /\ Append(s, e) \in Seq(S)
      /\ Len(Append(s, e)) = Len(s) + 1
      /\ \A i \in 1..Len(s) : Append(s, e)[i] = s[i]
      /\ Append(s, e)[Len(s) + 1] = e
      /\ Append(s, e) # <<>>
  BY <1>1, AppendProperties
<1>3. IsSeq(Append(s, e))
  BY <1>2, SeqIsSeq
<1> QED
  BY <1>2, <1>3

LEMMA SubSeqIsSeq ==
    ASSUME NEW s, IsSeq(s), NEW m \in Nat \ {0}, NEW n \in 0..Len(s)
    PROVE  /\ IsSeq(SubSeq(s, m, n))
           /\ Len(SubSeq(s, m, n)) = IF m <= n THEN n - m + 1 ELSE 0
           /\ \A i \in 1..Len(SubSeq(s, m, n)) : SubSeq(s, m, n)[i] = s[m + i - 1]
<1>1. Len(s) \in Nat /\ DOMAIN s = 1..Len(s)
  BY IsSeqLen
<1>2. m \in Int /\ n \in Int
  OBVIOUS
<1>3. \A i \in m..n : s[i] \in Range(s)
  BY <1>1 DEF Range
<1>4. /\ SubSeq(s, m, n) \in Seq(Range(s))
      /\ Len(SubSeq(s, m, n)) = IF m <= n THEN n - m + 1 ELSE 0
      /\ \A i \in 1..(n - m + 1) : SubSeq(s, m, n)[i] = s[m + i - 1]
  BY <1>2, <1>3, SubSeqProperties
<1>5. IsSeq(SubSeq(s, m, n))
  BY <1>4, SeqIsSeq
<1>6. \A i \in 1..Len(SubSeq(s, m, n)) : i \in 1..(n - m + 1)
  BY <1>2, <1>4
<1> QED
  BY <1>4, <1>5, <1>6

LEMMA ButLast ==
    ASSUME NEW s, IsSeq(s), s # <<>>
    PROVE  LET b == SubSeq(s, 1, Len(s) - 1)
           IN  IsSeq(b) /\ Len(b) = Len(s) - 1 /\ \A i \in 1..Len(b) : b[i] = s[i]
<1>1. Len(s) \in Nat \ {0}
  BY IsSeqLen
<1>2. Len(s) - 1 \in 0..Len(s) /\ Len(s) - 1 \in Nat
  BY <1>1
<1> DEFINE n == Len(s) - 1
           b == SubSeq(s, 1, n)
<1> HIDE DEF n
<1>3. /\ IsSeq(b)
      /\ Len(b) = IF 1 <= n THEN n - 1 + 1 ELSE 0
      /\ \A i \in 1..Len(b) : b[i] = s[1 + i - 1]
  BY <1>2, SubSeqIsSeq DEF n
<1>4. Len(b) = n /\ \A i \in 1..Len(b) : 1 + i - 1 = i
  BY <1>2, <1>3 DEF n
<1> QED
  BY <1>3, <1>4 DEF n
-----------------------------------------------------------------------------
\* The two parts of a concatenation.
LEMMA ConcatParts ==
    ASSUME NEW S, NEW a \in Seq(S), NEW b \in Seq(S)
    PROVE  /\ a \o b \in Seq(S) /\ Len(a \o b) = Len(a) + Len(b)
           /\ \A i \in 1..Len(a) : (a \o b)[i] = a[i]
           /\ \A i \in 1..Len(b) : (a \o b)[Len(a) + i] = b[i]
<1> DEFINE ab == a \o b
<1>1. /\ ab \in Seq(S) /\ Len(ab) = Len(a) + Len(b)
      /\ \A i \in 1..Len(a) + Len(b) : ab[i] = IF i <= Len(a) THEN a[i] ELSE b[i - Len(a)]
  BY ConcatProperties, Zenon
<1>2. Len(a) \in Nat /\ Len(b) \in Nat
  OBVIOUS
<1> HIDE DEF ab
<1>3. \A i \in 1..Len(a) : ab[i] = a[i]
  BY <1>1, <1>2
<1>4. \A i \in 1..Len(b) : ab[Len(a) + i] = b[i]
  <2> TAKE i \in 1..Len(b)
  <2>1. /\ Len(a) + i \in 1..Len(a) + Len(b) /\ ~(Len(a) + i <= Len(a))
        /\ Len(a) + i - Len(a) = i
    BY <1>2
  <2> QED
    BY <1>1, <2>1
<1> QED
  BY <1>1, <1>3, <1>4 DEF ab

\* A sequence cut in two and put together, and the end of an end.
LEMMA SubSeqJoin ==
    ASSUME NEW S, NEW s \in Seq(S), NEW k \in Nat, NEW m \in Nat, k <= m, m <= Len(s)
    PROVE  SubSeq(s, 1, k) \o SubSeq(s, k + 1, m) = SubSeq(s, 1, m)
<1> DEFINE a == SubSeq(s, 1, k)
           b == SubSeq(s, k + 1, m)
           c == SubSeq(s, 1, m)
<1>1. /\ a \in Seq(S) /\ Len(a) = k /\ \A i \in 1..k : a[i] = s[i]
      /\ b \in Seq(S) /\ Len(b) = m - k /\ \A i \in 1..(m - k) : b[i] = s[k + i]
      /\ c \in Seq(S) /\ Len(c) = m /\ \A i \in 1..m : c[i] = s[i]
  OBVIOUS
<1> HIDE DEF a, b, c
<1>2. /\ a \o b \in Seq(S) /\ Len(a \o b) = Len(a) + Len(b)
      /\ \A i \in 1..Len(a) + Len(b) : (a \o b)[i] = IF i <= Len(a) THEN a[i] ELSE b[i - Len(a)]
  <2>1. a \in Seq(S) /\ b \in Seq(S)
    BY <1>1
  <2> QED
    BY <2>1, ConcatProperties, Zenon
<1>3. Len(a) = k /\ Len(a) + Len(b) = m
  BY <1>1
<1> DEFINE ab == a \o b
<1>4. ab \in Seq(S) /\ Len(ab) = m /\ \A i \in 1..m : ab[i] = IF i <= k THEN a[i] ELSE b[i - k]
  BY <1>2, <1>3, Zenon
<1> HIDE DEF ab
<1>5. \A i \in 1..m : ab[i] = c[i]
  <2> TAKE i \in 1..m
  <2>1. CASE i <= k
    BY <1>1, <1>4, <2>1
  <2>2. CASE i > k
    <3>1. i - k \in 1..(m - k) /\ k + (i - k) = i
      BY <2>2
    <3> QED
      BY <1>1, <1>4, <2>2, <3>1
  <2> QED
    BY <2>1, <2>2
<1>6. ab = c
  BY <1>1, <1>4, <1>5, SeqEqual
<1> QED
  BY <1>6 DEF a, b, c, ab

LEMMA SubSeqEnd ==
    ASSUME NEW S, NEW s \in Seq(S), NEW k \in 0..Len(s), NEW d \in 0..(Len(s) - k)
    PROVE  LET r == SubSeq(s, k + 1, Len(s))
           IN  /\ r \in Seq(S) /\ Len(r) = Len(s) - k
               /\ \A i \in 1..Len(r) : r[i] = s[k + i]
               /\ SubSeq(r, d + 1, Len(r)) = SubSeq(s, k + d + 1, Len(s))
<1> DEFINE r == SubSeq(s, k + 1, Len(s))
           n == Len(s)
           x == SubSeq(r, d + 1, Len(r))
           y == SubSeq(s, k + d + 1, n)
<1>1. /\ n \in Nat /\ r \in Seq(S) /\ Len(r) = n - k /\ \A i \in 1..(n - k) : r[i] = s[k + i]
  OBVIOUS
<1>2. /\ y \in Seq(S) /\ Len(y) = n - k - d /\ \A i \in 1..(n - k - d) : y[i] = s[k + d + i]
  OBVIOUS
<1> HIDE DEF r, n
<1>3. /\ x \in Seq(S) /\ Len(x) = n - k - d /\ \A i \in 1..(n - k - d) : x[i] = r[d + i]
  <2>1. d + 1 \in Int /\ Len(r) \in Int /\ \A i \in (d + 1)..Len(r) : r[i] \in S
    BY <1>1
  <2>2. /\ x \in Seq(S) /\ Len(x) = IF d + 1 <= Len(r) THEN Len(r) - (d + 1) + 1 ELSE 0
        /\ \A i \in 1..Len(r) - (d + 1) + 1 : x[i] = r[d + 1 + i - 1]
    BY <2>1, SubSeqProperties
  <2> HIDE DEF x
  <2>3. d \in 0..(n - k) /\ Len(r) = n - k /\ n \in Nat /\ k \in 0..n
    BY <1>1 DEF n
  <2>4. Len(x) = n - k - d
    BY <2>2, <2>3
  <2>5. \A i \in 1..(n - k - d) : i \in 1..Len(r) - (d + 1) + 1 /\ d + 1 + i - 1 = d + i
    BY <2>3
  <2> QED
    BY <2>2, <2>4, <2>5
<1> HIDE DEF x, y
<1>4. \A i \in 1..(n - k - d) : x[i] = y[i]
  <2> TAKE i \in 1..(n - k - d)
  <2>1. d + i \in 1..(n - k) /\ k + (d + i) = k + d + i
    BY <1>1
  <2> QED
    BY <1>1, <1>2, <1>3, <2>1
<1>5. x = y
  BY <1>2, <1>3, <1>4, SeqEqual
<1> QED
  BY <1>1, <1>5 DEF x, y, r, n

LEMMA SubSeqPart ==
    ASSUME NEW S, NEW s \in Seq(S), NEW p \in Nat \ {0}, NEW n \in Nat, p + n - 1 <= Len(s)
    PROVE  LET x == SubSeq(s, p, p + n - 1)
           IN  x \in Seq(S) /\ Len(x) = n /\ \A i \in 1..n : x[i] = s[p + i - 1]
<1> DEFINE e == p + n - 1
<1>1. p \in Int /\ e \in Int /\ e - p + 1 = n /\ (p <= e => n = e - p + 1) /\ (~(p <= e) => n = 0)
  OBVIOUS
<1>2. \A i \in p..e : s[i] \in S
  OBVIOUS
<1> HIDE DEF e
<1>3. /\ SubSeq(s, p, e) \in Seq(S)
      /\ Len(SubSeq(s, p, e)) = IF p <= e THEN e - p + 1 ELSE 0
      /\ \A i \in 1..e - p + 1 : SubSeq(s, p, e)[i] = s[p + i - 1]
  BY <1>1, <1>2, SubSeqProperties
<1>4. Len(SubSeq(s, p, e)) = n
  BY <1>1, <1>3
<1> QED
  BY <1>1, <1>3, <1>4 DEF e

LEMMA OneElement ==
    ASSUME NEW S, NEW s \in Seq(S), Len(s) = 1
    PROVE  s = <<s[1]>>
<1> DEFINE e == s[1]
<1>1. e \in S
  BY ElementOfSeq
<1> HIDE DEF e
<1>2. <<e>> \in Seq(S) /\ Len(<<e>>) = 1 /\ <<e>>[1] = e
  BY <1>1
<1>3. \A i \in 1..Len(s) : s[i] = <<e>>[i]
  BY <1>2 DEF e
<1>4. s = <<e>>
  BY <1>2, <1>3, SeqEqual
<1> QED
  BY <1>4 DEF e

\* Induction over the natural numbers, for a set.
LEMMA InductionInSet ==
    ASSUME NEW P, 0 \in P, \A n \in Nat : n \in P => n + 1 \in P
    PROVE  \A n \in Nat : n \in P
<1> DEFINE S == {n \in Nat : n \notin P}
<1> SUFFICES ASSUME S # {} PROVE FALSE
  OBVIOUS
<1>1. PICK l \in S : \A m \in S : l <= m
  <2>1. S \in SUBSET Nat
    OBVIOUS
  <2> HIDE DEF S
  <2> QED
    BY <2>1, LeastNumber
<1>2. l # 0 /\ l - 1 \in Nat /\ l - 1 \notin S /\ l - 1 + 1 = l
  BY <1>1
<1> QED
  BY <1>1, <1>2

\* The same from all smaller numbers.
LEMMA StrongInductionInSet ==
    ASSUME NEW P, \A n \in Nat : (\A m \in Nat : m < n => m \in P) => n \in P
    PROVE  \A n \in Nat : n \in P
<1> DEFINE S == {n \in Nat : n \notin P}
<1> SUFFICES ASSUME S # {} PROVE FALSE
  OBVIOUS
<1>1. PICK l \in S : \A m \in S : l <= m
  <2>1. S \in SUBSET Nat
    OBVIOUS
  <2> HIDE DEF S
  <2> QED
    BY <2>1, LeastNumber
<1>2. \A m \in Nat : m < l => m \notin S
  BY <1>1
<1> QED
  BY <1>1, <1>2

\* A loop over 1..n from a, whose turn k takes x to F[k][x]: g has its value after every turn.
Loop(g, S, n, a, F) ==
    g \in [0..n -> S] /\ g[0] = a /\ \A k \in 1..n : g[k] = F[k][g[k - 1]]

LEMMA LoopExists ==
    ASSUME NEW S, NEW n \in Nat, NEW a \in S, NEW F \in [1..n -> [S -> S]]
    PROVE  \E g : Loop(g, S, n, a, F)
<1> DEFINE Good(g, m) == g[0] = a /\ \A k \in 1..m : k <= n => g[k] = F[k][g[k - 1]]
           P == {m \in Nat : m <= n => \E g \in [0..m -> S] : Good(g, m)}
<1>1. 0 \in P
  <2>1. [k \in 0..0 |-> a] \in [0..0 -> S] /\ Good([k \in 0..0 |-> a], 0)
    OBVIOUS
  <2> QED
    BY <2>1
<1>2. ASSUME NEW m \in Nat, m \in P PROVE m + 1 \in P
  <2> SUFFICES ASSUME m + 1 <= n PROVE \E g \in [0..(m + 1) -> S] : Good(g, m + 1)
    OBVIOUS
  <2>1. PICK g \in [0..m -> S] : Good(g, m)
    BY <1>2
  <2> DEFINE h == [k \in 0..(m + 1) |-> IF k <= m THEN g[k] ELSE F[m + 1][g[m]]]
  <2>2. g[m] \in S /\ m + 1 \in 1..n /\ F[m + 1] \in [S -> S]
    OBVIOUS
  <2>3. F[m + 1][g[m]] \in S
    BY <2>2
  <2>4. h \in [0..(m + 1) -> S]
    BY <2>3
  <2>5. h[0] = a
    BY <2>1
  <2>6. \A k \in 1..(m + 1) : h[k] = F[k][h[k - 1]]
    <3> TAKE k \in 1..(m + 1)
    <3>1. CASE k <= m
      <4>1. k \in 1..m /\ k <= n /\ k - 1 \in 0..(m + 1) /\ k - 1 <= m /\ k \in 0..(m + 1)
        BY <3>1
      <4> QED
        BY <2>1, <3>1, <4>1
    <3>2. CASE k = m + 1
      <4>1. k - 1 = m /\ m \in 0..(m + 1) /\ k \in 0..(m + 1) /\ ~(k <= m)
        BY <3>2
      <4> QED
        BY <3>2, <4>1
    <3> QED
      BY <3>1, <3>2
  <2> QED
    BY <2>4, <2>5, <2>6
<1>3. n \in P
  <2> HIDE DEF P
  <2> QED
    BY <1>1, <1>2, InductionInSet
<1> QED
  BY <1>3 DEF Loop
-----------------------------------------------------------------------------
(* Sequences one behind the other.                                         *)

\* g[k] is the first k sequences of ss, joined.
Running(g, ss, n) == g[0] = <<>> /\ \A k \in 1..n : g[k] = g[k - 1] \o ss[k]

LEMMA RunningExists ==
    ASSUME NEW S, NEW n \in Nat, NEW ss \in [1..n -> Seq(S)]
    PROVE  \E g \in [0..n -> Seq(S)] : Running(g, ss, n)
<1> DEFINE Q == Seq(S)
           F == [k \in 1..n |-> [x \in Q |-> x \o ss[k]]]
<1>1. F \in [1..n -> [Q -> Q]]
  <2> SUFFICES ASSUME NEW k \in 1..n, NEW x \in Q PROVE x \o ss[k] \in Q
    OBVIOUS
  <2>1. x \in Seq(S) /\ ss[k] \in Seq(S)
    OBVIOUS
  <2> QED
    BY <2>1, ConcatProperties, Zenon
<1>2. <<>> \in Q
  BY EmptySeq
<1> HIDE DEF Q
<1>3. \A k \in 1..n : \A x \in Q : F[k][x] = x \o ss[k]
  OBVIOUS
<1> HIDE DEF F
<1>4. PICK g : Loop(g, Q, n, <<>>, F)
  BY <1>1, <1>2, LoopExists
<1>5. g \in [0..n -> Q] /\ g[0] = <<>> /\ \A k \in 1..n : g[k] = F[k][g[k - 1]]
  BY <1>4 DEF Loop
<1>6. \A k \in 1..n : g[k] = g[k - 1] \o ss[k]
  <2> TAKE k \in 1..n
  <2>1. k - 1 \in 0..n
    OBVIOUS
  <2>2. g[k - 1] \in Q
    BY <1>5, <2>1
  <2> QED
    BY <1>3, <1>5, <2>2
<1> QED
  BY <1>5, <1>6 DEF Running, Q

LEMMA FlattenIs ==
    ASSUME NEW S, NEW ss \in Seq(Seq(S)), NEW g, Running(g, ss, Len(ss))
    PROVE  FlattenSeq(ss) = g[Len(ss)]
<1> DEFINE n == Len(ss)
           Is(h) == h = [k \in 1..n |-> IF k = 1 THEN ss[k] ELSE h[k - 1] \o ss[k]]
           f == [k \in 1..n |-> g[k]]
           w == CHOOSE h : Is(h)
<1>1. n \in Nat /\ ss \in [1..n -> Seq(S)]
  BY LenProperties
<1>2. CASE n = 0
  <2>1. ss = <<>>
    BY <1>2, EmptySeq
  <2>2. FlattenSeq(ss) = ss
    BY <1>2 DEF FlattenSeq
  <2> QED
    BY <1>2, <2>1, <2>2 DEF Running
<1>3. CASE n # 0
  <2>1. \A k \in 1..n : g[k] = g[k - 1] \o ss[k]
    BY DEF Running
  <2>2. g[1] = ss[1]
    <3>1. 1 \in 1..n /\ 1 - 1 = 0
      BY <1>1, <1>3
    <3>2. g[1] = <<>> \o ss[1]
      BY <2>1, <3>1 DEF Running
    <3>3. ss[1] \in Seq(S)
      BY <1>1, <3>1
    <3> QED
      BY <3>2, <3>3, ConcatEmptySeq
  <2>3. Is(f)
    <3>1. \A k \in 1..n : g[k] = IF k = 1 THEN ss[k] ELSE f[k - 1] \o ss[k]
      <4> TAKE k \in 1..n
      <4>1. CASE k = 1
        BY <2>2, <4>1
      <4>2. CASE k # 1
        <5>1. k - 1 \in 1..n
          BY <1>1, <4>2
        <5> QED
          BY <2>1, <4>2, <5>1
      <4> QED
        BY <4>1, <4>2
    <3> QED
      BY <3>1
  <2>4. Is(w)
    <3> HIDE DEF Is, f
    <3> QED
      BY <2>3
  <2>5. FlattenSeq(ss) = w[n]
    BY <1>3 DEF FlattenSeq
  <2> HIDE DEF w, f
  <2>6. \A k \in 1..n : w[k] = IF k = 1 THEN ss[k] ELSE w[k - 1] \o ss[k]
    BY <2>4
  <2> DEFINE P == {k \in Nat : k + 1 \in 1..n => w[k + 1] = g[k + 1]}
  <2> HIDE DEF Is
  <2>7. 0 \in P
    BY <1>1, <1>3, <2>2, <2>6
  <2>8. ASSUME NEW k \in Nat, k \in P PROVE k + 1 \in P
    <3> SUFFICES ASSUME k + 1 + 1 \in 1..n PROVE w[k + 1 + 1] = g[k + 1 + 1]
      OBVIOUS
    <3>1. k + 1 \in 1..n /\ k + 1 + 1 # 1 /\ k + 1 + 1 - 1 = k + 1
      BY <1>1
    <3>2. w[k + 1] = g[k + 1]
      BY <2>8, <3>1
    <3> DEFINE m == k + 1 + 1
    <3>3. m \in 1..n /\ m # 1 /\ m - 1 = k + 1
      BY <3>1
    <3> HIDE DEF m
    <3>4. w[m] = w[m - 1] \o ss[m] /\ g[m] = g[m - 1] \o ss[m]
      BY <2>1, <2>6, <3>3
    <3> QED
      BY <3>2, <3>3, <3>4 DEF m
  <2>9. \A k \in Nat : k \in P
    <3> HIDE DEF P
    <3> QED
      BY <2>7, <2>8, InductionInSet
  <2>10. w[n] = g[n]
    <3>1. n - 1 \in Nat /\ n - 1 + 1 = n /\ n \in 1..n
      BY <1>1, <1>3
    <3> QED
      BY <2>9, <3>1
  <2> QED
    BY <2>5, <2>10
<1> QED
  BY <1>2, <1>3
-----------------------------------------------------------------------------
(* Texts: sequences put together, whatever their elements are.             *)

LEMMA ConcatIsSeq ==
    ASSUME NEW a, IsSeq(a), NEW b, IsSeq(b)
    PROVE  IsSeq(a \o b) /\ Len(a \o b) = Len(a) + Len(b)
<1> DEFINE S == Range(a) \cup Range(b)
<1>1. a \in Seq(S) /\ b \in Seq(S)
  BY SeqMonotonic DEF IsSeq
<1> HIDE DEF S
<1>2. a \o b \in Seq(S) /\ Len(a \o b) = Len(a) + Len(b)
  BY <1>1, ConcatProperties
<1> QED
  BY <1>2, SeqIsSeq

\* Named, so that the provers see at once for which sequences to use the next two.
Three(a, b, c) == IsSeq(a) /\ IsSeq(b) /\ IsSeq(c)
Four(a, b, c, d) == Three(a, b, c) /\ IsSeq(d)

LEMMA ConcatThree ==
    ASSUME NEW a, NEW b, NEW c, Three(a, b, c)
    PROVE  (a \o b) \o c = a \o (b \o c)
<1> DEFINE S == Range(a) \cup Range(b) \cup Range(c)
<1>1. a \in Seq(S) /\ b \in Seq(S) /\ c \in Seq(S)
  BY SeqMonotonic DEF IsSeq, Three
<1> HIDE DEF S
<1> QED
  BY <1>1, ConcatAssociative, SMTT(30)

LEMMA ConcatFour ==
    ASSUME NEW a, NEW b, NEW c, NEW d, Four(a, b, c, d)
    PROVE  ((a \o b) \o c) \o d = a \o (b \o (c \o d))
<1> DEFINE p == a \o b
           q == c \o d
<1>1. Three(p, c, d) /\ Three(a, b, q)
  BY ConcatIsSeq DEF Three, Four
<1>2. p \o q = a \o (b \o q)
  <2> HIDE DEF q
  <2> QED
    BY <1>1, ConcatThree
<1>3. (p \o c) \o d = p \o q
  <2> HIDE DEF p
  <2> QED
    BY <1>1, ConcatThree
<1> QED
  BY <1>2, <1>3

LEMMA ConcatEmpty ==
    ASSUME NEW a, IsSeq(a)
    PROVE  a \o <<>> = a /\ <<>> \o a = a
  BY ConcatEmptySeq DEF IsSeq

LEMMA AppendConcat ==
    ASSUME NEW a, IsSeq(a), NEW e
    PROVE  Append(a, e) = a \o <<e>>
<1> DEFINE S == Range(a) \cup {e}
<1>1. a \in Seq(S) /\ e \in S
  BY SeqMonotonic DEF IsSeq
<1> HIDE DEF S
<1> QED
  BY <1>1, AppendIsConcat

LEMMA SameSeq ==
    ASSUME NEW a, IsSeq(a), NEW b, IsSeq(b), Len(a) = Len(b),
           \A i \in 1..Len(a) : a[i] = b[i]
    PROVE  a = b
<1> DEFINE S == Range(a) \cup Range(b)
<1>1. a \in Seq(S) /\ b \in Seq(S)
  BY SeqMonotonic DEF IsSeq
<1> HIDE DEF S
<1> QED
  BY <1>1, SeqEqual

\* Texts one behind the other, and one more.
Texts(ss) == IsSeq(ss) /\ \A i \in 1..Len(ss) : IsSeq(ss[i])

LEMMA TextsOver ==
    ASSUME NEW ss, Texts(ss)
    PROVE  \E S : ss \in Seq(Seq(S))
<1> DEFINE n == Len(ss)
           S == UNION {Range(ss[i]) : i \in 1..n}
<1>1. n \in Nat /\ ss \in Seq(Range(ss)) /\ DOMAIN ss = 1..n
  BY IsSeqLen DEF Texts, IsSeq
<1>2. \A i \in 1..n : ss[i] \in Seq(S)
  <2> TAKE i \in 1..n
  <2>1. ss[i] \in Seq(Range(ss[i])) /\ Range(ss[i]) \subseteq S
    BY DEF Texts, IsSeq
  <2> HIDE DEF S
  <2> QED
    BY <2>1, SeqMonotonic
<1> DEFINE Q == Seq(S)
<1>3. ss \in Seq(Q)
  <2>1. \A i \in 1..n : ss[i] \in Q
    BY <1>2
  <2> HIDE DEF Q
  <2>2. Range(ss) \subseteq Q
    BY <1>1, <2>1 DEF Range
  <2> QED
    BY <1>1, <2>2, SeqMonotonic
<1> QED
  BY <1>3

LEMMA FlattenEmpty == FlattenSeq(<<>>) = <<>>
  BY DEF FlattenSeq

LEMMA FlattenIsSeq ==
    ASSUME NEW ss, Texts(ss)
    PROVE  IsSeq(FlattenSeq(ss))
<1>1. PICK S : ss \in Seq(Seq(S))
  BY TextsOver
<1>2. Len(ss) \in Nat /\ ss \in [1..Len(ss) -> Seq(S)]
  BY <1>1, LenProperties
<1>3. PICK g \in [0..Len(ss) -> Seq(S)] : Running(g, ss, Len(ss))
  BY <1>2, RunningExists
<1>4. g[Len(ss)] \in Seq(S)
  BY <1>2
<1> QED
  BY <1>1, <1>3, <1>4, FlattenIs, SeqIsSeq

LEMMA FlattenAppend ==
    ASSUME NEW ss, Texts(ss), NEW x, IsSeq(x)
    PROVE  Texts(Append(ss, x)) /\ FlattenSeq(Append(ss, x)) = FlattenSeq(ss) \o x
<1> DEFINE n == Len(ss)
           ts == Append(ss, x)
<1>1. /\ n \in Nat /\ IsSeq(ts) /\ Len(ts) = n + 1
      /\ \A i \in 1..n : ts[i] = ss[i]
      /\ ts[n + 1] = x
  BY AppendIsSeq, IsSeqLen DEF Texts
<1>2. Texts(ts)
  BY <1>1 DEF Texts
<1>3. /\ Len(ss) = n /\ DOMAIN ss = 1..n /\ ss \in Seq(Range(ss))
  BY IsSeqLen DEF Texts, IsSeq
<1> HIDE DEF ts, n
<1>4. PICK S : ts \in Seq(Seq(S))
  BY <1>2, TextsOver
<1>5. ts \in [1..(n + 1) -> Seq(S)]
  BY <1>1, <1>4, LenProperties
<1>6. PICK g \in [0..(n + 1) -> Seq(S)] : Running(g, ts, n + 1)
  BY <1>1, <1>5, RunningExists
<1>7. FlattenSeq(ts) = g[n + 1]
  BY <1>1, <1>4, <1>6, FlattenIs
<1>8. ss \in Seq(Seq(S))
  <2> DEFINE Q == Seq(S)
  <2> HIDE DEF Q
  <2>1. ASSUME NEW i \in 1..n PROVE ss[i] \in Q
    <3>1. i \in 1..(n + 1)
      BY <1>1
    <3>2. ts[i] \in Q
      BY <1>5, <3>1 DEF Q
    <3> QED
      BY <1>1, <3>2
  <2>2. ss \in Seq(Range(ss)) /\ DOMAIN ss = 1..n
    BY <1>3
  <2>3. Range(ss) \subseteq Q
    BY <2>1, <2>2 DEF Range
  <2> QED
    BY <2>2, <2>3, SeqMonotonic DEF Q
<1>9. Running(g, ss, n)
  <2>1. g[0] = <<>> /\ \A k \in 1..(n + 1) : g[k] = g[k - 1] \o ts[k]
    BY <1>6 DEF Running
  <2>2. ASSUME NEW k \in 1..n PROVE g[k] = g[k - 1] \o ss[k]
    <3>1. k \in 1..(n + 1)
      BY <1>1
    <3> QED
      BY <1>1, <2>1, <3>1
  <2> QED
    BY <2>1, <2>2 DEF Running
<1>10. FlattenSeq(ss) = g[n]
  BY <1>3, <1>8, <1>9, FlattenIs
<1>11. g[n + 1] = g[n] \o x
  <2>1. n + 1 \in 1..(n + 1) /\ (n + 1) - 1 = n
    BY <1>1
  <2>2. g[n + 1] = g[(n + 1) - 1] \o ts[n + 1]
    BY <1>6, <2>1 DEF Running
  <2> QED
    BY <1>1, <2>1, <2>2
<1> QED
  BY <1>2, <1>7, <1>10, <1>11 DEF ts
=============================================================================
