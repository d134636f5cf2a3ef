---------------------------- MODULE NumberProofs ----------------------------
(***************************************************************************)
(* Numbers written and read back: for integers of any size and a machine   *)
(* word of any width, and for floats of any digits in every layout, what   *)
(* appendFloat and AppendInt write reads as the number it was (number.go,  *)
(* decode.go).                                                             *)
(***************************************************************************)
EXTENDS ScalarLanguageProofs

\* What the text of a number reads as.
NumberOf(t) ==
    LET word == Lower(SubSeq(t, First(t), Len(t))) IN
    IF word = NAN THEN Special("NaN")
    ELSE IF word \in {INF, INFINITY} THEN Special(IF First(t) = 2 THEN "-Inf" ELSE "Inf")
    ELSE IF Run(t, First(t), Len(t)) THEN IntegerOf(t) ELSE DecimalOf(t)

\* The text is one number, and nothing else.
Lone == Unquoted /\ Scalar(text) /\ text[1] \in Digits \cup {MINUS, 73, 78}

\* Such a text is the token, and reads as what it says.
Told ==
    /\ mode = "value" => pos = 1
    /\ mode \in {"mantissa", "fraction"} => token = text
    /\ mode = "accept" => result = NumberOf(text)

ValueInv == Lone => Told
-----------------------------------------------------------------------------
\* A token that begins with a digit, behind a sign or not, is no special word.
LEMMA NoWord ==
    ASSUME NEW t \in Seq(Byte), First(t) <= Len(t), t[First(t)] \in Digits
    PROVE  Lower(SubSeq(t, First(t), Len(t))) \notin {NAN, INF, INFINITY}
<1> DEFINE b == First(t)
           x == SubSeq(t, b, Len(t))
<1>1. b \in {1, 2} /\ Len(t) \in Nat /\ b <= Len(t) /\ t[b] \in Digits
  BY FirstIs, LenProperties
<1> HIDE DEF b
<1>2. b \in Nat \ {0} /\ Len(t) \in 0..Len(t) /\ b <= Len(t) + 1 /\ 1 <= Len(t) - b + 1
      /\ b + 1 - 1 = b
  BY <1>1
<1>3. x \in Seq(Byte) /\ 1 \in 1..Len(x) /\ x[1] = t[b]
  <2>1. /\ x \in Seq(Byte) /\ Len(x) = Len(t) - b + 1
        /\ \A k \in 1..Len(x) : x[k] = t[b + k - 1]
    BY <1>1, <1>2, Part
  <2> HIDE DEF x
  <2>2. 1 \in 1..Len(x)
    BY <1>1, <1>2, <2>1
  <2> QED
    BY <1>2, <2>1, <2>2
<1> HIDE DEF x
<1>4. Lower(x)[1] \in Digits
  BY <1>1, <1>3, LowerParts
<1>5. Lower(x) \notin {NAN, INF, INFINITY}
  BY <1>4, WordsBegin
<1> QED
  BY <1>5 DEF x, b

\* The step of a reader that is not at a string leaves the text as it is.
LEMMA TextStays ==
    ASSUME TextInv, [ScalarNext]_scalarVars
    PROVE  text' = text /\ input' = input
<1>1. ~WriteString /\ ~ReadString
  BY NoString
<1>2. ReadNumber => text' = text
  BY DEF ReadNumber, OpenNumber, MantissaByte, FractionByte, FinishInteger, FinishFloat,
         Returns, Fails, Accept, Reject
<1>3. ReadLiteral \/ SkipBlank \/ OpenContainer \/ NoScalar \/ TrailingText => text' = text
  BY DEF ReadLiteral, SkipBlank, OpenContainer, NoScalar, TrailingText, Accept, Reject
<1>4. Scanning => text' = text
  BY DEF Scanning, inputVars
<1> QED
  BY <1>1, <1>2, <1>3, <1>4 DEF ScalarNext, scalarVars, inputVars

\* Its bytes are all a number's.
LEMMA LoneBytes ==
    ASSUME Lone, text \in Seq(Byte)
    PROVE  /\ \A k \in 1..Len(text) : text[k] \in NumberByte
           /\ 1 \in 1..Len(text)
<1>1. \A k \in 1..Len(text) : text[k] \in NumberByte
  BY BytesOfScalar DEF Lone
<1>2. text # <<>>
  BY ScalarIs, ScalarBegins DEF Lone
<1> QED
  BY <1>1, <1>2, LenProperties, EmptySeq

LEMMA ValueInvNext ==
    ASSUME TextInv, ValueInv, [ScalarNext]_scalarVars
    PROVE  ValueInv'
<1> SUFFICES ASSUME Lone' PROVE Told'
  BY DEF ValueInv
<1>1. /\ text \in Seq(Byte) /\ Len(text) \in Nat /\ text' = text
      /\ mode = "mantissa" => Token /\ Mantissa
      /\ mode = "fraction" => Token /\ SecondLoop
      /\ NumberOf(text') = NumberOf(text)
  BY TextStays, LenProperties DEF TextInv
<1>2. Lone /\ Told
  BY TextStays DEF ValueInv, Lone, Unquoted
<1>3. /\ \A k \in 1..Len(text) : text[k] \in NumberByte
      /\ 1 \in 1..Len(text) /\ text[1] \in Digits \cup {MINUS, 73, 78}
  BY <1>1, <1>2, LoneBytes DEF Lone
<1>4. CASE UNCHANGED <<input, inputVars, numberVars>>
  BY <1>2, <1>4 DEF Told, inputVars, numberVars
<1>5. CASE OpenNumber
  <2> DEFINE tok  == SubSeq(text, pos, TokenEnd)
             word == Lower(SubSeq(tok, First(tok), Len(tok)))
  <2>1. /\ pos = 1 /\ token' = tok /\ mode' # "value"
        /\ mode' = "accept" =>
             \/ word = NAN /\ result' = Special("NaN")
             \/ /\ word \in {INF, INFINITY}
                /\ result' = Special(IF First(tok) = 2 THEN "-Inf" ELSE "Inf")
    BY <1>2, <1>5 DEF OpenNumber, Told
  <2>2. TokenEnd = Len(text)
    <3>1. /\ TokenEnd \in 0..Len(text)
          /\ TokenEnd < Len(text) => text[TokenEnd + 1] \notin NumberByte
      BY <1>1, <1>3, <2>1, TokenEnds
    <3>2. TokenEnd < Len(text) => TokenEnd + 1 \in 1..Len(text)
      BY <1>1, <3>1
    <3> QED
      BY <1>1, <1>3, <3>1, <3>2
  <2>3. tok = text
    BY <1>1, <2>1, <2>2, SubSeqFull
  <2> HIDE DEF tok
  <2>4. NAN \notin {INF, INFINITY}
    <3>1. NAN[1] = 110 /\ INF[1] = 105 /\ INFINITY[1] = 105
      BY DEF NAN, INF, INFINITY
    <3> QED
      BY <3>1
  <2>5. mode' = "accept" => result' = NumberOf(text)
    BY <2>1, <2>3, <2>4 DEF NumberOf
  <2> QED
    BY <1>1, <2>1, <2>3, <2>5 DEF Told
<1>6. CASE FinishInteger
  <2>1. /\ Token /\ Mantissa /\ at > Len(token) /\ result' = IntegerOf(token) /\ mode' = "accept"
        /\ token = text
    BY <1>1, <1>2, <1>6 DEF FinishInteger, Returns, Accept, Told
  <2>2. token \in Seq(Byte) /\ Len(token) \in Nat /\ First(token) <= Len(token)
        /\ token[First(token)] \in Digits /\ at \in First(token)..(Len(token) + 1)
        /\ Run(token, First(token), at - 1)
    BY <2>1, LenProperties DEF Token, Mantissa
  <2>3. at - 1 = Len(token)
    BY <2>1, <2>2
  <2>4. Run(token, First(token), Len(token))
    BY <2>2, <2>3
  <2>5. Lower(SubSeq(token, First(token), Len(token))) \notin {NAN, INF, INFINITY}
    BY <2>2, NoWord
  <2>6. result' = NumberOf(text)
    BY <2>1, <2>4, <2>5 DEF NumberOf
  <2> QED
    BY <1>1, <2>1, <2>6 DEF Told
<1>7. CASE FinishFloat
  <2>1. /\ Token /\ SecondLoop /\ mode' \in {"accept", "reject"} /\ token = text
        /\ mode' = "accept" => result' = DecimalOf(token)
    BY <1>1, <1>2, <1>7 DEF FinishFloat, Returns, Fails, Accept, Reject, Told
  <2>2. token \in Seq(Byte) /\ Len(token) \in Nat
    BY <2>1, LenProperties DEF Token
  <2>3. PICK i \in 1..Len(token) :
            /\ IntPart(token, i)
            /\ Fraction(i) \/ \E f \in 1..Len(token) : Exponent(i, f)
    BY <2>1 DEF SecondLoop
  <2>4. i \in First(token)..Len(token) /\ Run(token, First(token), i) /\ First(token) \in {1, 2}
    BY <2>3, FirstIs DEF IntPart
  <2>5. First(token) <= Len(token) /\ token[First(token)] \in Digits
    BY <2>2, <2>4 DEF Run
  <2>6. \E k \in First(token)..Len(token) : token[k] \notin Digits
    <3>1. CASE Fraction(i)
      <4>1. i < Len(token) /\ token[i + 1] = POINT
        BY <3>1 DEF Fraction
      <4>2. i + 1 \in First(token)..Len(token)
        BY <2>2, <2>4, <4>1
      <4> QED
        BY <4>1, <4>2, KindsApart
    <3>2. ASSUME NEW f \in 1..Len(token), Exponent(i, f)
          PROVE  \E k \in First(token)..Len(token) : token[k] \notin Digits
      <4>1. f < Len(token) /\ token[f + 1] \in Exponents /\ (f = i \/ f \in (i + 2)..Len(token))
        BY <3>2 DEF Exponent, FracPart
      <4>2. f + 1 \in First(token)..Len(token)
        BY <2>2, <2>4, <4>1
      <4> QED
        BY <4>1, <4>2, KindsApart
    <3> QED
      BY <2>3, <3>1, <3>2
  <2>7. ~Run(token, First(token), Len(token))
    BY <2>6 DEF Run
  <2>8. Lower(SubSeq(token, First(token), Len(token))) \notin {NAN, INF, INFINITY}
    BY <2>2, <2>5, NoWord
  <2>9. mode' = "accept" => result' = NumberOf(text)
    BY <2>1, <2>7, <2>8 DEF NumberOf
  <2> QED
    BY <1>1, <2>1, <2>9 DEF Told
<1>8. ~ReadLiteral
  <2>1. 116 \notin Digits \cup {MINUS, 73, 78} /\ 102 \notin Digits \cup {MINUS, 73, 78}
        /\ 110 \notin Digits \cup {MINUS, 73, 78}
    BY DEF Digits, MINUS
  <2>2. ReadLiteral => text[1] \in {116, 102, 110}
    BY <1>2 DEF ReadLiteral, NextIn, Told
  <2> QED
    BY <1>3, <2>1, <2>2
<1>9. ~SkipBlank
  <2> SUFFICES ASSUME NEW d, Item(text, pos, d) PROVE FALSE
    BY DEF SkipBlank
  <2>1. pos \in 1..Len(text)
    BY <1>1, ItemIs
  <2>2. text[pos] \in ScalarByte
    BY <1>3, <2>1 DEF ScalarByte
  <2> QED
    BY <1>1, <2>2, NoItem
<1>10. ~WriteString /\ ~ReadString /\ ~OpenContainer
  BY NoString
<1>11. CASE MantissaByte \/ FractionByte
  <2>1. mode \in {"mantissa", "fraction"} /\ token' = token
        /\ mode' \in {"mantissa", "fraction", "reject"}
    BY <1>11 DEF MantissaByte, FractionByte
  <2> QED
    BY <1>1, <1>2, <2>1 DEF Told
<1>12. CASE NoScalar \/ TrailingText
  <2>1. mode' = "reject"
    BY <1>12 DEF NoScalar, TrailingText, Reject
  <2> QED
    BY <2>1 DEF Told
<1> QED
  BY <1>4, <1>5, <1>6, <1>7, <1>8, <1>9, <1>10, <1>11, <1>12
     DEF ScalarNext, scalarVars, ReadNumber, Scanning

LEMMA ValueInvariance == ScalarSpec => []ValueInv
<1>1. ScalarInit => ValueInv
  BY DEF ScalarInit, ValueInv, Lone, Told, Unquoted
<1>2. LanguageInv /\ ValueInv /\ [ScalarNext]_scalarVars => ValueInv'
  <2> SUFFICES ASSUME LanguageInv, ValueInv, [ScalarNext]_scalarVars PROVE ValueInv'
    OBVIOUS
  <2>1. Unquoted' => Unquoted
    BY DEF ScalarNext, scalarVars, Unquoted
  <2>2. CASE Unquoted
    BY <2>2, ValueInvNext DEF LanguageInv
  <2>3. CASE ~Unquoted
    BY <2>1, <2>3 DEF ValueInv, Lone
  <2> QED
    BY <2>2, <2>3
<1> QED
  BY <1>1, <1>2, LanguageInvariance, PTL DEF ScalarSpec
-----------------------------------------------------------------------------
(* The number that digits stand for.                                       *)

\* The turns of the loop: one more digit.
Shifts(ds) == [k \in 1..Len(ds) |-> [x \in Int |-> 10 * x + (ds[k] - ZERO)]]

\* v[k] is the number of the first k bytes, for k up to m.
Counts(v, ds, m) == v[0] = 0 /\ \A k \in 1..m : v[k] = 10 * v[k - 1] + (ds[k] - ZERO)

\* The same bytes up to m.
Agree(ds, es, m) == \A k \in 1..m : ds[k] = es[k]

LEMMA CountsOnce ==
    ASSUME NEW m \in Nat, NEW ds, NEW es, Agree(ds, es, m),
           NEW v, NEW w, Counts(v, ds, m), Counts(w, es, m)
    PROVE  \A k \in 0..m : v[k] = w[k]
<1> DEFINE P == {k \in Nat : k <= m => v[k] = w[k]}
<1>1. 0 \in P
  BY DEF Counts
<1>2. ASSUME NEW k \in Nat, k \in P PROVE k + 1 \in P
  <2> SUFFICES ASSUME k + 1 <= m PROVE v[k + 1] = w[k + 1]
    OBVIOUS
  <2>1. k + 1 \in 1..m /\ k + 1 - 1 = k /\ v[k] = w[k]
    BY <1>2
  <2>2. v[k + 1] = 10 * v[k + 1 - 1] + (ds[k + 1] - ZERO)
    BY <2>1 DEF Counts
  <2>3. w[k + 1] = 10 * w[k + 1 - 1] + (es[k + 1] - ZERO)
    BY <2>1 DEF Counts
  <2>4. ds[k + 1] = es[k + 1]
    BY <2>1 DEF Agree
  <2> QED
    BY <2>1, <2>2, <2>3, <2>4
<1>3. \A k \in Nat : k \in P
  <2> HIDE DEF P
  <2> QED
    BY <1>1, <1>2, InductionInSet
<1> QED
  BY <1>3

LEMMA NaturalIs ==
    ASSUME NEW ds \in Seq(Int)
    PROVE  \E v \in [0..Len(ds) -> Int] : Counts(v, ds, Len(ds)) /\ Natural(ds) = v[Len(ds)]
<1> DEFINE n == Len(ds)
           F == Shifts(ds)
           Is(v) == v = [k \in 0..n |-> IF k = 0 THEN 0 ELSE 10 * v[k - 1] + (ds[k] - ZERO)]
<1>1. n \in Nat /\ \A k \in 1..n : ds[k] \in Int
  BY LenProperties, ElementOfSeq
<1>2. F \in [1..n -> [Int -> Int]]
  BY <1>1 DEF ZERO, Shifts
<1>3. PICK v : Loop(v, Int, n, 0, F)
  <2>1. 0 \in Int
    OBVIOUS
  <2> HIDE DEF F, n
  <2> QED
    BY <1>1, <1>2, <2>1, LoopExists
<1>4. v \in [0..n -> Int] /\ Counts(v, ds, n)
  <2>1. v \in [0..n -> Int] /\ v[0] = 0 /\ \A k \in 1..n : v[k] = F[k][v[k - 1]]
    BY <1>3 DEF Loop
  <2>2. ASSUME NEW k \in 1..n PROVE v[k] = 10 * v[k - 1] + (ds[k] - ZERO)
    <3>1. k - 1 \in 0..n
      BY <1>1
    <3>2. v[k - 1] \in Int
      BY <2>1, <3>1
    <3>3. F[k] = [x \in Int |-> 10 * x + (ds[k] - ZERO)]
      BY DEF Shifts
    <3> HIDE DEF F
    <3>4. v[k] = F[k][v[k - 1]]
      BY <2>1
    <3> QED
      BY <3>2, <3>3, <3>4
  <2> QED
    BY <2>1, <2>2 DEF Counts
<1>5. Is(v)
  <2>1. \A k \in 0..n : v[k] = IF k = 0 THEN 0 ELSE 10 * v[k - 1] + (ds[k] - ZERO)
    BY <1>1, <1>4 DEF Counts
  <2> QED
    BY <1>4, <2>1
<1> DEFINE w == CHOOSE u : Is(u)
<1>6. Is(w)
  <2> HIDE DEF Is
  <2> QED
    BY <1>5
<1>7. Natural(ds) = w[n]
  BY DEF Natural
<1> HIDE DEF w
<1>8. Counts(w, ds, n)
  BY <1>1, <1>6 DEF Counts
<1>9. w[n] = v[n]
  <2>1. \A k \in 0..n : w[k] = v[k]
    <3>1. Agree(ds, ds, n)
      BY DEF Agree
    <3> HIDE DEF n
    <3> QED
      BY <1>1, <1>4, <1>8, <3>1, CountsOnce
  <2> QED
    BY <1>1, <2>1
<1> QED
  BY <1>4, <1>7, <1>9

\* The number of one more digit.
LEMMA NaturalAppend ==
    ASSUME NEW s \in Seq(Int), NEW c \in Int
    PROVE  /\ Natural(s) \in Int /\ Natural(Append(s, c)) \in Int
           /\ Natural(Append(s, c)) = 10 * Natural(s) + (c - ZERO)
<1> DEFINE n == Len(s)
           t == Append(s, c)
<1>1. n \in Nat
  BY LenProperties
<1>2. /\ t \in Seq(Int) /\ Len(t) = n + 1 /\ t[n + 1] = c
      /\ \A k \in 1..n : t[k] = s[k]
  BY AppendProperties
<1>3. PICK v \in [0..n -> Int] : Counts(v, s, n) /\ Natural(s) = v[n]
  BY NaturalIs
<1> HIDE DEF t
<1>4. PICK w \in [0..(n + 1) -> Int] : Counts(w, t, n + 1) /\ Natural(t) = w[n + 1]
  BY <1>2, NaturalIs
<1> HIDE DEF n
<1>5. Counts(w, t, n)
  <2>1. \A k \in 1..n : k \in 1..(n + 1)
    BY <1>1
  <2> QED
    BY <1>4, <2>1 DEF Counts
<1>6. w[n] = v[n]
  <2>1. Agree(t, s, n)
    BY <1>2 DEF Agree
  <2>2. \A k \in 0..n : w[k] = v[k]
    BY SMTT(30), <1>1, <1>3, <1>5, <2>1, CountsOnce
  <2> QED
    BY <1>1, <2>2
<1>7. w[n + 1] = 10 * w[n] + (c - ZERO)
  <2> DEFINE m == n + 1
  <2>1. m \in 1..m /\ m - 1 = n
    BY <1>1
  <2>2. Counts(w, t, m) /\ t[m] = c
    BY <1>2, <1>4
  <2> HIDE DEF m
  <2>3. w[m] = 10 * w[m - 1] + (t[m] - ZERO)
    BY <2>1, <2>2 DEF Counts
  <2>4. w[m] = 10 * w[n] + (c - ZERO)
    BY <2>1, <2>2, <2>3
  <2> QED
    BY <2>4 DEF m
<1>8. v[n] \in Int /\ w[n + 1] \in Int
  BY <1>1
<1> QED
  BY <1>3, <1>4, <1>6, <1>7, <1>8 DEF t

\* The number of one digit.
LEMMA NaturalOne ==
    ASSUME NEW c \in Int
    PROVE  Natural(<<c>>) = c - ZERO
<1> DEFINE t == <<c>>
<1>1. t \in Seq(Int) /\ Len(t) = 1 /\ t[1] = c
  OBVIOUS
<1> HIDE DEF t
<1>2. PICK v \in [0..1 -> Int] : Counts(v, t, 1) /\ Natural(t) = v[1]
  BY <1>1, NaturalIs
<1>3. v[0] = 0 /\ v[1] = 10 * v[1 - 1] + (t[1] - ZERO)
  BY <1>2 DEF Counts
<1>4. v[1] = 10 * 0 + (c - ZERO)
  BY <1>1, <1>3
<1> QED
  BY <1>2, <1>4 DEF t, ZERO
-----------------------------------------------------------------------------
(* The text of a number of any size.                                       *)

\* The texts of the numbers up to m: the last digit behind the text of the others.
NumberTexts(g, m) ==
    \A k \in 0..m : g[k] = IF k < 10 THEN <<ZERO + k>> ELSE Append(g[k \div 10], ZERO + (k % 10))

LEMMA TextsExist ==
    ASSUME NEW n \in Nat
    PROVE  \E g \in [0..n -> Seq(Int)] : NumberTexts(g, n)
<1> DEFINE P == {m \in Nat : \E g \in [0..m -> Seq(Int)] : NumberTexts(g, m)}
<1>1. 0 \in P
  <2> DEFINE g == [k \in 0..0 |-> <<ZERO>>]
  <2>1. g \in [0..0 -> Seq(Int)]
    BY DEF ZERO
  <2>2. NumberTexts(g, 0)
    <3>1. ZERO + 0 = ZERO /\ g[0] = <<ZERO>>
      BY DEF ZERO
    <3>2. \A k \in 0..0 : k = 0
      OBVIOUS
    <3> QED
      BY <3>1, <3>2 DEF NumberTexts
  <2> QED
    BY <2>1, <2>2
<1>2. ASSUME NEW m \in Nat, m \in P PROVE m + 1 \in P
  <2>1. PICK g \in [0..m -> Seq(Int)] : NumberTexts(g, m)
    BY <1>2
  <2> DEFINE q == (m + 1) \div 10
             new == IF m + 1 < 10 THEN <<ZERO + (m + 1)>> ELSE Append(g[q], ZERO + ((m + 1) % 10))
             h == [k \in 0..(m + 1) |-> IF k <= m THEN g[k] ELSE new]
  <2>2. q \in 0..m /\ (m + 1) % 10 \in Int /\ ~(m + 1 <= m) /\ m + 1 \in 0..(m + 1)
    OBVIOUS
  <2>3. new \in Seq(Int)
    <3> DEFINE r == (m + 1) % 10
    <3> HIDE DEF q, r
    <3>1. g[q] \in Seq(Int) /\ ZERO + r \in Int /\ ZERO + (m + 1) \in Int
      BY <2>2 DEF ZERO, r
    <3>2. Append(g[q], ZERO + r) \in Seq(Int)
      BY <3>1, AppendProperties
    <3>3. <<ZERO + (m + 1)>> \in Seq(Int)
      BY <3>1
    <3> QED
      BY <3>2, <3>3 DEF r
  <2> HIDE DEF new
  <2>4. h \in [0..(m + 1) -> Seq(Int)]
    BY <2>3
  <2>5. h[m + 1] = new /\ \A k \in 0..m : h[k] = g[k]
    BY <2>2
  <2> HIDE DEF h
  <2>6. NumberTexts(h, m + 1)
    <3> SUFFICES ASSUME NEW k \in 0..(m + 1)
                 PROVE  h[k] = IF k < 10 THEN <<ZERO + k>> ELSE Append(h[k \div 10], ZERO + (k % 10))
      BY DEF NumberTexts
    <3>1. CASE k <= m
      <4>1. k \in 0..m /\ k \div 10 \in 0..m
        BY <3>1
      <4>2. g[k] = IF k < 10 THEN <<ZERO + k>> ELSE Append(g[k \div 10], ZERO + (k % 10))
        BY <2>1, <4>1 DEF NumberTexts
      <4>3. h[k] = g[k] /\ h[k \div 10] = g[k \div 10]
        BY <2>5, <4>1
      <4> QED
        BY <4>2, <4>3
    <3>2. CASE k = m + 1
      <4>1. h[q] = g[q]
        BY <2>2, <2>5
      <4> QED
        BY <2>5, <3>2, <4>1 DEF new
    <3> QED
      BY <3>1, <3>2
  <2> QED
    BY <2>4, <2>6
<1>3. n \in P
  <2> HIDE DEF P
  <2> QED
    BY <1>1, <1>2, InductionInSet
<1> QED
  BY <1>3

\* A text is the number's: digits, without a zero in front of others.
Spells(t, m) ==
    /\ t \in Seq(Int) /\ Len(t) \in Nat \ {0} /\ \A k \in 1..Len(t) : t[k] \in Digits
    /\ Natural(t) = m
    /\ t[1] = ZERO => m = 0 /\ Len(t) = 1

LEMMA OneDigitSpells ==
    ASSUME NEW m \in 0..9
    PROVE  Spells(<<ZERO + m>>, m)
<1> DEFINE c == ZERO + m
           t == <<c>>
<1>1. c \in Int /\ c \in Digits /\ c - ZERO = m /\ (c = ZERO => m = 0)
  BY DEF ZERO, Digits
<1> HIDE DEF c
<1>2. t \in Seq(Int) /\ Len(t) = 1 /\ t[1] = c
  BY <1>1
<1>3. Natural(t) = m
  BY <1>1, NaturalOne
<1> HIDE DEF t
<1>4. \A k \in 1..Len(t) : k = 1
  BY <1>2
<1>5. Spells(t, m)
  BY <1>1, <1>2, <1>3, <1>4 DEF Spells
<1> QED
  BY <1>5 DEF t, c

LEMMA MoreDigitsSpell ==
    ASSUME NEW m \in Nat, m >= 10, NEW s, Spells(s, m \div 10)
    PROVE  Spells(Append(s, ZERO + (m % 10)), m)
<1> DEFINE q == m \div 10
           r == m % 10
           c == ZERO + r
           t == Append(s, c)
<1>1. m = 10 * q + r /\ q \in Nat \ {0} /\ r \in 0..9
  OBVIOUS
<1> HIDE DEF q, r
<1>2. c \in Int /\ c \in Digits /\ c - ZERO = r
  BY <1>1 DEF ZERO, Digits
<1> HIDE DEF c
<1>3. /\ s \in Seq(Int) /\ Len(s) \in Nat \ {0} /\ \A k \in 1..Len(s) : s[k] \in Digits
      /\ Natural(s) = q /\ s[1] # ZERO
  BY <1>1 DEF Spells, q
<1>4. /\ t \in Seq(Int) /\ Len(t) = Len(s) + 1 /\ t[Len(s) + 1] = c
      /\ \A k \in 1..Len(s) : t[k] = s[k]
  BY <1>2, <1>3, AppendProperties
<1>5. Natural(t) = 10 * q + r
  BY <1>2, <1>3, NaturalAppend
<1> HIDE DEF t
<1>6. \A k \in 1..Len(t) : t[k] \in Digits
  BY SMTT(30), <1>2, <1>3, <1>4
<1>7. t[1] # ZERO
  BY <1>3, <1>4
<1>8. Spells(t, m)
  BY <1>1, <1>3, <1>4, <1>5, <1>6, <1>7 DEF Spells
<1> QED
  BY <1>8 DEF t, c, r

LEMMA NaturalTextSpells ==
    ASSUME NEW n \in Nat
    PROVE  Spells(NaturalText(n), n)
<1> DEFINE Is(g) == g = [m \in 0..n |-> IF m < 10 THEN <<ZERO + m>>
                                        ELSE Append(g[m \div 10], ZERO + (m % 10))]
           w == CHOOSE g : Is(g)
<1>1. PICK g \in [0..n -> Seq(Int)] : NumberTexts(g, n)
  BY TextsExist
<1>2. Is(g)
  BY <1>1 DEF NumberTexts
<1>3. Is(w)
  <2> HIDE DEF Is
  <2> QED
    BY <1>2
<1>4. NaturalText(n) = w[n]
  BY DEF NaturalText
<1> HIDE DEF w
<1>5. NumberTexts(w, n)
  BY <1>3 DEF NumberTexts
<1> HIDE DEF Is
<1> DEFINE P == {m \in Nat : m <= n => Spells(w[m], m)}
<1>6. ASSUME NEW m \in Nat, \A k \in Nat : k < m => k \in P PROVE m \in P
  <2> SUFFICES ASSUME m <= n PROVE Spells(w[m], m)
    OBVIOUS
  <2>1. m \in 0..n
    OBVIOUS
  <2>2. w[m] = IF m < 10 THEN <<ZERO + m>> ELSE Append(w[m \div 10], ZERO + (m % 10))
    BY <1>5, <2>1 DEF NumberTexts
  <2>3. CASE m < 10
    <3>1. m \in 0..9 /\ w[m] = <<ZERO + m>>
      BY <2>2, <2>3
    <3> QED
      BY <3>1, OneDigitSpells
  <2>4. CASE m >= 10
    <3>1. m \div 10 \in Nat /\ m \div 10 < m /\ m \div 10 <= n
      BY <2>4
    <3>2. Spells(w[m \div 10], m \div 10)
      BY <1>6, <3>1
    <3>3. w[m] = Append(w[m \div 10], ZERO + (m % 10))
      BY <2>2, <2>4
    <3> QED
      BY <2>4, <3>2, <3>3, MoreDigitsSpell
  <2> QED
    BY <2>3, <2>4
<1>7. n \in P
  <2> HIDE DEF P
  <2> QED
    BY <1>6, StrongInductionInSet
<1> QED
  BY <1>4, <1>7
-----------------------------------------------------------------------------
(* The loop of parseInt64, for a word of any width.                        *)

\* The word after the digits of v, -1 when v is too large for it.
Capped(v) == IF v <= MaxUint THEN v ELSE -1

\* The test before a turn is exact: the word overflows when the number does.
LEMMA AccumulateExact ==
    ASSUME NEW v \in Nat, NEW c \in Digits
    PROVE  /\ 10 * v + (c - ZERO) \in Nat
           /\ Accumulate(Capped(v), c) = Capped(10 * v + (c - ZERO))
<1> DEFINE d == c - ZERO
           M == MaxUint
           q == (M - d) \div 10
           y == 10 * v + d
<1>1. M \in Nat /\ M >= 1
  BY CutoffAssumption DEF MaxUint
<1>2. d \in 0..9
  BY DEF ZERO, Digits
<1> HIDE DEF M, d
<1>3. q \in Int /\ 10 * q <= M - d /\ M - d < 10 * q + 10
  BY <1>1, <1>2
<1> HIDE DEF q
<1>4. y \in Nat /\ (v > q => y > M) /\ (v <= q => y <= M) /\ (v > M => y > M)
  BY <1>1, <1>2, <1>3
<1>5. Accumulate(Capped(v), c) = IF Capped(v) = -1 \/ Capped(v) > q THEN -1 ELSE 10 * Capped(v) + d
  BY DEF Accumulate, M, d, q
<1>6. Capped(v) = (IF v <= M THEN v ELSE -1) /\ Capped(y) = (IF y <= M THEN y ELSE -1)
  BY DEF Capped, M
<1> HIDE DEF y
<1>7. CASE v > M
  <2>1. Capped(v) = -1 /\ Capped(y) = -1
    BY <1>1, <1>4, <1>6, <1>7
  <2> QED
    BY <1>4, <1>5, <2>1 DEF y, d
<1>8. CASE v <= M /\ v > q
  <2>1. Capped(v) = v /\ Capped(y) = -1
    BY <1>1, <1>4, <1>6, <1>8
  <2> QED
    BY <1>4, <1>5, <1>8, <2>1 DEF y, d
<1>9. CASE v <= M /\ v <= q
  <2>1. Capped(v) = v /\ Capped(y) = y /\ v # -1 /\ ~(v > q)
    BY <1>1, <1>3, <1>4, <1>6, <1>9
  <2>2. Accumulate(Capped(v), c) = 10 * v + d
    BY <1>5, <2>1
  <2> QED
    BY <1>4, <2>1, <2>2 DEF y, d
<1> QED
  <2>1. v > M \/ (v <= M /\ v > q) \/ (v <= M /\ v <= q)
    BY <1>1, <1>3
  <2> QED
    BY <1>7, <1>8, <1>9, <2>1, Zenon

LEMMA WordOfIs ==
    ASSUME NEW ds \in Seq(Int), \A k \in 1..Len(ds) : ds[k] \in Digits
    PROVE  Natural(ds) \in Nat /\ WordOf(ds) = Capped(Natural(ds))
<1> DEFINE n == Len(ds)
           Is(g) == g = [k \in 0..n |-> IF k = 0 THEN 0 ELSE Accumulate(g[k - 1], ds[k])]
           w == CHOOSE g : Is(g)
<1>1. n \in Nat
  BY LenProperties
<1>2. PICK v \in [0..n -> Int] : Counts(v, ds, n) /\ Natural(ds) = v[n]
  BY NaturalIs
<1> DEFINE u == [k \in 0..n |-> Capped(v[k])]
<1>3. \A k \in 0..n : v[k] \in Nat
  <2> DEFINE P == {k \in Nat : k <= n => v[k] \in Nat}
  <2>1. 0 \in P
    BY <1>2 DEF Counts
  <2>2. ASSUME NEW k \in Nat, k \in P PROVE k + 1 \in P
    <3> SUFFICES ASSUME k + 1 <= n PROVE v[k + 1] \in Nat
      OBVIOUS
    <3>1. k + 1 \in 1..n /\ k + 1 - 1 = k /\ v[k] \in Nat
      BY <1>1, <2>2
    <3>2. v[k + 1] = 10 * v[k] + (ds[k + 1] - ZERO)
      BY <1>2, <3>1 DEF Counts
    <3> QED
      BY <3>1, <3>2, AccumulateExact
  <2>3. \A k \in Nat : k \in P
    <3> HIDE DEF P
    <3> QED
      BY <2>1, <2>2, InductionInSet
  <2> QED
    BY <1>1, <2>3
<1>4. u[0] = 0 /\ \A k \in 1..n : u[k] = Accumulate(u[k - 1], ds[k])
  <2>1. u[0] = 0
    <3>1. v[0] = 0 /\ 0 \in 0..n
      BY <1>1, <1>2 DEF Counts
    <3>2. Capped(0) = 0
      BY CutoffAssumption DEF Capped, MaxUint
    <3> QED
      BY <3>1, <3>2
  <2>2. ASSUME NEW k \in 1..n PROVE u[k] = Accumulate(u[k - 1], ds[k])
    <3>1. k \in 0..n /\ k - 1 \in 0..n
      BY <1>1
    <3>2. u[k] = Capped(v[k]) /\ u[k - 1] = Capped(v[k - 1])
      BY <3>1
    <3>3. v[k] = 10 * v[k - 1] + (ds[k] - ZERO) /\ v[k - 1] \in Nat /\ ds[k] \in Digits
      BY <1>2, <1>3, <3>1 DEF Counts
    <3> HIDE DEF u
    <3> QED
      BY <3>2, <3>3, AccumulateExact
  <2> QED
    BY <2>1, <2>2
<1>5. Is(u)
  <2>1. \A k \in 0..n : u[k] = IF k = 0 THEN 0 ELSE Accumulate(u[k - 1], ds[k])
    <3> HIDE DEF u
    <3> QED
      BY <1>1, <1>4
  <2> QED
    BY <2>1
<1>6. Is(w)
  <2> HIDE DEF Is, u
  <2> QED
    BY <1>5
<1>7. WordOf(ds) = w[n]
  BY DEF WordOf
<1> HIDE DEF w
<1>8. w[0] = 0 /\ \A k \in 1..n : w[k] = Accumulate(w[k - 1], ds[k])
  BY <1>1, <1>6
<1>9. u[n] = Capped(v[n]) /\ n \in 0..n
  BY <1>1
<1> HIDE DEF u, Is
<1>10. w[n] = u[n]
  <2> DEFINE P == {k \in Nat : k <= n => w[k] = u[k]}
  <2>1. 0 \in P
    BY <1>4, <1>8
  <2>2. ASSUME NEW k \in Nat, k \in P PROVE k + 1 \in P
    <3> SUFFICES ASSUME k + 1 <= n PROVE w[k + 1] = u[k + 1]
      OBVIOUS
    <3>1. k + 1 \in 1..n /\ k + 1 - 1 = k /\ w[k] = u[k]
      BY <1>1, <2>2
    <3> DEFINE m == k + 1
    <3> HIDE DEF m
    <3>2. m \in 1..n /\ m - 1 = k
      BY <3>1 DEF m
    <3>3. w[m] = Accumulate(w[k], ds[m]) /\ u[m] = Accumulate(u[k], ds[m])
      BY <1>4, <1>8, <3>2
    <3>4. w[m] = u[m]
      BY <3>1, <3>3
    <3> QED
      BY <3>4 DEF m
  <2>3. \A k \in Nat : k \in P
    <3> HIDE DEF P
    <3> QED
      BY <2>1, <2>2, InductionInSet
  <2> QED
    BY <1>1, <2>3
<1> QED
  BY <1>2, <1>3, <1>7, <1>9, <1>10

\* What an integer's text reads as: it, as an int64 where that can hold it.
Exact(n) == IF n \in (-Cutoff)..(Cutoff - 1) THEN Integer(n) ELSE Big(n)

LEMMA PositiveRead ==
    ASSUME NEW m \in Nat, NEW t, Spells(t, m)
    PROVE  IntegerOf(t) = Exact(m)
<1>1. /\ t \in Seq(Int) /\ Len(t) \in Nat \ {0} /\ \A k \in 1..Len(t) : t[k] \in Digits
      /\ Natural(t) = m
  BY DEF Spells
<1>2. t[1] # MINUS
  <2>1. 1 \in 1..Len(t)
    BY <1>1
  <2> QED
    BY <1>1, <2>1, KindsApart
<1>3. WordOf(t) = Capped(m)
  BY <1>1, WordOfIs
<1>4. IntegerOf(t) = IF Capped(m) # -1 /\ Capped(m) < Cutoff THEN Integer(Capped(m)) ELSE Big(m)
  BY <1>1, <1>2, <1>3 DEF IntegerOf, FitsInt64
<1>5. Capped(m) = IF m <= 2 * Cutoff - 1 THEN m ELSE -1
  BY DEF Capped, MaxUint
<1>6. Cutoff \in Nat \ {0}
  BY CutoffAssumption
<1>7. CASE m < Cutoff
  <2>1. Capped(m) = m /\ m # -1
    BY <1>5, <1>6, <1>7
  <2>2. m \in (-Cutoff)..(Cutoff - 1)
    BY <1>6, <1>7
  <2> QED
    BY <1>4, <1>7, <2>1, <2>2 DEF Exact
<1>8. CASE m >= Cutoff
  <2>1. Capped(m) = -1 \/ ~(Capped(m) < Cutoff)
    BY <1>5, <1>6, <1>8
  <2>2. m \notin (-Cutoff)..(Cutoff - 1)
    BY <1>6, <1>8
  <2> QED
    BY <1>4, <2>1, <2>2 DEF Exact
<1> QED
  BY <1>6, <1>7, <1>8

LEMMA NegativeRead ==
    ASSUME NEW m \in Nat \ {0}, NEW t, NEW s, Spells(s, m), t[1] = MINUS, Tail(t) = s
    PROVE  IntegerOf(t) = Exact(-m)
<1>1. /\ s \in Seq(Int) /\ \A k \in 1..Len(s) : s[k] \in Digits
      /\ Natural(s) = m
  BY DEF Spells
<1>2. WordOf(s) = Capped(m)
  BY <1>1, WordOfIs
<1> DEFINE c == Cutoff
           u == Capped(m)
<1>3. IntegerOf(t) = IF u # -1 /\ u <= c
                     THEN Integer(AsSigned((MaxUint + 1 - u) % (MaxUint + 1))) ELSE Big(-m)
  BY <1>1, <1>2 DEF IntegerOf, FitsInt64
<1>4. u = (IF m <= 2 * c - 1 THEN m ELSE -1) /\ MaxUint + 1 = 2 * c /\ c \in Nat \ {0}
  BY CutoffAssumption DEF Capped, MaxUint
<1>5. \A x : AsSigned(x) = IF x >= c THEN x - 2 * c ELSE x
  BY DEF AsSigned
<1>6. Exact(-m) = IF -m \in (-c)..(c - 1) THEN Integer(-m) ELSE Big(-m)
  BY DEF Exact
<1> HIDE DEF c, u
<1>7. CASE m <= c
  <2>1. u = m /\ u # -1 /\ u <= c
    BY <1>4, <1>7
  <2>2. (2 * c - m) % (2 * c) = 2 * c - m
    BY <1>4, <1>7
  <2>3. 2 * c - m >= c /\ 2 * c - m - 2 * c = -m /\ -m \in (-c)..(c - 1)
    BY <1>4, <1>7
  <2>4. AsSigned(2 * c - m) = -m
    BY <1>5, <2>3
  <2>5. MaxUint + 1 - m = 2 * c - m
    BY <1>4 DEF MaxUint, c
  <2>6. IntegerOf(t) = Integer(AsSigned((2 * c - m) % (2 * c)))
    BY <1>3, <1>4, <2>1, <2>5
  <2>7. IntegerOf(t) = Integer(-m)
    BY <2>2, <2>4, <2>6
  <2> QED
    BY <1>6, <2>3, <2>7
<1>8. CASE m > c
  <2>1. u = -1 \/ ~(u <= c)
    BY <1>4, <1>8
  <2>2. -m \notin (-c)..(c - 1)
    BY <1>4, <1>8
  <2> QED
    BY <1>3, <1>6, <2>1, <2>2
<1> QED
  BY <1>4, <1>7, <1>8
-----------------------------------------------------------------------------
(* What is written is a number.                                            *)

LEMMA InSeq ==
    ASSUME NEW T, NEW S, NEW s \in Seq(T), \A k \in 1..Len(s) : s[k] \in S
    PROVE  s \in Seq(S)
<1>1. Len(s) \in Nat /\ DOMAIN s = 1..Len(s)
  BY LenProperties
<1>2. Range(s) \subseteq S
  BY <1>1 DEF Range
<1>3. s \in Seq(Range(s))
  BY SeqOfRange
<1> QED
  BY <1>2, <1>3, SeqMonotonic

\* A text with a byte put in front.
LEMMA InFront ==
    ASSUME NEW S, NEW c \in S, NEW s \in Seq(S)
    PROVE  LET t == <<c>> \o s
           IN  /\ t \in Seq(S) /\ Len(t) = Len(s) + 1 /\ t[1] = c /\ Tail(t) = s
               /\ \A k \in 1..Len(s) : t[k + 1] = s[k]
<1> DEFINE x == <<c>>
<1>1. x \in Seq(S) /\ Len(x) = 1 /\ x[1] = c
  OBVIOUS
<1> HIDE DEF x
<1>2. /\ x \o s \in Seq(S) /\ Len(x \o s) = Len(x) + Len(s)
      /\ \A i \in 1..Len(x) : (x \o s)[i] = x[i]
      /\ \A i \in 1..Len(s) : (x \o s)[Len(x) + i] = s[i]
  <2>1. x \in Seq(S) /\ s \in Seq(S)
    BY <1>1
  <2> QED
    BY <2>1, ConcatParts
<1> DEFINE t == x \o s
<1>3. Len(s) \in Nat
  BY LenProperties
<1>4. /\ t \in Seq(S) /\ Len(t) = Len(s) + 1 /\ t[1] = c
      /\ \A i \in 1..Len(s) : t[i + 1] = s[i]
  BY <1>1, <1>2, <1>3
<1> HIDE DEF t
<1>5. t # <<>>
  BY <1>3, <1>4, EmptySeq
<1>6. Tail(t) \in Seq(S) /\ Len(Tail(t)) = Len(t) - 1 /\ \A i \in 1..Len(Tail(t)) : Tail(t)[i] = t[i + 1]
  BY <1>4, <1>5, HeadTailProperties
<1>7. Len(Tail(t)) = Len(s) /\ \A i \in 1..Len(s) : Tail(t)[i] = s[i]
  BY <1>3, <1>4, <1>6
<1>8. Tail(t) = s
  BY <1>6, <1>7, SeqEqual
<1> QED
  BY <1>4, <1>8 DEF t, x

\* A text of digits behind at most one sign.
Whole(t) ==
    /\ t \in Seq(Byte) /\ First(t) <= Len(t) /\ Run(t, First(t), Len(t))
    /\ NoLeadingZero(t)

LEMMA IntTextRead ==
    ASSUME NEW n \in Int
    PROVE  Whole(IntText(n)) /\ IntegerOf(IntText(n)) = Exact(n)
<1> DEFINE m == IF n < 0 THEN -n ELSE n
           s == NaturalText(m)
           S == Byte
<1>1. m \in Nat /\ (n < 0 => m \in Nat \ {0} /\ n = -m)
  OBVIOUS
<1> HIDE DEF m
<1>2. Spells(s, m)
  BY <1>1, NaturalTextSpells
<1> HIDE DEF s
<1>3. /\ s \in Seq(Int) /\ Len(s) \in Nat \ {0} /\ \A k \in 1..Len(s) : s[k] \in Digits
      /\ s[1] = ZERO => Len(s) = 1
  BY <1>2 DEF Spells
<1>4. \A k \in 1..Len(s) : s[k] \in S
  BY <1>3 DEF Digits, Byte
<1>5. MINUS \in S
  BY DEF MINUS, Byte
<1> HIDE DEF S
<1>6. s \in Seq(S)
  BY <1>3, <1>4, InSeq
<1>7. CASE n >= 0
  <2>1. IntText(n) = s
    BY <1>7 DEF IntText, s, m
  <2>2. s[1] # MINUS
    <3>1. 1 \in 1..Len(s)
      BY <1>3
    <3> QED
      BY <1>3, <3>1, KindsApart
  <2>3. First(s) = 1
    BY <2>2 DEF First
  <2>4. Run(s, 1, Len(s))
    BY <1>3 DEF Run
  <2>5. NoLeadingZero(s)
    <3>1. ~(s[1] = ZERO /\ 1 < Len(s))
      BY <1>3
    <3> QED
      BY <2>3, <3>1 DEF NoLeadingZero
  <2>6. IntegerOf(s) = Exact(n)
    <3>1. m = n
      BY <1>7 DEF m
    <3> QED
      BY <1>1, <1>2, <3>1, PositiveRead
  <2> QED
    BY <1>3, <1>6, <2>1, <2>3, <2>4, <2>5, <2>6 DEF Whole, S
<1>8. CASE n < 0
  <2> DEFINE t == <<MINUS>> \o s
  <2>1. IntText(n) = t
    BY <1>8 DEF IntText, s, m
  <2>2. /\ t \in Seq(S) /\ Len(t) = Len(s) + 1 /\ t[1] = MINUS /\ Tail(t) = s
        /\ \A k \in 1..Len(s) : t[k + 1] = s[k]
    BY <1>5, <1>6, InFront
  <2> HIDE DEF t
  <2>3. First(t) = 2
    BY <2>2 DEF First
  <2>4. Run(t, 2, Len(t))
    <3>1. \A k \in 2..Len(t) : k - 1 \in 1..Len(s) /\ k - 1 + 1 = k
      BY <1>3, <2>2
    <3> QED
      BY <1>3, <2>2, <3>1 DEF Run
  <2>5. NoLeadingZero(t)
    <3>1. t[2] = s[1]
      BY <1>3, <2>2
    <3> QED
      BY <1>3, <2>2, <2>3, <3>1 DEF NoLeadingZero
  <2>6. IntegerOf(t) = Exact(n)
    BY <1>1, <1>2, <1>8, <2>2, NegativeRead
  <2>7. 2 <= Len(t)
    BY <1>3, <2>2
  <2> QED
    BY <2>1, <2>2, <2>3, <2>4, <2>5, <2>6, <2>7 DEF Whole, S
<1> QED
  BY <1>7, <1>8

LEMMA WholeIsScalar ==
    ASSUME NEW t, Whole(t)
    PROVE  /\ Scalar(t) /\ t[1] \in Digits \cup {MINUS, 73, 78}
           /\ NumberOf(t) = IntegerOf(t)
<1> DEFINE n == Len(t)
           b == First(t)
<1>1. t \in Seq(Byte) /\ n \in Nat /\ b \in {1, 2} /\ (b = 2 <=> t[1] = MINUS)
      /\ b <= n /\ Run(t, b, n) /\ NoLeadingZero(t)
  BY LenProperties, FirstIs DEF Whole
<1> HIDE DEF n, b
<1>2. n \in 1..n /\ b \in b..n /\ n \in b..n
  BY <1>1
<1>3. Grammar(t, n, n)
  BY <1>1, <1>2 DEF Grammar, IntPart, FracPart, ExpPart, n, b
<1>4. Scalar(t)
  <2>1. JsonNumber(t)
    BY <1>1, <1>2, <1>3, JsonGrammar DEF n
  <2> QED
    BY <2>1 DEF Scalar
<1>5. t[b] \in Digits
  BY <1>1, <1>2 DEF Run
<1>6. t[1] \in Digits \cup {MINUS}
  BY <1>1, <1>5
<1>7. Lower(SubSeq(t, b, n)) \notin {NAN, INF, INFINITY}
  BY <1>1, <1>5, NoWord DEF b, n
<1> QED
  BY <1>1, <1>4, <1>6, <1>7 DEF NumberOf, b, n

\* A text that is a scalar begins neither a string nor a container, and is one with
\* no blanks around it.
LEMMA LoneScalar ==
    ASSUME NEW t \in Seq(Byte), Scalar(t)
    PROVE  Reads(t) /\ ~Opens(t, Brackets \cup {QUOTE})
<1> DEFINE n == Len(t)
<1>1. n \in Nat /\ DOMAIN t = 1..n /\ t # <<>> /\ t[1] \in ScalarByte
  BY ScalarIs, ScalarBegins, ScalarBytes, LenProperties
<1>2. 1 \in 1..n /\ n \in 1..n /\ n + 1 \in Int
  BY <1>1, EmptySeq
<1>3. Blank(t, 1, 1) /\ Blank(t, n + 1, n + 1) /\ SubSeq(t, 1, n) = t
  BY <1>2, NothingIsBlank, SubSeqFull
<1>4. Reads(t)
  BY <1>1, <1>2, <1>3 DEF Reads
<1>5. \A a : Blank(t, 1, a) => a = 1
  BY <1>1, NoItem, Stuck
<1>6. ~Opens(t, Brackets \cup {QUOTE})
  BY <1>1, <1>5, ScalarBytes DEF Opens
<1> QED
  BY <1>4, <1>6

\* A number's text that is a scalar and begins like a number is read, as what it says.
LEMMA NumberRead ==
    ASSUME input \in [number : Numbers], LanguageInv, ValueInv, Finished,
           NEW t, t = NumberText(input.number), t \in Seq(Byte), Scalar(t),
           t[1] \in Digits \cup {MINUS, 73, 78}
    PROVE  Accepted /\ result = NumberOf(t)
<1>1. DOMAIN input = {"number"}
  OBVIOUS
<1>2. ~IsA("write", input) /\ ~IsA("read", input) /\ IsA("number", input)
  BY <1>1 DEF IsA
<1>3. Given(input) = t
  BY <1>2 DEF Given
<1>4. Unquoted
  BY <1>2, <1>3, LoneScalar DEF Unquoted
<1>5. TextInv
  BY <1>4 DEF LanguageInv
<1>6. text = t
  BY <1>3, <1>5 DEF TextInv
<1>7. Accepted
  BY <1>5, <1>6, FinishedText, LoneScalar
<1>8. result = NumberOf(text)
  BY <1>4, <1>6, <1>7 DEF ValueInv, Lone, Told, Accepted
<1> QED
  BY <1>6, <1>7, <1>8

\* An input that says it is a number is one.
LEMMA NumberInput ==
    ASSUME input \in Inputs, IsA("number", input)
    PROVE  input \in [number : Numbers]
<1>1. input \in [write : Strings] \cup [read : Literals, cut : 0..MaxCut]
                    \cup [number : Numbers] \cup [token : Tokens]
  BY DEF Inputs
<1>2. "number" \in DOMAIN input
  BY DEF IsA
<1>3. /\ input \in [write : Strings] => DOMAIN input = {"write"}
      /\ input \in [read : Literals, cut : 0..MaxCut] => DOMAIN input = {"read", "cut"}
      /\ input \in [token : Tokens] => DOMAIN input = {"token"}
  OBVIOUS
<1> QED
  BY <1>1, <1>2, <1>3

LEMMA ValueInvExact == input \in Inputs /\ LanguageInv /\ ValueInv => IntegerExact
<1> DEFINE v == input.number
           n == IF IsA("int", v) THEN v.int ELSE v.big
<1> SUFFICES ASSUME input \in Inputs, LanguageInv, ValueInv, IsA("number", input), Finished,
                    IsA("int", v) \/ IsA("big", v)
             PROVE  Accepted /\ result = Exact(n)
  BY DEF IntegerExact, Exact
<1>1. input \in [number : Numbers] /\ v \in Numbers
  BY NumberInput
<1>2. v \in [int : Int] \cup [big : Int]
  <2>1. ~ShortestDecimal(v)
    BY DEF ShortestDecimal, IsA
  <2>2. v \notin {Special("NaN"), Special("Inf"), Special("-Inf")}
    BY DEF Special, IsA
  <2> QED
    BY <1>1, <2>1, <2>2, NumbersAssumption
<1>3. n \in Int /\ NumberText(v) = IntText(n)
  <2>1. CASE v \in [int : Int]
    BY <2>1 DEF IsA, NumberText
  <2>2. CASE v \in [big : Int]
    BY <2>2 DEF IsA, NumberText
  <2> QED
    BY <1>2, <2>1, <2>2
<1> HIDE DEF n
<1> DEFINE t == IntText(n)
<1>4. Whole(t) /\ IntegerOf(t) = Exact(n)
  BY <1>3, IntTextRead
<1>5. /\ Scalar(t) /\ t[1] \in Digits \cup {MINUS, 73, 78}
      /\ NumberOf(t) = IntegerOf(t) /\ t \in Seq(Byte)
  BY <1>4, WholeIsScalar DEF Whole
<1>6. t = NumberText(input.number)
  BY <1>3
<1> HIDE DEF t, v
<1>7. Accepted /\ result = NumberOf(t)
  BY <1>1, <1>5, <1>6, NumberRead
<1> QED
  BY <1>4, <1>5, <1>7

\* A whole number of any size, written by AppendInt or big.Int.Append and read again,
\* is the same number, and an int64 exactly when it fits one, whatever the width of
\* the machine word (parseInt64).
THEOREM IntegersExact == ScalarSpec => []IntegerExact
  BY InputStays, LanguageInvariance, ValueInvariance, ValueInvExact, PTL
-----------------------------------------------------------------------------
(* The decimal that a float's text spells.                                 *)

\* The exponent x, and no exponent.
LEMMA ExponentRead ==
    ASSUME NEW x \in Int
    PROVE  LET w == IntText(x)
               size == Natural(Unsigned(w))
           IN  /\ w # <<>> /\ w \in Seq(Byte) /\ IsDigits(Unsigned(w))
               /\ (IF w # <<>> /\ w[1] = MINUS THEN -size ELSE size) = x
<1> DEFINE m == IF x < 0 THEN -x ELSE x
           s == NaturalText(m)
           w == IntText(x)
           S == Byte
<1>1. m \in Nat /\ (x < 0 => x = -m) /\ (x >= 0 => x = m)
  OBVIOUS
<1> HIDE DEF m
<1>2. Spells(s, m)
  BY <1>1, NaturalTextSpells
<1> HIDE DEF s
<1>3. /\ s \in Seq(Int) /\ Len(s) \in Nat \ {0} /\ \A k \in 1..Len(s) : s[k] \in Digits
      /\ Natural(s) = m
  BY <1>2 DEF Spells
<1>4. MINUS \in S /\ \A k \in 1..Len(s) : s[k] \in S
  BY <1>3 DEF Digits, Byte, MINUS
<1> HIDE DEF S
<1>5. s \in Seq(S)
  BY <1>3, <1>4, InSeq
<1>6. IsDigits(s) /\ DOMAIN s = 1..Len(s) /\ s # <<>>
  <2>1. DOMAIN s = 1..Len(s) /\ s # <<>>
    BY <1>3, LenProperties, EmptySeq
  <2> QED
    BY <1>3, <2>1 DEF IsDigits, Range
<1>7. CASE x >= 0
  <2>1. w = s
    BY <1>7 DEF IntText, m, s
  <2>2. s[1] \notin {PLUS, MINUS} /\ Head(s) = s[1]
    <3>1. 1 \in 1..Len(s)
      BY <1>3
    <3> QED
      BY <1>3, <3>1, KindsApart
  <2>3. Unsigned(s) = s
    BY <2>2 DEF Unsigned
  <2> HIDE DEF w
  <2> QED
    BY <1>1, <1>3, <1>5, <1>6, <1>7, <2>1, <2>2, <2>3 DEF w, S
<1>8. CASE x < 0
  <2> DEFINE t == <<MINUS>> \o s
  <2>1. w = t
    BY <1>8 DEF IntText, m, s
  <2>2. t \in Seq(S) /\ Len(t) = Len(s) + 1 /\ t[1] = MINUS /\ Tail(t) = s
    BY <1>4, <1>5, InFront
  <2> HIDE DEF t, w
  <2>3. t # <<>>
    BY <1>3, <2>2, EmptySeq
  <2>4. Head(t) = MINUS
    BY <2>2
  <2>5. Unsigned(t) = s
    BY <2>2, <2>3, <2>4 DEF Unsigned
  <2> QED
    BY <1>1, <1>3, <1>6, <1>8, <2>1, <2>2, <2>3, <2>5 DEF w, S
<1> QED
  BY <1>7, <1>8

LEMMA NoExponent == Natural(Unsigned(<<>>)) = 0
<1>1. Unsigned(<<>>) = <<>>
  BY DEF Unsigned
<1> DEFINE t == <<>>
<1>2. t \in Seq(Int) /\ Len(t) = 0
  OBVIOUS
<1> HIDE DEF t
<1>3. PICK v \in [0..0 -> Int] : Counts(v, t, 0) /\ Natural(t) = v[0]
  BY <1>2, NaturalIs
<1> QED
  BY <1>1, <1>3 DEF Counts, t

\* Where the mantissa of s ends, and where its point is, or would be.
MantissaEnd(s, e) ==
    /\ e \in 1..(Len(s) + 1)
    /\ e <= Len(s) => s[e] \in Exponents
    /\ \A j \in 1..(e - 1) : s[j] \notin Exponents
PointAt(s, e, p) ==
    /\ p \in 1..e
    /\ p < e => s[p] = POINT
    /\ \A j \in 1..(p - 1) : s[j] # POINT

LEMMA OneEnd ==
    ASSUME NEW s \in Seq(Byte), NEW e, NEW h, MantissaEnd(s, e), MantissaEnd(s, h)
    PROVE  e = h
<1>1. Len(s) \in Nat
  BY LenProperties
<1>2. CASE e < h
  BY <1>1, <1>2 DEF MantissaEnd
<1>3. CASE h < e
  BY <1>1, <1>3 DEF MantissaEnd
<1> QED
  BY <1>1, <1>2, <1>3 DEF MantissaEnd

LEMMA OnePoint ==
    ASSUME NEW s, NEW e \in Nat, NEW p, NEW q, PointAt(s, e, p), PointAt(s, e, q)
    PROVE  p = q
<1>1. CASE p < q
  BY <1>1 DEF PointAt
<1>2. CASE q < p
  BY <1>2 DEF PointAt
<1> QED
  BY <1>1, <1>2 DEF PointAt

\* The decimal of s and a sign, by those positions.
Positioned(neg, s, e, p) ==
    LET w == SubSeq(s, e + 1, Len(s))
        size == Natural(Unsigned(w))
    IN  Decimal(neg, SubSeq(s, 1, p - 1) \o SubSeq(s, p + 1, e - 1),
                p - 1 + (IF w # <<>> /\ w[1] = MINUS THEN -size ELSE size))

\* The sign of t.
Sign(t, neg) == (t[1] = MINUS) = neg

\* s is t behind its sign.
BehindSign(t, s) == s \in Seq(Byte) /\ SubSeq(t, First(t), Len(t)) = s

LEMMA DecimalOfIs ==
    ASSUME NEW t, NEW s, BehindSign(t, s), NEW neg, Sign(t, neg),
           NEW e \in Nat, NEW p, MantissaEnd(s, e), PointAt(s, e, p)
    PROVE  DecimalOf(t) = Positioned(neg, s, e, p)
<1> DEFINE r == SubSeq(t, First(t), Len(t))
           E == CHOOSE i \in 1..(Len(r) + 1) :
                    /\ i <= Len(r) => r[i] \in Exponents
                    /\ \A j \in 1..(i - 1) : r[j] \notin Exponents
           Q == CHOOSE i \in 1..E :
                    /\ i < E => r[i] = POINT
                    /\ \A j \in 1..(i - 1) : r[j] # POINT
           x == SubSeq(r, E + 1, Len(r))
           size == Natural(Unsigned(x))
<1>1. DecimalOf(t) = Decimal(t[1] = MINUS, SubSeq(r, 1, Q - 1) \o SubSeq(r, Q + 1, E - 1),
                         Q - 1 + (IF x # <<>> /\ x[1] = MINUS THEN -size ELSE size))
  BY DEF DecimalOf
<1> HIDE DEF r
<1>2. r = s /\ s \in Seq(Byte) /\ (t[1] = MINUS) = neg
  BY DEF r, BehindSign, Sign
<1>3. E = e
  <2>1. \E i \in 1..(Len(r) + 1) :
                    /\ i <= Len(r) => r[i] \in Exponents
                    /\ \A j \in 1..(i - 1) : r[j] \notin Exponents
    BY <1>2 DEF MantissaEnd
  <2>2. MantissaEnd(r, E)
    BY <2>1 DEF MantissaEnd
  <2> HIDE DEF E
  <2> QED
    BY <1>2, <2>2, OneEnd
<1> HIDE DEF E
<1>4. Q = p
  <2>1. \E i \in 1..E :
                    /\ i < E => r[i] = POINT
                    /\ \A j \in 1..(i - 1) : r[j] # POINT
    BY <1>2, <1>3 DEF PointAt
  <2>2. PointAt(r, E, Q)
    BY <2>1 DEF PointAt
  <2> HIDE DEF Q
  <2> QED
    BY <1>2, <1>3, <2>2, OnePoint
<1> HIDE DEF Q
<1> QED
  BY <1>1, <1>2, <1>3, <1>4 DEF Positioned

\* Zeros around the digits change the place of the point only.
LEMMA ZerosStripped ==
    ASSUME NEW D \in Seq(Byte), NEW dig \in Seq(Byte), dig # <<>>, NEW a \in Nat, NEW kk \in Int,
           NEW neg, dig[1] # ZERO, dig[Len(dig)] # ZERO, a + Len(dig) <= Len(D),
           \A k \in 1..Len(D) : k \notin (a + 1)..(a + Len(dig)) => D[k] = ZERO,
           \A k \in 1..Len(dig) : D[a + k] = dig[k]
    PROVE  Decimal(neg, D, kk) = Float(neg, dig, kk - a)
<1> DEFINE n == Len(dig)
           nonzero == {i \in DOMAIN D : D[i] # ZERO}
           first == CHOOSE i \in nonzero : \A j \in nonzero : i <= j
           last  == CHOOSE i \in nonzero : \A j \in nonzero : j <= i
<1>1. n \in Nat \ {0} /\ Len(D) \in Nat /\ DOMAIN D = 1..Len(D)
  BY LenProperties, EmptySeq
<1>2. a + 1 \in nonzero /\ a + n \in nonzero
  BY <1>1
<1>3. \A j \in nonzero : j \in (a + 1)..(a + n)
  BY <1>1
<1> HIDE DEF nonzero, n
<1>4. first = a + 1
  <2>1. \A j \in nonzero : a + 1 <= j
    BY <1>1, <1>3
  <2>2. first \in nonzero /\ \A j \in nonzero : first <= j
    BY <1>2, <2>1
  <2> HIDE DEF first
  <2>3. first <= a + 1 /\ first \in (a + 1)..(a + n)
    BY <1>2, <1>3, <2>2
  <2> QED
    BY <1>1, <2>3
<1>5. last = a + n
  <2>1. \A j \in nonzero : j <= a + n
    BY <1>1, <1>3
  <2>2. last \in nonzero /\ \A j \in nonzero : j <= last
    BY <1>2, <2>1
  <2> HIDE DEF last
  <2>3. a + n <= last /\ last \in (a + 1)..(a + n)
    BY <1>2, <1>3, <2>2
  <2> QED
    BY <1>1, <2>3
<1>6. Decimal(neg, D, kk) = IF nonzero = {} THEN Float(neg, <<>>, 0)
                            ELSE Float(neg, SubSeq(D, first, last), kk - (first - 1))
  BY DEF Decimal, nonzero
<1> HIDE DEF first, last
<1>7. SubSeq(D, a + 1, a + n) = dig
  <2> DEFINE x == SubSeq(D, a + 1, a + n)
             S == Byte
  <2>1. a + 1 \in Nat \ {0} /\ n \in Nat /\ a + 1 + n - 1 = a + n /\ a + n <= Len(D)
    BY <1>1 DEF n
  <2>2. D \in Seq(S) /\ dig \in Seq(S)
    OBVIOUS
  <2> HIDE DEF S
  <2>3. x \in Seq(S) /\ Len(x) = n /\ \A i \in 1..n : x[i] = D[a + 1 + i - 1]
    BY <2>1, <2>2, SubSeqPart
  <2> HIDE DEF x
  <2>4. \A i \in 1..n : a + 1 + i - 1 = a + i /\ D[a + i] = dig[i]
    BY <1>1 DEF n
  <2>5. \A i \in 1..n : x[i] = dig[i]
    BY <2>3, <2>4
  <2>6. x = dig
    BY <2>2, <2>3, <2>5, SeqEqual DEF n
  <2> QED
    BY <2>6 DEF x
<1>8. nonzero # {} /\ first - 1 = a
  BY <1>2, <1>4
<1>9. Decimal(neg, D, kk) = Float(neg, SubSeq(D, first, last), kk - (first - 1))
  BY <1>6, <1>8
<1> QED
  BY <1>4, <1>5, <1>7, <1>8, <1>9

LEMMA OnlyZeros ==
    ASSUME NEW D \in Seq(Byte), \A k \in 1..Len(D) : D[k] = ZERO, NEW kk, NEW neg
    PROVE  Decimal(neg, D, kk) = Float(neg, <<>>, 0)
<1> DEFINE nonzero == {i \in DOMAIN D : D[i] # ZERO}
<1>1. DOMAIN D = 1..Len(D)
  BY LenProperties
<1>2. nonzero = {}
  BY <1>1
<1> QED
  BY <1>2 DEF Decimal

\* The layout s of digits behind a sign: its mantissa ends at e, with a point at p or, when
\* p = e, none; its exponent is x; dig is in it behind a zeros and before others.
DigitAt(s, p, k) == IF k < p THEN s[k] ELSE s[k + 1]
MantissaLen(p, e) == IF p = e THEN e - 1 ELSE e - 2
Layout(s, dig, a, p, e, x) ==
    /\ s \in Seq(Byte) /\ e \in 2..(Len(s) + 1) /\ p \in 2..e /\ p # e - 1 /\ x \in Int
    /\ p < e => s[p] = POINT
    /\ e <= Len(s) => s[e] = 101 /\ SubSeq(s, e + 1, Len(s)) = IntText(x)
    /\ e = Len(s) + 1 => x = 0 /\ p < e
    /\ \A j \in 1..(e - 1) : j # p => s[j] \in Digits
    /\ s[1] = ZERO => p = 2
    /\ a \in Nat /\ a + Len(dig) <= MantissaLen(p, e)
    /\ \A k \in 1..MantissaLen(p, e) : k \notin (a + 1)..(a + Len(dig)) => DigitAt(s, p, k) = ZERO
    /\ \A k \in 1..Len(dig) : DigitAt(s, p, a + k) = dig[k]

\* The digits of a mantissa without its point.
LEMMA MantissaDigits ==
    ASSUME NEW s \in Seq(Byte), NEW e \in 2..(Len(s) + 1), NEW p \in 2..e
    PROVE  LET D == SubSeq(s, 1, p - 1) \o SubSeq(s, p + 1, e - 1)
           IN  /\ D \in Seq(Byte) /\ Len(D) = MantissaLen(p, e)
               /\ \A k \in 1..Len(D) : D[k] = DigitAt(s, p, k)
<1> DEFINE S == Byte
           l == SubSeq(s, 1, p - 1)
           r == SubSeq(s, p + 1, e - 1)
           q == IF p = e THEN 0 ELSE e - 1 - p
<1>1. Len(s) \in Nat /\ s \in Seq(S)
  BY LenProperties
<1> HIDE DEF S
<1>2. l \in Seq(S) /\ Len(l) = p - 1 /\ \A i \in 1..(p - 1) : l[i] = s[i]
  <2> DEFINE m == p - 1
  <2>1. m \in Nat /\ 1 \in Nat \ {0} /\ 1 + m - 1 = m /\ 1 + m - 1 <= Len(s)
        /\ \A i \in 1..m : 1 + i - 1 = i
    BY <1>1
  <2> HIDE DEF m
  <2>2. LET y == SubSeq(s, 1, 1 + m - 1)
        IN  y \in Seq(S) /\ Len(y) = m /\ \A i \in 1..m : y[i] = s[1 + i - 1]
    BY <1>1, <2>1, SubSeqPart
  <2>3. LET y == SubSeq(s, 1, m)
        IN  y \in Seq(S) /\ Len(y) = m /\ \A i \in 1..m : y[i] = s[i]
    BY <2>1, <2>2
  <2> QED
    BY <2>3 DEF m
<1>3. r \in Seq(S) /\ Len(r) = q /\ \A i \in 1..q : r[i] = s[p + i]
  <2>1. CASE p = e
    <3>1. r = <<>>
      <4>1. p + 1 > e - 1
        BY <2>1
      <4> QED
        BY <4>1, SubSeqEmpty
    <3> QED
      BY <2>1, <3>1
  <2>2. CASE p # e
    <3> DEFINE b == p + 1
    <3>1. b \in Nat \ {0} /\ q \in Nat /\ b + q - 1 = e - 1 /\ b + q - 1 <= Len(s)
          /\ \A i \in 1..q : b + i - 1 = p + i
      BY <1>1, <2>2
    <3> HIDE DEF b, q
    <3>2. LET y == SubSeq(s, b, b + q - 1)
          IN  y \in Seq(S) /\ Len(y) = q /\ \A i \in 1..q : y[i] = s[b + i - 1]
      BY <1>1, <3>1, SubSeqPart
    <3>3. LET y == SubSeq(s, b, e - 1)
          IN  y \in Seq(S) /\ Len(y) = q /\ \A i \in 1..q : y[i] = s[p + i]
      BY <3>1, <3>2
    <3> QED
      BY <3>3 DEF b
  <2> QED
    BY <2>1, <2>2
<1> HIDE DEF l, r
<1>4. /\ l \o r \in Seq(S) /\ Len(l \o r) = Len(l) + Len(r)
      /\ \A i \in 1..Len(l) : (l \o r)[i] = l[i]
      /\ \A i \in 1..Len(r) : (l \o r)[Len(l) + i] = r[i]
  <2>1. l \in Seq(S) /\ r \in Seq(S)
    BY <1>2, <1>3
  <2> QED
    BY <2>1, ConcatParts
<1> DEFINE D == l \o r
<1> HIDE DEF D
<1>5. q \in Nat /\ p - 1 + q = MantissaLen(p, e) /\ p \in Nat
  BY DEF MantissaLen
<1> HIDE DEF q
<1>6. D \in Seq(S) /\ Len(D) = p - 1 + q
  BY <1>2, <1>3, <1>4 DEF D
<1>7. ASSUME NEW k \in 1..Len(D) PROVE D[k] = DigitAt(s, p, k)
  <2>1. CASE k < p
    <3>1. k \in 1..(p - 1)
      BY <1>5, <1>6, <2>1
    <3>2. D[k] = l[k] /\ l[k] = s[k]
      BY <1>2, <1>4, <3>1 DEF D
    <3> QED
      BY <2>1, <3>2 DEF DigitAt
  <2>2. CASE ~(k < p)
    <3> DEFINE i == k - (p - 1)
    <3>1. i \in 1..q /\ p - 1 + i = k /\ p + i = k + 1
      BY <1>5, <1>6, <2>2
    <3> HIDE DEF i
    <3>2. D[p - 1 + i] = r[i] /\ r[i] = s[p + i]
      BY <1>2, <1>3, <1>4, <3>1 DEF D
    <3>3. D[k] = s[k + 1]
      BY <3>1, <3>2
    <3> QED
      BY <2>2, <3>3 DEF DigitAt
  <2> QED
    BY <2>1, <2>2
<1> QED
  BY <1>5, <1>6, <1>7 DEF D, l, r, S

\* A text and the same with a sign in front.
WithSign(neg, s) == IF neg THEN <<MINUS>> \o s ELSE s

\* s is t behind its sign, of length c.
Behind(t, c, s) ==
    /\ t \in Seq(Byte) /\ s \in Seq(Byte) /\ First(t) = c + 1 /\ Len(t) = c + Len(s)
    /\ \A k \in 1..Len(s) : t[c + k] = s[k]

LEMMA SignedIs ==
    ASSUME NEW s \in Seq(Byte), s # <<>>, s[1] \in Digits, NEW neg \in BOOLEAN
    PROVE  LET t == WithSign(neg, s)
           IN  /\ \E c \in {0, 1} : Behind(t, c, s)
               /\ SubSeq(t, First(t), Len(t)) = s
               /\ (t[1] = MINUS) = neg
<1> DEFINE S == Byte
           t == <<MINUS>> \o s
<1>1. Len(s) \in Nat \ {0} /\ s \in Seq(S) /\ MINUS \in S /\ s[1] # MINUS
  BY LenProperties, EmptySeq, KindsApart DEF MINUS, Byte
<1> HIDE DEF S
<1>2. /\ t \in Seq(S) /\ Len(t) = Len(s) + 1 /\ t[1] = MINUS /\ Tail(t) = s
      /\ \A k \in 1..Len(s) : t[k + 1] = s[k]
  BY <1>1, InFront
<1> HIDE DEF t
<1>3. CASE neg = TRUE
  <2>1. WithSign(neg, s) = t
    BY <1>3 DEF WithSign, t
  <2>2. First(t) = 2
    BY <1>2 DEF First
  <2>3. Behind(t, 1, s)
    <3>1. \A k \in 1..Len(s) : 1 + k = k + 1
      BY <1>1
    <3> QED
      BY <1>1, <1>2, <2>2, <3>1 DEF Behind, S
  <2>4. SubSeq(t, 2, Len(t)) = s
    <3>1. t # <<>>
      BY <1>1, <1>2, EmptySeq
    <3> QED
      BY <1>2, <3>1, TailIsSubSeq
  <2> QED
    BY <1>2, <1>3, <2>1, <2>2, <2>3, <2>4
<1>4. CASE neg = FALSE
  <2>1. WithSign(neg, s) = s
    BY <1>4 DEF WithSign
  <2>2. First(s) = 1
    BY <1>1 DEF First
  <2>3. Behind(s, 0, s)
    BY <1>1, <2>2 DEF Behind
  <2>4. SubSeq(s, 1, Len(s)) = s
    BY SubSeqFull
  <2> QED
    BY <1>1, <1>4, <2>1, <2>2, <2>3, <2>4
<1> QED
  BY <1>3, <1>4

\* The layout is JSON's grammar, with a point or an exponent.
LEMMA LayoutGrammar ==
    ASSUME NEW s, NEW dig, NEW a, NEW p, NEW e, NEW x, Layout(s, dig, a, p, e, x),
           NEW t, NEW c \in {0, 1}, Behind(t, c, s)
    PROVE  JsonNumber(t) /\ ~Run(t, First(t), Len(t))
<1> DEFINE n == Len(s)
           i == c + p - 1
           f == c + e - 1
<1>1. /\ n \in Nat /\ e \in 2..(n + 1) /\ p \in 2..e /\ p # e - 1 /\ x \in Int
      /\ p < e => s[p] = POINT
      /\ e <= n => s[e] = 101 /\ SubSeq(s, e + 1, n) = IntText(x)
      /\ e = n + 1 => p < e
      /\ \A j \in 1..(e - 1) : j # p => s[j] \in Digits
      /\ s[1] = ZERO => p = 2
  BY LenProperties DEF Layout
<1>2. /\ t \in Seq(Byte) /\ First(t) = c + 1 /\ Len(t) = c + n
      /\ \A k \in 1..n : t[c + k] = s[k]
  BY DEF Behind
<1>3. \A k \in (c + 1)..(c + n) : k - c \in 1..n /\ t[k] = s[k - c]
  <2> TAKE k \in (c + 1)..(c + n)
  <2>1. k - c \in 1..n /\ c + (k - c) = k
    BY <1>1
  <2> QED
    BY <1>2, <2>1
<1>4. i \in (c + 1)..(c + n) /\ f \in (c + 1)..(c + n) /\ i \in Nat /\ f \in Nat
      /\ i + 1 = c + p /\ f + 1 = c + e /\ f + 2 = c + e + 1
  BY <1>1
<1> HIDE DEF i, f, n
<1>5. 101 \in Exponents /\ 101 \notin Digits
  BY DEF Exponents, Digits
<1>6. IntPart(t, i)
  <2>1. ASSUME NEW k \in (c + 1)..i PROVE t[k] \in Digits
    <3>1. k \in (c + 1)..(c + n) /\ k - c \in 1..(e - 1) /\ k - c # p
      BY <1>1, <1>4, <2>1
    <3> QED
      BY <1>1, <1>3, <3>1
  <2> QED
    BY <1>2, <1>4, <2>1 DEF IntPart, Run
<1>7. NoLeadingZero(t)
  <2> SUFFICES ASSUME t[c + 1] = ZERO, c + 1 < c + n PROVE t[c + 1 + 1] \notin Digits
    BY <1>2 DEF NoLeadingZero
  <2>1. 1 < n /\ t[c + 1] = s[1] /\ t[c + 2] = s[2] /\ c + 1 + 1 = c + 2
    <3>1. 1 < n /\ 1 \in 1..n /\ 2 \in 1..n /\ c + 1 + 1 = c + 2
      BY <1>1
    <3> QED
      BY <1>2, <3>1
  <2>2. p = 2
    BY <1>1, <2>1
  <2>3. s[2] = POINT \/ s[2] = 101
    BY <1>1, <2>2
  <2> QED
    BY <1>5, <2>1, <2>3, KindsApart
<1>8. FracPart(t, i, f)
  <2>1. CASE p = e
    BY <1>1, <1>4, <2>1 DEF FracPart, i, f
  <2>2. CASE p < e
    <3>1. f \in (i + 2)..(c + n) /\ i + 2 = c + p + 1
      BY <1>1, <1>4, <2>2
    <3>2. t[i + 1] = POINT
      BY SMTT(30), <1>1, <1>2, <1>4, <2>2
    <3>3. ASSUME NEW k \in (i + 2)..f PROVE t[k] \in Digits
      <4>1. k \in (c + 1)..(c + n) /\ k - c \in 1..(e - 1) /\ k - c # p
        BY <1>1, <1>4, <3>1
      <4> QED
        BY <1>1, <1>3, <4>1
    <3> QED
      BY <1>2, <3>1, <3>2, <3>3 DEF FracPart, Run
  <2> QED
    BY <1>1, <2>1, <2>2
<1>9. ExpPart(t, f)
  <2>1. CASE e = n + 1
    <3>1. f = c + n
      BY <1>1, <1>4, <2>1
    <3> QED
      BY <1>2, <3>1 DEF ExpPart
  <2>2. CASE e <= n
    <3>1. f < c + n /\ t[f + 1] \in Exponents
      <4>1. f < c + n /\ e \in 1..n
        BY <1>1, <1>4, <2>2
      <4>2. t[c + e] = s[e] /\ s[e] = 101
        BY <1>1, <1>2, <2>2, <4>1
      <4> QED
        BY <1>4, <1>5, <4>1, <4>2
    <3>2. SubSeq(t, f + 2, c + n) = IntText(x)
      <4> DEFINE S == Byte
                 r == SubSeq(t, c + 1, Len(t))
      <4>1. c \in 0..Len(t) /\ e \in 0..(Len(t) - c) /\ t \in Seq(S) /\ s \in Seq(S)
        BY <1>1, <1>2, <2>2 DEF Behind
      <4> HIDE DEF S
      <4>2. /\ r \in Seq(S) /\ Len(r) = Len(t) - c
            /\ \A k \in 1..Len(r) : r[k] = t[c + k]
            /\ SubSeq(r, e + 1, Len(r)) = SubSeq(t, c + e + 1, Len(t))
        BY <4>1, SubSeqEnd
      <4> HIDE DEF r
      <4>3. Len(r) = n /\ \A k \in 1..n : r[k] = s[k]
        BY SMTT(30), <1>1, <1>2, <4>2
      <4>4. r = s
        BY <4>1, <4>2, <4>3, SeqEqual DEF n
      <4> QED
        BY <1>1, <1>2, <1>4, <2>2, <4>2, <4>3, <4>4
    <3>3. IsDigits(Unsigned(SubSeq(t, f + 2, Len(t))))
      BY <1>1, <1>2, <3>2, ExponentRead
    <3>4. ExpDigits(t, f)
      BY <1>2, <1>4, <3>1, <3>3, ExpMeaning
    <3> QED
      BY <1>2, <3>1, <3>4 DEF ExpPart
  <2> QED
    BY <1>1, <2>1, <2>2
<1>10. Grammar(t, i, f)
  BY <1>6, <1>7, <1>8, <1>9 DEF Grammar
<1>11. JsonNumber(t)
  <2>1. i \in 1..Len(t) /\ f \in 1..Len(t)
    BY <1>1, <1>2, <1>4
  <2> QED
    BY <1>2, <1>10, <2>1, JsonGrammar
<1>12. \E k \in (c + 1)..(c + n) : t[k] \notin Digits
  <2>1. CASE p < e
    <3>1. p \in 1..n /\ c + p \in (c + 1)..(c + n)
      BY <1>1, <2>1
    <3>2. t[c + p] = POINT
      BY <1>1, <1>2, <2>1, <3>1
    <3> QED
      BY <3>1, <3>2, KindsApart
  <2>2. CASE p = e
    <3>1. e \in 1..n /\ c + e \in (c + 1)..(c + n)
      BY <1>1, <2>2
    <3>2. t[c + e] = 101
      BY <1>1, <1>2, <3>1
    <3> QED
      BY <1>5, <3>1, <3>2
  <2> QED
    BY <1>1, <2>1, <2>2
<1> QED
  BY <1>2, <1>11, <1>12 DEF Run

\* t is a scalar, of this sign, digits and point.
ReadsAs(t, neg, dig, kk) ==
    /\ t \in Seq(Byte) /\ Scalar(t) /\ t[1] \in Digits \cup {MINUS, 73, 78}
    /\ NumberOf(t) = IF dig = <<>> THEN Float(neg, <<>>, 0) ELSE Float(neg, dig, kk)

\* What the layout reads as.
LEMMA LayoutRead ==
    ASSUME NEW s, NEW dig \in Seq(Byte), NEW a, NEW p, NEW e, NEW x, Layout(s, dig, a, p, e, x),
           dig # <<>> => dig[1] # ZERO /\ dig[Len(dig)] # ZERO,
           NEW neg \in BOOLEAN
    PROVE  ReadsAs(WithSign(neg, s), neg, dig, p - 1 + x - a)
<1> DEFINE n == Len(s)
           t == WithSign(neg, s)
<1>1. /\ s \in Seq(Byte) /\ n \in Nat /\ e \in 2..(n + 1) /\ p \in 2..e /\ x \in Int /\ a \in Nat
      /\ p < e => s[p] = POINT
      /\ e <= n => s[e] = 101 /\ SubSeq(s, e + 1, n) = IntText(x)
      /\ e = n + 1 => x = 0
      /\ \A j \in 1..(e - 1) : j # p => s[j] \in Digits
  BY LenProperties DEF Layout
<1>2. s # <<>> /\ s[1] \in Digits
  <2>1. 1 \in 1..(e - 1) /\ 1 # p /\ n # 0
    BY <1>1
  <2> QED
    BY <1>1, <2>1, EmptySeq
<1> HIDE DEF t
<1>3. /\ \E c \in {0, 1} : Behind(t, c, s)
      /\ SubSeq(t, First(t), Len(t)) = s
      /\ (t[1] = MINUS) = neg
  BY <1>1, <1>2, SignedIs DEF t
<1>4. PICK c \in {0, 1} : Behind(t, c, s)
  BY <1>3
<1>5. JsonNumber(t) /\ ~Run(t, First(t), Len(t))
  BY <1>4, LayoutGrammar
<1>6. /\ t \in Seq(Byte) /\ First(t) = c + 1 /\ Len(t) = c + n
      /\ \A k \in 1..n : t[c + k] = s[k]
  BY <1>4 DEF Behind
<1>7. First(t) <= Len(t) /\ t[First(t)] \in Digits
  <2>1. 1 \in 1..n /\ c + 1 <= c + n
    BY <1>1
  <2> QED
    BY <1>2, <1>6, <2>1
<1>8. t[1] \in Digits \cup {MINUS}
  <2>1. First(t) = 1 \/ t[1] = MINUS
    BY FirstIs
  <2> QED
    BY <1>7, <2>1
<1>9. NumberOf(t) = DecimalOf(t)
  <2>1. Lower(SubSeq(t, First(t), Len(t))) \notin {NAN, INF, INFINITY}
    BY <1>6, <1>7, NoWord
  <2> QED
    BY <1>5, <2>1 DEF NumberOf
<1>11. MantissaEnd(s, e) /\ PointAt(s, e, p) /\ e \in Nat
  <2>1. 101 \in Exponents
    BY DEF Exponents
  <2>2. \A j \in 1..(e - 1) : s[j] \in Digits \cup {POINT}
    BY <1>1
  <2>3. \A j \in 1..(p - 1) : s[j] \in Digits
    BY <1>1
  <2> QED
    BY <1>1, <2>1, <2>2, <2>3, KindsApart DEF MantissaEnd, PointAt
<1> DEFINE D == SubSeq(s, 1, p - 1) \o SubSeq(s, p + 1, e - 1)
           w == SubSeq(s, e + 1, n)
           size == Natural(Unsigned(w))
           y == IF w # <<>> /\ w[1] = MINUS THEN -size ELSE size
<1>12. DecimalOf(t) = Decimal(neg, D, p - 1 + y)
  <2>1. BehindSign(t, s) /\ Sign(t, neg)
    BY <1>1, <1>3 DEF BehindSign, Sign
  <2>2. DecimalOf(t) = Positioned(neg, s, e, p)
    BY <1>11, <2>1, DecimalOfIs
  <2> QED
    BY <2>2 DEF Positioned
<1>13. y = x
  <2>1. CASE e <= n
    <3>1. w = IntText(x)
      BY <1>1, <2>1
    <3> HIDE DEF w
    <3> QED
      BY <1>1, <3>1, ExponentRead
  <2>2. CASE e = n + 1
    <3>1. w = <<>>
      <4>1. e + 1 > n
        BY <1>1, <2>2
      <4> QED
        BY <1>1, <4>1, SubSeqEmpty
    <3>2. x = 0
      BY <1>1, <2>2
    <3> HIDE DEF w
    <3> QED
      BY <3>1, <3>2, NoExponent
  <2> QED
    BY <1>1, <2>1, <2>2
<1> HIDE DEF y
<1>14. D \in Seq(Byte) /\ Len(D) = MantissaLen(p, e) /\ \A k \in 1..Len(D) : D[k] = DigitAt(s, p, k)
  BY <1>1, MantissaDigits
<1> HIDE DEF D
<1>15. /\ a + Len(dig) <= Len(D)
       /\ \A k \in 1..Len(D) : k \notin (a + 1)..(a + Len(dig)) => D[k] = ZERO
       /\ \A k \in 1..Len(dig) : D[a + k] = dig[k]
  <2>1. a + Len(dig) <= Len(D)
    BY <1>14 DEF Layout
  <2>2. \A k \in 1..Len(dig) : a + k \in 1..Len(D)
    BY <1>1, <1>14, <2>1, LenProperties
  <2>3. \A k \in 1..Len(dig) : DigitAt(s, p, a + k) = dig[k]
    BY DEF Layout
  <2>4. \A k \in 1..Len(D) : k \notin (a + 1)..(a + Len(dig)) => DigitAt(s, p, k) = ZERO
    BY <1>14 DEF Layout
  <2> QED
    BY <1>14, <2>1, <2>2, <2>3, <2>4
<1> DEFINE kk == p - 1 + x
<1>16. Decimal(neg, D, kk) = IF dig = <<>> THEN Float(neg, <<>>, 0) ELSE Float(neg, dig, kk - a)
  <2>1. kk \in Int
    BY <1>1
  <2> HIDE DEF kk
  <2>2. CASE dig = <<>>
    <3>1. \A k \in 1..Len(D) : k \notin (a + 1)..(a + Len(dig))
      BY <1>1, <2>2
    <3>2. \A k \in 1..Len(D) : D[k] = ZERO
      BY <1>15, <3>1
    <3> QED
      BY <1>14, <2>2, <3>2, OnlyZeros
  <2>3. CASE dig # <<>>
    BY SMTT(30), <1>1, <1>14, <1>15, <2>1, <2>3, ZerosStripped
  <2> QED
    BY <2>2, <2>3
<1>17. kk - a = p - 1 + x - a
  BY <1>1
<1> HIDE DEF kk
<1>18. DecimalOf(t) = Decimal(neg, D, kk)
  BY <1>12, <1>13 DEF kk
<1>19. Scalar(t)
  BY <1>5 DEF Scalar
<1> QED
  BY <1>6, <1>8, <1>9, <1>16, <1>17, <1>18, <1>19 DEF t, ReadsAs
-----------------------------------------------------------------------------
(* The four layouts of appendPretty, and zero's.                           *)

\* Three parts of a text.
InThree(s, S, a, b, c) ==
    /\ s \in Seq(S) /\ Len(s) = Len(a) + Len(b) + Len(c)
    /\ \A k \in 1..Len(a) : s[k] = a[k]
    /\ \A k \in 1..Len(b) : s[Len(a) + k] = b[k]
    /\ \A k \in 1..Len(c) : s[Len(a) + Len(b) + k] = c[k]

LEMMA ThreeParts ==
    ASSUME NEW S, NEW a \in Seq(S), NEW b \in Seq(S), NEW c \in Seq(S)
    PROVE  InThree(a \o b \o c, S, a, b, c)
<1>1. /\ a \o b \in Seq(S) /\ Len(a \o b) = Len(a) + Len(b)
      /\ \A i \in 1..Len(a) : (a \o b)[i] = a[i]
      /\ \A i \in 1..Len(b) : (a \o b)[Len(a) + i] = b[i]
  BY ConcatParts
<1> DEFINE ab == a \o b
<1>2. ab \in Seq(S)
  BY <1>1
<1> HIDE DEF ab
<1>3. /\ ab \o c \in Seq(S) /\ Len(ab \o c) = Len(ab) + Len(c)
      /\ \A i \in 1..Len(ab) : (ab \o c)[i] = ab[i]
      /\ \A i \in 1..Len(c) : (ab \o c)[Len(ab) + i] = c[i]
  BY <1>2, ConcatParts
<1>4. Len(a) \in Nat /\ Len(b) \in Nat /\ Len(c) \in Nat
  BY LenProperties
<1>5. Len(ab) = Len(a) + Len(b)
  BY <1>1 DEF ab
<1>6. /\ \A k \in 1..Len(a) : k \in 1..Len(ab)
      /\ \A k \in 1..Len(b) : Len(a) + k \in 1..Len(ab)
  BY <1>4, <1>5
<1>7. /\ \A k \in 1..Len(a) : (ab \o c)[k] = a[k]
      /\ \A k \in 1..Len(b) : (ab \o c)[Len(a) + k] = b[k]
  BY <1>1, <1>3, <1>6 DEF ab
<1> QED
  BY <1>3, <1>5, <1>7 DEF ab, InThree

LEMMA ZerosIs ==
    ASSUME NEW m \in Nat
    PROVE  /\ Zeros(m) \in Seq(Byte) /\ Len(Zeros(m)) = m
           /\ \A k \in 1..m : Zeros(m)[k] = ZERO
  BY DEF Zeros, ZERO, Byte

\* Digits as appendFloat gets them.
Shortest(dig, n) ==
    /\ dig \in Seq(Byte) /\ n = Len(dig) /\ n \in Nat \ {0}
    /\ \A k \in 1..n : dig[k] \in Digits
    /\ dig[1] # ZERO

\* What the layouts are made of.
LEMMA Bytes ==
    /\ <<POINT, ZERO>> \in Seq(Byte) /\ <<ZERO, POINT>> \in Seq(Byte) /\ <<POINT>> \in Seq(Byte)
    /\ <<101>> \in Seq(Byte) /\ ZERO \in Digits
  BY DEF POINT, ZERO, Byte, Digits

\* The point behind the digits.
LEMMA IntegerLayout ==
    ASSUME NEW dig, NEW n, Shortest(dig, n), NEW kk \in Int, n <= kk
    PROVE  Layout(dig \o Zeros(kk - n) \o <<POINT, ZERO>>, dig, 0, kk + 1, kk + 3, 0)
<1> DEFINE S == Byte
           z == Zeros(kk - n)
           r == <<POINT, ZERO>>
<1>1. /\ dig \in Seq(S) /\ n = Len(dig) /\ n \in Nat \ {0} /\ \A k \in 1..n : dig[k] \in Digits
      /\ dig[1] # ZERO
  BY DEF Shortest
<1>2. z \in Seq(S) /\ Len(z) = kk - n /\ \A k \in 1..(kk - n) : z[k] = ZERO
  <2>1. kk - n \in Nat
    BY <1>1
  <2> QED
    BY <2>1, ZerosIs
<1>3. r \in Seq(S) /\ Len(r) = 2 /\ r[1] = POINT /\ r[2] = ZERO
  BY Bytes
<1> HIDE DEF S, z, r
<1> DEFINE s == dig \o z \o r
<1>4. /\ s \in Seq(S) /\ Len(s) = Len(dig) + Len(z) + Len(r)
      /\ \A k \in 1..Len(dig) : s[k] = dig[k]
      /\ \A k \in 1..Len(z) : s[Len(dig) + k] = z[k]
      /\ \A k \in 1..Len(r) : s[Len(dig) + Len(z) + k] = r[k]
  <2>1. InThree(s, S, dig, z, r)
    BY <1>1, <1>2, <1>3, ThreeParts
  <2> QED
    BY <2>1 DEF InThree
<1> HIDE DEF s
<1>5. Len(s) = kk + 2 /\ \A k \in 1..n : s[k] = dig[k]
  BY <1>1, <1>2, <1>3, <1>4
<1>6. \A k \in (n + 1)..kk : s[k] = ZERO
  <2> TAKE k \in (n + 1)..kk
  <2>1. k - n \in 1..(kk - n) /\ n + (k - n) = k
    BY <1>1
  <2>2. s[n + (k - n)] = z[k - n] /\ z[k - n] = ZERO
    BY <1>1, <1>2, <1>4, <2>1
  <2> QED
    BY <2>1, <2>2
<1>7. s[kk + 1] = POINT /\ s[kk + 2] = ZERO
  <2>1. n + (kk - n) + 1 = kk + 1 /\ n + (kk - n) + 2 = kk + 2 /\ 1 \in 1..2 /\ 2 \in 1..2
    BY <1>1
  <2>2. s[n + (kk - n) + 1] = r[1] /\ s[n + (kk - n) + 2] = r[2]
    BY <1>1, <1>2, <1>3, <1>4, <2>1
  <2> QED
    BY <1>3, <2>1, <2>2
<1>8. MantissaLen(kk + 1, kk + 3) = kk + 1
  BY DEF MantissaLen
<1>9. \A j \in 1..(kk + 3 - 1) : j # kk + 1 => s[j] \in Digits
  <2> TAKE j \in 1..(kk + 3 - 1)
  <2>1. j \in 1..n \/ j \in (n + 1)..kk \/ j = kk + 1 \/ j = kk + 2
    BY <1>1
  <2> QED
    BY <1>1, <1>5, <1>6, <1>7, <2>1, Bytes
<1>10. \A k \in 1..(kk + 1) : k \notin (0 + 1)..(0 + n) => DigitAt(s, kk + 1, k) = ZERO
  <2> TAKE k \in 1..(kk + 1)
  <2>1. k \in 1..n \/ k \in (n + 1)..kk \/ k = kk + 1
    BY <1>1
  <2>2. k + 1 = kk + 2 \/ k < kk + 1
    BY <2>1, <1>1
  <2> QED
    BY <1>1, <1>6, <1>7, <2>1, <2>2 DEF DigitAt
<1>11. \A k \in 1..n : DigitAt(s, kk + 1, 0 + k) = dig[k]
  BY <1>1, <1>5 DEF DigitAt
<1>12. s[1] # ZERO
  BY <1>1, <1>5
<1>13. /\ kk + 3 \in 2..(Len(s) + 1) /\ kk + 1 \in 2..(kk + 3) /\ kk + 1 # kk + 3 - 1
       /\ ~(kk + 3 <= Len(s)) /\ kk + 1 < kk + 3 /\ 0 + n <= kk + 1
  BY <1>1, <1>5
<1>14. Layout(s, dig, 0, kk + 1, kk + 3, 0)
  BY <1>1, <1>4, <1>7, <1>8, <1>9, <1>10, <1>11, <1>12, <1>13 DEF Layout, S
<1> QED
  BY <1>14 DEF s, z, r

\* The point among the digits.
LEMMA PointLayout ==
    ASSUME NEW dig, NEW n, Shortest(dig, n), NEW kk \in Int, 1 <= kk, kk < n
    PROVE  Layout(SubSeq(dig, 1, kk) \o <<POINT>> \o SubSeq(dig, kk + 1, n),
                  dig, 0, kk + 1, n + 2, 0)
<1> DEFINE S == Byte
           l == SubSeq(dig, 1, kk)
           m == <<POINT>>
           r == SubSeq(dig, kk + 1, n)
<1>1. /\ dig \in Seq(S) /\ n = Len(dig) /\ n \in Nat \ {0} /\ \A k \in 1..n : dig[k] \in Digits
      /\ dig[1] # ZERO
  BY DEF Shortest
<1>2. l \in Seq(S) /\ Len(l) = kk /\ \A k \in 1..kk : l[k] = dig[k]
  <2>1. 1 \in Nat \ {0} /\ kk \in 0..Len(dig) /\ 1 <= kk + 1 /\ kk - 1 + 1 = kk
        /\ \A k \in 1..kk : 1 + k - 1 = k
    BY <1>1
  <2> QED
    BY <1>1, <2>1, Part
<1>3. m \in Seq(S) /\ Len(m) = 1 /\ m[1] = POINT
  BY Bytes
<1>4. r \in Seq(S) /\ Len(r) = n - kk /\ \A k \in 1..(n - kk) : r[k] = dig[kk + k]
  <2> DEFINE b == kk + 1
  <2>1. b \in Nat \ {0} /\ n \in 0..Len(dig) /\ b <= n + 1 /\ n - b + 1 = n - kk
        /\ \A k \in 1..(n - kk) : b + k - 1 = kk + k
    BY <1>1
  <2> HIDE DEF b
  <2>2. LET y == SubSeq(dig, b, n)
        IN  y \in Seq(S) /\ Len(y) = n - b + 1 /\ \A k \in 1..Len(y) : y[k] = dig[b + k - 1]
    BY <1>1, <2>1, Part
  <2>3. LET y == SubSeq(dig, b, n)
        IN  y \in Seq(S) /\ Len(y) = n - kk /\ \A k \in 1..(n - kk) : y[k] = dig[kk + k]
    BY <2>1, <2>2
  <2> QED
    BY <2>3 DEF b
<1> HIDE DEF S, l, m, r
<1> DEFINE s == l \o m \o r
<1>5. /\ s \in Seq(S) /\ Len(s) = Len(l) + Len(m) + Len(r)
      /\ \A k \in 1..Len(l) : s[k] = l[k]
      /\ \A k \in 1..Len(m) : s[Len(l) + k] = m[k]
      /\ \A k \in 1..Len(r) : s[Len(l) + Len(m) + k] = r[k]
  <2>1. InThree(s, S, l, m, r)
    BY <1>2, <1>3, <1>4, ThreeParts
  <2> QED
    BY <2>1 DEF InThree
<1> HIDE DEF s
<1>6. Len(s) = n + 1 /\ s[kk + 1] = POINT /\ \A k \in 1..kk : s[k] = dig[k]
  <2>1. Len(s) = n + 1
    <3>1. kk + 1 + (n - kk) = n + 1
      BY <1>1
    <3> QED
      BY <1>2, <1>3, <1>4, <1>5, <3>1
  <2>2. s[kk + 1] = POINT
    <3>1. 1 \in 1..Len(m)
      BY <1>3
    <3> QED
      BY <1>2, <1>3, <1>5, <3>1
  <2> QED
    BY <1>2, <1>5, <2>1, <2>2
<1>7. \A k \in (kk + 1)..n : s[k + 1] = dig[k]
  <2> TAKE k \in (kk + 1)..n
  <2>1. k - kk \in 1..(n - kk) /\ kk + 1 + (k - kk) = k + 1 /\ kk + (k - kk) = k
    BY <1>1
  <2>2. s[kk + 1 + (k - kk)] = r[k - kk] /\ r[k - kk] = dig[kk + (k - kk)]
    BY <1>2, <1>3, <1>4, <1>5, <2>1
  <2> QED
    BY <2>1, <2>2
<1>8. MantissaLen(kk + 1, n + 2) = n
  BY <1>1 DEF MantissaLen
<1>9. \A k \in 1..n : DigitAt(s, kk + 1, k) = dig[k]
  <2> TAKE k \in 1..n
  <2>1. k \in 1..kk \/ k \in (kk + 1)..n
    BY <1>1
  <2> QED
    BY <1>1, <1>6, <1>7, <2>1 DEF DigitAt
<1>10. \A j \in 1..(n + 2 - 1) : j # kk + 1 => s[j] \in Digits
  <2> TAKE j \in 1..(n + 2 - 1)
  <2>1. j \in 1..kk \/ (j - 1 \in (kk + 1)..n /\ j - 1 + 1 = j) \/ j = kk + 1
    BY <1>1
  <2>2. j - 1 \in (kk + 1)..n => s[j - 1 + 1] = dig[j - 1] /\ j - 1 \in 1..n
    BY <1>7
  <2>3. j \in 1..kk => j \in 1..n
    BY <1>1
  <2> QED
    BY <1>1, <1>6, <2>1, <2>2, <2>3
<1>11. s[1] # ZERO
  BY <1>1, <1>6
<1>12. /\ n + 2 \in 2..(Len(s) + 1) /\ kk + 1 \in 2..(n + 2) /\ kk + 1 # n + 2 - 1
       /\ ~(n + 2 <= Len(s)) /\ kk + 1 < n + 2 /\ 0 + n <= n /\ \A k \in 1..n : 0 + k = k
  BY <1>1, <1>6
<1>13. Layout(s, dig, 0, kk + 1, n + 2, 0)
  BY <1>1, <1>5, <1>6, <1>8, <1>9, <1>10, <1>11, <1>12 DEF Layout, S
<1> QED
  BY <1>13 DEF s, l, m, r

\* The point before the digits, z zeros between.
LEMMA SmallLayout ==
    ASSUME NEW dig, NEW n, Shortest(dig, n), NEW z \in Nat
    PROVE  Layout(<<ZERO, POINT>> \o Zeros(z) \o dig, dig, z + 1, 2, z + n + 3, 0)
<1> DEFINE S == Byte
           l == <<ZERO, POINT>>
           m == Zeros(z)
<1>1. /\ dig \in Seq(S) /\ n = Len(dig) /\ n \in Nat \ {0} /\ \A k \in 1..n : dig[k] \in Digits
  BY DEF Shortest
<1>2. l \in Seq(S) /\ Len(l) = 2 /\ l[1] = ZERO /\ l[2] = POINT
  BY Bytes
<1>3. m \in Seq(S) /\ Len(m) = z /\ \A k \in 1..z : m[k] = ZERO
  BY ZerosIs
<1> HIDE DEF S, l, m
<1> DEFINE s == l \o m \o dig
<1>4. /\ s \in Seq(S) /\ Len(s) = Len(l) + Len(m) + Len(dig)
      /\ \A k \in 1..Len(l) : s[k] = l[k]
      /\ \A k \in 1..Len(m) : s[Len(l) + k] = m[k]
      /\ \A k \in 1..Len(dig) : s[Len(l) + Len(m) + k] = dig[k]
  <2>1. InThree(s, S, l, m, dig)
    BY <1>1, <1>2, <1>3, ThreeParts
  <2> QED
    BY <2>1 DEF InThree
<1> HIDE DEF s
<1>5. Len(s) = z + n + 2 /\ s[1] = ZERO /\ s[2] = POINT
  BY <1>1, <1>2, <1>3, <1>4
<1>6. \A k \in 3..(z + 2) : s[k] = ZERO
  <2> TAKE k \in 3..(z + 2)
  <2>1. k - 2 \in 1..z /\ 2 + (k - 2) = k
    OBVIOUS
  <2> QED
    <3>1. m[k - 2] = ZERO
      BY <1>3, <2>1
    <3>2. s[2 + (k - 2)] = m[k - 2]
      BY <1>2, <1>3, <1>4, <2>1
    <3> QED
      BY <2>1, <3>1, <3>2
<1>7. \A k \in 1..n : s[z + 2 + k] = dig[k]
  <2> TAKE k \in 1..n
  <2>1. 2 + z + k = z + 2 + k
    BY <1>1
  <2>2. s[2 + z + k] = dig[k]
    BY <1>1, <1>2, <1>3, <1>4
  <2> QED
    BY <2>1, <2>2
<1> DEFINE e == z + n + 3
<1>8. MantissaLen(2, e) = z + n + 1
  BY <1>1 DEF MantissaLen
<1>9. \A j \in 1..(e - 1) : j # 2 => s[j] \in Digits
  <2> TAKE j \in 1..(e - 1)
  <2>1. j = 1 \/ j = 2 \/ j \in 3..(z + 2) \/ (j - (z + 2) \in 1..n /\ z + 2 + (j - (z + 2)) = j)
    BY <1>1
  <2>2. CASE j - (z + 2) \in 1..n /\ z + 2 + (j - (z + 2)) = j
    <3>1. s[z + 2 + (j - (z + 2))] = dig[j - (z + 2)] /\ dig[j - (z + 2)] \in Digits
      BY <1>1, <1>7, <2>2
    <3> QED
      BY <2>2, <3>1
  <2> QED
    BY <1>5, <1>6, <2>1, <2>2, Bytes
<1>10. \A k \in 1..(z + n + 1) : k \notin (z + 1 + 1)..(z + 1 + n) => DigitAt(s, 2, k) = ZERO
  <2> TAKE k \in 1..(z + n + 1)
  <2>1. k = 1 \/ (k \notin {1} /\ k + 1 \in 3..(z + 2) /\ ~(k < 2)) \/ k \in (z + 1 + 1)..(z + 1 + n)
    BY <1>1
  <2> QED
    BY <1>5, <1>6, <2>1 DEF DigitAt
<1>11. \A k \in 1..n : DigitAt(s, 2, z + 1 + k) = dig[k]
  <2> TAKE k \in 1..n
  <2>1. ~(z + 1 + k < 2) /\ z + 1 + k + 1 = z + 2 + k
    BY <1>1
  <2>2. DigitAt(s, 2, z + 1 + k) = s[z + 1 + k + 1]
    BY <2>1 DEF DigitAt
  <2> QED
    BY <1>7, <2>1, <2>2
<1>12. /\ e \in 2..(Len(s) + 1) /\ 2 \in 2..e /\ 2 # e - 1 /\ z + 1 \in Nat
       /\ ~(e <= Len(s)) /\ 2 < e /\ z + 1 + n <= z + n + 1
  BY <1>1, <1>5
<1> HIDE DEF e
<1>13. Layout(s, dig, z + 1, 2, e, 0)
  BY <1>1, <1>4, <1>5, <1>8, <1>9, <1>10, <1>11, <1>12 DEF Layout, S
<1> QED
  BY <1>13 DEF s, l, m, e

LEMMA EndOfConcat ==
    ASSUME NEW S, NEW a \in Seq(S), NEW b \in Seq(S)
    PROVE  SubSeq(a \o b, Len(a) + 1, Len(a \o b)) = b
<1> DEFINE s == a \o b
           k == Len(a)
           r == SubSeq(s, k + 1, Len(s))
<1>1. /\ s \in Seq(S) /\ Len(s) = Len(a) + Len(b)
      /\ \A i \in 1..Len(b) : s[Len(a) + i] = b[i]
  BY ConcatParts
<1>2. k \in Nat /\ Len(b) \in Nat
  BY LenProperties
<1> HIDE DEF s
<1>3. k \in 0..Len(s) /\ 0 \in 0..(Len(s) - k)
  BY <1>1, <1>2
<1> HIDE DEF r
<1>4. r \in Seq(S) /\ Len(r) = Len(s) - k /\ \A i \in 1..Len(r) : r[i] = s[k + i]
  BY <1>1, <1>3, SubSeqEnd DEF r
<1>5. Len(r) = Len(b) /\ \A i \in 1..Len(b) : r[i] = b[i]
  BY <1>1, <1>2, <1>4
<1>6. r = b
  BY <1>4, <1>5, SeqEqual
<1> QED
  BY <1>6 DEF r, s, k

\* An exponent.
LEMMA ScientificLayout ==
    ASSUME NEW dig, NEW n, Shortest(dig, n), NEW x \in Int
    PROVE  \E e : Layout(<<dig[1]>> \o (IF n = 1 THEN <<>> ELSE <<POINT>> \o Tail(dig))
                             \o <<101>> \o IntText(x),
                         dig, 0, 2, e, x)
<1> DEFINE S == Byte
           d == dig[1]
           l == <<d>>
           m == IF n = 1 THEN <<>> ELSE <<POINT>> \o Tail(dig)
           r == <<101>>
           w == IntText(x)
           e == IF n = 1 THEN 2 ELSE n + 2
<1>1. /\ dig \in Seq(S) /\ n = Len(dig) /\ n \in Nat \ {0} /\ \A k \in 1..n : dig[k] \in Digits
      /\ d # ZERO
  BY DEF Shortest
<1>2. l \in Seq(S) /\ Len(l) = 1 /\ l[1] = d
  <2>1. d \in S
    BY <1>1, ElementOfSeq
  <2> HIDE DEF d, S
  <2> QED
    BY <2>1
<1>3. r \in Seq(S) /\ Len(r) = 1 /\ r[1] = 101
  BY Bytes
<1>4. w \in Seq(S) /\ w # <<>>
  BY ExponentRead
<1>5. POINT \in S
  BY DEF POINT, Byte
<1> HIDE DEF S, d, l, r, w
<1>6. /\ m \in Seq(S) /\ Len(m) = e - 2
      /\ n > 1 => m[1] = POINT /\ \A k \in 2..n : m[k] = dig[k]
  <2>1. CASE n = 1
    <3>1. m = <<>>
      BY <2>1
    <3> HIDE DEF m
    <3> QED
      BY <2>1, <3>1
  <2>2. CASE n > 1
    <3> DEFINE q == Tail(dig)
    <3>1. dig # <<>>
      BY <1>1, EmptySeq
    <3>2. q \in Seq(S) /\ Len(q) = n - 1 /\ \A k \in 1..Len(q) : q[k] = dig[k + 1]
      BY <1>1, <3>1, HeadTailProperties
    <3>3. m = <<POINT>> \o q
      BY <2>2
    <3> HIDE DEF q, m
    <3>4. /\ m \in Seq(S) /\ Len(m) = Len(q) + 1 /\ m[1] = POINT
          /\ \A k \in 1..Len(q) : m[k + 1] = q[k]
      BY <1>5, <3>2, <3>3, InFront
    <3>5. \A k \in 2..n : m[k] = dig[k]
      <4> TAKE k \in 2..n
      <4>1. k - 1 \in 1..Len(q) /\ k - 1 + 1 = k
        BY <1>1, <3>2
      <4>2. m[k - 1 + 1] = q[k - 1] /\ q[k - 1] = dig[k - 1 + 1]
        BY <3>2, <3>4, <4>1
      <4> QED
        BY <4>1, <4>2
    <3> QED
      <4>1. e = n + 2
        BY <1>1, <2>2
      <4>2. Len(m) = e - 2
        BY <1>1, <3>2, <3>4, <4>1
      <4> HIDE DEF e
      <4> QED
        BY <3>4, <3>5, <4>2
  <2> QED
    BY <1>1, <2>1, <2>2
<1> HIDE DEF m
<1> DEFINE b == l \o m \o r
<1>7. /\ b \in Seq(S) /\ Len(b) = Len(l) + Len(m) + Len(r)
      /\ \A k \in 1..Len(l) : b[k] = l[k]
      /\ \A k \in 1..Len(m) : b[Len(l) + k] = m[k]
      /\ \A k \in 1..Len(r) : b[Len(l) + Len(m) + k] = r[k]
  <2>1. InThree(b, S, l, m, r)
    BY <1>2, <1>3, <1>6, ThreeParts
  <2> QED
    BY <2>1 DEF InThree
<1> HIDE DEF b
<1>8. e \in Nat /\ e >= 2 /\ (n = 1 => e = 2) /\ (n > 1 => e = n + 2)
  BY <1>1
<1> HIDE DEF e
<1>9. Len(b) = e /\ b[1] = d /\ b[e] = 101
  <2>1. Len(b) = e
    BY <1>2, <1>3, <1>6, <1>7, <1>8
  <2>2. b[1] = d
    BY <1>2, <1>7
  <2>3. 1 + (e - 2) + 1 = e /\ 1 \in 1..Len(r)
    BY <1>3, <1>8
  <2>4. b[Len(l) + Len(m) + 1] = 101
    BY <1>3, <1>7, <2>3
  <2> QED
    BY <1>2, <1>6, <2>1, <2>2, <2>3, <2>4
<1>10. n > 1 => b[2] = POINT /\ \A k \in 2..n : b[k + 1] = dig[k]
  <2> SUFFICES ASSUME n > 1 PROVE b[2] = POINT /\ \A k \in 2..n : b[k + 1] = dig[k]
    OBVIOUS
  <2>1. Len(m) = n /\ Len(l) = 1
    BY <1>1, <1>2, <1>6, <1>8
  <2>2. \A k \in 1..n : b[1 + k] = m[k] /\ 1 + k = k + 1
    BY <1>1, <1>7, <2>1
  <2>3. 1 \in 1..n /\ 1 + 1 = 2 /\ \A k \in 2..n : k \in 1..n
    BY <1>1
  <2>4. b[1 + 1] = m[1]
    BY <2>2, <2>3
  <2> QED
    BY <1>6, <2>2, <2>3, <2>4
<1> DEFINE s == b \o w
<1>11. /\ s \in Seq(S) /\ Len(s) = Len(b) + Len(w)
       /\ \A k \in 1..Len(b) : s[k] = b[k]
       /\ SubSeq(s, Len(b) + 1, Len(s)) = w
  <2>1. /\ s \in Seq(S) /\ Len(s) = Len(b) + Len(w)
        /\ \A k \in 1..Len(b) : s[k] = b[k]
    <3>1. b \in Seq(S) /\ w \in Seq(S)
      BY <1>4, <1>7
    <3> HIDE DEF b
    <3> QED
      BY SMTT(30), <3>1, ConcatParts
  <2>2. SubSeq(s, Len(b) + 1, Len(s)) = w
    BY <1>4, <1>7, EndOfConcat, Zenon
  <2> QED
    BY <2>1, <2>2
<1> HIDE DEF s
<1>12. Len(w) \in Nat \ {0}
  BY <1>4, LenProperties, EmptySeq
<1>13. \A k \in 1..e : s[k] = b[k]
  BY <1>9, <1>11
<1>14. e <= Len(s) /\ SubSeq(s, e + 1, Len(s)) = w /\ s[e] = 101 /\ s[1] = d /\ e # Len(s) + 1
  <2>1. e \in 1..e /\ 1 \in 1..e /\ e <= Len(s) /\ e # Len(s) + 1
    BY <1>8, <1>9, <1>11, <1>12
  <2> QED
    BY <1>9, <1>11, <1>13, <2>1
<1>15. n > 1 => s[2] = POINT /\ \A k \in 2..n : s[k + 1] = dig[k]
  <2> SUFFICES ASSUME n > 1 PROVE s[2] = POINT /\ \A k \in 2..n : s[k + 1] = dig[k]
    OBVIOUS
  <2>1. 2 \in 1..e /\ \A k \in 2..n : k + 1 \in 1..e
    BY <1>1, <1>8
  <2> QED
    BY <1>10, <1>13, <2>1
<1>16. MantissaLen(2, e) = n
  BY <1>1, <1>8 DEF MantissaLen
<1>17. \A k \in 1..n : DigitAt(s, 2, k) = dig[k]
  <2> TAKE k \in 1..n
  <2>1. k = 1 \/ (k \in 2..n /\ n > 1 /\ ~(k < 2))
    BY <1>1
  <2> QED
    BY <1>14, <1>15, <2>1 DEF DigitAt, d
<1>18. \A j \in 1..(e - 1) : j # 2 => s[j] \in Digits
  <2> TAKE j \in 1..(e - 1)
  <2> SUFFICES ASSUME j # 2 PROVE s[j] \in Digits
    OBVIOUS
  <2>1. j = 1 \/ (n > 1 /\ j - 1 \in 2..n /\ j - 1 + 1 = j)
    BY <1>1, <1>8
  <2>2. CASE j = 1
    <3>1. dig[1] \in Digits
      BY <1>1
    <3> QED
      BY <1>14, <2>2, <3>1 DEF d
  <2>3. CASE n > 1 /\ j - 1 \in 2..n /\ j - 1 + 1 = j
    <3>1. s[j - 1 + 1] = dig[j - 1] /\ j - 1 \in 1..n
      BY <1>1, <1>15, <2>3
    <3> QED
      BY <1>1, <2>3, <3>1
  <2> QED
    BY <2>1, <2>2, <2>3
<1>19. /\ e \in 2..(Len(s) + 1) /\ 2 \in 2..e /\ 2 # e - 1 /\ (2 < e => n > 1) /\ 0 + n <= n
       /\ \A k \in 1..n : 0 + k = k /\ k \in (0 + 1)..(0 + n)
  <2>1. Len(s) \in Nat
    BY <1>11, LenProperties
  <2> QED
    BY <1>1, <1>8, <1>14, <2>1
<1>20. Layout(s, dig, 0, 2, e, x)
  BY <1>1, <1>11, <1>14, <1>15, <1>16, <1>17, <1>18, <1>19 DEF Layout, S, w
<1> QED
  BY <1>20 DEF s, b, l, m, r, w, d

LEMMA ZeroLayout == Layout(<<ZERO, POINT, ZERO>>, <<>>, 0, 2, 4, 0)
<1> DEFINE s == <<ZERO, POINT, ZERO>>
<1>1. s \in Seq(Byte) /\ Len(s) = 3 /\ s[1] = ZERO /\ s[2] = POINT /\ s[3] = ZERO
  BY DEF ZERO, POINT, Byte
<1>2. MantissaLen(2, 4) = 2 /\ Len(<<>>) = 0
  BY DEF MantissaLen
<1> HIDE DEF s
<1>3. DigitAt(s, 2, 1) = ZERO /\ DigitAt(s, 2, 2) = ZERO
  BY <1>1 DEF DigitAt
<1>4. \A j \in 1..(4 - 1) : j # 2 => s[j] \in Digits
  <2>1. \A j \in 1..(4 - 1) : j = 1 \/ j = 2 \/ j = 3
    OBVIOUS
  <2> QED
    BY <1>1, <2>1, Bytes
<1>5. \A k \in 1..2 : DigitAt(s, 2, k) = ZERO
  <2>1. \A k \in 1..2 : k = 1 \/ k = 2
    OBVIOUS
  <2> QED
    BY <1>3, <2>1
<1>6. 4 \in 2..(3 + 1) /\ 2 \in 2..4 /\ 2 # 4 - 1 /\ ~(4 <= 3) /\ 2 < 4 /\ 0 + 0 <= 2
  OBVIOUS
<1>7. Layout(s, <<>>, 0, 2, 4, 0)
  BY <1>1, <1>2, <1>4, <1>5, <1>6 DEF Layout
<1> QED
  BY <1>7 DEF s

\* Each is a layout of the digits with their point at kk.
LEMMA PrettyLayout ==
    ASSUME NEW dig, NEW n, Shortest(dig, n), NEW kk \in Int
    PROVE  \E a, p, e, x : Layout(Pretty(dig, kk), dig, a, p, e, x) /\ p - 1 + x - a = kk
<1>1. n = Len(dig) /\ n \in Nat \ {0}
  BY DEF Shortest
<1>2. CASE n <= kk /\ kk <= 16
  <2>1. Pretty(dig, kk) = dig \o Zeros(kk - n) \o <<POINT, ZERO>>
    BY <1>1, <1>2 DEF Pretty
  <2>2. Layout(Pretty(dig, kk), dig, 0, kk + 1, kk + 3, 0)
    BY <1>2, <2>1, IntegerLayout
  <2>3. kk + 1 - 1 + 0 - 0 = kk
    OBVIOUS
  <2> QED
    BY <2>2, <2>3
<1>3. CASE ~(n <= kk /\ kk <= 16) /\ kk \in 1..16
  <2>1. Pretty(dig, kk) = SubSeq(dig, 1, kk) \o <<POINT>> \o SubSeq(dig, kk + 1, n)
    BY <1>1, <1>3 DEF Pretty
  <2>2. 1 <= kk /\ kk < n
    BY <1>1, <1>3
  <2>3. Layout(Pretty(dig, kk), dig, 0, kk + 1, n + 2, 0)
    BY <2>1, <2>2, PointLayout
  <2>4. kk + 1 - 1 + 0 - 0 = kk
    OBVIOUS
  <2> QED
    BY <2>3, <2>4
<1>4. CASE ~(n <= kk /\ kk <= 16) /\ kk \notin 1..16 /\ kk \in -4..0
  <2> DEFINE z == -kk
  <2>1. Pretty(dig, kk) = <<ZERO, POINT>> \o Zeros(z) \o dig
    BY <1>1, <1>4 DEF Pretty
  <2>2. z \in Nat /\ 2 - 1 + 0 - (z + 1) = kk
    BY <1>4
  <2> HIDE DEF z
  <2>3. Layout(Pretty(dig, kk), dig, z + 1, 2, z + n + 3, 0)
    BY <2>1, <2>2, SmallLayout
  <2> QED
    BY <2>2, <2>3
<1>5. CASE ~(n <= kk /\ kk <= 16) /\ kk \notin 1..16 /\ kk \notin -4..0
  <2> DEFINE x == kk - 1
  <2>1. Pretty(dig, kk) = <<dig[1]>> \o (IF n = 1 THEN <<>> ELSE <<POINT>> \o Tail(dig))
                              \o <<101>> \o IntText(x)
    BY <1>1, <1>5 DEF Pretty
  <2>2. x \in Int /\ 2 - 1 + x - 0 = kk
    OBVIOUS
  <2> HIDE DEF x
  <2>3. \E e : Layout(Pretty(dig, kk), dig, 0, 2, e, x)
    <3>1. \E e : Layout(<<dig[1]>> \o (IF n = 1 THEN <<>> ELSE <<POINT>> \o Tail(dig))
                           \o <<101>> \o IntText(x), dig, 0, 2, e, x)
      BY <2>2, ScientificLayout, Zenon
    <3> QED
      BY <2>1, <3>1, Zenon
  <2> QED
    BY <2>2, <2>3
<1> QED
  BY <1>2, <1>3, <1>4, <1>5
-----------------------------------------------------------------------------
(* The special words.                                                      *)

LEMMA LowerIsSeq ==
    ASSUME NEW x \in Seq(Nat)
    PROVE  /\ Lower(x) \in Seq(Nat) /\ Len(Lower(x)) = Len(x)
           /\ \A k \in 1..Len(x) : Lower(x)[k] = IF x[k] \in 65..90 THEN x[k] + 32 ELSE x[k]
<1> DEFINE n == Len(x)
           y == [k \in 1..n |-> IF x[k] \in 65..90 THEN x[k] + 32 ELSE x[k]]
<1>1. n \in Nat /\ DOMAIN x = 1..n /\ \A k \in 1..n : x[k] \in Nat
  BY LenProperties, ElementOfSeq
<1>2. Lower(x) = y
  BY <1>1 DEF Lower
<1>3. \A k \in 1..n : (IF x[k] \in 65..90 THEN x[k] + 32 ELSE x[k]) \in Nat
  BY <1>1
<1> HIDE DEF n
<1>4. y \in [1..n -> Nat]
  BY <1>3
<1>5. y \in Seq(Nat) /\ Len(y) = n
  <2> HIDE DEF y
  <2> QED
    BY <1>1, <1>4
<1> QED
  BY <1>2, <1>5 DEF n

LEMMA LowerIs ==
    ASSUME NEW x \in Seq(Nat), NEW w \in Seq(Nat), Len(w) = Len(x),
           \A k \in 1..Len(x) : w[k] = IF x[k] \in 65..90 THEN x[k] + 32 ELSE x[k]
    PROVE  Lower(x) = w
<1> DEFINE y == Lower(x)
           n == Len(x)
<1>1. /\ y \in Seq(Nat) /\ Len(y) = n
      /\ \A k \in 1..n : y[k] = IF x[k] \in 65..90 THEN x[k] + 32 ELSE x[k]
  BY LowerIsSeq
<1> HIDE DEF y
<1>2. \A k \in 1..n : y[k] = w[k]
  BY <1>1
<1>3. y = w
  BY <1>1, <1>2, SeqEqual
<1> QED
  BY <1>3 DEF y

LEMMA NanLower ==
    LET t == <<78, 97, 78>>
    IN  t \in Seq(Byte) /\ Len(t) = 3 /\ t[1] = 78 /\ Range(t) \subseteq NumberByte /\ Lower(t) = NAN
<1> DEFINE t == <<78, 97, 78>>
           w == NAN
           n == 3
<1>1. /\ t \in Seq(Byte) /\ t \in Seq(Nat) /\ Len(t) = n /\ DOMAIN t = 1..n
      /\ t[1] = 78 /\ t[2] = 97 /\ t[3] = 78
  BY DEF Byte
<1>2. w \in Seq(Nat) /\ Len(w) = n /\ w[1] = 110 /\ w[2] = 97 /\ w[3] = 110
  BY DEF NAN
<1>3. \A k \in 1..n : k = 1 \/ k = 2 \/ k = 3
  OBVIOUS
<1> HIDE DEF t, w, n
<1>4. ASSUME NEW k \in 1..n PROVE w[k] = IF t[k] \in 65..90 THEN t[k] + 32 ELSE t[k]
  <2>1. 78 \in 65..90 /\ 78 + 32 = 110 /\ 97 \notin 65..90
    OBVIOUS
  <2>2. CASE k = 1
    BY <1>1, <1>2, <2>1, <2>2
  <2>3. CASE k = 2
    BY <1>1, <1>2, <2>1, <2>3
  <2>4. CASE k = 3
    BY <1>1, <1>2, <2>1, <2>4
  <2> QED
    BY <1>3, <2>2, <2>3, <2>4
<1>5. Lower(t) = w
  BY <1>1, <1>2, <1>4, LowerIs
<1>6. 78 \in NumberByte /\ 97 \in NumberByte
  BY DEF NumberByte
<1>7. Range(t) \subseteq NumberByte
  BY <1>1, <1>3, <1>6 DEF Range
<1> QED
  BY <1>1, <1>5, <1>7 DEF t, w, n

\* Infinity, as appendFloat writes it.
InfText == <<73>> \o Tail(INFINITY)

LEMMA InfLower ==
    /\ InfText \in Seq(Byte) /\ InfText # <<>> /\ InfText[1] = 73
    /\ Range(InfText) \subseteq NumberByte /\ Lower(InfText) = INFINITY
<1> DEFINE t == InfText
           w == INFINITY
           S == Byte
           q == Tail(w)
           n == Len(w)
           Letters == {110, 102, 105, 116, 121}
<1>1. w \in Seq(S) /\ w \in Seq(Nat) /\ n \in Nat \ {0} /\ w # <<>> /\ w[1] = 105 /\ 73 \in S
  BY DEF INFINITY, Byte
<1>2. \A k \in 2..n : w[k] \in Letters
  <2>1. /\ w[2] = 110 /\ w[3] = 102 /\ w[4] = 105 /\ w[5] = 110
        /\ w[6] = 105 /\ w[7] = 116 /\ w[8] = 121
    BY DEF INFINITY
  <2>2. n = 8
    BY DEF INFINITY
  <2>3. \A k \in 2..8 : k = 2 \/ k = 3 \/ k = 4 \/ k = 5 \/ k = 6 \/ k = 7 \/ k = 8
    OBVIOUS
  <2> HIDE DEF w, n
  <2> QED
    BY <2>1, <2>2, <2>3
<1> HIDE DEF w, S, q, n
<1>3. q \in Seq(S) /\ Len(q) = n - 1 /\ \A k \in 1..Len(q) : q[k] = w[k + 1]
  BY <1>1, HeadTailProperties DEF q, n
<1>4. t = <<73>> \o q
  BY DEF InfText, q, w
<1> HIDE DEF t
<1>5. t \in Seq(S) /\ Len(t) = Len(q) + 1 /\ t[1] = 73 /\ \A k \in 1..Len(q) : t[k + 1] = q[k]
  BY <1>1, <1>3, <1>4, InFront
<1>6. \A k \in 2..n : t[k] = w[k]
  <2> TAKE k \in 2..n
  <2>1. k - 1 \in 1..Len(q) /\ k - 1 + 1 = k
    BY <1>1, <1>3
  <2>2. t[k - 1 + 1] = q[k - 1] /\ q[k - 1] = w[k - 1 + 1]
    BY <1>3, <1>5, <2>1
  <2> QED
    BY <2>1, <2>2
<1>7. t \in Seq(Nat) /\ Len(t) = n /\ DOMAIN t = 1..n
  <2>1. Byte \subseteq Nat
    BY DEF Byte
  <2>2. t \in Seq(Nat)
    BY <1>5, <2>1, SeqMonotonic DEF S
  <2>3. Len(t) = n
    BY <1>1, <1>3, <1>5
  <2> QED
    BY <2>2, <2>3, LenProperties
<1>8. \A k \in 1..n : k = 1 \/ k \in 2..n
  BY <1>1
<1>9. ASSUME NEW k \in 1..n PROVE w[k] = IF t[k] \in 65..90 THEN t[k] + 32 ELSE t[k]
  <2>1. \A c \in Letters : c \notin 65..90
    OBVIOUS
  <2> HIDE DEF Letters
  <2>2. 73 \in 65..90 /\ 73 + 32 = 105
    OBVIOUS
  <2>3. CASE k = 1
    BY <1>1, <1>5, <2>2, <2>3
  <2>4. CASE k \in 2..n
    <3>1. t[k] = w[k] /\ w[k] \in Letters
      BY <1>2, <1>6, <2>4
    <3>2. t[k] \notin 65..90
      BY <2>1, <3>1
    <3> QED
      BY <3>1, <3>2
  <2> QED
    BY <1>8, <2>3, <2>4
<1>10. Lower(t) = w
  <2>1. Len(w) = Len(t)
    BY <1>7 DEF n
  <2> QED
    BY <1>1, <1>7, <1>9, <2>1, LowerIs
<1>11. Range(t) \subseteq NumberByte
  <2>1. 73 \in NumberByte /\ Letters \subseteq NumberByte
    BY DEF NumberByte
  <2> HIDE DEF Letters
  <2>2. \A k \in 1..n : t[k] = 73 \/ t[k] \in Letters
    BY <1>2, <1>5, <1>6, <1>8
  <2> QED
    BY <1>7, <2>1, <2>2 DEF Range
<1>12. t # <<>>
  BY <1>1, <1>7, EmptySeq
<1> QED
  BY <1>5, <1>10, <1>11, <1>12 DEF t, w, S

\* A word behind a sign or not is read, as what it is.
LEMMA WordRead ==
    ASSUME NEW t \in Seq(Byte), t # <<>>, t[1] \in {MINUS, 73, 78}, Range(t) \subseteq NumberByte,
           NEW s, SubSeq(t, First(t), Len(t)) = s, Lower(s) \in {NAN, INFINITY}
    PROVE  /\ Scalar(t) /\ t[1] \in Digits \cup {MINUS, 73, 78}
           /\ NumberOf(t) = IF Lower(s) = NAN THEN Special("NaN")
                            ELSE Special(IF First(t) = 2 THEN "-Inf" ELSE "Inf")
<1>1. SpecialWord(t)
  BY WordPart
<1>2. Scalar(t)
  BY <1>1 DEF Scalar
<1> QED
  BY <1>2 DEF NumberOf

LEMMA SpecialRead ==
    ASSUME NEW f \in {Special("NaN"), Special("Inf"), Special("-Inf")}
    PROVE  LET t == FloatText(f)
           IN  /\ t \in Seq(Byte) /\ Scalar(t)
               /\ t[1] \in Digits \cup {MINUS, 73, 78} /\ NumberOf(t) = f
<1>1. Special("NaN") # Special("Inf") /\ Special("NaN") # Special("-Inf") /\ Special("Inf") # Special("-Inf")
  BY DEF Special
<1>2. 73 # MINUS /\ 78 # MINUS
  BY DEF MINUS
<1>3. NAN # INFINITY
  <2>1. NAN[1] = 110 /\ INFINITY[1] = 105
    BY DEF NAN, INFINITY
  <2> QED
    BY <2>1
<1>4. CASE f = Special("NaN")
  <2> DEFINE t == <<78, 97, 78>>
  <2>1. FloatText(f) = t
    BY <1>4 DEF FloatText
  <2>2. t \in Seq(Byte) /\ Len(t) = 3 /\ t[1] = 78 /\ Range(t) \subseteq NumberByte /\ Lower(t) = NAN
    BY NanLower
  <2> HIDE DEF t
  <2>3. t # <<>> /\ First(t) = 1 /\ SubSeq(t, 1, Len(t)) = t
    BY SMTT(30), <1>2, <2>2, EmptySeq, SubSeqFull DEF First
  <2>4. /\ Scalar(t) /\ t[1] \in Digits \cup {MINUS, 73, 78}
        /\ NumberOf(t) = Special("NaN")
    BY <2>2, <2>3, WordRead
  <2> QED
    BY <1>4, <2>1, <2>2, <2>4
<1>5. CASE f = Special("Inf")
  <2> DEFINE t == InfText
  <2>1. FloatText(f) = t
    <3>1. FloatText(f) = <<>> \o <<73>> \o Tail(INFINITY)
      BY <1>1, <1>5 DEF FloatText
    <3>2. <<>> \o <<73>> = <<73>>
      <4> DEFINE x == <<73>>
      <4>1. x \in Seq(Nat)
        OBVIOUS
      <4> HIDE DEF x
      <4>2. <<>> \o x = x
        BY <4>1, ConcatEmptySeq
      <4> QED
        BY <4>2 DEF x
    <3> QED
      BY <3>1, <3>2 DEF InfText
  <2>2. /\ t \in Seq(Byte) /\ t # <<>> /\ t[1] = 73 /\ Range(t) \subseteq NumberByte
        /\ Lower(t) = INFINITY
    BY InfLower
  <2> HIDE DEF t
  <2>3. t # <<>> /\ First(t) = 1 /\ SubSeq(t, 1, Len(t)) = t
    BY <1>2, <2>2, EmptySeq, SubSeqFull DEF First
  <2>4. /\ Scalar(t) /\ t[1] \in Digits \cup {MINUS, 73, 78}
        /\ NumberOf(t) = Special("Inf")
    BY <1>3, <2>2, <2>3, WordRead
  <2> QED
    BY <1>5, <2>1, <2>2, <2>4
<1>6. CASE f = Special("-Inf")
  <2> DEFINE S == Byte
             t == <<MINUS>> \o InfText
  <2>1. FloatText(f) = t
    <3>1. FloatText(f) = <<MINUS>> \o <<73>> \o Tail(INFINITY)
      BY <1>1, <1>6 DEF FloatText
    <3> DEFINE x == <<MINUS>>
               y == <<73>>
               z == Tail(INFINITY)
    <3>2. x \in Seq(Nat) /\ y \in Seq(Nat)
      BY DEF MINUS
    <3>3. z \in Seq(Nat)
      <4>1. INFINITY \in Seq(Nat) /\ INFINITY # <<>>
        BY DEF INFINITY
      <4> QED
        BY <4>1, HeadTailProperties
    <3> HIDE DEF x, y, z
    <3>4. (x \o y) \o z = x \o (y \o z)
      BY <3>2, <3>3, ConcatAssociative
    <3> QED
      BY <3>1, <3>4 DEF x, y, z, InfText
  <2>2. /\ InfText \in Seq(S) /\ Range(InfText) \subseteq NumberByte
        /\ Lower(InfText) = INFINITY /\ MINUS \in S
    BY InfLower DEF MINUS, Byte
  <2> DEFINE n == Len(InfText)
  <2> HIDE DEF S
  <2>3. /\ t \in Seq(S) /\ Len(t) = n + 1 /\ t[1] = MINUS /\ Tail(t) = InfText
        /\ \A k \in 1..n : t[k + 1] = InfText[k]
    BY <2>2, InFront
  <2> HIDE DEF t, n
  <2>4. n \in Nat /\ DOMAIN t = 1..(n + 1) /\ DOMAIN InfText = 1..n
    BY <2>2, <2>3, LenProperties DEF n
  <2>5. t # <<>> /\ First(t) = 2 /\ SubSeq(t, 2, Len(t)) = InfText
    <3>1. t # <<>>
      BY <2>3, <2>4, EmptySeq
    <3> QED
      BY <2>3, <3>1, TailIsSubSeq DEF First
  <2>6. Range(t) \subseteq NumberByte
    <3>1. MINUS \in NumberByte
      BY DEF NumberByte
    <3>2. ASSUME NEW k \in 1..(n + 1) PROVE t[k] \in NumberByte
      <4>1. CASE k = 1
        BY <2>3, <3>1, <4>1
      <4>2. CASE k # 1
        <5>1. k - 1 \in 1..n /\ k - 1 + 1 = k
          BY <2>4, <4>2
        <5>2. t[k - 1 + 1] = InfText[k - 1]
          BY <2>3, <5>1
        <5>3. InfText[k - 1] \in NumberByte
          BY <2>2, <2>4, <5>1 DEF Range
        <5> QED
          BY <5>1, <5>2, <5>3
      <4> QED
        BY <4>1, <4>2
    <3> QED
      BY <2>4, <3>2 DEF Range
  <2>7. /\ Scalar(t) /\ t[1] \in Digits \cup {MINUS, 73, 78}
        /\ NumberOf(t) = Special("-Inf")
    BY <1>3, <2>2, <2>3, <2>5, <2>6, WordRead DEF S
  <2> QED
    BY <1>6, <2>1, <2>3, <2>7 DEF S
<1> QED
  BY <1>4, <1>5, <1>6

\* A decimal written in any layout is read, as itself.
LEMMA DecimalRead ==
    ASSUME NEW f, ShortestDecimal(f)
    PROVE  LET t == FloatText(f)
           IN  /\ t \in Seq(Byte) /\ Scalar(t)
               /\ t[1] \in Digits \cup {MINUS, 73, 78} /\ NumberOf(t) = f
<1> DEFINE dig == f.digits
           neg == f.neg
           kk == f.kk
           s == IF dig = <<>> THEN <<ZERO, POINT, ZERO>> ELSE Pretty(dig, kk)
<1>1. /\ dig \in Seq(Digits) /\ neg \in BOOLEAN /\ kk \in Int
      /\ f = Float(neg, dig, kk)
      /\ dig = <<>> => kk = 0
      /\ dig # <<>> => dig[1] # ZERO /\ dig[Len(dig)] # ZERO
  BY DEF ShortestDecimal, Float
<1>2. f \notin {Special("NaN"), Special("Inf"), Special("-Inf")}
  <2>1. "neg" \in DOMAIN f
    BY DEF ShortestDecimal
  <2>2. \A w : "neg" \notin DOMAIN Special(w)
    BY DEF Special
  <2> QED
    BY <2>1, <2>2
<1>3. FloatText(f) = (IF neg THEN <<MINUS>> ELSE <<>>) \o s
  BY <1>2 DEF FloatText
<1> HIDE DEF dig, neg, kk
<1>4. dig \in Seq(Byte)
  <2>1. Digits \subseteq Byte
    BY DEF Digits, Byte
  <2> QED
    BY <1>1, <2>1, SeqMonotonic
<1>5. \E a, p, e, x : /\ Layout(s, dig, a, p, e, x)
                      /\ dig # <<>> => p - 1 + x - a = kk
  <2>1. CASE dig = <<>>
    BY <2>1, ZeroLayout
  <2>2. CASE dig # <<>>
    <3> DEFINE n == Len(dig)
    <3>1. n \in Nat \ {0} /\ \A k \in 1..n : dig[k] \in Digits
      BY <1>1, <2>2, EmptySeq, ElementOfSeq
    <3>2. Shortest(dig, n)
      BY <1>1, <1>4, <2>2, <3>1 DEF Shortest
    <3> HIDE DEF n
    <3>3. \E a, p, e, x : Layout(Pretty(dig, kk), dig, a, p, e, x) /\ p - 1 + x - a = kk
      BY <1>1, <3>2, PrettyLayout
    <3> QED
      BY <2>2, <3>3
  <2> QED
    BY <2>1, <2>2
<1> HIDE DEF s
<1>6. PICK a, p, e, x : /\ Layout(s, dig, a, p, e, x)
                        /\ dig # <<>> => p - 1 + x - a = kk
  BY <1>5
<1> DEFINE t == WithSign(neg, s)
<1>7. /\ t \in Seq(Byte) /\ Scalar(t)
      /\ t[1] \in Digits \cup {MINUS, 73, 78}
      /\ NumberOf(t) = IF dig = <<>> THEN Float(neg, <<>>, 0)
                       ELSE Float(neg, dig, p - 1 + x - a)
  <2>1. ReadsAs(t, neg, dig, p - 1 + x - a)
    BY <1>1, <1>4, <1>6, LayoutRead
  <2> QED
    BY <2>1 DEF ReadsAs
<1>8. NumberOf(t) = f
  <2> HIDE DEF t
  <2> QED
    BY <1>1, <1>6, <1>7
<1>9. FloatText(f) = t
  <2>1. s \in Seq(Byte)
    BY <1>6 DEF Layout
  <2>2. <<>> \o s = s
    BY <2>1, ConcatEmptySeq
  <2>3. CASE neg = TRUE
    BY <1>3, <2>3 DEF WithSign
  <2>4. CASE neg = FALSE
    BY <1>3, <2>2, <2>4 DEF WithSign
  <2> QED
    BY <1>1, <2>3, <2>4
<1> HIDE DEF t
<1> QED
  BY <1>7, <1>8, <1>9

LEMMA ValueInvFloat == input \in Inputs /\ LanguageInv /\ ValueInv => FloatReadsBack
<1> DEFINE v == input.number
<1> SUFFICES ASSUME input \in Inputs, LanguageInv, ValueInv, IsA("number", input), Finished,
                    ~IsA("int", v), ~IsA("big", v)
             PROVE  Accepted /\ result = v
  BY DEF FloatReadsBack
<1>1. input \in [number : Numbers] /\ v \in Numbers
  BY NumberInput
<1>2. ShortestDecimal(v) \/ v \in {Special("NaN"), Special("Inf"), Special("-Inf")}
  <2>1. v \notin [int : Int] \cup [big : Int]
    BY DEF IsA
  <2> QED
    BY <1>1, <2>1, NumbersAssumption
<1> DEFINE t == FloatText(v)
<1>3. /\ t \in Seq(Byte) /\ Scalar(t)
      /\ t[1] \in Digits \cup {MINUS, 73, 78} /\ NumberOf(t) = v
  <2> HIDE DEF v
  <2> QED
    BY <1>2, DecimalRead, SpecialRead
<1>4. t = NumberText(input.number)
  BY DEF NumberText
<1> HIDE DEF t, v
<1>5. Accepted /\ result = NumberOf(t)
  BY <1>1, <1>3, <1>4, NumberRead
<1> QED
  BY <1>3, <1>5

\* A float of any digits, written by appendFloat in whichever of its layouts, is read as
\* a float, never as an integer, and as the same sign, digits and point; NaN and the
\* infinities read as themselves.
THEOREM FloatsExact == ScalarSpec => []FloatReadsBack
  BY InputStays, LanguageInvariance, ValueInvariance, ValueInvFloat, PTL
=============================================================================
