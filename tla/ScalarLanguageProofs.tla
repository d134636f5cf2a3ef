------------------------ MODULE ScalarLanguageProofs ------------------------
(***************************************************************************)
(* Which texts are read as scalars: for texts of any length, parseNumber   *)
(* and the two loops of numberFromToken (decode.go) accept exactly JSON's  *)
(* numbers and the special words, and parseLiteral its three words; and    *)
(* skipWS passes over just what is blank around them.                      *)
(***************************************************************************)
EXTENDS ScalarText, SequenceFacts, TLAPS

\* Between positions i and j of s there are digits only.
Run(s, i, j) == \A k \in i..j : s[k] \in Digits

\* The grammar by positions: the integer part ends at i, the fraction at f.
NoLeadingZero(s) ==
    s[First(s)] = ZERO /\ First(s) < Len(s) => s[First(s) + 1] \notin Digits
IntPart(s, i) == i \in First(s)..Len(s) /\ Run(s, First(s), i)
FracPart(s, i, f) ==
    \/ f = i
    \/ f \in (i + 2)..Len(s) /\ s[i + 1] = POINT /\ Run(s, i + 2, f)
ExpDigits(s, f) ==
    LET g == IF f + 2 <= Len(s) /\ s[f + 2] \in {PLUS, MINUS} THEN f + 2 ELSE f + 1
    IN  g < Len(s) /\ Run(s, g + 1, Len(s))
ExpPart(s, f) ==
    \/ f = Len(s)
    \/ f < Len(s) /\ s[f + 1] \in Exponents /\ ExpDigits(s, f)
Grammar(s, i, f) ==
    IntPart(s, i) /\ NoLeadingZero(s) /\ FracPart(s, i, f) /\ ExpPart(s, f)
-----------------------------------------------------------------------------
(* The bytes of numbers.                                                   *)

\* No byte of a number is of two kinds.
LEMMA KindsApart ==
    /\ POINT \notin Digits /\ POINT \notin Exponents /\ POINT # MINUS /\ POINT # PLUS
    /\ MINUS \notin Digits /\ PLUS \notin Digits /\ MINUS \notin Exponents /\ PLUS \notin Exponents
    /\ \A c \in Exponents : c \notin Digits
    /\ ZERO \in Digits
  BY DEF POINT, MINUS, PLUS, ZERO, Exponents, Digits

\* The position of the first digit.
LEMMA FirstIs ==
    ASSUME NEW s
    PROVE  /\ First(s) \in {1, 2} /\ First(s) \in Nat
           /\ First(s) = 2 <=> s[1] = MINUS
  BY DEF First

\* A part of s, byte by byte.
LEMMA Part ==
    ASSUME NEW s \in Seq(Byte), NEW p \in Nat \ {0}, NEW q \in 0..Len(s), p <= q + 1
    PROVE  LET x == SubSeq(s, p, q)
           IN  /\ x \in Seq(Byte) /\ Len(x) = q - p + 1
               /\ \A k \in 1..Len(x) : x[k] = s[p + k - 1]
               /\ \A k \in p..q : k - p + 1 \in 1..Len(x) /\ x[k - p + 1] = s[k]
<1> DEFINE n == q - p + 1
           x == SubSeq(s, p, q)
           S == Byte
<1>1. n \in Nat /\ p + n - 1 = q /\ p + n - 1 <= Len(s) /\ Len(s) \in Nat
  BY LenProperties
<1> HIDE DEF S
<1>2. x \in Seq(S) /\ Len(x) = n /\ \A k \in 1..n : x[k] = s[p + k - 1]
  <2>1. s \in Seq(S)
    BY DEF S
  <2> HIDE DEF n
  <2> QED
    BY <1>1, <2>1, SubSeqPart
<1> HIDE DEF x
<1>3. \A k \in p..q : k - p + 1 \in 1..n /\ p + (k - p + 1) - 1 = k
  BY <1>1
<1>4. \A k \in p..q : k - p + 1 \in 1..n /\ x[k - p + 1] = s[k]
  BY <1>2, <1>3
<1> QED
  BY <1>2, <1>4 DEF x, S, n

\* A part of s of digits.
LEMMA DigitsOfPart ==
    ASSUME NEW s \in Seq(Byte), NEW p \in Nat \ {0}, NEW q \in 0..Len(s)
    PROVE  IsDigits(SubSeq(s, p, q)) <=> p <= q /\ Run(s, p, q)
<1> DEFINE x == SubSeq(s, p, q)
<1>1. CASE p > q
  <2>1. x = <<>>
    BY <1>1, SubSeqEmpty
  <2> QED
    BY <1>1, <2>1 DEF IsDigits
<1>2. CASE p <= q
  <2>1. /\ x \in Seq(Byte) /\ Len(x) = q - p + 1
        /\ \A k \in 1..Len(x) : x[k] = s[p + k - 1]
        /\ \A k \in p..q : k - p + 1 \in 1..Len(x) /\ x[k - p + 1] = s[k]
    BY <1>2, Part
  <2> HIDE DEF x
  <2>2. x # <<>> /\ DOMAIN x = 1..Len(x) /\ Len(x) \in Nat
    BY <1>2, <2>1, LenProperties
  <2>3. ASSUME IsDigits(x) PROVE Run(s, p, q)
    <3>1. \A k \in 1..Len(x) : x[k] \in Digits
      BY <2>2, <2>3 DEF IsDigits, Range
    <3> QED
      BY <2>1, <3>1 DEF Run
  <2>4. ASSUME Run(s, p, q) PROVE IsDigits(x)
    <3>1. \A k \in 1..Len(x) : p + k - 1 \in p..q
      BY <1>2, <2>1
    <3>2. \A k \in 1..Len(x) : x[k] \in Digits
      BY <2>1, <2>4, <3>1 DEF Run
    <3> QED
      BY <2>2, <3>2 DEF IsDigits, Range
  <2> QED
    BY <1>2, <2>3, <2>4 DEF x
<1> QED
  BY <1>1, <1>2

\* What follows an exponent's letter, f being where the part before it ends.
LEMMA ExpMeaning ==
    ASSUME NEW s \in Seq(Byte), NEW f \in Nat, f < Len(s)
    PROVE  IsDigits(Unsigned(SubSeq(s, f + 2, Len(s)))) <=> ExpDigits(s, f)
<1> DEFINE n == Len(s)
           x == SubSeq(s, f + 2, n)
<1>1. n \in Nat /\ f + 1 <= n /\ f + 2 \in Nat \ {0} /\ f + 3 \in Nat \ {0} /\ n \in 0..Len(s)
      /\ f + 2 + 1 = f + 3 /\ f + 1 + 1 = f + 2
  BY LenProperties
<1>2. CASE f + 1 = n
  <2>1. x = <<>>
    BY <1>1, <1>2, SubSeqEmpty
  <2>2. ~IsDigits(Unsigned(x))
    BY <2>1 DEF IsDigits, Unsigned
  <2>3. ~ExpDigits(s, f)
    BY <1>1, <1>2 DEF ExpDigits
  <2> QED
    BY <2>2, <2>3
<1>3. CASE f + 2 <= n
  <2>1. f + 2 \in 1..n /\ n \in (f + 2)..n
    BY <1>1, <1>3
  <2>2. Head(x) = s[f + 2] /\ Tail(x) = SubSeq(s, f + 3, n)
    BY <1>1, <2>1, HeadTailOfSubSeq
  <2>3. x # <<>>
    <3>1. f + 2 <= n + 1 /\ n - (f + 2) + 1 # 0 /\ Len(<<>>) = 0
      BY <1>1, <1>3
    <3>2. Len(x) = n - (f + 2) + 1
      BY <1>1, <3>1, Part
    <3> QED
      BY <3>1, <3>2
  <2> HIDE DEF x
  <2>4. CASE s[f + 2] \in {PLUS, MINUS}
    <3>1. Unsigned(x) = SubSeq(s, f + 3, n)
      BY <2>2, <2>3, <2>4 DEF Unsigned
    <3>2. IsDigits(SubSeq(s, f + 3, n)) <=> f + 3 <= n /\ Run(s, f + 3, n)
      BY <1>1, DigitsOfPart
    <3>3. ExpDigits(s, f) <=> f + 2 < n /\ Run(s, f + 3, n)
      BY <1>1, <1>3, <2>4 DEF ExpDigits
    <3>4. f + 3 <= n <=> f + 2 < n
      BY <1>1
    <3> QED
      BY <3>1, <3>2, <3>3, <3>4 DEF x
  <2>5. CASE s[f + 2] \notin {PLUS, MINUS}
    <3>1. Unsigned(x) = x
      BY <2>2, <2>3, <2>5 DEF Unsigned
    <3>2. IsDigits(x) <=> f + 2 <= n /\ Run(s, f + 2, n)
      BY <1>1, DigitsOfPart DEF x
    <3>3. ExpDigits(s, f) <=> f + 1 < n /\ Run(s, f + 2, n)
      BY <1>1, <2>5 DEF ExpDigits
    <3>4. f + 2 <= n <=> f + 1 < n
      BY <1>1
    <3> QED
      BY <3>1, <3>2, <3>3, <3>4 DEF x
  <2> QED
    BY <2>4, <2>5
<1> QED
  BY <1>1, <1>2, <1>3

\* The parts of JsonNumber, by positions.
ByPosition(s, a, i, f) ==
    /\ a = 0 \/ s[1] = MINUS
    /\ a < i /\ Run(s, a + 1, i) /\ (a + 1 < i => s[a + 1] # ZERO)
    /\ i < f => s[i + 1] = POINT /\ i + 2 <= f /\ Run(s, i + 2, f)
    /\ f < Len(s) => s[f + 1] \in Exponents /\ ExpDigits(s, f)

LEMMA SignPart ==
    ASSUME NEW s \in Seq(Byte), NEW a \in 0..Len(s), a <= 1
    PROVE  SubSeq(s, 1, a) \in {<<>>, <<MINUS>>} <=> a = 0 \/ s[1] = MINUS
<1>1. CASE a = 0
  BY <1>1, SubSeqEmpty
<1>2. CASE a = 1
  <2> DEFINE x == SubSeq(s, 1, a)
  <2>1. x \in Seq(Byte) /\ Len(x) = 1 /\ x[1] = s[1]
    <3>1. 1 \in Nat \ {0} /\ 1 <= a + 1 /\ a - 1 + 1 = 1 /\ 1 + 1 - 1 = 1 /\ 1 \in 1..1
      BY <1>2
    <3> QED
      BY <3>1, Part
  <2> HIDE DEF x
  <2>2. x = <<s[1]>>
    BY <2>1, OneElement
  <2>3. <<s[1]>> = <<MINUS>> <=> s[1] = MINUS
    OBVIOUS
  <2> QED
    BY <1>2, <2>2, <2>3 DEF x
<1> QED
  BY <1>1, <1>2

LEMMA JsonByPosition ==
    ASSUME NEW s \in Seq(Byte)
    PROVE  JsonNumber(s) <=>
               \E a, i, f \in 0..Len(s) : a <= 1 /\ a <= i /\ i <= f /\ ByPosition(s, a, i, f)
<1> DEFINE n == Len(s)
<1>1. n \in Nat
  BY LenProperties
<1>2. ASSUME NEW a \in 0..n, NEW i \in 0..n, NEW f \in 0..n, a <= 1, a <= i, i <= f
      PROVE  LET int  == SubSeq(s, a + 1, i)
                 frac == SubSeq(s, i + 1, f)
                 exp  == SubSeq(s, f + 1, n)
             IN  ByPosition(s, a, i, f) <=>
                   /\ SubSeq(s, 1, a) \in {<<>>, <<MINUS>>}
                   /\ IsDigits(int) /\ (Len(int) > 1 => int[1] # ZERO)
                   /\ frac # <<>> => frac[1] = POINT /\ IsDigits(Tail(frac))
                   /\ exp # <<>> => exp[1] \in Exponents /\ IsDigits(Unsigned(Tail(exp)))
  <2> DEFINE int  == SubSeq(s, a + 1, i)
             frac == SubSeq(s, i + 1, f)
             exp  == SubSeq(s, f + 1, n)
  <2>1. SubSeq(s, 1, a) \in {<<>>, <<MINUS>>} <=> a = 0 \/ s[1] = MINUS
    BY <1>2, SignPart
  <2>2. IsDigits(int) <=> a < i /\ Run(s, a + 1, i)
    BY <1>1, <1>2, DigitsOfPart
  <2>3. a < i => Len(int) = i - a /\ int[1] = s[a + 1]
    <3>1. SUFFICES ASSUME a < i PROVE Len(int) = i - a /\ int[1] = s[a + 1]
      OBVIOUS
    <3>2. a + 1 \in Nat \ {0} /\ a + 1 <= i + 1 /\ i - (a + 1) + 1 = i - a /\ a + 1 + 1 - 1 = a + 1
          /\ 1 \in 1..(i - a)
      BY <1>1, <3>1
    <3> QED
      BY <1>2, <3>2, Part
  <2>4. /\ frac # <<>> <=> i < f
        /\ i < f => frac[1] = s[i + 1] /\ (IsDigits(Tail(frac)) <=> i + 2 <= f /\ Run(s, i + 2, f))
    <3>1. CASE i = f
      BY <1>1, <3>1, SubSeqEmpty
    <3>2. CASE i < f
      <4>1. i + 1 \in 1..n /\ f \in (i + 1)..n /\ i + 1 + 1 = i + 2 /\ i + 2 \in Nat \ {0}
            /\ f - (i + 1) + 1 # 0 /\ i + 1 \in Nat \ {0} /\ i + 1 <= f + 1
        BY <1>1, <1>2, <3>2
      <4>2. Head(frac) = s[i + 1] /\ Tail(frac) = SubSeq(s, i + 2, f)
        BY <4>1, HeadTailOfSubSeq
      <4>3. frac # <<>>
        BY <1>2, <4>1, Part
      <4>4. IsDigits(SubSeq(s, i + 2, f)) <=> i + 2 <= f /\ Run(s, i + 2, f)
        BY <4>1, DigitsOfPart
      <4> HIDE DEF frac
      <4>5. frac[1] = s[i + 1]
        BY <4>2
      <4> QED
        BY <3>2, <4>2, <4>3, <4>4, <4>5
    <3> QED
      BY <1>1, <1>2, <3>1, <3>2
  <2>5. /\ exp # <<>> <=> f < n
        /\ f < n => exp[1] = s[f + 1] /\ (IsDigits(Unsigned(Tail(exp))) <=> ExpDigits(s, f))
    <3>1. CASE f = n
      BY <1>1, <3>1, SubSeqEmpty
    <3>2. CASE f < n
      <4>1. f + 1 \in 1..n /\ n \in (f + 1)..n /\ f + 1 + 1 = f + 2 /\ f \in Nat
            /\ n - (f + 1) + 1 # 0 /\ f + 1 \in Nat \ {0} /\ f + 1 <= n + 1 /\ n \in 0..Len(s)
        BY <1>1, <1>2, <3>2
      <4>2. Head(exp) = s[f + 1] /\ Tail(exp) = SubSeq(s, f + 2, n)
        BY <4>1, HeadTailOfSubSeq
      <4>3. exp # <<>>
        BY <4>1, Part
      <4>4. IsDigits(Unsigned(SubSeq(s, f + 2, n))) <=> ExpDigits(s, f)
        BY <3>2, <4>1, ExpMeaning
      <4> HIDE DEF exp
      <4>5. exp[1] = s[f + 1]
        BY <4>2
      <4> QED
        BY <3>2, <4>2, <4>3, <4>4, <4>5
    <3> QED
      BY <1>1, <1>2, <3>1, <3>2
  <2> HIDE DEF int, frac, exp
  <2>6. a < i => (Len(int) > 1 <=> a + 1 < i)
    BY <1>1, <2>3
  <2>7. ByPosition(s, a, i, f) <=>
            /\ SubSeq(s, 1, a) \in {<<>>, <<MINUS>>}
            /\ IsDigits(int) /\ (Len(int) > 1 => int[1] # ZERO)
            /\ frac # <<>> => frac[1] = POINT /\ IsDigits(Tail(frac))
            /\ exp # <<>> => exp[1] \in Exponents /\ IsDigits(Unsigned(Tail(exp)))
    BY <2>1, <2>2, <2>3, <2>4, <2>5, <2>6 DEF ByPosition
  <2> QED
    BY <2>7 DEF int, frac, exp
<1> QED
  BY <1>2 DEF JsonNumber

\* JSON's numbers, by positions.
LEMMA JsonGrammar ==
    ASSUME NEW s \in Seq(Byte)
    PROVE  JsonNumber(s) <=> \E i, f \in 1..Len(s) : Grammar(s, i, f)
<1> DEFINE n == Len(s)
           b == First(s)
<1>1. n \in Nat /\ b \in {1, 2} /\ (b = 2 <=> s[1] = MINUS)
  BY LenProperties, FirstIs
<1>2. ASSUME JsonNumber(s) PROVE \E i, f \in 1..n : Grammar(s, i, f)
  <2>1. PICK a, i, f \in 0..n : a <= 1 /\ a <= i /\ i <= f /\ ByPosition(s, a, i, f)
    BY <1>2, JsonByPosition
  <2>2. a < i /\ Run(s, a + 1, i) /\ (a + 1 < i => s[a + 1] # ZERO)
    BY <2>1 DEF ByPosition
  <2>3. b = a + 1
    <3>1. CASE a = 0
      <4>1. 1 \in (a + 1)..i
        BY <1>1, <2>1, <2>2, <3>1
      <4>2. s[1] \in Digits
        BY <2>2, <4>1 DEF Run
      <4> QED
        BY <1>1, <3>1, <4>2, KindsApart
    <3>2. CASE a = 1
      BY <1>1, <2>1, <3>2 DEF ByPosition
    <3> QED
      BY <1>1, <2>1, <3>1, <3>2
  <2> HIDE DEF b
  <2>4. IntPart(s, i)
    BY <1>1, <2>1, <2>2, <2>3 DEF IntPart, b
  <2>5. i < f => s[i + 1] = POINT /\ i + 2 <= f /\ Run(s, i + 2, f)
    BY <2>1 DEF ByPosition
  <2>6. f < n => s[f + 1] \in Exponents /\ ExpDigits(s, f)
    BY <2>1 DEF ByPosition
  <2>7. FracPart(s, i, f)
    BY <1>1, <2>1, <2>5 DEF FracPart
  <2>8. ExpPart(s, f)
    BY <1>1, <2>1, <2>6 DEF ExpPart
  <2>9. NoLeadingZero(s)
    <3> SUFFICES ASSUME s[b] = ZERO, b < n
                 PROVE  s[b + 1] \notin Digits
      BY DEF NoLeadingZero, b
    <3>1. i = b
      BY <1>1, <2>1, <2>2, <2>3
    <3> QED
      BY <1>1, <2>1, <2>5, <2>6, <3>1, KindsApart
  <2> QED
    BY <1>1, <2>1, <2>2, <2>4, <2>7, <2>8, <2>9 DEF Grammar
<1>3. ASSUME NEW i \in 1..n, NEW f \in 1..n, Grammar(s, i, f) PROVE JsonNumber(s)
  <2> DEFINE a == b - 1
  <2>1. a \in 0..n /\ a <= 1 /\ a < i /\ a + 1 = b /\ i \in b..n /\ Run(s, b, i)
    BY <1>1, <1>3 DEF Grammar, IntPart
  <2>2. a = 0 \/ s[1] = MINUS
    BY <1>1
  <2> HIDE DEF a, b
  <2>3. b < i => s[b] # ZERO
    <3>1. b < i => b + 1 \in b..i /\ b < n
      BY <1>1, <2>1
    <3> QED
      BY <1>3, <2>1, <3>1 DEF Grammar, NoLeadingZero, Run, b
  <2>4. i <= f /\ (i < f => s[i + 1] = POINT /\ i + 2 <= f /\ Run(s, i + 2, f))
    BY <1>1, <1>3 DEF Grammar, FracPart
  <2>5. f < n => s[f + 1] \in Exponents /\ ExpDigits(s, f)
    BY <1>1, <1>3 DEF Grammar, ExpPart
  <2>6. ByPosition(s, a, i, f)
    BY <2>1, <2>2, <2>3, <2>4, <2>5 DEF ByPosition
  <2>7. i \in 0..n /\ f \in 0..n /\ a <= i
    BY <1>1, <2>1
  <2> QED
    BY <2>1, <2>4, <2>6, <2>7, JsonByPosition
<1> QED
  BY <1>2, <1>3
-----------------------------------------------------------------------------
(* The grammar determines where its parts end.                             *)

\* Digits from b on end at one place.
LEMMA EndOfDigits ==
    ASSUME NEW s, NEW n \in Nat, NEW b \in Nat, NEW i \in Int, NEW j \in Int,
           b - 1 <= i, i <= n, Run(s, b, i), i < n => s[i + 1] \notin Digits,
           b - 1 <= j, j <= n, Run(s, b, j), j < n => s[j + 1] \notin Digits
    PROVE  i = j
<1>1. CASE i < j
  <2>1. i + 1 \in b..j /\ i < n
    BY <1>1
  <2> QED
    BY <2>1 DEF Run
<1>2. CASE j < i
  <2>1. j + 1 \in b..i /\ j < n
    BY <1>2
  <2> QED
    BY <2>1 DEF Run
<1> QED
  BY <1>1, <1>2

\* What a number has behind its integer part, and behind its fraction.
LEMMA GrammarEnds ==
    ASSUME NEW s \in Seq(Byte), NEW i, NEW f, Grammar(s, i, f)
    PROVE  /\ Len(s) \in Nat /\ First(s) \in 1..2
           /\ i \in First(s)..Len(s) /\ Run(s, First(s), i)
           /\ f \in i..Len(s)
           /\ i < Len(s) => s[i + 1] \notin Digits /\ s[i + 1] \in Exponents \cup {POINT}
           /\ f < Len(s) => s[f + 1] \notin Digits /\ s[f + 1] \in Exponents
           /\ i < Len(s) /\ s[i + 1] = POINT => i + 2 <= f /\ Run(s, i + 2, f)
           /\ i < Len(s) /\ s[i + 1] \in Exponents => f = i
<1>1. Len(s) \in Nat /\ First(s) \in 1..2
  BY LenProperties, FirstIs
<1>2. i \in First(s)..Len(s) /\ Run(s, First(s), i)
  BY DEF Grammar, IntPart
<1>3. \/ f = i
      \/ f \in (i + 2)..Len(s) /\ s[i + 1] = POINT /\ Run(s, i + 2, f)
  BY DEF Grammar, FracPart
<1>4. f = Len(s) \/ (f < Len(s) /\ s[f + 1] \in Exponents)
  BY DEF Grammar, ExpPart
<1>5. f \in i..Len(s)
  BY <1>1, <1>2, <1>3
<1> QED
  BY <1>1, <1>2, <1>3, <1>4, <1>5, KindsApart

\* Nothing else than i and f ends the parts.
LEMMA SameParts ==
    ASSUME NEW s \in Seq(Byte), NEW i, NEW f, Grammar(s, i, f),
           NEW j, NEW h, IntPart(s, j), FracPart(s, j, h), h < Len(s) => s[h + 1] \in Exponents
    PROVE  i = j /\ f = h
<1>1. /\ Len(s) \in Nat /\ First(s) \in 1..2 /\ First(s) \in Nat
      /\ j \in First(s)..Len(s) /\ Run(s, First(s), j)
  BY GrammarEnds DEF IntPart
<1>2. h \in j..Len(s)
  BY <1>1 DEF FracPart
<1>3. j < Len(s) => s[j + 1] \notin Digits
  BY <1>1, KindsApart DEF FracPart
<1>4. i = j
  <2>1. /\ i \in Int /\ First(s) - 1 <= i /\ i <= Len(s) /\ Run(s, First(s), i)
        /\ i < Len(s) => s[i + 1] \notin Digits
    BY GrammarEnds
  <2>2. j \in Int /\ First(s) - 1 <= j /\ j <= Len(s)
    BY <1>1
  <2> QED
    BY <1>1, <1>3, <2>1, <2>2, EndOfDigits
<1>5. CASE h = j
  <2>1. CASE j = Len(s)
    BY <1>1, <1>4, <1>5, <2>1, GrammarEnds
  <2>2. CASE j < Len(s)
    BY <1>4, <1>5, <2>2, GrammarEnds
  <2> QED
    BY <1>1, <1>4, <1>5, <2>1, <2>2
<1>6. CASE h # j
  <2>1. h \in (j + 2)..Len(s) /\ s[j + 1] = POINT /\ Run(s, j + 2, h) /\ j < Len(s)
    BY <1>1, <1>2, <1>6 DEF FracPart
  <2>2. f \in (j + 2)..Len(s) /\ Run(s, j + 2, f) /\ (f < Len(s) => s[f + 1] \notin Digits)
    BY <1>1, <1>4, <2>1, GrammarEnds
  <2>3. h < Len(s) => s[h + 1] \notin Digits
    BY KindsApart
  <2>4. j + 2 \in Nat /\ h \in Int /\ f \in Int /\ j + 2 - 1 <= h /\ j + 2 - 1 <= f
        /\ h <= Len(s) /\ f <= Len(s)
    BY <1>1, <2>1, <2>2
  <2>5. f = h
    BY <1>1, <2>1, <2>2, <2>3, <2>4, EndOfDigits
  <2> QED
    BY <1>4, <2>5
<1> QED
  BY <1>5, <1>6
-----------------------------------------------------------------------------
(* What the loops refuse is no number.                                     *)

Number(s) == \E i, f \in 1..Len(s) : Grammar(s, i, f)

\* How a number begins (the checks before the first loop).
LEMMA BadStart ==
    ASSUME NEW s \in Seq(Byte),
           First(s) > Len(s) \/ s[First(s)] \notin Digits \/ ~NoLeadingZero(s)
    PROVE  ~Number(s)
<1> SUFFICES ASSUME NEW i, NEW f, Grammar(s, i, f) PROVE FALSE
  BY DEF Number
<1>1. First(s) \in First(s)..i /\ First(s) <= Len(s)
  BY GrammarEnds
<1>2. s[First(s)] \in Digits
  BY <1>1, GrammarEnds DEF Run
<1> QED
  BY <1>1, <1>2, GrammarEnds DEF Grammar

\* The first loop stops at p, on a byte that is none of its cases.
LEMMA BadMantissa ==
    ASSUME NEW s \in Seq(Byte), NEW p \in (First(s) + 1)..Len(s), Run(s, First(s), p - 1),
           s[p] \notin Digits \cup Exponents \cup {POINT}
    PROVE  ~Number(s)
<1> SUFFICES ASSUME NEW i, NEW f, Grammar(s, i, f) PROVE FALSE
  BY DEF Number
<1>1. p \in Int /\ p - 1 \in Int /\ First(s) - 1 <= p - 1 /\ p - 1 < Len(s) /\ p - 1 + 1 = p
      /\ First(s) \in Nat /\ Len(s) \in Nat
  BY GrammarEnds
<1>2. /\ i \in Int /\ First(s) - 1 <= i /\ i <= Len(s) /\ Run(s, First(s), i)
      /\ i < Len(s) => s[i + 1] \notin Digits /\ s[i + 1] \in Exponents \cup {POINT}
  BY GrammarEnds
<1>3. i = p - 1
  BY <1>1, <1>2, EndOfDigits
<1> QED
  BY <1>1, <1>2, <1>3

\* Behind the point at j + 1, the second loop stops at p: at once, or on a byte that
\* begins no exponent.
LEMMA BadFraction ==
    ASSUME NEW s \in Seq(Byte), NEW j, IntPart(s, j), j < Len(s), s[j + 1] = POINT,
           NEW p \in (j + 2)..(Len(s) + 1), Run(s, j + 2, p - 1),
           p <= Len(s) => s[p] \notin Digits,
           p = j + 2 \/ (p <= Len(s) /\ s[p] \notin Exponents)
    PROVE  ~Number(s)
<1> SUFFICES ASSUME NEW i, NEW f, Grammar(s, i, f) PROVE FALSE
  BY DEF Number
<1>1. /\ Len(s) \in Nat /\ First(s) \in Nat /\ First(s) \in 1..2
      /\ j \in First(s)..Len(s) /\ Run(s, First(s), j)
  BY GrammarEnds DEF IntPart
<1>2. i = j
  <2>1. /\ i \in Int /\ First(s) - 1 <= i /\ i <= Len(s) /\ Run(s, First(s), i)
        /\ i < Len(s) => s[i + 1] \notin Digits
    BY GrammarEnds
  <2>2. j \in Int /\ First(s) - 1 <= j /\ j <= Len(s) /\ s[j + 1] \notin Digits
    BY <1>1, KindsApart
  <2> QED
    BY <1>1, <2>1, <2>2, EndOfDigits
<1>3. /\ f \in (j + 2)..Len(s) /\ Run(s, j + 2, f)
      /\ f < Len(s) => s[f + 1] \notin Digits /\ s[f + 1] \in Exponents
  BY <1>1, <1>2, GrammarEnds
<1>4. f = p - 1
  <2>1. j + 2 \in Nat /\ f \in Int /\ p - 1 \in Int /\ j + 2 - 1 <= f /\ j + 2 - 1 <= p - 1
        /\ f <= Len(s) /\ p - 1 <= Len(s) /\ p - 1 + 1 = p
    BY <1>1, <1>3
  <2>2. p - 1 < Len(s) => s[p - 1 + 1] \notin Digits
    BY <1>1, <2>1
  <2> QED
    BY <1>1, <1>3, <2>1, <2>2, EndOfDigits
<1>5. f + 1 = p
  BY <1>1, <1>3, <1>4
<1> QED
  BY <1>1, <1>3, <1>5

\* Behind the exponent's letter at h + 1, the second loop stops at p, on a byte that
\* is no digit and no sign.
LEMMA BadExponent ==
    ASSUME NEW s \in Seq(Byte), NEW j, NEW h, IntPart(s, j), FracPart(s, j, h),
           h < Len(s), s[h + 1] \in Exponents,
           NEW p \in (h + 2)..Len(s), s[p] \notin Digits \cup {PLUS, MINUS}
    PROVE  ~Number(s)
<1> SUFFICES ASSUME NEW i, NEW f, Grammar(s, i, f) PROVE FALSE
  BY DEF Number
<1>1. f = h
  BY SameParts
<1>2. ExpDigits(s, h) /\ h \in Nat /\ Len(s) \in Nat
  BY <1>1, GrammarEnds DEF Grammar, ExpPart
<1>3. PICK g \in {h + 1, h + 2} : /\ g < Len(s) /\ Run(s, g + 1, Len(s))
                                  /\ g = h + 2 => s[h + 2] \in {PLUS, MINUS}
  BY <1>2 DEF ExpDigits
<1>4. CASE p \in (g + 1)..Len(s)
  BY <1>3, <1>4 DEF Run
<1>5. CASE p \notin (g + 1)..Len(s)
  <2>1. g = h + 2 /\ p = h + 2
    BY <1>2, <1>3, <1>5
  <2> QED
    BY <1>3, <2>1
<1> QED
  BY <1>4, <1>5

\* A number whose parts end at j and h is one by what is behind its exponent's letter.
LEMMA NumberOfParts ==
    ASSUME NEW s \in Seq(Byte), NEW j, NEW h, IntPart(s, j), NoLeadingZero(s), FracPart(s, j, h),
           h < Len(s) => s[h + 1] \in Exponents
    PROVE  Number(s) <=> ExpPart(s, h)
<1>1. Len(s) \in Nat /\ First(s) \in {1, 2}
  BY LenProperties, FirstIs
<1>2. j \in 1..Len(s) /\ h \in 1..Len(s)
  BY <1>1 DEF IntPart, FracPart
<1>3. ASSUME Number(s) PROVE ExpPart(s, h)
  <2>1. PICK i, f \in 1..Len(s) : Grammar(s, i, f)
    BY <1>3 DEF Number
  <2>2. f = h
    BY <2>1, SameParts
  <2> QED
    BY <2>1, <2>2 DEF Grammar
<1>4. ASSUME ExpPart(s, h) PROVE Number(s)
  BY <1>2, <1>4 DEF Number, Grammar
<1> QED
  BY <1>3, <1>4

\* A text of such parts is a float for strconv when its exponent is one for JSON.
LEMMA FloatOfParts ==
    ASSUME NEW s \in Seq(Byte), NEW j, NEW h, IntPart(s, j), FracPart(s, j, h),
           h < Len(s) => s[h + 1] \in Exponents
    PROVE  FloatSyntax(SubSeq(s, First(s), Len(s))) <=> ExpPart(s, h)
<1> DEFINE n == Len(s)
           b == First(s)
           x == SubSeq(s, b, n)
           end == h - b + 2
<1>1. n \in Nat /\ b \in Nat /\ b \in 1..2 /\ j \in b..n /\ h \in j..n /\ Run(s, b, j)
  <2>1. n \in Nat /\ b \in Nat /\ b \in 1..2 /\ j \in b..n /\ Run(s, b, j)
    BY LenProperties, FirstIs DEF IntPart
  <2>2. h \in j..n
    BY <2>1 DEF FracPart
  <2> QED
    BY <2>1, <2>2
<1> HIDE DEF b
<1>2. /\ x \in Seq(Byte) /\ Len(x) = n - b + 1 /\ Len(x) \in Nat
      /\ \A k \in 1..Len(x) : x[k] = s[b + k - 1]
  <2>1. b \in Nat \ {0} /\ n \in 0..Len(s) /\ b <= n + 1 /\ n - b + 1 \in Nat
    BY <1>1
  <2> QED
    BY <2>1, Part
<1>3. \A k \in b..h : s[k] \in Digits \/ (s[k] = POINT /\ k = j + 1)
  <2> TAKE k \in b..h
  <2>1. CASE k \in b..j
    BY <1>1, <2>1 DEF Run
  <2>2. CASE k \notin b..j
    <3>1. k > j /\ h # j
      BY <1>1, <2>2
    <3>2. h \in (j + 2)..n /\ s[j + 1] = POINT /\ Run(s, j + 2, h)
      BY <3>1 DEF FracPart
    <3>3. k = j + 1 \/ k \in (j + 2)..h
      BY <1>1, <3>1
    <3> QED
      BY <3>2, <3>3 DEF Run
  <2> QED
    BY <2>1, <2>2
<1>4. s[b] \in Digits
  BY <1>1 DEF Run
<1> HIDE DEF x, n
<1>5. end \in 1..(Len(x) + 1) /\ end - 1 >= 1 /\ end - 1 = h - b + 1 /\ (end <= Len(x) <=> h < n)
      /\ end - 1 \in 0..Len(x) /\ b + end - 1 = h + 1 /\ end \in Int
  BY SMTT(30), <1>1, <1>2
<1> HIDE DEF end
<1>6. end <= Len(x) => x[end] = s[h + 1] /\ SubSeq(x, end + 1, Len(x)) = SubSeq(s, h + 2, n)
  <2> SUFFICES ASSUME end <= Len(x)
               PROVE  x[end] = s[h + 1] /\ SubSeq(x, end + 1, Len(x)) = SubSeq(s, h + 2, n)
    OBVIOUS
  <2>1. x[end] = s[h + 1]
    BY <1>2, <1>5
  <2>2. b - 1 \in 0..n /\ end \in 0..(n - (b - 1)) /\ b - 1 + 1 = b /\ b - 1 + end + 1 = h + 2
    BY <1>1, <1>2, <1>5
  <2>3. SubSeq(x, end + 1, Len(x)) = SubSeq(s, b - 1 + end + 1, n)
    BY <2>2, SubSeqEnd DEF x, n
  <2> QED
    BY <2>1, <2>2, <2>3
<1>7. h < n => (IsDigits(Unsigned(SubSeq(s, h + 2, n))) <=> ExpDigits(s, h))
  BY <1>1, ExpMeaning DEF n
<1>8. ASSUME ExpPart(s, h) PROVE FloatSyntax(x)
  <2> DEFINE m == SubSeq(x, 1, end - 1)
  <2>1. /\ Len(m) = end - 1 /\ DOMAIN m = 1..(end - 1)
        /\ \A k \in 1..(end - 1) : m[k] = s[b + k - 1] /\ b + k - 1 \in b..h
    <3>1. /\ m \in Seq(Byte) /\ Len(m) = end - 1 - 1 + 1
          /\ \A k \in 1..Len(m) : m[k] = x[1 + k - 1]
      BY <1>2, <1>5, Part
    <3>2. end - 1 - 1 + 1 = end - 1 /\ \A k \in 1..(end - 1) : 1 + k - 1 = k /\ k \in 1..Len(x)
          /\ b + k - 1 \in b..h
      BY SMTT(30), <1>1, <1>2, <1>5
    <3> QED
      BY <1>2, <3>1, <3>2, LenProperties
  <2> HIDE DEF m
  <2>2. Range(m) \subseteq Digits \cup {POINT}
    BY <1>3, <2>1 DEF Range
  <2>3. Range(m) \cap Digits # {}
    <3>1. 1 \in 1..(end - 1) /\ b + 1 - 1 = b
      BY <1>1, <1>5
    <3>2. m[1] = s[b] /\ m[1] \in Range(m)
      BY <2>1, <3>1 DEF Range
    <3> QED
      BY <1>4, <3>2
  <2>4. \A k, l \in DOMAIN m : m[k] = POINT /\ m[l] = POINT => k = l
    <3> TAKE k, l \in DOMAIN m
    <3> HAVE m[k] = POINT /\ m[l] = POINT
    <3>1. s[b + k - 1] \notin Digits /\ s[b + l - 1] \notin Digits
      BY <2>1, KindsApart
    <3>2. b + k - 1 = j + 1 /\ b + l - 1 = j + 1
      BY <1>3, <2>1, <3>1
    <3>3. k \in Int /\ l \in Int /\ b \in Int
      BY <1>1, <2>1
    <3> QED
      BY <3>2, <3>3
  <2>5. end <= Len(x) => x[end] \in Exponents /\ IsDigits(Unsigned(SubSeq(x, end + 1, Len(x))))
    <3> SUFFICES ASSUME end <= Len(x)
                 PROVE  x[end] \in Exponents /\ IsDigits(Unsigned(SubSeq(x, end + 1, Len(x))))
      OBVIOUS
    <3>1. h < n /\ h # n
      BY <1>1, <1>5
    <3>2. s[h + 1] \in Exponents /\ ExpDigits(s, h)
      BY <1>8, <3>1 DEF ExpPart, n
    <3> QED
      BY <1>6, <1>7, <3>1, <3>2
  <2> QED
    BY <1>5, <2>2, <2>3, <2>4, <2>5 DEF FloatSyntax, m
<1>9. ASSUME FloatSyntax(x) PROVE ExpPart(s, h)
  <2>1. PICK e \in 1..(Len(x) + 1) :
            /\ Range(SubSeq(x, 1, e - 1)) \subseteq Digits \cup {POINT}
            /\ e <= Len(x) => x[e] \in Exponents /\ IsDigits(Unsigned(SubSeq(x, e + 1, Len(x))))
    BY <1>9 DEF FloatSyntax
  <2>2. ~(e > end)
    <3> SUFFICES ASSUME e > end PROVE FALSE
      OBVIOUS
    <3>1. /\ 1 \in Nat \ {0} /\ e - 1 \in 0..Len(x) /\ 1 <= e - 1 + 1 /\ end \in 1..(e - 1)
          /\ end - 1 + 1 = end /\ e - 1 - 1 + 1 = e - 1
      BY <1>2, <1>5
    <3>2. /\ SubSeq(x, 1, e - 1)[end] = x[end] /\ Len(SubSeq(x, 1, e - 1)) = e - 1
          /\ SubSeq(x, 1, e - 1) \in Seq(Byte)
      BY <1>2, <3>1, Part
    <3>3. x[end] \in Range(SubSeq(x, 1, e - 1))
      BY <3>1, <3>2, LenProperties DEF Range
    <3>4. x[end] \in Exponents
      BY <1>2, <1>5, <1>6, <3>1 DEF n
    <3> QED
      BY <2>1, <3>3, <3>4, KindsApart
  <2>3. ~(e < end)
    <3> SUFFICES ASSUME e < end PROVE FALSE
      OBVIOUS
    <3>1. e <= Len(x) /\ e \in 1..Len(x) /\ b + e - 1 \in b..h
      BY SMTT(30), <1>1, <1>2, <1>5
    <3>2. x[e] = s[b + e - 1]
      BY <1>2, <3>1
    <3> QED
      BY <1>3, <2>1, <3>1, <3>2, KindsApart
  <2>4. e = end
    BY <1>5, <2>2, <2>3
  <2> QED
    <3>1. CASE h = n
      BY <3>1 DEF ExpPart, n
    <3>2. CASE h < n
      <4>1. x[end] \in Exponents /\ IsDigits(Unsigned(SubSeq(x, end + 1, Len(x))))
        BY <1>5, <2>1, <2>4, <3>2
      <4>2. s[h + 1] \in Exponents /\ ExpDigits(s, h)
        BY <1>5, <1>6, <1>7, <3>2, <4>1
      <4> QED
        BY <3>2, <4>2 DEF ExpPart, n
    <3> QED
      BY <1>1, <3>1, <3>2
<1> QED
  BY <1>8, <1>9 DEF x, b, n
-----------------------------------------------------------------------------
(* The bytes of a number, and the token that parseNumber takes.            *)

LEMMA NumberBytes ==
    ASSUME NEW s \in Seq(Byte), Number(s), NEW k \in 1..Len(s)
    PROVE  s[k] \in NumberByte
<1> DEFINE n == Len(s)
           b == First(s)
<1>1. PICK i, f \in 1..n : Grammar(s, i, f)
  BY DEF Number
<1>2. /\ n \in Nat /\ b \in 1..2 /\ i \in b..n /\ Run(s, b, i) /\ f \in i..n
      /\ FracPart(s, i, f) /\ ExpPart(s, f)
  BY <1>1, GrammarEnds DEF Grammar
<1>3. Digits \cup Exponents \cup {MINUS, PLUS, POINT} \subseteq NumberByte
  BY DEF NumberByte
<1>4. CASE k < b
  <2>1. b = 2 /\ k = 1
    BY <1>2, <1>4
  <2> QED
    BY <1>3, <2>1, FirstIs
<1>5. CASE k \in b..i
  BY <1>2, <1>3, <1>5 DEF Run
<1>6. CASE k \in (i + 1)..f
  <2>1. f \in (i + 2)..n /\ s[i + 1] = POINT /\ Run(s, i + 2, f)
    BY <1>2, <1>6 DEF FracPart
  <2>2. k = i + 1 \/ k \in (i + 2)..f
    BY <1>2, <1>6
  <2> QED
    BY <1>3, <2>1, <2>2 DEF Run
<1>7. CASE k > f
  <2>1. s[f + 1] \in Exponents /\ ExpDigits(s, f)
    BY <1>2, <1>7 DEF ExpPart
  <2>2. PICK g \in {f + 1, f + 2} : /\ Run(s, g + 1, n)
                                    /\ g = f + 2 => s[f + 2] \in {PLUS, MINUS}
    BY <2>1 DEF ExpDigits
  <2>3. k = f + 1 \/ (k = f + 2 /\ g = f + 2) \/ k \in (g + 1)..n
    BY <1>2, <1>7, <2>2
  <2> QED
    BY <1>3, <2>1, <2>2, <2>3 DEF Run
<1> QED
  BY <1>2, <1>4, <1>5, <1>6, <1>7

\* The run of number bytes ends somewhere.
LEMMA TokenEnds ==
    ASSUME text \in Seq(Byte), pos \in 1..Len(text)
    PROVE  /\ TokenEnd \in (pos - 1)..Len(text)
           /\ \A i \in pos..TokenEnd : text[i] \in NumberByte
           /\ TokenEnd < Len(text) => text[TokenEnd + 1] \notin NumberByte
<1> DEFINE S == {e \in Nat : /\ pos - 1 <= e /\ e <= Len(text)
                             /\ e < Len(text) => text[e + 1] \notin NumberByte}
<1>1. Len(text) \in S
  BY LenProperties
<1>2. PICK e \in S : \A m \in S : e <= m
  <2>1. S \in SUBSET Nat /\ S # {}
    BY <1>1
  <2> HIDE DEF S
  <2> QED
    BY <2>1, LeastNumber
<1>3. \A i \in pos..e : text[i] \in NumberByte
  <2> SUFFICES ASSUME NEW i \in pos..e, text[i] \notin NumberByte PROVE FALSE
    OBVIOUS
  <2>1. i - 1 \in Nat /\ i - 1 + 1 = i /\ i - 1 < e /\ pos - 1 <= i - 1
    BY LenProperties
  <2>2. i - 1 \in S
    BY <1>2, <2>1, LenProperties
  <2> QED
    BY <1>2, <2>1, <2>2
<1>4. \E x \in (pos - 1)..Len(text) : /\ \A i \in pos..x : text[i] \in NumberByte
                                      /\ x < Len(text) => text[x + 1] \notin NumberByte
  <2>1. e \in (pos - 1)..Len(text)
    BY <1>2, LenProperties
  <2> QED
    BY <1>2, <1>3, <2>1
<1> QED
  BY <1>4 DEF TokenEnd
-----------------------------------------------------------------------------
(* The special words and the literals.                                     *)

\* equalsCI changes no digit, and makes none.
LEMMA LowerParts ==
    ASSUME NEW x \in Seq(Byte)
    PROVE  /\ Len(Lower(x)) = Len(x)
           /\ Lower(x) = <<>> <=> Len(x) = 0
           /\ \A k \in 1..Len(x) : /\ Lower(x)[k] \in Digits <=> x[k] \in Digits
                                   /\ Lower(x)[k] = ZERO <=> x[k] = ZERO
<1>1. Len(x) \in Nat /\ DOMAIN x = 1..Len(x) /\ \A k \in 1..Len(x) : x[k] \in Nat
  <2>1. \A k \in 1..Len(x) : x[k] \in Byte
    BY ElementOfSeq
  <2>2. \A c \in Byte : c \in Nat
    BY DEF Byte
  <2> QED
    BY <2>1, <2>2, LenProperties
<1>2. Lower(x) \in Seq(Nat) /\ Len(Lower(x)) = Len(x)
  BY <1>1 DEF Lower
<1>3. \A k \in 1..Len(x) : Lower(x)[k] = IF x[k] \in 65..90 THEN x[k] + 32 ELSE x[k]
  BY <1>1 DEF Lower
<1>4. \A c \in Nat : LET l == IF c \in 65..90 THEN c + 32 ELSE c
                     IN  (l \in Digits <=> c \in Digits) /\ (l = ZERO <=> c = ZERO)
  <2> TAKE c \in Nat
  <2>1. CASE c \in 65..90
    BY <2>1 DEF Digits, ZERO
  <2>2. CASE c \notin 65..90
    BY <2>2
  <2> QED
    BY <2>1, <2>2
<1>5. Lower(x) = <<>> <=> Len(x) = 0
  BY <1>1, <1>2, EmptySeq
<1>6. ASSUME NEW k \in 1..Len(x)
      PROVE  (Lower(x)[k] \in Digits <=> x[k] \in Digits) /\ (Lower(x)[k] = ZERO <=> x[k] = ZERO)
  <2>1. x[k] \in Nat /\ Lower(x)[k] = IF x[k] \in 65..90 THEN x[k] + 32 ELSE x[k]
    BY <1>1, <1>3
  <2> QED
    BY <1>4, <2>1
<1> QED
  BY <1>2, <1>5, <1>6

\* No special word begins with a digit.
LEMMA WordsBegin ==
    \A w \in {NAN, INF, INFINITY} : w # <<>> /\ w[1] \notin Digits
  BY DEF NAN, INF, INFINITY, Digits

\* A special word, by the part that equalsCI looks at.
LEMMA WordPart ==
    ASSUME NEW t \in Seq(Byte), t # <<>>
    PROVE  SpecialWord(t) <=>
               /\ t[1] \in {MINUS, 73, 78} /\ Range(t) \subseteq NumberByte
               /\ Lower(SubSeq(t, First(t), Len(t))) \in {NAN, INF, INFINITY}
<1>1. Tail(t) = SubSeq(t, 2, Len(t))
  BY TailIsSubSeq
<1>2. t = SubSeq(t, 1, Len(t))
  BY SubSeqFull
<1>3. (IF t[1] = MINUS THEN Tail(t) ELSE t) = SubSeq(t, First(t), Len(t))
  BY <1>1, <1>2 DEF First
<1> QED
  BY <1>3 DEF SpecialWord

Literal3 == {TRUETEXT, FALSETEXT, NULLTEXT}

\* How a scalar begins, by what it is.
LEMMA ScalarBegins ==
    ASSUME NEW t \in Seq(Byte)
    PROVE  /\ Number(t) => t # <<>> /\ t[1] \in Digits \cup {MINUS}
           /\ SpecialWord(t) => t # <<>> /\ t[1] \in {MINUS, 73, 78}
           /\ t \in Literal3 => t # <<>> /\ t[1] \in {116, 102, 110}
<1>1. Number(t) => t # <<>> /\ t[1] \in Digits \cup {MINUS}
  <2> SUFFICES ASSUME Number(t) PROVE t # <<>> /\ t[1] \in Digits \cup {MINUS}
    OBVIOUS
  <2>1. First(t) <= Len(t) /\ t[First(t)] \in Digits
    BY BadStart, LenProperties, FirstIs
  <2> QED
    BY <2>1, FirstIs, LenProperties
<1>2. SpecialWord(t) => t # <<>> /\ t[1] \in {MINUS, 73, 78}
  BY DEF SpecialWord
<1>3. t \in Literal3 => t # <<>> /\ t[1] \in {116, 102, 110}
  BY DEF Literal3, TRUETEXT, FALSETEXT, NULLTEXT
<1> QED
  BY <1>1, <1>2, <1>3
-----------------------------------------------------------------------------
(* What skipWS passes over.                                                *)

ItemBytes == White \cup {239, SLASH}

LEMMA ItemIs ==
    ASSUME NEW t \in Seq(Byte), NEW c, NEW d, Item(t, c, d)
    PROVE  c \in 1..Len(t) /\ d \in (c + 1)..(Len(t) + 1) /\ t[c] \in ItemBytes
  BY LenProperties DEF Item, LineComment, BlockComment, ItemBytes

\* An item ends at one place only: no shorter ...
LEMMA NoShorterItem ==
    ASSUME NEW t \in Seq(Byte), NEW c, NEW d, NEW e, Item(t, c, d), Item(t, c, e), d < e
    PROVE  FALSE
<1> DEFINE n == Len(t)
<1>1. n \in Nat /\ c \in 1..n /\ d \in (c + 1)..(n + 1) /\ e \in (c + 1)..(n + 1) /\ d # n + 1
  BY LenProperties, ItemIs
<1>2. CASE t[c] \in White
  <2>1. t[c] # 239 /\ t[c] # SLASH
    BY <1>2 DEF White, SLASH
  <2>2. d = c + 1 /\ e = c + 1
    BY <2>1 DEF Item, LineComment, BlockComment
  <2> QED
    BY <1>1, <2>2
<1>3. CASE t[c] = 239
  <2>1. t[c] \notin White /\ t[c] # SLASH
    BY <1>3 DEF White, SLASH
  <2>2. d = 4 /\ e = 4
    BY <2>1 DEF Item, LineComment, BlockComment
  <2> QED
    BY <1>1, <2>2
<1>4. CASE t[c] \notin White /\ t[c] # 239 /\ t[c + 1] = SLASH
  <2>1. t[c + 1] # STAR
    BY <1>4 DEF SLASH, STAR
  <2>2. LineComment(t, c, d) /\ LineComment(t, c, e)
    BY <1>4, <2>1 DEF Item, BlockComment
  <2>3. d > c + 2 /\ t[d - 1] \in LineEnds /\ \A k \in (c + 2)..(e - 2) : t[k] \notin LineEnds
    BY <1>1, <2>2 DEF LineComment
  <2>4. d - 1 \in (c + 2)..(e - 2)
    BY <1>1, <2>3
  <2> QED
    BY <2>3, <2>4
<1>5. CASE t[c] \notin White /\ t[c] # 239 /\ t[c + 1] # SLASH
  <2>1. BlockComment(t, c, d) /\ BlockComment(t, c, e)
    BY <1>5 DEF Item, LineComment
  <2>2. d >= c + 4 /\ Closes(t, d - 2) /\ \A k \in (c + 2)..(e - 3) : ~Closes(t, k)
    BY <1>1, <2>1 DEF BlockComment
  <2>3. d - 2 \in (c + 2)..(e - 3)
    BY <1>1, <2>2
  <2> QED
    BY <2>2, <2>3
<1> QED
  BY <1>2, <1>3, <1>4, <1>5

\* ... and no longer.
LEMMA OneItem ==
    ASSUME NEW t \in Seq(Byte), NEW c, NEW d, NEW e, Item(t, c, d), Item(t, c, e)
    PROVE  d = e
<1>1. Len(t) \in Nat /\ c \in 1..Len(t) /\ d \in (c + 1)..(Len(t) + 1) /\ e \in (c + 1)..(Len(t) + 1)
  BY LenProperties, ItemIs
<1>2. ~(d < e) /\ ~(e < d)
  BY NoShorterItem
<1> QED
  BY <1>1, <1>2

LEMMA NothingIsBlank ==
    ASSUME NEW t, NEW i \in Int
    PROVE  Blank(t, i, i)
<1> DEFINE cuts == {i}
<1>1. cuts \in SUBSET (i..i) /\ i \in cuts /\ cuts \ {i} = {}
  OBVIOUS
<1> HIDE DEF cuts
<1> QED
  BY <1>1 DEF Blank

\* Where no item begins, nothing is blank.
LEMMA Stuck ==
    ASSUME NEW t, NEW i, NEW j, Blank(t, i, j), \A d : ~Item(t, i, d)
    PROVE  i = j
  BY DEF Blank

\* What is blank begins with an item ...
LEMMA BlankWithout ==
    ASSUME NEW t \in Seq(Byte), NEW i \in Int, NEW d, NEW j \in Int,
           Item(t, i, d), Blank(t, i, j), i # j
    PROVE  Blank(t, d, j) /\ d <= j
<1>1. PICK cuts \in SUBSET (i..j) : /\ i \in cuts /\ j \in cuts
                                    /\ \A c \in cuts \ {j} : \E e \in cuts : Item(t, c, e)
  BY DEF Blank
<1>2. d \in cuts
  <2>1. PICK e \in cuts : Item(t, i, e)
    BY <1>1
  <2> QED
    BY <2>1, OneItem
<1>3. d \in Int /\ d <= j
  BY <1>1, <1>2
<1> DEFINE later == cuts \cap (d..j)
<1>4. later \in SUBSET (d..j) /\ d \in later /\ j \in later
  BY <1>1, <1>2, <1>3
<1>5. ASSUME NEW c \in later \ {j}
      PROVE  \E e \in later : Item(t, c, e)
  <2>1. PICK e \in cuts : Item(t, c, e)
    BY <1>1
  <2>2. e \in (c + 1)..(Len(t) + 1) /\ e \in i..j /\ c \in d..j
    BY <1>1, <2>1, ItemIs
  <2>3. e \in d..j
    BY <1>3, <2>2
  <2> QED
    BY <2>1, <2>3
<1> HIDE DEF later
<1> QED
  BY <1>3, <1>4, <1>5 DEF Blank

\* ... and may begin with one more.
LEMMA BlankWith ==
    ASSUME NEW t \in Seq(Byte), NEW i \in Int, NEW d, NEW j \in Int, Item(t, i, d), Blank(t, d, j)
    PROVE  Blank(t, i, j)
<1>1. PICK cuts \in SUBSET (d..j) : /\ d \in cuts /\ j \in cuts
                                    /\ \A c \in cuts \ {j} : \E e \in cuts : Item(t, c, e)
  BY DEF Blank
<1>2. d \in Int /\ i < d /\ d <= j
  <2>1. i \in 1..Len(t) /\ d \in (i + 1)..(Len(t) + 1) /\ d \in d..j
    BY <1>1, ItemIs
  <2> QED
    BY <2>1
<1> DEFINE more == cuts \cup {i}
<1>3. more \in SUBSET (i..j) /\ i \in more /\ j \in more
  BY <1>1, <1>2
<1>4. \A c \in more \ {j} : \E e \in more : Item(t, c, e)
  BY <1>1
<1> HIDE DEF more
<1> QED
  BY <1>3, <1>4 DEF Blank

\* A byte of a scalar begins no item.
ScalarByte == NumberByte \cup {116, 114, 117, 101, 102, 97, 108, 115, 110}
LEMMA ScalarBytes ==
    /\ \A c \in ScalarByte \cup Brackets \cup {QUOTE} : c \notin ItemBytes
    /\ \A c \in ScalarByte : c \notin Brackets \cup {QUOTE}
    /\ Digits \cup {MINUS, 73, 78, 116, 102, 110} \subseteq ScalarByte
  BY DEF ScalarByte, NumberByte, Digits, Exponents, MINUS, PLUS, POINT, Brackets, QUOTE, ItemBytes,
         White, SLASH

\* Where a byte of a scalar, a bracket or a quote is, no item begins.
LEMMA NoItem ==
    ASSUME NEW t \in Seq(Byte), NEW i, t[i] \in ScalarByte \cup Brackets \cup {QUOTE}
    PROVE  \A d : ~Item(t, i, d)
  BY ItemIs, ScalarBytes
-----------------------------------------------------------------------------
(* The invariant.                                                          *)

\* From p on there is a scalar, and behind it only blanks; or that with blanks before it.
ScalarAt(t, p) ==
    \E b \in p..Len(t) : Scalar(SubSeq(t, p, b)) /\ Blank(t, b + 1, Len(t) + 1)
ReadsAt(t, p) == \E a \in p..Len(t) : ScalarAt(t, a) /\ Blank(t, p, a)

\* From p on, behind blanks, there is a string or a container.
StrangeAt(t, p) == \E a \in p..Len(t) : t[a] \in Brackets \cup {QUOTE} /\ Blank(t, p, a)

\* numberFromToken has the token, and has found no special word in it.
Token ==
    /\ token \in Seq(Byte) /\ pos \in 1..(Len(text) + 1)
    /\ Len(token) \in 1..(pos - 1) /\ token = SubSeq(text, pos - Len(token), pos - 1)
    /\ Reads(text) <=> Scalar(token) /\ Blank(text, pos, Len(text) + 1)
    /\ Scalar(token) => Number(token)

\* The first loop: digits so far, and one at least.
Mantissa ==
    /\ at \in First(token)..(Len(token) + 1)
    /\ First(token) <= Len(token) /\ token[First(token)] \in Digits
    /\ NoLeadingZero(token) /\ Run(token, First(token), at - 1)
    /\ hasDot = FALSE /\ hasExp = FALSE /\ hasFrac = FALSE

\* The second loop behind a point and before an exponent ...
Fraction(i) ==
    /\ hasDot = TRUE /\ hasExp = FALSE
    /\ i < Len(token) /\ token[i + 1] = POINT
    /\ at \in (i + 2)..(Len(token) + 1) /\ Run(token, i + 2, at - 1)
    /\ at = i + 2 => hasFrac = FALSE
    /\ at # i + 2 => hasFrac = TRUE

\* ... and behind an exponent's letter.
Exponent(i, f) ==
    /\ hasExp = TRUE
    /\ hasDot \in BOOLEAN /\ (hasDot = TRUE => hasFrac = TRUE) /\ hasFrac \in BOOLEAN
    /\ FracPart(token, i, f) /\ f < Len(token) /\ token[f + 1] \in Exponents
    /\ at \in (f + 2)..(Len(token) + 1)

SecondLoop ==
    /\ NoLeadingZero(token)
    /\ \E i \in 1..Len(token) :
           /\ IntPart(token, i)
           /\ Fraction(i) \/ \E f \in 1..Len(token) : Exponent(i, f)

TextInv ==
    /\ text = Given(input) /\ text \in Seq(Byte)
    /\ mode \in {"value", "mantissa", "fraction", "accept", "reject"}
    /\ mode = "value" => /\ pos \in 1..(Len(text) + 1)
                         /\ Reads(text) <=> ReadsAt(text, pos)
                         /\ ~StrangeAt(text, pos)
    /\ mode = "mantissa" => Token /\ Mantissa
    /\ mode = "fraction" => Token /\ SecondLoop
    /\ mode = "accept" => /\ pos \in 1..(Len(text) + 1)
                          /\ Reads(text) <=> Blank(text, pos, Len(text) + 1)
    /\ mode = "reject" => ~Reads(text)

\* The input is a text, or a number to be written, and begins neither a string nor a
\* container.
Unquoted ==
    /\ ~IsA("write", input) /\ Given(input) \in Seq(Byte)
    /\ ~Opens(Given(input), Brackets \cup {QUOTE})

LanguageInv == Unquoted => TextInv
-----------------------------------------------------------------------------
LEMMA ScalarIs ==
    ASSUME NEW t \in Seq(Byte)
    PROVE  Scalar(t) <=> Number(t) \/ SpecialWord(t) \/ t \in Literal3
  BY JsonGrammar DEF Scalar, Number, Literal3

\* Where a byte of a scalar is, the scalar begins there or nowhere.
LEMMA ReadsHere ==
    ASSUME NEW t \in Seq(Byte), NEW p \in 1..Len(t), t[p] \in ScalarByte
    PROVE  ReadsAt(t, p) <=> ScalarAt(t, p)
<1>1. \A d : ~Item(t, p, d)
  BY NoItem
<1>2. \A a : Blank(t, p, a) => a = p
  BY <1>1, Stuck
<1>3. Blank(t, p, p) /\ p \in p..Len(t)
  BY NothingIsBlank, LenProperties
<1> QED
  BY <1>2, <1>3 DEF ReadsAt

\* A scalar that begins as a number does has a number's bytes only.
LEMMA BytesOfScalar ==
    ASSUME NEW x \in Seq(Byte), Scalar(x), x[1] \in Digits \cup {MINUS, 73, 78}, NEW k \in 1..Len(x)
    PROVE  x[k] \in NumberByte
<1>1. x \notin Literal3
  <2>1. 116 \notin Digits \cup {MINUS, 73, 78} /\ 102 \notin Digits \cup {MINUS, 73, 78}
        /\ 110 \notin Digits \cup {MINUS, 73, 78}
    BY DEF Digits, MINUS
  <2> QED
    BY <2>1, ScalarBegins
<1>2. CASE Number(x)
  BY <1>2, NumberBytes
<1>3. CASE SpecialWord(x)
  <2>1. k \in DOMAIN x
    BY LenProperties
  <2> QED
    BY <1>3, <2>1 DEF SpecialWord, Range
<1> QED
  BY <1>1, <1>2, <1>3, ScalarIs

\* The scalar ends where the number bytes end.
LEMMA ScalarEnds ==
    ASSUME NEW t \in Seq(Byte), NEW p \in 1..Len(t), NEW e \in p..Len(t),
           t[p] \in Digits \cup {MINUS, 73, 78},
           \A i \in p..e : t[i] \in NumberByte,
           e < Len(t) => t[e + 1] \notin NumberByte
    PROVE  ScalarAt(t, p) <=> Scalar(SubSeq(t, p, e)) /\ Blank(t, e + 1, Len(t) + 1)
<1> DEFINE n == Len(t)
<1>1. n \in Nat /\ p \in Nat \ {0} /\ e \in Nat
  BY LenProperties
<1>2. ASSUME NEW b \in p..n, Scalar(SubSeq(t, p, b)), Blank(t, b + 1, n + 1)
      PROVE  b = e
  <2>1. CASE b < e
    <3>1. b + 1 \in p..e /\ b + 1 # n + 1
      BY <1>1, <2>1
    <3>2. t[b + 1] \in ScalarByte
      BY <3>1 DEF ScalarByte
    <3>3. \A d : ~Item(t, b + 1, d)
      BY <3>2, NoItem
    <3> QED
      BY <1>2, <3>1, <3>3, Stuck
  <2>2. CASE b > e
    <3> DEFINE x == SubSeq(t, p, b)
    <3>1. b \in 0..n /\ p <= b + 1 /\ e + 1 \in p..b /\ p \in p..b /\ p - p + 1 = 1 /\ e < n
      BY <1>1, <2>2
    <3>2. x \in Seq(Byte) /\ \A k \in p..b : k - p + 1 \in 1..Len(x) /\ x[k - p + 1] = t[k]
      BY <1>1, <3>1, Part
    <3> HIDE DEF x
    <3>3. x[1] = t[p] /\ (e + 1) - p + 1 \in 1..Len(x) /\ x[(e + 1) - p + 1] = t[e + 1]
      BY <3>1, <3>2
    <3>4. Scalar(x)
      BY <1>2 DEF x
    <3>5. t[e + 1] \in NumberByte
      BY <3>2, <3>3, <3>4, BytesOfScalar
    <3> QED
      BY <3>1, <3>5
  <2> QED
    BY <1>1, <2>1, <2>2
<1> QED
  BY <1>2 DEF ScalarAt

\* What the token says of the text, and what equalsCI finds in it.
LEMMA TokenTaken ==
    ASSUME text \in Seq(Byte), pos \in 1..(Len(text) + 1), NextIn(Digits \cup {MINUS, 73, 78})
    PROVE  LET e    == TokenEnd
               tok  == SubSeq(text, pos, e)
               word == Lower(SubSeq(tok, First(tok), Len(tok)))
           IN  /\ pos \in 1..Len(text) /\ e \in pos..Len(text)
               /\ tok \in Seq(Byte) /\ Len(tok) = e - pos + 1
               /\ ReadsAt(text, pos) <=> Scalar(tok) /\ Blank(text, e + 1, Len(text) + 1)
               /\ word \in {NAN, INF, INFINITY} => Scalar(tok)
               /\ word \notin {NAN, INF, INFINITY} => (Scalar(tok) => Number(tok))
<1> DEFINE n == Len(text)
           e == TokenEnd
           tok == SubSeq(text, pos, e)
           word == Lower(SubSeq(tok, First(tok), Len(tok)))
           Words == {NAN, INF, INFINITY}
<1>1. n \in Nat /\ pos \in 1..n /\ pos \in Nat \ {0} /\ text[pos] \in Digits \cup {MINUS, 73, 78}
  BY LenProperties DEF NextIn, AtEnd
<1>2. /\ e \in (pos - 1)..n /\ \A i \in pos..e : text[i] \in NumberByte
      /\ e < n => text[e + 1] \notin NumberByte
  BY <1>1, TokenEnds
<1> HIDE DEF e
<1>3. e \in pos..n
  <2>1. text[pos] \in NumberByte
    BY <1>1 DEF NumberByte
  <2>2. e = pos - 1 => e + 1 = pos /\ e < n
    BY <1>1, <1>2
  <2> QED
    BY <1>1, <1>2, <2>1, <2>2
<1>4. /\ tok \in Seq(Byte) /\ Len(tok) = e - pos + 1 /\ Len(tok) \in Nat \ {0}
      /\ \A k \in 1..Len(tok) : tok[k] = text[pos + k - 1]
  <2>1. e \in 0..n /\ pos <= e + 1 /\ e - pos + 1 \in Nat \ {0}
    BY <1>1, <1>3
  <2> QED
    BY <1>1, <2>1, Part
<1>5. ReadsAt(text, pos) <=> Scalar(tok) /\ Blank(text, e + 1, n + 1)
  <2>1. text[pos] \in ScalarByte
    BY <1>1, ScalarBytes
  <2> QED
    BY <1>1, <1>2, <1>3, <2>1, ReadsHere, ScalarEnds
<1> HIDE DEF tok
<1>6. tok[1] \in Digits \cup {MINUS, 73, 78} /\ tok # <<>>
  <2>1. 1 \in 1..Len(tok) /\ pos + 1 - 1 = pos /\ Len(tok) # 0
    BY <1>1, <1>4
  <2> QED
    BY <1>1, <1>4, <2>1
<1>7. tok \notin Literal3
  <2>1. 116 \notin Digits \cup {MINUS, 73, 78} /\ 102 \notin Digits \cup {MINUS, 73, 78}
        /\ 110 \notin Digits \cup {MINUS, 73, 78}
    BY DEF Digits, MINUS
  <2>2. tok \in Literal3 => tok[1] \in {116, 102, 110}
    BY <1>4, ScalarBegins
  <2> QED
    BY <1>6, <2>1, <2>2
<1>8. SpecialWord(tok) <=> word \in Words
  <2>1. Range(tok) \subseteq NumberByte
    <3>1. DOMAIN tok = 1..Len(tok)
      BY <1>4, LenProperties
    <3>2. \A k \in 1..Len(tok) : pos + k - 1 \in pos..e
      BY <1>1, <1>3, <1>4
    <3> QED
      BY <1>2, <1>4, <3>1, <3>2 DEF Range
  <2>2. word \in Words => tok[1] \in {MINUS, 73, 78}
    <3> SUFFICES ASSUME word \in Words, tok[1] \in Digits PROVE FALSE
      BY <1>6
    <3>1. First(tok) = 1
      BY KindsApart DEF First
    <3>2. word = Lower(tok)
      BY <1>4, <3>1, SubSeqFull
    <3>3. Lower(tok)[1] \in Digits
      <4>1. 1 \in 1..Len(tok)
        BY <1>4
      <4> QED
        BY <1>4, <4>1, LowerParts
    <3> HIDE DEF word
    <3> QED
      BY <3>2, <3>3, WordsBegin
  <2> QED
    BY <1>4, <1>6, <2>1, <2>2, WordPart
<1> HIDE DEF word, Words, n
<1>9. /\ word \in Words => Scalar(tok)
      /\ word \notin Words => (Scalar(tok) => Number(tok))
  BY <1>4, <1>7, <1>8, ScalarIs
<1> QED
  BY <1>1, <1>3, <1>4, <1>5, <1>9 DEF e, n, tok, word, Words
-----------------------------------------------------------------------------
(* The steps of numberFromToken.                                           *)

\* What is found out about the token is so of the text.
LEMMA TokenDecides ==
    ASSUME Token
    PROVE  /\ ~Number(token) => ~Reads(text)
           /\ Number(token) => /\ pos \in 1..(Len(text) + 1)
                               /\ Reads(text) <=> Blank(text, pos, Len(text) + 1)
  BY ScalarIs DEF Token

\* The checks before the first loop, on the word in lower case.
LEMMA StartOfToken ==
    ASSUME NEW tok \in Seq(Byte), Len(tok) >= 1
    PROVE  LET word == Lower(SubSeq(tok, First(tok), Len(tok)))
           IN  (\/ word = <<>>
                \/ word[1] \notin Digits
                \/ word[1] = ZERO /\ Len(word) > 1 /\ word[2] \in Digits)
               <=> (\/ First(tok) > Len(tok)
                    \/ tok[First(tok)] \notin Digits
                    \/ ~NoLeadingZero(tok))
<1> DEFINE m == Len(tok)
           b == First(tok)
           x == SubSeq(tok, b, m)
           word == Lower(x)
<1>1. m \in Nat /\ m >= 1 /\ b \in {1, 2} /\ b \in Nat \ {0} /\ m \in 0..Len(tok) /\ b <= m + 1
  BY LenProperties, FirstIs
<1>2. x \in Seq(Byte) /\ Len(x) = m - b + 1 /\ \A k \in 1..Len(x) : x[k] = tok[b + k - 1]
  BY <1>1, Part
<1> HIDE DEF x
<1>3. /\ Len(word) = Len(x) /\ (word = <<>> <=> Len(x) = 0)
      /\ \A k \in 1..Len(x) : /\ word[k] \in Digits <=> x[k] \in Digits
                              /\ word[k] = ZERO <=> x[k] = ZERO
  BY <1>2, LowerParts
<1> HIDE DEF word
<1>4. NoLeadingZero(tok) <=> (tok[b] = ZERO /\ b < m => tok[b + 1] \notin Digits)
  BY DEF NoLeadingZero
<1> HIDE DEF b, m
<1>5. (word = <<>> <=> b > m)
  BY <1>1, <1>2, <1>3
<1>6. b <= m => (word[1] \in Digits <=> tok[b] \in Digits) /\ (word[1] = ZERO <=> tok[b] = ZERO)
  <2> SUFFICES ASSUME b <= m
               PROVE  (word[1] \in Digits <=> tok[b] \in Digits) /\ (word[1] = ZERO <=> tok[b] = ZERO)
    OBVIOUS
  <2>1. 1 \in 1..Len(x) /\ b + 1 - 1 = b
    BY <1>1, <1>2
  <2>2. x[1] = tok[b]
    BY <1>2, <2>1
  <2> QED
    BY <1>3, <2>1, <2>2
<1>7. Len(word) > 1 <=> b < m
  BY <1>1, <1>2, <1>3
<1>8. b < m => (word[2] \in Digits <=> tok[b + 1] \in Digits)
  <2> SUFFICES ASSUME b < m PROVE word[2] \in Digits <=> tok[b + 1] \in Digits
    OBVIOUS
  <2>1. 2 \in 1..Len(x) /\ b + 2 - 1 = b + 1
    BY <1>1, <1>2
  <2>2. x[2] = tok[b + 1]
    BY <1>2, <2>1
  <2> QED
    BY <1>3, <2>1, <2>2
<1>9. b > m \/ b <= m
  BY <1>1
<1>10. (\/ word = <<>>
        \/ word[1] \notin Digits
        \/ word[1] = ZERO /\ Len(word) > 1 /\ word[2] \in Digits)
       <=> (b > m \/ tok[b] \notin Digits \/ ~NoLeadingZero(tok))
  BY <1>4, <1>5, <1>6, <1>7, <1>8, <1>9
<1> QED
  BY <1>10 DEF word, x, b, m

LEMMA OpenStep ==
    ASSUME TextInv, OpenNumber, UNCHANGED input
    PROVE  TextInv'
<1> DEFINE tok  == SubSeq(text, pos, TokenEnd)
           word == Lower(SubSeq(tok, First(tok), Len(tok)))
           Words == {NAN, INF, INFINITY}
           Refused == \/ word = <<>>
                      \/ word[1] \notin Digits
                      \/ word[1] = ZERO /\ Len(word) > 1 /\ word[2] \in Digits
           behind == Blank(text, TokenEnd + 1, Len(text) + 1)
<1>1. /\ text = Given(input) /\ text \in Seq(Byte)
      /\ mode = "value" /\ pos \in 1..(Len(text) + 1) /\ NextIn(Digits \cup {MINUS, 73, 78})
      /\ Reads(text) <=> ReadsAt(text, pos)
  BY DEF TextInv, OpenNumber
<1>2. /\ token' = tok /\ at' = First(tok) /\ pos' = TokenEnd + 1 /\ text' = text
      /\ hasDot' = FALSE /\ hasExp' = FALSE /\ hasFrac' = FALSE
      /\ word \in Words => mode' = "accept"
      /\ word \notin Words => mode' = IF Refused THEN "reject" ELSE "mantissa"
  BY DEF OpenNumber, First
<1>3. /\ pos \in 1..Len(text) /\ TokenEnd \in pos..Len(text)
      /\ tok \in Seq(Byte) /\ Len(tok) = TokenEnd - pos + 1
      /\ Reads(text) <=> Scalar(tok) /\ behind
      /\ word \in Words => Scalar(tok)
      /\ word \notin Words => (Scalar(tok) => Number(tok))
  BY <1>1, TokenTaken
<1>4. /\ pos' \in 1..(Len(text) + 1) /\ Len(tok) \in 1..(pos' - 1)
      /\ pos' - Len(tok) = pos /\ pos' - 1 = TokenEnd /\ Len(tok) >= 1 /\ Len(text) \in Nat
  <2>1. Len(text) \in Nat
    BY <1>1, LenProperties
  <2> HIDE DEF tok
  <2> QED
    BY <1>2, <1>3, <2>1
<1>5. tok = SubSeq(text, pos' - Len(tok), pos' - 1)
  BY <1>4
<1>6. Blank(text', pos', Len(text') + 1) <=> behind
  BY <1>2
<1> HIDE DEF tok
<1>7. Refused <=> First(tok) > Len(tok) \/ tok[First(tok)] \notin Digits \/ ~NoLeadingZero(tok)
  BY <1>3, <1>4, StartOfToken
<1> HIDE DEF word, Words, Refused, behind
<1>8. /\ text' = Given(input') /\ text' \in Seq(Byte)
      /\ Reads(text') <=> Reads(text)
  BY <1>1, <1>2
<1>9. CASE word \in Words
  <2>1. mode' = "accept" /\ pos' \in 1..(Len(text') + 1)
        /\ (Reads(text') <=> Blank(text', pos', Len(text') + 1))
    BY <1>2, <1>3, <1>4, <1>6, <1>8, <1>9
  <2> QED
    BY <1>8, <2>1 DEF TextInv
<1>10. CASE word \notin Words /\ Refused
  <2>1. mode' = "reject"
    BY <1>2, <1>10
  <2>2. ~Number(tok)
    BY <1>3, <1>7, <1>10, BadStart
  <2>3. ~Reads(text')
    BY <1>3, <1>8, <1>10, <2>2
  <2> QED
    BY <1>8, <2>1, <2>3 DEF TextInv
<1>11. CASE word \notin Words /\ ~Refused
  <2>1. mode' = "mantissa"
    BY <1>2, <1>11
  <2>2. Token'
    BY <1>2, <1>3, <1>4, <1>5, <1>6, <1>8, <1>11 DEF Token
  <2>3. First(tok) \in Nat /\ First(tok) <= Len(tok) /\ tok[First(tok)] \in Digits
        /\ NoLeadingZero(tok) /\ Len(tok) \in Nat
    BY <1>3, <1>4, <1>7, <1>11, FirstIs
  <2>4. Run(tok, First(tok), First(tok) - 1) /\ First(tok) \in First(tok)..(Len(tok) + 1)
    BY <2>3 DEF Run
  <2>5. Mantissa'
    BY <1>2, <2>3, <2>4 DEF Mantissa
  <2> QED
    BY <1>8, <2>1, <2>2, <2>5 DEF TextInv
<1> QED
  BY <1>9, <1>10, <1>11

LEMMA TokenStays ==
    ASSUME Token, UNCHANGED <<text, token, pos>>
    PROVE  Token'
  BY DEF Token

\* A run of digits, one longer.
LEMMA RunGrows ==
    ASSUME NEW s, NEW i \in Int, NEW j \in Int, Run(s, i, j - 1), s[j] \in Digits
    PROVE  Run(s, i, j)
<1> SUFFICES ASSUME NEW k \in i..j PROVE s[k] \in Digits
  BY DEF Run
<1>1. k = j \/ k \in i..(j - 1)
  OBVIOUS
<1> QED
  BY <1>1 DEF Run

\* The first loop.
LEMMA MantissaStep ==
    ASSUME TextInv, MantissaByte, UNCHANGED input
    PROVE  TextInv'
<1> DEFINE i == at - 1
           n == Len(token)
           b == First(token)
<1>1. /\ text = Given(input) /\ text \in Seq(Byte)
      /\ mode = "mantissa" /\ Token /\ Mantissa /\ at <= n
      /\ text' = text /\ pos' = pos /\ token' = token /\ hasFrac' = hasFrac
  BY DEF TextInv, MantissaByte
<1>2. /\ text' = Given(input') /\ text' \in Seq(Byte)
      /\ token \in Seq(Byte) /\ n \in Nat /\ b \in {1, 2} /\ b \in Nat
  BY <1>1, LenProperties, FirstIs DEF Token
<1>3. Token'
  BY <1>1, TokenStays
<1>4. /\ at \in b..n /\ b <= n /\ token[b] \in Digits
      /\ NoLeadingZero(token) /\ Run(token, b, i)
      /\ hasDot = FALSE /\ hasExp = FALSE /\ hasFrac = FALSE
  <2>1. at \in b..(n + 1) /\ b <= n /\ token[b] \in Digits
        /\ NoLeadingZero(token) /\ Run(token, b, i)
        /\ hasDot = FALSE /\ hasExp = FALSE /\ hasFrac = FALSE
    BY <1>1 DEF Mantissa
  <2>2. at \in b..n
    BY <1>1, <1>2, <2>1
  <2> QED
    BY <2>1, <2>2
<1>5. at \in Int /\ i \in Int /\ i + 1 = at /\ i + 2 = at + 1 /\ i < n /\ at + 1 - 1 = at
      /\ at + 1 \in b..(n + 1) /\ at + 1 \in (i + 2)..(n + 1)
  BY <1>2, <1>4
<1> HIDE DEF i, b
<1>6. token[at] \notin Digits => i \in b..n /\ i \in 1..n /\ at \in (b + 1)..n
  <2>1. token[at] \notin Digits => at # b
    BY <1>4
  <2> QED
    BY <1>2, <1>4, <1>5, <2>1
<1>7. token[at] \notin Digits => IntPart(token, i)
  BY <1>4, <1>6 DEF IntPart, b, n
<1>8. CASE /\ token[at] \in Digits
           /\ at' = at + 1 /\ mode' = mode /\ hasDot' = hasDot /\ hasExp' = hasExp
  <2>1. Run(token, b, at)
    <3>1. Run(token, b, at - 1)
      BY <1>4 DEF i
    <3> QED
      BY <1>2, <1>5, <1>8, <3>1, RunGrows
  <2>2. Run(token, b, at' - 1) /\ at' \in b..(n + 1)
    BY <1>5, <1>8, <2>1
  <2>3. Mantissa'
    BY <1>1, <1>4, <1>8, <2>2 DEF Mantissa, b, n
  <2>4. mode' = "mantissa"
    BY <1>1, <1>8
  <2> QED
    BY <1>2, <1>3, <2>3, <2>4 DEF TextInv
<1>9. CASE /\ token[at] = POINT
           /\ at' = at + 1 /\ hasDot' = TRUE /\ mode' = "fraction" /\ hasExp' = hasExp
  <2>1. i \in 1..n /\ IntPart(token, i)
    BY <1>6, <1>7, <1>9, KindsApart
  <2>2. Run(token, i + 2, at' - 1)
    <3>1. at' - 1 < i + 2 /\ at' - 1 \in Int /\ i + 2 \in Int
      BY <1>5, <1>9
    <3> QED
      BY <3>1 DEF Run
  <2>3. /\ at' \in (i + 2)..(n + 1) /\ at' = i + 2 /\ i < n /\ token[i + 1] = POINT
        /\ hasDot' = TRUE /\ hasExp' = FALSE /\ hasFrac' = FALSE
    BY <1>1, <1>4, <1>5, <1>9
  <2>4. SecondLoop'
    BY <1>1, <1>4, <2>1, <2>2, <2>3 DEF SecondLoop, Fraction, n
  <2> QED
    BY <1>2, <1>3, <1>9, <2>4 DEF TextInv
<1>10. CASE /\ token[at] \in Exponents
            /\ at' = at + 1 /\ hasExp' = TRUE /\ mode' = "fraction" /\ hasDot' = hasDot
  <2>1. i \in 1..n /\ IntPart(token, i)
    BY <1>6, <1>7, <1>10, KindsApart
  <2>2. /\ at' \in (i + 2)..(n + 1) /\ i < n /\ token[i + 1] \in Exponents /\ FracPart(token, i, i)
        /\ hasDot' = FALSE /\ hasExp' = TRUE /\ hasFrac' = FALSE
    BY <1>1, <1>4, <1>5, <1>10 DEF FracPart
  <2>3. SecondLoop'
    BY <1>1, <1>4, <2>1, <2>2 DEF SecondLoop, Exponent, n
  <2> QED
    BY <1>2, <1>3, <1>10, <2>3 DEF TextInv
<1>11. CASE token[at] \notin Digits \cup Exponents \cup {POINT} /\ mode' = "reject"
  <2>1. at \in (b + 1)..n /\ Run(token, b, at - 1)
    BY <1>4, <1>6, <1>11 DEF i
  <2>2. ~Number(token)
    BY <1>2, <1>11, <2>1, BadMantissa DEF b, n
  <2>3. ~Reads(text')
    BY <1>1, <2>2, TokenDecides
  <2> QED
    BY <1>2, <1>11, <2>3 DEF TextInv
<1> QED
  BY <1>8, <1>9, <1>10, <1>11 DEF MantissaByte

\* The second loop, behind a point.
LEMMA FractionStep ==
    ASSUME TextInv, FractionByte, UNCHANGED input,
           NEW i \in 1..Len(token), IntPart(token, i), Fraction(i)
    PROVE  TextInv'
<1> DEFINE f == at - 1
           n == Len(token)
           c == token[at]
           next == IF at < n /\ token[at + 1] \in {PLUS, MINUS} THEN at + 2 ELSE at + 1
<1>1. /\ text = Given(input) /\ text \in Seq(Byte)
      /\ mode = "fraction" /\ Token /\ NoLeadingZero(token) /\ at <= n
      /\ text' = text /\ pos' = pos /\ token' = token /\ hasDot' = hasDot
  BY DEF TextInv, FractionByte, SecondLoop
<1>2. /\ text' = Given(input') /\ text' \in Seq(Byte)
      /\ token \in Seq(Byte) /\ n \in Nat
  BY <1>1, LenProperties DEF Token
<1>3. Token'
  BY <1>1, TokenStays
<1>4. /\ hasDot = TRUE /\ hasExp = FALSE /\ i < n /\ token[i + 1] = POINT
      /\ Run(token, i + 2, f)
      /\ at = i + 2 => hasFrac = FALSE
      /\ at # i + 2 => hasFrac = TRUE
  BY DEF Fraction
<1>5. at \in (i + 2)..(n + 1) /\ at \in (i + 2)..n
  BY <1>1, <1>2 DEF Fraction
<1>6. /\ at \in Int /\ f \in Int /\ f + 1 = at /\ f + 2 = at + 1 /\ f < n /\ i + 2 \in Int
      /\ at + 1 - 1 = at /\ at + 1 \in (i + 2)..(n + 1) /\ at + 1 # i + 2
      /\ (at # i + 2 => f \in (i + 2)..n) /\ f \in 1..n
  BY <1>2, <1>5
<1>7. next \in (f + 2)..(n + 1)
  BY <1>2, <1>5, <1>6
<1> HIDE DEF f, next, c
<1>8. CASE c \in Digits /\ hasFrac' = TRUE /\ at' = at + 1 /\ mode' = mode /\ hasExp' = hasExp
  <2>1. Run(token, i + 2, at)
    <3>1. Run(token, i + 2, at - 1)
      BY <1>4 DEF f
    <3> QED
      BY <1>6, <1>8, <3>1, RunGrows DEF c
  <2>2. Run(token, i + 2, at' - 1) /\ at' \in (i + 2)..(n + 1) /\ at' # i + 2
    BY <1>6, <1>8, <2>1
  <2>3. Fraction(i)'
    BY <1>1, <1>4, <1>8, <2>2 DEF Fraction, n
  <2>4. SecondLoop'
    BY <1>1, <2>3 DEF SecondLoop
  <2> QED
    BY <1>1, <1>2, <1>3, <1>8, <2>4 DEF TextInv
<1>9. CASE c \in Exponents /\ hasFrac = TRUE /\ hasExp' = TRUE /\ at' = next
           /\ mode' = mode /\ hasFrac' = hasFrac
  <2>1. f \in (i + 2)..n
    BY <1>4, <1>6, <1>9
  <2>2. FracPart(token, i, f)
    BY <1>4, <2>1 DEF FracPart, n
  <2>3. token[f + 1] \in Exponents
    BY <1>6, <1>9 DEF c
  <2>4. PICK g \in 1..n : g = f
    BY <1>6
  <2>5. Exponent(i, g)'
    <3>1. at' \in (g + 2)..(n + 1) /\ g < n /\ token[g + 1] \in Exponents /\ FracPart(token, i, g)
      BY <1>6, <1>7, <1>9, <2>2, <2>3, <2>4
    <3>2. hasExp' = TRUE /\ hasDot' = TRUE /\ hasFrac' = TRUE
      BY <1>1, <1>4, <1>9
    <3> QED
      BY <1>1, <3>1, <3>2 DEF Exponent, n
  <2>6. SecondLoop'
    BY <1>1, <2>5 DEF SecondLoop, n
  <2> QED
    BY <1>1, <1>2, <1>3, <1>9, <2>6 DEF TextInv
<1>10. CASE /\ mode' = "reject" /\ c \notin Digits
            /\ c \notin Exponents \/ hasFrac = FALSE
  <2>1. at \in (i + 2)..(n + 1) /\ Run(token, i + 2, at - 1)
    BY <1>4, <1>5 DEF f
  <2>2. at = i + 2 \/ (at <= n /\ c \notin Exponents)
    BY <1>1, <1>4, <1>10
  <2>3. ~Number(token)
    BY <1>2, <1>4, <1>10, <2>1, <2>2, BadFraction DEF n, c
  <2>4. ~Reads(text')
    BY <1>1, <2>3, TokenDecides
  <2> QED
    BY <1>2, <1>10, <2>4 DEF TextInv
<1>11. \/ c \in Digits /\ hasFrac' = TRUE /\ at' = at + 1 /\ mode' = mode /\ hasExp' = hasExp
       \/ c \in Exponents /\ hasFrac = TRUE /\ hasExp' = TRUE /\ at' = next
          /\ mode' = mode /\ hasFrac' = hasFrac
       \/ mode' = "reject" /\ c \notin Digits /\ (c \notin Exponents \/ hasFrac = FALSE)
  <2>1. hasFrac = TRUE \/ hasFrac = FALSE
    BY <1>4
  <2>2. \A d \in Exponents : d \notin Digits
    BY KindsApart
  <2> QED
    BY <1>4, <2>1, <2>2 DEF FractionByte, DanglingPoint, c, next, n
<1> QED
  BY <1>8, <1>9, <1>10, <1>11

\* The second loop, behind an exponent's letter.
LEMMA ExponentStep ==
    ASSUME TextInv, FractionByte, UNCHANGED input,
           NEW i \in 1..Len(token), NEW f \in 1..Len(token), IntPart(token, i), Exponent(i, f)
    PROVE  TextInv'
<1> DEFINE n == Len(token)
           c == token[at]
<1>1. /\ text = Given(input) /\ text \in Seq(Byte)
      /\ mode = "fraction" /\ Token /\ NoLeadingZero(token) /\ at <= n
      /\ text' = text /\ pos' = pos /\ token' = token /\ hasDot' = hasDot
  BY DEF TextInv, FractionByte, SecondLoop
<1>2. /\ text' = Given(input') /\ text' \in Seq(Byte)
      /\ token \in Seq(Byte) /\ n \in Nat
  BY <1>1, LenProperties DEF Token
<1>3. Token'
  BY <1>1, TokenStays
<1>4. /\ hasExp = TRUE
      /\ hasDot \in BOOLEAN /\ (hasDot = TRUE => hasFrac = TRUE) /\ hasFrac \in BOOLEAN
      /\ FracPart(token, i, f) /\ f < n /\ token[f + 1] \in Exponents
  BY DEF Exponent
<1>5. at \in (f + 2)..n /\ at + 1 \in (f + 2)..(n + 1)
  BY <1>1, <1>2 DEF Exponent
<1>6. CASE /\ at' = at + 1 /\ mode' = mode /\ hasExp' = hasExp
           /\ hasFrac' \in BOOLEAN /\ (hasFrac = TRUE => hasFrac' = TRUE)
  <2>1. Exponent(i, f)'
    BY <1>1, <1>4, <1>5, <1>6 DEF Exponent, n
  <2>2. SecondLoop'
    BY <1>1, <2>1 DEF SecondLoop
  <2> QED
    BY <1>1, <1>2, <1>3, <1>6, <2>2 DEF TextInv
<1>7. CASE mode' = "reject" /\ c \notin Digits \cup {PLUS, MINUS}
  <2>1. ~Number(token)
    BY <1>2, <1>4, <1>5, <1>7, BadExponent DEF n, c
  <2>2. ~Reads(text')
    BY <1>1, <2>1, TokenDecides
  <2> QED
    BY <1>2, <1>7, <2>2 DEF TextInv
<1>8. \/ at' = at + 1 /\ mode' = mode /\ hasExp' = hasExp
         /\ hasFrac' \in BOOLEAN /\ (hasFrac = TRUE => hasFrac' = TRUE)
      \/ mode' = "reject" /\ c \notin Digits \cup {PLUS, MINUS}
  BY <1>4 DEF FractionByte
<1> QED
  BY <1>6, <1>7, <1>8

\* The loops are done: the token is a number, or it is not.
LEMMA Decided ==
    ASSUME TextInv, Token, UNCHANGED <<input, text>>,
           \/ mode' = "accept" /\ pos' = pos /\ Number(token)
           \/ mode' = "reject" /\ ~Number(token)
    PROVE  TextInv'
<1>1. /\ text' = Given(input') /\ text' \in Seq(Byte)
      /\ text \in Seq(Byte) /\ text' = text
  BY DEF TextInv
<1>2. CASE mode' = "accept" /\ pos' = pos /\ Number(token)
  BY <1>1, <1>2, TokenDecides DEF TextInv
<1>3. CASE mode' = "reject" /\ ~Number(token)
  BY <1>1, <1>3, TokenDecides DEF TextInv
<1> QED
  BY <1>2, <1>3

\* Digits only.
LEMMA FinishIntegerStep ==
    ASSUME TextInv, FinishInteger, UNCHANGED input
    PROVE  TextInv'
<1> DEFINE n == Len(token)
           b == First(token)
<1>1. /\ Token /\ Mantissa /\ at > n
      /\ text' = text /\ pos' = pos /\ mode' = "accept"
  BY DEF TextInv, FinishInteger, Returns, Accept
<1>2. token \in Seq(Byte) /\ n \in Nat /\ b \in {1, 2} /\ b \in Nat
  BY <1>1, LenProperties, FirstIs DEF Token
<1>3. at \in b..(n + 1) /\ b <= n /\ Run(token, b, at - 1) /\ NoLeadingZero(token)
  BY <1>1 DEF Mantissa
<1>4. at - 1 = n /\ n \in b..n
  BY <1>1, <1>2, <1>3
<1> HIDE DEF n, b
<1>5. IntPart(token, n)
  BY <1>3, <1>4 DEF IntPart, n, b
<1>6. FracPart(token, n, n) /\ ExpPart(token, n) /\ ~(n < Len(token))
  BY <1>2 DEF FracPart, ExpPart, n
<1>7. Number(token)
  BY <1>2, <1>3, <1>5, <1>6, NumberOfParts
<1> QED
  BY <1>1, <1>7, Decided

\* A point, or an exponent: strconv decides what the loop let through.
LEMMA FinishFloatStep ==
    ASSUME TextInv, FinishFloat, UNCHANGED input
    PROVE  TextInv'
<1> DEFINE n == Len(token)
           syntax == FloatSyntax(SubSeq(token, First(token), Len(token)))
<1>1. /\ Token /\ SecondLoop /\ at > n /\ text' = text
      /\ ~DanglingPoint /\ syntax => mode' = "accept" /\ pos' = pos
      /\ ~(~DanglingPoint /\ syntax) => mode' = "reject"
  BY DEF TextInv, FinishFloat, Returns, Fails, Accept, Reject
<1>2. token \in Seq(Byte) /\ n \in Nat /\ NoLeadingZero(token)
  BY <1>1, LenProperties DEF Token, SecondLoop
<1> HIDE DEF syntax
<1>3. Number(token) <=> ~DanglingPoint /\ syntax
  <2>1. PICK i \in 1..n : /\ IntPart(token, i)
                          /\ Fraction(i) \/ \E f \in 1..n : Exponent(i, f)
    BY <1>1 DEF SecondLoop
  <2>2. ASSUME NEW h, FracPart(token, i, h), h < n => token[h + 1] \in Exponents, ~DanglingPoint
        PROVE  Number(token) <=> ~DanglingPoint /\ syntax
    <3>1. Number(token) <=> ExpPart(token, h)
      BY <1>2, <2>1, <2>2, NumberOfParts
    <3>2. syntax <=> ExpPart(token, h)
      BY <1>2, <2>1, <2>2, FloatOfParts DEF syntax
    <3> QED
      BY <2>2, <3>1, <3>2
  <2>3. CASE Fraction(i)
    <3>1. /\ hasDot = TRUE /\ i < n /\ token[i + 1] = POINT /\ Run(token, i + 2, at - 1)
          /\ at \in (i + 2)..(n + 1)
          /\ at = i + 2 => hasFrac = FALSE
          /\ at # i + 2 => hasFrac = TRUE
      BY <2>3 DEF Fraction
    <3>2. at = n + 1 /\ at - 1 = n /\ at \in Int /\ i + 2 \in Int
      BY <1>1, <1>2, <3>1
    <3> HIDE DEF n
    <3>3. CASE at = i + 2
      <4>1. DanglingPoint
        BY <3>1, <3>3 DEF DanglingPoint
      <4>2. ~(at <= Len(token))
        BY <1>1, <1>2, <3>2 DEF n
      <4>3. ~Number(token)
        BY <1>2, <2>1, <3>1, <3>3, <4>2, BadFraction DEF n
      <4> QED
        BY <4>1, <4>3
    <3>4. CASE at # i + 2
      <4>1. ~DanglingPoint
        BY <3>1, <3>4 DEF DanglingPoint
      <4>2. n \in (i + 2)..n
        BY <1>2, <3>1, <3>2, <3>4
      <4>3. FracPart(token, i, n)
        BY <3>1, <3>2, <4>2 DEF FracPart, n
      <4>4. ~(n < n)
        BY <1>2
      <4> QED
        BY <2>2, <4>1, <4>3, <4>4
    <3> QED
      BY <3>3, <3>4
  <2>4. ASSUME NEW f \in 1..n, Exponent(i, f)
        PROVE  Number(token) <=> ~DanglingPoint /\ syntax
    <3>1. FracPart(token, i, f) /\ token[f + 1] \in Exponents
      BY <2>4 DEF Exponent
    <3>2. ~DanglingPoint
      BY <2>4 DEF Exponent, DanglingPoint
    <3> QED
      BY <2>2, <3>1, <3>2
  <2> QED
    BY <2>1, <2>3, <2>4
<1> QED
  BY <1>1, <1>3, Decided
-----------------------------------------------------------------------------
(* The other steps.                                                        *)

\* The three words, and which begins how.
LEMMA Words ==
    /\ \A w \in Literal3 : w \in Seq(Nat) /\ Len(w) \in 1..5
    /\ \A w, v \in Literal3 : w[1] = v[1] => w = v
<1>1. /\ TRUETEXT \in Seq(Nat) /\ Len(TRUETEXT) = 4 /\ TRUETEXT[1] = 116
      /\ FALSETEXT \in Seq(Nat) /\ Len(FALSETEXT) = 5 /\ FALSETEXT[1] = 102
      /\ NULLTEXT \in Seq(Nat) /\ Len(NULLTEXT) = 4 /\ NULLTEXT[1] = 110
  BY DEF TRUETEXT, FALSETEXT, NULLTEXT
<1> QED
  BY <1>1 DEF Literal3

LEMMA PrefixIs ==
    ASSUME NEW S, NEW t \in Seq(S), NEW w \in Literal3
    PROVE  /\ IsPrefix(w, t) => /\ Len(w) <= Len(t) /\ w[1] = t[1]
                                /\ Len(w) = Len(t) => w = t
           /\ w = t => IsPrefix(w, t)
<1>1. w \in Seq(Nat) /\ Len(w) \in 1..5 /\ Len(t) \in Nat
  BY Words, LenProperties
<1>2. SubSeq(w, 1, Len(w)) = w
  BY <1>1, SubSeqFull
<1>3. SubSeq(t, 1, Len(t)) = t
  BY SubSeqFull
<1>4. ASSUME IsPrefix(w, t)
      PROVE  Len(w) <= Len(t) /\ w[1] = t[1] /\ (Len(w) = Len(t) => w = t)
  <2>1. Len(w) <= Len(t) /\ w = SubSeq(t, 1, Len(w))
    BY <1>2, <1>4 DEF IsPrefix
  <2>2. 1 + Len(w) - 1 = Len(w) /\ 1 \in 1..Len(w) /\ 1 + 1 - 1 = 1 /\ 1 \in Nat \ {0}
        /\ Len(w) \in Nat
    <3> DEFINE m == Len(w)
    <3>1. m \in 1..5
      BY <1>1
    <3> HIDE DEF m
    <3>2. 1 + m - 1 = m /\ 1 \in 1..m /\ m \in Nat
      BY <3>1
    <3>3. 1 + 1 - 1 = 1 /\ 1 \in Nat \ {0}
      OBVIOUS
    <3> QED
      BY <3>2, <3>3 DEF m
  <2>3. SubSeq(t, 1, Len(w))[1] = t[1]
    BY <2>1, <2>2, SubSeqPart
  <2> QED
    BY <1>3, <2>1, <2>3
<1>5. ASSUME w = t PROVE IsPrefix(w, t)
  <2>1. Len(w) <= Len(t)
    BY <1>1, <1>5
  <2> QED
    BY <1>5, <2>1 DEF IsPrefix
<1> QED
  BY <1>4, <1>5

\* A word is a prefix of what is left of t.
LEMMA WordAt ==
    ASSUME NEW t \in Seq(Byte), NEW p \in 1..Len(t), NEW w \in Literal3
    PROVE  IsPrefix(w, SubSeq(t, p, Len(t))) <=>
               p + Len(w) - 1 \in p..Len(t) /\ w = SubSeq(t, p, p + Len(w) - 1)
<1> DEFINE n == Len(t)
           r == SubSeq(t, p, n)
           m == Len(w)
           x == SubSeq(r, 1, m)
           y == SubSeq(t, p, p + m - 1)
<1>1. n \in Nat /\ p \in Nat \ {0} /\ n \in 0..n /\ p <= n + 1
  BY LenProperties
<1>2. w \in Seq(Nat) /\ m \in 1..5
  BY Words
<1>3. r \in Seq(Byte) /\ Len(r) = n - p + 1 /\ \A k \in 1..Len(r) : r[k] = t[p + k - 1]
  BY <1>1, Part
<1> HIDE DEF r
<1>4. m <= Len(r) <=> p + m - 1 \in p..n
  <2> HIDE DEF m, n
  <2> QED
    BY <1>1, <1>2, <1>3
<1>5. m <= Len(r) => x = y
  <2> SUFFICES ASSUME m <= Len(r) PROVE x = y
    OBVIOUS
  <2>1. m \in 0..Len(r) /\ 1 <= m + 1 /\ m - 1 + 1 = m /\ 1 \in Nat \ {0}
        /\ p + m - 1 \in 0..n /\ p <= p + m - 1 + 1 /\ p + m - 1 - p + 1 = m
    <3> HIDE DEF m, n
    <3> QED
      BY <1>1, <1>2, <1>3, <1>4
  <2>2. x \in Seq(Byte) /\ Len(x) = m /\ \A k \in 1..Len(x) : x[k] = r[1 + k - 1]
    BY <1>3, <2>1, Part
  <2>3. y \in Seq(Byte) /\ Len(y) = m /\ \A k \in 1..Len(y) : y[k] = t[p + k - 1]
    BY <1>1, <2>1, Part
  <2> HIDE DEF x, y, m
  <2>4. \A k \in 1..m : 1 + k - 1 = k /\ k \in 1..Len(r)
    BY <1>2, <1>3, <2>1
  <2>5. \A k \in 1..Len(x) : x[k] = y[k]
    BY <1>3, <2>2, <2>3, <2>4
  <2> QED
    BY <2>2, <2>3, <2>5, SeqIsSeq, SameSeq
<1>6. SubSeq(w, 1, m) = w
  BY <1>2, SubSeqFull
<1>7. IsPrefix(w, r) <=> m <= Len(r) /\ w = x
  BY <1>6 DEF IsPrefix
<1> QED
  BY <1>4, <1>5, <1>7 DEF r

\* A scalar is its own beginning.
LEMMA ScalarAtBegins ==
    ASSUME NEW t \in Seq(Byte), NEW a \in 1..Len(t), ScalarAt(t, a)
    PROVE  t[a] \in Digits \cup {MINUS, 73, 78, 116, 102, 110}
<1>1. PICK b \in a..Len(t) : Scalar(SubSeq(t, a, b))
  BY DEF ScalarAt
<1> DEFINE x == SubSeq(t, a, b)
<1>2. a \in Nat \ {0} /\ b \in 0..Len(t) /\ a <= b + 1 /\ a \in a..b /\ a - a + 1 = 1
  BY LenProperties
<1>3. x \in Seq(Byte) /\ x[1] = t[a]
  BY <1>2, Part
<1>4. Scalar(x)
  BY <1>1
<1> HIDE DEF x
<1>5. x[1] \in Digits \cup {MINUS, 73, 78, 116, 102, 110}
  BY <1>3, <1>4, ScalarIs, ScalarBegins
<1> QED
  BY <1>3, <1>5

\* What begins as a word does is one.
LEMMA LiteralAt ==
    ASSUME NEW t \in Seq(Byte), NEW p \in 1..Len(t), t[p] \in {116, 102, 110}
    PROVE  ScalarAt(t, p) <=>
               \E w \in Literal3 : IsPrefix(w, SubSeq(t, p, Len(t))) /\ Blank(t, p + Len(w), Len(t) + 1)
<1> DEFINE n == Len(t)
<1>1. n \in Nat /\ p \in Nat \ {0}
  BY LenProperties
<1>2. ASSUME NEW b \in p..n, Scalar(SubSeq(t, p, b)), Blank(t, b + 1, n + 1)
      PROVE  \E w \in Literal3 : IsPrefix(w, SubSeq(t, p, n)) /\ Blank(t, p + Len(w), n + 1)
  <2> DEFINE x == SubSeq(t, p, b)
  <2>1. b \in 0..n /\ p <= b + 1 /\ p \in p..b /\ p - p + 1 = 1 /\ b \in p..n
        /\ p + (b - p + 1) - 1 = b /\ p + (b - p + 1) = b + 1
    BY <1>1
  <2>2. x \in Seq(Byte) /\ Len(x) = b - p + 1 /\ x[1] = t[p]
    BY <1>1, <2>1, Part
  <2>3. Scalar(x)
    BY <1>2
  <2> HIDE DEF x
  <2>4. x \in Literal3
    <3>1. \A c \in {116, 102, 110} : c \notin Digits \cup {MINUS, 73, 78}
      BY DEF Digits, MINUS
    <3>2. x[1] \in {116, 102, 110}
      BY <2>2
    <3> QED
      BY <2>2, <2>3, <3>1, <3>2, ScalarIs, ScalarBegins
  <2>5. p + Len(x) - 1 = b /\ p + Len(x) = b + 1
    BY <2>1, <2>2
  <2>6. x = SubSeq(t, p, p + Len(x) - 1)
    BY <2>5 DEF x
  <2>7. IsPrefix(x, SubSeq(t, p, n))
    BY <2>1, <2>4, <2>5, <2>6, WordAt
  <2> QED
    BY <1>2, <2>4, <2>5, <2>7
<1>3. ASSUME NEW w \in Literal3, IsPrefix(w, SubSeq(t, p, n)), Blank(t, p + Len(w), n + 1)
      PROVE  ScalarAt(t, p)
  <2> DEFINE b == p + Len(w) - 1
  <2>1. b \in p..n /\ w = SubSeq(t, p, b)
    BY <1>3, WordAt
  <2>2. b + 1 = p + Len(w)
    <3> DEFINE m == Len(w)
    <3>1. m \in 1..5
      BY Words
    <3> HIDE DEF m
    <3>2. p + m - 1 + 1 = p + m
      BY <1>1, <3>1
    <3> QED
      BY <3>2 DEF m
  <2>3. Scalar(w)
    BY DEF Scalar, Literal3
  <2> HIDE DEF b
  <2>4. Scalar(SubSeq(t, p, b)) /\ Blank(t, b + 1, n + 1)
    BY <1>3, <2>1, <2>2, <2>3
  <2> QED
    BY <2>1, <2>4 DEF ScalarAt
<1> QED
  BY <1>2, <1>3 DEF ScalarAt

LEMMA LiteralStep ==
    ASSUME TextInv, ReadLiteral, UNCHANGED input
    PROVE  TextInv'
<1> DEFINE n == Len(text)
           r == SubSeq(text, pos, n)
           Behind(w) == Blank(text, pos + Len(w), n + 1)
<1>1. /\ text = Given(input) /\ text \in Seq(Byte) /\ text' = text
      /\ mode = "value" /\ pos \in 1..(n + 1) /\ NextIn({116, 102, 110})
      /\ Reads(text) <=> ReadsAt(text, pos)
  BY DEF TextInv, ReadLiteral, Accept, Reject
<1>2. /\ text' = Given(input') /\ text' \in Seq(Byte) /\ n \in Nat
      /\ pos \in 1..n /\ text[pos] \in {116, 102, 110}
  BY <1>1, LenProperties DEF NextIn, AtEnd
<1>3. Reads(text) <=> \E w \in Literal3 : IsPrefix(w, r) /\ Behind(w)
  <2>1. text[pos] \in ScalarByte
    BY <1>2, ScalarBytes
  <2> QED
    BY <1>1, <1>2, <2>1, ReadsHere, LiteralAt
<1>4. \A w, v \in Literal3 : IsPrefix(w, r) /\ IsPrefix(v, r) => w = v
  <2>1. r \in Seq(Byte)
    <3>1. pos \in Nat \ {0} /\ n \in 0..n /\ pos <= n + 1
      BY <1>2
    <3> QED
      BY <1>1, <3>1, Part
  <2> HIDE DEF r
  <2> QED
    BY <2>1, PrefixIs, Words
<1>5. ASSUME NEW w \in Literal3, IsPrefix(w, r), mode' = "accept", pos' = pos + Len(w)
      PROVE  TextInv'
  <2>1. Reads(text) <=> Behind(w)
    BY <1>3, <1>4, <1>5
  <2>2. pos + Len(w) - 1 \in pos..n
    BY <1>1, <1>2, <1>5, WordAt
  <2>3. pos' \in 1..(n + 1)
    <3> DEFINE m == Len(w)
    <3>1. m \in 1..5
      BY Words
    <3> HIDE DEF m
    <3> QED
      BY <1>2, <1>5, <2>2, <3>1 DEF m
  <2>4. Reads(text') <=> Blank(text', pos', Len(text') + 1)
    BY <1>1, <1>5, <2>1
  <2> QED
    BY <1>1, <1>2, <1>5, <2>3, <2>4 DEF TextInv
<1>6. ASSUME \A w \in Literal3 : ~IsPrefix(w, r), mode' = "reject"
      PROVE  TextInv'
  <2>1. ~Reads(text')
    BY <1>1, <1>3, <1>6
  <2> QED
    BY <1>2, <1>6, <2>1 DEF TextInv
<1>7. \/ \E w \in Literal3 : IsPrefix(w, r) /\ mode' = "accept" /\ pos' = pos + Len(w)
      \/ mode' = "reject" /\ \A w \in Literal3 : ~IsPrefix(w, r)
  BY <1>1 DEF ReadLiteral, Accept, Reject, Literal3, From
<1> QED
  BY <1>5, <1>6, <1>7

\* Where the loop of skipWS ends, nothing is blank.
LEMMA NothingToSkip ==
    ASSUME text \in Seq(Byte), ~AtItem, NEW j, Blank(text, pos, j)
    PROVE  j = pos
<1>1. \A d : Item(text, pos, d) => d \in (pos + 1)..(Len(text) + 1)
  BY DEF Item
<1>2. \A d : ~Item(text, pos, d)
  BY <1>1 DEF AtItem
<1> QED
  BY <1>2, Stuck

\* No byte, or one that begins no value.
LEMMA NoScalarStep ==
    ASSUME TextInv, NoScalar, UNCHANGED input
    PROVE  TextInv'
<1>1. /\ text = Given(input) /\ text \in Seq(Byte) /\ text' = text /\ mode' = "reject"
      /\ pos \in 1..(Len(text) + 1) /\ (Reads(text) <=> ReadsAt(text, pos)) /\ ~AtItem
      /\ ~NextIn(Digits \cup {MINUS, 73, 78, 116, 102, 110})
  BY DEF TextInv, NoScalar, Reject, NextIn
<1>2. ~Reads(text)
  <2> SUFFICES ASSUME NEW a \in pos..Len(text), ScalarAt(text, a), Blank(text, pos, a)
               PROVE  FALSE
    BY <1>1 DEF ReadsAt
  <2>1. a = pos
    BY <1>1, NothingToSkip
  <2>2. pos \in 1..Len(text) /\ ~(pos > Len(text))
    BY <1>1, <2>1, LenProperties
  <2>3. text[pos] \in Digits \cup {MINUS, 73, 78, 116, 102, 110}
    BY <1>1, <2>1, <2>2, ScalarAtBegins
  <2> QED
    BY <1>1, <2>2, <2>3 DEF NextIn, AtEnd
<1> QED
  BY <1>1, <1>2 DEF TextInv

\* Something behind the value.
LEMMA TrailingStep ==
    ASSUME TextInv, TrailingText, UNCHANGED input
    PROVE  TextInv'
<1>1. /\ text = Given(input) /\ text \in Seq(Byte) /\ text' = text /\ mode' = "reject"
      /\ Reads(text) <=> Blank(text, pos, Len(text) + 1)
      /\ pos \in 1..(Len(text) + 1) /\ ~AtItem /\ ~(pos > Len(text))
  BY DEF TextInv, TrailingText, AtEnd, Reject
<1>2. Len(text) \in Nat
  BY <1>1, LenProperties
<1>3. ~Reads(text)
  <2> SUFFICES ASSUME Blank(text, pos, Len(text) + 1) PROVE FALSE
    BY <1>1
  <2>1. pos = Len(text) + 1
    BY <1>1, NothingToSkip
  <2> QED
    BY <1>1, <1>2, <2>1
<1> QED
  BY <1>1, <1>3 DEF TextInv

\* What stands behind an item stands behind the blanks that begin with it.
LEMMA BehindItem ==
    ASSUME NEW t \in Seq(Byte), NEW p \in Int, NEW d, Item(t, p, d), NEW a \in Int
    PROVE  /\ t[a] \notin ItemBytes => (Blank(t, p, a) <=> Blank(t, d, a) /\ d <= a)
           /\ a = Len(t) + 1 => (Blank(t, p, a) <=> Blank(t, d, a))
<1>1. p \in 1..Len(t) /\ d \in (p + 1)..(Len(t) + 1) /\ t[p] \in ItemBytes /\ Len(t) \in Nat
  BY ItemIs, LenProperties
<1>2. Blank(t, d, a) => Blank(t, p, a)
  BY BlankWith
<1>3. Blank(t, p, a) /\ p # a => Blank(t, d, a) /\ d <= a
  BY BlankWithout
<1>4. t[a] \notin ItemBytes => p # a
  BY <1>1
<1>5. a = Len(t) + 1 => p # a
  BY <1>1
<1> QED
  BY <1>2, <1>3, <1>4, <1>5

\* skipWS: one turn of its loop, before the value or behind it.
LEMMA SkipStep ==
    ASSUME TextInv, SkipBlank, UNCHANGED input
    PROVE  TextInv'
<1> DEFINE n == Len(text)
<1>1. PICK d \in (pos + 1)..(n + 1) : Item(text, pos, d) /\ pos' = d
  BY DEF SkipBlank
<1>2. /\ text = Given(input) /\ text \in Seq(Byte) /\ text' = text /\ mode' = mode
      /\ mode \in {"value", "accept"} /\ pos \in 1..(n + 1) /\ n \in Nat
      /\ mode = "value" => (Reads(text) <=> ReadsAt(text, pos)) /\ ~StrangeAt(text, pos)
      /\ mode = "accept" => (Reads(text) <=> Blank(text, pos, n + 1))
  BY LenProperties DEF TextInv, SkipBlank
<1>3. /\ pos \in 1..n /\ d \in 1..(n + 1) /\ n + 1 \in Int /\ pos \in Int /\ pos < d
  BY <1>1, <1>2, ItemIs
<1>4. ASSUME NEW a, text[a] \in ScalarByte \cup Brackets \cup {QUOTE}
      PROVE  a \in pos..n /\ Blank(text, pos, a) <=> a \in d..n /\ Blank(text, d, a)
  <2>1. text[a] \notin ItemBytes
    BY <1>4, ScalarBytes
  <2>2. CASE a \in Int
    <3>1. Blank(text, pos, a) <=> Blank(text, d, a) /\ d <= a
      BY <1>1, <1>2, <1>3, <2>1, <2>2, BehindItem
    <3> QED
      BY <1>3, <2>2, <3>1
  <2> QED
    BY <1>3, <2>2
<1>5. CASE mode = "value"
  <2>1. \A a \in 1..n : ScalarAt(text, a) => text[a] \in ScalarByte
    BY <1>2, ScalarAtBegins, ScalarBytes
  <2>2. \A a \in pos..n : a \in 1..n
    BY <1>3
  <2>3. \A a \in d..n : a \in 1..n
    BY <1>3
  <2>4. ReadsAt(text, pos) <=> ReadsAt(text, d)
    BY <1>4, <2>1, <2>2, <2>3 DEF ReadsAt
  <2>5. StrangeAt(text, pos) <=> StrangeAt(text, d)
    BY <1>4 DEF StrangeAt
  <2>6. text' = Given(input') /\ pos' \in 1..(Len(text') + 1)
        /\ (Reads(text') <=> ReadsAt(text', pos')) /\ ~StrangeAt(text', pos')
    BY <1>1, <1>2, <1>3, <1>5, <2>4, <2>5
  <2> QED
    BY <1>2, <1>5, <2>6 DEF TextInv
<1>6. CASE mode = "accept"
  <2>1. Blank(text, pos, n + 1) <=> Blank(text, d, n + 1)
    BY <1>1, <1>2, <1>3, BehindItem
  <2>2. text' = Given(input') /\ pos' \in 1..(Len(text') + 1)
        /\ (Reads(text') <=> Blank(text', pos', Len(text') + 1))
    BY <1>1, <1>2, <1>3, <1>6, <2>1
  <2> QED
    BY <1>2, <1>6, <2>2 DEF TextInv
<1> QED
  BY <1>2, <1>5, <1>6

\* A step that is not of a scalar's loop changes nothing here.
LEMMA NothingRead ==
    ASSUME TextInv, UNCHANGED <<input, inputVars, numberVars>>
    PROVE  TextInv'
<1>1. /\ input' = input /\ text' = text /\ pos' = pos /\ mode' = mode /\ token' = token /\ at' = at
      /\ hasDot' = hasDot /\ hasExp' = hasExp /\ hasFrac' = hasFrac
  BY DEF inputVars, numberVars
<1>2. Token => Token'
  BY <1>1 DEF Token
<1>3. Mantissa => Mantissa'
  BY <1>1 DEF Mantissa
<1>4. SecondLoop => SecondLoop'
  <2>1. \A i : Fraction(i) => Fraction(i)'
    BY <1>1 DEF Fraction
  <2>2. \A i, f : Exponent(i, f) => Exponent(i, f)'
    BY <1>1 DEF Exponent
  <2> QED
    BY <1>1, <2>1, <2>2 DEF SecondLoop
<1> QED
  BY <1>1, <1>2, <1>3, <1>4 DEF TextInv

\* No string is begun, and no container: behind the blanks is neither a quote nor a bracket.
LEMMA NoString ==
    ASSUME TextInv
    PROVE  ~WriteString /\ ~ReadString /\ ~OpenContainer
<1>1. /\ text \in Seq(Byte)
      /\ mode \in {"value", "mantissa", "fraction", "accept", "reject"}
      /\ mode = "value" => pos \in 1..(Len(text) + 1) /\ ~StrangeAt(text, pos)
  BY DEF TextInv
<1>2. ASSUME mode = "value", NextIn(Brackets \cup {QUOTE}) PROVE FALSE
  <2>1. pos \in 1..(Len(text) + 1) /\ ~(pos > Len(text)) /\ text[pos] \in Brackets \cup {QUOTE}
    BY <1>1, <1>2 DEF NextIn, AtEnd
  <2>2. pos \in pos..Len(text) /\ pos \in Int
    BY <1>1, <2>1, LenProperties
  <2>3. StrangeAt(text, pos)
    BY <2>1, <2>2, NothingIsBlank DEF StrangeAt
  <2> QED
    BY <1>1, <1>2, <2>3
<1>3. ~OpenString /\ ~OpenContainer
  BY <1>2 DEF OpenString, OpenContainer, NextIn
<1>4. ~WriteString
  BY <1>1 DEF WriteString, ScanForEscape, WriteRun, WriteClose
<1>5. mode \notin {"fast", "slow"}
  BY <1>1
<1>6. ~(FastPath \/ CloseString \/ Escape \/ ScanRun \/ CopyRun \/ Unterminated)
  BY <1>5 DEF FastPath, CloseString, Escape, ScanRun, CopyRun, Unterminated
<1> QED
  BY <1>3, <1>4, <1>6 DEF ReadString
-----------------------------------------------------------------------------
LEMMA LanguageInvInit == ScalarInit => LanguageInv
<1> SUFFICES ASSUME ScalarInit, Unquoted PROVE TextInv
  BY DEF LanguageInv
<1>1. text = Given(input) /\ mode = "value" /\ pos = 1 /\ text \in Seq(Byte)
      /\ ~Opens(text, Brackets \cup {QUOTE})
  BY DEF ScalarInit, Unquoted
<1>2. 1 \in 1..(Len(text) + 1) /\ DOMAIN text = 1..Len(text)
  BY <1>1, LenProperties
<1>3. Reads(text) <=> ReadsAt(text, 1)
  BY <1>2 DEF Reads, ReadsAt, ScalarAt
<1>4. ~StrangeAt(text, 1)
  BY <1>1, <1>2 DEF Opens, StrangeAt
<1> QED
  BY <1>1, <1>2, <1>3, <1>4 DEF TextInv

LEMMA LanguageInvNext == LanguageInv /\ [ScalarNext]_scalarVars => LanguageInv'
<1> SUFFICES ASSUME LanguageInv, [ScalarNext]_scalarVars PROVE LanguageInv'
  OBVIOUS
<1>1. input' = input
  BY DEF ScalarNext, scalarVars
<1> SUFFICES ASSUME TextInv PROVE TextInv'
  BY <1>1 DEF LanguageInv, Unquoted
<1>2. CASE Scanning /\ UNCHANGED numberVars
  BY <1>1, <1>2, NothingRead DEF Scanning
<1>3. CASE WriteString \/ ReadString \/ OpenContainer
  BY <1>3, NoString
<1>4. CASE ReadNumber
  <2>1. CASE OpenNumber
    BY <1>1, <2>1, OpenStep
  <2>2. CASE MantissaByte
    BY <1>1, <2>2, MantissaStep
  <2>3. CASE FractionByte
    <3>1. mode = "fraction"
      BY <2>3 DEF FractionByte
    <3>2. PICK i \in 1..Len(token) :
              /\ IntPart(token, i)
              /\ Fraction(i) \/ \E f \in 1..Len(token) : Exponent(i, f)
      BY <3>1 DEF TextInv, SecondLoop
    <3> QED
      BY <1>1, <2>3, <3>2, FractionStep, ExponentStep
  <2>4. CASE FinishInteger
    BY <1>1, <2>4, FinishIntegerStep
  <2>5. CASE FinishFloat
    BY <1>1, <2>5, FinishFloatStep
  <2> QED
    BY <1>4, <2>1, <2>2, <2>3, <2>4, <2>5 DEF ReadNumber
<1>5. CASE ReadLiteral
  BY <1>1, <1>5, LiteralStep
<1>6. CASE NoScalar
  BY <1>1, <1>6, NoScalarStep
<1>7. CASE TrailingText
  BY <1>1, <1>7, TrailingStep
<1>8. CASE SkipBlank
  BY <1>1, <1>8, SkipStep
<1>9. CASE UNCHANGED scalarVars
  BY <1>9, NothingRead DEF scalarVars
<1> QED
  BY <1>2, <1>3, <1>4, <1>5, <1>6, <1>7, <1>8, <1>9 DEF ScalarNext

\* A text that begins neither a string nor a container has been read.
LEMMA FinishedText ==
    ASSUME TextInv, Finished
    PROVE  /\ Accepted <=> Reads(text)
           /\ Accepted => pos = Len(text) + 1
<1>1. /\ text \in Seq(Byte) /\ mode # "container"
      /\ mode = "accept" => /\ pos \in 1..(Len(text) + 1)
                            /\ Reads(text) <=> Blank(text, pos, Len(text) + 1)
      /\ mode = "reject" => ~Reads(text)
  BY DEF TextInv
<1>2. Len(text) \in Nat
  BY <1>1, LenProperties
<1>3. CASE mode = "accept" /\ AtEnd
  <2>1. pos = Len(text) + 1 /\ pos \in Int
    <3>1. pos > Len(text) /\ pos \in 1..(Len(text) + 1)
      BY <1>1, <1>3 DEF AtEnd
    <3> QED
      BY <1>2, <3>1
  <2>2. Blank(text, pos, Len(text) + 1)
    BY <2>1, NothingIsBlank
  <2> QED
    BY <1>1, <1>3, <2>1, <2>2 DEF Accepted
<1>4. CASE mode = "reject"
  BY <1>1, <1>4 DEF Accepted
<1> QED
  BY <1>1, <1>3, <1>4 DEF Finished

LEMMA LanguageInvSafe == input \in Inputs /\ LanguageInv => ScalarLanguage
<1> SUFFICES ASSUME input \in Inputs, LanguageInv, IsA("token", input), Finished,
                    ~Opens(input.token, Brackets \cup {QUOTE})
             PROVE  Accepted <=> Reads(input.token)
  BY DEF ScalarLanguage
<1>1. input \in [token : Tokens] /\ ~IsA("read", input) /\ ~IsA("number", input) /\ ~IsA("write", input)
  <2>1. input \in [write : Strings] \cup [read : Literals, cut : 0..MaxCut]
                      \cup [number : Numbers] \cup [token : Tokens]
    BY DEF Inputs
  <2>2. "token" \in DOMAIN input
    BY DEF IsA
  <2>3. /\ input \in [write : Strings] => DOMAIN input = {"write"}
        /\ input \in [read : Literals, cut : 0..MaxCut] => DOMAIN input = {"read", "cut"}
        /\ input \in [number : Numbers] => DOMAIN input = {"number"}
        /\ input \in [token : Tokens] => DOMAIN input = {"token"}
    OBVIOUS
  <2>4. input \in [token : Tokens]
    BY <2>1, <2>2, <2>3
  <2> QED
    BY <2>3, <2>4 DEF IsA
<1>2. Given(input) = input.token
  BY <1>1 DEF Given
<1>3. input.token \in Seq(Byte)
  BY <1>1, TokensAssumption
<1>4. TextInv
  BY <1>1, <1>2, <1>3 DEF LanguageInv, Unquoted
<1>5. text = input.token
  BY <1>2, <1>4 DEF TextInv
<1> QED
  BY <1>4, <1>5, FinishedText

\* What the text comes from never changes.
LEMMA InputStays == ScalarSpec => [](input \in Inputs)
<1>1. ScalarInit => input \in Inputs
  BY DEF ScalarInit
<1>2. input \in Inputs /\ [ScalarNext]_scalarVars => (input \in Inputs)'
  BY DEF ScalarNext, scalarVars
<1> QED
  BY <1>1, <1>2, PTL DEF ScalarSpec

LEMMA LanguageInvariance == ScalarSpec => []LanguageInv
  BY LanguageInvInit, LanguageInvNext, PTL DEF ScalarSpec

\* A text that begins, behind any blanks, neither a string nor a container is read,
\* whatever its length, exactly when it is a JSON number, a special word or one of the
\* three literals with whitespace and comments around it: numberFromToken's two loops,
\* strconv's syntax behind them, parseLiteral and skipWS let through nothing else, and
\* turn none of these away.
THEOREM ScalarsExact == ScalarSpec => []ScalarLanguage
  BY InputStays, LanguageInvariance, LanguageInvSafe, PTL
=============================================================================
