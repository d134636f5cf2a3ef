---------------------------- MODULE NumberToken ----------------------------
(***************************************************************************)
(* Numbers, written (strconv.AppendInt, and appendFloat, number.go) and    *)
(* read (parseNumber, numberFromToken, parseInt64, decode.go).             *)
(*                                                                         *)
(* The machine word has 2 * Cutoff values, 2^64 in the code.  A finite     *)
(* float is its shortest decimal: a sign, digits without zeros at either   *)
(* end, and the position kk of the point, 0.DIGITS times ten to the kk.    *)
(* How digits are found for a float (d2d) and a float for digits           *)
(* (strconv.ParseFloat) is left out; the layout of the text is not.        *)
(***************************************************************************)
EXTENDS ScalarInput

CONSTANT Cutoff     \* parseInt64's constant: half the values of uint64, 2^63

ASSUME CutoffAssumption == Cutoff \in Nat \ {0}

VARIABLES
    token,      \* the bytes numberFromToken was given
    at,         \* its i, plus one
    hasDot, hasExp, hasFrac

numberVars == <<token, at, hasDot, hasExp, hasFrac>>

MINUS == 45
PLUS  == 43
POINT == 46
ZERO  == 48
Exponents == {101, 69}      \* e and E

MaxUint == 2 * Cutoff - 1

Integer(n) == [int |-> n]
Big(n)   == [big |-> n]
Float(neg, digits, kk) == [neg |-> neg, digits |-> digits, kk |-> kk]
Special(w) == [special |-> w]

\* isNumberByte
NumberByte == Digits \cup Exponents \cup {MINUS, PLUS, POINT, 73, 78, 97, 102, 110, 105, 116, 121}

\* equalsCI: s in lower case.
Lower(s) == [i \in DOMAIN s |-> IF s[i] \in 65..90 THEN s[i] + 32 ELSE s[i]]
NAN      == <<110, 97, 110>>
INF      == <<105, 110, 102>>
INFINITY == <<105, 110, 102, 105, 110, 105, 116, 121>>
-----------------------------------------------------------------------------
\* The end of the run of number bytes at pos.
TokenEnd == CHOOSE e \in (pos - 1)..Len(text) :
                /\ \A i \in pos..e : text[i] \in NumberByte
                /\ e < Len(text) => text[e + 1] \notin NumberByte

\* Where the digits begin.
First(tok) == IF tok[1] = MINUS THEN 2 ELSE 1

\* numberFromToken returns a value; parseNumber has moved behind the token.
Returns(v) == Accept(v, pos) /\ UNCHANGED numberVars
Fails      == Reject /\ UNCHANGED numberVars

\* parseNumber takes the token, and numberFromToken checks how it begins:
\* special words, then a digit, and no second digit after a zero.
OpenNumber ==
    /\ mode = "value"
    /\ NextIn(Digits \cup {MINUS, 73, 78})
    /\ token' = SubSeq(text, pos, TokenEnd)
    /\ at' = First(token')
    /\ hasDot' = FALSE /\ hasExp' = FALSE /\ hasFrac' = FALSE
    /\ pos' = TokenEnd + 1
    /\ LET word == Lower(SubSeq(token', at', Len(token')))
           neg  == at' = 2
       IN  \/ word = NAN /\ mode' = "accept" /\ result' = Special("NaN")
           \/ /\ word \in {INF, INFINITY}
              /\ mode' = "accept"
              /\ result' = Special(IF neg THEN "-Inf" ELSE "Inf")
           \/ /\ word \notin {NAN, INF, INFINITY}
              /\ mode' = IF \/ word = <<>>
                            \/ word[1] \notin Digits
                            \/ word[1] = ZERO /\ Len(word) > 1 /\ word[2] \in Digits
                         THEN "reject" ELSE "mantissa"
              /\ UNCHANGED result
    /\ UNCHANGED <<text, scanVars>>

\* The first loop: digits up to a point, an exponent, or anything else.
MantissaByte ==
    /\ mode = "mantissa"
    /\ at <= Len(token)
    /\ \/ /\ token[at] \in Digits
          /\ at' = at + 1 /\ UNCHANGED <<mode, hasDot, hasExp>>
       \/ /\ token[at] = POINT
          /\ at' = at + 1 /\ hasDot' = TRUE /\ mode' = "fraction" /\ UNCHANGED hasExp
       \/ /\ token[at] \in Exponents
          /\ at' = at + 1 /\ hasExp' = TRUE /\ mode' = "fraction" /\ UNCHANGED hasDot
       \/ /\ token[at] \notin Digits \cup Exponents \cup {POINT}
          /\ mode' = "reject" /\ UNCHANGED <<at, hasDot, hasExp>>
    /\ UNCHANGED <<text, pos, result, token, hasFrac, scanVars>>

\* Mutant: the point needs no digit behind it.
DanglingPoint_Allowed == FALSE

\* A point without a digit behind it.
DanglingPoint == hasDot /\ ~hasFrac

\* The second loop.
FractionByte ==
    /\ mode = "fraction"
    /\ at <= Len(token)
    /\ LET c == token[at]
           opensExponent == c \in Exponents /\ hasDot /\ ~hasExp
           signed == at < Len(token) /\ token[at + 1] \in {PLUS, MINUS}
       IN  \/ /\ c \in Digits
              /\ hasFrac' = (hasFrac \/ (hasDot /\ ~hasExp))
              /\ at' = at + 1
              /\ UNCHANGED <<mode, hasExp>>
           \/ /\ opensExponent /\ ~DanglingPoint
              /\ hasExp' = TRUE
              /\ at' = at + (IF signed THEN 2 ELSE 1)
              /\ UNCHANGED <<mode, hasFrac>>
           \/ /\ c \in {PLUS, MINUS} /\ hasExp
              /\ at' = at + 1
              /\ UNCHANGED <<mode, hasExp, hasFrac>>
           \/ /\ \/ opensExponent /\ DanglingPoint
                 \/ c \notin Digits /\ ~opensExponent /\ ~(c \in {PLUS, MINUS} /\ hasExp)
              /\ mode' = "reject"
              /\ UNCHANGED <<at, hasExp, hasFrac>>
    /\ UNCHANGED <<text, pos, result, token, hasDot, scanVars>>
-----------------------------------------------------------------------------
\* A number of any size from its digits.
Natural(ds) ==
    LET value[k \in 0..Len(ds)] ==
            IF k = 0 THEN 0 ELSE 10 * value[k - 1] + (ds[k] - ZERO)
    IN  value[Len(ds)]

\* A word taken as an int64.
AsSigned(u) == IF u >= Cutoff THEN u - 2 * Cutoff ELSE u

\* One turn of parseInt64's loop; -1 once the word would overflow.
Accumulate(u, c) ==
    IF u = -1 \/ u > (MaxUint - (c - ZERO)) \div 10 THEN -1 ELSE 10 * u + (c - ZERO)

\* The loop.
WordOf(ds) ==
    LET word[k \in 0..Len(ds)] == IF k = 0 THEN 0 ELSE Accumulate(word[k - 1], ds[k])
    IN  word[Len(ds)]

\* Mutant: the smallest number is turned away.
FitsInt64_Symmetric(u, neg) == u < Cutoff

\* parseInt64's comparisons with its cutoff.
FitsInt64(u, neg) == IF neg THEN u <= Cutoff ELSE u < Cutoff

\* parseInt64, and big.Int.SetString where it reports an overflow.
IntegerOf(tok) ==
    LET neg == tok[1] = MINUS
        ds  == IF neg THEN Tail(tok) ELSE tok
        u   == WordOf(ds)
    IN  IF u # -1 /\ FitsInt64(u, neg)
        THEN Integer(IF neg THEN AsSigned((MaxUint + 1 - u) % (MaxUint + 1)) ELSE u)
        ELSE Big(IF neg THEN -Natural(ds) ELSE Natural(ds))

FinishInteger ==
    /\ mode = "mantissa"
    /\ at > Len(token)
    /\ Returns(IntegerOf(token))
    /\ UNCHANGED scanVars

\* What strconv.ParseFloat takes: digits with a point anywhere among them, and
\* an exponent of digits behind at most one sign.
IsDigits(s) == s # <<>> /\ Range(s) \subseteq Digits
Unsigned(s) == IF s # <<>> /\ Head(s) \in {PLUS, MINUS} THEN Tail(s) ELSE s
FloatSyntax(s) ==
    \E e \in 1..(Len(s) + 1) :
        /\ LET mantissa == SubSeq(s, 1, e - 1) IN
           /\ Range(mantissa) \subseteq Digits \cup {POINT}
           /\ Range(mantissa) \cap Digits # {}
           /\ \A i, j \in DOMAIN mantissa : mantissa[i] = POINT /\ mantissa[j] = POINT => i = j
        /\ e <= Len(s) =>
               /\ s[e] \in Exponents
               /\ IsDigits(Unsigned(SubSeq(s, e + 1, Len(s))))

\* The decimal with the digits ds and its point at kk, zeros stripped.
Decimal(neg, ds, kk) ==
    LET nonzero == {i \in DOMAIN ds : ds[i] # ZERO}
        first == CHOOSE i \in nonzero : \A j \in nonzero : i <= j
        last  == CHOOSE i \in nonzero : \A j \in nonzero : j <= i
    IN  IF nonzero = {} THEN Float(neg, <<>>, 0)
        ELSE Float(neg, SubSeq(ds, first, last), kk - (first - 1))

\* The decimal spelled by a token of that syntax.
DecimalOf(tok) ==
    LET s == SubSeq(tok, First(tok), Len(tok))
        e == CHOOSE i \in 1..(Len(s) + 1) :
                 /\ i <= Len(s) => s[i] \in Exponents
                 /\ \A j \in 1..(i - 1) : s[j] \notin Exponents
        point == CHOOSE i \in 1..e :
                     /\ i < e => s[i] = POINT
                     /\ \A j \in 1..(i - 1) : s[j] # POINT
        exponent == SubSeq(s, e + 1, Len(s))
        size == Natural(Unsigned(exponent))
    IN  Decimal(tok[1] = MINUS, SubSeq(s, 1, point - 1) \o SubSeq(s, point + 1, e - 1),
                point - 1 + (IF exponent # <<>> /\ exponent[1] = MINUS THEN -size ELSE size))

\* A number with a point or an exponent goes to strconv.ParseFloat, unless
\* its point has no digit behind it.
FinishFloat ==
    /\ mode = "fraction"
    /\ at > Len(token)
    /\ IF /\ ~DanglingPoint
          /\ FloatSyntax(SubSeq(token, First(token), Len(token)))
       THEN Returns(DecimalOf(token)) ELSE Fails
    /\ UNCHANGED scanVars

ReadNumber == OpenNumber \/ MantissaByte \/ FractionByte \/ FinishInteger \/ FinishFloat
-----------------------------------------------------------------------------
\* strconv.AppendInt and AppendUint.
NaturalText(n) ==
    LET digits[m \in 0..n] ==
            IF m < 10 THEN <<ZERO + m>> ELSE Append(digits[m \div 10], ZERO + (m % 10))
    IN  digits[n]
IntText(n) == IF n < 0 THEN <<MINUS>> \o NaturalText(-n) ELSE NaturalText(n)

Zeros(n) == [i \in 1..n |-> ZERO]

\* Mutant: one zero too few behind the point.
Pretty_ZeroShort(dig, kk) ==
    IF Len(dig) <= kk /\ kk <= 16 THEN dig \o Zeros(kk - Len(dig)) \o <<POINT, ZERO>>
    ELSE IF kk \in 1..16 THEN SubSeq(dig, 1, kk) \o <<POINT>> \o SubSeq(dig, kk + 1, Len(dig))
    ELSE IF kk \in -4..0 THEN <<ZERO, POINT>> \o Zeros(-kk - 1) \o dig
    ELSE <<dig[1]>> \o (IF Len(dig) = 1 THEN <<>> ELSE <<POINT>> \o Tail(dig))
             \o <<101>> \o IntText(kk - 1)

\* appendPretty: fixed or scientific, by where the point is.
Pretty(dig, kk) ==
    IF Len(dig) <= kk /\ kk <= 16 THEN dig \o Zeros(kk - Len(dig)) \o <<POINT, ZERO>>
    ELSE IF kk \in 1..16 THEN SubSeq(dig, 1, kk) \o <<POINT>> \o SubSeq(dig, kk + 1, Len(dig))
    ELSE IF kk \in -4..0 THEN <<ZERO, POINT>> \o Zeros(-kk) \o dig
    ELSE <<dig[1]>> \o (IF Len(dig) = 1 THEN <<>> ELSE <<POINT>> \o Tail(dig))
             \o <<101>> \o IntText(kk - 1)

\* appendFloat: the special words, a sign, zero, or the digits laid out.
FloatText(f) ==
    IF f = Special("NaN") THEN <<78, 97, 78>>
    ELSE IF f \in {Special("Inf"), Special("-Inf")}
    THEN (IF f = Special("Inf") THEN <<>> ELSE <<MINUS>>) \o <<73>> \o Tail(INFINITY)
    ELSE (IF f.neg THEN <<MINUS>> ELSE <<>>)
             \o (IF f.digits = <<>> THEN <<ZERO, POINT, ZERO>> ELSE Pretty(f.digits, f.kk))
=============================================================================
