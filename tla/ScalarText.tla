----------------------------- MODULE ScalarText -----------------------------
(***************************************************************************)
(* A scalar, written and read back: writeQuoted, appendFloat and AppendInt *)
(* against Parse, skipWS, parseValue's dispatch, parseString, parseLiteral *)
(* and parseNumber (encode.go, number.go, decode.go), with the byte        *)
(* scanners running step by step underneath.  Where parseValue meets a     *)
(* bracket the text is left to ZenParser: mode is then "container".        *)
(*                                                                         *)
(* A behaviour begins with one input: a string to be written, a string     *)
(* literal, a number to be written, or any text.                           *)
(***************************************************************************)
EXTENDS StringCodec, NumberToken

CONSTANTS
    Strings,    \* strings to be written, as bytes
    Literals,   \* string literals: sequences of fragments
    Numbers,    \* numbers to be written
    Tokens,     \* any texts
    Pair(_, _), \* the bytes a pair of surrogates stands for
    MaxCut      \* how many bytes a literal may lack at its end

\* A Go string is any sequence of bytes.
ASSUME StringsAssumption == Strings \subseteq Seq(Byte)

\* So is a text.
ASSUME TokensAssumption == Tokens \subseteq Seq(Byte)

\* The shortest decimal of a float: digits without zeros at either end.
ShortestDecimal(v) ==
    /\ v \in [neg : BOOLEAN, digits : Seq(Digits), kk : Int]
    /\ IF v.digits = <<>> THEN v.kk = 0
       ELSE v.digits[1] # ZERO /\ v.digits[Len(v.digits)] # ZERO

\* A number is an int64, a *big.Int, one of three special floats, or a decimal.
ASSUME NumbersAssumption == \A v \in Numbers :
    \/ v \in [int : Int] \cup [big : Int] \/ ShortestDecimal(v)
    \/ v \in {Special("NaN"), Special("Inf"), Special("-Inf")}

\* A piece of a literal: how it is spelled, and the bytes it means; or a half
\* of a surrogate pair; or nothing, when it is an error.
Plain(spell, mean) == [spell |-> spell, mean |-> mean]
High(spell) == [spell |-> spell, high |-> TRUE]
Low(spell)  == [spell |-> spell, low |-> TRUE]
Bad(spell)  == [spell |-> spell]
IsA(what, f) == what \in DOMAIN f

\* An escape of four hexadecimal digits, and the rune they name.
LongEscape(s) == s \in Seq(Byte) /\ Len(s) = 6 /\ s[1] = BSLASH /\ s[2] = 117
InHex(s) == \A k \in 3..6 : HexValue(s[k]) # -1
HexRune(s) ==
    4096 * HexValue(s[3]) + 256 * HexValue(s[4]) + 16 * HexValue(s[5]) + HexValue(s[6])

\* UTF-8: these bytes are read as rune r, and no fewer would do.
Encodes(b, r) ==
    LET tail(i) == b[i] - 128 IN
    /\ b \in Seq(Byte) /\ \A i \in 2..Len(b) : 128 <= b[i] /\ b[i] < 192
    /\ \/ Len(b) = 1 /\ r < 128 /\ r = b[1]
       \/ Len(b) = 2 /\ 128 <= r /\ r < 2048 /\ r = 64 * (b[1] - 192) + tail(2)
       \/ /\ Len(b) = 3 /\ 2048 <= r /\ r < 65536
          /\ r = 4096 * (b[1] - 224) + 64 * tail(2) + tail(3)
       \/ /\ Len(b) = 4 /\ 65536 <= r
          /\ r = 262144 * (b[1] - 240) + 4096 * tail(2) + 64 * tail(3) + tail(4)

\* A byte that stands for itself, a short escape, or a long one: with a digit missing,
\* with half a surrogate pair, or with a rune.
Fragment(f) ==
    \/ \E c \in Byte \ {QUOTE, BSLASH} : f = Plain(<<c>>, <<c>>)
    \/ \E e \in DOMAIN ReadEscape : f = Plain(<<BSLASH, e>>, <<ReadEscape[e]>>)
    \/ \E e \in Byte \ (DOMAIN ReadEscape \cup {117}) : f = Bad(<<BSLASH, e>>)
    \/ /\ LongEscape(f.spell)
       /\ LET r == HexRune(f.spell) IN
          \/ ~InHex(f.spell) /\ f = Bad(f.spell)
          \/ InHex(f.spell) /\ IsHigh(r) /\ f = High(f.spell)
          \/ InHex(f.spell) /\ IsLow(r) /\ f = Low(f.spell)
          \/ /\ InHex(f.spell) /\ ~IsHigh(r) /\ ~IsLow(r)
             /\ IsA("mean", f) /\ f = Plain(f.spell, f.mean) /\ Encodes(f.mean, r)

\* A high surrogate and the low one behind it.
Halves(fs, i) == IsA("high", fs[i]) /\ i < Len(fs) /\ IsA("low", fs[i + 1])

\* A literal is a sequence of fragments, and Pair gives each pair's bytes.
ASSUME LiteralsAssumption == \A fs \in Literals :
    /\ fs \in Seq(Range(fs)) /\ \A i \in DOMAIN fs : Fragment(fs[i])
    /\ \A i \in DOMAIN fs : Halves(fs, i) =>
           LET high == fs[i].spell
               low == fs[i + 1].spell
           IN  Encodes(Pair(high, low),
                       65536 + 1024 * (HexRune(high) - 55296) + (HexRune(low) - 56320))

ASSUME CutAssumption == MaxCut \in Nat

VARIABLE input      \* what the text comes from: never read by the code

scalarVars == <<input, inputVars, stringVars, numberVars, scanVars>>

\* The text of a literal, and of a number.
Spelled(fs) == <<QUOTE>> \o FlattenSeq([i \in DOMAIN fs |-> fs[i].spell]) \o <<QUOTE>>
NumberText(v) ==
    IF IsA("int", v) THEN IntText(v.int)
    ELSE IF IsA("big", v) THEN IntText(v.big) ELSE FloatText(v)

Inputs ==
    [write : Strings] \cup [read : Literals, cut : 0..MaxCut]
        \cup [number : Numbers] \cup [token : Tokens]

Given(in) ==
    IF IsA("read", in)
    THEN LET s == Spelled(in.read) IN SubSeq(s, 1, IF in.cut >= Len(s) THEN 1 ELSE Len(s) - in.cut)
    ELSE IF IsA("number", in) THEN NumberText(in.number)
    ELSE IF IsA("token", in) THEN in.token ELSE <<>>

ScalarInit ==
    /\ input \in Inputs
    /\ text = Given(input)
    /\ mode = IF IsA("write", input) THEN "write" ELSE "value"
    /\ rest = IF IsA("write", input) THEN input.write ELSE <<>>
    /\ buf = IF IsA("write", input) THEN <<QUOTE>> ELSE <<>>
    /\ pos = 1
    /\ result = <<>>
    /\ token = <<>> /\ at = 1
    /\ hasDot = FALSE /\ hasExp = FALSE /\ hasFrac = FALSE
    /\ ScanInit

TRUETEXT  == <<116, 114, 117, 101>>
FALSETEXT == <<102, 97, 108, 115, 101>>
NULLTEXT  == <<110, 117, 108, 108>>

SLASH == 47
STAR  == 42
White == {9, 10, 13, 32}
LineEnds == {10, 13}
Brackets == {123, 91}       \* { and [

\* A comment in t from c to before d: it ends behind the first line end (the LF of
\* a CR LF is blank by itself) ...
LineComment(t, c, d) ==
    /\ d >= c + 2 /\ t[c] = SLASH /\ t[c + 1] = SLASH
    /\ \A k \in (c + 2)..(d - 2) : t[k] \notin LineEnds
    /\ d = Len(t) + 1 \/ (d > c + 2 /\ t[d - 1] \in LineEnds)

\* ... or behind the first star and slash, and either at the end of the text.
Closes(t, k) == t[k] = STAR /\ t[k + 1] = SLASH
BlockComment(t, c, d) ==
    /\ d >= c + 2 /\ t[c] = SLASH /\ t[c + 1] = STAR
    /\ \A k \in (c + 2)..(d - 3) : ~Closes(t, k)
    /\ d = Len(t) + 1 \/ (d >= c + 4 /\ Closes(t, d - 2))

\* What one turn of skipWS's loop skips, from c to before d: a white byte, a
\* comment, or a byte order mark at the start of the text.
Item(t, c, d) ==
    /\ c \in DOMAIN t
    /\ d \in (c + 1)..(Len(t) + 1)
    /\ \/ t[c] \in White /\ d = c + 1
       \/ c = 1 /\ d = 4 /\ t[1] = 239 /\ t[2] = 187 /\ t[3] = 191
       \/ LineComment(t, c, d)
       \/ BlockComment(t, c, d)

AtItem == \E d \in (pos + 1)..(Len(text) + 1) : Item(text, pos, d)

\* skipWS, called by parseValue and, behind the value, by Parse.
SkipBlank ==
    /\ mode \in {"value", "accept"}
    /\ \E d \in (pos + 1)..(Len(text) + 1) : Item(text, pos, d) /\ pos' = d
    /\ UNCHANGED <<text, mode, result>>

\* parseLiteral
ReadLiteral ==
    /\ mode = "value"
    /\ NextIn({116, 102, 110})
    /\ \/ \E w \in {TRUETEXT, FALSETEXT, NULLTEXT} :
              /\ IsPrefix(w, From(pos))
              /\ Accept([literal |-> w], pos + Len(w))
       \/ /\ \A w \in {TRUETEXT, FALSETEXT, NULLTEXT} : ~IsPrefix(w, From(pos))
          /\ Reject

\* parseValue: an object, a list or a table begins.
OpenContainer ==
    /\ mode = "value"
    /\ NextIn(Brackets)
    /\ mode' = "container"
    /\ UNCHANGED <<text, pos, result>>

\* parseValue finds no byte, or one that begins no value.
NoScalar ==
    /\ mode = "value"
    /\ ~AtItem
    /\ ~NextIn(Digits \cup Brackets \cup {QUOTE, MINUS, 73, 78, 116, 102, 110})
    /\ Reject

\* Parse: something follows the value.
TrailingText == mode = "accept" /\ ~AtEnd /\ ~AtItem /\ Reject

\* A scan that runs is one iteration of a loop; nothing else happens meanwhile.
ScalarNext ==
    \/ /\ \/ Scanning \/ WriteString \/ ReadString
       /\ UNCHANGED <<input, numberVars>>
    \/ /\ ReadNumber
       /\ UNCHANGED <<input, stringVars>>
    \/ /\ \/ SkipBlank \/ ReadLiteral \/ OpenContainer \/ NoScalar \/ TrailingText
       /\ UNCHANGED <<input, stringVars, numberVars, scanVars>>

Finished == mode \in {"reject", "container"} \/ (mode = "accept" /\ AtEnd)

\* The parser is a loop of its own goroutine: it keeps taking steps.
ScalarSpec == ScalarInit /\ [][ScalarNext]_scalarVars /\ WF_scalarVars(ScalarNext)
-----------------------------------------------------------------------------
Accepted == mode = "accept" /\ AtEnd

\* A literal is meant when every fragment means something, and each high
\* surrogate is followed by a low one, which follows nothing else.
Meant(fs) == \A i \in DOMAIN fs :
    \/ IsA("mean", fs[i]) \/ Halves(fs, i)
    \/ IsA("low", fs[i]) /\ i > 1 /\ Halves(fs, i - 1)

\* The bytes it means.
Meaning(fs) == FlattenSeq([i \in DOMAIN fs |->
    IF IsA("mean", fs[i]) THEN fs[i].mean
    ELSE IF IsA("high", fs[i]) THEN Pair(fs[i].spell, fs[i + 1].spell) ELSE <<>>])

\* A literal reads as the bytes its escapes and runs mean, and is an error
\* when any escape, any half of a surrogate pair or its end is missing or wrong
\* (parseString, and the surrogate cases of readHex4's callers).
StringDecoded ==
    (IsA("read", input) /\ Finished) =>
        IF input.cut = 0 /\ Meant(input.read)
        THEN Accepted /\ result = String(Meaning(input.read)) ELSE mode = "reject"

\* Every string writeQuoted writes, control bytes and bytes beyond ASCII
\* included, is one literal that reads as that string.
QuotedRoundTrips ==
    (IsA("write", input) /\ Finished) => Accepted /\ result = String(input.write)

\* JSON's grammar of numbers.
JsonNumber(s) ==
    \E a, i, f \in 0..Len(s) :
        LET int  == SubSeq(s, a + 1, i)
            frac == SubSeq(s, i + 1, f)
            exp  == SubSeq(s, f + 1, Len(s))
        IN  /\ a <= 1 /\ a <= i /\ i <= f
            /\ SubSeq(s, 1, a) \in {<<>>, <<MINUS>>}
            /\ IsDigits(int) /\ (Len(int) > 1 => int[1] # ZERO)
            /\ frac # <<>> => frac[1] = POINT /\ IsDigits(Tail(frac))
            /\ exp # <<>> => exp[1] \in Exponents /\ IsDigits(Unsigned(Tail(exp)))

\* The special words, as far as parseValue's dispatch and isNumberByte let them
\* through: nan, inf and INF are not read, -nan, Nan and Inf are.
SpecialWord(s) ==
    /\ s # <<>> /\ s[1] \in {MINUS, 73, 78}
    /\ Range(s) \subseteq NumberByte
    /\ Lower(IF s[1] = MINUS THEN Tail(s) ELSE s) \in {NAN, INF, INFINITY}

Scalar(s) == JsonNumber(s) \/ SpecialWord(s) \/ s \in {TRUETEXT, FALSETEXT, NULLTEXT}

\* From i to before j there are only whole items: cuts are where they meet.
Blank(t, i, j) ==
    \E cuts \in SUBSET (i..j) :
        /\ i \in cuts /\ j \in cuts
        /\ \A c \in cuts \ {j} : \E d \in cuts : Item(t, c, d)

\* The first byte of the text that is not blank is one of these.
Opens(t, bytes) == \E a \in DOMAIN t : t[a] \in bytes /\ Blank(t, 1, a)

\* A scalar with blanks around it.
Reads(t) ==
    \E a \in DOMAIN t : \E b \in a..Len(t) :
        /\ Scalar(SubSeq(t, a, b))
        /\ Blank(t, 1, a) /\ Blank(t, b + 1, Len(t) + 1)

\* A text that begins, behind any blanks, neither a string nor a container is
\* accepted by Parse exactly when it is one JSON number, special word or literal with
\* whitespace and comments around it: that numberFromToken's two loops let through
\* what strconv refuses, and the other way round, makes no difference, and neither
\* does where a token, a comment or the text ends.
ScalarLanguage ==
    (IsA("token", input) /\ Finished /\ ~Opens(input.token, Brackets \cup {QUOTE})) =>
        (Accepted <=> Reads(input.token))

\* A whole number reads as an int64 when it fits, the smallest and the largest
\* included, and as the same big integer otherwise (parseInt64).
IntegerExact ==
    (IsA("number", input) /\ Finished /\ (IsA("int", input.number) \/ IsA("big", input.number))) =>
        LET n == IF IsA("int", input.number) THEN input.number.int ELSE input.number.big
        IN  Accepted /\ result = IF n \in (-Cutoff)..(Cutoff - 1) THEN Integer(n) ELSE Big(n)

\* A float in any layout of appendPretty reads as a float, never as an integer,
\* and as the same digits, point and sign; so do the special words.
FloatReadsBack ==
    (IsA("number", input) /\ Finished /\ ~IsA("int", input.number) /\ ~IsA("big", input.number)) =>
        Accepted /\ result = input.number

\* Every text is read to an end: the scanners and both loops always advance.
EveryTextRead == <>Finished
-----------------------------------------------------------------------------
\* What the documentation says and the code does not do.

\* "Special numbers: Infinity, -Infinity, NaN (case-insensitive, with an optional
\* sign)" (doc.go).  Violated by NAN, nan and their like: the first byte of a value,
\* and the bytes a number may have, are compared as they are.
SpecialInAnyCase ==
    (IsA("token", input) /\ Finished /\ Lower(input.token) \in {NAN, INFINITY, <<MINUS>> \o INFINITY})
        => Accepted
=============================================================================
