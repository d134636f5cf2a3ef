---------------------------- MODULE MCScalarText ----------------------------
(* Strings of every kind of byte, literals of every kind of escape, integers
   around the ends of a five-bit word, floats in every layout, and every short
   text of number bytes. *)
EXTENDS ScalarText

\* A letter, a byte beyond ASCII, a quote, a backslash, a control byte with a
\* short escape and two without.
MCStrings == BoundedSeq({97, 200, 34, 10, 31}, 5) \cup BoundedSeq({92, 0, 127, 160}, 3)

U == <<92, 117>>
Highs == {U \o <<100, 56, 48, 48>>, U \o <<68, 66, 70, 70>>}    \* d800, DBFF
Lows  == {U \o <<100, 99, 48, 48>>, U \o <<68, 70, 70, 70>>}    \* dc00, DFFF

\* U+10000, U+103FF, U+10FC00 and U+10FFFF in UTF-8.
MCPair(high, low) ==
    IF high[3] = 100
    THEN <<240, 144>> \o (IF low[3] = 100 THEN <<128, 128>> ELSE <<143, 191>>)
    ELSE <<244, 143>> \o (IF low[3] = 100 THEN <<176, 128>> ELSE <<191, 191>>)

Common == {
    Plain(<<97>>, <<97>>),
    Plain(<<92, 110>>, <<10>>),                                 \* \n
    Bad(<<92, 120>>)}                                           \* \x
Rare == {
    Plain(<<92, 47>>, <<47>>),                                  \* \/
    Plain(U \o <<48, 48, 52, 49>>, <<65>>),                     \* \u0041
    Plain(U \o <<48, 55, 102, 102>>, <<223, 191>>),             \* \u07ff
    Plain(U \o <<100, 55, 70, 70>>, <<237, 159, 191>>),         \* \ud7FF
    Plain(U \o <<101, 48, 48, 48>>, <<238, 128, 128>>),         \* \ue000
    Plain(<<255>>, <<255>>), Plain(<<31>>, <<31>>),
    Bad(U \o <<48, 48, 103, 48>>)}                              \* \u00g0
MCLiterals ==
    BoundedSeq({High(s) : s \in Highs} \cup {Low(s) : s \in Lows} \cup Common, 3)
        \cup BoundedSeq(Common \cup Rare, 2)

Nines(n) == [i \in 1..n |-> 57]
Mantissas == {<<49>>, <<49, 50>>, <<57, 48, 57>>, Nines(16), Nines(17)}
MCNumbers ==
    {Integer(n) : n \in -16..15} \cup {Big(n) : n \in (-400..400) \ (-16..15)}
        \cup {Float(neg, ds, kk) : neg \in BOOLEAN, ds \in Mantissas,
                                   kk \in (-6..18) \cup {-323, -99, 100, 309}}
        \cup {Float(neg, <<>>, 0) : neg \in BOOLEAN}
        \cup {Special(w) : w \in {"NaN", "Inf", "-Inf"}}

SpecialWords == {<<73>> \o Tail(INFINITY), <<73, 78, 70>>, INF, NAN, <<78, 97, 110>>, <<78, 97>>}

\* White bytes, comments with and without an end, a byte order mark, and what
\* resembles them.
BOM == <<239, 187, 191>>
Around == {<<>>, <<32>>, <<9>>, <<13, 10>>, BOM, <<239>>, <<12>>, <<SLASH>>,
           <<SLASH, SLASH, 49>>, <<SLASH, SLASH, 49, 10>>, <<SLASH, SLASH, 13>>,
           <<SLASH, STAR, STAR, SLASH>>, <<SLASH, STAR, SLASH>>}
Within == {<<>>, <<49>>, <<49, 49>>, <<49, 32, 49>>, <<MINUS, 48>>, TRUETEXT, <<78, 97, 78>>,
           <<91, 93>>, <<123, 125>>, <<93>>, <<QUOTE, 49, QUOTE>>}

MCTokens ==
    BoundedSeq({MINUS, PLUS, POINT, ZERO, 49, 101}, 5)
        \cup {s \o w : s \in {<<>>, <<MINUS>>, <<PLUS>>, <<MINUS, MINUS>>}, w \in SpecialWords}
        \cup {<<49, POINT, 49, 69>> \o s : s \in BoundedSeq({MINUS, PLUS, POINT, 49, 69}, 3)}
        \cup {TRUETEXT, FALSETEXT, NULLTEXT, Front(FALSETEXT), NULLTEXT \o <<49>>}
        \cup BoundedSeq({SLASH, STAR, 10, 49}, 5)
        \cup {s \o v \o r : s, r \in Around, v \in Within}
        \cup {s \o r \o <<49>> : s, r \in Around}

\* The special words in the cases the documentation names.
Cased == {[i \in DOMAIN w |-> IF i \in up THEN w[i] - 32 ELSE w[i]] :
              w \in {NAN, INFINITY}, up \in {{}, {1}, 1..3, 1..8}}
MCWords == Cased \cup {<<MINUS>> \o w : w \in Cased}
=============================================================================
