---------------------------- MODULE MCZenParser ----------------------------
(***************************************************************************)
(* Every text of up to MaxStart tokens, and every continuation of up to    *)
(* MaxRest tokens of a text that is already inside a table: in its header  *)
(* list, and at the start of its first row.                                *)
(***************************************************************************)
EXTENDS ZenParser

CONSTANTS MaxStart, MaxRest

Punctuation == {"[", "]", "{", "}", ":", ";", ",", "TAB", "|", "SP", "NL", "CMT", "BSL"}

Alphabet ==
    {Raw(p) : p \in Punctuation \cup KeyRuns} \cup {Quoted(<<"a">>)}

\* Two runs of key bytes side by side would be one run.
Tokenized(t) ==
    \A i \in 1..(Len(t) - 1) :
        ~ /\ \E p \in KeyRuns : t[i] = Raw(p)
          /\ \E p \in KeyRuns : t[i + 1] = Raw(p)

Texts(A, n) == {t \in UNION {[1..m -> A] : m \in 0..n} : Tokenized(t)}

\* [:    and    [: a, b;    and    {a: [a: a, a;
InHeaders == <<Raw("["), Raw(":")>>
InRows    == InHeaders \o <<Raw("a"), Raw(","), Raw("b"), Raw(";")>>
Repeated  == <<Raw("{"), Raw("a"), Raw(":")>> \o InHeaders
                 \o <<Raw("a"), Raw(","), Raw("a"), Raw(";")>>

Cellular == Alphabet \ {Raw("{"), Raw("}"), Raw(":"), Raw("CMT"), Raw("BSL")}
Escaping == {Raw(p) : p \in {"BSL", ",", "SP", "]", "a"}}

MCInputs ==
    Texts(Alphabet, MaxStart)
        \cup {InHeaders \o t : t \in Texts(Alphabet, MaxStart)}
        \cup {InRows \o t : t \in Texts(Cellular, MaxRest)}
        \cup {InRows \o t : t \in Texts(Escaping, MaxRest + 1)}
        \cup {Repeated \o t : t \in Texts(Cellular, MaxRest - 1)}
=============================================================================
