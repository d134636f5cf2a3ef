------------------------------ MODULE JtonValue ------------------------------
(***************************************************************************)
(* The value tree Parse produces and Marshal consumes (decode.go, Parse),  *)
(* and the tokens their text is made of.                                   *)
(*                                                                         *)
(* A text is a sequence of tokens.  A raw token is a punctuation byte, a   *)
(* whitespace byte, a whole comment, or a maximal run of key bytes         *)
(* [A-Za-z0-9_]; a quoted token is a whole string literal.  A string value *)
(* is the sequence of the pieces it would be spelled with, so that a quoted*)
(* "a b" and an unquoted cell a b are the same string.                     *)
(***************************************************************************)
EXTENDS Naturals, Sequences

\* The runs of key bytes, by what parseValue makes of one.  Every other raw
\* token is named in the modules that use it: punctuation by itself, SP, TAB,
\* NL and CMT for whitespace, BSL for a backslash, $ and - for themselves.
CONSTANTS
    Numbers,        \* digits: an integer, and a possible row count
    Literals,       \* true, false, null, NaN, Inf
    FalseStarts,    \* runs that begin like a literal and are none: nope, Nancy
    Names           \* runs that begin with any other letter or _

KeyRuns == Numbers \cup Literals \cup FalseStarts \cup Names

\* Values.  The literals null, true, false, NaN and Inf are told apart by name.
Lit(w)   == [lit |-> w]
Num(n)   == [num |-> n]
Str(s)   == [str |-> s]
List(xs) == [list |-> xs]
Obj(ms)  == [obj |-> ms]
Null     == Lit("null")

IsStr(v)    == "str" \in DOMAIN v
IsList(v)   == "list" \in DOMAIN v
IsObj(v)    == "obj" \in DOMAIN v

\* Tokens.
Raw(p)    == [raw |-> p]
Quoted(s) == [quoted |-> s]

\* Mutant: a new member goes to the front.
Put_Front(ms, k, v) ==
    IF \E i \in DOMAIN ms : ms[i].key = k
    THEN [i \in DOMAIN ms |-> IF ms[i].key = k THEN [ms[i] EXCEPT !.val = v] ELSE ms[i]]
    ELSE <<[key |-> k, val |-> v]>> \o ms

\* A member slice with k set to v: what Object.Set does, and what pushUnique
\* does for a new key (both proved in JtonObjectProofs).
Put(ms, k, v) ==
    IF \E i \in DOMAIN ms : ms[i].key = k
    THEN [i \in DOMAIN ms |-> IF ms[i].key = k THEN [ms[i] EXCEPT !.val = v] ELSE ms[i]]
    ELSE Append(ms, [key |-> k, val |-> v])

\* Object.Keys.
KeysInOrder(ms) == [i \in DOMAIN ms |-> ms[i].key]

\* Object.Get: the value of k, for a k that is present.
HasKey(ms, k) == \E i \in DOMAIN ms : ms[i].key = k
ValueAt(ms, k) == ms[CHOOSE i \in DOMAIN ms : ms[i].key = k].val
=============================================================================
