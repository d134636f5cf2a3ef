---------------------------- MODULE ScalarInput ----------------------------
(***************************************************************************)
(* The state that parseString and parseNumber (decode.go) share: the text, *)
(* the position in it, and what the parser is doing.  A text is a sequence *)
(* of bytes; positions count from 1.                                       *)
(***************************************************************************)
EXTENDS ByteScan, SequencesExt

VARIABLES
    text,       \* parser.data
    pos,        \* parser.pos, plus one
    mode,       \* the loop that runs next
    result      \* the value returned, when mode is "accept"

inputVars == <<text, pos, mode, result>>

AtEnd == pos > Len(text)

\* The next byte is there, and one of these.
NextIn(bytes) == ~AtEnd /\ text[pos] \in bytes

\* The bytes at or after position p.
From(p) == SubSeq(text, p, Len(text))

\* The parser has returned a value, and stands behind it.
Accept(v, next) == mode' = "accept" /\ result' = v /\ pos' = next /\ UNCHANGED text

\* It has returned an error.
Reject == mode' = "reject" /\ UNCHANGED <<text, pos, result>>

Digits == 48..57
=============================================================================
