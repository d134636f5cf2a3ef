----------------------------- MODULE OrderedMap -----------------------------
(***************************************************************************)
(* What jton.Object promises to its callers (the doc comment of the type   *)
(* in value.go): a map from keys to values that remembers the order in     *)
(* which keys were first inserted.  Writing a present key replaces its     *)
(* value and leaves its place alone.  There is no index here, and no rule  *)
(* about who may skip the duplicate check: those belong to JtonObject.     *)
(***************************************************************************)
EXTENDS Sequences

CONSTANTS Keys, Vals

VARIABLES
    order,      \* the keys, in insertion order
    content,    \* the value of every key present
    answer      \* the last call: what it wrote, or asked for and got

vars == <<order, content, answer>>

\* A write, and the two shapes of Get's (value, ok) result.
Idle        == [op |-> "none"]
Wrote(k, v) == [op |-> "set", key |-> k, val |-> v]
Found(k, v) == [op |-> "get", key |-> k, ok |-> TRUE, val |-> v]
Missing(k)  == [op |-> "get", key |-> k, ok |-> FALSE]

Answers ==
    {Idle} \cup {Wrote(k, v) : k \in Keys, v \in Vals}
           \cup {Found(k, v) : k \in Keys, v \in Vals} \cup {Missing(k) : k \in Keys}

TypeOK ==
    /\ order \in Seq(Keys)
    /\ \E S \in SUBSET Keys : content \in [S -> Vals]
    /\ answer \in Answers

Init ==
    /\ order = <<>>
    /\ content = [k \in {} |-> k]
    /\ answer = Idle

Put(k, v) ==
    /\ order' = IF k \in DOMAIN content THEN order ELSE Append(order, k)
    /\ content' = [x \in DOMAIN content \cup {k} |-> IF x = k THEN v ELSE content[x]]
    /\ answer' = Wrote(k, v)

Lookup(k) ==
    /\ answer' = IF k \in DOMAIN content THEN Found(k, content[k]) ELSE Missing(k)
    /\ UNCHANGED <<order, content>>

Next == \E k \in Keys : Lookup(k) \/ \E v \in Vals : Put(k, v)

Spec == Init /\ [][Next]_vars
=============================================================================
