------------------------------ MODULE FieldSet ------------------------------
(***************************************************************************)
(* Which fields of a struct type are encoded, and under which names:       *)
(* computeFields (reflect.go), a breadth-first walk over embedded structs  *)
(* and a choice among the fields of one name.                              *)
(***************************************************************************)
EXTENDS StructType
-----------------------------------------------------------------------------
\* An embedded struct, or pointer to one, whose fields are promoted.
Promotes(f) == ~f.skip /\ f.embedded /\ f.tag = <<>> /\ f.type \in DOMAIN Structs

\* A field that stands for itself.
Encodes(f) == ~f.skip /\ f.exported /\ ~Promotes(f)

Positions(t, Test(_)) ==
    SelectSeq([i \in DOMAIN Structs[t] |-> i], LAMBDA i : Test(Structs[t][i]))

\* What the walk makes of one struct: the candidates among its fields, and the
\* structs it puts on the queue.
CandidatesIn(cur) ==
    LET at == Positions(cur.type, Encodes) IN
    [n \in DOMAIN at |->
        LET f == Structs[cur.type][at[n]] IN
        [name |-> NameOf(f), index |-> Append(cur.index, at[n]), omit |-> f.omit,
         depth |-> cur.depth, tagged |-> f.tag # <<>>]]
Enqueued(cur) ==
    LET at == Positions(cur.type, Promotes) IN
    [n \in DOMAIN at |-> [type |-> Structs[cur.type][at[n]].type,
                          index |-> Append(cur.index, at[n]), depth |-> cur.depth + 1]]

\* The walk: a type already seen is not entered again.
RECURSIVE Walk(_, _)
Walk(queue, seen) ==
    IF queue = <<>> THEN <<>>
    ELSE IF Head(queue).type \in seen THEN Walk(Tail(queue), seen)
    ELSE CandidatesIn(Head(queue))
             \o Walk(Tail(queue) \o Enqueued(Head(queue)), seen \cup {Head(queue).type})
Root(t) == [type |-> t, index |-> <<>>, depth |-> 0]
Candidates(t) == Walk(<<Root(t)>>, {})

\* Mutant: a tag makes no difference.
Beats_Untagged(c, best) == c.depth < best.depth

\* How the next candidate of a name compares with the best one so far.
Beats(c, best) == c.depth < best.depth \/ (c.depth = best.depth /\ c.tagged /\ ~best.tagged)
Ties(c, best)  == c.depth = best.depth /\ c.tagged = best.tagged

\* The candidate that stands for its name, and whether it is tied.
Resolve(cs) ==
    FoldLeft(LAMBDA acc, c : IF Beats(c, acc.best) THEN [best |-> c, tie |-> FALSE]
                             ELSE [acc EXCEPT !.tie = @ \/ Ties(c, acc.best)],
             [best |-> cs[1], tie |-> FALSE], Tail(cs))

\* lessIndex
LessIndex(a, b) ==
    \/ IsStrictPrefix(a, b)
    \/ \E i \in DOMAIN a \cap DOMAIN b : a[i] < b[i] /\ \A j \in 1..(i - 1) : a[j] = b[j]

\* computeFields: the walk, and what is left of the candidates it finds.
Sifted(all) ==
    LET names == {c.name : c \in Range(all)}
        chosen == [n \in names |-> Resolve(SelectSeq(all, LAMBDA c : c.name = n))]
    IN  SortSeq(SelectSeq(all, LAMBDA c : chosen[c.name] = [best |-> c, tie |-> FALSE]),
                LAMBDA a, b : LessIndex(a.index, b.index))
ComputeFields(t) == Sifted(Candidates(t))
-----------------------------------------------------------------------------
\* Every path of embedded structs, each as often as there are ways to it.  A path
\* does not enter a type it has come through: the names there are all taken.
RECURSIVE Reached(_, _)
Reached(q, above) ==
    {q} \cup UNION {Reached(e, above \cup {q.type}) :
                       e \in {x \in Range(Enqueued(q)) : x.type \notin above \cup {q.type}}}
Paths(t) == Reached(Root(t), {})

\* encoding/json's rule, by declaration: of the fields of a name, those at the
\* least depth, of these the tagged ones if there are any; and then only one.
Dominant(S) ==
    LET shallow == {c \in S : \A d \in S : c.depth <= d.depth}
        tagged  == {c \in shallow : c.tagged}
    IN  IF tagged = {} THEN shallow ELSE tagged
JsonFields(t) ==
    LET all == UNION {Range(CandidatesIn(q)) : q \in Paths(t)}
    IN  {c \in all : Dominant({d \in all : d.name = c.name}) = {c}}

\* Some struct type is embedded in t twice at one depth.
Diamond(t) == \E p, q \in Paths(t) : p # q /\ p.type = q.type /\ p.depth = q.depth
=============================================================================
