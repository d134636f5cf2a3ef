----------------------------- MODULE JtonObject -----------------------------
(***************************************************************************)
(* jton.Object (value.go) together with the code that builds one for a Zen *)
(* Grid row (parseRow and headersUnique in decode.go).                     *)
(*                                                                         *)
(* An Object is a slice of members plus an index from key to position that *)
(* exists only once Set has grown the slice past linearScanLimit.  A row   *)
(* is built column by column with setOrPush: when the headers are known to *)
(* be distinct it appends without looking for the key, so a row may exceed *)
(* the limit and still have no index.  Once parseRow returns the row, the  *)
(* caller owns it and uses Set and Get.                                    *)
(*                                                                         *)
(* Positions count from 1 here and from 0 in the code.                     *)
(***************************************************************************)
EXTENDS Naturals, Sequences

CONSTANTS
    Keys,               \* the strings used as keys
    Vals,               \* the values stored
    Null,               \* the value of a cell the row leaves out
    LinearScanLimit,    \* linearScanLimit: 16 in the code
    NestedLoopLimit,    \* headersUnique compares pairwise up to this: 8
    MaxHeaders          \* bound: the longest header list of a row

ASSUME NullAssumption  == Null \in Vals
ASSUME LimitAssumption == LinearScanLimit \in Nat

VARIABLES
    members,    \* Object.members
    index,      \* Object.index; the empty function stands for nil
    headers,    \* parseRow's headers, empty once the row is returned
    cells,      \* the cells the row's text provides, left to right
    col,        \* the next column parseRow stores
    building,   \* TRUE while parseRow owns the object
    answer      \* the last call: what it wrote, or asked for and got

vars == <<members, index, headers, cells, col, building, answer>>
-----------------------------------------------------------------------------
Idle        == [op |-> "none"]
Wrote(k, v) == [op |-> "set", key |-> k, val |-> v]
Found(k, v) == [op |-> "get", key |-> k, ok |-> TRUE, val |-> v]
Missing(k)  == [op |-> "get", key |-> k, ok |-> FALSE]

Answers ==
    {Idle} \cup {Wrote(k, v) : k \in Keys, v \in Vals}
           \cup {Found(k, v) : k \in Keys, v \in Vals} \cup {Missing(k) : k \in Keys}

Member == [key : Keys, val : Vals]

\* The keys that occur in a member slice.
KeysOf(ms) == {ms[i].key : i \in DOMAIN ms}

\* The position a linear scan stops at: the first member with the key.
FirstWith(ms, k) ==
    CHOOSE i \in DOMAIN ms :
        /\ ms[i].key = k
        /\ \A j \in DOMAIN ms : ms[j].key = k => i <= j

\* buildIndex: the first occurrence of each key is its position.
BuildIndex(ms) == [k \in KeysOf(ms) |-> FirstWith(ms, k)]

\* o.index != nil.  buildIndex never runs on an empty slice and nothing
\* removes a key, so a non-nil index is never empty.
HasIndex == DOMAIN index # {}

\* Whether Set and Get see the key, and where: through the index when there
\* is one, by scanning the members when there is none.
Sees(k)     == IF HasIndex THEN k \in DOMAIN index ELSE k \in KeysOf(members)
Position(k) == IF HasIndex THEN index[k] ELSE FirstWith(members, k)

\* Mutant: the position is taken one too low.
IndexWith_OffByOne(k, i) ==
    [x \in DOMAIN index \cup {k} |-> IF x = k THEN i - 1 ELSE index[x]]

\* The index with key k at position i added.
IndexWith(k, i) == [x \in DOMAIN index \cup {k} |-> IF x = k THEN i ELSE index[x]]

\* Mutant: an append forgets the index.
SetMember_IndexForgotten(k, v) ==
    \/ /\ Sees(k)
       /\ members' = [members EXCEPT ![Position(k)].val = v]
       /\ UNCHANGED index
    \/ /\ ~Sees(k)
       /\ members' = Append(members, [key |-> k, val |-> v])
       /\ index' = IF ~HasIndex /\ Len(members) + 1 > LinearScanLimit
                   THEN BuildIndex(Append(members, [key |-> k, val |-> v]))
                   ELSE index

\* Mutant: a key that is overwritten moves to the end.
SetMember_MovesToEnd(k, v) ==
    /\ members' = Append(SelectSeq(members, LAMBDA m : m.key # k), [key |-> k, val |-> v])
    /\ index' = IF Len(members') > LinearScanLimit THEN BuildIndex(members') ELSE index

\* Object.Set: overwrite in place, or append and build the index when the
\* slice has just outgrown the linear scan.
SetMember(k, v) ==
    \/ /\ Sees(k)
       /\ members' = [members EXCEPT ![Position(k)].val = v]
       /\ UNCHANGED index
    \/ /\ ~Sees(k)
       /\ members' = Append(members, [key |-> k, val |-> v])
       /\ index' = CASE HasIndex -> IndexWith(k, Len(members) + 1)
                     [] ~HasIndex /\ Len(members) + 1 > LinearScanLimit
                            -> BuildIndex(Append(members, [key |-> k, val |-> v]))
                     [] OTHER -> index

\* Object.pushUnique: append without looking, the caller vouches for k.
PushUnique(k, v) ==
    /\ members' = Append(members, [key |-> k, val |-> v])
    /\ index' = IF HasIndex THEN IndexWith(k, Len(members) + 1) ELSE index

\* Mutant: only neighbours are compared.
HeadersUnique_Neighbours(h) == \A i \in 1..(Len(h) - 1) : h[i] # h[i + 1]

\* headersUnique: pairwise comparison for short lists, a set of the names
\* already seen for long ones.
HeadersUnique(h) ==
    IF Len(h) <= NestedLoopLimit
    THEN \A i \in DOMAIN h : \A j \in DOMAIN h : i < j => h[i] # h[j]
    ELSE \A i \in DOMAIN h : h[i] \notin {h[j] : j \in 1..(i - 1)}

SetOrPush(k, v) ==
    IF HeadersUnique(headers) THEN PushUnique(k, v) ELSE SetMember(k, v)
-----------------------------------------------------------------------------
\* The header lists and the cells a row may have.
HeaderLists == UNION {[1..n -> Keys] : n \in 0..MaxHeaders}
\* Mutant: the "too many values" check is missing.
CellLists_Unchecked(n) == UNION {[1..m -> Vals] : m \in 0..(n + 1)}

\* A row has at most one cell per header: one more is the "too many values"
\* error, and no row results.
CellLists(n) == UNION {[1..m -> Vals] : m \in 0..n}

\* Either NewObject for a caller, or NewObjectCap in parseRow.
Init ==
    /\ members = <<>>
    /\ index = [k \in {} |-> 0]
    /\ col = 1
    /\ answer = Idle
    /\ \/ /\ building = FALSE
          /\ headers = <<>>
          /\ cells = <<>>
       \/ /\ building = TRUE
          /\ headers \in HeaderLists
          /\ cells \in CellLists(Len(headers))

\* parseRow stores the cell it has just parsed.
StoreCell ==
    /\ building
    /\ col <= Len(cells)
    /\ SetOrPush(headers[col], cells[col])
    /\ answer' = Wrote(headers[col], cells[col])
    /\ col' = col + 1
    /\ UNCHANGED <<headers, cells, building>>

\* Mutant: fillNull skips the first header without a cell.
FillNull_SkipsFirst ==
    /\ building
    /\ col > Len(cells)
    /\ col <= Len(headers)
    /\ IF col = Len(cells) + 1 THEN UNCHANGED <<members, index>>
       ELSE SetOrPush(headers[col], Null)
    /\ answer' = Wrote(headers[col], Null)
    /\ col' = col + 1
    /\ UNCHANGED <<headers, cells, building>>

\* One round of fillNull: the row ended, this header got no cell.
FillNull ==
    /\ building
    /\ col > Len(cells)
    /\ col <= Len(headers)
    /\ SetOrPush(headers[col], Null)
    /\ answer' = Wrote(headers[col], Null)
    /\ col' = col + 1
    /\ UNCHANGED <<headers, cells, building>>

\* parseRow returns the object to the caller.
ReturnRow ==
    /\ building
    /\ col > Len(headers)
    /\ building' = FALSE
    /\ headers' = <<>>
    /\ cells' = <<>>
    /\ col' = 1
    /\ UNCHANGED <<members, index, answer>>

Set(k, v) ==
    /\ ~building
    /\ SetMember(k, v)
    /\ answer' = Wrote(k, v)
    /\ UNCHANGED <<headers, cells, col, building>>

Get(k) ==
    /\ ~building
    /\ answer' = IF Sees(k) THEN Found(k, members[Position(k)].val) ELSE Missing(k)
    /\ UNCHANGED <<members, index, headers, cells, col, building>>

Next ==
    \/ StoreCell
    \/ FillNull
    \/ ReturnRow
    \/ \E k \in Keys, v \in Vals : Set(k, v)
    \/ \E k \in Keys : Get(k)

Spec == Init /\ [][Next]_vars
-----------------------------------------------------------------------------
TypeOK ==
    /\ members \in Seq(Member)
    /\ \E S \in SUBSET Keys : index \in [S -> Nat]
    /\ headers \in Seq(Keys)
    /\ cells \in Seq(Vals)
    /\ Len(cells) <= Len(headers)
    /\ col \in Nat
    /\ col >= 1
    /\ building \in BOOLEAN
    /\ answer \in Answers

\* No key occurs twice.  Set looks before it appends; pushUnique does not, so
\* this is what its callers' promise ("The caller must guarantee the key is
\* not already present", value.go) has to deliver through headersUnique.
KeysUnique ==
    \A i, j \in DOMAIN members : members[i].key = members[j].key => i = j

\* An index, once built, lists every key at its own position: it is never
\* behind the members slice, whichever of the three writers appended last.
IndexCoherent ==
    HasIndex =>
        /\ DOMAIN index = KeysOf(members)
        /\ \A k \in DOMAIN index :
               index[k] \in DOMAIN members /\ members[index[k]].key = k

\* The cell the row holds for header i: its own, or null when it was left out.
CellAt(i) == IF i <= Len(cells) THEN cells[i] ELSE Null

\* A row under construction has exactly the headers stored so far as keys, and
\* a header's value is that of the last column bearing that name, whether
\* setOrPush took the appending or the deduplicating way (a repeated header
\* that gets no cell therefore resets the value to null).
RowMeaning ==
    building =>
        /\ KeysOf(members) = {headers[i] : i \in 1..(col - 1)}
        /\ \A i \in 1..(col - 1) :
               (\A j \in (i + 1)..(col - 1) : headers[j] # headers[i])
               => \E m \in DOMAIN members :
                      members[m].key = headers[i] /\ members[m].val = CellAt(i)

\* A member never moves and never changes its key: the column order a table is
\* written with comes from the first row's positions.
PositionsStable ==
    [][\A i \in DOMAIN members :
           i \in DOMAIN members' /\ members'[i].key = members[i].key]_vars

\* Keys(): the keys in insertion order.
KeyOrder(ms) == [i \in DOMAIN ms |-> ms[i].key]

\* The value every key has, as a caller of Get sees it.
Content(ms) == [k \in KeysOf(ms) |-> ms[FirstWith(ms, k)].val]

Dict == INSTANCE OrderedMap WITH order <- KeyOrder(members), content <- Content(members)

\* With or without an index, built by rows or by Set, an Object is an
\* insertion-ordered dictionary.
ImplementsDict == Dict!Spec
=============================================================================
