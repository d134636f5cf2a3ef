-------------------------- MODULE JtonObjectProofs --------------------------
(***************************************************************************)
(* For every key set, value set, scan limit and header bound: an Object    *)
(* never holds a key twice, its index (when there is one) is exact, a row  *)
(* holds what its cells say, and the whole is an ordered dictionary.       *)
(*                                                                         *)
(* The argument: both ways of writing a member, SetMember and PushUnique,  *)
(* are the same step on the member slice, Stored, once the index is known  *)
(* to be exact and a pushed key to be new; a pushed key is new because a   *)
(* row's keys so far are the headers before col (part of RowMeaning) and   *)
(* headersUnique means what its name says.                                 *)
(***************************************************************************)
EXTENDS JtonObject, SequenceTheorems, TLAPS

\* The sequences of members without a repeated key.
Distinct(ms) == \A i, j \in DOMAIN ms : ms[i].key = ms[j].key => i = j

\* ms2 is ms after k was given the value v, as a dictionary would do it.
Stored(ms, ms2, k, v) ==
    \/ \E p \in DOMAIN ms : ms[p].key = k /\ ms2 = [ms EXCEPT ![p].val = v]
    \/ k \notin KeysOf(ms) /\ ms2 = Append(ms, [key |-> k, val |-> v])

\* The index ix is exact for ms.
Exact(ms, ix) ==
    /\ DOMAIN ix = KeysOf(ms)
    /\ \A k \in DOMAIN ix : ix[k] \in DOMAIN ms /\ ms[ix[k]].key = k

\* The row loop never runs past the headers.
RowBounds == building => col <= Len(headers) + 1

IInv == TypeOK /\ KeysUnique /\ IndexCoherent /\ RowMeaning /\ RowBounds
-----------------------------------------------------------------------------
(***************************************************************************)
(* The operators the machine is built from.                                *)
(***************************************************************************)

\* headersUnique decides distinctness, on both sides of its length limit.
LEMMA HeadersUniqueMeaning ==
    ASSUME NEW h \in Seq(Keys), HeadersUnique(h)
    PROVE  \A i, j \in DOMAIN h : h[i] = h[j] => i = j
<1>0. DOMAIN h = 1..Len(h) /\ Len(h) \in Nat
  BY LenProperties
<1>1. CASE Len(h) <= NestedLoopLimit
  BY <1>0, <1>1 DEF HeadersUnique
<1>2. CASE ~(Len(h) <= NestedLoopLimit)
  <2>1. \A i, j \in DOMAIN h : j < i => h[i] # h[j]
    BY <1>0, <1>2 DEF HeadersUnique
  <2> QED BY <1>0, <2>1
<1> QED BY <1>1, <1>2

\* In a slice without repeated keys the scan stops at the only occurrence.
LEMMA FirstWithUnique ==
    ASSUME NEW ms \in Seq(Member), Distinct(ms), NEW i \in DOMAIN ms
    PROVE  FirstWith(ms, ms[i].key) = i
<1>0. DOMAIN ms = 1..Len(ms) /\ Len(ms) \in Nat
  BY LenProperties
<1>1. /\ ms[i].key = ms[i].key
      /\ \A j \in DOMAIN ms : ms[j].key = ms[i].key => i <= j
  BY <1>0 DEF Distinct
<1>2. \A j \in DOMAIN ms : ms[j].key = ms[i].key => j = i
  BY DEF Distinct
<1> QED BY <1>1, <1>2 DEF FirstWith

\* buildIndex over such a slice is exact.
LEMMA BuildIndexExact ==
    ASSUME NEW ms \in Seq(Member), Distinct(ms)
    PROVE  /\ Exact(ms, BuildIndex(ms))
           /\ BuildIndex(ms) \in [KeysOf(ms) -> Nat]
<1>0. DOMAIN ms = 1..Len(ms) /\ Len(ms) \in Nat
  BY LenProperties
<1>1. \A k \in KeysOf(ms) :
          FirstWith(ms, k) \in DOMAIN ms /\ ms[FirstWith(ms, k)].key = k
  BY FirstWithUnique DEF KeysOf
<1> QED BY <1>0, <1>1 DEF Exact, BuildIndex

\* What storing a member does to a slice: it stays a slice of members without
\* repeated keys, gains exactly the key stored, moves nothing, and every other
\* key keeps its value.
GrownBy(ms, ms2, k, v) ==
    /\ ms2 \in Seq(Member)
    /\ Distinct(ms2)
    /\ KeysOf(ms2) = KeysOf(ms) \cup {k}
    /\ DOMAIN ms \subseteq DOMAIN ms2
    /\ \A i \in DOMAIN ms : ms2[i].key = ms[i].key
    /\ \A i \in DOMAIN ms : ms[i].key # k => ms2[i].val = ms[i].val
    /\ \A i \in DOMAIN ms2 : ms2[i].key = k => ms2[i].val = v

\* Storing a member does just that.
LEMMA StoredEffect ==
    ASSUME NEW ms \in Seq(Member), NEW ms2, NEW k \in Keys, NEW v \in Vals,
           Distinct(ms), Stored(ms, ms2, k, v)
    PROVE  GrownBy(ms, ms2, k, v)
<1>0. /\ DOMAIN ms = 1..Len(ms)
      /\ Len(ms) \in Nat
      /\ \A i \in DOMAIN ms : ms[i] \in Member
  BY LenProperties, ElementOfSeq
<1>1. CASE \E p \in DOMAIN ms : ms[p].key = k /\ ms2 = [ms EXCEPT ![p].val = v]
  <2>1. PICK p \in DOMAIN ms : ms[p].key = k /\ ms2 = [ms EXCEPT ![p].val = v]
    BY <1>1
  <2>2. [ms[p] EXCEPT !.val = v] \in Member
    BY <1>0 DEF Member
  <2>3. ms2 = [ms EXCEPT ![p] = [ms[p] EXCEPT !.val = v]]
    BY <2>1
  <2>4. ms2 \in Seq(Member) /\ DOMAIN ms2 = DOMAIN ms
    BY <1>0, <2>1, <2>2, <2>3, ExceptSeq, LenProperties
  <2>5. /\ ms2[p].key = k
        /\ ms2[p].val = v
        /\ \A i \in DOMAIN ms : i # p => ms2[i] = ms[i]
    BY <1>0, <2>1, <2>3 DEF Member
  <2> QED BY <2>1, <2>4, <2>5 DEF Distinct, KeysOf, GrownBy
<1>2. CASE k \notin KeysOf(ms) /\ ms2 = Append(ms, [key |-> k, val |-> v])
  <2>1. [key |-> k, val |-> v] \in Member
    BY DEF Member
  <2>2. /\ ms2 \in Seq(Member)
        /\ Len(ms2) = Len(ms) + 1
        /\ \A i \in 1..Len(ms) : ms2[i] = ms[i]
        /\ ms2[Len(ms) + 1] = [key |-> k, val |-> v]
    BY <1>2, <2>1, AppendProperties
  <2>3. DOMAIN ms2 = 1..(Len(ms) + 1)
    BY <2>2, LenProperties
  <2>4. \A i \in DOMAIN ms : ms[i].key # k
    BY <1>2 DEF KeysOf
  <2>5. Distinct(ms2)
    BY <1>0, <2>2, <2>3, <2>4 DEF Distinct
  <2>6. KeysOf(ms2) = KeysOf(ms) \cup {k}
    <3>1. \A i \in DOMAIN ms2 : i \in DOMAIN ms \/ i = Len(ms) + 1
      BY <1>0, <2>3
    <3>2. Len(ms) + 1 \in DOMAIN ms2 /\ DOMAIN ms \subseteq DOMAIN ms2
      BY <1>0, <2>3
    <3> QED BY <1>0, <2>2, <3>1, <3>2 DEF KeysOf
  <2> QED BY <1>0, <2>2, <2>3, <2>4, <2>5, <2>6 DEF GrownBy
<1> QED BY <1>1, <1>2 DEF Stored
-----------------------------------------------------------------------------
(***************************************************************************)
(* The two writers, on a state of the machine.                             *)
(***************************************************************************)

\* Adding a fresh key to an exact index keeps it exact.
LEMMA IndexWithExact ==
    ASSUME TypeOK, IndexCoherent, HasIndex,
           NEW k \in Keys, NEW v \in Vals, k \notin KeysOf(members)
    PROVE  LET ms == Append(members, [key |-> k, val |-> v])
               ix == IndexWith(k, Len(members) + 1)
           IN  Exact(ms, ix) /\ ix \in [KeysOf(ms) -> Nat]
<1> DEFINE ms == Append(members, [key |-> k, val |-> v])
           ix == IndexWith(k, Len(members) + 1)
<1>0. members \in Seq(Member) /\ Len(members) \in Nat /\ DOMAIN members = 1..Len(members)
  BY LenProperties DEF TypeOK
<1>1. [key |-> k, val |-> v] \in Member
  BY DEF Member
<1>2. /\ ms \in Seq(Member)
      /\ DOMAIN ms = 1..(Len(members) + 1)
      /\ \A i \in 1..Len(members) : ms[i] = members[i]
      /\ ms[Len(members) + 1] = [key |-> k, val |-> v]
  BY <1>0, <1>1, AppendProperties, LenProperties
<1>3. DOMAIN index = KeysOf(members)
  BY DEF IndexCoherent
<1>4. \A x \in DOMAIN index : index[x] \in DOMAIN members /\ members[index[x]].key = x
  BY DEF IndexCoherent
<1>5. DOMAIN ix = KeysOf(members) \cup {k}
  BY <1>3 DEF IndexWith
<1>6. KeysOf(ms) = KeysOf(members) \cup {k}
  <2>1. \A i \in DOMAIN ms : i \in DOMAIN members \/ i = Len(members) + 1
    BY <1>0, <1>2
  <2>2. Len(members) + 1 \in DOMAIN ms /\ DOMAIN members \subseteq DOMAIN ms
    BY <1>0, <1>2
  <2> QED BY <1>0, <1>2, <2>1, <2>2 DEF KeysOf
<1>7. \A x \in DOMAIN ix : ix[x] \in DOMAIN ms /\ ms[ix[x]].key = x
  <2> SUFFICES ASSUME NEW x \in DOMAIN ix
               PROVE  ix[x] \in DOMAIN ms /\ ms[ix[x]].key = x
    OBVIOUS
  <2>1. CASE x = k
    <3>1. ix[x] = Len(members) + 1
      BY <2>1 DEF IndexWith
    <3> QED BY <1>0, <1>2, <2>1, <3>1
  <2>2. CASE x # k
    <3>1. ix[x] = index[x] /\ x \in DOMAIN index
      BY <1>3, <1>5, <2>2 DEF IndexWith
    <3> QED BY <1>0, <1>2, <1>4, <3>1
  <2> QED BY <2>1, <2>2
<1>8. ix \in [KeysOf(ms) -> Nat]
  <2>1. ix = [x \in DOMAIN ix |-> ix[x]]
    BY DEF IndexWith
  <2>2. \A x \in DOMAIN ix : ix[x] \in Nat
    BY <1>0, <1>2, <1>7
  <2> QED BY <1>5, <1>6, <2>1, <2>2
<1> QED BY <1>5, <1>6, <1>7, <1>8 DEF Exact

\* The invariant's view of the index: nil, or exact.
IndexOK ==
    /\ \E S \in SUBSET Keys : index \in [S -> Nat]
    /\ HasIndex => Exact(members, index)

\* Set finds a key exactly when it is a member, at the member's own position.
LEMMA SeesMembers ==
    ASSUME TypeOK, KeysUnique, IndexCoherent, NEW k \in Keys
    PROVE  /\ Sees(k) <=> k \in KeysOf(members)
           /\ Sees(k) => /\ Position(k) \in DOMAIN members
                         /\ members[Position(k)].key = k
<1>1. CASE HasIndex
  BY <1>1 DEF IndexCoherent, Sees, Position
<1>2. CASE ~HasIndex
  <2>1. members \in Seq(Member) /\ Distinct(members)
    BY DEF TypeOK, KeysUnique, Distinct
  <2>2. \A i \in DOMAIN members : FirstWith(members, members[i].key) = i
    BY <2>1, FirstWithUnique
  <2> QED BY <1>2, <2>2 DEF Sees, Position, KeysOf
<1> QED BY <1>1, <1>2

\* Object.Set stores the member and leaves an exact index, or none.
LEMMA SetMemberEffect ==
    ASSUME TypeOK, KeysUnique, IndexCoherent,
           NEW k \in Keys, NEW v \in Vals, SetMember(k, v)
    PROVE  Stored(members, members', k, v) /\ IndexOK'
<1> DEFINE new == Append(members, [key |-> k, val |-> v])
<1>0. /\ members \in Seq(Member)
      /\ Distinct(members)
      /\ \E S \in SUBSET Keys : index \in [S -> Nat]
  BY DEF TypeOK, KeysUnique, Distinct
<1>1. CASE Sees(k)
  <2>1. /\ members' = [members EXCEPT ![Position(k)].val = v]
        /\ index' = index
    BY <1>1 DEF SetMember
  <2>2. Stored(members, members', k, v)
    BY <1>1, <2>1, SeesMembers DEF Stored
  <2>3. /\ KeysOf(members') = KeysOf(members)
        /\ DOMAIN members \subseteq DOMAIN members'
        /\ \A i \in DOMAIN members : members'[i].key = members[i].key
    <3>1. k \in KeysOf(members)
      BY <1>1, SeesMembers
    <3>2. GrownBy(members, members', k, v)
      BY <1>0, <2>2, StoredEffect
    <3> QED BY <3>1, <3>2 DEF GrownBy
  <2>4. HasIndex => Exact(members', index)
    BY <2>3 DEF IndexCoherent, Exact
  <2> QED BY <1>0, <2>1, <2>2, <2>4 DEF IndexOK, HasIndex
<1>2. CASE ~Sees(k)
  <2>1. k \notin KeysOf(members) /\ members' = new
    BY <1>2, SeesMembers DEF SetMember
  <2>2. Stored(members, members', k, v)
    BY <2>1 DEF Stored
  <2>3. /\ new \in Seq(Member)
        /\ Distinct(new)
        /\ KeysOf(new) \subseteq Keys
    <3>1. new \in Seq(Member) /\ Distinct(new)
      BY ZenonT(60), <1>0, <2>1, <2>2, StoredEffect DEF GrownBy
    <3>2. \A i \in DOMAIN new : new[i] \in Member
      BY <3>1, ElementOfSeq, LenProperties
    <3> QED BY <3>1, <3>2 DEF KeysOf, Member
  <2>4. CASE HasIndex
    <3>1. index' = IndexWith(k, Len(members) + 1)
      BY <1>2, <2>4 DEF SetMember
    <3>2. Exact(new, index') /\ index' \in [KeysOf(new) -> Nat]
      BY <2>1, <2>4, <3>1, IndexWithExact
    <3> QED BY <2>1, <2>2, <2>3, <3>2 DEF IndexOK
  <2>5. CASE ~HasIndex /\ Len(members) + 1 > LinearScanLimit
    <3>1. index' = BuildIndex(new)
      BY <1>2, <2>5 DEF SetMember
    <3> QED BY <2>1, <2>2, <2>3, <3>1, BuildIndexExact DEF IndexOK
  <2>6. CASE ~HasIndex /\ ~(Len(members) + 1 > LinearScanLimit)
    <3>1. index' = index
      BY <1>2, <2>6 DEF SetMember
    <3> QED BY <1>0, <2>2, <2>6, <3>1 DEF IndexOK, HasIndex
  <2> QED BY <2>4, <2>5, <2>6
<1> QED BY <1>1, <1>2

\* pushUnique does the same, for a key that is not a member.
LEMMA PushUniqueEffect ==
    ASSUME TypeOK, KeysUnique, IndexCoherent,
           NEW k \in Keys, NEW v \in Vals, PushUnique(k, v),
           k \notin KeysOf(members)
    PROVE  Stored(members, members', k, v) /\ IndexOK'
<1> DEFINE new == Append(members, [key |-> k, val |-> v])
<1>1. members' = new /\ Stored(members, members', k, v)
  BY DEF PushUnique, Stored
<1>2. KeysOf(new) \subseteq Keys
  <2>1. [key |-> k, val |-> v] \in Member /\ members \in Seq(Member)
    BY DEF TypeOK, Member
  <2>2. new \in Seq(Member)
    BY <2>1, AppendProperties
  <2>3. \A i \in DOMAIN new : new[i] \in Member
    BY <2>2, ElementOfSeq, LenProperties
  <2> QED BY <2>3 DEF KeysOf, Member
<1>3. CASE HasIndex
  <2>1. index' = IndexWith(k, Len(members) + 1)
    BY <1>3 DEF PushUnique
  <2>2. Exact(new, index') /\ index' \in [KeysOf(new) -> Nat]
    BY <1>3, <2>1, IndexWithExact
  <2> QED BY <1>1, <1>2, <2>2 DEF IndexOK
<1>4. CASE ~HasIndex
  <2>1. index' = index
    BY <1>4 DEF PushUnique
  <2> QED BY <1>1, <1>4, <2>1 DEF IndexOK, HasIndex, TypeOK
<1> QED BY <1>3, <1>4
-----------------------------------------------------------------------------
(***************************************************************************)
(* The inductive invariant.                                                *)
(***************************************************************************)

LEMMA IInvInit == Init => IInv
<1> SUFFICES ASSUME Init PROVE IInv
  OBVIOUS
<1>1. members \in Seq(Member) /\ DOMAIN members = {} /\ ~HasIndex
  BY DEF Init, HasIndex
<1>2. index \in [{} -> Nat]
  BY DEF Init
<1>3. \A n \in 0..MaxHeaders : [1..n -> Keys] \subseteq Seq(Keys)
  OBVIOUS
<1>4. headers \in Seq(Keys) /\ cells \in Seq(Vals) /\ Len(cells) <= Len(headers)
  <2>1. CASE headers = <<>> /\ cells = <<>>
    BY <2>1
  <2>2. CASE headers \in HeaderLists /\ cells \in CellLists(Len(headers))
    <3>1. PICK n \in 0..MaxHeaders : headers \in [1..n -> Keys]
      BY <2>2 DEF HeaderLists
    <3>2. headers \in Seq(Keys) /\ Len(headers) = n
      BY <3>1
    <3>3. PICK m \in 0..n : cells \in [1..m -> Vals]
      BY <2>2, <3>2 DEF CellLists
    <3> QED BY <3>2, <3>3
  <2> QED BY <2>1, <2>2 DEF Init
<1>5. TypeOK
  <2>1. \E S \in SUBSET Keys : index \in [S -> Nat]
    BY <1>2
  <2>2. building \in BOOLEAN /\ col = 1
    BY DEF Init
  <2>3. answer \in Answers
    BY DEF Init, Answers
  <2> QED BY <1>1, <1>4, <2>1, <2>2, <2>3 DEF TypeOK
<1>6. KeysUnique /\ IndexCoherent
  BY <1>1 DEF KeysUnique, IndexCoherent
<1>7. RowMeaning /\ RowBounds
  BY <1>1, <1>4 DEF Init, RowMeaning, RowBounds, KeysOf
<1> QED BY <1>5, <1>6, <1>7 DEF IInv

\* A row's next header is new to the object when the headers are distinct.
LEMMA NextHeaderFresh ==
    ASSUME IInv, building, col <= Len(headers), HeadersUnique(headers)
    PROVE  headers[col] \notin KeysOf(members)
<1>1. /\ headers \in Seq(Keys) /\ col \in Nat /\ col >= 1
      /\ KeysOf(members) = {headers[i] : i \in 1..(col - 1)}
  BY DEF IInv, TypeOK, RowMeaning
<1>2. \A i, j \in DOMAIN headers : headers[i] = headers[j] => i = j
  BY <1>1, HeadersUniqueMeaning
<1>3. DOMAIN headers = 1..Len(headers) /\ Len(headers) \in Nat
  BY <1>1, LenProperties
<1> QED BY <1>1, <1>2, <1>3

\* One column of a row, with a cell or with the null that stands for it.
LEMMA ColumnStep ==
    ASSUME IInv, building, col <= Len(headers),
           SetOrPush(headers[col], CellAt(col)),
           col' = col + 1,
           answer' = Wrote(headers[col], CellAt(col)), UNCHANGED <<headers, cells, building>>
    PROVE  IInv' /\ Stored(members, members', headers[col], CellAt(col))
<1> DEFINE k == headers[col]
           v == CellAt(col)
<1>0. /\ members \in Seq(Member) /\ Distinct(members)
      /\ TypeOK /\ KeysUnique /\ IndexCoherent /\ RowMeaning
      /\ col \in Nat /\ col >= 1 /\ Len(headers) \in Nat
  BY LenProperties DEF IInv, TypeOK, KeysUnique, Distinct
<1>1. k \in Keys
  BY <1>0, ElementOfSeq DEF TypeOK
<1>2. v \in Vals
  <2>1. Len(cells) \in Nat /\ \A i \in 1..Len(cells) : cells[i] \in Vals
    BY <1>0, LenProperties, ElementOfSeq DEF TypeOK
  <2> QED BY <1>0, <2>1, NullAssumption DEF CellAt
<1>3. Stored(members, members', k, v) /\ IndexOK'
  <2>1. CASE HeadersUnique(headers)
    BY <1>0, <1>1, <1>2, <2>1, NextHeaderFresh, PushUniqueEffect DEF SetOrPush
  <2>2. CASE ~HeadersUnique(headers)
    BY <1>0, <1>1, <1>2, <2>2, SetMemberEffect DEF SetOrPush
  <2> QED BY <2>1, <2>2
<1>4. GrownBy(members, members', k, v)
  BY <1>0, <1>1, <1>2, <1>3, StoredEffect
<1>5. TypeOK'
  <2>1. answer' \in Answers
    BY <1>1, <1>2 DEF Answers
  <2>2. Answers' = Answers
    BY DEF Answers
  <2> HIDE DEF k, v
  <2> QED BY <1>0, <1>3, <1>4, <2>1, <2>2 DEF TypeOK, IndexOK, GrownBy
<1>6. KeysUnique'
  BY <1>4 DEF KeysUnique, Distinct, GrownBy
<1>7. IndexCoherent'
  BY <1>3 DEF IndexCoherent, IndexOK, Exact
<1>8. RowMeaning'
  <2>1. /\ KeysOf(members) = {headers[i] : i \in 1..(col - 1)}
        /\ \A i \in 1..(col - 1) :
               (\A j \in (i + 1)..(col - 1) : headers[j] # headers[i])
               => \E m \in DOMAIN members :
                      members[m].key = headers[i] /\ members[m].val = CellAt(i)
    BY <1>0 DEF RowMeaning
  <2>2. KeysOf(members') = {headers[i] : i \in 1..col}
    <3>1. 1..col = 1..(col - 1) \cup {col}
      BY <1>0
    <3> QED BY <1>4, <2>1, <3>1 DEF GrownBy
  <2>3. ASSUME NEW i \in 1..col,
               \A j \in (i + 1)..col : headers[j] # headers[i]
        PROVE  \E m \in DOMAIN members' :
                   members'[m].key = headers[i] /\ members'[m].val = CellAt(i)
    <3>1. CASE i = col
      <4>1. k \in KeysOf(members')
        BY <1>4 DEF GrownBy
      <4>2. PICK m \in DOMAIN members' : members'[m].key = k
        BY <4>1 DEF KeysOf
      <4> QED BY <1>4, <3>1, <4>2 DEF GrownBy
    <3>2. CASE i # col
      <4>1. /\ i \in 1..(col - 1)
            /\ col \in (i + 1)..col
            /\ \A j \in (i + 1)..(col - 1) : headers[j] # headers[i]
        BY <1>0, <2>3, <3>2
      <4>2. PICK m \in DOMAIN members :
                members[m].key = headers[i] /\ members[m].val = CellAt(i)
        BY <2>1, <4>1
      <4>3. members[m].key # k
        BY <2>3, <4>1, <4>2
      <4> QED BY <1>4, <4>2, <4>3 DEF GrownBy
    <3> QED BY <3>1, <3>2
  <2>4. \A i : CellAt(i)' = CellAt(i)
    BY DEF CellAt
  <2>5. (col + 1) - 1 = col
    BY <1>0
  <2> QED BY <2>2, <2>3, <2>4, <2>5 DEF RowMeaning
<1>9. RowBounds'
  BY <1>0 DEF RowBounds
<1> QED BY <1>3, <1>5, <1>6, <1>7, <1>8, <1>9 DEF IInv

\* A Set by the object's owner.
LEMMA SetStep ==
    ASSUME IInv, NEW k \in Keys, NEW v \in Vals, Set(k, v)
    PROVE  IInv' /\ Stored(members, members', k, v) /\ answer' = Wrote(k, v)
<1>0. /\ members \in Seq(Member) /\ Distinct(members)
      /\ TypeOK /\ KeysUnique /\ IndexCoherent
      /\ building = FALSE /\ SetMember(k, v)
      /\ answer' = Wrote(k, v) /\ UNCHANGED <<headers, cells, col, building>>
  BY DEF IInv, TypeOK, KeysUnique, Distinct, Set
<1>1. Stored(members, members', k, v) /\ IndexOK'
  BY <1>0, SetMemberEffect
<1>2. members' \in Seq(Member) /\ Distinct(members')
  BY <1>0, <1>1, StoredEffect DEF GrownBy
<1>3. TypeOK'
  <2>1. answer' \in Answers
    BY <1>0 DEF Answers
  <2> QED BY <1>0, <1>1, <1>2, <2>1 DEF TypeOK, IndexOK
<1>4. KeysUnique' /\ IndexCoherent'
  BY <1>1, <1>2 DEF KeysUnique, Distinct, IndexCoherent, IndexOK, Exact
<1>5. RowMeaning' /\ RowBounds'
  BY <1>0 DEF RowMeaning, RowBounds
<1> QED BY <1>0, <1>1, <1>3, <1>4, <1>5 DEF IInv

\* A Get answers with the value of the member that has the key.
LEMMA GetStep ==
    ASSUME IInv, NEW k \in Keys, Get(k)
    PROVE  IInv'
<1>0. TypeOK /\ KeysUnique /\ IndexCoherent /\ members \in Seq(Member)
  BY DEF IInv, TypeOK
<1>1. answer' \in Answers
  <2>1. CASE Sees(k)
    <3>1. Position(k) \in DOMAIN members
      BY <1>0, <2>1, SeesMembers
    <3>2. members[Position(k)] \in Member
      BY <1>0, <3>1, ElementOfSeq, LenProperties
    <3> QED BY <2>1, <3>2 DEF Get, Member, Answers
  <2>2. CASE ~Sees(k)
    BY <2>2 DEF Get, Answers
  <2> QED BY <2>1, <2>2
<1>2. TypeOK'
  BY <1>0, <1>1 DEF TypeOK, Get
<1>3. KeysUnique' /\ IndexCoherent'
  BY <1>0 DEF KeysUnique, IndexCoherent, HasIndex, Get
<1>4. RowMeaning' /\ RowBounds'
  BY DEF RowMeaning, RowBounds, Get
<1> QED BY <1>2, <1>3, <1>4 DEF IInv

\* Every step keeps the invariant, and changes the members by storing one key
\* or not at all.
LEMMA StepKind ==
    ASSUME IInv, [Next]_vars
    PROVE  /\ IInv'
           /\ \/ \E k \in Keys, v \in Vals :
                     Stored(members, members', k, v) /\ answer' = Wrote(k, v)
              \/ members' = members /\ answer' = answer
              \/ \E k \in Keys : Get(k)
<1>1. CASE StoreCell
  <2>1. /\ col <= Len(headers) /\ building
        /\ SetOrPush(headers[col], CellAt(col))
        /\ answer' = Wrote(headers[col], CellAt(col))
        /\ col' = col + 1 /\ UNCHANGED <<headers, cells, building>>
    <3>1. /\ col \in Nat /\ Len(cells) \in Nat /\ Len(headers) \in Nat
          /\ Len(cells) <= Len(headers)
      BY LenProperties DEF IInv, TypeOK
    <3> QED BY <1>1, <3>1 DEF StoreCell, CellAt
  <2>2. headers[col] \in Keys /\ CellAt(col) \in Vals
    <3>1. /\ headers \in Seq(Keys) /\ cells \in Seq(Vals) /\ col \in Nat /\ col >= 1
      BY DEF IInv, TypeOK
    <3> QED BY <2>1, <3>1, NullAssumption, ElementOfSeq, LenProperties DEF CellAt
  <2> QED BY <2>1, <2>2, ColumnStep
<1>2. CASE FillNull
  <2>1. /\ col <= Len(headers) /\ building
        /\ SetOrPush(headers[col], CellAt(col))
        /\ answer' = Wrote(headers[col], CellAt(col))
        /\ col' = col + 1 /\ UNCHANGED <<headers, cells, building>>
    <3>1. col \in Nat /\ Len(cells) \in Nat
      BY LenProperties DEF IInv, TypeOK
    <3> QED BY <1>2, <3>1 DEF FillNull, CellAt
  <2>2. headers[col] \in Keys /\ CellAt(col) \in Vals
    <3>1. /\ headers \in Seq(Keys) /\ cells \in Seq(Vals) /\ col \in Nat /\ col >= 1
      BY DEF IInv, TypeOK
    <3> QED BY <2>1, <3>1, NullAssumption, ElementOfSeq, LenProperties DEF CellAt
  <2> QED BY <2>1, <2>2, ColumnStep
<1>3. CASE ReturnRow
  <2>1. TypeOK'
    <3>1. /\ headers' \in Seq(Keys) /\ cells' \in Seq(Vals)
          /\ Len(cells') = 0 /\ Len(headers') = 0 /\ col' = 1
      BY <1>3 DEF ReturnRow
    <3>2. building' \in BOOLEAN
      BY <1>3 DEF ReturnRow
    <3>3. /\ members' = members /\ index' = index /\ answer' = answer
      BY <1>3 DEF ReturnRow
    <3> QED BY <3>1, <3>2, <3>3 DEF IInv, TypeOK
  <2>2. KeysUnique' /\ IndexCoherent'
    BY <1>3 DEF IInv, KeysUnique, IndexCoherent, HasIndex, ReturnRow
  <2>3. RowMeaning' /\ RowBounds'
    BY <1>3 DEF RowMeaning, RowBounds, ReturnRow
  <2> QED BY <1>3, <2>1, <2>2, <2>3 DEF IInv, ReturnRow
<1>4. CASE \E k \in Keys, v \in Vals : Set(k, v)
  BY <1>4, SetStep
<1>5. CASE \E k \in Keys : Get(k)
  BY <1>5, GetStep
<1>6. CASE UNCHANGED vars
  <2>1. TypeOK'
    BY <1>6 DEF IInv, TypeOK, vars
  <2>2. KeysUnique' /\ IndexCoherent'
    BY <1>6 DEF IInv, KeysUnique, IndexCoherent, HasIndex, vars
  <2>3. RowMeaning' /\ RowBounds'
    BY <1>6 DEF IInv, RowMeaning, RowBounds, CellAt, vars
  <2> QED BY <1>6, <2>1, <2>2, <2>3 DEF IInv, vars
<1> QED BY <1>1, <1>2, <1>3, <1>4, <1>5, <1>6 DEF Next

\* The conjunction the four invariants below are read off.
THEOREM Invariance == Spec => []IInv
<1>1. Init => IInv
  BY IInvInit
<1>2. IInv /\ [Next]_vars => IInv'
  BY StepKind
<1> QED BY <1>1, <1>2, PTL DEF Spec
-----------------------------------------------------------------------------
\* Every variable keeps its type, for every choice of the constants.
THEOREM TypeCorrect == Spec => []TypeOK
<1>1. IInv => TypeOK
  BY DEF IInv
<1> QED BY <1>1, Invariance, PTL

\* No sequence of row building, Set and Get puts a key into an Object twice:
\* headersUnique keeps the promise pushUnique relies on.
THEOREM NoDuplicateKeys == Spec => []KeysUnique
<1>1. IInv => KeysUnique
  BY DEF IInv
<1> QED BY <1>1, Invariance, PTL

\* The index is never stale: whenever it exists it is exact.
THEOREM IndexNeverStale == Spec => []IndexCoherent
<1>1. IInv => IndexCoherent
  BY DEF IInv
<1> QED BY <1>1, Invariance, PTL

\* parseRow's object means what the headers and the cells say, repeated
\* headers and missing cells included.
THEOREM RowsMeanTheirCells == Spec => []RowMeaning
<1>1. IInv => RowMeaning
  BY DEF IInv
<1> QED BY <1>1, Invariance, PTL

\* No operation moves a member or changes its key.
THEOREM MembersNeverMove == Spec => PositionsStable
<1>1. ASSUME IInv, [Next]_vars
      PROVE  \A i \in DOMAIN members :
                 i \in DOMAIN members' /\ members'[i].key = members[i].key
  <2>1. members \in Seq(Member) /\ Distinct(members)
    BY <1>1 DEF IInv, TypeOK, KeysUnique, Distinct
  <2>2. CASE \E k \in Keys, v \in Vals : Stored(members, members', k, v)
    <3>1. PICK k \in Keys, v \in Vals : Stored(members, members', k, v)
      BY <2>2
    <3>2. GrownBy(members, members', k, v)
      BY <2>1, <3>1, StoredEffect
    <3> QED BY <3>2 DEF GrownBy
  <2>3. CASE members' = members
    BY <2>3
  <2> QED BY <1>1, <2>2, <2>3, StepKind DEF Get
<1>2. IInv /\ [Next]_vars =>
          [\A i \in DOMAIN members :
               i \in DOMAIN members' /\ members'[i].key = members[i].key]_vars
  BY <1>1
<1> QED BY <1>2, Invariance, PTL DEF Spec, PositionsStable
-----------------------------------------------------------------------------
(***************************************************************************)
(* Implementation of the ordered dictionary.                               *)
(***************************************************************************)

\* The value a caller sees for a key is its only member's.
LEMMA ContentAt ==
    ASSUME NEW ms \in Seq(Member), Distinct(ms), NEW i \in DOMAIN ms
    PROVE  Content(ms)[ms[i].key] = ms[i].val
<1>1. ms[i].key \in KeysOf(ms) /\ FirstWith(ms, ms[i].key) = i
  BY FirstWithUnique DEF KeysOf
<1> QED BY <1>1 DEF Content

\* Storing a member is the dictionary's Put, on the keys' order ...
LEMMA StoredOrder ==
    ASSUME NEW ms \in Seq(Member), NEW ms2, NEW k \in Keys, NEW v \in Vals,
           Distinct(ms), Stored(ms, ms2, k, v)
    PROVE  KeyOrder(ms2) = IF k \in DOMAIN Content(ms) THEN KeyOrder(ms)
                           ELSE Append(KeyOrder(ms), k)
<1>0. /\ DOMAIN ms = 1..Len(ms) /\ Len(ms) \in Nat
      /\ \A i \in DOMAIN ms : ms[i] \in Member
      /\ DOMAIN Content(ms) = KeysOf(ms)
  BY LenProperties, ElementOfSeq DEF Content
<1>1. KeyOrder(ms) \in Seq(Keys) /\ Len(KeyOrder(ms)) = Len(ms)
  BY <1>0 DEF KeyOrder, Member
<1>2. CASE \E p \in DOMAIN ms : ms[p].key = k /\ ms2 = [ms EXCEPT ![p].val = v]
  <2>1. PICK p \in DOMAIN ms : ms[p].key = k /\ ms2 = [ms EXCEPT ![p].val = v]
    BY <1>2
  <2>2. DOMAIN ms2 = DOMAIN ms /\ \A i \in DOMAIN ms : ms2[i].key = ms[i].key
    BY <1>0, <2>1 DEF Member
  <2>3. k \in KeysOf(ms)
    BY <2>1 DEF KeysOf
  <2> QED BY <1>0, <2>2, <2>3 DEF KeyOrder
<1>3. CASE k \notin KeysOf(ms) /\ ms2 = Append(ms, [key |-> k, val |-> v])
  <2>1. [key |-> k, val |-> v] \in Member
    BY DEF Member
  <2>2. /\ DOMAIN ms2 = 1..(Len(ms) + 1)
        /\ \A i \in 1..Len(ms) : ms2[i] = ms[i]
        /\ ms2[Len(ms) + 1] = [key |-> k, val |-> v]
    BY <1>3, <2>1, AppendProperties, LenProperties
  <2>3. /\ KeyOrder(ms2) \in Seq(Keys)
        /\ Len(KeyOrder(ms2)) = Len(ms) + 1
        /\ \A i \in 1..Len(ms) : KeyOrder(ms2)[i] = KeyOrder(ms)[i]
        /\ KeyOrder(ms2)[Len(ms) + 1] = k
    BY <1>0, <2>2 DEF KeyOrder, Member
  <2>4. /\ Append(KeyOrder(ms), k) \in Seq(Keys)
        /\ Len(Append(KeyOrder(ms), k)) = Len(ms) + 1
        /\ \A i \in 1..Len(ms) : Append(KeyOrder(ms), k)[i] = KeyOrder(ms)[i]
        /\ Append(KeyOrder(ms), k)[Len(ms) + 1] = k
    BY <1>1, AppendProperties
  <2>5. \A i \in 1..(Len(ms) + 1) : KeyOrder(ms2)[i] = Append(KeyOrder(ms), k)[i]
    BY <1>0, <2>3, <2>4
  <2>6. KeyOrder(ms2) = Append(KeyOrder(ms), k)
    BY <2>3, <2>4, <2>5, SeqEqual
  <2> QED BY <1>0, <1>3, <2>6
<1> QED BY <1>2, <1>3 DEF Stored

\* ... and on the values.
LEMMA StoredContent ==
    ASSUME NEW ms \in Seq(Member), NEW ms2, NEW k \in Keys, NEW v \in Vals,
           Distinct(ms), Stored(ms, ms2, k, v)
    PROVE  Content(ms2) = [x \in DOMAIN Content(ms) \cup {k} |->
                               IF x = k THEN v ELSE Content(ms)[x]]
<1>1. GrownBy(ms, ms2, k, v)
  BY StoredEffect
<1>2. ms2 \in Seq(Member) /\ Distinct(ms2)
  BY <1>1 DEF GrownBy
<1>3. DOMAIN Content(ms2) = DOMAIN Content(ms) \cup {k}
  BY <1>1 DEF GrownBy, Content
<1>4. ASSUME NEW x \in DOMAIN Content(ms2)
      PROVE  Content(ms2)[x] = IF x = k THEN v ELSE Content(ms)[x]
  <2>1. CASE x = k
    <3>1. PICK i \in DOMAIN ms2 : ms2[i].key = k
      BY <1>4, <2>1 DEF Content, KeysOf
    <3>2. ms2[i].val = v
      BY <1>1, <3>1 DEF GrownBy
    <3> QED BY <1>2, <2>1, <3>1, <3>2, ContentAt
  <2>2. CASE x # k
    <3>1. x \in KeysOf(ms)
      BY <1>3, <1>4, <2>2 DEF Content
    <3>2. PICK i \in DOMAIN ms : ms[i].key = x
      BY <3>1 DEF KeysOf
    <3>3. i \in DOMAIN ms2 /\ ms2[i].key = x /\ ms2[i].val = ms[i].val
      BY <1>1, <2>2, <3>2 DEF GrownBy
    <3>4. Content(ms2)[x] = ms2[i].val
      BY <1>2, <3>3, ContentAt
    <3>5. Content(ms)[x] = ms[i].val
      BY <3>2, ContentAt
    <3> QED BY <2>2, <3>3, <3>4, <3>5
  <2> QED BY <2>1, <2>2
<1>5. Content(ms2) = [x \in DOMAIN Content(ms2) |-> Content(ms2)[x]]
  BY DEF Content
<1> QED BY <1>3, <1>4, <1>5

\* An Object, however it was built and however it looks keys up, behaves as an
\* insertion-ordered dictionary.
THEOREM DictImplemented == Spec => ImplementsDict
<1>1. Init => Dict!Init
  <2> SUFFICES ASSUME Init PROVE Dict!Init
    OBVIOUS
  <2>1. KeyOrder(members) = <<>>
    BY DEF Init, KeyOrder
  <2>2. Content(members) = [k \in {} |-> k]
    BY DEF Init, Content, KeysOf
  <2> QED BY <2>1, <2>2 DEF Init, Dict!Init, Idle, Dict!Idle
<1>2. IInv /\ [Next]_vars => [Dict!Next]_Dict!vars
  <2> SUFFICES ASSUME IInv, [Next]_vars
               PROVE  [Dict!Next]_Dict!vars
    OBVIOUS
  <2>0. members \in Seq(Member) /\ Distinct(members)
    BY DEF IInv, TypeOK, KeysUnique, Distinct
  <2>1. CASE \E k \in Keys, v \in Vals :
                 Stored(members, members', k, v) /\ answer' = Wrote(k, v)
    <3>1. PICK k \in Keys, v \in Vals :
              Stored(members, members', k, v) /\ answer' = Wrote(k, v)
      BY <2>1
    <3>2. Dict!Put(k, v)
      <4>1. KeyOrder(members') = IF k \in DOMAIN Content(members) THEN KeyOrder(members)
                                 ELSE Append(KeyOrder(members), k)
        BY <2>0, <3>1, StoredOrder
      <4>2. Content(members') = [x \in DOMAIN Content(members) \cup {k} |->
                                     IF x = k THEN v ELSE Content(members)[x]]
        BY ZenonT(60), <2>0, <3>1, StoredContent
      <4> QED BY <3>1, <4>1, <4>2 DEF Dict!Put, Wrote, Dict!Wrote
    <3> QED BY <3>2 DEF Dict!Next
  <2>2. CASE members' = members /\ answer' = answer
    BY <2>2 DEF Dict!vars
  <2>3. CASE \E k \in Keys : Get(k)
    <3>1. PICK k \in Keys : Get(k)
      BY <2>3
    <3>2. /\ Sees(k) <=> k \in DOMAIN Content(members)
          /\ Sees(k) => members[Position(k)].val = Content(members)[k]
      <4>1. /\ Sees(k) <=> k \in KeysOf(members)
            /\ Sees(k) => /\ Position(k) \in DOMAIN members
                          /\ members[Position(k)].key = k
        BY SeesMembers DEF IInv
      <4>2. DOMAIN Content(members) = KeysOf(members)
        BY DEF Content
      <4> QED BY <2>0, <4>1, <4>2, ContentAt
    <3>3. Dict!Lookup(k)
      BY <3>1, <3>2 DEF Get, Dict!Lookup, Found, Missing, Dict!Found, Dict!Missing
    <3> QED BY <3>3 DEF Dict!Next
  <2> QED BY <2>1, <2>2, <2>3, StepKind
<1> QED BY <1>1, <1>2, Invariance, PTL DEF Spec, ImplementsDict, Dict!Spec
=============================================================================
