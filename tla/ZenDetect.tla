------------------------------ MODULE ZenDetect ------------------------------
(***************************************************************************)
(* Which lists Marshal writes as a Zen Grid: detectZenGrid and the cell    *)
(* tests it is built from (encode.go).                                     *)
(***************************************************************************)
EXTENDS JtonValue, FiniteSets

CONSTANTS
    FastSample,     \* rows the fast path looks at: 10 in the code
    SlowSample      \* rows the slow path looks at: 50 in the code

ASSUME SampleAssumption ==
    FastSample \in Nat /\ SlowSample \in Nat /\ 2 <= FastSample /\ FastSample <= SlowSample
-----------------------------------------------------------------------------
AtMost(n, bound) == IF n > bound THEN bound ELSE n

\* The pieces that may not occur in a string cell.
Structural ==
    {"QUOTE", "BSL", ",", ";", ":", "|", "[", "]", "{", "}", "NL", "TAB"}

\* isSafeZenString
SafeZenString(s) == \A i \in DOMAIN s : s[i] \notin Structural

\* Mutant: null is not a scalar.
IsScalarCell_NoNull(v) ==
    v # Null /\ ~IsObj(v) /\ ~IsList(v) /\ (IsStr(v) => SafeZenString(v.str))

\* isScalarCell
IsScalarCell(v) == ~IsObj(v) /\ ~IsList(v) /\ (IsStr(v) => SafeZenString(v.str))

\* dictAllScalar
AllScalar(ms) == \A i \in DOMAIN ms : IsScalarCell(ms[i].val)

\* A row both passes accept: an object of scalar cells.
IsRow(v) == IsObj(v) /\ AllScalar(v.obj)

\* The row has every header among its keys ...
Covers(row, headers) == \A i \in DOMAIN headers : HasKey(row.obj, headers[i])

\* ... and nothing else.
Matches(row, headers) == Len(row.obj) = Len(headers) /\ Covers(row, headers)

\* ceil(0.7 n)
Threshold(n) == (n * 7 + 9) \div 10

\* Mutant: columns whose first value is null are left out.
HeadersOf_NonNull(arr) ==
    KeysInOrder(SelectSeq(arr[1].obj, LAMBDA m : m.val # Null))

\* The column names: Keys() of the first row.
HeadersOf(arr) == KeysInOrder(arr[1].obj)

\* The fast path: the sampled rows have exactly the headers as keys.  What
\* comes after the sample is not looked at.
FastAccepts(arr) ==
    \A i \in 2..AtMost(Len(arr), FastSample) :
        IsRow(arr[i]) /\ Matches(arr[i], HeadersOf(arr))

\* The slow path: enough of the rows checked have the headers among their keys.
SlowAccepts(arr) ==
    LET checked == 1..AtMost(Len(arr), SlowSample) IN
    /\ \A i \in checked : IsRow(arr[i])
    /\ Cardinality({i \in checked : Covers(arr[i], HeadersOf(arr))})
           >= Threshold(AtMost(Len(arr), SlowSample))

\* detectZenGrid.  The fast path gives up at its first inexact row and leaves
\* the list to the slow path, which sees at least the same rows; a row that is
\* no row at all ends either.
DetectZenGrid(arr) ==
    /\ Len(arr) >= 2
    /\ IsRow(arr[1])
    /\ arr[1].obj # <<>>
    /\ FastAccepts(arr) \/ SlowAccepts(arr)
=============================================================================
