--------------------------- MODULE PlanCacheProofs ---------------------------
(***************************************************************************)
(* For any struct types, and any number of goroutines that ask for plans   *)
(* at the same time, in any interleaving: no goroutine ever sees a plan    *)
(* that is not the whole plan of the type it asked about.                  *)
(***************************************************************************)
EXTENDS PlanCache, SequenceFacts

\* The columns so far: the first n fields of t have been looked at, and every one
\* that is encoded can be a column.
Started(p, t, n) ==
    LET seen == {i \in Encoded(t) : i <= n} IN
    /\ n \in 0..Len(Structs[t])
    /\ p = Plan(p.columns)
    /\ IsSeq(p.columns)
    /\ ColumnsFor(t, p.columns, seen)
    /\ \A i \in seen : IsColumn(Structs[t][i])

\* A plan that is whole, and a sequence of columns.
WholePlan(p, t) == IsPlanOf(p, t) /\ (p # Ineligible => IsSeq(p.columns))

\* The inductive invariant.
PlanInv ==
    /\ DOMAIN tablePlanCache = DOMAIN Structs
    /\ DOMAIN job = Goroutines /\ DOMAIN pc = Goroutines /\ DOMAIN plan = Goroutines /\ DOMAIN next = Goroutines
    /\ \A g \in Goroutines :
        /\ job[g].type \in DOMAIN Structs
        /\ pc[g] = "compute" => next[g] \in Nat /\ Started(plan[g], job[g].type, next[g] - 1)
        /\ pc[g] \in {"store", "planned"} => WholePlan(plan[g], job[g].type)
    /\ \A t \in DOMAIN Structs : tablePlanCache[t] # None => WholePlan(tablePlanCache[t], t)

LEMMA Fields ==
    ASSUME NEW t \in DOMAIN Structs
    PROVE  Len(Structs[t]) \in Nat /\ DOMAIN Structs[t] = 1..Len(Structs[t])
           /\ Encoded(t) \in SUBSET (1..Len(Structs[t]))
<1>1. Structs[t] \in Seq(Range(Structs[t]))
  BY StructsAssumption
<1> QED
  BY <1>1 DEF Encoded

\* A plan is a plan, and not the mark of a type that has none.
LEMMA Kinds ==
    /\ \A cols : Plan(cols).columns = cols /\ Plan(cols) # Ineligible
    /\ None # Ineligible
    /\ \A cols : Plan(cols) # None
<1>1. \A cols : DOMAIN Plan(cols) = {"columns"} /\ Plan(cols).columns = cols
  BY DEF Plan
<1>2. DOMAIN Ineligible = {"ineligible"} /\ DOMAIN None = {"none"}
  BY DEF Ineligible, None
<1> QED
  BY <1>1, <1>2

\* computeScalarTablePlan starts.
LEMMA StartPlan ==
    ASSUME NEW t \in DOMAIN Structs
    PROVE  Started(Plan(<<>>), t, 0)
<1>1. Plan(<<>>).columns = <<>> /\ IsSeq(<<>>) /\ DOMAIN <<>> = {}
  BY Kinds, EmptyIsSeq
<1>2. {i \in Encoded(t) : i <= 0} = {}
  BY Fields
<1>3. ColumnsFor(t, <<>>, {})
  BY <1>1 DEF ColumnsFor
<1>4. 0 \in 0..Len(Structs[t])
  BY Fields
<1> DEFINE seen == {i \in Encoded(t) : i <= 0}
<1>5. ColumnsFor(t, <<>>, seen) /\ \A i \in seen : IsColumn(Structs[t][i])
  BY <1>2, <1>3, Zenon
<1> QED
  BY <1>1, <1>4, <1>5, Zenon DEF Started

\* It leaves a field out.
LEMMA SkipField ==
    ASSUME NEW t \in DOMAIN Structs, NEW p, NEW n \in Nat, Started(p, t, n),
           n + 1 <= Len(Structs[t]), Ignored(Structs[t][n + 1])
    PROVE  Started(p, t, n + 1)
<1>1. n + 1 \notin Encoded(t)
  BY DEF Encoded
<1>2. {i \in Encoded(t) : i <= n + 1} = {i \in Encoded(t) : i <= n}
  BY <1>1, Fields
<1>3. n + 1 \in 0..Len(Structs[t])
  BY Fields
<1> QED
  BY <1>2, <1>3, Zenon DEF Started

\* It makes a field a column.
LEMMA AddColumn ==
    ASSUME NEW t \in DOMAIN Structs, NEW p, NEW n \in Nat, Started(p, t, n),
           n + 1 <= Len(Structs[t]), ~Ignored(Structs[t][n + 1]), IsColumn(Structs[t][n + 1])
    PROVE  Started(Plan(Append(p.columns, Column(t, n + 1))), t, n + 1)
<1> DEFINE old == p.columns
           col == Column(t, n + 1)
           new == Append(old, col)
           seen == {i \in Encoded(t) : i <= n}
<1>1. n + 1 \in Encoded(t)
  BY Fields DEF Encoded
<1>2. {i \in Encoded(t) : i <= n + 1} = seen \cup {n + 1}
  BY <1>1, Fields
<1>3. \A i \in seen : i < n + 1
  BY Fields
<1>4. IsSeq(old) /\ Len(old) \in Nat /\ DOMAIN old = 1..Len(old)
  BY IsSeqLen DEF Started
<1>5. col.at = n + 1 /\ col = Column(t, col.at)
  BY DEF Column
<1> HIDE DEF col
<1>6. /\ IsSeq(new) /\ DOMAIN new = 1..(Len(old) + 1)
      /\ \A c \in 1..Len(old) : new[c] = old[c]
      /\ new[Len(old) + 1] = col
  BY <1>4, AppendIsSeq, IsSeqLen
<1>7. \A c \in DOMAIN new : c = Len(old) + 1 \/ c \in 1..Len(old)
  BY <1>4, <1>6
<1>8. /\ \A c \in 1..Len(old) : old[c].at \in seen /\ old[c] = Column(t, old[c].at)
      /\ \A i \in seen : \E c \in 1..Len(old) : old[c].at = i
  BY <1>4 DEF Started, ColumnsFor
<1>9. \A c, d \in 1..Len(old) : c < d => old[c].at < old[d].at
  <2>1. \A c, d \in DOMAIN old : c < d => old[c].at < old[d].at
    BY DEF Started, ColumnsFor
  <2> QED
    BY <1>4, <2>1, Zenon
<1> HIDE DEF new, old
<1>10. \A c \in DOMAIN new : new[c].at \in seen \cup {n + 1} /\ new[c] = Column(t, new[c].at)
  BY <1>5, <1>6, <1>7, <1>8
<1>11. \A i \in seen \cup {n + 1} : \E c \in DOMAIN new : new[c].at = i
  <2>1. Len(old) + 1 \in DOMAIN new
    BY <1>4, <1>6
  <2>2. \A c \in 1..Len(old) : c \in DOMAIN new
    BY <1>4, <1>6
  <2> QED
    BY <1>5, <1>6, <1>8, <2>1, <2>2
<1>12. ASSUME NEW c \in DOMAIN new, NEW d \in DOMAIN new, c < d
       PROVE  new[c].at < new[d].at
  <2>1. c \in 1..Len(old)
    BY <1>4, <1>6, <1>12
  <2>2. CASE d \in 1..Len(old)
    BY <1>6, <1>9, <1>12, <2>1, <2>2
  <2>3. CASE d = Len(old) + 1
    BY <1>3, <1>5, <1>6, <1>8, <2>1, <2>3
  <2> QED
    BY <1>7, <2>2, <2>3
<1>13. ColumnsFor(t, new, seen \cup {n + 1})
  BY <1>10, <1>11, <1>12 DEF ColumnsFor
<1>14. \A i \in seen \cup {n + 1} : IsColumn(Structs[t][i])
  BY DEF Started
<1>15. Plan(new).columns = new
  BY Kinds
<1>16. n + 1 \in 0..Len(Structs[t])
  BY Fields
<1> QED
  BY <1>2, <1>6, <1>13, <1>14, <1>15, <1>16 DEF Started, new, old, col

\* It has looked at every field.
LEMMA EndPlan ==
    ASSUME NEW t \in DOMAIN Structs, NEW p, Started(p, t, Len(Structs[t]))
    PROVE  WholePlan(IF p = Plan(<<>>) THEN Ineligible ELSE p, t)
<1>1. {i \in Encoded(t) : i <= Len(Structs[t])} = Encoded(t)
  BY Fields
<1>2. /\ p = Plan(p.columns) /\ ColumnsFor(t, p.columns, Encoded(t)) /\ IsSeq(p.columns)
      /\ \A i \in Encoded(t) : IsColumn(Structs[t][i])
  BY <1>1 DEF Started
<1>3. p.columns = <<>> <=> p = Plan(<<>>)
  BY <1>2, Kinds
<1>4. p.columns = <<>> <=> Encoded(t) = {}
  <2>1. p.columns = <<>> <=> DOMAIN p.columns = {}
    <3> DEFINE cols == p.columns
    <3> HIDE DEF cols
    <3>1. Len(cols) \in Nat /\ DOMAIN cols = 1..Len(cols) /\ (cols = <<>> <=> Len(cols) = 0)
      BY <1>2, IsSeqLen DEF cols
    <3>2. cols = <<>> <=> DOMAIN cols = {}
      BY <3>1
    <3> QED
      BY <3>2 DEF cols
  <2> QED
    BY <1>2, <2>1 DEF ColumnsFor
<1> QED
  BY <1>2, <1>3, <1>4, Kinds DEF WholePlan, IsPlanOf

\* A field can be no column.
LEMMA NoColumn ==
    ASSUME NEW t \in DOMAIN Structs, NEW i \in 1..Len(Structs[t]),
           ~Ignored(Structs[t][i]), ~IsColumn(Structs[t][i])
    PROVE  WholePlan(Ineligible, t)
  BY Fields DEF WholePlan, IsPlanOf, Encoded
-----------------------------------------------------------------------------
\* The m numbers of a, in rising order.
Rising(a, m) == a \in [1..m -> Nat] /\ \A i, j \in 1..m : i < j => a[i] < a[j]

\* The m numbers of a are the n numbers of b.
Meets(a, m, b, n) ==
    /\ \A i \in 1..m : \E j \in 1..n : a[i] = b[j]
    /\ \A j \in 1..n : \E i \in 1..m : a[i] = b[j]

\* Two ways to count a set of numbers upwards are the same.
LEMMA OneOrder ==
    ASSUME NEW m \in Nat, NEW a, Rising(a, m), NEW n \in Nat, NEW b, Rising(b, n), Meets(a, m, b, n)
    PROVE  m = n /\ \A i \in 1..m : a[i] = b[i]
<1> USE DEF Rising, Meets
<1> DEFINE Bad == {i \in Nat \ {0} : (i \in 1..m \/ i \in 1..n)
                                    /\ ~(i \in 1..m /\ i \in 1..n /\ a[i] = b[i])}
<1>1. \A i, j \in 1..m : i <= j => a[i] <= a[j]
  <2> TAKE i, j \in 1..m
  <2>1. a[i] \in Nat /\ a[j] \in Nat /\ (i < j => a[i] < a[j])
    OBVIOUS
  <2>2. CASE i = j
    BY <2>1, <2>2
  <2>3. CASE i # j
    BY <2>1, <2>3
  <2> QED
    BY <2>2, <2>3
<1>2. \A i, j \in 1..n : i <= j => b[i] <= b[j]
  <2> TAKE i, j \in 1..n
  <2>1. b[i] \in Nat /\ b[j] \in Nat /\ (i < j => b[i] < b[j])
    OBVIOUS
  <2>2. CASE i = j
    BY <2>1, <2>2
  <2>3. CASE i # j
    BY <2>1, <2>3
  <2> QED
    BY <2>2, <2>3
<1>3. Bad = {}
  <2>1. SUFFICES ASSUME Bad # {} PROVE FALSE
    OBVIOUS
  <2>2. PICK i \in Bad : \A k \in Bad : i <= k
    BY <2>1, LeastNumber
  <2>3. \A k \in 1..(i - 1) : k \in 1..m /\ k \in 1..n /\ a[k] = b[k]
    <3> TAKE k \in 1..(i - 1)
    <3>1. i \in Nat \ {0} /\ (i \in 1..m \/ i \in 1..n)
      BY <2>2
    <3>2. k \in Nat \ {0} /\ k < i /\ (k \in 1..m \/ k \in 1..n)
      BY <3>1
    <3>3. k \notin Bad
      <4> HIDE DEF Bad
      <4>1. k \in Bad => i <= k
        BY <2>2
      <4> QED
        BY <3>1, <3>2, <4>1
    <3> QED
      BY <3>2, <3>3
  <2>4. i \in 1..m => i \in 1..n /\ b[i] <= a[i]
    <3>1. SUFFICES ASSUME i \in 1..m, ~(i \in 1..n /\ b[i] <= a[i]) PROVE FALSE
      OBVIOUS
    <3>2. PICK k \in 1..n : a[i] = b[k]
      BY <3>1
    <3>3. k \notin 1..(i - 1)
      BY <2>3, <3>1, <3>2
    <3>4. k >= i /\ i \in 1..n
      BY <2>2, <3>2, <3>3
    <3>5. b[i] <= b[k]
      BY <1>2, <3>2, <3>4
    <3> QED
      BY <3>1, <3>2, <3>4, <3>5
  <2>5. i \in 1..n => i \in 1..m /\ a[i] <= b[i]
    <3>1. SUFFICES ASSUME i \in 1..n, ~(i \in 1..m /\ a[i] <= b[i]) PROVE FALSE
      OBVIOUS
    <3>2. PICK k \in 1..m : a[k] = b[i]
      BY <3>1
    <3>3. k \notin 1..(i - 1)
      BY <2>3, <3>1, <3>2
    <3>4. k >= i /\ i \in 1..m
      BY <2>2, <3>2, <3>3
    <3>5. a[i] <= a[k]
      BY <1>1, <3>2, <3>4
    <3> QED
      BY <3>1, <3>2, <3>4, <3>5
  <2>6. i \in 1..m /\ i \in 1..n /\ a[i] <= b[i] /\ b[i] <= a[i]
    BY <2>2, <2>4, <2>5
  <2>7. a[i] \in Nat /\ b[i] \in Nat
    BY <2>6
  <2> QED
    BY <2>2, <2>6, <2>7
<1>4. \A i \in Nat \ {0} : i \in 1..m \/ i \in 1..n => i \in 1..m /\ i \in 1..n /\ a[i] = b[i]
  BY <1>3
<1> HIDE DEF Bad
<1>5. m <= n /\ n <= m
  <2>1. m # 0 => m \in 1..m
    OBVIOUS
  <2>2. n # 0 => n \in 1..n
    OBVIOUS
  <2> QED
    BY <1>4, <2>1, <2>2
<1> QED
  BY <1>4, <1>5

\* A type has one plan.
LEMMA OnePlan ==
    ASSUME NEW t \in DOMAIN Structs, NEW p, NEW q, WholePlan(p, t), WholePlan(q, t)
    PROVE  p = q
<1>1. CASE p = Ineligible \/ q = Ineligible
  BY <1>1 DEF WholePlan, IsPlanOf
<1>2. CASE p # Ineligible /\ q # Ineligible
  <2> DEFINE cs == p.columns
             ds == q.columns
  <2>1. /\ p = Plan(cs) /\ ColumnsFor(t, cs, Encoded(t)) /\ IsSeq(cs)
        /\ q = Plan(ds) /\ ColumnsFor(t, ds, Encoded(t)) /\ IsSeq(ds)
    BY <1>2 DEF WholePlan, IsPlanOf
  <2>2. Encoded(t) \in SUBSET Nat
    BY Fields
  <2> HIDE DEF cs, ds
  <2>3. PICK m \in Nat : m = Len(cs) /\ DOMAIN cs = 1..m
    BY <2>1, IsSeqLen
  <2>4. PICK n \in Nat : n = Len(ds) /\ DOMAIN ds = 1..n
    BY <2>1, IsSeqLen
  <2> DEFINE a == [i \in 1..m |-> cs[i].at]
             b == [i \in 1..n |-> ds[i].at]
  <2>5. \A i, j \in DOMAIN cs : i < j => cs[i].at < cs[j].at
    BY <2>1 DEF ColumnsFor
  <2>6. \A i, j \in DOMAIN ds : i < j => ds[i].at < ds[j].at
    BY <2>1 DEF ColumnsFor
  <2>7. a \in [1..m -> Nat] /\ \A i \in 1..m : \E j \in 1..n : a[i] = b[j]
    BY <2>1, <2>2, <2>3, <2>4 DEF ColumnsFor
  <2>8. b \in [1..n -> Nat] /\ \A j \in 1..n : \E i \in 1..m : a[i] = b[j]
    BY <2>1, <2>2, <2>3, <2>4 DEF ColumnsFor
  <2>9. Rising(a, m)
    <3>1. \A i, j \in 1..m : i < j => a[i] < a[j]
      BY <2>3, <2>5
    <3> QED
      BY <2>7, <3>1, Zenon DEF Rising
  <2>10. Rising(b, n)
    <3>1. \A i, j \in 1..n : i < j => b[i] < b[j]
      BY <2>4, <2>6
    <3> QED
      BY <2>8, <3>1, Zenon DEF Rising
  <2> HIDE DEF a, b
  <2>11. Meets(a, m, b, n)
    BY <2>7, <2>8, Zenon DEF Meets
  <2>12. m = n /\ \A i \in 1..m : a[i] = b[i]
    BY <2>3, <2>4, <2>11, <2>9, <2>10, OneOrder
  <2>13. \A i \in 1..m : cs[i] = Column(t, cs[i].at) /\ ds[i] = Column(t, ds[i].at)
    BY <2>1, <2>3, <2>4, <2>12 DEF ColumnsFor
  <2>14. \A i \in 1..m : cs[i] = ds[i]
    BY <2>12, <2>13 DEF a, b
  <2>15. cs = ds
    BY <2>1, <2>3, <2>4, <2>12, <2>14, SeqEqual DEF IsSeq
  <2> QED
    BY <2>1, <2>15
<1> QED
  BY <1>1, <1>2
-----------------------------------------------------------------------------
LEMMA InitPlans == ASSUME PlanInit PROVE PlanInv
  BY DEF PlanInit, PlanInv

LEMMA LoadPlanKeeps ==
    ASSUME PlanInv, NEW g \in Goroutines, LoadPlan(g)
    PROVE  PlanInv'
<1> USE DEF PlanInv
<1> DEFINE t == job[g].type
<1>1. t \in DOMAIN Structs
  OBVIOUS
<1>2. CASE tablePlanCache[t] = None
  <2>1. /\ pc' = [pc EXCEPT ![g] = "compute"] /\ plan' = [plan EXCEPT ![g] = Plan(<<>>)]
        /\ next' = [next EXCEPT ![g] = 1] /\ UNCHANGED <<tablePlanCache, job>>
    BY <1>2 DEF LoadPlan, Goto
  <2>2. Started(Plan(<<>>), t, 1 - 1)
    BY <1>1, StartPlan
  <2> QED
    BY <2>1, <2>2
<1>3. CASE tablePlanCache[t] # None
  <2>1. /\ pc' = [pc EXCEPT ![g] = "planned"] /\ plan' = [plan EXCEPT ![g] = tablePlanCache[t]]
        /\ UNCHANGED <<tablePlanCache, job, next>>
    BY <1>3 DEF LoadPlan, Goto
  <2> QED
    BY <1>1, <1>3, <2>1
<1> QED
  BY <1>2, <1>3

LEMMA PlanFieldKeeps ==
    ASSUME PlanInv, NEW g \in Goroutines, PlanField(g)
    PROVE  PlanInv'
<1> USE DEF PlanInv
<1> DEFINE t == job[g].type
           n == next[g] - 1
           f == Structs[t][next[g]]
<1>1. t \in DOMAIN Structs /\ pc[g] = "compute" /\ UNCHANGED <<tablePlanCache, job>>
  BY DEF PlanField
<1>2. /\ next[g] \in Nat /\ n \in Nat /\ n + 1 = next[g] /\ (n + 1) + 1 - 1 = n + 1
      /\ next[g] <= Len(Structs[t]) /\ Started(plan[g], t, n)
  <2>1. next[g] \in Nat /\ Started(plan[g], t, n)
    BY <1>1
  <2>2. n \in Nat
    BY <1>1, <2>1, Fields DEF Started
  <2> QED
    BY <2>1, <2>2 DEF PlanField, Structure
<1>3. CASE Ignored(f)
  <2>1. next' = [next EXCEPT ![g] = next[g] + 1] /\ UNCHANGED <<pc, plan>>
    BY <1>3 DEF PlanField, Structure
  <2>2. Started(plan[g], t, n + 1)
    BY <1>1, <1>2, <1>3, SkipField
  <2>3. next'[g] = next[g] + 1 /\ next'[g] \in Nat /\ next'[g] - 1 = n + 1
    BY <1>2, <2>1
  <2>4. \A h \in Goroutines : h # g => next'[h] = next[h]
    BY <2>1
  <2> QED
    BY <1>1, <2>1, <2>2, <2>3, <2>4
<1>4. CASE ~Ignored(f) /\ IsColumn(f)
  <2> DEFINE p == Plan(Append(plan[g].columns, Column(t, n + 1)))
  <2>1. /\ next' = [next EXCEPT ![g] = next[g] + 1] /\ UNCHANGED pc
        /\ plan' = [plan EXCEPT ![g].columns = Append(@, Column(t, next[g]))]
    BY <1>4 DEF PlanField, Structure
  <2>2. plan[g] = Plan(plan[g].columns)
    BY <1>2 DEF Started
  <2>3. plan' = [plan EXCEPT ![g] = p]
    <3> DEFINE cols == plan[g].columns
               more == Append(plan[g].columns, Column(t, next[g]))
    <3> HIDE DEF cols, more
    <3>1. [Plan(cols) EXCEPT !.columns = more] = Plan(more)
      BY DEF Plan
    <3>2. p = Plan(more)
      BY <1>2 DEF more
    <3>3. [plan[g] EXCEPT !.columns = Append(plan[g].columns, Column(t, next[g]))] = p
      BY <2>2, <3>1, <3>2 DEF more, cols
    <3>4. plan' = [plan EXCEPT ![g] = [plan[g] EXCEPT
                       !.columns = Append(plan[g].columns, Column(t, next[g]))]]
      BY <2>1
    <3> QED
      BY <3>3, <3>4, Zenon
  <2>4. Started(p, t, n + 1)
    BY <1>1, <1>2, <1>4, AddColumn
  <2> HIDE DEF p
  <2>5. next'[g] = next[g] + 1 /\ next'[g] \in Nat /\ next'[g] - 1 = n + 1
    BY <1>2, <2>1
  <2>6. plan'[g] = p /\ \A h \in Goroutines : h # g => next'[h] = next[h] /\ plan'[h] = plan[h]
    BY <2>1, <2>3
  <2> QED
    BY <1>1, <2>1, <2>3, <2>4, <2>5, <2>6
<1>5. CASE ~Ignored(f) /\ ~IsColumn(f)
  <2>1. /\ plan' = [plan EXCEPT ![g] = Ineligible] /\ pc' = [pc EXCEPT ![g] = "store"]
        /\ UNCHANGED next
    BY <1>5 DEF PlanField, Structure, Goto
  <2>2. WholePlan(Ineligible, t)
    BY <1>1, <1>2, <1>5, NoColumn, Fields
  <2> QED
    BY <1>1, <2>1, <2>2
<1> QED
  BY <1>3, <1>4, <1>5

LEMMA PlanDoneKeeps ==
    ASSUME PlanInv, NEW g \in Goroutines, PlanDone(g)
    PROVE  PlanInv'
<1> USE DEF PlanInv
<1> DEFINE t == job[g].type
           p == IF plan[g] = Plan(<<>>) THEN Ineligible ELSE plan[g]
<1>1. /\ t \in DOMAIN Structs /\ pc[g] = "compute" /\ next[g] > Len(Structs[t])
      /\ pc' = [pc EXCEPT ![g] = "store"] /\ plan' = [plan EXCEPT ![g] = p]
      /\ UNCHANGED <<tablePlanCache, job, next>>
  BY DEF PlanDone, Goto, Structure
<1>2. next[g] \in Nat /\ Started(plan[g], t, next[g] - 1)
  BY <1>1
<1>3. next[g] - 1 = Len(Structs[t])
  BY <1>1, <1>2, Fields DEF Started
<1>4. WholePlan(p, t)
  BY <1>1, <1>2, <1>3, EndPlan
<1> HIDE DEF p
<1> QED
  BY <1>1, <1>4

LEMMA StorePlanKeeps ==
    ASSUME PlanInv, NEW g \in Goroutines, StorePlan(g)
    PROVE  PlanInv'
<1> USE DEF PlanInv
<1>1. /\ pc[g] = "store" /\ pc' = [pc EXCEPT ![g] = "planned"]
      /\ tablePlanCache' = [tablePlanCache EXCEPT ![job[g].type] = plan[g]]
      /\ UNCHANGED <<job, plan, next>>
  BY DEF StorePlan, Goto
<1>2. WholePlan(plan[g], job[g].type)
  BY <1>1
<1>3. \A t \in DOMAIN Structs : tablePlanCache'[t] # None => WholePlan(tablePlanCache'[t], t)
  BY <1>1, <1>2
<1> QED
  BY <1>1, <1>2, <1>3

LEMMA ElsewhereKeeps ==
    ASSUME PlanInv, NEW g \in Goroutines, Elsewhere(g)
    PROVE  PlanInv'
<1>1. /\ pc'[g] \notin {"compute", "store", "planned"} /\ job'[g].type \in DOMAIN Structs
      /\ \A h \in Goroutines : h # g => pc'[h] = pc[h] /\ job'[h] = job[h]
      /\ UNCHANGED <<tablePlanCache, plan, next>>
  BY DEF Elsewhere, PlanInv
<1> QED
  BY <1>1 DEF Elsewhere, PlanInv

LEMMA PlanNextKeeps == ASSUME PlanInv, [PlanNext]_planVars PROVE PlanInv'
<1>1. CASE PlanNext
  BY <1>1, LoadPlanKeeps, PlanFieldKeeps, PlanDoneKeeps, StorePlanKeeps, ElsewhereKeeps
  DEF PlanNext
<1>2. CASE UNCHANGED planVars
  BY <1>2 DEF PlanInv, planVars
<1> QED
  BY <1>1, <1>2

\* No interleaving of calls to scalarTablePlan puts a plan into the cache, or into
\* the hands of a goroutine, that is not the whole plan of its struct type.
THEOREM PlansAlwaysWhole == PlanSpec => []PlansWhole
<1>1. PlanInv => PlansWhole
  BY DEF PlanInv, PlansWhole, WholePlan
<1> QED
  BY <1>1, InitPlans, PlanNextKeeps, PTL DEF PlanSpec

\* Two goroutines that marshal one type have one plan, whichever of them computed
\* it: that a later Store overwrites an earlier one makes no difference.
PlansAgree ==
    \A g, h \in Goroutines :
        pc[g] = "planned" /\ pc[h] = "planned" /\ job[g].type = job[h].type => plan[g] = plan[h]

\* What a goroutine goes on with does not depend on who else asked, or when.
THEOREM PlansAlwaysAgree == PlanSpec => []PlansAgree
<1>1. PlanInv => PlansAgree
  BY OnePlan DEF PlanInv, PlansAgree
<1> QED
  BY <1>1, InitPlans, PlanNextKeeps, PTL DEF PlanSpec
=============================================================================
