----------------------------- MODULE PlanCache -----------------------------
(***************************************************************************)
(* What scalarTablePlan (marshal_reflect.go) does for goroutines that ask  *)
(* it for plans at the same time.  They share tablePlanCache, a map from   *)
(* types to plans; each loads it, computes the plan on a miss, one field   *)
(* after another, and stores it, in steps that other goroutines run        *)
(* between.  A later store overwrites an earlier one.                      *)
(*                                                                         *)
(* Any number of goroutines may ask, any number of times, for any types;   *)
(* what they do in between is TypeCache's.                                 *)
(***************************************************************************)
EXTENDS StructType

CONSTANT Goroutines

VARIABLES
    tablePlanCache,     \* a plan, "ineligible" (a typed nil), or none
    job,                \* what each goroutine marshals: a type, and more
    pc,                 \* what it does next
    plan, next          \* its plan so far, and the field to look at

planVars == <<tablePlanCache, job, pc, plan, next>>

None == [none |-> TRUE]
Plan(cols) == [columns |-> cols]
Ineligible == [ineligible |-> TRUE]

Goto(g, label) == pc' = [pc EXCEPT ![g] = label]
Structure(g) == Structs[job[g].type]
-----------------------------------------------------------------------------
\* computeScalarTablePlan: what a field does to the plan.
Scalars == {"bool", "int", "uint", "float", "string"}
Ignored(f) == ~f.embedded /\ (~f.exported \/ f.skip)
IsColumn(f) ==
    /\ ~f.embedded /\ ~Ignored(f) /\ ~f.omit
    /\ f.type \in Scalars \/ (f.type = "bytes" /\ ~f.ptr)
Column(t, i) == [header |-> NameOf(Structs[t][i]), at |-> i, type |-> Structs[t][i].type]
-----------------------------------------------------------------------------
\* scalarTablePlan: Load.
LoadPlan(g) ==
    /\ pc[g] = "plan"
    /\ LET c == tablePlanCache[job[g].type] IN
       IF c = None
       THEN /\ Goto(g, "compute")
            /\ plan' = [plan EXCEPT ![g] = Plan(<<>>)]
            /\ next' = [next EXCEPT ![g] = 1]
       ELSE /\ Goto(g, "planned")
            /\ plan' = [plan EXCEPT ![g] = c]
            /\ UNCHANGED next
    /\ UNCHANGED <<tablePlanCache, job>>

\* computeScalarTablePlan: the next field is left out, becomes a column, or
\* makes the type ineligible.
PlanField(g) ==
    /\ pc[g] = "compute"
    /\ next[g] <= Len(Structure(g))
    /\ LET f == Structure(g)[next[g]] IN
       IF Ignored(f)
       THEN next' = [next EXCEPT ![g] = @ + 1] /\ UNCHANGED <<pc, plan>>
       ELSE IF IsColumn(f)
       THEN /\ next' = [next EXCEPT ![g] = @ + 1]
            /\ plan' = [plan EXCEPT ![g].columns = Append(@, Column(job[g].type, next[g]))]
            /\ UNCHANGED pc
       ELSE plan' = [plan EXCEPT ![g] = Ineligible] /\ Goto(g, "store") /\ UNCHANGED next
    /\ UNCHANGED <<tablePlanCache, job>>

PlanDone(g) ==
    /\ pc[g] = "compute"
    /\ next[g] > Len(Structure(g))
    /\ plan' = [plan EXCEPT ![g] = IF @ = Plan(<<>>) THEN Ineligible ELSE @]
    /\ Goto(g, "store")
    /\ UNCHANGED <<tablePlanCache, job, next>>

\* Mutant: the plan is stored while its fields are still being looked at.
StorePlan_Early(g) ==
    /\ pc[g] \in {"store", "compute"}
    /\ tablePlanCache' = [tablePlanCache EXCEPT ![job[g].type] = plan[g]]
    /\ Goto(g, IF pc[g] = "store" THEN "planned" ELSE pc[g])
    /\ UNCHANGED <<job, plan, next>>

\* scalarTablePlan: Store.
StorePlan(g) ==
    /\ pc[g] = "store"
    /\ tablePlanCache' = [tablePlanCache EXCEPT ![job[g].type] = plan[g]]
    /\ Goto(g, "planned")
    /\ UNCHANGED <<job, plan, next>>

\* Outside scalarTablePlan a goroutine does what it likes, except to change a
\* plan: it may have taken up another job, and it may ask for the plan of that.
Asking == {"plan", "compute", "store"}
Elsewhere(g) ==
    /\ pc[g] \notin Asking
    /\ pc'[g] \notin {"compute", "store", "planned"}
    /\ pc' = [pc EXCEPT ![g] = pc'[g]]
    /\ job'[g].type \in DOMAIN Structs
    /\ job' = [job EXCEPT ![g] = job'[g]]
    /\ UNCHANGED <<tablePlanCache, plan, next>>

PlanInit ==
    /\ tablePlanCache = [t \in DOMAIN Structs |-> None]
    /\ DOMAIN job = Goroutines /\ \A g \in Goroutines : job[g].type \in DOMAIN Structs
    /\ DOMAIN pc = Goroutines
    /\ \A g \in Goroutines : pc[g] \notin {"compute", "store", "planned"}
    /\ DOMAIN plan = Goroutines /\ DOMAIN next = Goroutines

PlanNext ==
    \E g \in Goroutines :
        LoadPlan(g) \/ PlanField(g) \/ PlanDone(g) \/ StorePlan(g) \/ Elsewhere(g)

\* What Marshal's goroutines do, in all else they do: no step of theirs outside
\* scalarTablePlan touches a plan, and none goes on without one it asked for.
PlanSpec == PlanInit /\ [][PlanNext]_planVars
-----------------------------------------------------------------------------
\* The fields of t that are encoded.
Encoded(t) == {i \in DOMAIN Structs[t] : ~Ignored(Structs[t][i])}

\* The columns cols are those of the fields in S, in declaration order.
ColumnsFor(t, cols, S) ==
    /\ \A c \in DOMAIN cols : cols[c].at \in S /\ cols[c] = Column(t, cols[c].at)
    /\ \A i \in S : \E c \in DOMAIN cols : cols[c].at = i
    /\ \A c, d \in DOMAIN cols : c < d => cols[c].at < cols[d].at

\* p is the plan of t: a column for each encoded field, or ineligible when some
\* encoded field can be no column, or none is left.
IsPlanOf(p, t) ==
    IF Encoded(t) # {} /\ \A i \in Encoded(t) : IsColumn(Structs[t][i])
    THEN p # Ineligible /\ p = Plan(p.columns) /\ ColumnsFor(t, p.columns, Encoded(t))
    ELSE p = Ineligible

\* Whatever the interleaving, a plan in the cache, and a plan that a goroutine
\* goes on with, is the whole plan of its type (scalarTablePlan).
PlansWhole ==
    /\ \A t \in DOMAIN Structs : tablePlanCache[t] # None => IsPlanOf(tablePlanCache[t], t)
    /\ \A g \in Goroutines : pc[g] = "planned" => IsPlanOf(plan[g], job[g].type)
=============================================================================
