----------------------------- MODULE TypeCache -----------------------------
(***************************************************************************)
(* Goroutines marshal slices of structs at the same time.  They share two  *)
(* maps from types to what is known of them: tablePlanCache               *)
(* (scalarTablePlan, marshal_reflect.go) and fieldCache (cachedFields,     *)
(* reflect.go).  Each is loaded, computed on a miss, and stored, in steps  *)
(* that other goroutines run between; a later store overwrites an earlier  *)
(* one.                                                                    *)
(*                                                                         *)
(* MarshalOptions tries the struct table first and falls back to the tree. *)
(* What the goroutines do with tablePlanCache is PlanCache's; the rest of  *)
(* tryStructTable and the tree path are here.                              *)
(***************************************************************************)
EXTENDS StructTable, PlanCache

CONSTANT Jobs   \* what the goroutines are to marshal: a type, rows, options

VARIABLES
    fieldCache,         \* the fields, or none
    fields,             \* the fields it has got
    text                \* what it has written

cacheVars == <<tablePlanCache, fieldCache, job, pc, plan, next, fields, text>>

FieldList(fs) == [list |-> fs]

CacheInit ==
    /\ tablePlanCache = [t \in DOMAIN Structs |-> None]
    /\ fieldCache = [t \in DOMAIN Structs |-> None]
    /\ job \in Jobs
    /\ pc = [g \in Goroutines |-> "call"]
    /\ plan = [g \in Goroutines |-> None]
    /\ next = [g \in Goroutines |-> 1]
    /\ fields = [g \in Goroutines |-> None]
    /\ text = [g \in Goroutines |-> <<>>]
-----------------------------------------------------------------------------
\* tryStructTable up to the plan.
Call(g) ==
    /\ pc[g] = "call"
    /\ Goto(g, IF job[g].opts.noZenGrid \/ Len(job[g].rows) < 2 THEN "tree" ELSE "plan")
    /\ UNCHANGED <<tablePlanCache, fieldCache, job, plan, next, fields, text>>

\* scalarTablePlan.
PlanStep(g) ==
    /\ LoadPlan(g) \/ PlanField(g) \/ PlanDone(g) \/ StorePlan(g)
    /\ UNCHANGED <<fieldCache, fields, text>>

\* The rest of tryStructTable: the table, or done=false.
TakesTable(g) == plan[g] # Ineligible /\ Eligible(job[g].rows, plan[g].columns)
WriteTable(g) ==
    /\ pc[g] = "planned"
    /\ TakesTable(g)
    /\ text' = [text EXCEPT ![g] = StructTableText(job[g].rows, plan[g].columns, job[g].opts)]
    /\ Goto(g, "done")
    /\ UNCHANGED <<tablePlanCache, fieldCache, job, plan, next, fields>>

\* Mutant: that these rows make no table is remembered of their type.
FallBack_Remembers(g) ==
    /\ pc[g] = "planned"
    /\ ~TakesTable(g)
    /\ Goto(g, "tree")
    /\ tablePlanCache' = [tablePlanCache EXCEPT ![job[g].type] = Ineligible]
    /\ UNCHANGED <<fieldCache, job, plan, next, fields, text>>

FallBack(g) ==
    /\ pc[g] = "planned"
    /\ ~TakesTable(g)
    /\ Goto(g, "tree")
    /\ UNCHANGED <<tablePlanCache, fieldCache, job, plan, next, fields, text>>

\* cachedFields: Load ...
LoadFields(g) ==
    /\ pc[g] = "tree"
    /\ fields' = [fields EXCEPT ![g] = fieldCache[job[g].type]]
    /\ Goto(g, IF fieldCache[job[g].type] = None THEN "resolve" ELSE "encode")
    /\ UNCHANGED <<tablePlanCache, fieldCache, job, plan, next, text>>

\* ... computeFields ...
ResolveFields(g) ==
    /\ pc[g] = "resolve"
    /\ fields' = [fields EXCEPT ![g] = FieldList(ComputeFields(job[g].type))]
    /\ Goto(g, "storeFields")
    /\ UNCHANGED <<tablePlanCache, fieldCache, job, plan, next, text>>

\* ... and Store.
StoreFields(g) ==
    /\ pc[g] = "storeFields"
    /\ fieldCache' = [fieldCache EXCEPT ![job[g].type] = fields[g]]
    /\ Goto(g, "encode")
    /\ UNCHANGED <<tablePlanCache, job, plan, next, fields, text>>

\* The tree path.
EncodeTree(g) ==
    /\ pc[g] = "encode"
    /\ text' = [text EXCEPT ![g] = TreeText(job[g].rows, fields[g].list, job[g].opts)]
    /\ Goto(g, "done")
    /\ UNCHANGED <<tablePlanCache, fieldCache, job, plan, next, fields>>

GoroutineNext(g) ==
    \/ Call(g) \/ PlanStep(g)
    \/ WriteTable(g) \/ FallBack(g)
    \/ LoadFields(g) \/ ResolveFields(g) \/ StoreFields(g) \/ EncodeTree(g)

CacheNext == \E g \in Goroutines : GoroutineNext(g)

CacheSpec == CacheInit /\ [][CacheNext]_cacheVars
-----------------------------------------------------------------------------
\* The fields in the cache are encoding/json's for the type, each once and in
\* declaration order ("json-tag semantics and breadth-first embedded-field
\* promotion", computeFields), for types in which no struct is embedded twice
\* at one depth.
JsonFieldsOf == [t \in DOMAIN Structs |-> JsonFields(t)]
Diamonds     == {t \in DOMAIN Structs : Diamond(t)}
Resolved(t) ==
    fieldCache[t] # None =>
        /\ Range(fieldCache[t].list) = JsonFieldsOf[t]
        /\ LET fs == fieldCache[t].list
           IN  \A i, j \in DOMAIN fs : i < j => LessIndex(fs[i].index, fs[j].index)
FieldsAsJson == \A t \in DOMAIN Structs : t \notin Diamonds => Resolved(t)

\* Both paths encode the same fields: no two columns of one name, and no type
\* with a marshaler method.
Comparable(t, rows) ==
    LET f == Positions(t, LAMBDA x : ~Ignored(x)) IN
    /\ \A i, j \in DOMAIN f : i # j => NameOf(Structs[t][f[i]]) # NameOf(Structs[t][f[j]])
    /\ \A i \in DOMAIN rows : \A c \in DOMAIN rows[i].fields :
           "marshals" \notin DOMAIN Deref(rows[i].fields[c])

\* The struct table is, byte for byte, what the tree gives.
FieldsOf == [t \in DOMAIN Structs |-> ComputeFields(t)]
SameText(g) ==
    pc[g] = "done" => text[g] = TreeText(job[g].rows, FieldsOf[job[g].type], job[g].opts)
TableIsTree ==
    \A g \in Goroutines : Comparable(job[g].type, job[g].rows) => SameText(g)
-----------------------------------------------------------------------------
\* "a name tied at the same depth is dropped" (computeFields).  Violated by a
\* struct embedded twice: the second way to its fields is never counted.
TiesDropped == \A t \in DOMAIN Structs : Resolved(t)

\* "It only fires when its output is provably identical to the tree path"
\* (marshal_reflect.go).  Violated by two fields with one tag, which the tree
\* drops and the table writes (TwicePairs); and by a field with a marshaler
\* method, which only the tree calls (CustomPairs).
AlwaysTree == \A g \in Goroutines : SameText(g)
=============================================================================
