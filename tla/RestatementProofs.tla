------------------------- MODULE RestatementProofs -------------------------
(***************************************************************************)
(* Restatement, proved for any models, versions, environments, plans and   *)
(* ranges: types, what the clearing and the end of a restatement plan may  *)
(* do to prod, and where the rows from before the restatement are, from    *)
(* its start to long after it has succeeded.                               *)
(***************************************************************************)
EXTENDS Restatement, UpTheGraph

Plan(S) == [env : EnvNames, snapshots : {S}, missing : [S -> SUBSET Points], overtaken : BOOLEAN]

Restating == [status : Status,
              all_snapshots : SUBSET SnapshotIds,
              todo : SUBSET SnapshotIds,
              cleared : SUBSET {Name[s] : s \in SnapshotIds},
              missed : SUBSET Tables,
              overtaken : BOOLEAN]

Typed ==
    /\ stored \subseteq SnapshotIds
    /\ envs \in [EnvNames -> SUBSET SnapshotIds]
    /\ loaded \in [Tables -> SUBSET Points]
    /\ old \in [Tables -> SUBSET Points]
    /\ plan = NoPlan \/ \E S \in SUBSET SnapshotIds : plan \in Plan(S)
    /\ restating \in Restating
    /\ restating.todo \subseteq restating.all_snapshots

\* As long as no other plan has written the record of prod, prod is what is restated.
ProdIsRestated ==
    restating.status \in {"backfill", "cleared"} /\ ~restating.overtaken =>
        restating.all_snapshots = envs[Prod]

RestatementInv == Typed /\ ProdIsRestated

LEMMA TypedMeansTypeOK == Typed => TypeOK
BY DEF Typed, TypeOK, Plan, Restating

LEMMA TablesOfSnapshots == \A s \in SnapshotIds : TableOf(s) \in Tables
BY DEF Tables

LEMMA EvaluationTyped ==
    ASSUME Typed, NEW s \in SnapshotIds, NEW P \in SUBSET Points, Evaluate(s, P)
    PROVE  /\ loaded' \in [Tables -> SUBSET Points]
           /\ old' \in [Tables -> SUBSET Points]
           /\ \A t \in Tables : loaded[t] \subseteq loaded'[t]
<1>1. TableOf(s) \in Tables  BY TablesOfSnapshots
<1>2. loaded' = [loaded EXCEPT ![TableOf(s)] = @ \cup P]
    BY DEF Evaluate, LoadedAfter
<1>3. PICK stale \in SUBSET Points : old' = [old EXCEPT ![TableOf(s)] = (@ \ P) \cup stale]
    BY DEF Evaluate, OldAfter
<1> QED  BY <1>1, <1>2, <1>3 DEF Typed

LEMMA InitRight == Init => RestatementInv
<1> SUFFICES ASSUME Init PROVE RestatementInv  OBVIOUS
<1>1. restating \in Restating  BY DEF Init, Restating, Status
<1>2. loaded \in [Tables -> SUBSET Points]  BY DEF Init
<1>3. old \in [Tables -> SUBSET Points]  BY <1>2 DEF Init
<1>4. envs \in [EnvNames -> SUBSET SnapshotIds] /\ stored \subseteq SnapshotIds
    BY RestatementConstants DEF Init
<1> QED  BY <1>1, <1>2, <1>3, <1>4 DEF Init, RestatementInv, Typed, ProdIsRestated

LEMMA StepKeepsInv == RestatementInv /\ [Next]_vars => RestatementInv'
<1> SUFFICES ASSUME RestatementInv, [Next]_vars PROVE RestatementInv'  OBVIOUS
<1> USE RestatementConstants
<1>1. ASSUME NEW r \in Requests, StartPlan(r) PROVE RestatementInv'
  <2>1. r.env \in EnvNames /\ r.snapshots \in SUBSET SnapshotIds  OBVIOUS
  <2>2. \A s \in r.snapshots : Points \ loaded[TableOf(s)] \in SUBSET Points  OBVIOUS
  <2>3. plan' \in Plan(r.snapshots)  BY <1>1, <2>1, <2>2 DEF StartPlan, Plan
  <2> QED  BY <1>1, <2>1, <2>3 DEF StartPlan, RestatementInv, Typed, ProdIsRestated
<1>2. ASSUME NEW s \in SnapshotIds, EvaluateInPlan(s) PROVE RestatementInv'
  <2>1. PICK S \in SUBSET SnapshotIds : plan \in Plan(S)
      BY <1>2 DEF EvaluateInPlan, RestatementInv, Typed
  <2>2. s \in S /\ plan.missing \in [S -> SUBSET Points]
      BY <1>2, <2>1 DEF EvaluateInPlan, Plan
  <2>3. /\ loaded' \in [Tables -> SUBSET Points]
        /\ old' \in [Tables -> SUBSET Points]
    <3>1. Evaluate(s, plan.missing[s]) /\ plan.missing[s] \in SUBSET Points
        BY <1>2, <2>2 DEF EvaluateInPlan
    <3> QED  BY <3>1, EvaluationTyped DEF RestatementInv
  <2>4. plan' \in Plan(S)  BY <1>2, <2>1, <2>2 DEF EvaluateInPlan, Plan
  <2> QED  BY <1>2, <2>3, <2>4 DEF EvaluateInPlan, RestatementInv, Typed, ProdIsRestated
<1>3. CASE FinishPlan
  <2>1. PICK S \in SUBSET SnapshotIds : plan \in Plan(S)
      BY <1>3 DEF FinishPlan, RestatementInv, Typed
  <2>2. plan.env \in EnvNames /\ plan.snapshots = S  BY <2>1 DEF Plan
  <2>3. CASE plan.overtaken
      BY <1>3, <2>3 DEF FinishPlan, RestatementInv, Typed, ProdIsRestated
  <2>4. CASE ~plan.overtaken
    <3>1. /\ envs' = [envs EXCEPT ![plan.env] = S]
          /\ restating' = [restating EXCEPT
                !.overtaken = restating.overtaken \/ (Started /\ plan.env = Prod)]
          /\ plan' = NoPlan /\ UNCHANGED <<stored, loaded, old>>
        BY <1>3, <2>2, <2>4 DEF FinishPlan
    <3>2. restating' \in Restating /\ restating'.todo \subseteq restating'.all_snapshots
        BY <3>1 DEF RestatementInv, Typed, Restating, Started
    <3>3. envs' \in [EnvNames -> SUBSET SnapshotIds]
        BY <2>2, <3>1 DEF RestatementInv, Typed
    <3>4. Typed'  BY <3>1, <3>2, <3>3 DEF RestatementInv, Typed
    <3>5. ProdIsRestated'
      <4>1. CASE plan.env = Prod
          BY <3>1, <4>1 DEF RestatementInv, Typed, Restating, ProdIsRestated, Started
      <4>2. CASE plan.env # Prod
          BY <2>2, <3>1, <4>2 DEF RestatementInv, Typed, Restating, ProdIsRestated
      <4> QED  BY <4>1, <4>2
    <3> QED  BY <3>4, <3>5 DEF RestatementInv
  <2> QED  BY <2>3, <2>4
<1>4. CASE StartRestatement
  <2>1. envs[Prod] \in SUBSET SnapshotIds  BY DEF RestatementInv, Typed
  <2>2. ToRestate \subseteq envs[Prod]  BY DEF ToRestate
  <2>3. restating' = [restating EXCEPT !.status = "backfill",
                        !.all_snapshots = envs[Prod], !.todo = ToRestate]
      BY <1>4 DEF StartRestatement
  <2>4. restating' \in Restating /\ restating'.todo \subseteq restating'.all_snapshots
        /\ restating'.all_snapshots = envs[Prod]
      BY <2>1, <2>2, <2>3 DEF RestatementInv, Typed, Restating, Status
  <2> QED  BY <1>4, <2>4 DEF StartRestatement, RestatementInv, Typed, ProdIsRestated
<1>5. ASSUME NEW s \in SnapshotIds, Backfill(s) PROVE RestatementInv'
  <2>1. /\ loaded' \in [Tables -> SUBSET Points]
        /\ old' \in [Tables -> SUBSET Points]
      BY <1>5, EvaluationTyped DEF Backfill, RestatementInv
  <2>2. restating' = [restating EXCEPT !.todo = @ \ {s}]  BY <1>5 DEF Backfill
  <2>3. /\ restating' \in Restating /\ restating'.todo \subseteq restating'.all_snapshots
        /\ restating'.all_snapshots = restating.all_snapshots
        /\ restating'.status = restating.status
        /\ restating'.overtaken = restating.overtaken
      BY <2>2 DEF RestatementInv, Typed, Restating
  <2> QED  BY <1>5, <2>1, <2>3 DEF Backfill, RestatementInv, Typed, ProdIsRestated
<1>6. ASSUME NEW expired \in SUBSET (stored \cap ShortLived), ClearIntervals(expired)
      PROVE  RestatementInv'
  <2>1. PICK clear \in SUBSET SnapshotsToClear(expired), deployed \in SUBSET Restated :
          /\ loaded' = [t \in Tables |->
                IF \E s \in clear : TableOf(s) = t THEN loaded[t] \ RestatedPoints ELSE loaded[t]]
          /\ restating' = [restating EXCEPT
                !.status = IF deployed = {} THEN "cleared" ELSE "failed",
                !.cleared = {Name[s] : s \in clear},
                !.missed = {TableOf(s) : s \in expired}
                               \ (ProdVersions \cup {TableOf(s) : s \in clear})]
      BY <1>6 DEF ClearIntervals, DeployedDuringRestatement
  <2>2. SnapshotsToClear(expired) \subseteq SnapshotIds /\ expired \subseteq SnapshotIds
      BY DEF SnapshotsToClear, AffectedInEnvironments, RestatementInv, Typed
  <2>3. loaded' \in [Tables -> SUBSET Points]  BY <2>1 DEF RestatementInv, Typed
  <2>4. /\ {Name[s] : s \in clear} \subseteq {Name[s] : s \in SnapshotIds}
        /\ {TableOf(s) : s \in expired} \subseteq Tables
      BY <2>2, TablesOfSnapshots
  <2>5. /\ restating' \in Restating
        /\ restating'.todo \subseteq restating'.all_snapshots
        /\ restating'.all_snapshots = restating.all_snapshots
        /\ restating'.overtaken = restating.overtaken
      BY <2>1, <2>4 DEF RestatementInv, Typed, Restating, Status
  <2>6. restating.status = "backfill" /\ UNCHANGED <<stored, envs, old, plan>>
      BY <1>6 DEF ClearIntervals
  <2> QED  BY <2>3, <2>5, <2>6 DEF RestatementInv, Typed, ProdIsRestated
<1>7. CASE UpdateRecord
  <2>1. UNCHANGED <<stored, loaded, old>>  BY <1>7 DEF UpdateRecord
  <2>2. \/ plan' = plan
        \/ plan # NoPlan /\ plan' = [plan EXCEPT !.overtaken = TRUE]
      BY <1>7 DEF UpdateRecord
  <2>3. plan' = NoPlan \/ \E S \in SUBSET SnapshotIds : plan' \in Plan(S)
    <3>1. CASE plan' = plan  BY <3>1 DEF RestatementInv, Typed
    <3>2. CASE plan # NoPlan /\ plan' = [plan EXCEPT !.overtaken = TRUE]
      <4>1. PICK S \in SUBSET SnapshotIds : plan \in Plan(S)
          BY <3>2 DEF RestatementInv, Typed
      <4>2. plan' \in Plan(S)  BY <3>2, <4>1 DEF Plan
      <4> QED  BY <4>2
    <3> QED  BY <2>2, <3>1, <3>2
  <2>4. \E x \in {"failed", "succeeded"} : restating' = [restating EXCEPT !.status = x]
      BY <1>7 DEF UpdateRecord
  <2>5. /\ restating' \in Restating
        /\ restating'.todo \subseteq restating'.all_snapshots
        /\ restating'.status \notin {"backfill", "cleared"}
      BY <2>4 DEF RestatementInv, Typed, Restating, Status
  <2>6. envs' \in [EnvNames -> SUBSET SnapshotIds]
    <3>1. envs' = envs \/ envs' = [envs EXCEPT ![Prod] = restating.all_snapshots]
        BY <1>7 DEF UpdateRecord
    <3> QED  BY <3>1 DEF RestatementInv, Typed, Restating
  <2> QED  BY <2>1, <2>3, <2>5, <2>6 DEF RestatementInv, Typed, ProdIsRestated
<1>8. CASE UNCHANGED vars
    BY <1>8 DEF vars, RestatementInv, Typed, ProdIsRestated
<1> QED  BY <1>1, <1>2, <1>3, <1>4, <1>5, <1>6, <1>7, <1>8 DEF Next

LEMMA InvHolds == Spec => []RestatementInv
BY InitRight, StepKeepsInv, PTL DEF Spec

\* The variables of a restatement keep their types.
THEOREM RestatementTyped == Spec => []TypeOK
<1>1. RestatementInv => TypeOK  BY TypedMeansTypeOK DEF RestatementInv
<1> QED  BY <1>1, InvHolds, PTL

\* A restatement plan that succeeds leaves prod with the snapshots it has: what was
\* deployed meanwhile is not undone.
THEOREM SuccessIsOfWhatProdHas == Spec => SuccessIsOfProd
<1>1. RestatementInv /\ [Next]_vars => [Succeeded' /\ ~Succeeded => envs'[Prod] = envs[Prod]]_vars
  <2> SUFFICES ASSUME RestatementInv, Next, restating'.status = "succeeded",
                      restating.status # "succeeded"
               PROVE  envs'[Prod] = envs[Prod]
      BY DEF Succeeded
  <2> USE DEF RestatementInv, Typed, Restating
  <2>1. CASE UpdateRecord
    <3>1. ~restating.overtaken /\ envs' = [envs EXCEPT ![Prod] = restating.all_snapshots]
        BY <2>1 DEF UpdateRecord
    <3>2. restating.all_snapshots = envs[Prod]
        BY <2>1, <3>1 DEF UpdateRecord, ProdIsRestated
    <3> QED  BY <3>1, <3>2, RestatementConstants
  <2>2. CASE \E r \in Requests : StartPlan(r)  BY <2>2 DEF StartPlan
  <2>3. CASE \E s \in SnapshotIds : EvaluateInPlan(s)  BY <2>3 DEF EvaluateInPlan
  <2>4. CASE \E s \in SnapshotIds : Backfill(s)  BY <2>4 DEF Backfill
  <2>5. CASE FinishPlan  BY <2>5 DEF FinishPlan
  <2>6. CASE StartRestatement  BY <2>6 DEF StartRestatement
  <2>7. CASE \E expired \in SUBSET (stored \cap ShortLived) : ClearIntervals(expired)
      BY <2>7 DEF ClearIntervals
  <2> QED  BY <2>1, <2>2, <2>3, <2>4, <2>5, <2>6, <2>7 DEF Next
<1> QED  BY <1>1, InvHolds, PTL DEF Spec, SuccessIsOfProd

\* Clearing takes nothing from a table of prod: neither from those it had when the
\* restatement began nor from a restated model's that was deployed since.
THEOREM ProdKeepsItsIntervals == Spec => ProdStaysLoaded
<1> DEFINE A == \A s \in SnapshotIds :
                    \/ s \in restating.all_snapshots
                    \/ s \in envs[Prod] /\ Name[s] \in Restated
                    => loaded[TableOf(s)] \subseteq loaded'[TableOf(s)]
<1>1. RestatementInv /\ [Next]_vars => [A]_vars
  <2> SUFFICES ASSUME RestatementInv, Next, NEW s \in SnapshotIds,
                      \/ s \in restating.all_snapshots
                      \/ s \in envs[Prod] /\ Name[s] \in Restated
               PROVE  loaded[TableOf(s)] \subseteq loaded'[TableOf(s)]
      OBVIOUS
  <2>0. TableOf(s) \in Tables  BY TablesOfSnapshots
  <2>1. ASSUME NEW q \in SnapshotIds, EvaluateInPlan(q)
        PROVE  loaded[TableOf(s)] \subseteq loaded'[TableOf(s)]
    <3>1. PICK S \in SUBSET SnapshotIds : plan \in Plan(S)
        BY <2>1 DEF EvaluateInPlan, RestatementInv, Typed
    <3>2. Evaluate(q, plan.missing[q]) /\ plan.missing[q] \in SUBSET Points
        BY <2>1, <3>1 DEF EvaluateInPlan, Plan
    <3> QED  BY <2>0, <3>2, EvaluationTyped DEF RestatementInv
  <2>2. ASSUME NEW q \in SnapshotIds, Backfill(q)
        PROVE  loaded[TableOf(s)] \subseteq loaded'[TableOf(s)]
    <3>1. Evaluate(q, RestatedPoints) /\ RestatedPoints \in SUBSET Points
        BY <2>2, RestatementConstants DEF Backfill
    <3> QED  BY <2>0, <3>1, EvaluationTyped DEF RestatementInv
  <2>3. ASSUME NEW expired, ClearIntervals(expired)
        PROVE  loaded[TableOf(s)] \subseteq loaded'[TableOf(s)]
    <3> DEFINE clear == {c \in SnapshotsToClear(expired) : Name[c] \notin DeployedDuringRestatement}
    <3>1. loaded' = [t \in Tables |->
            IF \E c \in clear : TableOf(c) = t THEN loaded[t] \ RestatedPoints ELSE loaded[t]]
        BY <2>3 DEF ClearIntervals
    <3>2. \A c \in clear : TableOf(c) \notin ProdVersions
        BY DEF SnapshotsToClear, AffectedInEnvironments
    <3>3. \A c \in clear : TableOf(c) # TableOf(s)
      <4> SUFFICES ASSUME NEW c \in clear, TableOf(c) = TableOf(s) PROVE FALSE  OBVIOUS
      <4>1. TableOf(s) \notin ProdVersions  BY <3>2
      <4>2. s \in envs[Prod] /\ Name[s] \in Restated  BY <4>1 DEF ProdVersions
      <4>3. PICK q \in restating.all_snapshots : Name[q] = Name[s]
          BY <4>2 DEF Restated, WithDownstream
      <4>4. Version[q] # Version[s]  BY <4>1, <4>3 DEF ProdVersions, TableOf
      <4>5. Name[s] \in DeployedDuringRestatement
          BY <4>2, <4>3, <4>4 DEF DeployedDuringRestatement
      <4>6. Name[c] = Name[s]  BY DEF TableOf
      <4> QED  BY <4>5, <4>6
    <3> HIDE DEF clear
    <3> QED  BY <2>0, <3>1, <3>3
  <2>4. CASE \E r \in Requests : StartPlan(r)  BY <2>4 DEF StartPlan
  <2>5. CASE FinishPlan \/ StartRestatement \/ UpdateRecord
      BY <2>5 DEF FinishPlan, StartRestatement, UpdateRecord
  <2> QED  BY <2>1, <2>2, <2>3, <2>4, <2>5 DEF Next
<1> QED  BY <1>1, InvHolds, PTL DEF Spec, ProdStaysLoaded
-----------------------------------------------------------------------------
(***************************************************************************)
(* Old rows.  They come from the restated model, down the graph.           *)
(***************************************************************************)
LEMMA AncestorsOf ==
    \A s \in SnapshotIds :
        Ancestors[s] = Parents[s] \cup UNION {Ancestors[p] : p \in Parents[s]}
<1>1. Parents \in [SnapshotIds -> SUBSET SnapshotIds] /\ DOMAIN Parents = SnapshotIds
    BY RestatementConstants
<1>2. Ancestors = CHOOSE f : Collects(f, Parents, Parents)
    BY <1>1 DEF Ancestors, Collects
<1>3. \E f : Collects(f, Parents, Parents)  BY <1>1, Collected
<1>4. Collects(Ancestors, Parents, Parents)  BY <1>2, <1>3
<1> QED  BY <1>1, <1>4 DEF Collects

LEMMA DownFromTarget ==
    ASSUME NEW s \in SnapshotIds, NEW p \in Parents[s], FromTarget(p)
    PROVE  FromTarget(s)
<1>1. PICK q \in {p} \cup Ancestors[p] : Name[q] = Target  BY DEF FromTarget
<1>2. q \in Ancestors[s]  BY AncestorsOf
<1> QED  BY <1>1, <1>2 DEF FromTarget

SameTable(s) == {r \in SnapshotIds : TableOf(r) = TableOf(s)}

LEMMA FeedingOf ==
    \A s \in SnapshotIds :
        Feeding[s] = SameTable(s)
                     \cup UNION {Feeding[p] : p \in UNION {Parents[r] : r \in SameTable(s)}}
<1> DEFINE own == [s \in SnapshotIds |-> SameTable(s)]
           next == [s \in SnapshotIds |-> UNION {Parents[r] : r \in SameTable(s)}]
           Eq(g) == g = [s \in SnapshotIds |-> SameTable(s)
                          \cup UNION {g[p] : p \in UNION {Parents[r] : r \in SameTable(s)}}]
<1>1. next \in [SnapshotIds -> SUBSET SnapshotIds]
    BY RestatementConstants DEF SameTable
<1>2. PICK f : Collects(f, own, next)
  <2> HIDE DEF own, next
  <2> QED  BY <1>1, Collected
<1>3. Eq(f)
  <2>1. ASSUME NEW s \in SnapshotIds
        PROVE  f[s] = SameTable(s)
                 \cup UNION {f[p] : p \in UNION {Parents[r] : r \in SameTable(s)}}
    <3>1. f[s] = own[s] \cup UNION {f[p] : p \in next[s]}  BY <1>2 DEF Collects
    <3> QED  BY <3>1
  <2>2. DOMAIN f = SnapshotIds /\ f = [s \in SnapshotIds |-> f[s]]  BY <1>2 DEF Collects
  <2> HIDE DEF own, next
  <2> QED  BY <2>1, <2>2
<1>4. Feeding = CHOOSE g : Eq(g)  BY DEF Feeding, SameTable
<1> HIDE DEF own, next, Eq
<1>5. Eq(Feeding)  BY <1>3, <1>4
<1> QED  BY <1>5 DEF Eq

LEMMA FeedingSame ==
    ASSUME NEW s \in SnapshotIds, NEW r \in SnapshotIds, TableOf(r) = TableOf(s)
    PROVE  r \in Feeding[s] /\ Feeding[r] = Feeding[s]
<1>1. SameTable(r) = SameTable(s) /\ r \in SameTable(s)  BY DEF SameTable
<1> QED  BY <1>1, FeedingOf

LEMMA FeedingParents ==
    ASSUME NEW s \in SnapshotIds, NEW p \in Parents[s]
    PROVE  Feeding[p] \subseteq Feeding[s]
<1>1. p \in UNION {Parents[r] : r \in SameTable(s)}  BY DEF SameTable
<1> QED  BY <1>1, FeedingOf

IsClosed(S) == \A s \in S : Parents[s] \subseteq S

Filled(s) == loaded[TableOf(s)] = Points

OldIsFromTarget == \A s \in SnapshotIds : old[TableOf(s)] # {} => FromTarget(s)

LoadedIsStored ==
    \A s \in SnapshotIds : loaded[TableOf(s)] # {} => \E r \in stored : TableOf(r) = TableOf(s)

\* Until the intervals are cleared, no environment lacks any.
EnvsRight ==
    \A e \in EnvNames :
        /\ envs[e] \subseteq stored /\ IsClosed(envs[e])
        /\ restating.status \in {"not_started", "backfill"} => \A s \in envs[e] : Filled(s)

PlanRight ==
    plan # NoPlan =>
        /\ plan.snapshots \subseteq stored /\ IsClosed(plan.snapshots)
        /\ \A s, q \in plan.snapshots : Name[s] = Name[q] => s = q
        /\ \A s \in plan.snapshots : plan.missing[s] = Points \ loaded[TableOf(s)]

RestatedRight ==
    restating.status # "not_started" =>
        /\ restating.all_snapshots \subseteq stored /\ IsClosed(restating.all_snapshots)
        /\ \E s \in restating.all_snapshots : Name[s] = Target

\* A table that has been restated has no old rows in the range, and cannot get any:
\* no plan has anything to evaluate in it.
RestatedIsFresh ==
    restating.status = "backfill" =>
        \A s \in restating.all_snapshots :
            /\ Filled(s)
            /\ s \notin restating.todo /\ FromTarget(s) =>
                   old[TableOf(s)] \cap RestatedPoints = {}

ClearedIsFresh ==
    restating.status \in {"cleared", "succeeded"} =>
        \A s \in stored : LookedAfter(s) => Stale(s) = {}

RowsInv ==
    /\ OldIsFromTarget /\ LoadedIsStored /\ EnvsRight /\ PlanRight
    /\ RestatedRight /\ RestatedIsFresh /\ ClearedIsFresh

LEMMA InitRows == TablesAgree /\ Init => RowsInv
<1> SUFFICES ASSUME TablesAgree, Init PROVE RowsInv  OBVIOUS
<1> USE RestatementConstants
<1>1. \A s \in SnapshotIds : TableOf(s) \in Tables  BY TablesOfSnapshots
<1>2. restating.status = "not_started" /\ plan = NoPlan  BY DEF Init
<1>3. ASSUME NEW s \in SnapshotIds, old[TableOf(s)] # {} PROVE FromTarget(s)
  <2>1. \E r \in FirstProd : TableOf(r) = TableOf(s) /\ FromTarget(r)
      BY <1>1, <1>3 DEF Init
  <2> QED  BY <2>1 DEF TablesAgree
<1>4. ASSUME NEW s \in SnapshotIds, loaded[TableOf(s)] # {}
      PROVE  \E r \in stored : TableOf(r) = TableOf(s)
    BY <1>1, <1>4 DEF Init
<1>5. EnvsRight
  <2>1. \A s \in FirstProd : Filled(s)  BY <1>1 DEF Init, Filled
  <2> QED  BY <2>1 DEF Init, EnvsRight, IsClosed
<1> QED  BY <1>2, <1>3, <1>4, <1>5
         DEF RowsInv, OldIsFromTarget, LoadedIsStored, PlanRight, RestatedRight,
             RestatedIsFresh, ClearedIsFresh

\* What an evaluation does to the rows of a table, and to no other one.
LEMMA EvaluationRows ==
    ASSUME Typed, NEW s \in SnapshotIds, NEW P \in SUBSET Points, Evaluate(s, P)
    PROVE  /\ \A r \in SnapshotIds : TableOf(r) # TableOf(s) =>
                 old'[TableOf(r)] = old[TableOf(r)] /\ loaded'[TableOf(r)] = loaded[TableOf(r)]
           /\ loaded'[TableOf(s)] = loaded[TableOf(s)] \cup P
           /\ \A x \in old'[TableOf(s)] :
                 \/ x \in old[TableOf(s)] \ P
                 \/ x \in P /\ Name[s] = Target /\ ~Started
                 \/ x \in P /\ \E p \in Parents[s] : x \in old[TableOf(p)]
<1>1. \A r \in SnapshotIds : TableOf(r) \in Tables  BY TablesOfSnapshots
<1>2. loaded' = [loaded EXCEPT ![TableOf(s)] = @ \cup P]  BY DEF Evaluate, LoadedAfter
<1>3. PICK stale :
        /\ old' = [old EXCEPT ![TableOf(s)] = (@ \ P) \cup stale]
        /\ \A x \in stale : \/ x \in P /\ Name[s] = Target /\ ~Started
                            \/ x \in P /\ \E p \in Parents[s] : x \in old[TableOf(p)]
  <2> DEFINE stale == IF Name[s] = Target
                      THEN IF Started THEN {} ELSE P
                      ELSE P \cap UNION {old[TableOf(p)] : p \in Parents[s]}
  <2>1. old' = [old EXCEPT ![TableOf(s)] = (@ \ P) \cup stale]  BY DEF Evaluate, OldAfter
  <2>2. \A x \in stale : \/ x \in P /\ Name[s] = Target /\ ~Started
                         \/ x \in P /\ \E p \in Parents[s] : x \in old[TableOf(p)]
      OBVIOUS
  <2> HIDE DEF stale
  <2> QED  BY <2>1, <2>2
<1> QED  BY <1>1, <1>2, <1>3 DEF Typed

LEMMA EvaluationFromTarget ==
    ASSUME TablesAgree, RestatementInv, OldIsFromTarget,
           NEW s \in SnapshotIds, NEW P \in SUBSET Points, Evaluate(s, P)
    PROVE  OldIsFromTarget'
<1>1. ASSUME NEW r \in SnapshotIds, NEW x \in old'[TableOf(r)] PROVE FromTarget(r)
  <2>1. CASE TableOf(r) # TableOf(s)
      BY <1>1, <2>1, EvaluationRows DEF RestatementInv, OldIsFromTarget
  <2>2. CASE TableOf(r) = TableOf(s)
    <3>1. \/ x \in old[TableOf(s)]
          \/ Name[s] = Target
          \/ \E p \in Parents[s] : x \in old[TableOf(p)]
        BY <1>1, <2>2, EvaluationRows DEF RestatementInv
    <3>2. FromTarget(s)
      <4>1. CASE x \in old[TableOf(s)]  BY <4>1 DEF OldIsFromTarget
      <4>2. CASE Name[s] = Target  BY <4>2 DEF FromTarget
      <4>3. CASE \E p \in Parents[s] : x \in old[TableOf(p)]
        <5>1. PICK p \in Parents[s] : x \in old[TableOf(p)]  BY <4>3
        <5>2. p \in SnapshotIds  BY RestatementConstants
        <5> QED  BY <5>1, <5>2, DownFromTarget DEF OldIsFromTarget
      <4> QED  BY <3>1, <4>1, <4>2, <4>3
    <3> QED  BY <2>2, <3>2 DEF TablesAgree
  <2> QED  BY <2>1, <2>2
<1> QED  BY <1>1 DEF OldIsFromTarget

\* What is looked after stays what it was, for fewer snapshots when others are stored.
LEMMA LookedAfterBefore ==
    ASSUME NEW s \in SnapshotIds, NEW r \in SnapshotIds, Feeding[r] \subseteq Feeding[s],
           stored \subseteq stored',
           restating'.cleared = restating.cleared,
           restating'.missed = restating.missed,
           restating'.all_snapshots = restating.all_snapshots,
           LookedAfter(s)'
    PROVE  LookedAfter(r)
BY DEF LookedAfter

LEMMA StartPlanRows ==
    ASSUME RestatementInv, RowsInv, NEW r \in Requests, StartPlan(r)
    PROVE  RowsInv'
<1> USE RestatementConstants
<1>1. /\ plan = NoPlan /\ stored' = stored \cup r.snapshots
      /\ plan'.snapshots = r.snapshots
      /\ plan'.missing = [s \in r.snapshots |-> Points \ loaded[TableOf(s)]]
      /\ UNCHANGED <<envs, loaded, old, restating>>
    BY DEF StartPlan
<1>2. r.snapshots \in SUBSET SnapshotIds /\ stored' \in SUBSET SnapshotIds
    BY <1>1 DEF RestatementInv, Typed
<1>3. OldIsFromTarget' /\ LoadedIsStored' /\ EnvsRight' /\ RestatedRight' /\ RestatedIsFresh'
  <2>1. OldIsFromTarget'  BY <1>1 DEF RowsInv, OldIsFromTarget
  <2>2. LoadedIsStored'  BY <1>1 DEF RowsInv, LoadedIsStored
  <2>3. EnvsRight'  BY <1>1 DEF RowsInv, EnvsRight, IsClosed, Filled
  <2>4. RestatedRight'  BY <1>1 DEF RowsInv, RestatedRight, IsClosed
  <2>5. RestatedIsFresh'  BY <1>1 DEF RowsInv, RestatedIsFresh, Filled
  <2> QED  BY <2>1, <2>2, <2>3, <2>4, <2>5
<1>4. PlanRight'
  <2>1. \A s \in r.snapshots : plan'.missing[s] = Points \ loaded'[TableOf(s)]  BY <1>1
  <2>2. r.snapshots \subseteq stored' /\ IsClosed(r.snapshots)  BY <1>1 DEF IsClosed
  <2> QED  BY <1>1, <2>1, <2>2 DEF PlanRight, IsClosed
<1>5. ClearedIsFresh'
  <2> SUFFICES ASSUME restating.status \in {"cleared", "succeeded"},
                      NEW s \in stored', LookedAfter(s)'
               PROVE  Stale(s) = {}
      BY <1>1 DEF ClearedIsFresh, Stale
  <2>1. CASE loaded[TableOf(s)] = {}  BY <2>1 DEF Stale
  <2>2. CASE loaded[TableOf(s)] # {}
    <3>1. PICK q \in stored : TableOf(q) = TableOf(s)
        BY <1>2, <2>2 DEF RowsInv, LoadedIsStored
    <3>2. s \in SnapshotIds /\ q \in SnapshotIds  BY <1>2 DEF RestatementInv, Typed
    <3>3. LookedAfter(q)  BY <1>1, <3>1, <3>2, FeedingSame, LookedAfterBefore
    <3>4. Stale(q) = {}  BY <3>3 DEF RowsInv, ClearedIsFresh
    <3> QED  BY <3>1, <3>4 DEF Stale
  <2> QED  BY <2>1, <2>2
<1> QED  BY <1>3, <1>4, <1>5 DEF RowsInv

LEMMA EvaluateInPlanRows ==
    ASSUME TablesAgree, RestatementInv, RowsInv, NEW s \in SnapshotIds, EvaluateInPlan(s)
    PROVE  RowsInv'
<1> USE RestatementConstants
<1> DEFINE P == plan.missing[s]
<1>1. /\ plan # NoPlan /\ s \in plan.snapshots /\ P # {}
      /\ \A p \in Parents[s] : plan.missing[p] = {}
      /\ Evaluate(s, P)
      /\ plan' = [plan EXCEPT !.missing[s] = {}]
      /\ UNCHANGED <<stored, envs, restating>>
    BY DEF EvaluateInPlan
<1>2. PICK S \in SUBSET SnapshotIds : plan \in Plan(S)
    BY <1>1 DEF RestatementInv, Typed
<1>3. /\ plan.snapshots = S /\ S \subseteq stored /\ s \in S
      /\ \A q \in S : Parents[q] \subseteq S
      /\ \A q \in S : Name[q] = Name[s] => q = s
      /\ \A q \in S : plan.missing[q] = Points \ loaded[TableOf(q)]
    BY <1>1, <1>2 DEF RowsInv, PlanRight, IsClosed, Plan
<1>4. P \in SUBSET Points /\ P = Points \ loaded[TableOf(s)]  BY <1>3
<1> HIDE DEF P
<1>5. /\ \A r \in SnapshotIds : TableOf(r) # TableOf(s) =>
            old'[TableOf(r)] = old[TableOf(r)] /\ loaded'[TableOf(r)] = loaded[TableOf(r)]
      /\ loaded'[TableOf(s)] = loaded[TableOf(s)] \cup P
      /\ \A x \in old'[TableOf(s)] :
            \/ x \in old[TableOf(s)] \ P
            \/ x \in P /\ Name[s] = Target /\ ~Started
            \/ x \in P /\ \E p \in Parents[s] : x \in old[TableOf(p)]
    BY <1>1, <1>4, EvaluationRows DEF RestatementInv
<1>6. loaded[TableOf(s)] \subseteq Points
    BY TablesOfSnapshots DEF RestatementInv, Typed
<1>7. loaded'[TableOf(s)] = Points  BY <1>4, <1>5, <1>6
<1>8. \A q \in SnapshotIds : Filled(q) => Filled(q)'
    BY <1>5, <1>7 DEF Filled
<1>9. OldIsFromTarget'  BY <1>1, <1>4, EvaluationFromTarget DEF RowsInv
<1>10. LoadedIsStored'
  <2> SUFFICES ASSUME NEW q \in SnapshotIds, loaded'[TableOf(q)] # {}
               PROVE  \E r \in stored : TableOf(r) = TableOf(q)
      BY <1>1 DEF LoadedIsStored
  <2>1. CASE TableOf(q) = TableOf(s)  BY <1>3, <2>1
  <2>2. CASE TableOf(q) # TableOf(s)  BY <1>5, <2>2 DEF RowsInv, LoadedIsStored
  <2> QED  BY <2>1, <2>2
<1>11. EnvsRight'
  <2>1. \A e \in EnvNames : envs[e] \subseteq SnapshotIds  BY DEF RestatementInv, Typed
  <2> QED  BY <1>1, <1>8, <2>1 DEF RowsInv, EnvsRight, IsClosed
<1>12. PlanRight'
  <2>1. plan'.snapshots = S
      BY <1>1, <1>2, <1>3 DEF Plan
  <2>2. \A q \in S : plan'.missing[q] = IF q = s THEN {} ELSE plan.missing[q]
      BY <1>1, <1>2 DEF Plan
  <2>3. ASSUME NEW q \in S PROVE plan'.missing[q] = Points \ loaded'[TableOf(q)]
    <3>1. CASE q = s  BY <1>7, <2>2, <3>1
    <3>2. CASE q # s
      <4>1. TableOf(q) # TableOf(s)  BY <1>3, <3>2 DEF TableOf
      <4> QED  BY <1>3, <1>5, <2>2, <3>2, <4>1
    <3> QED  BY <3>1, <3>2
  <2>4. \A p, q \in S : Name[p] = Name[q] => p = q
      BY <1>1, <1>3 DEF RowsInv, PlanRight
  <2> QED  BY <1>1, <1>3, <2>1, <2>3, <2>4 DEF PlanRight, IsClosed
<1>13. RestatedRight'  BY <1>1 DEF RowsInv, RestatedRight, IsClosed
<1>14. RestatedIsFresh'
  <2> SUFFICES ASSUME restating.status = "backfill", NEW q \in restating.all_snapshots
               PROVE  /\ Filled(q)'
                      /\ q \notin restating.todo /\ FromTarget(q) =>
                             old'[TableOf(q)] \cap RestatedPoints = {}
      BY <1>1 DEF RestatedIsFresh
  <2>1. q \in SnapshotIds  BY DEF RestatementInv, Typed, Restating
  <2>2. Filled(q)  BY DEF RowsInv, RestatedIsFresh
  <2>3. TableOf(q) # TableOf(s)  BY <1>1, <1>4, <2>2 DEF Filled, P
  <2> QED  BY <1>5, <1>8, <2>1, <2>2, <2>3 DEF RowsInv, RestatedIsFresh
<1>15. ClearedIsFresh'
  <2> SUFFICES ASSUME restating.status \in {"cleared", "succeeded"},
                      NEW r \in stored, LookedAfter(r)'
               PROVE  Stale(r)' = {}
      BY <1>1 DEF ClearedIsFresh
  <2>1. r \in SnapshotIds /\ LookedAfter(r)
      BY <1>1, LookedAfterBefore DEF RestatementInv, Typed
  <2>2. Stale(r) = {}  BY <2>1 DEF RowsInv, ClearedIsFresh
  <2>3. CASE TableOf(r) # TableOf(s)  BY <1>5, <2>1, <2>2, <2>3 DEF Stale
  <2>4. CASE TableOf(r) = TableOf(s)
    <3>1. ASSUME NEW p \in Parents[s] PROVE old[TableOf(p)] \cap RestatedPoints = {}
      <4>1. p \in S /\ p \in stored /\ p \in SnapshotIds  BY <1>3
      <4>2. Feeding[p] \subseteq Feeding[r]  BY <2>1, <2>4, FeedingSame, FeedingParents
      <4>3. LookedAfter(p)  BY <1>1, <2>1, <4>1, <4>2, LookedAfterBefore
      <4>4. Stale(p) = {}  BY <4>1, <4>3 DEF RowsInv, ClearedIsFresh
      <4>5. Points \subseteq loaded[TableOf(p)]  BY <1>1, <1>3, <4>1
      <4> QED  BY <4>4, <4>5 DEF Stale
    <3>2. Started  BY DEF Started
    <3> SUFFICES ASSUME NEW x \in old'[TableOf(s)], x \in RestatedPoints PROVE FALSE
        BY <2>4 DEF Stale
    <3>3. x \in old[TableOf(s)] \ P  BY <1>5, <3>1, <3>2
    <3>4. x \in loaded[TableOf(s)]  BY <1>4, <3>3
    <3> QED  BY <2>2, <2>4, <3>3, <3>4 DEF Stale
  <2> QED  BY <2>3, <2>4
<1> QED  BY <1>9, <1>10, <1>11, <1>12, <1>13, <1>14, <1>15 DEF RowsInv

LEMMA FinishPlanRows ==
    ASSUME RestatementInv, RowsInv, FinishPlan
    PROVE  RowsInv'
<1>1. /\ plan # NoPlan /\ plan' = NoPlan
      /\ \A s \in plan.snapshots : plan.missing[s] = {}
      /\ UNCHANGED <<stored, loaded, old>>
    BY DEF FinishPlan
<1>2. PICK S \in SUBSET SnapshotIds : plan \in Plan(S)
    BY <1>1 DEF RestatementInv, Typed
<1>3. /\ plan.snapshots = S /\ S \subseteq stored /\ IsClosed(S)
      /\ \A s \in S : plan.missing[s] = Points \ loaded[TableOf(s)]
    BY <1>1, <1>2 DEF RowsInv, PlanRight, Plan
<1>4. ASSUME NEW s \in S PROVE Filled(s)
  <2>1. loaded[TableOf(s)] \subseteq Points
      BY TablesOfSnapshots DEF RestatementInv, Typed
  <2> QED  BY <1>1, <1>3, <2>1 DEF Filled
<1>5. /\ restating'.status = restating.status
      /\ restating'.all_snapshots = restating.all_snapshots
      /\ restating'.todo = restating.todo
      /\ restating'.cleared = restating.cleared
      /\ restating'.missed = restating.missed
    BY DEF FinishPlan, RestatementInv, Typed, Restating
<1>6. envs' = envs \/ envs' = [envs EXCEPT ![plan.env] = S]
    BY <1>3 DEF FinishPlan
<1>7. OldIsFromTarget' /\ LoadedIsStored'
    BY <1>1 DEF RowsInv, OldIsFromTarget, LoadedIsStored
<1>8. EnvsRight'
  <2> SUFFICES ASSUME NEW e \in EnvNames
               PROVE  /\ envs'[e] \subseteq stored /\ IsClosed(envs'[e])
                      /\ restating.status \in {"not_started", "backfill"} =>
                             \A s \in envs'[e] : Filled(s)
      BY <1>1, <1>5 DEF EnvsRight, Filled, IsClosed
  <2>1. CASE envs'[e] = envs[e]  BY <2>1 DEF RowsInv, EnvsRight
  <2>2. CASE envs'[e] = S  BY <1>3, <1>4, <2>2
  <2>3. envs'[e] = envs[e] \/ envs'[e] = S  BY <1>6 DEF RestatementInv, Typed
  <2> QED  BY <2>1, <2>2, <2>3
<1>9. PlanRight'  BY <1>1 DEF PlanRight
<1>10. RestatedRight' /\ RestatedIsFresh'
    BY <1>1, <1>5 DEF RowsInv, RestatedRight, RestatedIsFresh, IsClosed, Filled
<1>11. ClearedIsFresh'
    BY <1>1, <1>5 DEF RowsInv, ClearedIsFresh, LookedAfter, Stale
<1> QED  BY <1>7, <1>8, <1>9, <1>10, <1>11 DEF RowsInv

\* Nothing of prod is downstream of the restated model, and not to be restated.
LEMMA StartRestatementRows ==
    ASSUME RestatementInv, RowsInv, StartRestatement
    PROVE  RowsInv'
<1> USE RestatementConstants
<1>1. /\ restating.status = "not_started"
      /\ \E s \in envs[Prod] : Name[s] = Target
      /\ restating'.status = "backfill"
      /\ restating'.all_snapshots = envs[Prod]
      /\ restating'.todo = ToRestate
      /\ UNCHANGED <<stored, envs, loaded, old, plan>>
    BY DEF StartRestatement, TargetIsPlanned, Started, RestatementInv, Typed, Restating
<1>2. /\ envs[Prod] \subseteq stored /\ IsClosed(envs[Prod])
      /\ \A s \in envs[Prod] : Filled(s)
    BY <1>1 DEF RowsInv, EnvsRight
<1>3. OldIsFromTarget' /\ LoadedIsStored'
    BY <1>1 DEF RowsInv, OldIsFromTarget, LoadedIsStored
<1>4. EnvsRight'  BY <1>1 DEF RowsInv, EnvsRight, IsClosed, Filled
<1>5. PlanRight'  BY <1>1 DEF RowsInv, PlanRight, IsClosed
<1>6. RestatedRight'  BY <1>1, <1>2 DEF RestatedRight, IsClosed
<1>7. RestatedIsFresh'
  <2>1. ASSUME NEW s \in envs[Prod], FromTarget(s) PROVE s \in ToRestate
      BY <2>1 DEF FromTarget, ToRestate, WithDownstream
  <2> QED  BY <1>1, <1>2, <2>1 DEF RestatedIsFresh, Filled
<1>8. ClearedIsFresh'  BY <1>1 DEF ClearedIsFresh
<1> QED  BY <1>3, <1>4, <1>5, <1>6, <1>7, <1>8 DEF RowsInv

LEMMA BackfillRows ==
    ASSUME TablesAgree, RestatementInv, RowsInv, NEW s \in SnapshotIds, Backfill(s)
    PROVE  RowsInv'
<1> USE RestatementConstants
<1> DEFINE all == restating.all_snapshots
           P == RestatedPoints
<1>1. /\ restating.status = "backfill" /\ s \in restating.todo
      /\ Parents[s] \cap restating.todo = {}
      /\ Evaluate(s, P)
      /\ UNCHANGED <<stored, envs, plan>>
    BY DEF Backfill
<1>2. /\ restating'.status = restating.status
      /\ restating'.all_snapshots = all
      /\ restating'.todo = restating.todo \ {s}
      /\ s \in all /\ all \subseteq SnapshotIds
    BY <1>1 DEF Backfill, RestatementInv, Typed, Restating
<1>3. /\ all \subseteq stored /\ IsClosed(all) /\ \A q \in all : Filled(q)
    BY <1>1 DEF RowsInv, RestatedRight, RestatedIsFresh
<1>4. /\ \A r \in SnapshotIds : TableOf(r) # TableOf(s) =>
            old'[TableOf(r)] = old[TableOf(r)] /\ loaded'[TableOf(r)] = loaded[TableOf(r)]
      /\ loaded'[TableOf(s)] = loaded[TableOf(s)] \cup P
      /\ \A x \in old'[TableOf(s)] :
            \/ x \in old[TableOf(s)] \ P
            \/ x \in P /\ Name[s] = Target /\ ~Started
            \/ x \in P /\ \E p \in Parents[s] : x \in old[TableOf(p)]
    BY <1>1, EvaluationRows DEF RestatementInv
<1>5. \A r \in SnapshotIds : loaded'[TableOf(r)] = loaded[TableOf(r)]
  <2>1. loaded[TableOf(s)] = Points /\ P \subseteq Points  BY <1>2, <1>3 DEF Filled
  <2>2. loaded'[TableOf(s)] = loaded[TableOf(s)]  BY <1>4, <2>1
  <2> QED  BY <1>4, <2>2
<1>6. OldIsFromTarget'  BY <1>1, EvaluationFromTarget DEF RowsInv
<1>7. LoadedIsStored'  BY <1>1, <1>5 DEF RowsInv, LoadedIsStored
<1>8. EnvsRight'
  <2>1. \A e \in EnvNames : envs[e] \subseteq SnapshotIds  BY DEF RestatementInv, Typed
  <2> QED  BY <1>1, <1>2, <1>5, <2>1 DEF RowsInv, EnvsRight, IsClosed, Filled
<1>9. PlanRight'
  <2>1. plan # NoPlan => plan.snapshots \subseteq SnapshotIds
      BY DEF RowsInv, PlanRight, RestatementInv, Typed
  <2> QED  BY <1>1, <1>5, <2>1 DEF RowsInv, PlanRight, IsClosed
<1>10. RestatedRight'  BY <1>1, <1>2 DEF RowsInv, RestatedRight, IsClosed
<1>11. RestatedIsFresh'
  <2>1. ASSUME NEW p \in Parents[s] PROVE old[TableOf(p)] \cap P = {}
    <3>1. p \in all /\ p \notin restating.todo /\ p \in SnapshotIds
        BY <1>1, <1>2, <1>3 DEF IsClosed
    <3>2. CASE FromTarget(p)  BY <1>1, <3>1, <3>2 DEF RowsInv, RestatedIsFresh
    <3>3. CASE ~FromTarget(p)  BY <3>1, <3>3 DEF RowsInv, OldIsFromTarget
    <3> QED  BY <3>2, <3>3
  <2>2. Started  BY <1>1 DEF Started
  <2>3. old'[TableOf(s)] \cap P = {}  BY <1>4, <2>1, <2>2
  <2>4. ASSUME NEW q \in all, q \notin restating.todo \ {s}, FromTarget(q)
        PROVE  old'[TableOf(q)] \cap P = {}
    <3>1. CASE TableOf(q) = TableOf(s)  BY <2>3, <3>1
    <3>2. CASE TableOf(q) # TableOf(s)
      <4>1. q \notin restating.todo  BY <2>4, <3>2
      <4> QED  BY <1>1, <1>2, <1>4, <2>4, <3>2, <4>1 DEF RowsInv, RestatedIsFresh
    <3> QED  BY <3>1, <3>2
  <2>5. \A q \in all : loaded'[TableOf(q)] = Points  BY <1>2, <1>3, <1>5 DEF Filled
  <2> QED  BY <1>2, <2>4, <2>5 DEF RestatedIsFresh, Filled
<1>12. ClearedIsFresh'  BY <1>1, <1>2 DEF ClearedIsFresh
<1> QED  BY <1>6, <1>7, <1>8, <1>9, <1>10, <1>11, <1>12 DEF RowsInv

(***************************************************************************)
(* The clearing.  When nothing was deployed meanwhile, a table is either   *)
(* one of prod, which was restated, or it loses the range if its model is  *)
(* cleared at all and not only versions have it that have expired.         *)
(***************************************************************************)
LEMMA ClearingSteps ==
    ASSUME RestatementInv, RowsInv, NEW expired \in SUBSET stored, ClearIntervals(expired)
    PROVE  /\ restating.status = "backfill" /\ restating.todo = {} /\ plan' = NoPlan
           /\ UNCHANGED <<stored, envs, old>>
           /\ \A s \in SnapshotIds : loaded'[TableOf(s)] \subseteq loaded[TableOf(s)]
           /\ restating'.all_snapshots = restating.all_snapshots
           /\ \/ restating'.status = "failed"
              \/ /\ restating'.status = "cleared"
                 /\ restating'.cleared = {Name[s] : s \in SnapshotsToClear(expired)}
                 /\ restating'.missed = {TableOf(s) : s \in expired} \
                        (ProdVersions \cup {TableOf(s) : s \in SnapshotsToClear(expired)})
                 /\ \A s \in SnapshotIds : \A c \in SnapshotsToClear(expired) :
                        TableOf(s) = TableOf(c) =>
                            loaded'[TableOf(s)] = loaded[TableOf(s)] \ RestatedPoints
<1> DEFINE deployed == DeployedDuringRestatement
           clear == {s \in SnapshotsToClear(expired) : Name[s] \notin deployed}
           missed == {TableOf(s) : s \in expired}
                        \ (ProdVersions \cup {TableOf(s) : s \in clear})
<1>1. /\ restating.status = "backfill" /\ restating.todo = {} /\ plan = NoPlan
      /\ loaded' = [t \in Tables |->
            IF \E s \in clear : TableOf(s) = t THEN loaded[t] \ RestatedPoints ELSE loaded[t]]
      /\ restating' = [restating EXCEPT
            !.status = IF deployed = {} THEN "cleared" ELSE "failed",
            !.cleared = {Name[s] : s \in clear},
            !.missed = missed]
      /\ UNCHANGED <<stored, envs, old, plan>>
    BY DEF ClearIntervals
<1>2. deployed = {} => clear = SnapshotsToClear(expired)  OBVIOUS
<1> HIDE DEF deployed, clear
<1>3. /\ restating'.all_snapshots = restating.all_snapshots
      /\ restating'.status = IF deployed = {} THEN "cleared" ELSE "failed"
      /\ restating'.cleared = {Name[s] : s \in clear}
      /\ restating'.missed = missed
    BY <1>1 DEF RestatementInv, Typed, Restating
<1>4. \A s \in SnapshotIds : loaded'[TableOf(s)] \subseteq loaded[TableOf(s)]
    BY <1>1, TablesOfSnapshots
<1>5. \A s \in SnapshotIds : \A c \in clear : TableOf(s) = TableOf(c) =>
          loaded'[TableOf(s)] = loaded[TableOf(s)] \ RestatedPoints
    BY <1>1, TablesOfSnapshots
<1> QED  BY <1>1, <1>2, <1>3, <1>4, <1>5

LEMMA RestatedTables ==
    ASSUME TablesAgree, RestatementInv, RowsInv,
           restating.status = "backfill", restating.todo = {},
           NEW s \in SnapshotIds, TableOf(s) \in ProdVersions
    PROVE  old[TableOf(s)] \cap RestatedPoints = {}
<1>1. PICK q \in restating.all_snapshots : TableOf(q) = TableOf(s)  BY DEF ProdVersions
<1>2. q \in SnapshotIds  BY DEF RestatementInv, Typed, Restating
<1>3. CASE FromTarget(q)  BY <1>1, <1>3 DEF RowsInv, RestatedIsFresh
<1>4. CASE ~FromTarget(q)  BY <1>1, <1>2, <1>4 DEF RowsInv, OldIsFromTarget
<1> QED  BY <1>3, <1>4

LEMMA ClearIntervalsRows ==
    ASSUME TablesAgree, RestatementInv, RowsInv, NEW expired \in SUBSET stored,
           ClearIntervals(expired)
    PROVE  RowsInv'
<1>1. /\ restating.status = "backfill" /\ restating.todo = {} /\ plan' = NoPlan
      /\ UNCHANGED <<stored, envs, old>>
      /\ \A s \in SnapshotIds : loaded'[TableOf(s)] \subseteq loaded[TableOf(s)]
      /\ restating'.all_snapshots = restating.all_snapshots
      /\ \/ restating'.status = "failed"
         \/ /\ restating'.status = "cleared"
            /\ restating'.cleared = {Name[s] : s \in SnapshotsToClear(expired)}
            /\ restating'.missed = {TableOf(s) : s \in expired} \
                   (ProdVersions \cup {TableOf(s) : s \in SnapshotsToClear(expired)})
            /\ \A s \in SnapshotIds : \A c \in SnapshotsToClear(expired) :
                   TableOf(s) = TableOf(c) =>
                       loaded'[TableOf(s)] = loaded[TableOf(s)] \ RestatedPoints
    BY ClearingSteps
<1>2. OldIsFromTarget'  BY <1>1 DEF RowsInv, OldIsFromTarget
<1>3. LoadedIsStored'  BY <1>1 DEF RowsInv, LoadedIsStored
<1>4. EnvsRight'  BY <1>1 DEF RowsInv, EnvsRight, IsClosed
<1>5. PlanRight'  BY <1>1 DEF PlanRight
<1>6. RestatedRight'  BY <1>1 DEF RowsInv, RestatedRight, IsClosed
<1>7. RestatedIsFresh'  BY <1>1 DEF RestatedIsFresh
<1>8. ClearedIsFresh'
  <2> SUFFICES ASSUME restating'.status = "cleared", NEW s \in stored, LookedAfter(s)'
               PROVE  Stale(s)' = {}
      BY <1>1 DEF ClearedIsFresh
  <2>1. s \in SnapshotIds  BY DEF RestatementInv, Typed
  <2>2. CASE ~FromTarget(s)  BY <1>1, <2>1, <2>2 DEF RowsInv, OldIsFromTarget, Stale
  <2>3. CASE TableOf(s) \in ProdVersions
    <3>1. old[TableOf(s)] \cap RestatedPoints = {}  BY <1>1, <2>1, <2>3, RestatedTables
    <3> QED  BY <1>1, <3>1 DEF Stale
  <2>4. CASE FromTarget(s) /\ TableOf(s) \notin ProdVersions
    <3>1. s \in Feeding[s]  BY <2>1, FeedingSame
    <3>2. \/ s \in restating.all_snapshots
          \/ Name[s] \in restating'.cleared /\ TableOf(s) \notin restating'.missed
        BY <1>1, <2>4, <3>1 DEF LookedAfter
    <3>3. s \notin restating.all_snapshots  BY <2>4 DEF ProdVersions
    <3>4. \E c \in SnapshotsToClear(expired) : TableOf(s) = TableOf(c)
      <4>1. CASE s \in expired  BY <1>1, <2>4, <3>2, <3>3, <4>1
      <4>2. CASE s \notin expired
        <5>1. PICK q \in SnapshotsToClear(expired) : Name[q] = Name[s]  BY <1>1, <3>2, <3>3
        <5>2. Name[s] \in {Name[r] : r \in AffectedInEnvironments}
            BY <5>1 DEF SnapshotsToClear
        <5>3. s \in SnapshotsToClear(expired)  BY <2>4, <4>2, <5>2 DEF SnapshotsToClear
        <5> QED  BY <5>3
      <4> QED  BY <4>1, <4>2
    <3>5. loaded'[TableOf(s)] = loaded[TableOf(s)] \ RestatedPoints  BY <1>1, <2>1, <3>4
    <3> QED  BY <1>1, <3>5 DEF Stale
  <2> QED  BY <2>2, <2>3, <2>4
<1> QED  BY <1>2, <1>3, <1>4, <1>5, <1>6, <1>7, <1>8 DEF RowsInv

LEMMA UpdateRecordRows ==
    ASSUME RestatementInv, RowsInv, UpdateRecord
    PROVE  RowsInv'
<1> USE RestatementConstants
<1>1. restating.status = "cleared" /\ UNCHANGED <<stored, loaded, old>>
    BY DEF UpdateRecord
<1>2. /\ restating'.status \in {"failed", "succeeded"}
      /\ restating'.all_snapshots = restating.all_snapshots
      /\ restating'.cleared = restating.cleared
      /\ restating'.missed = restating.missed
    BY DEF UpdateRecord, RestatementInv, Typed, Restating
<1>3. envs' = envs \/ envs' = [envs EXCEPT ![Prod] = restating.all_snapshots]
    BY DEF UpdateRecord
<1>4. \/ plan' = plan
      \/ plan # NoPlan /\ plan' = [plan EXCEPT !.overtaken = TRUE]
    BY DEF UpdateRecord
<1>5. OldIsFromTarget' /\ LoadedIsStored'
    BY <1>1 DEF RowsInv, OldIsFromTarget, LoadedIsStored
<1>6. EnvsRight'
  <2> SUFFICES ASSUME NEW e \in EnvNames
               PROVE  envs'[e] \subseteq stored /\ IsClosed(envs'[e])
      BY <1>1, <1>2 DEF EnvsRight, IsClosed
  <2>1. CASE envs'[e] = envs[e]  BY <2>1 DEF RowsInv, EnvsRight
  <2>2. CASE envs'[e] = restating.all_snapshots
      BY <1>1, <2>2 DEF RowsInv, RestatedRight
  <2>3. envs'[e] = envs[e] \/ envs'[e] = restating.all_snapshots
      BY <1>3 DEF RestatementInv, Typed
  <2> QED  BY <2>1, <2>2, <2>3
<1>7. PlanRight'
  <2>1. CASE plan' = plan  BY <1>1, <2>1 DEF RowsInv, PlanRight, IsClosed
  <2>2. CASE plan # NoPlan /\ plan' = [plan EXCEPT !.overtaken = TRUE]
    <3>1. PICK S \in SUBSET SnapshotIds : plan \in Plan(S)
        BY <2>2 DEF RestatementInv, Typed
    <3>2. plan'.snapshots = plan.snapshots /\ plan'.missing = plan.missing
        BY <2>2, <3>1 DEF Plan
    <3> QED  BY <1>1, <2>2, <3>2 DEF RowsInv, PlanRight, IsClosed
  <2> QED  BY <1>4, <2>1, <2>2
<1>8. RestatedRight'  BY <1>1, <1>2 DEF RowsInv, RestatedRight, IsClosed
<1>9. RestatedIsFresh'  BY <1>2 DEF RestatedIsFresh
<1>10. ClearedIsFresh'
    BY <1>1, <1>2 DEF RowsInv, ClearedIsFresh, LookedAfter, Stale
<1> QED  BY <1>5, <1>6, <1>7, <1>8, <1>9, <1>10 DEF RowsInv

LEMMA StepKeepsRows ==
    ASSUME TablesAgree, RestatementInv, RowsInv, [Next]_vars
    PROVE  RowsInv'
<1>1. CASE \E r \in Requests : StartPlan(r)  BY <1>1, StartPlanRows
<1>2. CASE \E s \in SnapshotIds : EvaluateInPlan(s)  BY <1>2, EvaluateInPlanRows
<1>3. CASE \E s \in SnapshotIds : Backfill(s)  BY <1>3, BackfillRows
<1>4. CASE FinishPlan  BY <1>4, FinishPlanRows
<1>5. CASE StartRestatement  BY <1>5, StartRestatementRows
<1>6. CASE \E expired \in SUBSET (stored \cap ShortLived) : ClearIntervals(expired)
    BY <1>6, ClearIntervalsRows
<1>7. CASE UpdateRecord  BY <1>7, UpdateRecordRows
<1>8. CASE UNCHANGED vars
    BY <1>8 DEF vars, RowsInv, OldIsFromTarget, LoadedIsStored, EnvsRight, PlanRight,
                RestatedRight, RestatedIsFresh, ClearedIsFresh, IsClosed, Filled, Stale, LookedAfter
<1> QED  BY <1>1, <1>2, <1>3, <1>4, <1>5, <1>6, <1>7, <1>8 DEF Next

\* Where the old rows are, all the time: only downstream of the restated model, in no
\* table that has been restated, and, once the intervals are cleared, in none that passes
\* for good and that the restatement looks after.  It does not look after models that no
\* environment has a version of its own of, nor after versions that have expired.
THEOREM OldRowsAreKnown == ASSUME TablesAgree PROVE Spec => []RowsInv
<1>1. TablesAgree /\ Init => RowsInv  BY InitRows
<1>2. RestatementInv /\ RowsInv /\ [Next]_vars => RowsInv'  BY StepKeepsRows
<1> QED  BY <1>1, <1>2, InvHolds, PTL DEF Spec

\* After a restatement plan has succeeded, no version that it looked after has rows
\* from before it that pass for good ones.  A version is looked after if whatever feeds
\* it is prod's or was cleared: expired versions, and what is computed from their
\* tables, are not.
THEOREM LookedAfterStaysFresh == ASSUME TablesAgree PROVE Spec => []LookedAfterFresh
<1>1. RowsInv => LookedAfterFresh
    BY DEF RowsInv, ClearedIsFresh, LookedAfterFresh, Succeeded
<1> QED  BY <1>1, OldRowsAreKnown, PTL

\* When the intervals are cleared, nothing that is in an environment keeps such rows.
THEOREM ClearingLeavesFresh == ASSUME TablesAgree PROVE Spec => PromotedFresh
<1> DEFINE A == restating.status = "backfill" /\ restating'.status = "cleared" =>
                \A e \in EnvNames : \A s \in envs[e] :
                    loaded'[TableOf(s)] \cap old'[TableOf(s)] \cap RestatedPoints = {}
<1>1. RestatementInv /\ RowsInv /\ [Next]_vars => [A]_vars
  <2> SUFFICES ASSUME RestatementInv, RowsInv, Next,
                      restating.status = "backfill", restating'.status = "cleared",
                      NEW e \in EnvNames, NEW s \in envs[e]
               PROVE  loaded'[TableOf(s)] \cap old'[TableOf(s)] \cap RestatedPoints = {}
      OBVIOUS
  <2>0. s \in SnapshotIds  BY DEF RestatementInv, Typed
  <2>1. ASSUME NEW expired \in SUBSET stored, ClearIntervals(expired)
        PROVE  loaded'[TableOf(s)] \cap old'[TableOf(s)] \cap RestatedPoints = {}
    <3>1. /\ restating.todo = {} /\ old' = old
          /\ s \in SnapshotsToClear(expired) =>
                 loaded'[TableOf(s)] = loaded[TableOf(s)] \ RestatedPoints
        BY <2>0, <2>1, ClearingSteps
    <3>2. CASE ~FromTarget(s)  BY <2>0, <3>1, <3>2 DEF RowsInv, OldIsFromTarget
    <3>3. CASE TableOf(s) \in ProdVersions
      <4>1. old[TableOf(s)] \cap RestatedPoints = {}  BY <2>0, <3>1, <3>3, RestatedTables
      <4> QED  BY <3>1, <4>1
    <3>4. CASE FromTarget(s) /\ TableOf(s) \notin ProdVersions
      <4>1. Target \in Restated
          BY DEF RowsInv, RestatedRight, Restated, WithDownstream
      <4>2. Name[s] \in WithDownstream(envs[e], Target)
          BY <3>4 DEF WithDownstream, FromTarget
      <4>3. s \in AffectedInEnvironments
          BY <3>4, <4>1, <4>2 DEF AffectedInEnvironments
      <4> QED  BY <3>1, <4>3 DEF SnapshotsToClear
    <3> QED  BY <3>2, <3>3, <3>4
  <2>2. CASE \E r \in Requests : StartPlan(r)  BY <2>2 DEF StartPlan
  <2>3. CASE \E q \in SnapshotIds : EvaluateInPlan(q)  BY <2>3 DEF EvaluateInPlan
  <2>4. CASE \E q \in SnapshotIds : Backfill(q)
      BY <2>4 DEF Backfill, RestatementInv, Typed, Restating
  <2>5. CASE FinishPlan  BY <2>5 DEF FinishPlan, RestatementInv, Typed, Restating
  <2>6. CASE StartRestatement  BY <2>6 DEF StartRestatement, Started
  <2>7. CASE UpdateRecord  BY <2>7 DEF UpdateRecord
  <2> QED  BY <2>1, <2>2, <2>3, <2>4, <2>5, <2>6, <2>7 DEF Next
<1> QED  BY <1>1, InvHolds, OldRowsAreKnown, PTL DEF Spec, PromotedFresh
=============================================================================
