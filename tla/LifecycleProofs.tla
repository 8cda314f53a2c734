-------------------------- MODULE LifecycleProofs --------------------------
(***************************************************************************)
(* The safety of Lifecycle, proved for every value of the constants: first *)
(* what holds with plans and the janitor running at the same time, then    *)
(* what a plan that is alone leaves behind, and last how long what it has  *)
(* replaced is kept.                                                       *)
(***************************************************************************)
EXTENDS SnapshotTtl, UpTheGraph

\* Snapshots that share a preview table share a production table, whichever are stored.
PreviewsNest == VersionsNest(SnapshotIds)

LEMMA TablesDiffer == \A a, b : ProdTable(a) # DevTable(b)
BY DEF ProdTable, DevTable

\* A table that a snapshot outside of the batch has is not dropped.
LEMMA SharedTableStays ==
    ASSUME NEW kept \in SUBSET SnapshotIds, NEW batch \in SUBSET kept, NEW r \in kept \ batch
    PROVE  /\ ProdTable(r) \notin TablesToDrop(kept, batch)
           /\ VersionsNest(kept) => DevTable(r) \notin TablesToDrop(kept, batch)
<1> DEFINE same == SameVersion(kept, batch)
<1>1. ASSUME ProdTable(r) \in TablesToDrop(kept, batch) PROVE FALSE
  <2>1. PICK t \in batch : /\ ProdTable(r) = ProdTable(t)
                           /\ IsLast(t, batch, {q \in same : ProdTable(q) = ProdTable(t)})
      BY <1>1, TablesDiffer DEF TablesToDrop
  <2>2. r \in same  BY <2>1 DEF SameVersion
  <2> QED  BY <2>1, <2>2 DEF IsLast
<1>2. ASSUME VersionsNest(kept), DevTable(r) \in TablesToDrop(kept, batch) PROVE FALSE
  <2>1. PICK t \in batch : /\ DevTable(r) = DevTable(t)
                           /\ IsLast(t, batch, {q \in same : DevTable(q) = DevTable(t)})
      BY <1>2, TablesDiffer DEF TablesToDrop
  <2>2. r \in same  BY <1>2, <2>1 DEF SameVersion, VersionsNest
  <2> QED  BY <2>1, <2>2 DEF IsLast
<1> QED  BY <1>1, <1>2

(***************************************************************************)
(* Types.  TypeOK is not inductive: a plan that is being applied also has  *)
(* an environment to promote.                                              *)
(***************************************************************************)
PlansHaveEnvironments ==
    \A p \in PlanIds : plans[p].pc \in Active => plans[p].environment \in Environment

TypeInv == TypeOK /\ PlansHaveEnvironments

PlansTyped == plans \in [PlanIds -> Plan] /\ PlansHaveEnvironments

USE DEF Active

LEMMA PlanMoves ==
    ASSUME PlansTyped, NEW p \in PlanIds, plans[p].pc \in Active,
           NEW pc \in Active \cup {"done", "failed"}, plans' = [plans EXCEPT ![p].pc = pc]
    PROVE  PlansTyped'
<1>1. plans[p] \in Plan  BY DEF PlansTyped
<1>2. [plans[p] EXCEPT !.pc = pc] \in Plan  BY <1>1 DEF Plan
<1>3. plans' \in [PlanIds -> Plan]  BY <1>2 DEF PlansTyped
<1>4. \A q \in PlanIds : plans'[q].environment = plans[q].environment
  <2> TAKE q \in PlanIds
  <2> plans[q] \in Plan  BY DEF PlansTyped
  <2> QED  BY <1>1 DEF PlansTyped, Plan
<1>5. \A q \in PlanIds \ {p} : plans'[q].pc = plans[q].pc  BY DEF PlansTyped
<1> QED  BY <1>3, <1>4, <1>5 DEF PlansTyped, PlansHaveEnvironments

\* A plan is replaced by one that has an environment to promote.
LEMMA PlanReplaced ==
    ASSUME PlansTyped, NEW p \in PlanIds, NEW plan \in Plan,
           plan.environment \in Environment, plans' = [plans EXCEPT ![p] = plan]
    PROVE  PlansTyped'
BY DEF PlansTyped, PlansHaveEnvironments

LEMMA InitTyped == Init => TypeInv
<1> SUFFICES ASSUME Init PROVE TypeInv  OBVIOUS
<1>1. StoreTypeOK  BY DEF Init, StoreInit, StoreTypeOK
<1>2. NoPlanYet \in Plan  BY StateSyncConstants DEF NoPlanYet, Plan
<1>3. PlansTyped  BY <1>2 DEF Init, PlansTyped, PlansHaveEnvironments, NoPlanYet
<1>4. janitor \in Janitor
    BY DEF Init, IdleJanitor, Janitor, JanitorSteps, Boundary, LowestBoundary
<1>5. tables \subseteq Tables /\ views \in [EnvNames -> [Names -> Tables \cup {NoTable}]]
    BY DEF Init
<1> QED  BY <1>1, <1>3, <1>4, <1>5 DEF TypeInv, TypeOK, PlansTyped

LEMMA BuildPlanTyped ==
    ASSUME TypeInv, NEW p \in PlanIds, NEW r \in Requests, BuildPlan(p, r)
    PROVE  TypeInv'
<1> DEFINE base == ComparedWith(r.env)
           isUnfinalized == Exists(base) /\ ~envs[base].finalized
           environment ==
            [plan_id |-> p,
             previous_plan_id |->
                IF IsNewEnvironment(r.env) THEN NoPlan ELSE envs[r.env].plan_id,
             snapshots |-> r.snapshots,
             promoted |-> r.promoted,
             previous_finalized |->
                IF isUnfinalized THEN envs[base].previous_finalized ELSE SnapshotsOf(base),
             expiration_ts |-> Never,
             finalized |-> FALSE]
           plan ==
            [NoPlanYet EXCEPT
                !.pc = "built",
                !.name = r.env,
                !.created_ts = clock,
                !.new_snapshots = r.snapshots \ rows,
                !.environment_snapshots = SnapshotsOf(base),
                !.environment = environment]
<1>1. r \in Request  BY LifecycleConstants
<1>2. base \in EnvNames
    BY <1>1, StateSyncConstants DEF Request, ComparedWith
<1>3. \A e \in EnvNames : Exists(e) => envs[e] \in Environment
    BY DEF TypeInv, TypeOK, StoreTypeOK, Exists
<1>4. SnapshotsOf(base) \subseteq SnapshotIds
    BY <1>2, <1>3 DEF SnapshotsOf, Environment
<1>5. environment \in Environment
  <2>1. environment.previous_plan_id \in PlanIds \cup {NoPlan}
      BY <1>1, <1>3 DEF IsNewEnvironment, Request, Environment
  <2>2. environment.previous_finalized \subseteq SnapshotIds
      BY <1>2, <1>3, <1>4 DEF Environment
  <2> QED  BY <1>1, <2>1, <2>2 DEF Environment, Request
<1>6. plan \in Plan
    BY <1>1, <1>4, <1>5 DEF Plan, NoPlanYet, Request, TypeInv, TypeOK, StoreTypeOK
<1>7. plan.environment = environment  BY DEF NoPlanYet
<1>8. plans' = [plans EXCEPT ![p] = plan]  BY DEF BuildPlan
<1>9. PlansTyped'
  <2> HIDE DEF plan
  <2> QED  BY <1>5, <1>6, <1>7, <1>8, PlanReplaced DEF PlansTyped, TypeInv, TypeOK
<1> QED  BY <1>9 DEF PlansTyped, TypeInv, TypeOK, StoreTypeOK, BuildPlan, storeVars

LEMMA StartPlanTyped ==
    ASSUME TypeInv, NEW p \in PlanIds, StartPlan(p)
    PROVE  TypeInv'
<1> DEFINE name == plans[p].name
           environment == plans[p].environment
           started ==
            [plans[p] EXCEPT
                !.pc = "push",
                !.environment.expiration_ts = IF name = Prod THEN Never ELSE clock + EnvTtl,
                !.snapshots = environment.snapshots \cap (plans[p].new_snapshots \cup rows),
                !.representative = {s \in SnapshotIds : IsDeployable(p, s) \/ s \in unpaused},
                !.promoted_snapshots = SnapshotsToPromote(name, environment),
                !.demoted_snapshots = SnapshotsToDemote(name, environment)]
<1>1. plans[p] \in Plan /\ environment \in Environment
    BY DEF TypeInv, TypeOK, PlansHaveEnvironments, StartPlan
<1>2. name \in EnvNames  BY <1>1 DEF Plan
<1>3. Exists(name) => envs[name] \in Environment
    BY <1>2 DEF TypeInv, TypeOK, StoreTypeOK, Exists
<1>4. SnapshotsToPromote(name, environment) \subseteq SnapshotIds
    BY <1>1 DEF SnapshotsToPromote, Environment
<1>5. SnapshotsToDemote(name, environment) \subseteq SnapshotIds
    BY <1>3 DEF SnapshotsToDemote, Environment
<1>6. (IF name = Prod THEN Never ELSE clock + EnvTtl) \in Nat \cup {Never}
    BY LifecycleConstants DEF TypeInv, TypeOK, StoreTypeOK
<1>7. started \in Plan /\ started.environment \in Environment
    BY <1>1, <1>4, <1>5, <1>6 DEF Plan, Environment
<1>8. plans' = [plans EXCEPT ![p] = started]  BY DEF StartPlan
<1>9. PlansTyped'
  <2> HIDE DEF started
  <2> QED  BY <1>7, <1>8, PlanReplaced DEF PlansTyped, TypeInv, TypeOK
<1> QED  BY <1>9 DEF PlansTyped, TypeInv, TypeOK, StoreTypeOK, StartPlan, storeVars

\* The operations of the store keep its types.
LEMMA PushTyped ==
    ASSUME StoreTypeOK, NEW S \in SUBSET SnapshotIds, NEW created_ts \in Nat,
           PushSnapshots(S, created_ts), UNCHANGED clock
    PROVE  StoreTypeOK'
BY DEF StoreTypeOK, PushSnapshots

LEMMA TouchedTyped ==
    ASSUME StoreTypeOK, NEW S
    PROVE  Touched(S, clock) \in [SnapshotIds -> Nat]
BY DEF StoreTypeOK, Touched

LEMMA PromoteTyped ==
    ASSUME StoreTypeOK, NEW e \in EnvNames, NEW env \in Environment,
           Promote(e, env), UNCHANGED clock
    PROVE  StoreTypeOK'
BY TouchedTyped DEF StoreTypeOK, Promote

LEMMA UnpauseTyped ==
    ASSUME StoreTypeOK, NEW S, UnpauseSnapshots(S), UNCHANGED clock
    PROVE  StoreTypeOK'
BY TouchedTyped DEF StoreTypeOK, UnpauseSnapshots

LEMMA FinalizeTyped ==
    ASSUME StoreTypeOK, NEW e \in EnvNames, NEW p \in PlanIds, Finalize(e, p), UNCHANGED clock
    PROVE  StoreTypeOK'
<1>1. envs[e] \in Environment  BY DEF StoreTypeOK, Finalize, CanFinalize, Exists
<1>2. [envs[e] EXCEPT !.finalized = TRUE] \in Environment  BY <1>1 DEF Environment
<1>3. envs' \in [EnvNames -> Environment \cup {NoEnv}]  BY <1>2 DEF StoreTypeOK, Finalize
<1> QED  BY <1>3 DEF StoreTypeOK, Finalize

LEMMA InvalidateTyped ==
    ASSUME StoreTypeOK, NEW e \in EnvNames, InvalidateEnvironment(e), UNCHANGED clock
    PROVE  StoreTypeOK'
<1>1. envs[e] \in Environment  BY DEF StoreTypeOK, InvalidateEnvironment, Exists
<1>2. [envs[e] EXCEPT !.expiration_ts = clock] \in Environment
    BY <1>1 DEF Environment, StoreTypeOK
<1>3. envs' \in [EnvNames -> Environment \cup {NoEnv}]
    BY <1>2 DEF StoreTypeOK, InvalidateEnvironment
<1> QED  BY <1>3 DEF StoreTypeOK, InvalidateEnvironment

LEMMA DeleteTyped ==
    ASSUME StoreTypeOK, NEW ts, NEW ignoreTtl, NEW end, UNCHANGED clock,
           \/ DeleteExpiredEnvironments(ts)
           \/ DeleteExpiredSnapshots(ts, ignoreTtl, end)
    PROVE  StoreTypeOK'
BY DEF StoreTypeOK, DeleteExpiredEnvironments, DeleteExpiredSnapshots

LEMMA ApplyPlanTyped ==
    ASSUME TypeInv, NEW p \in PlanIds, ApplyPlan(p) \/ PlanStops(p)
    PROVE  TypeInv'
<1> DEFINE plan == plans[p]
<1>1. StoreTypeOK /\ PlansTyped  BY DEF TypeInv, TypeOK, PlansTyped
<1>2. plan \in Plan  BY <1>1 DEF PlansTyped
<1>3. CASE CreateSnapshotRecords(p)
  <2>1. StoreTypeOK'
      BY <1>1, <1>2, <1>3, PushTyped DEF CreateSnapshotRecords, Plan
  <2>2. PlansTyped'
      BY <1>1, <1>3, PlanMoves DEF CreateSnapshotRecords, Step
  <2> QED  BY <1>3, <2>1, <2>2 DEF CreateSnapshotRecords, TypeInv, TypeOK, PlansTyped
<1>4. CASE PhysicalLayerUpdate(p)
  <2>1. StoreTypeOK'
      BY <1>1, <1>4 DEF PhysicalLayerUpdate, StoreTypeOK, storeVars
  <2>2. PlansTyped'
      BY <1>1, <1>4, PlanMoves DEF PhysicalLayerUpdate, Step, Stop
  <2>3. TablesToCreate(p) \subseteq Tables
    <3>1. plan.snapshots \subseteq SnapshotIds  BY <1>2 DEF Plan
    <3> QED  BY <3>1 DEF TablesToCreate, TableName, Tables
  <2>4. tables' \subseteq Tables
      BY <1>4, <2>3 DEF PhysicalLayerUpdate, TypeInv, TypeOK
  <2> QED  BY <1>4, <2>1, <2>2, <2>4 DEF PhysicalLayerUpdate, TypeInv, TypeOK, PlansTyped
<1>5. CASE EnvironmentRecordUpdate(p)
  <2>1. plan.environment \in Environment /\ plan.name \in EnvNames
      BY <1>2, <1>5 DEF EnvironmentRecordUpdate, TypeInv, PlansHaveEnvironments, Plan
  <2>2. StoreTypeOK'
      BY <1>1, <1>5, <2>1, PromoteTyped DEF EnvironmentRecordUpdate, StoreTypeOK, storeVars
  <2>3. PlansTyped'
      BY <1>1, <1>5, PlanMoves DEF EnvironmentRecordUpdate, Step, Stop, AfterRecordUpdate
  <2> QED  BY <1>5, <2>2, <2>3 DEF EnvironmentRecordUpdate, TypeInv, TypeOK, PlansTyped
<1>6. CASE Unpause(p)
  <2>1. StoreTypeOK'  BY <1>1, <1>6, UnpauseTyped DEF Unpause
  <2>2. PlansTyped'  BY <1>1, <1>6, PlanMoves DEF Unpause, Step
  <2> QED  BY <1>6, <2>1, <2>2 DEF Unpause, TypeInv, TypeOK, PlansTyped
<1>7. ASSUME NEW s \in SnapshotIds, PromoteView(p, s) \/ DemoteView(p, s)
      PROVE  TypeInv'
  <2>1. plan.pc \in Active /\ plan.environment \in Environment
      BY <1>7 DEF PromoteView, DemoteView, TypeInv, PlansHaveEnvironments
  <2>2. PlansTyped'
    <3>1. CASE plans' = [plans EXCEPT ![p].pc = "failed"]
        BY <1>1, <2>1, <3>1, PlanMoves
    <3>2. CASE plans' = [plans EXCEPT ![p].promoted_snapshots = @ \ {s}]
      <4> DEFINE next == [plan EXCEPT !.promoted_snapshots = @ \ {s}]
      <4>1. next \in Plan /\ next.environment \in Environment  BY <1>2, <2>1 DEF Plan
      <4>2. plans' = [plans EXCEPT ![p] = next]  BY <3>2
      <4> QED  BY <1>1, <4>1, <4>2, PlanReplaced
    <3>3. CASE plans' = [plans EXCEPT ![p].demoted_snapshots = @ \ {s}]
      <4> DEFINE next == [plan EXCEPT !.demoted_snapshots = @ \ {s}]
      <4>1. next \in Plan /\ next.environment \in Environment  BY <1>2, <2>1 DEF Plan
      <4>2. plans' = [plans EXCEPT ![p] = next]  BY <3>3
      <4> QED  BY <1>1, <4>1, <4>2, PlanReplaced
    <3> QED  BY <1>7, <3>1, <3>2, <3>3 DEF PromoteView, DemoteView, Stop
  <2>3. views' \in [EnvNames -> [Names -> Tables \cup {NoTable}]]
    <3>1. Name[s] \in Names /\ ViewTable(p, s) \in Tables
        BY DEF Names, ViewTable, TableName, Tables
    <3> QED  BY <1>7, <3>1 DEF PromoteView, DemoteView, TypeInv, TypeOK
  <2>4. StoreTypeOK' /\ janitor' \in Janitor /\ tables' \subseteq Tables
      BY <1>7 DEF PromoteView, DemoteView, TypeInv, TypeOK, StoreTypeOK, storeVars
  <2> QED  BY <2>2, <2>3, <2>4 DEF TypeInv, TypeOK, PlansTyped
<1>8. CASE FinalizeEnvironment(p)
  <2>1. plan.name \in EnvNames  BY <1>2 DEF Plan
  <2>2. StoreTypeOK'
      BY <1>1, <1>8, <2>1, FinalizeTyped DEF FinalizeEnvironment, StoreTypeOK, storeVars
  <2>3. PlansTyped'
      BY <1>1, <1>8, PlanMoves DEF FinalizeEnvironment, Step, Stop
  <2> QED  BY <1>8, <2>2, <2>3 DEF FinalizeEnvironment, TypeInv, TypeOK, PlansTyped
<1>9. CASE PlanStops(p)
  <2>1. PlansTyped'  BY <1>1, <1>9, PlanMoves DEF PlanStops, Stop
  <2> QED  BY <1>9, <2>1 DEF PlanStops, TypeInv, TypeOK, PlansTyped, StoreTypeOK, storeVars
<1> QED  BY <1>3, <1>4, <1>5, <1>6, <1>7, <1>8, <1>9 DEF ApplyPlan

LEMMA JanitorTyped ==
    ASSUME TypeInv,
           \/ \E ignoreTtl \in IgnoreTtl : RunJanitor(ignoreTtl)
           \/ JanitorWorks
           \/ JanitorStops
    PROVE  TypeInv'
<1> USE DEF TypeInv, TypeOK
<1>0. IdleJanitor \in Janitor
    BY DEF IdleJanitor, Janitor, JanitorSteps, Boundary, LowestBoundary
<1>1. \A from \in JanitorSteps, to \in JanitorSteps : JanitorStep(from, to) => janitor' \in Janitor
    BY DEF JanitorStep, Janitor
<1>2. CASE \E ignoreTtl \in IgnoreTtl : RunJanitor(ignoreTtl)
  <2> PICK ignoreTtl \in IgnoreTtl : RunJanitor(ignoreTtl)  BY <1>2
  <2>1. ignoreTtl \in BOOLEAN  BY LifecycleConstants
  <2>2. janitor' \in Janitor
      BY <1>0, <2>1 DEF RunJanitor, Janitor, JanitorSteps, ExpiredEnvironments, StoreTypeOK
  <2> QED  BY <2>2 DEF RunJanitor, storeVars, StoreTypeOK, PlansHaveEnvironments
<1>3. ASSUME NEW e \in EnvNames, CleanupExpiredViews(e)
      PROVE  TypeInv'
  <2>1. janitor' \in Janitor  BY <1>3 DEF CleanupExpiredViews, Janitor
  <2>2. views' \in [EnvNames -> [Names -> Tables \cup {NoTable}]]
      BY <1>3 DEF CleanupExpiredViews
  <2> QED  BY <1>3, <2>1, <2>2 DEF CleanupExpiredViews, storeVars, StoreTypeOK, PlansHaveEnvironments
<1>4. CASE DeleteEnvironments
  <2>1. StoreTypeOK'  BY <1>4, DeleteTyped DEF DeleteEnvironments
  <2>2. janitor' \in Janitor  BY <1>4, <1>1 DEF DeleteEnvironments, JanitorSteps
  <2> QED  BY <1>4, <2>1, <2>2 DEF DeleteEnvironments, PlansHaveEnvironments
<1>5. CASE GetExpiredBatch
  <2>1. ExpiredBatch \subseteq SnapshotIds
      BY DEF ExpiredBatch, FirstRows, Candidates, StoreTypeOK
  <2>2. ASSUME NEW last \in ExpiredBatch PROVE BatchEnd(last) \in Boundary
      BY <2>1, <2>2, SnapshotConstants DEF BatchEnd, RowBoundary, Boundary, StoreTypeOK
  <2>3. TablesToDrop(rows, ExpiredBatch) \subseteq Tables
      BY <2>1 DEF TablesToDrop, Tables
  <2>4. janitor' \in Janitor
      BY <1>0, <1>5, <2>2, <2>3 DEF GetExpiredBatch, Janitor, JanitorSteps
  <2> QED  BY <1>5, <2>4 DEF GetExpiredBatch, storeVars, StoreTypeOK, PlansHaveEnvironments
<1>6. CASE DropTables
  <2>1. janitor' \in Janitor  BY <1>0, <1>6 DEF DropTables, Janitor, JanitorSteps
  <2> QED  BY <1>6, <2>1 DEF DropTables, storeVars, StoreTypeOK, PlansHaveEnvironments
<1>7. CASE DeleteExpired
  <2>1. StoreTypeOK'  BY <1>7, DeleteTyped DEF DeleteExpired
  <2>2. janitor' \in Janitor  BY <1>7 DEF DeleteExpired, Janitor, JanitorSteps
  <2> QED  BY <1>7, <2>1, <2>2 DEF DeleteExpired, PlansHaveEnvironments
<1>8. CASE JanitorStops
  BY <1>0, <1>8 DEF JanitorStops, storeVars, StoreTypeOK, PlansHaveEnvironments
<1> QED  BY <1>2, <1>3, <1>4, <1>5, <1>6, <1>7, <1>8 DEF JanitorWorks

LEMMA TypeInvIsInductive == TypeInv /\ [Next]_vars => TypeInv'
<1> SUFFICES ASSUME TypeInv, [Next]_vars PROVE TypeInv'  OBVIOUS
<1>1. ASSUME NEW p \in PlanIds, NEW r \in Requests, BuildPlan(p, r) PROVE TypeInv'
    BY <1>1, BuildPlanTyped
<1>2. ASSUME NEW p \in PlanIds, StartPlan(p) \/ ApplyPlan(p) \/ PlanStops(p) PROVE TypeInv'
    BY <1>2, StartPlanTyped, ApplyPlanTyped
<1>3. CASE (\E ignoreTtl \in IgnoreTtl : RunJanitor(ignoreTtl)) \/ JanitorWorks \/ JanitorStops
    BY <1>3, JanitorTyped
<1>4. ASSUME NEW e \in EnvNames, Invalidate(e) PROVE TypeInv'
  <2>1. StoreTypeOK'  BY <1>4, InvalidateTyped DEF Invalidate, TypeInv, TypeOK
  <2> QED  BY <1>4, <2>1 DEF Invalidate, TypeInv, TypeOK, PlansHaveEnvironments
<1>5. CASE TimePasses
    BY <1>5 DEF TimePasses, Tick, storeVars, TypeInv, TypeOK, StoreTypeOK, PlansHaveEnvironments
<1>6. CASE UNCHANGED vars
    BY <1>6 DEF vars, TypeInv, TypeOK, StoreTypeOK, PlansHaveEnvironments
<1> QED  BY <1>1, <1>2, <1>3, <1>4, <1>5, <1>6 DEF Next

\* Every state of the store, of the plans, of the janitor and of the warehouse has
\* its type, and every plan that is being applied has an environment to promote.
THEOREM Typing == Spec => []TypeInv
<1>1. Init => TypeInv  BY InitTyped
<1>2. TypeInv /\ [Next]_vars => TypeInv'  BY TypeInvIsInductive
<1> QED  BY <1>1, <1>2, PTL DEF Spec

\* The same for the type invariant that the runs check.
COROLLARY TypesAreRight == Spec => []TypeOK
<1>1. TypeInv => TypeOK  BY DEF TypeInv
<1> QED  BY <1>1, Typing, PTL

HIDE DEF Active
-----------------------------------------------------------------------------
(***************************************************************************)
(* What a step does to the records of snapshots and environments.          *)
(***************************************************************************)
Pushes(p) ==
    /\ rows' = rows \cup plans[p].new_snapshots
    /\ envs' = envs

Promotes(p) ==
    /\ plans[p].pc = "promote"
    /\ Promote(plans[p].name, plans[p].environment)
    /\ plans' = [plans EXCEPT ![p].pc = AfterRecordUpdate(p)]

Redates(e) ==
    \/ \E p \in PlanIds : Finalize(e, p)
    \/ InvalidateEnvironment(e)

LEMMA StoreSteps ==
    ASSUME TypeInv, [Next]_vars
    PROVE  \/ UNCHANGED <<rows, envs>>
           \/ \E p \in PlanIds : Pushes(p)
           \/ \E p \in PlanIds : Promotes(p)
           \/ \E e \in EnvNames : Redates(e)
           \/ DeleteExpiredEnvironments(janitor.current_ts)
           \/ DeleteExpiredSnapshots(clock, janitor.ignore_ttl, janitor.end)
<1>1. ASSUME NEW p \in PlanIds, ApplyPlan(p)
      PROVE  \/ UNCHANGED <<rows, envs>>
             \/ Pushes(p)
             \/ Promotes(p)
             \/ \E e \in EnvNames : Redates(e)
  <2>0. plans[p].name \in EnvNames  BY DEF TypeInv, TypeOK, Plan
  <2>1. CASE CreateSnapshotRecords(p)
      BY <2>1 DEF CreateSnapshotRecords, PushSnapshots, Pushes
  <2>2. CASE PhysicalLayerUpdate(p)
      BY <2>2 DEF PhysicalLayerUpdate, storeVars
  <2>3. CASE EnvironmentRecordUpdate(p)
      BY <2>3 DEF EnvironmentRecordUpdate, Promotes, Step, storeVars
  <2>4. CASE Unpause(p)
      BY <2>4 DEF Unpause, UnpauseSnapshots
  <2>5. CASE \E s \in SnapshotIds : PromoteView(p, s) \/ DemoteView(p, s)
      BY <2>5 DEF PromoteView, DemoteView, storeVars
  <2>6. CASE FinalizeEnvironment(p)
      BY <2>0, <2>6 DEF FinalizeEnvironment, Redates, storeVars
  <2> QED  BY <1>1, <2>1, <2>2, <2>3, <2>4, <2>5, <2>6 DEF ApplyPlan
<1>2. CASE \E p \in PlanIds, r \in Requests : BuildPlan(p, r)
    BY <1>2 DEF BuildPlan, storeVars
<1>3. CASE \E p \in PlanIds : StartPlan(p) \/ PlanStops(p)
    BY <1>3 DEF StartPlan, PlanStops, storeVars
<1>4. CASE (\E ignoreTtl \in IgnoreTtl : RunJanitor(ignoreTtl)) \/ JanitorStops
    BY <1>4 DEF RunJanitor, JanitorStops, storeVars
<1>5. CASE JanitorWorks
    BY <1>5 DEF JanitorWorks, CleanupExpiredViews, DeleteEnvironments, GetExpiredBatch,
                DropTables, DeleteExpired, storeVars
<1>6. CASE \E e \in EnvNames : Invalidate(e)
    BY <1>6 DEF Invalidate, Redates
<1>7. CASE TimePasses \/ UNCHANGED vars
    BY <1>7 DEF TimePasses, Tick, vars, storeVars
<1> QED  BY <1>1, <1>2, <1>3, <1>4, <1>5, <1>6, <1>7 DEF Next

LEMMA RedatingKeepsTheRest ==
    ASSUME TypeInv, NEW e \in EnvNames, Redates(e)
    PROVE  /\ rows' = rows
           /\ \A n \in EnvNames : Exists(n)' <=> Exists(n)
           /\ \A n \in EnvNames : Exists(n) =>
                /\ envs'[n].plan_id = envs[n].plan_id
                /\ envs'[n].snapshots = envs[n].snapshots
<1>1. envs[e] \in Environment
    BY DEF Redates, Finalize, CanFinalize, InvalidateEnvironment, Exists, TypeInv, TypeOK, StoreTypeOK
<1> DEFINE finalized == [envs[e] EXCEPT !.finalized = TRUE]
           redated == [envs[e] EXCEPT !.expiration_ts = clock]
<1>2. /\ finalized \in Environment
      /\ finalized.plan_id = envs[e].plan_id
      /\ finalized.snapshots = envs[e].snapshots
    BY <1>1 DEF Environment
<1>3. /\ redated \in Environment
      /\ redated.plan_id = envs[e].plan_id
      /\ redated.snapshots = envs[e].snapshots
    BY <1>1 DEF Environment, TypeInv, TypeOK, StoreTypeOK
<1>4. /\ envs'[e] \in Environment
      /\ envs'[e].plan_id = envs[e].plan_id
      /\ envs'[e].snapshots = envs[e].snapshots
      /\ \A n \in EnvNames \ {e} : envs'[n] = envs[n]
  <2>1. envs' = [envs EXCEPT ![e] = finalized] \/ envs' = [envs EXCEPT ![e] = redated]
      BY DEF Redates, Finalize, InvalidateEnvironment
  <2> HIDE DEF finalized, redated
  <2> QED  BY <1>2, <1>3, <2>1 DEF TypeInv, TypeOK, StoreTypeOK
<1>5. rows' = rows  BY DEF Redates, Finalize, InvalidateEnvironment
<1> QED  BY <1>1, <1>4, <1>5, StateSyncConstants DEF Exists

LEMMA CollectedAreUnused ==
    ASSUME NEW ts, NEW ignoreTtl, NEW end, DeleteExpiredSnapshots(ts, ignoreTtl, end)
    PROVE  /\ envs' = envs
           /\ rows' \subseteq rows
           /\ PromotedIds \cap rows \subseteq rows'
           /\ \A e \in EnvNames : Exists(e) => UsedBy(envs[e]) \subseteq PromotedIds
BY DEF DeleteExpiredSnapshots, CandidatesUpTo, Candidates, PromotedIds
-----------------------------------------------------------------------------
(***************************************************************************)
(* What environments refer to is stored.                                   *)
(***************************************************************************)
LEMMA ResolveIsInductive ==
    TypeInv /\ EnvironmentsResolve /\ [Next]_vars => EnvironmentsResolve'
<1> SUFFICES ASSUME TypeInv, EnvironmentsResolve, [Next]_vars,
                    NEW e \in EnvNames, NEW s, s \in SnapshotsOf(e)'
             PROVE  s \in rows'
    BY DEF EnvironmentsResolve
<1>1. CASE UNCHANGED <<rows, envs>>
    BY <1>1 DEF EnvironmentsResolve, SnapshotsOf, Exists
<1>2. CASE \E p \in PlanIds : Pushes(p)
    BY <1>2 DEF Pushes, EnvironmentsResolve, SnapshotsOf, Exists
<1>3. ASSUME NEW p \in PlanIds, Promotes(p) PROVE s \in rows'
  <2>1. plans[p].environment.snapshots \subseteq rows /\ rows' = rows
      BY <1>3 DEF Promotes, Promote, MissingSnapshots
  <2>2. CASE e = plans[p].name
    <3>1. SnapshotsOf(e)' = plans[p].environment.snapshots
        BY <1>3, <2>2 DEF Promotes, Promote, SnapshotsOf, Exists, TypeInv, TypeOK, StoreTypeOK
    <3> QED  BY <2>1, <3>1
  <2>3. CASE e # plans[p].name
    <3>1. SnapshotsOf(e)' = SnapshotsOf(e)
        BY <1>3, <2>3 DEF Promotes, Promote, SnapshotsOf, Exists, TypeInv, TypeOK, StoreTypeOK
    <3> QED  BY <2>1, <3>1 DEF EnvironmentsResolve
  <2> QED  BY <2>2, <2>3
<1>4. ASSUME NEW n \in EnvNames, Redates(n) PROVE s \in rows'
    BY <1>4, RedatingKeepsTheRest DEF EnvironmentsResolve, SnapshotsOf
<1>5. CASE DeleteExpiredEnvironments(janitor.current_ts)
    BY <1>5 DEF DeleteExpiredEnvironments, EnvironmentsResolve, SnapshotsOf, Exists
<1>6. CASE DeleteExpiredSnapshots(clock, janitor.ignore_ttl, janitor.end)
  <2>1. s \in SnapshotsOf(e)
      BY <1>6 DEF DeleteExpiredSnapshots, SnapshotsOf, Exists
  <2>2. s \in rows /\ s \in PromotedIds
      BY <1>6, <2>1, CollectedAreUnused DEF EnvironmentsResolve, SnapshotsOf, UsedBy
  <2> QED  BY <1>6, <2>2, CollectedAreUnused
<1> QED  BY <1>1, <1>2, <1>3, <1>4, <1>5, <1>6, StoreSteps

\* Every snapshot an environment refers to has a record: the two checks that
\* promote and the janitor make, each in its own transaction, are enough.
THEOREM Resolving == Spec => []EnvironmentsResolve
<1>1. Init => EnvironmentsResolve
    BY DEF Init, StoreInit, EnvironmentsResolve, SnapshotsOf, Exists
<1>2. TypeInv /\ EnvironmentsResolve /\ [Next]_vars => EnvironmentsResolve'
    BY ResolveIsInductive
<1> QED  BY <1>1, <1>2, Typing, PTL DEF Spec

\* While an environment is being updated, the janitor leaves the snapshots of its
\* last finalized state alone.
THEOREM KeepingRollbackTargets == Spec => RollbackTargetsKept
<1> DEFINE Spared ==
        \A e \in EnvNames :
            Exists(e) /\ ~envs[e].finalized /\ envs'[e] = envs[e]
                => envs[e].previous_finalized \cap rows \subseteq rows'
<1>1. TypeInv /\ [Next]_vars => [Spared]_vars
  <2> SUFFICES ASSUME TypeInv, [Next]_vars,
                      NEW e \in EnvNames, Exists(e), ~envs[e].finalized, envs'[e] = envs[e]
               PROVE  envs[e].previous_finalized \cap rows \subseteq rows'
      OBVIOUS
  <2>1. CASE rows \subseteq rows'  BY <2>1
  <2>2. CASE DeleteExpiredSnapshots(clock, janitor.ignore_ttl, janitor.end)
      BY <2>2, CollectedAreUnused DEF UsedBy
  <2>3. rows \subseteq rows' \/ DeleteExpiredSnapshots(clock, janitor.ignore_ttl, janitor.end)
      BY StoreSteps, RedatingKeepsTheRest DEF Pushes, Promotes, Promote, DeleteExpiredEnvironments
  <2> QED  BY <2>1, <2>2, <2>3
<1> QED  BY <1>1, Typing, PTL DEF Spec, RollbackTargetsKept
-----------------------------------------------------------------------------
(***************************************************************************)
(* The store implements the registry of references.                        *)
(***************************************************************************)
Pointed == [e \in EnvNames |-> SnapshotsOf(e)]

LEMMA InitIsRegistryInit == Init => Registry!Init
BY DEF Init, StoreInit, Registry!Init, SnapshotsOf, Exists

LEMMA StepIsRegistryStep ==
    ASSUME TypeInv, [Next]_vars
    PROVE  [Registry!Next]_(Registry!vars)
<1>1. ASSUME rows' = rows, \A e \in EnvNames : SnapshotsOf(e)' = SnapshotsOf(e)
      PROVE  UNCHANGED Registry!vars
    BY <1>1 DEF Registry!vars
<1>2. CASE UNCHANGED <<rows, envs>>
    BY <1>1, <1>2 DEF SnapshotsOf, Exists
<1>3. ASSUME NEW p \in PlanIds, Pushes(p) PROVE Registry!Next
  <2>1. plans[p].new_snapshots \in SUBSET SnapshotIds  BY DEF TypeInv, TypeOK, Plan
  <2>2. \A e \in EnvNames : SnapshotsOf(e)' = SnapshotsOf(e)
      BY <1>3 DEF Pushes, SnapshotsOf, Exists
  <2>3. Registry!Store(plans[p].new_snapshots)
      BY <1>3, <2>2 DEF Pushes, Registry!Store
  <2> QED  BY <2>1, <2>3 DEF Registry!Next
<1>4. ASSUME NEW p \in PlanIds, Promotes(p) PROVE Registry!Next
  <2> DEFINE name == plans[p].name
             environment == plans[p].environment
  <2>1. name \in EnvNames /\ environment \in Environment
      BY <1>4 DEF Promotes, TypeInv, TypeOK, PlansHaveEnvironments, Plan
  <2>2. envs' = [envs EXCEPT ![name] = environment] /\ rows' = rows
      BY <1>4 DEF Promotes, Promote
  <2>3. environment.snapshots \subseteq rows
      BY <1>4 DEF Promotes, Promote, MissingSnapshots
  <2>4. envs'[name] = environment /\ \A e \in EnvNames \ {name} : envs'[e] = envs[e]
      BY <2>1, <2>2 DEF TypeInv, TypeOK, StoreTypeOK
  <2>5. environment # NoEnv  BY <2>1, StateSyncConstants
  <2>6. Pointed' = [Pointed EXCEPT ![name] = environment.snapshots]
      BY <2>1, <2>4, <2>5 DEF Pointed, SnapshotsOf, Exists
  <2>7. Registry!Point(name, environment.snapshots)
      BY <2>2, <2>3, <2>6 DEF Registry!Point, Pointed
  <2>8. environment.snapshots \in SUBSET SnapshotIds  BY <2>1 DEF Environment
  <2> QED  BY <2>1, <2>7, <2>8 DEF Registry!Next
<1>5. ASSUME NEW e \in EnvNames, Redates(e) PROVE UNCHANGED Registry!vars
  <2>1. \A n \in EnvNames : SnapshotsOf(n)' = SnapshotsOf(n)
      BY <1>5, RedatingKeepsTheRest DEF SnapshotsOf
  <2> QED  BY <1>1, <1>5, <2>1, RedatingKeepsTheRest
<1>6. CASE DeleteExpiredEnvironments(janitor.current_ts)
  <2> DEFINE E == ExpiredEnvironments(janitor.current_ts)
  <2>1. \A e \in EnvNames : SnapshotsOf(e)' = IF e \in E THEN {} ELSE SnapshotsOf(e)
      BY <1>6 DEF DeleteExpiredEnvironments, SnapshotsOf, Exists
  <2>2. Registry!Release(E)
      BY <1>6, <2>1 DEF DeleteExpiredEnvironments, Registry!Release
  <2>3. E \in SUBSET EnvNames  BY DEF ExpiredEnvironments
  <2> QED  BY <2>2, <2>3 DEF Registry!Next
<1>7. CASE DeleteExpiredSnapshots(clock, janitor.ignore_ttl, janitor.end)
  <2> DEFINE S == rows \ rows'
  <2>1. \A e \in EnvNames : SnapshotsOf(e)' = SnapshotsOf(e)
      BY <1>7 DEF DeleteExpiredSnapshots, SnapshotsOf, Exists
  <2>2. \A e \in EnvNames : SnapshotsOf(e) \cap rows \subseteq rows'
      BY <1>7, CollectedAreUnused DEF SnapshotsOf, UsedBy
  <2>3. S \cap Registry!Referenced = {}  BY <2>2 DEF Registry!Referenced
  <2>4. Registry!Collect(S)
      BY <1>7, <2>1, <2>3, CollectedAreUnused DEF Registry!Collect
  <2>5. S \in SUBSET SnapshotIds  BY DEF TypeInv, TypeOK, StoreTypeOK
  <2> QED  BY <2>4, <2>5 DEF Registry!Next
<1> QED  BY <1>2, <1>3, <1>4, <1>5, <1>6, <1>7, StoreSteps

\* Whatever plans and the janitor do at the same time, the records of snapshots and
\* environments change as a registry of references does.
THEOREM ImplementsRegistry == Spec => RegistrySpec
<1>1. Init => Registry!Init  BY InitIsRegistryInit
<1>2. TypeInv /\ [Next]_vars => [Registry!Next]_(Registry!vars)  BY StepIsRegistryStep
<1> QED  BY <1>1, <1>2, Typing, PTL DEF Spec, RegistrySpec, Registry!Spec
-----------------------------------------------------------------------------
(***************************************************************************)
(* No update is lost.  The previous_plan_id check of promote protects what *)
(* a plan was compared with because a plan id stands for one state of the  *)
(* environment: a plan promotes once, and the environment a plan found was *)
(* promoted before, so its id is never used again.                         *)
(***************************************************************************)
Before == {"built", "push", "create", "promote"}

HasPromoted(q) == plans[q].pc \in {"unpause", "views", "done", "failed"}

OwnersHavePromoted == \A e \in EnvNames : Exists(e) => HasPromoted(envs[e].plan_id)

ComparedRight(p) ==
    LET name == plans[p].name
        environment == plans[p].environment
    IN  /\ environment.plan_id = p
        /\ environment.previous_plan_id # NoPlan =>
            /\ HasPromoted(environment.previous_plan_id)
            /\ Exists(name) /\ envs[name].plan_id = environment.previous_plan_id
                 => envs[name].snapshots = plans[p].environment_snapshots

PlansCompared == \A p \in PlanIds : plans[p].pc \in Before => ComparedRight(p)

UpdateInv == OwnersHavePromoted /\ PlansCompared

\* No environment gets an owner or other snapshots.
OwnersStay ==
    \A e \in EnvNames : Exists(e)' =>
        /\ Exists(e)
        /\ envs'[e].plan_id = envs[e].plan_id
        /\ envs'[e].snapshots = envs[e].snapshots

\* Plans go on, or stay where they are, with what they were built with.
GoesOn(q) ==
    /\ HasPromoted(q) => HasPromoted(q)'
    /\ plans'[q].pc \in Before =>
        /\ plans[q].pc \in Before
        /\ plans'[q].name = plans[q].name
        /\ plans'[q].environment.plan_id = plans[q].environment.plan_id
        /\ plans'[q].environment.previous_plan_id = plans[q].environment.previous_plan_id
        /\ plans'[q].environment_snapshots = plans[q].environment_snapshots

LEMMA QuietSteps ==
    ASSUME TypeInv, UpdateInv, OwnersStay, \A q \in PlanIds : GoesOn(q)
    PROVE  UpdateInv'
<1>1. OwnersHavePromoted'
  <2> SUFFICES ASSUME NEW e \in EnvNames, Exists(e)' PROVE HasPromoted(envs[e].plan_id)'
      BY DEF OwnersHavePromoted
  <2>1. Exists(e) /\ envs'[e].plan_id = envs[e].plan_id  BY DEF OwnersStay
  <2>2. envs[e].plan_id \in PlanIds
      BY <2>1 DEF Exists, TypeInv, TypeOK, StoreTypeOK, Environment
  <2>3. HasPromoted(envs[e].plan_id)  BY <2>1 DEF UpdateInv, OwnersHavePromoted
  <2> QED  BY <2>1, <2>2, <2>3 DEF GoesOn, HasPromoted
<1>2. PlansCompared'
  <2> SUFFICES ASSUME NEW p \in PlanIds, plans'[p].pc \in Before PROVE ComparedRight(p)'
      BY DEF PlansCompared
  <2> DEFINE previous == plans[p].environment.previous_plan_id
  <2>1. /\ plans[p].pc \in Before
        /\ plans'[p].name = plans[p].name
        /\ plans'[p].environment.plan_id = plans[p].environment.plan_id
        /\ plans'[p].environment.previous_plan_id = previous
        /\ plans'[p].environment_snapshots = plans[p].environment_snapshots
      BY DEF GoesOn
  <2>2. ComparedRight(p)  BY <2>1 DEF UpdateInv, PlansCompared
  <2>3. plans[p].name \in EnvNames /\ plans[p].environment \in Environment
      BY <2>1 DEF TypeInv, TypeOK, PlansHaveEnvironments, Before, Plan
  <2>4. previous # NoPlan => previous \in PlanIds  BY <2>3 DEF Environment
  <2>5. previous # NoPlan => HasPromoted(previous)'
      BY <2>2, <2>4 DEF ComparedRight, GoesOn, HasPromoted
  <2> QED  BY <2>1, <2>2, <2>3, <2>5 DEF ComparedRight, OwnersStay, Exists, HasPromoted
<1> QED  BY <1>1, <1>2 DEF UpdateInv

LEMMA MovingOn ==
    ASSUME TypeInv, NEW p \in PlanIds, NEW pc, plans' = [plans EXCEPT ![p].pc = pc],
           pc \in Before => plans[p].pc \in Before,
           HasPromoted(p) => pc \in {"unpause", "views", "done", "failed"}
    PROVE  \A q \in PlanIds : GoesOn(q)
<1> TAKE q \in PlanIds
<1>1. plans \in [PlanIds -> Plan]  BY DEF TypeInv, TypeOK
<1>2. CASE q # p
    BY <1>1, <1>2 DEF GoesOn, HasPromoted
<1>3. CASE q = p
  <2>1. plans[p] \in Plan  BY <1>1
  <2>2. plans'[p] = [plans[p] EXCEPT !.pc = pc]  BY <1>1
  <2>3. /\ plans'[p].pc = pc
        /\ plans'[p].name = plans[p].name
        /\ plans'[p].environment = plans[p].environment
        /\ plans'[p].environment_snapshots = plans[p].environment_snapshots
      BY <2>1, <2>2 DEF Plan
  <2> QED  BY <1>3, <2>3 DEF GoesOn, HasPromoted
<1> QED  BY <1>2, <1>3

LEMMA QuietStores ==
    ASSUME TypeInv,
           \/ UNCHANGED envs
           \/ DeleteExpiredEnvironments(janitor.current_ts)
           \/ \E e \in EnvNames : Redates(e)
    PROVE  OwnersStay
BY RedatingKeepsTheRest DEF OwnersStay, DeleteExpiredEnvironments, Exists

LEMMA BuildPlanCompares ==
    ASSUME TypeInv, UpdateInv, NEW p \in PlanIds, NEW r \in Requests, BuildPlan(p, r)
    PROVE  UpdateInv'
<1> DEFINE base == ComparedWith(r.env)
           isNew == IsNewEnvironment(r.env)
<1>1. r.env \in EnvNames  BY LifecycleConstants DEF Request
<1>2. /\ plans[p].pc = "idle"
      /\ envs' = envs
      /\ \A q \in PlanIds \ {p} : plans'[q] = plans[q]
      /\ plans'[p].pc = "built"
      /\ plans'[p].name = r.env
      /\ plans'[p].environment.plan_id = p
      /\ plans'[p].environment.previous_plan_id = IF isNew THEN NoPlan ELSE envs[r.env].plan_id
      /\ plans'[p].environment_snapshots = SnapshotsOf(base)
    BY DEF BuildPlan, storeVars, TypeInv, TypeOK, Plan, NoPlanYet
<1>3. \A q \in PlanIds : HasPromoted(q) => q # p /\ HasPromoted(q)'
    BY <1>2 DEF HasPromoted
<1>4. \A e \in EnvNames : Exists(e) => envs[e].plan_id \in PlanIds
    BY DEF Exists, TypeInv, TypeOK, StoreTypeOK, Environment
<1>5. OwnersHavePromoted'
    BY <1>2, <1>3, <1>4 DEF UpdateInv, OwnersHavePromoted, Exists, HasPromoted
<1>6. ComparedRight(p)'
  <2>1. CASE isNew
      BY <1>2, <2>1 DEF ComparedRight
  <2>2. CASE ~isNew
    <3>1. Exists(r.env) /\ base = r.env  BY <2>2 DEF IsNewEnvironment, ComparedWith
    <3>2. HasPromoted(envs[r.env].plan_id)'
        BY <1>1, <1>2, <1>3, <1>4, <3>1 DEF UpdateInv, OwnersHavePromoted, HasPromoted
    <3> QED  BY <1>2, <2>2, <3>1, <3>2 DEF ComparedRight, SnapshotsOf, HasPromoted
  <2> QED  BY <2>1, <2>2
<1>7. ASSUME NEW q \in PlanIds \ {p}, plans'[q].pc \in Before PROVE ComparedRight(q)'
  <2> DEFINE previous == plans[q].environment.previous_plan_id
  <2>1. plans'[q] = plans[q] /\ plans[q].pc \in Before  BY <1>2, <1>7
  <2>2. ComparedRight(q)  BY <2>1 DEF UpdateInv, PlansCompared
  <2>3. plans[q].environment \in Environment
      BY <2>1 DEF TypeInv, PlansHaveEnvironments, Before, Active
  <2>4. previous # NoPlan => previous \in PlanIds  BY <2>3 DEF Environment
  <2>5. previous # NoPlan => HasPromoted(previous)'
      BY <1>3, <2>1, <2>2, <2>4 DEF ComparedRight, HasPromoted
  <2> QED  BY <1>2, <2>1, <2>2, <2>5 DEF ComparedRight, Exists, HasPromoted
<1> QED  BY <1>5, <1>6, <1>7 DEF UpdateInv, PlansCompared

LEMMA PromotingKeepsUpdateInv ==
    ASSUME TypeInv, UpdateInv, NEW p \in PlanIds, Promotes(p)
    PROVE  UpdateInv'
<1> DEFINE name == plans[p].name
           environment == plans[p].environment
<1>1. name \in EnvNames /\ environment \in Environment
    BY DEF Promotes, TypeInv, TypeOK, PlansHaveEnvironments, Plan
<1>2. envs'[name] = environment /\ \A e \in EnvNames \ {name} : envs'[e] = envs[e]
    BY <1>1 DEF Promotes, Promote, TypeInv, TypeOK, StoreTypeOK
<1>3. environment.plan_id = p
    BY DEF Promotes, UpdateInv, PlansCompared, ComparedRight, Before
<1>4. HasPromoted(p)' /\ ~HasPromoted(p) /\ plans'[p].pc \notin Before
  <2>1. plans'[p].pc = AfterRecordUpdate(p)  BY DEF Promotes, TypeInv, TypeOK, Plan
  <2> QED  BY <2>1 DEF AfterRecordUpdate, HasPromoted, Promotes, Before
<1>5. \A q \in PlanIds \ {p} : plans'[q] = plans[q]
    BY DEF Promotes, TypeInv, TypeOK
<1>6. \A q \in PlanIds : HasPromoted(q) => q # p /\ HasPromoted(q)'
    BY <1>4, <1>5 DEF HasPromoted
<1>7. OwnersHavePromoted'
  <2> SUFFICES ASSUME NEW e \in EnvNames, Exists(e)' PROVE HasPromoted(envs[e].plan_id)'
      BY DEF OwnersHavePromoted
  <2>1. CASE e = name
      BY <1>2, <1>3, <1>4, <2>1 DEF HasPromoted
  <2>2. CASE e # name
    <3>1. Exists(e) /\ envs'[e] = envs[e]  BY <1>2, <2>2 DEF Exists
    <3>2. envs[e].plan_id \in PlanIds /\ HasPromoted(envs[e].plan_id)
        BY <3>1 DEF Exists, TypeInv, TypeOK, StoreTypeOK, Environment, UpdateInv, OwnersHavePromoted
    <3> QED  BY <1>6, <3>1, <3>2 DEF HasPromoted
  <2> QED  BY <2>1, <2>2
<1>8. ASSUME NEW q \in PlanIds, plans'[q].pc \in Before PROVE ComparedRight(q)'
  <2> DEFINE previous == plans[q].environment.previous_plan_id
  <2>1. q # p /\ plans'[q] = plans[q] /\ plans[q].pc \in Before  BY <1>4, <1>5, <1>8
  <2>2. ComparedRight(q)  BY <2>1 DEF UpdateInv, PlansCompared
  <2>3. plans[q].environment \in Environment /\ plans[q].name \in EnvNames
      BY <2>1 DEF TypeInv, TypeOK, PlansHaveEnvironments, Before, Plan
  <2>4. previous # NoPlan => previous \in PlanIds  BY <2>3 DEF Environment
  <2>5. previous # NoPlan => previous # p /\ HasPromoted(previous)'
      BY <1>6, <2>1, <2>2, <2>4 DEF ComparedRight, HasPromoted
  <2>6. CASE plans[q].name = name
      BY <1>2, <1>3, <2>1, <2>2, <2>5, <2>6 DEF ComparedRight, HasPromoted
  <2>7. CASE plans[q].name # name
      BY <1>2, <2>1, <2>2, <2>3, <2>5, <2>7 DEF ComparedRight, Exists, HasPromoted
  <2> QED  BY <2>6, <2>7
<1> QED  BY <1>7, <1>8 DEF UpdateInv, PlansCompared

LEMMA ApplyPlanKeepsUpdateInv ==
    ASSUME TypeInv, UpdateInv, NEW p \in PlanIds, ApplyPlan(p) \/ PlanStops(p) \/ StartPlan(p)
    PROVE  UpdateInv'
<1>0. plans[p] \in Plan /\ plans \in [PlanIds -> Plan]  BY DEF TypeInv, TypeOK
<1>1. CASE CreateSnapshotRecords(p)
  <2>1. \A q \in PlanIds : GoesOn(q)
      BY <1>1, MovingOn DEF CreateSnapshotRecords, Step, Before, HasPromoted
  <2> QED  BY <1>1, <2>1, QuietSteps, QuietStores DEF CreateSnapshotRecords, PushSnapshots
<1>2. CASE PhysicalLayerUpdate(p)
  <2>1. \A q \in PlanIds : GoesOn(q)
      BY <1>2, MovingOn DEF PhysicalLayerUpdate, Step, Stop, Before, HasPromoted
  <2> QED  BY <1>2, <2>1, QuietSteps, QuietStores DEF PhysicalLayerUpdate, storeVars
<1>3. CASE EnvironmentRecordUpdate(p)
  <2>1. CASE Promotes(p)  BY <2>1, PromotingKeepsUpdateInv
  <2>2. CASE Stop(p) /\ UNCHANGED storeVars
    <3>1. \A q \in PlanIds : GoesOn(q)
        BY <2>2, MovingOn DEF Stop, Before, HasPromoted
    <3> QED  BY <2>2, <3>1, QuietSteps, QuietStores DEF storeVars
  <2> QED  BY <1>3, <2>1, <2>2 DEF EnvironmentRecordUpdate, Promotes, Step
<1>4. CASE Unpause(p)
  <2>1. \A q \in PlanIds : GoesOn(q)
      BY <1>4, MovingOn DEF Unpause, Step, Before, HasPromoted
  <2> QED  BY <1>4, <2>1, QuietSteps, QuietStores DEF Unpause, UnpauseSnapshots
<1>5. ASSUME NEW s \in SnapshotIds, PromoteView(p, s) \/ DemoteView(p, s)
      PROVE  UpdateInv'
  <2>1. plans[p].pc = "views"  BY <1>5 DEF PromoteView, DemoteView
  <2>2. \A q \in PlanIds : GoesOn(q)
    <3>1. CASE Stop(p)
        BY <2>1, <3>1, MovingOn DEF Stop, Before, HasPromoted
    <3>2. CASE \/ plans' = [plans EXCEPT ![p].promoted_snapshots = @ \ {s}]
               \/ plans' = [plans EXCEPT ![p].demoted_snapshots = @ \ {s}]
      <4>1. plans'[p].pc = "views" /\ \A q \in PlanIds \ {p} : plans'[q] = plans[q]
          BY <1>0, <2>1, <3>2 DEF Plan
      <4> QED  BY <2>1, <4>1 DEF GoesOn, HasPromoted, Before
    <3> QED  BY <1>5, <3>1, <3>2 DEF PromoteView, DemoteView
  <2> QED  BY <1>5, <2>2, QuietSteps, QuietStores DEF PromoteView, DemoteView, storeVars
<1>6. CASE FinalizeEnvironment(p)
  <2>1. \A q \in PlanIds : GoesOn(q)
      BY <1>6, MovingOn DEF FinalizeEnvironment, Step, Stop, Before, HasPromoted
  <2>2. UNCHANGED envs \/ \E e \in EnvNames : Redates(e)
      BY <1>0, <1>6 DEF FinalizeEnvironment, Redates, storeVars, Plan
  <2> QED  BY <2>1, <2>2, QuietSteps, QuietStores
<1>7. CASE PlanStops(p)
  <2>1. \A q \in PlanIds : GoesOn(q)
      BY <1>7, MovingOn DEF PlanStops, Stop, Before, HasPromoted
  <2> QED  BY <1>7, <2>1, QuietSteps, QuietStores DEF PlanStops, storeVars
<1>8. CASE StartPlan(p)
  <2>1. plans[p].environment \in Environment
      BY <1>8 DEF StartPlan, TypeInv, PlansHaveEnvironments, Active
  <2>2. /\ plans[p].pc = "built"
        /\ plans'[p].pc = "push"
        /\ plans'[p].name = plans[p].name
        /\ plans'[p].environment.plan_id = plans[p].environment.plan_id
        /\ plans'[p].environment.previous_plan_id = plans[p].environment.previous_plan_id
        /\ plans'[p].environment_snapshots = plans[p].environment_snapshots
        /\ \A q \in PlanIds \ {p} : plans'[q] = plans[q]
      BY <1>0, <1>8, <2>1 DEF StartPlan, Plan, Environment
  <2>3. \A q \in PlanIds : GoesOn(q)
      BY <2>2 DEF GoesOn, HasPromoted, Before
  <2> QED  BY <1>8, <2>3, QuietSteps, QuietStores DEF StartPlan, storeVars
<1> QED  BY <1>1, <1>2, <1>3, <1>4, <1>5, <1>6, <1>7, <1>8 DEF ApplyPlan

LEMMA UpdateInvIsInductive == TypeInv /\ UpdateInv /\ [Next]_vars => UpdateInv'
<1> SUFFICES ASSUME TypeInv, UpdateInv, [Next]_vars PROVE UpdateInv'  OBVIOUS
<1>1. CASE \E p \in PlanIds, r \in Requests : BuildPlan(p, r)
    BY <1>1, BuildPlanCompares
<1>2. CASE \E p \in PlanIds : StartPlan(p) \/ ApplyPlan(p) \/ PlanStops(p)
    BY <1>2, ApplyPlanKeepsUpdateInv
<1>3. CASE /\ UNCHANGED plans
           /\ \/ UNCHANGED envs
              \/ DeleteExpiredEnvironments(janitor.current_ts)
              \/ \E e \in EnvNames : Redates(e)
  <2>1. \A q \in PlanIds : GoesOn(q)  BY <1>3 DEF GoesOn, HasPromoted
  <2> QED  BY <1>3, <2>1, QuietSteps, QuietStores
<1>4. CASE (\E ignoreTtl \in IgnoreTtl : RunJanitor(ignoreTtl)) \/ JanitorStops
    BY <1>3, <1>4 DEF RunJanitor, JanitorStops, storeVars
<1>5. CASE JanitorWorks
    BY <1>3, <1>5 DEF JanitorWorks, CleanupExpiredViews, DeleteEnvironments, GetExpiredBatch,
                      DropTables, DeleteExpired, DeleteExpiredSnapshots, storeVars
<1>6. CASE \E e \in EnvNames : Invalidate(e)
    BY <1>3, <1>6 DEF Invalidate, Redates
<1>7. CASE TimePasses \/ UNCHANGED vars
    BY <1>3, <1>7 DEF TimePasses, Tick, vars, storeVars
<1> QED  BY <1>1, <1>2, <1>4, <1>5, <1>6, <1>7 DEF Next

\* A plan that replaces a live environment was compared with exactly the snapshots it
\* replaces, so that no other plan's update is undone unseen.
THEOREM UpdatesAreNotLost == Spec => NoLostUpdate
<1> DEFINE Safe ==
        \A p \in PlanIds, e \in EnvNames :
            Replaces(p, e) /\ Live(e) => plans[p].environment_snapshots = envs[e].snapshots
<1>1. Init => UpdateInv
  <2> SUFFICES ASSUME Init PROVE UpdateInv  OBVIOUS
  <2>1. \A p \in PlanIds : plans[p].pc = "idle"  BY DEF Init, NoPlanYet
  <2> QED
      BY <2>1 DEF Init, StoreInit, Exists, UpdateInv, OwnersHavePromoted, PlansCompared, Before
<1>2. TypeInv /\ UpdateInv /\ [Next]_vars => [Safe]_vars
  <2> SUFFICES ASSUME TypeInv, UpdateInv, [Next]_vars,
                      NEW p \in PlanIds, NEW e \in EnvNames, Replaces(p, e), Live(e)
               PROVE  plans[p].environment_snapshots = envs[e].snapshots
      OBVIOUS
  <2>1. PICK q \in PlanIds : Promotes(q)
    <3>1. ~OwnersStay  BY DEF OwnersStay, Replaces, Exists
    <3> QED
        BY <3>1, QuietStores, StoreSteps DEF Pushes, DeleteExpiredSnapshots
  <2> DEFINE name == plans[q].name
             environment == plans[q].environment
  <2>2. name \in EnvNames /\ environment \in Environment
      BY <2>1 DEF Promotes, TypeInv, TypeOK, PlansHaveEnvironments, Plan, Active
  <2>3. envs'[name] = environment /\ \A n \in EnvNames \ {name} : envs'[n] = envs[n]
      BY <2>1, <2>2 DEF Promotes, Promote, TypeInv, TypeOK, StoreTypeOK
  <2>4. ComparedRight(q)
      BY <2>1 DEF Promotes, UpdateInv, PlansCompared, Before
  <2>5. e = name  BY <2>3 DEF Replaces, Exists, Live
  <2>6. q = p  BY <2>3, <2>4, <2>5 DEF Replaces, ComparedRight
  <2>7. environment.previous_plan_id = envs[e].plan_id
      BY <2>1, <2>5 DEF Promotes, Promote, ConflictingPlan, Live
  <2>8. envs[e].plan_id # NoPlan
      BY StateSyncConstants DEF Live, Exists, TypeInv, TypeOK, StoreTypeOK, Environment
  <2> QED  BY <2>4, <2>5, <2>6, <2>7, <2>8 DEF ComparedRight, Live
<1> QED  BY <1>1, <1>2, UpdateInvIsInductive, Typing, PTL DEF Spec, NoLostUpdate
-----------------------------------------------------------------------------
(***************************************************************************)
(* What is left behind when the work on an environment is finished: its    *)
(* views, their tables and what is unpaused, for any plans that are        *)
(* applied one at a time to an environment, each of which may stop at any  *)
(* point, with the janitor in between.                                     *)
(***************************************************************************)
\* Plans of an environment wait for each other, and for the janitor, which waits for them.
Exclusive == "plans" \notin Overlap /\ "janitor" \notin Overlap

(***************************************************************************)
(* The invariant.                                                          *)
(***************************************************************************)
NamesDiffer(S) == \A s, t \in S : Name[s] = Name[t] => s = t

\* The view of a snapshot is right, and what it selects from exists.
Shown(e, s) ==
    LET table == views[e][Name[s]]
    IN  /\ table \in RightTables(e, s)
        /\ table = ProdTable(s) \/ PreviewsNest => table \in tables

\* Of the models of the snapshots, exactly these are unpaused.
Unpaused(S) == unpaused \cap SameName(S) = S

EnvRight(e) ==
    /\ Exists(e) =>
        /\ envs[e].promoted \subseteq envs[e].snapshots
        /\ NamesDiffer(envs[e].promoted)
        /\ e = Prod => envs[e].expiration_ts = Never
    /\ Finalized(e) =>
        /\ \A s \in envs[e].promoted : Shown(e, s)
        /\ e = Prod => Unpaused(envs[e].promoted)

\* What a plan has not got to do is as it should be already.
AlreadyRight(p) ==
    LET plan == plans[p]
        promoted == plan.environment.promoted
        kept == promoted \ plan.promoted_snapshots
    IN  /\ {s \in SnapshotIds : IsDeployable(p, s)} \subseteq plan.representative
        /\ plan.promoted_snapshots \subseteq promoted
        /\ plan.name = Prod => plan.environment.expiration_ts = Never
        /\ \A s \in plan.demoted_snapshots, t \in promoted : Name[s] # Name[t]
        /\ \A s \in kept : Shown(plan.name, s)
        /\ plan.name = Prod => Unpaused(IF plan.pc = "views" THEN promoted ELSE kept)

\* The record of the environment is the one the plan has written.
RecordWritten(p) ==
    LET name == plans[p].name
    IN  /\ Exists(name)
        /\ ~envs[name].finalized
        /\ envs[name].promoted = plans[p].environment.promoted

PlanRight(p) ==
    LET plan == plans[p]
    IN  plan.pc \in Active =>
            /\ ~plan.environment.finalized
            /\ plan.environment.promoted \subseteq plan.environment.snapshots
            /\ NamesDiffer(plan.environment.promoted)
            /\ plan.pc # "built" => AlreadyRight(p)
            /\ plan.pc \in {"unpause", "views"} => RecordWritten(p)
            /\ plan.pc = "unpause" => plan.name = Prod /\ plan.environment.promoted \subseteq rows

Alone ==
    /\ \A p, q \in PlanIds :
        plans[p].pc \in Active /\ plans[q].pc \in Active /\ plans[p].name = plans[q].name => p = q
    /\ janitor.pc # "idle" => \A p \in PlanIds : plans[p].pc \notin Active

\* The tables the janitor is about to drop are no environment's.
TasksUnused ==
    \A e \in EnvNames : \A s \in SnapshotsOf(e) :
        /\ ProdTable(s) \notin janitor.cleanup_tasks
        /\ PreviewsNest => DevTable(s) \notin janitor.cleanup_tasks

JanitorRight ==
    /\ janitor.pc = "views" => \A e \in janitor.expired_environments : ~Live(e)
    /\ janitor.pc = "drop" => TasksUnused

FinishedInv ==
    /\ Alone
    /\ JanitorRight
    /\ \A e \in EnvNames : EnvRight(e)
    /\ \A p \in PlanIds : PlanRight(p)
-----------------------------------------------------------------------------
(***************************************************************************)
(* What stays right if little happens to it.                               *)
(***************************************************************************)
TablesStay(s) ==
    /\ ProdTable(s) \in tables => ProdTable(s) \in tables'
    /\ PreviewsNest /\ DevTable(s) \in tables => DevTable(s) \in tables'

EnvStays(e) ==
    /\ Exists(e)' =>
        /\ Exists(e)
        /\ envs'[e].promoted = envs[e].promoted
        /\ envs'[e].snapshots = envs[e].snapshots
        /\ e = Prod => envs'[e].expiration_ts = envs[e].expiration_ts
    /\ Finalized(e)' =>
        /\ Finalized(e)
        /\ views'[e] = views[e]
        /\ \A s \in envs[e].promoted : TablesStay(s)
        /\ e = Prod /\ Unpaused(envs[e].promoted) => Unpaused(envs[e].promoted)'

LEMMA EnvStaysRight ==
    ASSUME NEW e \in EnvNames, EnvRight(e), EnvStays(e)
    PROVE  EnvRight(e)'
<1>1. Finalized(e)' => \A s \in envs'[e].promoted : Shown(e, s)'
  <2> SUFFICES ASSUME Finalized(e)', NEW s \in envs'[e].promoted PROVE Shown(e, s)'
      OBVIOUS
  <2>1. Exists(e)'  BY DEF Finalized, Live
  <2>2. /\ Finalized(e) /\ views'[e] = views[e]
        /\ s \in envs[e].promoted /\ TablesStay(s) /\ Shown(e, s)
      BY <2>1 DEF EnvStays, EnvRight
  <2> QED
      BY <2>2 DEF Shown, TablesStay, RightTables
<1>2. Finalized(e)' /\ e = Prod => Unpaused(envs[e].promoted)'
    BY DEF EnvStays, EnvRight
<1>3. Exists(e)' =>
        /\ envs'[e].promoted \subseteq envs'[e].snapshots
        /\ NamesDiffer(envs'[e].promoted)
        /\ e = Prod => envs'[e].expiration_ts = Never
    BY DEF EnvStays, EnvRight
<1> QED  BY <1>1, <1>2, <1>3 DEF EnvRight, NamesDiffer

SamePlan(p) ==
    /\ plans'[p].name = plans[p].name
    /\ plans'[p].environment = plans[p].environment
    /\ plans'[p].representative = plans[p].representative
    /\ plans'[p].promoted_snapshots = plans[p].promoted_snapshots
    /\ plans'[p].demoted_snapshots = plans[p].demoted_snapshots

PlanStays(p) ==
    /\ plans[p].pc \in Active
    /\ SamePlan(p)
    /\ \/ plans'[p].pc = plans[p].pc
       \/ plans'[p].pc \in {"create", "promote"} /\ plans[p].pc \in {"push", "create"}
    /\ views'[plans[p].name] = views[plans[p].name]
    /\ tables \subseteq tables'
    /\ rows \subseteq rows'
    /\ plans[p].name = Prod => unpaused' = unpaused
    /\ RecordWritten(p) => RecordWritten(p)'

LEMMA ShownStays ==
    ASSUME NEW e, NEW s, views'[e] = views[e], tables \subseteq tables', Shown(e, s)
    PROVE  Shown(e, s)'
BY DEF Shown, RightTables

LEMMA PlanStaysRight ==
    ASSUME NEW p \in PlanIds, PlanRight(p), plans'[p].pc \in Active => PlanStays(p)
    PROVE  PlanRight(p)'
<1> SUFFICES ASSUME plans'[p].pc \in Active PROVE PlanRight(p)'  BY DEF PlanRight
<1>1. plans[p].pc \in Active /\ SamePlan(p)  BY DEF PlanStays
<1>2. plans'[p].pc # "built" => AlreadyRight(p)'
  <2> SUFFICES ASSUME plans'[p].pc # "built" PROVE AlreadyRight(p)'  OBVIOUS
  <2>1. AlreadyRight(p)  BY <1>1 DEF PlanStays, PlanRight
  <2>2. \A s \in plans[p].environment.promoted \ plans[p].promoted_snapshots :
            Shown(plans[p].name, s)'
    <3>1. PICK name : name = plans[p].name  OBVIOUS
    <3>2. name = plans'[p].name  BY <1>1, <3>1 DEF SamePlan
    <3>3. \A s \in plans[p].environment.promoted \ plans[p].promoted_snapshots : Shown(name, s)
        BY <2>1, <3>1 DEF AlreadyRight
    <3>4. \A s \in plans[p].environment.promoted \ plans[p].promoted_snapshots : Shown(name, s)'
        BY <3>1, <3>3, ShownStays DEF PlanStays
    <3> QED  BY <3>2, <3>4
  <2>3. plans'[p].pc = "views" <=> plans[p].pc = "views"  BY DEF PlanStays
  <2>4. plans[p].name = Prod => unpaused' = unpaused  BY DEF PlanStays
  <2>5. \A s \in SnapshotIds : IsDeployable(p, s)' <=> IsDeployable(p, s)
      BY <1>1 DEF SamePlan, IsDeployable
  <2>6. plans[p].name = Prod =>
            Unpaused(IF plans[p].pc = "views" THEN plans[p].environment.promoted
                     ELSE plans[p].environment.promoted \ plans[p].promoted_snapshots)'
    <3> DEFINE S == IF plans[p].pc = "views" THEN plans[p].environment.promoted
                     ELSE plans[p].environment.promoted \ plans[p].promoted_snapshots
               T == IF plans'[p].pc = "views" THEN plans'[p].environment.promoted
                     ELSE plans'[p].environment.promoted \ plans'[p].promoted_snapshots
    <3>1. S = T  BY <1>1, <2>3 DEF SamePlan
    <3>2. S' = T  OBVIOUS
    <3>3. plans[p].name = Prod => Unpaused(S)  BY <2>1 DEF AlreadyRight
    <3> HIDE DEF S, T
    <3>4. plans[p].name = Prod => unpaused' \cap SameName(S) = S  BY <2>4, <3>3 DEF Unpaused
    <3>5. plans[p].name = Prod => unpaused' \cap SameName(S') = S'
        BY <3>1, <3>2, <3>4
    <3> QED  BY <3>5 DEF Unpaused, SameName, S
  <2> QED  BY <1>1, <2>1, <2>2, <2>3, <2>5, <2>6 DEF AlreadyRight, SamePlan
<1>3. plans'[p].pc \in {"unpause", "views"} => RecordWritten(p)'
    BY DEF PlanStays, PlanRight
<1>4. plans'[p].pc = "unpause" =>
        plans'[p].name = Prod /\ plans'[p].environment.promoted \subseteq rows'
    BY <1>1 DEF PlanStays, PlanRight, SamePlan
<1> QED  BY <1>1, <1>2, <1>3, <1>4 DEF PlanRight, SamePlan, NamesDiffer
(***************************************************************************)
(* A plan works on the views of its own environment, and the janitor not   *)
(* at all meanwhile.                                                       *)
(***************************************************************************)
OthersStay(p, name) ==
    /\ janitor' = janitor /\ clock' = clock
    /\ plans'[p].name = name
    /\ \A q \in PlanIds \ {p} : plans'[q] = plans[q]
    /\ \A e \in EnvNames \ {name} : envs'[e] = envs[e] /\ views'[e] = views[e]
    /\ tables \subseteq tables'
    /\ rows \subseteq rows'
    /\ name = Prod \/ unpaused' = unpaused

LEMMA JanitorIsIdle ==
    ASSUME TypeInv, FinishedInv, NEW p \in PlanIds, plans[p].pc \in Active
    PROVE  janitor.pc = "idle"
BY DEF FinishedInv, Alone

LEMMA OthersStayRight ==
    ASSUME TypeInv, FinishedInv, NEW p \in PlanIds, NEW name \in EnvNames,
           plans[p].name = name, plans[p].pc \in Active, OthersStay(p, name),
           EnvRight(name)', PlanRight(p)'
    PROVE  FinishedInv'
<1>1. janitor.pc = "idle"  BY JanitorIsIdle
<1>2. JanitorRight'  BY <1>1 DEF OthersStay, JanitorRight
<1>3. Alone'
  <2>1. \A q \in PlanIds : plans'[q].pc \in Active =>
            plans[q].pc \in Active /\ plans'[q].name = plans[q].name
      BY DEF OthersStay
  <2> QED  BY <1>1, <2>1 DEF FinishedInv, Alone, OthersStay
<1>4. ASSUME NEW e \in EnvNames PROVE EnvRight(e)'
  <2>1. CASE e = name  BY <2>1
  <2>2. CASE e # name
    <3>1. envs'[e] = envs[e] /\ views'[e] = views[e] /\ clock' = clock
        BY <2>2 DEF OthersStay
    <3>2. (Exists(e)' <=> Exists(e)) /\ (Finalized(e)' <=> Finalized(e))
        BY <3>1 DEF Exists, Finalized, Live, Expired
    <3>3. \A s \in envs[e].promoted : TablesStay(s)
        BY DEF OthersStay, TablesStay
    <3>4. e = Prod => unpaused' = unpaused  BY <2>2 DEF OthersStay
    <3>5. EnvStays(e)  BY <3>1, <3>2, <3>3, <3>4 DEF EnvStays, Unpaused, SameName
    <3> QED  BY <3>5, EnvStaysRight DEF FinishedInv
  <2> QED  BY <2>1, <2>2
<1>5. ASSUME NEW q \in PlanIds PROVE PlanRight(q)'
  <2>1. CASE q = p  BY <2>1
  <2>2. CASE q # p
    <3>1. plans'[q] = plans[q]  BY <2>2 DEF OthersStay
    <3>2. SUFFICES ASSUME plans[q].pc \in Active PROVE PlanRight(q)'
        BY <3>1 DEF PlanRight
    <3>3. plans[q].name # name  BY <2>2, <3>2 DEF FinishedInv, Alone
    <3>4. plans[q].name \in EnvNames  BY DEF TypeInv, TypeOK, Plan
    <3>5. envs'[plans[q].name] = envs[plans[q].name] /\ views'[plans[q].name] = views[plans[q].name]
        BY <3>3, <3>4 DEF OthersStay
    <3>6. PlanStays(q)
        BY <3>1, <3>2, <3>3, <3>5 DEF PlanStays, SamePlan, OthersStay, RecordWritten, Exists
    <3> QED  BY <3>6, PlanStaysRight DEF FinishedInv
  <2> QED  BY <2>1, <2>2
<1> QED  BY <1>2, <1>3, <1>4, <1>5 DEF FinishedInv

\* A plan that moves on to another stage, or ends, and does nothing to the records and
\* views of its environment.
LEMMA PlanMovesOn ==
    ASSUME TypeInv, FinishedInv, NEW p \in PlanIds, plans[p].pc \in Active, NEW pc,
           plans' = [plans EXCEPT ![p].pc = pc],
           \/ pc \notin Active
           \/ pc \in {"create", "promote"} /\ plans[p].pc \in {"push", "create"},
           UNCHANGED <<janitor, clock, envs, views, unpaused>>,
           tables \subseteq tables', rows \subseteq rows'
    PROVE  FinishedInv'
<1>1. PICK name \in EnvNames : plans[p].name = name  BY DEF TypeInv, TypeOK, Plan
<1>2. plans'[p].pc = pc /\ SamePlan(p) /\ \A q \in PlanIds \ {p} : plans'[q] = plans[q]
    BY DEF TypeInv, TypeOK, Plan, SamePlan
<1>3. OthersStay(p, name)  BY <1>1, <1>2 DEF OthersStay, SamePlan
<1>4. EnvRight(name)'
  <2>1. EnvStays(name)
      BY DEF EnvStays, Exists, Finalized, Live, Expired, TablesStay, Unpaused, SameName
  <2> QED  BY <2>1, EnvStaysRight DEF FinishedInv
<1>5. PlanRight(p)'
  <2>1. pc \in Active => PlanStays(p)
      BY <1>2 DEF PlanStays, RecordWritten, Exists, SamePlan
  <2> QED  BY <1>2, <2>1, PlanStaysRight DEF FinishedInv
<1> QED  BY <1>1, <1>3, <1>4, <1>5, OthersStayRight
-----------------------------------------------------------------------------
(***************************************************************************)
(* The steps of a plan.                                                    *)
(***************************************************************************)
LEMMA BuildPlanRight ==
    ASSUME Exclusive, TypeInv, FinishedInv, NEW p \in PlanIds, NEW r \in Requests, BuildPlan(p, r)
    PROVE  FinishedInv'
<1>1. /\ plans[p].pc = "idle" /\ MayBuild(p, r.env)
      /\ UNCHANGED <<clock, storeVars, janitor, tables, views>>
      /\ plans'[p].pc = "built" /\ plans'[p].name = r.env
      /\ plans'[p].environment.promoted = r.promoted
      /\ plans'[p].environment.snapshots = r.snapshots
      /\ plans'[p].environment.finalized = FALSE
      /\ \A q \in PlanIds \ {p} : plans'[q] = plans[q]
    BY DEF BuildPlan, TypeInv, TypeOK, NoPlanYet
<1>2. janitor.pc = "idle"
    BY <1>1 DEF MayBuild, Exclusive
<1>3. \A q \in PlanIds \ {p} : plans[q].pc \in Active => plans[q].name # r.env
    BY <1>1 DEF MayBuild, Exclusive
<1>4. Alone'
    BY <1>1, <1>2, <1>3 DEF FinishedInv, Alone
<1>5. JanitorRight'  BY <1>1, <1>2 DEF JanitorRight
<1>6. ASSUME NEW e \in EnvNames PROVE EnvRight(e)'
  <2>1. EnvStays(e)
      BY <1>1 DEF EnvStays, storeVars, Exists, Finalized, Live, Expired, TablesStay, Unpaused, SameName
  <2> QED  BY <2>1, EnvStaysRight DEF FinishedInv
<1>7. ASSUME NEW q \in PlanIds PROVE PlanRight(q)'
  <2>1. CASE q = p
      BY <1>1, <2>1, LifecycleConstants DEF PlanRight, NamesDiffer
  <2>2. CASE q # p
    <3>1. plans'[q].pc \in Active => PlanStays(q)
        BY <1>1, <2>2 DEF PlanStays, SamePlan, storeVars, RecordWritten, Exists
    <3> QED  BY <3>1, PlanStaysRight DEF FinishedInv
  <2> QED  BY <2>1, <2>2
<1> QED  BY <1>4, <1>5, <1>6, <1>7 DEF FinishedInv

LEMMA StartPlanRight ==
    ASSUME Exclusive, TypeInv, FinishedInv, NEW p \in PlanIds, StartPlan(p)
    PROVE  FinishedInv'
<1>1. PICK name \in EnvNames : plans[p].name = name  BY DEF TypeInv, TypeOK, Plan
<1> DEFINE environment == plans[p].environment
           promoted == environment.promoted
<1>2. plans[p].pc = "built" /\ UNCHANGED <<clock, storeVars, janitor, tables, views>>
    BY DEF StartPlan
<1>3. environment \in Environment
    BY <1>2 DEF TypeInv, PlansHaveEnvironments, Active
<1>4. /\ plans'[p].pc = "push" /\ plans'[p].name = name
      /\ plans'[p].environment.promoted = promoted
      /\ plans'[p].environment.snapshots = environment.snapshots
      /\ plans'[p].environment.finalized = environment.finalized
      /\ name = Prod => plans'[p].environment.expiration_ts = Never
      /\ plans'[p].representative = {s \in SnapshotIds : IsDeployable(p, s) \/ s \in unpaused}
      /\ plans'[p].promoted_snapshots = SnapshotsToPromote(name, environment)
      /\ plans'[p].demoted_snapshots = SnapshotsToDemote(name, environment)
      /\ \A q \in PlanIds \ {p} : plans'[q] = plans[q]
    BY <1>1, <1>3 DEF StartPlan, TypeInv, TypeOK, Plan, Environment
<1>5. /\ ~environment.finalized
      /\ promoted \subseteq environment.snapshots
      /\ NamesDiffer(promoted)
    BY <1>2 DEF FinishedInv, PlanRight, Active
<1> DEFINE kept == promoted \ SnapshotsToPromote(name, environment)
<1>6. kept # {} =>
        /\ name = Prod
        /\ Finalized(name)
        /\ kept \subseteq envs[name].promoted
    BY DEF SnapshotsToPromote, CanPartiallyPromote, Finalized, Live
<1>7. \A s \in kept : Shown(name, s)'
  <2>1. \A s \in kept : Shown(name, s)  BY <1>6 DEF FinishedInv, EnvRight
  <2> QED  BY <1>2, <2>1, ShownStays
<1>8. name = Prod => unpaused' \cap SameName(kept) = kept
  <2>1. CASE kept = {}
      BY <2>1 DEF SameName
  <2>2. CASE kept # {}
    <3>1. Unpaused(envs[name].promoted) /\ NamesDiffer(envs[name].promoted)
        BY <1>6, <2>2 DEF FinishedInv, EnvRight, Finalized, Live
    <3>2. unpaused \subseteq SnapshotIds /\ unpaused' = unpaused
        BY <1>2 DEF TypeInv, TypeOK, StoreTypeOK, storeVars
    <3> HIDE DEF kept
    <3> QED  BY <1>6, <2>2, <3>1, <3>2 DEF Unpaused, SameName, NamesDiffer
  <2> QED  BY <2>1, <2>2
<1>9. \A s \in SnapshotsToDemote(name, environment), t \in promoted : Name[s] # Name[t]
    BY DEF SnapshotsToDemote
<1>10. AlreadyRight(p)'
  <2>1. SnapshotsToPromote(name, environment) \subseteq promoted  BY DEF SnapshotsToPromote
  <2>2. plans'[p].environment.promoted \ plans'[p].promoted_snapshots = kept
      BY <1>4
  <2>3. {s \in SnapshotIds : IsDeployable(p, s)'} \subseteq plans'[p].representative
      BY <1>1, <1>4 DEF IsDeployable
  <2>4. \A s \in plans'[p].environment.promoted \ plans'[p].promoted_snapshots :
            Shown(plans[p].name, s)'
      BY <1>4, <1>7, <2>2
  <2>5. plans'[p].name = Prod =>
            Unpaused(plans[p].environment.promoted \ plans[p].promoted_snapshots)'
      BY <1>4, <1>8, <2>2 DEF Unpaused, SameName
  <2> HIDE DEF kept
  <2> QED  BY <1>4, <1>9, <2>1, <2>3, <2>4, <2>5 DEF AlreadyRight
<1>11. PlanRight(p)'  BY <1>4, <1>5, <1>10 DEF PlanRight
<1>12. EnvRight(name)'
  <2>1. EnvStays(name)
      BY <1>2 DEF EnvStays, storeVars, Exists, Finalized, Live, Expired, TablesStay, Unpaused, SameName
  <2> QED  BY <2>1, EnvStaysRight DEF FinishedInv
<1>13. OthersStay(p, name)  BY <1>2, <1>4 DEF OthersStay, storeVars
<1> QED  BY <1>1, <1>2, <1>11, <1>12, <1>13, OthersStayRight DEF Active
LEMMA RecordUpdateRight ==
    ASSUME TypeInv, FinishedInv, NEW p \in PlanIds, EnvironmentRecordUpdate(p)
    PROVE  FinishedInv'
<1>1. PICK name \in EnvNames : plans[p].name = name  BY DEF TypeInv, TypeOK, Plan
<1> DEFINE environment == plans[p].environment
           promoted == environment.promoted
<1>2. plans[p].pc = "promote" /\ UNCHANGED <<clock, janitor, tables, views>>
    BY DEF EnvironmentRecordUpdate
<1>3. CASE Stop(p) /\ UNCHANGED storeVars
    BY <1>2, <1>3, PlanMovesOn DEF Stop, storeVars, Active
<1>4. CASE Promote(name, environment) /\ Step(p, "promote", AfterRecordUpdate(p))
  <2>1. environment \in Environment
      BY <1>2 DEF TypeInv, PlansHaveEnvironments, Active
  <2>2. /\ ~environment.finalized
        /\ promoted \subseteq environment.snapshots
        /\ NamesDiffer(promoted)
        /\ AlreadyRight(p)
      BY <1>2 DEF FinishedInv, PlanRight, Active
  <2>3. /\ envs'[name] = environment
        /\ \A e \in EnvNames \ {name} : envs'[e] = envs[e]
        /\ rows' = rows /\ unpaused' = unpaused
        /\ environment.snapshots \subseteq rows
      BY <1>4 DEF Promote, MissingSnapshots, TypeInv, TypeOK, StoreTypeOK
  <2>4. /\ plans'[p].pc = AfterRecordUpdate(p)
        /\ SamePlan(p)
        /\ \A q \in PlanIds \ {p} : plans'[q] = plans[q]
      BY <1>4 DEF Step, TypeInv, TypeOK, Plan, SamePlan
  <2>5. OthersStay(p, name)  BY <1>1, <1>2, <2>3, <2>4 DEF OthersStay, SamePlan
  <2>6. environment # NoEnv  BY <2>1, StateSyncConstants
  <2>7. EnvRight(name)'
    <3>1. name = Prod => environment.expiration_ts = Never  BY <1>1, <2>2 DEF AlreadyRight
    <3>2. ~Finalized(name)'  BY <2>2, <2>3 DEF Finalized
    <3> QED  BY <2>2, <2>3, <3>1, <3>2 DEF EnvRight
  <2>8. PlanRight(p)'
    <3>1. AlreadyRight(p)'
      <4> DEFINE kept == promoted \ plans[p].promoted_snapshots
      <4>1. \A s \in kept : Shown(name, s)'
        <5>1. \A s \in kept : Shown(name, s)  BY <1>1, <2>2 DEF AlreadyRight
        <5> QED  BY <1>2, <5>1, ShownStays
      <4>2. \A s \in kept : Shown(plans[p].name, s)'
          BY <1>1, <2>4, <4>1 DEF SamePlan
      <4>3. name = Prod => Unpaused(kept)
          BY <1>1, <1>2, <2>2 DEF AlreadyRight
      <4>4. plans'[p].pc = "views" /\ name = Prod => kept = promoted
          BY <1>1, <2>4 DEF AfterRecordUpdate
      <4>5. plans'[p].name = Prod =>
                Unpaused(IF plans[p].pc = "views" THEN plans[p].environment.promoted
                         ELSE plans[p].environment.promoted \ plans[p].promoted_snapshots)'
        <5>1. (IF plans'[p].pc = "views" THEN plans'[p].environment.promoted
               ELSE plans'[p].environment.promoted \ plans'[p].promoted_snapshots)
              = IF plans'[p].pc = "views" THEN promoted ELSE kept
            BY <2>4 DEF SamePlan
        <5>2. plans'[p].name = Prod => (IF plans'[p].pc = "views" THEN promoted ELSE kept) = kept
            BY <1>1, <2>4, <4>4 DEF SamePlan
        <5>3. plans'[p].name = Prod => unpaused' \cap SameName(kept) = kept
            BY <1>1, <2>3, <2>4, <4>3 DEF SamePlan, Unpaused
        <5> HIDE DEF kept
        <5> QED  BY <5>1, <5>2, <5>3 DEF Unpaused, SameName
      <4>6. {s \in SnapshotIds : IsDeployable(p, s)'} \subseteq plans'[p].representative
          BY <2>2, <2>4 DEF AlreadyRight, SamePlan, IsDeployable
      <4>7. \A s \in plans'[p].environment.promoted \ plans'[p].promoted_snapshots :
                Shown(plans[p].name, s)'
          BY <2>4, <4>2 DEF SamePlan
      <4>8. /\ plans'[p].promoted_snapshots \subseteq plans'[p].environment.promoted
            /\ plans'[p].name = Prod => plans'[p].environment.expiration_ts = Never
            /\ \A s \in plans'[p].demoted_snapshots, t \in plans'[p].environment.promoted :
                    Name[s] # Name[t]
          BY <2>2, <2>4 DEF AlreadyRight, SamePlan
      <4> QED  BY <4>5, <4>6, <4>7, <4>8 DEF AlreadyRight
    <3>2. RecordWritten(p)'
        BY <1>1, <2>2, <2>3, <2>4, <2>6 DEF RecordWritten, SamePlan, Exists
    <3>3. plans'[p].pc = "unpause" => name = Prod
        BY <1>1, <2>4 DEF AfterRecordUpdate
    <3>4. promoted \subseteq rows'  BY <2>2, <2>3
    <3> QED  BY <1>1, <2>2, <2>4, <3>1, <3>2, <3>3, <3>4 DEF PlanRight, SamePlan
  <2> QED  BY <1>1, <1>2, <2>5, <2>7, <2>8, OthersStayRight DEF Active
<1> QED  BY <1>1, <1>3, <1>4 DEF EnvironmentRecordUpdate

LEMMA UnpauseRight ==
    ASSUME TypeInv, FinishedInv, NEW p \in PlanIds, Unpause(p)
    PROVE  FinishedInv'
<1> DEFINE promoted == plans[p].environment.promoted
           todo == plans[p].promoted_snapshots
<1>1. /\ plans[p].pc = "unpause" /\ UNCHANGED <<clock, janitor, tables, views, rows, envs>>
      /\ unpaused' = (unpaused \ SameName(todo)) \cup (todo \cap rows)
    BY DEF Unpause, Step, UnpauseSnapshots
<1>2. /\ AlreadyRight(p) /\ RecordWritten(p)
      /\ NamesDiffer(promoted)
      /\ plans[p].name = Prod
      /\ promoted \subseteq rows
    BY <1>1 DEF FinishedInv, PlanRight, Active
<1>3. plans'[p].pc = "views" /\ SamePlan(p) /\ \A q \in PlanIds \ {p} : plans'[q] = plans[q]
    BY DEF Unpause, Step, TypeInv, TypeOK, Plan, SamePlan
<1>4. OthersStay(p, Prod)  BY <1>1, <1>2, <1>3 DEF OthersStay, SamePlan
<1>5. EnvRight(Prod)'
  <2>1. ~Finalized(Prod)'  BY <1>1, <1>2 DEF RecordWritten, Finalized
  <2>2. EnvStays(Prod)  BY <1>1, <2>1 DEF EnvStays, Exists
  <2> QED  BY <2>2, EnvStaysRight, StateSyncConstants DEF FinishedInv
<1>6. unpaused' \cap SameName(promoted) = promoted
  <2>1. todo \subseteq promoted  BY <1>2 DEF AlreadyRight
  <2>2. Unpaused(promoted \ todo)  BY <1>1, <1>2 DEF AlreadyRight
  <2>3. promoted \subseteq SnapshotIds /\ unpaused \subseteq SnapshotIds
      BY <1>2 DEF TypeInv, TypeOK, StoreTypeOK
  <2>4. ASSUME NEW s \in promoted PROVE s \in unpaused' /\ s \in SameName(promoted)
    <3>1. s \in SameName(promoted)  BY <2>3, <2>4 DEF SameName
    <3>2. CASE s \in todo  BY <1>1, <1>2, <3>1, <3>2
    <3>3. CASE s \notin todo
      <4>1. s \in unpaused  BY <2>2, <2>4, <3>3 DEF Unpaused
      <4>2. s \notin SameName(todo)  BY <1>2, <2>1, <2>4, <3>3 DEF SameName, NamesDiffer
      <4> QED  BY <1>1, <3>1, <4>1, <4>2
    <3> QED  BY <3>2, <3>3
  <2>5. ASSUME NEW s \in unpaused', s \in SameName(promoted) PROVE s \in promoted
    <3>1. CASE s \in todo  BY <2>1, <3>1
    <3>2. CASE s \in unpaused /\ s \notin SameName(todo)
      <4>1. s \in SameName(promoted \ todo)  BY <2>5, <3>2 DEF SameName
      <4> QED  BY <2>2, <3>2, <4>1 DEF Unpaused
    <3> QED  BY <1>1, <2>5, <3>1, <3>2
  <2> QED  BY <2>4, <2>5
<1>7. AlreadyRight(p)'
  <2> DEFINE kept == promoted \ todo
  <2>1. \A s \in kept : Shown(Prod, s)'
    <3>1. \A s \in kept : Shown(Prod, s)  BY <1>2 DEF AlreadyRight
    <3> QED  BY <1>1, <3>1, ShownStays
  <2>2. \A s \in plans'[p].environment.promoted \ plans'[p].promoted_snapshots :
            Shown(plans[p].name, s)'
      BY <1>2, <1>3, <2>1 DEF SamePlan
  <2>3. {s \in SnapshotIds : IsDeployable(p, s)'} \subseteq plans'[p].representative
      BY <1>2, <1>3 DEF AlreadyRight, SamePlan, IsDeployable
  <2>4. plans'[p].name = Prod =>
            Unpaused(IF plans[p].pc = "views" THEN plans[p].environment.promoted
                     ELSE plans[p].environment.promoted \ plans[p].promoted_snapshots)'
      BY <1>3, <1>6 DEF Unpaused, SameName, SamePlan
  <2>5. /\ plans'[p].promoted_snapshots \subseteq plans'[p].environment.promoted
        /\ plans'[p].name = Prod => plans'[p].environment.expiration_ts = Never
        /\ \A s \in plans'[p].demoted_snapshots, t \in plans'[p].environment.promoted :
                Name[s] # Name[t]
      BY <1>2, <1>3 DEF AlreadyRight, SamePlan
  <2> QED  BY <2>2, <2>3, <2>4, <2>5 DEF AlreadyRight
<1>8. PlanRight(p)'
  <2>1. RecordWritten(p)'  BY <1>1, <1>2, <1>3 DEF RecordWritten, SamePlan, Exists
  <2> QED  BY <1>1, <1>3, <1>7, <2>1 DEF PlanRight, SamePlan, FinishedInv, Active
<1> QED  BY <1>1, <1>2, <1>4, <1>5, <1>8, OthersStayRight, StateSyncConstants DEF Active
\* The last stage: the views of an environment that is not finalized change.
LEMMA ViewStageRight ==
    ASSUME TypeInv, FinishedInv, NEW p \in PlanIds, NEW name \in EnvNames,
           plans[p].name = name, plans[p].pc = "views",
           UNCHANGED <<clock, storeVars, janitor, tables>>,
           \A e \in EnvNames \ {name} : views'[e] = views[e],
           \A q \in PlanIds \ {p} : plans'[q] = plans[q],
           NEW todo \in SUBSET plans[p].promoted_snapshots,
           plans'[p].pc = "views",
           plans'[p].name = name,
           plans'[p].environment = plans[p].environment,
           plans'[p].representative = plans[p].representative,
           plans'[p].promoted_snapshots = todo,
           plans'[p].demoted_snapshots \subseteq plans[p].demoted_snapshots,
           \A s \in plans[p].environment.promoted \ todo : Shown(name, s)'
    PROVE  FinishedInv'
<1>1. /\ AlreadyRight(p) /\ RecordWritten(p)
      /\ ~plans[p].environment.finalized
      /\ plans[p].environment.promoted \subseteq plans[p].environment.snapshots
      /\ NamesDiffer(plans[p].environment.promoted)
    BY DEF FinishedInv, PlanRight, Active
<1>2. OthersStay(p, name)  BY DEF OthersStay, storeVars
<1>3. EnvRight(name)'
  <2>1. ~Finalized(name)'  BY <1>1 DEF RecordWritten, Finalized, storeVars
  <2>2. EnvStays(name)  BY <2>1 DEF EnvStays, Exists, storeVars
  <2> QED  BY <2>2, EnvStaysRight DEF FinishedInv
<1>4. AlreadyRight(p)'
  <2>1. \A s \in plans'[p].environment.promoted \ plans'[p].promoted_snapshots :
            Shown(plans[p].name, s)'
      OBVIOUS
  <2>2. {s \in SnapshotIds : IsDeployable(p, s)'} \subseteq plans'[p].representative
      BY <1>1 DEF AlreadyRight, IsDeployable
  <2>3. plans'[p].name = Prod =>
            Unpaused(IF plans[p].pc = "views" THEN plans[p].environment.promoted
                     ELSE plans[p].environment.promoted \ plans[p].promoted_snapshots)'
      BY <1>1 DEF AlreadyRight, Unpaused, SameName, storeVars
  <2>4. /\ plans'[p].promoted_snapshots \subseteq plans'[p].environment.promoted
        /\ plans'[p].name = Prod => plans'[p].environment.expiration_ts = Never
        /\ \A s \in plans'[p].demoted_snapshots, t \in plans'[p].environment.promoted :
                Name[s] # Name[t]
      BY <1>1 DEF AlreadyRight
  <2> QED  BY <2>1, <2>2, <2>3, <2>4 DEF AlreadyRight
<1>5. PlanRight(p)'
  <2>1. RecordWritten(p)'  BY <1>1 DEF RecordWritten, storeVars, Exists
  <2> QED  BY <1>1, <1>4, <2>1 DEF PlanRight
<1> QED  BY <1>2, <1>3, <1>5, OthersStayRight DEF Active

LEMMA PromoteViewRight ==
    ASSUME TypeInv, FinishedInv, NEW p \in PlanIds, NEW s \in SnapshotIds, PromoteView(p, s)
    PROVE  FinishedInv'
<1>1. PICK name \in EnvNames : plans[p].name = name  BY DEF TypeInv, TypeOK, Plan
<1> DEFINE promoted == plans[p].environment.promoted
           todo == plans[p].promoted_snapshots
<1>2. /\ plans[p].pc = "views" /\ s \in todo
      /\ UNCHANGED <<clock, storeVars, janitor, tables>>
    BY DEF PromoteView
<1>3. CASE Stop(p) /\ UNCHANGED views
    BY <1>2, <1>3, PlanMovesOn DEF Stop, storeVars, Active
<1>4. CASE /\ ViewTable(p, s) \in tables
           /\ views' = [views EXCEPT ![name][Name[s]] = ViewTable(p, s)]
           /\ plans' = [plans EXCEPT ![p].promoted_snapshots = @ \ {s}]
  <2>1. AlreadyRight(p) /\ NamesDiffer(promoted)
      BY <1>2 DEF FinishedInv, PlanRight, Active
  <2>2. /\ views'[name][Name[s]] = ViewTable(p, s)
        /\ \A n \in Names \ {Name[s]} : views'[name][n] = views[name][n]
        /\ \A e \in EnvNames \ {name} : views'[e] = views[e]
      BY <1>4 DEF TypeInv, TypeOK, Names
  <2>3. ViewTable(p, s) \in RightTables(name, s)
    <3>1. name = Prod \/ s \notin ForwardOnly => s \in plans[p].representative
        BY <1>1, <2>1 DEF AlreadyRight, IsDeployable
    <3> QED  BY <3>1 DEF ViewTable, TableName, RightTables
  <2>4. ASSUME NEW t \in promoted \ (todo \ {s}) PROVE Shown(name, t)'
    <3>1. CASE t = s
        BY <1>2, <1>4, <2>2, <2>3, <3>1 DEF Shown, RightTables
    <3>2. CASE t # s
      <4>1. Shown(name, t)  BY <1>1, <2>1, <3>2 DEF AlreadyRight
      <4>2. s \in promoted  BY <1>2, <2>1 DEF AlreadyRight
      <4>3. Name[t] # Name[s]  BY <2>1, <3>2, <4>2 DEF NamesDiffer
      <4>4. t \in SnapshotIds
          BY <1>2 DEF TypeInv, PlansHaveEnvironments, Active, Environment
      <4>5. views'[name][Name[t]] = views[name][Name[t]]  BY <2>2, <4>3, <4>4 DEF Names
      <4> QED  BY <1>2, <4>1, <4>5 DEF Shown, RightTables
    <3> QED  BY <3>1, <3>2
  <2>5. /\ plans'[p].pc = "views" /\ plans'[p].name = name
        /\ plans'[p].environment = plans[p].environment
        /\ plans'[p].representative = plans[p].representative
        /\ plans'[p].promoted_snapshots = todo \ {s}
        /\ plans'[p].demoted_snapshots = plans[p].demoted_snapshots
        /\ \A q \in PlanIds \ {p} : plans'[q] = plans[q]
      BY <1>1, <1>2, <1>4 DEF TypeInv, TypeOK, Plan
  <2>6. todo \ {s} \in SUBSET todo  OBVIOUS
  <2> QED  BY <1>1, <1>2, <2>2, <2>4, <2>5, <2>6, ViewStageRight
<1> QED  BY <1>1, <1>3, <1>4 DEF PromoteView

LEMMA DemoteViewRight ==
    ASSUME TypeInv, FinishedInv, NEW p \in PlanIds, NEW s \in SnapshotIds, DemoteView(p, s)
    PROVE  FinishedInv'
<1>1. PICK name \in EnvNames : plans[p].name = name  BY DEF TypeInv, TypeOK, Plan
<1> DEFINE promoted == plans[p].environment.promoted
           todo == plans[p].promoted_snapshots
<1>2. /\ plans[p].pc = "views" /\ s \in plans[p].demoted_snapshots
      /\ UNCHANGED <<clock, storeVars, janitor, tables>>
      /\ views' = [views EXCEPT ![name][Name[s]] = NoTable]
      /\ plans' = [plans EXCEPT ![p].demoted_snapshots = @ \ {s}]
    BY <1>1 DEF DemoteView
<1>3. AlreadyRight(p)  BY <1>2 DEF FinishedInv, PlanRight, Active
<1>4. /\ \A n \in Names \ {Name[s]} : views'[name][n] = views[name][n]
      /\ \A e \in EnvNames \ {name} : views'[e] = views[e]
    BY <1>2 DEF TypeInv, TypeOK, Names
<1>5. ASSUME NEW t \in promoted \ todo PROVE Shown(name, t)'
  <2>1. Shown(name, t) /\ Name[t] # Name[s]  BY <1>1, <1>2, <1>3 DEF AlreadyRight
  <2>2. t \in SnapshotIds
      BY <1>2 DEF TypeInv, PlansHaveEnvironments, Active, Environment
  <2>3. views'[name][Name[t]] = views[name][Name[t]]  BY <1>4, <2>1, <2>2 DEF Names
  <2> QED  BY <1>2, <2>1, <2>3 DEF Shown, RightTables
<1>6. /\ plans'[p].pc = "views" /\ plans'[p].name = name
      /\ plans'[p].environment = plans[p].environment
      /\ plans'[p].representative = plans[p].representative
      /\ plans'[p].promoted_snapshots = todo
      /\ plans'[p].demoted_snapshots \subseteq plans[p].demoted_snapshots
      /\ \A q \in PlanIds \ {p} : plans'[q] = plans[q]
    BY <1>1, <1>2 DEF TypeInv, TypeOK, Plan
<1>7. todo \in SUBSET todo  OBVIOUS
<1> QED  BY <1>1, <1>2, <1>4, <1>5, <1>6, <1>7, ViewStageRight

LEMMA FinalizeRight ==
    ASSUME TypeInv, FinishedInv, NEW p \in PlanIds, FinalizeEnvironment(p)
    PROVE  FinishedInv'
<1>1. PICK name \in EnvNames : plans[p].name = name  BY DEF TypeInv, TypeOK, Plan
<1>2. /\ plans[p].pc = "views" /\ plans[p].promoted_snapshots = {}
      /\ UNCHANGED <<clock, janitor, tables, views>>
    BY DEF FinalizeEnvironment
<1>3. CASE Stop(p) /\ UNCHANGED storeVars
    BY <1>2, <1>3, PlanMovesOn DEF Stop, storeVars, Active
<1>4. CASE Finalize(name, p) /\ Step(p, "views", "done")
  <2>1. AlreadyRight(p) /\ RecordWritten(p)
      BY <1>2 DEF FinishedInv, PlanRight, Active
  <2>2. envs[name] \in Environment
      BY <1>4 DEF Finalize, CanFinalize, Exists, TypeInv, TypeOK, StoreTypeOK
  <2>3. /\ envs'[name].promoted = envs[name].promoted
        /\ envs'[name].snapshots = envs[name].snapshots
        /\ envs'[name].expiration_ts = envs[name].expiration_ts
        /\ \A e \in EnvNames \ {name} : envs'[e] = envs[e]
        /\ UNCHANGED <<rows, unpaused>>
      BY <1>4, <2>2 DEF Finalize, TypeInv, TypeOK, StoreTypeOK, Environment
  <2>4. EnvRight(name)'
    <3>1. \A s \in envs[name].promoted : Shown(name, s)'
      <4>1. \A s \in envs[name].promoted : Shown(name, s)
          BY <1>1, <1>2, <2>1 DEF AlreadyRight, RecordWritten
      <4> QED  BY <1>2, <4>1, ShownStays
    <3>2. name = Prod => Unpaused(envs[name].promoted)
        BY <1>1, <1>2, <2>1 DEF AlreadyRight, RecordWritten
    <3>3. name = Prod => Unpaused(envs[name].promoted)'
        BY <2>3, <3>2 DEF Unpaused, SameName
    <3>4. /\ envs[name].promoted \subseteq envs[name].snapshots
          /\ NamesDiffer(envs[name].promoted)
          /\ name = Prod => envs[name].expiration_ts = Never
        BY <1>1, <2>1 DEF FinishedInv, EnvRight, RecordWritten
    <3> QED  BY <2>3, <3>1, <3>3, <3>4 DEF EnvRight, NamesDiffer
  <2>5. plans'[p].pc = "done" /\ SamePlan(p) /\ \A q \in PlanIds \ {p} : plans'[q] = plans[q]
      BY <1>4 DEF Step, TypeInv, TypeOK, Plan, SamePlan
  <2>6. PlanRight(p)'  BY <2>5 DEF PlanRight, Active
  <2>7. OthersStay(p, name)  BY <1>1, <1>2, <2>3, <2>5 DEF OthersStay, SamePlan
  <2> QED  BY <1>1, <1>2, <2>4, <2>6, <2>7, OthersStayRight DEF Active
<1> QED  BY <1>1, <1>3, <1>4 DEF FinalizeEnvironment
LEMMA PlanStepsRight ==
    ASSUME TypeInv, FinishedInv, NEW p \in PlanIds, ApplyPlan(p) \/ PlanStops(p)
    PROVE  FinishedInv'
<1>1. CASE CreateSnapshotRecords(p)
    BY <1>1, PlanMovesOn DEF CreateSnapshotRecords, Step, PushSnapshots, Active
<1>2. CASE PhysicalLayerUpdate(p)
    BY <1>2, PlanMovesOn DEF PhysicalLayerUpdate, Step, Stop, storeVars, Active
<1>3. CASE PlanStops(p)
    BY <1>3, PlanMovesOn DEF PlanStops, Stop, storeVars, Active
<1>4. CASE \E s \in SnapshotIds : PromoteView(p, s) \/ DemoteView(p, s)
    BY <1>4, PromoteViewRight, DemoteViewRight
<1> QED
    BY <1>1, <1>2, <1>3, <1>4, RecordUpdateRight, UnpauseRight, FinalizeRight DEF ApplyPlan
-----------------------------------------------------------------------------
(***************************************************************************)
(* The janitor, and time.                                                  *)
(***************************************************************************)
LEMMA NoPlanRight ==
    ASSUME FinishedInv, \A p \in PlanIds : plans[p].pc \notin Active, plans' = plans,
           \A e \in EnvNames : EnvStays(e), JanitorRight'
    PROVE  FinishedInv'
<1>1. Alone'  BY DEF Alone
<1>2. \A e \in EnvNames : EnvRight(e)'  BY EnvStaysRight DEF FinishedInv
<1>3. \A p \in PlanIds : PlanRight(p)'  BY DEF PlanRight
<1> QED  BY <1>1, <1>2, <1>3 DEF FinishedInv

\* No batch has a table of a snapshot that an environment refers to.
LEMMA BatchIsUnused ==
    ASSUME TypeInv, EnvironmentsResolve, NEW e \in EnvNames, NEW s \in SnapshotsOf(e)
    PROVE  /\ ProdTable(s) \notin TablesToDrop(rows, ExpiredBatch)
           /\ PreviewsNest => DevTable(s) \notin TablesToDrop(rows, ExpiredBatch)
<1>1. ExpiredBatch \subseteq rows /\ ExpiredBatch \cap PromotedIds = {}
    BY DEF ExpiredBatch, FirstRows, Candidates
<1>2. s \in rows /\ s \in PromotedIds
    BY DEF EnvironmentsResolve, PromotedIds, UsedBy, SnapshotsOf
<1>3. rows \subseteq SnapshotIds  BY DEF TypeInv, TypeOK, StoreTypeOK
<1>4. PreviewsNest => VersionsNest(rows)  BY <1>3 DEF PreviewsNest, VersionsNest
<1> QED  BY <1>1, <1>2, <1>3, <1>4, SharedTableStays

LEMMA JanitorStepsRight ==
    ASSUME Exclusive, TypeInv, EnvironmentsResolve, FinishedInv,
           \/ \E ignoreTtl \in IgnoreTtl : RunJanitor(ignoreTtl)
           \/ JanitorWorks
           \/ JanitorStops
    PROVE  FinishedInv'
<1>1. \A p \in PlanIds : plans[p].pc \notin Active
  <2>1. CASE janitor.pc # "idle"  BY <2>1 DEF FinishedInv, Alone
  <2>2. CASE janitor.pc = "idle"
      BY <2>2 DEF JanitorWorks, JanitorStops, CleanupExpiredViews, DeleteEnvironments, GetExpiredBatch,
                  DropTables, DeleteExpired, JanitorStep, RunJanitor, Exclusive
  <2> QED  BY <2>1, <2>2
<1>2. plans' = plans
    BY DEF JanitorWorks, JanitorStops, CleanupExpiredViews, DeleteEnvironments, GetExpiredBatch,
           DropTables, DeleteExpired, RunJanitor
<1>3. ASSUME UNCHANGED <<clock, unpaused, envs, tables, views>>
      PROVE  \A e \in EnvNames : EnvStays(e)
    BY <1>3 DEF EnvStays, Exists, Finalized, Live, Expired, TablesStay, Unpaused, SameName
<1>4. ASSUME NEW ignoreTtl \in IgnoreTtl, RunJanitor(ignoreTtl) PROVE FinishedInv'
  <2>1. UNCHANGED <<clock, storeVars, tables, views>>  BY <1>4 DEF RunJanitor
  <2>2. janitor'.pc = "views" /\ janitor'.expired_environments = ExpiredEnvironments(clock)
      BY <1>4 DEF RunJanitor, IdleJanitor
  <2>3. JanitorRight'
      BY <2>1, <2>2 DEF JanitorRight, ExpiredEnvironments, Live, storeVars
  <2> QED  BY <1>1, <1>2, <1>3, <2>1, <2>3, NoPlanRight DEF storeVars
<1>5. ASSUME NEW n \in EnvNames, CleanupExpiredViews(n) PROVE FinishedInv'
  <2>1. /\ UNCHANGED <<clock, storeVars, tables>>
        /\ janitor.pc = "views" /\ n \in janitor.expired_environments
        /\ \A e \in EnvNames \ {n} : views'[e] = views[e]
      BY <1>5 DEF CleanupExpiredViews, TypeInv, TypeOK
  <2>2. janitor'.pc = "views" /\ janitor'.expired_environments \subseteq janitor.expired_environments
      BY <1>5, <2>1 DEF CleanupExpiredViews, TypeInv, TypeOK, Janitor
  <2>3. JanitorRight'
      BY <2>1, <2>2 DEF FinishedInv, JanitorRight, Live, Exists, Expired, storeVars
  <2>4. ~Finalized(n)'
      BY <2>1 DEF FinishedInv, JanitorRight, Finalized, Live, Exists, Expired, storeVars
  <2>5. ASSUME NEW e \in EnvNames PROVE EnvStays(e)
      BY <2>1, <2>4 DEF EnvStays, Exists, Finalized, Live, Expired, TablesStay, Unpaused, SameName, storeVars
  <2> QED  BY <1>1, <1>2, <2>3, <2>5, NoPlanRight
<1>6. CASE DeleteEnvironments
  <2>1. /\ UNCHANGED <<clock, unpaused, tables, views>>
        /\ \A e \in EnvNames : envs'[e] \in {NoEnv, envs[e]}
      BY <1>6 DEF DeleteEnvironments, DeleteExpiredEnvironments
  <2>2. janitor'.pc = "batch"
      BY <1>6 DEF DeleteEnvironments, JanitorStep, TypeInv, TypeOK, Janitor
  <2>3. ASSUME NEW e \in EnvNames PROVE EnvStays(e)
      BY <2>1 DEF EnvStays, Exists, Finalized, Live, Expired, TablesStay, Unpaused, SameName
  <2> QED  BY <1>1, <1>2, <2>2, <2>3, NoPlanRight DEF JanitorRight
<1>7. CASE GetExpiredBatch
  <2>1. UNCHANGED <<clock, storeVars, tables, views>>  BY <1>7 DEF GetExpiredBatch
  <2>2. \/ janitor' = IdleJanitor
        \/ janitor'.pc = "drop" /\ janitor'.cleanup_tasks = TablesToDrop(rows, ExpiredBatch)
      BY <1>7 DEF GetExpiredBatch, TypeInv, TypeOK, Janitor
  <2>3. JanitorRight'
    <3>1. CASE janitor' = IdleJanitor  BY <3>1 DEF JanitorRight, IdleJanitor
    <3>2. CASE janitor'.pc = "drop" /\ janitor'.cleanup_tasks = TablesToDrop(rows, ExpiredBatch)
      <4>1. \A e \in EnvNames : SnapshotsOf(e)' = SnapshotsOf(e)
          BY <2>1 DEF storeVars, SnapshotsOf, Exists
      <4>2. \A e \in EnvNames : \A s \in SnapshotsOf(e) :
                /\ ProdTable(s) \notin janitor'.cleanup_tasks
                /\ PreviewsNest => DevTable(s) \notin janitor'.cleanup_tasks
          BY <3>2, BatchIsUnused
      <4> QED  BY <3>2, <4>1, <4>2 DEF JanitorRight, TasksUnused
    <3> QED  BY <2>2, <3>1, <3>2
  <2> QED  BY <1>1, <1>2, <1>3, <2>1, <2>3, NoPlanRight DEF storeVars
<1>8. CASE DropTables
  <2>1. janitor.pc = "drop" /\ UNCHANGED <<clock, storeVars, views>>  BY <1>8 DEF DropTables
  <2>2. janitor'.pc \in {"delete", "idle"}
    <3>1. CASE janitor' = [janitor EXCEPT !.pc = "delete", !.cleanup_tasks = {}]
        BY <3>1 DEF TypeInv, TypeOK, Janitor
    <3>2. CASE janitor' = IdleJanitor  BY <3>2 DEF IdleJanitor
    <3> QED  BY <1>8, <3>1, <3>2 DEF DropTables
  <2>3. tables \ tables' \subseteq janitor.cleanup_tasks  BY <1>8 DEF DropTables
  <2>4. ASSUME NEW e \in EnvNames PROVE EnvStays(e)
    <3>1. ASSUME Exists(e), NEW s \in envs[e].promoted PROVE TablesStay(s)
      <4>1. s \in SnapshotsOf(e)  BY <3>1 DEF FinishedInv, EnvRight, SnapshotsOf
      <4>2. /\ ProdTable(s) \notin janitor.cleanup_tasks
            /\ PreviewsNest => DevTable(s) \notin janitor.cleanup_tasks
          BY <2>1, <4>1 DEF FinishedInv, JanitorRight, TasksUnused
      <4> QED  BY <2>3, <4>2 DEF TablesStay
    <3> QED
        BY <2>1, <3>1 DEF EnvStays, Exists, Finalized, Live, Expired, Unpaused, SameName, storeVars
  <2> QED  BY <1>1, <1>2, <2>2, <2>4, NoPlanRight DEF JanitorRight
<1>9. CASE DeleteExpired
  <2>1. /\ UNCHANGED <<clock, envs, tables, views>>
        /\ unpaused' \subseteq unpaused
        /\ PromotedIds \cap unpaused \subseteq unpaused'
      BY <1>9 DEF DeleteExpired, DeleteExpiredSnapshots, CandidatesUpTo, Candidates
  <2>2. janitor'.pc = "batch"
      BY <1>9 DEF DeleteExpired, TypeInv, TypeOK, Janitor
  <2>3. ASSUME NEW e \in EnvNames PROVE EnvStays(e)
    <3>1. (Exists(e)' <=> Exists(e)) /\ (Finalized(e)' <=> Finalized(e))
        BY <2>1 DEF Exists, Finalized, Live, Expired
    <3>2. ASSUME Exists(e), Unpaused(envs[e].promoted) PROVE Unpaused(envs[e].promoted)'
      <4>1. envs[e].promoted \subseteq PromotedIds
          BY <3>2 DEF FinishedInv, EnvRight, PromotedIds, UsedBy
      <4>2. unpaused' \cap SameName(envs[e].promoted) = envs[e].promoted
          BY <2>1, <3>2, <4>1 DEF Unpaused
      <4> QED  BY <2>1, <4>2 DEF Unpaused, SameName
    <3> QED  BY <2>1, <3>1, <3>2 DEF EnvStays, TablesStay, Finalized, Live
  <2> QED  BY <1>1, <1>2, <2>2, <2>3, NoPlanRight DEF JanitorRight
<1>10. CASE JanitorStops
  <2>1. janitor' = IdleJanitor /\ UNCHANGED <<clock, storeVars, tables, views>>
      BY <1>10 DEF JanitorStops
  <2> QED  BY <1>1, <1>2, <1>3, <2>1, NoPlanRight DEF storeVars, JanitorRight, IdleJanitor
<1> QED  BY <1>4, <1>5, <1>6, <1>7, <1>8, <1>9, <1>10 DEF JanitorWorks

LEMMA InvalidateRight ==
    ASSUME TypeInv, FinishedInv, NEW e \in EnvNames, Invalidate(e)
    PROVE  FinishedInv'
<1>1. /\ e # Prod /\ Exists(e)
      /\ envs' = [envs EXCEPT ![e].expiration_ts = clock]
      /\ UNCHANGED <<clock, rows, updated, unpaused, plans, janitor, tables, views>>
    BY DEF Invalidate, InvalidateEnvironment
<1>2. envs \in [EnvNames -> Environment \cup {NoEnv}] /\ clock \in Nat
    BY DEF TypeInv, TypeOK, StoreTypeOK
<1>3. envs[e] \in Environment  BY <1>1, <1>2 DEF Exists
<1>4. /\ envs'[e] \in Environment /\ envs'[e] # NoEnv
      /\ envs'[e].expiration_ts = clock
      /\ envs'[e].promoted = envs[e].promoted
      /\ envs'[e].snapshots = envs[e].snapshots
      /\ envs'[e].finalized = envs[e].finalized
    BY <1>1, <1>2, <1>3, StateSyncConstants DEF Environment
<1>5. \A f \in EnvNames \ {e} : envs'[f] = envs[f]  BY <1>1, <1>2
<1>6. ~Live(e)'
    BY <1>1, <1>2, <1>4, StateSyncConstants DEF Live, Expired
<1>7. ASSUME NEW f \in EnvNames PROVE EnvRight(f)'
  <2>1. EnvStays(f)
    <3>1. CASE f = e
        BY <1>1, <1>4, <1>6, <3>1 DEF EnvStays, Finalized, Exists
    <3>2. CASE f # e
        BY <1>1, <1>5, <3>2
           DEF EnvStays, Finalized, Live, Exists, Expired, TablesStay, Unpaused, SameName
    <3> QED  BY <3>1, <3>2
  <2> QED  BY <2>1, EnvStaysRight DEF FinishedInv
<1>8. ASSUME NEW p \in PlanIds PROVE PlanRight(p)'
  <2>1. PICK name \in EnvNames : plans[p].name = name  BY DEF TypeInv, TypeOK, Plan
  <2>2. RecordWritten(p) => RecordWritten(p)'
    <3>1. /\ Exists(name) => Exists(name)'
          /\ envs'[name].finalized = envs[name].finalized
          /\ envs'[name].promoted = envs[name].promoted
        BY <1>4, <1>5 DEF Exists
    <3> QED  BY <1>1, <2>1, <3>1 DEF RecordWritten, Exists
  <2>3. plans'[p].pc \in Active => PlanStays(p)
      BY <1>1, <2>2 DEF PlanStays, SamePlan
  <2> QED  BY <2>3, PlanStaysRight DEF FinishedInv
<1>9. Alone'  BY <1>1 DEF FinishedInv, Alone
<1>10. JanitorRight'
  <2>1. \A f \in EnvNames : SnapshotsOf(f)' = SnapshotsOf(f)
      BY <1>1, <1>4, <1>5 DEF SnapshotsOf, Exists
  <2>2. janitor.pc = "drop" => TasksUnused'
      BY <1>1, <2>1 DEF FinishedInv, JanitorRight, TasksUnused
  <2>3. \A f \in EnvNames : ~Live(f) => ~Live(f)'
      BY <1>1, <1>5, <1>6 DEF Live, Exists, Expired
  <2>4. janitor.expired_environments \subseteq EnvNames
      BY DEF TypeInv, TypeOK, Janitor
  <2>5. janitor.pc = "views" => \A f \in janitor.expired_environments : ~Live(f)'
      BY <2>3, <2>4 DEF FinishedInv, JanitorRight
  <2> QED  BY <1>1, <2>2, <2>5 DEF JanitorRight
<1> QED  BY <1>7, <1>8, <1>9, <1>10 DEF FinishedInv

LEMMA TimePassesRight ==
    ASSUME TypeInv, FinishedInv, TimePasses
    PROVE  FinishedInv'
<1>1. /\ clock' = clock + 1
      /\ UNCHANGED <<rows, updated, unpaused, envs, plans, janitor, tables, views>>
    BY DEF TimePasses, Tick, storeVars
<1>2. envs \in [EnvNames -> Environment \cup {NoEnv}] /\ clock \in Nat
    BY DEF TypeInv, TypeOK, StoreTypeOK
<1>3. ASSUME NEW f \in EnvNames PROVE Live(f)' => Live(f)
  <2>1. Exists(f) => envs[f].expiration_ts \in Nat \cup {Never}
      BY <1>2 DEF Exists, Environment
  <2> QED  BY <1>1, <1>2, <2>1 DEF Live, Exists, Expired
<1>4. ASSUME NEW f \in EnvNames PROVE EnvRight(f)'
  <2>1. EnvStays(f)
      BY <1>1, <1>3 DEF EnvStays, Finalized, Exists, TablesStay, Unpaused, SameName
  <2> QED  BY <2>1, EnvStaysRight DEF FinishedInv
<1>5. ASSUME NEW p \in PlanIds PROVE PlanRight(p)'
  <2>1. plans'[p].pc \in Active => PlanStays(p)
      BY <1>1 DEF PlanStays, SamePlan, RecordWritten, Exists
  <2> QED  BY <2>1, PlanStaysRight DEF FinishedInv
<1>6. Alone'  BY <1>1 DEF FinishedInv, Alone
<1>7. JanitorRight'
  <2>1. janitor.pc = "drop" => TasksUnused'
      BY <1>1 DEF FinishedInv, JanitorRight, TasksUnused, SnapshotsOf, Exists
  <2>2. janitor.expired_environments \subseteq EnvNames
      BY DEF TypeInv, TypeOK, Janitor
  <2>3. janitor.pc = "views" => \A f \in janitor.expired_environments : ~Live(f)'
      BY <1>3, <2>2 DEF FinishedInv, JanitorRight
  <2> QED  BY <1>1, <2>1, <2>3 DEF JanitorRight
<1> QED  BY <1>4, <1>5, <1>6, <1>7 DEF FinishedInv

LEMMA NothingHappensRight ==
    ASSUME FinishedInv, UNCHANGED vars
    PROVE  FinishedInv'
<1> USE DEF vars, storeVars
<1>1. ASSUME NEW f \in EnvNames PROVE EnvRight(f)'
  <2>1. EnvStays(f)
      BY DEF EnvStays, Finalized, Live, Exists, Expired, TablesStay, Unpaused, SameName
  <2> QED  BY <2>1, EnvStaysRight DEF FinishedInv
<1>2. ASSUME NEW p \in PlanIds PROVE PlanRight(p)'
  <2>1. plans'[p].pc \in Active => PlanStays(p)
      BY DEF PlanStays, SamePlan, RecordWritten, Exists
  <2> QED  BY <2>1, PlanStaysRight DEF FinishedInv
<1>3. Alone' /\ JanitorRight'
    BY DEF FinishedInv, Alone, JanitorRight, TasksUnused, SnapshotsOf, Live, Exists, Expired
<1> QED  BY <1>1, <1>2, <1>3 DEF FinishedInv
-----------------------------------------------------------------------------
LEMMA InitFinished ==
    ASSUME Init
    PROVE  FinishedInv
<1>1. \A p \in PlanIds : plans[p].pc = "idle"  BY DEF Init, NoPlanYet
<1>2. \A e \in EnvNames : ~Exists(e)  BY DEF Init, StoreInit, Exists
<1>3. janitor.pc = "idle"  BY DEF Init, IdleJanitor
<1> QED
    BY <1>1, <1>2, <1>3
       DEF FinishedInv, Alone, JanitorRight, EnvRight, PlanRight, Finalized, Live, Active

LEMMA FinishedInvIsInductive ==
    ASSUME Exclusive, TypeInv, EnvironmentsResolve, FinishedInv, [Next]_vars
    PROVE  FinishedInv'
<1>1. ASSUME NEW p \in PlanIds, NEW r \in Requests, BuildPlan(p, r) PROVE FinishedInv'
    BY <1>1, BuildPlanRight
<1>2. ASSUME NEW p \in PlanIds, StartPlan(p) PROVE FinishedInv'
    BY <1>2, StartPlanRight
<1>3. ASSUME NEW p \in PlanIds, ApplyPlan(p) \/ PlanStops(p) PROVE FinishedInv'
    BY <1>3, PlanStepsRight
<1>4. CASE \/ \E ignoreTtl \in IgnoreTtl : RunJanitor(ignoreTtl)
           \/ JanitorWorks
           \/ JanitorStops
    BY <1>4, JanitorStepsRight
<1>5. ASSUME NEW e \in EnvNames, Invalidate(e) PROVE FinishedInv'
    BY <1>5, InvalidateRight
<1>6. CASE TimePasses  BY <1>6, TimePassesRight
<1>7. CASE UNCHANGED vars  BY <1>7, NothingHappensRight
<1> QED  BY <1>1, <1>2, <1>3, <1>4, <1>5, <1>6, <1>7 DEF Next

\* The invariant holds as long as the plans of an environment wait for each other
\* and for the janitor.
THEOREM FinishedWorkRight == ASSUME Exclusive PROVE Spec => []FinishedInv
<1>1. Init => FinishedInv  BY InitFinished
<1>2. TypeInv /\ EnvironmentsResolve /\ FinishedInv /\ [Next]_vars => FinishedInv'
    BY FinishedInvIsInductive
<1> QED  BY <1>1, <1>2, Typing, Resolving, PTL DEF Spec

\* Once an environment is finalized, each of its views selects from a table of
\* the very snapshot that is promoted, whichever plans were applied before, however
\* few of the views each of them replaced (_get_before_promote_stage and
\* _get_promote_stage of stages.py), and wherever they stopped.
THEOREM ViewsOfFinishedWork == ASSUME Exclusive PROVE Spec => []FinalizedViews
<1>1. FinishedInv => FinalizedViews
    BY DEF FinishedInv, EnvRight, Shown, FinalizedViews
<1> QED  BY <1>1, FinishedWorkRight, PTL

\* And the table is there: neither a plan that skips tables it believes to exist
\* nor the janitor (get_expired_snapshots of the state sync) leaves a view behind
\* without what it selects from.
THEOREM TablesOfFinishedWork ==
    ASSUME Exclusive, PreviewsNest
    PROVE  Spec => []FinalizedTablesExist
<1>1. FinishedInv => FinalizedTablesExist
    BY DEF FinishedInv, EnvRight, Shown, FinalizedTablesExist
<1> QED  BY <1>1, FinishedWorkRight, PTL

\* In production, and where a view selects from the production table, it is there
\* whatever the preview tables share.
ProductionTablesExist ==
    \A e \in EnvNames : Finalized(e) =>
        \A s \in envs[e].promoted :
            e = Prod \/ s \notin ForwardOnly => views[e][Name[s]] \in tables

THEOREM ProductionIsThere == ASSUME Exclusive PROVE Spec => []ProductionTablesExist
<1>1. FinishedInv => ProductionTablesExist
    BY DEF FinishedInv, EnvRight, Shown, RightTables, ProductionTablesExist
<1> QED  BY <1>1, FinishedWorkRight, PTL

\* In finalized production exactly the promoted snapshots of their models are
\* unpaused: unpause_snapshots and the janitor's deletions, taken together, neither
\* leave a predecessor running nor stop what is promoted.
THEOREM OnlyPromotedRun == ASSUME Exclusive PROVE Spec => []ProdUnpaused
<1>1. FinishedInv => ProdUnpaused
    BY StateSyncConstants DEF FinishedInv, EnvRight, Unpaused, ProdUnpaused
<1> QED  BY <1>1, FinishedWorkRight, PTL
-----------------------------------------------------------------------------
(***************************************************************************)
(* What a plan replaced is kept for its ttl.  A row that is written anew   *)
(* gets the date its plan was built, which may lie before the demotion;    *)
(* either the janitor, which alone makes a second writing possible, has    *)
(* waited for the plan, or it has waited for the ttl.                      *)
(***************************************************************************)
\* What is collected regardless of its ttl is not being written by a plan.
ForcedAlone == TRUE \in IgnoreTtl => "janitor" \notin Overlap

Aged(s, updated_ts) == lastUsed[s] <= updated_ts \/ lastUsed[s] + Ttl[s] <= clock

BeforePush == {"built", "push"}

ForcedRuns ==
    /\ janitor.ignore_ttl => TRUE \in IgnoreTtl
    /\ TRUE \in IgnoreTtl /\ janitor.pc # "idle" => \A p \in PlanIds : plans[p].pc \notin Active

TtlInv ==
    /\ lastUsed \in [SnapshotIds -> Nat]
    /\ demoted \subseteq SnapshotIds
    /\ \A s \in SnapshotIds : lastUsed[s] <= clock
    /\ \A s \in demoted \cap rows : Aged(s, updated[s])
    /\ \A p \in PlanIds : plans[p].pc \in BeforePush =>
            \A s \in demoted \ rows : Aged(s, plans[p].created_ts)

\* How old a row can be after a step, and for what reason it can go.
RowsAge ==
    /\ clock <= clock'
    /\ \A s \in rows \cap rows' : updated'[s] \in {updated[s], clock}
    /\ \A s \in rows' \ rows : \E p \in PlanIds :
        plans[p].pc = "push" /\ updated'[s] = plans[p].created_ts
    /\ \A s \in rows \ rows' :
        /\ janitor.pc = "delete" /\ plans' = plans
        /\ janitor.ignore_ttl \/ updated[s] + Ttl[s] <= clock

LEMMA StepsAgeRows ==
    ASSUME TypeInv, [Next]_vars
    PROVE  RowsAge
<1>0. clock \in Nat /\ rows \subseteq SnapshotIds
    BY DEF TypeInv, TypeOK, StoreTypeOK
<1>1. ASSUME clock' = clock, UNCHANGED <<rows, updated>> PROVE RowsAge
    BY <1>0, <1>1 DEF RowsAge
<1>2. ASSUME clock' = clock, rows' = rows, NEW S, updated' = Touched(S, clock) PROVE RowsAge
    BY <1>0, <1>2 DEF RowsAge, Touched
<1>3. ASSUME NEW p \in PlanIds, ApplyPlan(p) PROVE RowsAge
  <2>1. CASE CreateSnapshotRecords(p)
    <3>1. /\ plans[p].pc = "push" /\ clock' = clock
          /\ PushSnapshots(plans[p].new_snapshots, plans[p].created_ts)
        BY <2>1 DEF CreateSnapshotRecords, Step
    <3>2. plans[p].new_snapshots \subseteq SnapshotIds  BY DEF TypeInv, TypeOK, Plan
    <3> QED  BY <1>0, <3>1, <3>2 DEF RowsAge, PushSnapshots
  <2>2. CASE PhysicalLayerUpdate(p)
      BY <1>1, <2>2 DEF PhysicalLayerUpdate, storeVars
  <2>3. CASE EnvironmentRecordUpdate(p)
      BY <1>1, <1>2, <2>3 DEF EnvironmentRecordUpdate, Promote, storeVars
  <2>4. CASE Unpause(p)
      BY <1>2, <2>4 DEF Unpause, UnpauseSnapshots
  <2>5. CASE \E s \in SnapshotIds : PromoteView(p, s) \/ DemoteView(p, s)
      BY <1>1, <2>5 DEF PromoteView, DemoteView, storeVars
  <2>6. CASE FinalizeEnvironment(p)
      BY <1>1, <2>6 DEF FinalizeEnvironment, Finalize, storeVars
  <2> QED  BY <1>3, <2>1, <2>2, <2>3, <2>4, <2>5, <2>6 DEF ApplyPlan
<1>4. CASE \E p \in PlanIds, r \in Requests : BuildPlan(p, r)
    BY <1>1, <1>4 DEF BuildPlan, storeVars
<1>5. CASE \E p \in PlanIds : StartPlan(p) \/ PlanStops(p)
    BY <1>1, <1>5 DEF StartPlan, PlanStops, storeVars
<1>6. CASE (\E ignoreTtl \in IgnoreTtl : RunJanitor(ignoreTtl)) \/ JanitorStops
    BY <1>1, <1>6 DEF RunJanitor, JanitorStops, storeVars
<1>7. CASE DeleteExpired
  <2>1. /\ janitor.pc = "delete" /\ plans' = plans /\ clock' = clock
        /\ DeleteExpiredSnapshots(clock, janitor.ignore_ttl, janitor.end)
      BY <1>7 DEF DeleteExpired
  <2> QED  BY <1>0, <2>1 DEF RowsAge, DeleteExpiredSnapshots, CandidatesUpTo, Candidates
<1>8. CASE JanitorWorks /\ ~DeleteExpired
    BY <1>1, <1>8 DEF JanitorWorks, CleanupExpiredViews, DeleteEnvironments,
                      DeleteExpiredEnvironments, GetExpiredBatch, DropTables, storeVars
<1>9. CASE \E e \in EnvNames : Invalidate(e)
    BY <1>1, <1>9 DEF Invalidate, InvalidateEnvironment
<1>10. CASE TimePasses
    BY <1>0, <1>10 DEF TimePasses, Tick, storeVars, RowsAge
<1>11. CASE UNCHANGED vars
    BY <1>1, <1>11 DEF vars
<1> QED  BY <1>3, <1>4, <1>5, <1>6, <1>7, <1>8, <1>9, <1>10, <1>11 DEF Next

\* Only building makes a plan active, and dates the records it will write.
WaitsOn(p) ==
    /\ plans'[p].pc \in Active => plans[p].pc \in Active
    /\ plans'[p].pc \in BeforePush =>
        plans[p].pc \in BeforePush /\ plans'[p].created_ts = plans[p].created_ts

Moves(p, pc) == plans' = [plans EXCEPT ![p].pc = pc]

LEMMA PlansWait ==
    ASSUME TypeInv, [Next]_vars, ~\E p \in PlanIds, r \in Requests : BuildPlan(p, r)
    PROVE  \A p \in PlanIds : WaitsOn(p)
<1> USE DEF BeforePush, Active
<1>0. plans \in [PlanIds -> Plan]  BY DEF TypeInv, TypeOK
<1>1. ASSUME NEW q \in PlanIds, NEW plan, plans' = [plans EXCEPT ![q] = plan],
             plans[q].pc \in Active,
             plan.pc \in BeforePush =>
                plans[q].pc \in BeforePush /\ plan.created_ts = plans[q].created_ts
      PROVE  \A p \in PlanIds : WaitsOn(p)
    BY <1>0, <1>1 DEF WaitsOn
<1>2. ASSUME NEW q \in PlanIds, NEW pc, Moves(q, pc), plans[q].pc \in Active, pc \notin BeforePush
      PROVE  \A p \in PlanIds : WaitsOn(p)
  <2>1. [plans[q] EXCEPT !.pc = pc].pc = pc  BY <1>0 DEF Plan
  <2> QED  BY <1>1, <1>2, <2>1 DEF Moves
<1>3. ASSUME plans' = plans PROVE \A p \in PlanIds : WaitsOn(p)
    BY <1>3 DEF WaitsOn
<1>4. ASSUME NEW q \in PlanIds, ApplyPlan(q) PROVE \A p \in PlanIds : WaitsOn(p)
  <2>1. CASE CreateSnapshotRecords(q)
    <3>1. plans[q].pc = "push" /\ Moves(q, "create")
        BY <2>1 DEF CreateSnapshotRecords, Step, Moves
    <3> QED  BY <1>2, <3>1
  <2>2. CASE PhysicalLayerUpdate(q)  BY <1>2, <2>2 DEF PhysicalLayerUpdate, Step, Stop, Moves
  <2>3. CASE EnvironmentRecordUpdate(q)
      BY <1>2, <2>3 DEF EnvironmentRecordUpdate, Step, Stop, Moves, AfterRecordUpdate
  <2>4. CASE Unpause(q)
    <3>1. plans[q].pc = "unpause" /\ Moves(q, "views")
        BY <2>4 DEF Unpause, Step, Moves
    <3> QED  BY <1>2, <3>1
  <2>5. ASSUME NEW s \in SnapshotIds, PromoteView(q, s) PROVE \A p \in PlanIds : WaitsOn(p)
    <3>1. CASE Stop(q)
      <4>1. plans[q].pc = "views" /\ Moves(q, "failed")
          BY <2>5, <3>1 DEF PromoteView, Stop, Moves
      <4> QED  BY <1>2, <4>1
    <3>2. CASE plans' = [plans EXCEPT ![q].promoted_snapshots = @ \ {s}]
      <4>1. plans[q].pc = "views"  BY <2>5 DEF PromoteView
      <4>2. [plans[q] EXCEPT !.promoted_snapshots = @ \ {s}].pc = "views"  BY <1>0, <4>1 DEF Plan
      <4> QED  BY <1>1, <3>2, <4>1, <4>2
    <3> QED  BY <2>5, <3>1, <3>2 DEF PromoteView
  <2>6. ASSUME NEW s \in SnapshotIds, DemoteView(q, s) PROVE \A p \in PlanIds : WaitsOn(p)
    <3>1. plans[q].pc = "views" /\ plans' = [plans EXCEPT ![q].demoted_snapshots = @ \ {s}]
        BY <2>6 DEF DemoteView
    <3>2. [plans[q] EXCEPT !.demoted_snapshots = @ \ {s}].pc = "views"  BY <1>0, <3>1 DEF Plan
    <3> QED  BY <1>1, <3>1, <3>2
  <2>7. CASE FinalizeEnvironment(q)  BY <1>2, <2>7 DEF FinalizeEnvironment, Step, Stop, Moves
  <2> QED  BY <1>4, <2>1, <2>2, <2>3, <2>4, <2>5, <2>6, <2>7 DEF ApplyPlan
<1>5. ASSUME NEW q \in PlanIds, StartPlan(q) PROVE \A p \in PlanIds : WaitsOn(p)
  <2>1. plans[q].pc = "built" /\ plans[q] \in Plan  BY <1>0, <1>5 DEF StartPlan
  <2>2. PICK expiration_ts, S, T, U, V :
            plans' = [plans EXCEPT ![q] =
                [@ EXCEPT !.pc = "push", !.environment.expiration_ts = expiration_ts,
                          !.snapshots = S, !.representative = T,
                          !.promoted_snapshots = U, !.demoted_snapshots = V]]
      BY <1>5 DEF StartPlan
  <2> DEFINE plan == [plans[q] EXCEPT !.pc = "push", !.environment.expiration_ts = expiration_ts,
                          !.snapshots = S, !.representative = T,
                          !.promoted_snapshots = U, !.demoted_snapshots = V]
  <2>3. plan.created_ts = plans[q].created_ts  BY <2>1 DEF Plan
  <2> HIDE DEF plan
  <2>4. plans' = [plans EXCEPT ![q] = plan]  BY <2>2 DEF plan
  <2> QED  BY <1>1, <2>1, <2>3, <2>4
<1>6. ASSUME NEW q \in PlanIds, PlanStops(q) PROVE \A p \in PlanIds : WaitsOn(p)
  <2>1. plans[q].pc \in Active /\ Moves(q, "failed")
      BY <1>6 DEF PlanStops, Stop, Moves
  <2> QED  BY <1>2, <2>1
<1>7. CASE \/ (\E ignoreTtl \in IgnoreTtl : RunJanitor(ignoreTtl)) \/ JanitorWorks \/ JanitorStops
           \/ (\E e \in EnvNames : Invalidate(e)) \/ TimePasses \/ UNCHANGED vars
    BY <1>3, <1>7 DEF RunJanitor, JanitorStops, JanitorWorks, CleanupExpiredViews, DeleteEnvironments,
                      GetExpiredBatch, DropTables, DeleteExpired, Invalidate, TimePasses, vars
<1> QED  BY <1>4, <1>5, <1>6, <1>7 DEF Next

LEMMA BuiltNow ==
    ASSUME TypeInv, NEW p \in PlanIds, NEW r \in Requests, BuildPlan(p, r)
    PROVE  /\ plans'[p].created_ts = clock
           /\ \A q \in PlanIds \ {p} : plans'[q] = plans[q]
           /\ UNCHANGED <<clock, rows, janitor>>
           /\ "janitor" \in Overlap \/ janitor.pc = "idle"
<1>1. plans \in [PlanIds -> Plan]  BY DEF TypeInv, TypeOK
<1>2. PICK environment :
        plans' = [plans EXCEPT ![p] =
            [NoPlanYet EXCEPT
                !.pc = "built",
                !.name = r.env,
                !.created_ts = clock,
                !.new_snapshots = r.snapshots \ rows,
                !.environment_snapshots = SnapshotsOf(ComparedWith(r.env)),
                !.environment = environment]]
    BY DEF BuildPlan
<1>3. plans'[p].created_ts = clock  BY <1>1, <1>2 DEF NoPlanYet
<1> QED  BY <1>1, <1>2, <1>3 DEF BuildPlan, MayBuild, storeVars

\* A janitor run that ignores the ttl was asked for, and finds no plan under way.
LEMMA ForcedRunsAlone == ASSUME ForcedAlone PROVE Spec => []ForcedRuns
<1>1. Init => ForcedRuns  BY DEF Init, IdleJanitor, ForcedRuns
<1>2. TypeInv /\ ForcedRuns /\ [Next]_vars => ForcedRuns'
  <2> SUFFICES ASSUME TypeInv, ForcedRuns, [Next]_vars PROVE ForcedRuns'  OBVIOUS
  <2>0. janitor \in Janitor  BY DEF TypeInv, TypeOK
  <2>1. CASE \E p \in PlanIds, r \in Requests : BuildPlan(p, r)
      BY <2>1, BuiltNow DEF ForcedRuns, ForcedAlone
  <2>2. ASSUME NEW ignoreTtl \in IgnoreTtl, RunJanitor(ignoreTtl) PROVE ForcedRuns'
    <3>1. janitor'.ignore_ttl = ignoreTtl /\ plans' = plans
        BY <2>2 DEF RunJanitor, IdleJanitor
    <3> QED  BY <2>2, <3>1 DEF ForcedRuns, ForcedAlone, RunJanitor
  <2>3. CASE /\ ~\E p \in PlanIds, r \in Requests : BuildPlan(p, r)
             /\ ~\E ignoreTtl \in IgnoreTtl : RunJanitor(ignoreTtl)
    <3>1. \A p \in PlanIds : plans'[p].pc \in Active => plans[p].pc \in Active
        BY <2>3, PlansWait DEF WaitsOn
    <3>2. \/ janitor' = janitor \/ janitor' = IdleJanitor
          \/ janitor.pc # "idle" /\ janitor'.ignore_ttl = janitor.ignore_ttl
      <4>1. CASE JanitorWorks
          BY <2>0, <4>1 DEF JanitorWorks, CleanupExpiredViews, DeleteEnvironments, GetExpiredBatch,
                            DropTables, DeleteExpired, JanitorStep, Janitor
      <4>2. CASE ~JanitorWorks
          BY <2>3, <4>2 DEF Next, StartPlan, PlanStops, ApplyPlan, CreateSnapshotRecords,
                PhysicalLayerUpdate, EnvironmentRecordUpdate, Unpause, PromoteView, DemoteView,
                FinalizeEnvironment, JanitorStops, Invalidate, TimePasses, vars
      <4> QED  BY <4>1, <4>2
    <3>3. janitor'.ignore_ttl => TRUE \in IgnoreTtl
      <4>1. CASE janitor' = IdleJanitor  BY <4>1 DEF IdleJanitor
      <4>2. CASE janitor'.ignore_ttl = janitor.ignore_ttl  BY <4>2 DEF ForcedRuns
      <4> QED  BY <3>2, <4>1, <4>2
    <3>4. janitor'.pc # "idle" => janitor.pc # "idle"
        BY <3>2 DEF IdleJanitor
    <3> QED  BY <3>1, <3>3, <3>4 DEF ForcedRuns
  <2> QED  BY <2>1, <2>2, <2>3
<1> QED  BY <1>1, <1>2, Typing, PTL DEF Spec

\* Only a promotion gives an environment to another plan, and it touches what it lets go of.
LEMMA ReplacedAreTouched ==
    ASSUME TypeInv, EnvironmentsResolve, [Next]_vars,
           NEW e \in EnvNames, Exists(e), envs'[e] # NoEnv, envs'[e].plan_id # envs[e].plan_id,
           NEW s \in SnapshotsOf(e), s \notin SnapshotsOf(e)'
    PROVE  s \in rows' /\ updated'[s] = clock
<1>1. s \in rows /\ s \in SnapshotIds
    BY DEF EnvironmentsResolve, TypeInv, TypeOK, StoreTypeOK
<1>2. ~UNCHANGED envs  OBVIOUS
<1>3. ASSUME NEW p \in PlanIds, Promotes(p) PROVE s \in rows' /\ updated'[s] = clock
  <2>1. /\ plans[p].name \in EnvNames
        /\ envs' = [envs EXCEPT ![plans[p].name] = plans[p].environment]
        /\ envs \in [EnvNames -> Environment \cup {NoEnv}]
      BY <1>3 DEF Promotes, Promote, TypeInv, TypeOK, StoreTypeOK, Plan
  <2>2. e = plans[p].name /\ envs'[e] = plans[p].environment  BY <2>1
  <2>3. s \notin plans[p].environment.snapshots  BY <2>2 DEF SnapshotsOf, Exists
  <2>4. /\ rows' = rows
        /\ updated' = Touched(SnapshotsOf(e) \ plans[p].environment.snapshots, clock)
      BY <1>3, <2>2 DEF Promotes, Promote
  <2> QED  BY <1>1, <2>3, <2>4 DEF Touched
<1>4. ASSUME NEW n \in EnvNames, Redates(n) PROVE FALSE
    BY <1>4, RedatingKeepsTheRest
<1>5. CASE DeleteExpiredEnvironments(janitor.current_ts)
    BY <1>5 DEF DeleteExpiredEnvironments
<1> QED
    BY <1>2, <1>3, <1>4, <1>5, StoreSteps DEF Pushes, DeleteExpiredSnapshots

LEMMA TtlStepRight ==
    ASSUME TypeInv, EnvironmentsResolve, ForcedRuns, TtlInv, [Next]_vars,
           lastUsed' = [s \in SnapshotIds |-> IF s \in InUse THEN clock ELSE lastUsed[s]],
           demoted' = (demoted \ InUse) \cup (InUse \cap (ReplacedByPlan \ InUse'))
    PROVE  TtlInv'
<1>1. /\ clock \in Nat /\ clock' \in Nat /\ clock <= clock'
      /\ rows \subseteq SnapshotIds /\ InUse \subseteq rows
      /\ Ttl \in [SnapshotIds -> Nat]
  <2>1. TypeInv'  BY TypeInvIsInductive
  <2> QED
      BY <2>1, StepsAgeRows, SnapshotConstants
         DEF RowsAge, EnvironmentsResolve, InUse, TypeInv, TypeOK, StoreTypeOK
<1>2. /\ lastUsed' \in [SnapshotIds -> Nat]
      /\ \A s \in SnapshotIds : lastUsed'[s] <= clock /\ lastUsed'[s] <= clock'
    BY <1>1 DEF TtlInv
<1>3. ASSUME NEW s \in demoted'
      PROVE  \/ s \in demoted /\ s \in SnapshotIds /\ lastUsed'[s] = lastUsed[s]
             \/ s \in rows /\ s \in rows' /\ updated'[s] = clock /\ s \in SnapshotIds
  <2>1. CASE s \in demoted \ InUse  BY <2>1 DEF TtlInv
  <2>2. CASE s \in InUse \cap (ReplacedByPlan \ InUse')
    <3>1. PICK e \in EnvNames :
            /\ Exists(e) /\ envs'[e] # NoEnv /\ envs'[e].plan_id # envs[e].plan_id
            /\ s \in SnapshotsOf(e)
        BY <2>2 DEF ReplacedByPlan
    <3>2. s \notin SnapshotsOf(e)'  BY <2>2 DEF InUse
    <3> QED  BY <1>1, <2>2, <3>1, <3>2, ReplacedAreTouched
  <2> QED  BY <2>1, <2>2
<1>4. demoted' \subseteq SnapshotIds  BY <1>3
<1>5. ASSUME NEW s \in demoted' \cap rows' PROVE Aged(s, updated[s])'
  <2>1. CASE updated'[s] = clock  BY <1>2, <1>3, <2>1 DEF Aged
  <2>2. CASE updated'[s] # clock
    <3>1. s \in demoted /\ lastUsed'[s] = lastUsed[s] /\ s \in SnapshotIds  BY <1>3, <2>2
    <3>2. CASE s \in rows
      <4>1. updated'[s] = updated[s] /\ Aged(s, updated[s])
          BY <2>2, <3>1, <3>2, StepsAgeRows DEF RowsAge, TtlInv
      <4>2. lastUsed[s] \in Nat /\ Ttl[s] \in Nat  BY <1>1, <3>1 DEF TtlInv
      <4> QED  BY <1>1, <3>1, <4>1, <4>2 DEF Aged
    <3>3. CASE s \notin rows
      <4>1. PICK p \in PlanIds : plans[p].pc = "push" /\ updated'[s] = plans[p].created_ts
          BY <3>3, StepsAgeRows DEF RowsAge
      <4>2. Aged(s, plans[p].created_ts)
          BY <3>1, <3>3, <4>1 DEF TtlInv, BeforePush
      <4>3. lastUsed[s] \in Nat /\ Ttl[s] \in Nat  BY <1>1, <3>1 DEF TtlInv
      <4> QED  BY <1>1, <3>1, <4>1, <4>2, <4>3 DEF Aged
    <3> QED  BY <3>2, <3>3
  <2> QED  BY <2>1, <2>2
<1>6. ASSUME NEW p \in PlanIds, plans'[p].pc \in BeforePush, NEW s \in demoted' \ rows'
      PROVE  Aged(s, plans[p].created_ts)'
  <2>1. s \in demoted /\ lastUsed'[s] = lastUsed[s] /\ s \in SnapshotIds  BY <1>3
  <2>2. lastUsed[s] \in Nat /\ Ttl[s] \in Nat  BY <1>1, <2>1 DEF TtlInv
  <2>3. CASE plans'[p].created_ts = clock  BY <1>2, <2>1, <2>3 DEF Aged
  <2>4. CASE plans[p].pc \in BeforePush /\ plans'[p].created_ts = plans[p].created_ts
    <3>1. CASE s \notin rows
      <4>1. Aged(s, plans[p].created_ts)  BY <2>1, <2>4, <3>1 DEF TtlInv
      <4> QED  BY <1>1, <2>1, <2>2, <2>4, <4>1 DEF Aged
    <3>2. CASE s \in rows
      <4>1. /\ janitor.pc = "delete" /\ plans[p].pc \in Active
            /\ janitor.ignore_ttl \/ updated[s] + Ttl[s] <= clock
          BY <2>4, <3>2, StepsAgeRows DEF RowsAge, BeforePush, Active
      <4>2. updated[s] + Ttl[s] <= clock  BY <4>1 DEF ForcedRuns
      <4>3. Aged(s, updated[s])  BY <2>1, <3>2 DEF TtlInv
      <4>4. updated[s] \in Nat  BY <2>1 DEF TypeInv, TypeOK, StoreTypeOK
      <4> QED  BY <1>1, <2>1, <2>2, <4>2, <4>3, <4>4 DEF Aged
    <3> QED  BY <3>1, <3>2
  <2> QED
    <3>1. CASE \E q \in PlanIds, r \in Requests : BuildPlan(q, r)
        BY <1>6, <2>3, <2>4, <3>1, BuiltNow
    <3>2. CASE ~\E q \in PlanIds, r \in Requests : BuildPlan(q, r)
        BY <1>6, <2>4, <3>2, PlansWait DEF WaitsOn
    <3> QED  BY <3>1, <3>2
<1> QED  BY <1>2, <1>4, <1>5, <1>6 DEF TtlInv

LEMMA TtlInvHolds == ASSUME ForcedAlone PROVE TtlSpec => []TtlInv
<1>1. TtlInit => Init /\ TtlInv
    BY DEF TtlInit, TtlInv, Init, StoreInit
<1>2. [TtlNext]_ttlVars => [Next]_vars  BY DEF TtlNext, ttlVars
<1>3. TypeInv /\ EnvironmentsResolve /\ ForcedRuns /\ TtlInv /\ [TtlNext]_ttlVars => TtlInv'
  <2> SUFFICES ASSUME TypeInv, EnvironmentsResolve, ForcedRuns, TtlInv, [TtlNext]_ttlVars
               PROVE  TtlInv'
      OBVIOUS
  <2>1. CASE TtlNext  BY <2>1, TtlStepRight DEF TtlNext
  <2>2. CASE UNCHANGED ttlVars
      BY <2>2 DEF ttlVars, vars, TtlInv, Aged
  <2> QED  BY <2>1, <2>2
<1> QED
    BY <1>1, <1>2, <1>3, Typing, Resolving, ForcedRunsAlone, PTL DEF TtlSpec, Spec

\* A snapshot that a plan replaced is not collected before its ttl has passed from
\* that moment on, however old its row was and however often the row was deleted and
\* written again: the touch of promote (environment.py), the created_ts of
\* push_snapshots and the selection of the janitor at its own time go together.
THEOREM ReplacedAreKept == ASSUME ForcedAlone PROVE TtlSpec => DemotedKeptForTtl
<1>1. [TtlNext]_ttlVars => [Next]_vars  BY DEF TtlNext, ttlVars
<1>2. TypeInv /\ TtlInv /\ [TtlNext]_ttlVars => [Kept(demoted)]_ttlVars
  <2> SUFFICES ASSUME TypeInv, TtlInv, [TtlNext]_ttlVars,
                      NEW s \in (demoted \cap rows) \ rows', ~janitor.ignore_ttl
               PROVE  clock - lastUsed[s] >= Ttl[s]
      BY DEF Kept
  <2>1. updated[s] + Ttl[s] <= clock  BY <1>1, StepsAgeRows DEF RowsAge
  <2>2. Aged(s, updated[s])  BY DEF TtlInv
  <2>3. /\ clock \in Nat /\ lastUsed[s] \in Nat /\ Ttl[s] \in Nat /\ updated[s] \in Nat
      BY SnapshotConstants DEF TtlInv, TypeInv, TypeOK, StoreTypeOK
  <2> QED  BY <2>1, <2>2, <2>3 DEF Aged
<1>3. TtlInit => Init  BY DEF TtlInit
<1> QED
    BY <1>1, <1>2, <1>3, Typing, TtlInvHolds, PTL DEF TtlSpec, Spec, DemotedKeptForTtl
=============================================================================
