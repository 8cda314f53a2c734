----------------------------- MODULE Lifecycle -----------------------------
(***************************************************************************)
(* The life of snapshots, environments, physical tables and views: plans   *)
(* applied by core/plan/evaluator.py in the order core/plan/stages.py puts *)
(* their stages, and the janitor of core/context.py and core/janitor.py,   *)
(* all working on one state store and one data warehouse.  A plan or the   *)
(* janitor may stop at any point.                                          *)
(*                                                                         *)
(* Every model is selected for backfill, a model's views live in a schema  *)
(* that other environments use too (environment_suffix_target = table),    *)
(* and dropping a table leaves the views over it alone.  Left out:         *)
(* intervals, audits, environment statements, schema migrations, gateways, *)
(* views that change their location, ensure_finalized_snapshots and        *)
(* always_recreate_environment.                                            *)
(***************************************************************************)
EXTENDS StateSync

CONSTANTS
    Requests,       \* what a user may ask a plan for
    ForwardOnly,    \* snapshots that are not deployable by nature
    EnvTtl,         \* environment_ttl of a development environment
    BatchSize,      \* expired_snapshots_batch_size
    IgnoreTtl,      \* the values of ignore_ttl the janitor is run with
    Overlap,        \* which of "plans" and "janitor" may run at the same time
    NoTable

Names == {Name[s] : s \in SnapshotIds}

Request == [env : EnvNames, snapshots : SUBSET SnapshotIds, promoted : SUBSET SnapshotIds]

ASSUME LifecycleConstants ==
    /\ Requests \subseteq Request
    /\ \A r \in Requests :
        /\ r.promoted \subseteq r.snapshots
        /\ r.env = Prod => r.promoted = r.snapshots
        /\ \A s, t \in r.snapshots : Name[s] = Name[t] => s = t
    /\ ForwardOnly \subseteq SnapshotIds
    /\ EnvTtl \in Nat
    /\ BatchSize \in Nat \ {0}
    /\ IgnoreTtl \subseteq BOOLEAN
    /\ NoTable \notin Tables

VARIABLES
    plans,      \* the plans being applied
    janitor,    \* the janitor's local state
    tables,     \* the physical tables that exist
    views       \* for each environment and model, the table its view selects from

vars == <<clock, rows, updated, unpaused, envs, plans, janitor, tables, views>>

Active == {"built", "push", "create", "promote", "unpause", "views"}

JanitorSteps == {"idle", "views", "environments", "batch", "drop", "delete"}

Plan ==
    [pc : Active \cup {"idle", "done", "failed"}, name : EnvNames,
     environment : Environment \cup {NoEnv}, created_ts : Nat,
     new_snapshots : SUBSET SnapshotIds, environment_snapshots : SUBSET SnapshotIds,
     snapshots : SUBSET SnapshotIds, representative : SUBSET SnapshotIds,
     promoted_snapshots : SUBSET SnapshotIds, demoted_snapshots : SUBSET SnapshotIds]

Janitor ==
    [pc : JanitorSteps, current_ts : Nat, ignore_ttl : BOOLEAN,
     expired_environments : SUBSET EnvNames,
     start : Boundary, end : Boundary, cleanup_tasks : SUBSET Tables]

TypeOK ==
    /\ StoreTypeOK
    /\ plans \in [PlanIds -> Plan]
    /\ janitor \in Janitor
    /\ tables \subseteq Tables
    /\ views \in [EnvNames -> [Names -> Tables \cup {NoTable}]]

NoPlanYet ==
    [pc |-> "idle", name |-> Prod, environment |-> NoEnv, created_ts |-> 0,
     new_snapshots |-> {}, environment_snapshots |-> {}, snapshots |-> {},
     representative |-> {}, promoted_snapshots |-> {}, demoted_snapshots |-> {}]

IdleJanitor ==
    [pc |-> "idle", current_ts |-> 0, ignore_ttl |-> FALSE, expired_environments |-> {},
     start |-> LowestBoundary, end |-> LowestBoundary, cleanup_tasks |-> {}]

Init ==
    /\ StoreInit
    /\ plans = [p \in PlanIds |-> NoPlanYet]
    /\ janitor = IdleJanitor
    /\ tables = {}
    /\ views = [e \in EnvNames |-> [n \in Names |-> NoTable]]

Step(p, from, to) ==
    /\ plans[p].pc = from
    /\ plans' = [plans EXCEPT ![p].pc = to]

\* An error ends the plan; nothing it did is undone.
Stop(p) == plans' = [plans EXCEPT ![p].pc = "failed"]
-----------------------------------------------------------------------------
(***************************************************************************)
(* Building a plan: ContextDiff.create and PlanBuilder.build.              *)
(***************************************************************************)
MayBuild(p, name) ==
    /\ "plans" \in Overlap
         \/ \A q \in PlanIds \ {p} : plans[q].pc \in Active => plans[q].name # name
    /\ "janitor" \in Overlap \/ janitor.pc = "idle"

IsNewEnvironment(name) == ~Exists(name) \/ Expired(envs[name], clock)

\* The environment a plan is compared with; a new one is created from prod.
ComparedWith(name) == IF IsNewEnvironment(name) THEN Prod ELSE name

BuildPlan(p, r) ==
    LET base == ComparedWith(r.env)
        isUnfinalized == Exists(base) /\ ~envs[base].finalized
    IN  /\ plans[p].pc = "idle"
        /\ MayBuild(p, r.env)
        /\ plans' = [plans EXCEPT ![p] =
            [NoPlanYet EXCEPT
                !.pc = "built",
                !.name = r.env,
                !.created_ts = clock,
                !.new_snapshots = r.snapshots \ rows,
                !.environment_snapshots = SnapshotsOf(base),
                !.environment =
                    [plan_id |-> p,
                     previous_plan_id |->
                        IF IsNewEnvironment(r.env) THEN NoPlan ELSE envs[r.env].plan_id,
                     snapshots |-> r.snapshots,
                     promoted |-> r.promoted,
                     previous_finalized |->
                        IF isUnfinalized THEN envs[base].previous_finalized
                                         ELSE SnapshotsOf(base),
                     expiration_ts |-> Never,
                     finalized |-> FALSE]]]
        /\ UNCHANGED <<clock, storeVars, janitor, tables, views>>

(***************************************************************************)
(* The start of an application: to_evaluatable dates the expiration of a   *)
(* development environment, PlanStagesBuilder.build reads the store again  *)
(* and fixes what the later stages work on.  Of the snapshots the plan did *)
(* not create itself, it knows those that have a record now.               *)
(***************************************************************************)
\* A mutant of CanPartiallyPromote: prod is taken to be in order as it is.
TrustProd(name) == name = Prod

CanPartiallyPromote(name) ==
    /\ envs[name].finalized
    /\ ~Expired(envs[name], clock)
    /\ name = Prod

SnapshotsToPromote(name, environment) ==
    environment.promoted
        \ (IF Exists(name) /\ CanPartiallyPromote(name) THEN envs[name].promoted ELSE {})

SnapshotsToDemote(name, environment) ==
    IF Exists(name)
    THEN {s \in envs[name].promoted : \A t \in environment.promoted : Name[t] # Name[s]}
    ELSE {}

IsDeployable(p, s) == plans[p].name = Prod \/ s \notin ForwardOnly

StartPlan(p) ==
    LET name == plans[p].name
        environment == plans[p].environment
    IN  /\ plans[p].pc = "built"
        /\ plans' = [plans EXCEPT ![p] =
            [@ EXCEPT
                !.pc = "push",
                !.environment.expiration_ts = IF name = Prod THEN Never ELSE clock + EnvTtl,
                !.snapshots = environment.snapshots \cap (plans[p].new_snapshots \cup rows),
                !.representative = {s \in SnapshotIds : IsDeployable(p, s) \/ s \in unpaused},
                !.promoted_snapshots = SnapshotsToPromote(name, environment),
                !.demoted_snapshots = SnapshotsToDemote(name, environment)]]
        /\ UNCHANGED <<clock, storeVars, janitor, tables, views>>
-----------------------------------------------------------------------------
(***************************************************************************)
(* The stages of a plan, one visit_*_stage of BuiltInPlanEvaluator each.   *)
(***************************************************************************)
CreateSnapshotRecords(p) ==
    /\ Step(p, "push", "create")
    /\ PushSnapshots(plans[p].new_snapshots, plans[p].created_ts)
    /\ UNCHANGED <<clock, janitor, tables, views>>

TablesToCreate(p) ==
    {TableName(s, IsDeployable(p, s)) : s \in plans[p].snapshots}

PhysicalLayerUpdate(p) ==
    /\ plans[p].pc = "create"
    /\ \/ /\ Step(p, "create", "promote")
          /\ tables' = tables \cup TablesToCreate(p)
       \/ \E created \in SUBSET TablesToCreate(p) :
            /\ Stop(p)
            /\ tables' = tables \cup created
    /\ UNCHANGED <<clock, storeVars, janitor, views>>

AfterRecordUpdate(p) ==
    IF plans[p].name = Prod /\ plans[p].promoted_snapshots # {} THEN "unpause" ELSE "views"

EnvironmentRecordUpdate(p) ==
    LET name == plans[p].name
        environment == plans[p].environment
    IN  /\ plans[p].pc = "promote"
        /\ \/ /\ Promote(name, environment)
              /\ Step(p, "promote", AfterRecordUpdate(p))
           \/ /\ MissingSnapshots(environment) # {} \/ ConflictingPlan(name, environment)
              /\ Stop(p)
              /\ UNCHANGED storeVars
        /\ UNCHANGED <<clock, janitor, tables, views>>

Unpause(p) ==
    /\ Step(p, "unpause", "views")
    /\ UnpauseSnapshots(plans[p].promoted_snapshots)
    /\ UNCHANGED <<clock, janitor, tables, views>>

ViewTable(p, s) == TableName(s, s \in plans[p].representative)

\* The views are replaced concurrently.  A snapshot the plan does not know is an
\* error before the first view, a view over a table that is gone when it is its turn.
PromoteView(p, s) ==
    /\ plans[p].pc = "views"
    /\ s \in plans[p].promoted_snapshots
    /\ IF plans[p].promoted_snapshots \subseteq plans[p].snapshots /\ ViewTable(p, s) \in tables
       THEN /\ views' = [views EXCEPT ![plans[p].name][Name[s]] = ViewTable(p, s)]
            /\ plans' = [plans EXCEPT ![p].promoted_snapshots = @ \ {s}]
       ELSE Stop(p) /\ UNCHANGED views
    /\ UNCHANGED <<clock, storeVars, janitor, tables>>

DemoteView(p, s) ==
    /\ plans[p].pc = "views"
    /\ plans[p].promoted_snapshots = {}
    /\ s \in plans[p].demoted_snapshots
    /\ views' = [views EXCEPT ![plans[p].name][Name[s]] = NoTable]
    /\ plans' = [plans EXCEPT ![p].demoted_snapshots = @ \ {s}]
    /\ UNCHANGED <<clock, storeVars, janitor, tables>>

\* A mutant of FinalizeEnvironment: an environment that was taken over is not an
\* error.
FinalizeOrWait(p) ==
    /\ plans[p].pc = "views"
    /\ plans[p].promoted_snapshots = {}
    /\ plans[p].demoted_snapshots = {}
    /\ Finalize(plans[p].name, p)
    /\ Step(p, "views", "done")
    /\ UNCHANGED <<clock, janitor, tables, views>>

FinalizeEnvironment(p) ==
    LET name == plans[p].name
    IN  /\ plans[p].pc = "views"
        /\ plans[p].promoted_snapshots = {}
        /\ plans[p].demoted_snapshots = {}
        /\ \/ Finalize(name, p) /\ Step(p, "views", "done")
           \/ ~CanFinalize(name, p) /\ Stop(p) /\ UNCHANGED storeVars
        /\ UNCHANGED <<clock, janitor, tables, views>>

\* A stage raises, or the process that applies the plan goes away.
PlanStops(p) ==
    /\ plans[p].pc \in Active
    /\ Stop(p)
    /\ UNCHANGED <<clock, storeVars, janitor, tables, views>>
-----------------------------------------------------------------------------
(***************************************************************************)
(* The janitor: _run_janitor, _cleanup_environments and                    *)
(* delete_expired_snapshots.                                               *)
(***************************************************************************)
JanitorStep(from, to) ==
    /\ janitor.pc = from
    /\ janitor' = [janitor EXCEPT !.pc = to]

RunJanitor(ignoreTtl) ==
    /\ janitor.pc = "idle"
    /\ "janitor" \in Overlap \/ \A p \in PlanIds : plans[p].pc \notin Active
    /\ janitor' = [IdleJanitor EXCEPT
            !.pc = "views",
            !.current_ts = clock,
            !.ignore_ttl = ignoreTtl,
            !.expired_environments = ExpiredEnvironments(clock)]
    /\ UNCHANGED <<clock, storeVars, plans, tables, views>>

\* The record is read again, but not whether it is still expired.
CleanupExpiredViews(e) ==
    /\ janitor.pc = "views"
    /\ e \in janitor.expired_environments
    /\ janitor' = [janitor EXCEPT !.expired_environments = @ \ {e}]
    /\ views' = [views EXCEPT ![e] =
            [n \in Names |-> IF n \in {Name[s] : s \in SnapshotsOf(e)} THEN NoTable ELSE @[n]]]
    /\ UNCHANGED <<clock, storeVars, plans, tables>>

DeleteEnvironments ==
    /\ janitor.expired_environments = {}
    /\ JanitorStep("views", "batch")
    /\ DeleteExpiredEnvironments(janitor.current_ts)
    /\ UNCHANGED <<clock, plans, tables, views>>

ExpiredBatch ==
    FirstRows(Candidates(rows, updated, PromotedIds, janitor.current_ts,
                         janitor.ignore_ttl, janitor.start),
              updated, BatchSize)

\* A mutant of BatchEnd: the range of a batch ends where the one before it did.
SameBatchEnd(last) == janitor.start

BatchEnd(last) == RowBoundary(updated, last)

GetExpiredBatch ==
    /\ janitor.pc = "batch"
    /\ \/ /\ ExpiredBatch = {}
          /\ janitor' = IdleJanitor
       \/ \E last \in ExpiredBatch :
            /\ IsLastRow(last, ExpiredBatch, updated)
            /\ janitor' = [janitor EXCEPT
                    !.pc = "drop",
                    !.end = BatchEnd(last),
                    !.cleanup_tasks = TablesToDrop(rows, ExpiredBatch)]
    /\ UNCHANGED <<clock, storeVars, plans, tables, views>>

DropTables ==
    /\ janitor.pc = "drop"
    /\ \/ /\ tables' = tables \ janitor.cleanup_tasks
          /\ janitor' = [janitor EXCEPT !.pc = "delete", !.cleanup_tasks = {}]
       \/ \E dropped \in SUBSET janitor.cleanup_tasks :
            /\ tables' = tables \ dropped
            /\ janitor' = IdleJanitor
    /\ UNCHANGED <<clock, storeVars, plans, views>>

\* delete_expired_snapshots is not given current_ts: it selects again as of now.
DeleteExpired ==
    /\ janitor.pc = "delete"
    /\ DeleteExpiredSnapshots(clock, janitor.ignore_ttl, janitor.end)
    /\ janitor' = [janitor EXCEPT !.pc = "batch", !.start = janitor.end]
    /\ UNCHANGED <<clock, plans, tables, views>>

JanitorStops ==
    /\ janitor.pc # "idle"
    /\ janitor' = IdleJanitor
    /\ UNCHANGED <<clock, storeVars, plans, tables, views>>
-----------------------------------------------------------------------------
Invalidate(e) ==
    /\ InvalidateEnvironment(e)
    /\ UNCHANGED <<clock, plans, janitor, tables, views>>

TimePasses ==
    /\ Tick
    /\ UNCHANGED <<plans, janitor, tables, views>>

ApplyPlan(p) ==
    \/ CreateSnapshotRecords(p)
    \/ PhysicalLayerUpdate(p)
    \/ EnvironmentRecordUpdate(p)
    \/ Unpause(p)
    \/ \E s \in SnapshotIds : PromoteView(p, s) \/ DemoteView(p, s)
    \/ FinalizeEnvironment(p)

JanitorWorks ==
    \/ \E e \in EnvNames : CleanupExpiredViews(e)
    \/ DeleteEnvironments
    \/ GetExpiredBatch
    \/ DropTables
    \/ DeleteExpired

Next ==
    \/ \E p \in PlanIds, r \in Requests : BuildPlan(p, r)
    \/ \E p \in PlanIds : StartPlan(p) \/ ApplyPlan(p) \/ PlanStops(p)
    \/ \E ignoreTtl \in IgnoreTtl : RunJanitor(ignoreTtl)
    \/ JanitorWorks
    \/ JanitorStops
    \/ \E e \in EnvNames : Invalidate(e)
    \/ TimePasses

Spec == Init /\ [][Next]_vars

\* Each stage of a plan and each step of the janitor is ordinary code that,
\* once it runs, ends in a result or in an error.  Building and starting plans,
\* and running the janitor, is up to the user.
Fairness ==
    /\ \A p \in PlanIds : WF_vars(ApplyPlan(p))
    /\ WF_vars(JanitorWorks)

FairSpec == Spec /\ Fairness
=============================================================================
