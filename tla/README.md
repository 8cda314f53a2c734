# SQLMesh: a TLA+ verification of plans, the state store and the janitor

SQLMesh keeps versions of data models ("snapshots") in a state database, their
data in physical tables of a warehouse, and lets *environments* (prod, dev, ...)
point at snapshots through views. A *plan* changes an environment, a *janitor*
collects what no environment needs any more, `sqlmesh run` fills intervals of
data. Any number of these processes work on the same state database and the same
warehouse, started by people, by cron and by CI, and any of them may stop half way.
This directory models that core: environments, snapshots and plans, the janitor, the log of
intervals and the arithmetic on intervals, restatements, the scheduler, and how versions
and tables of models come about. It checks them with TLC and proves part of them with TLAPS.

Paths below are relative to `src/sqlmesh/`.

## 1. Inventory

| Component | Code | State | Operations | Talks to |
|---|---|---|---|---|
| Environments in the state store | `core/state_sync/db/environment.py`, `db/facade.py` | `_environments`: plan id, previous plan id, snapshots, promoted snapshots, last finalized snapshots, expiration, finalized | promote, finalize, invalidate, list and delete expired | plan evaluator, janitor |
| Snapshots in the state store | `core/state_sync/db/snapshot.py`, `core/state_sync/common.py` | `_snapshots`: name, identifier, version, dev_version, updated_ts, ttl, unpaused_ts | push, touch, unpause, select expired in batches, delete | plan evaluator, janitor |
| Intervals in the state store | `core/state_sync/db/interval.py` | `_intervals`: a log of added and removed intervals | add, remove, pending restatements, replay, compact, clean up | scheduler, restatement, janitor |
| Plan building | `core/context_diff.py`, `core/plan/builder.py`, `definition.py` | the plan object | compare with an environment, categorise, fix the record to be written | state store (reads) |
| Plan stages and evaluator | `core/plan/stages.py`, `core/plan/evaluator.py` | the stages, computed from a second read of the store | push records, create tables, backfill, promote, unpause, views, finalize | state store, snapshot evaluator, scheduler |
| Janitor | `core/janitor.py`, `core/context.py` | `current_ts`, the batch in hand | drop expired environments, batches of snapshots, compaction | state store, snapshot evaluator |
| Snapshot evaluator | `core/snapshot/evaluator.py` | none | create, promote, demote, drop tables and views | warehouse |
| Concurrent execution over a DAG | `utils/concurrency.py` | unprocessed nodes, count, future, errors, skipped | apply a function to each node with n threads | scheduler, snapshot evaluator |
| Scheduler | `core/scheduler.py` | merged intervals, the DAG of batches | compute and run missing intervals | DAG executor, interval state |
| Run loop | `core/context.py` (`run`) | plan id at the start | wait for a finalized environment, run, restart when it changes | scheduler, state store |
| Missing intervals | `core/snapshot/definition.py`, `core/node.py` | the list of intervals of a snapshot | merge, remove, what is missing up to now (cron, unit, lookback, partial intervals, start, end), batches | scheduler, plans, restatement |
| Restatement | `core/plan/common.py`, `evaluator.py` | none | clear intervals of all versions of a model | interval state |
| Categorisation and deployability | `core/snapshot/definition.py`, `categorizer.py` | versions of a snapshot | categorise, name tables, deployability | everything |
| Migrations, export/import, cache, connection pools, engine adapters | various | | | |
| Models, loader, renderer, linter, dialect, CLI, web, LSP, dbt | various | | | |

What is hard here, and what each component has to guarantee:

* **State store.** Several writers with stale knowledge. An environment must refer
  only to stored snapshots; an update must not overwrite one it has not seen; what is
  needed to go back must survive; a snapshot must live for its ttl after its last use.
* **Plans.** A sequence of stages, each of which may fail or be the last one, with other
  plans and the janitor in between, and decisions (which views, which tables) taken
  from a record that an earlier, unfinished plan may have written. A *finalized*
  environment must be what its record says.
* **Janitor.** Select, drop, delete, as three steps outside of a transaction, batch by
  batch, with tables shared between snapshots in and outside of the batch. It must not
  drop what is used, must not leave what is not, and must end.
* **DAG executor.** Threads that return and fail in any order, a count that decides
  when the caller is woken up. It must agree with the sequential visit and end.
* **Intervals.** What has been loaded is a log that everybody replays in the order of
  created_ts, and that the janitor rewrites while others append to it. Whoever replays it
  must learn what was loaded and not cleared since, for the tables a snapshot has, also
  through snapshots that share them and through those that are gone.
* **Restatement.** The range of a model and of what is downstream of it is computed anew, for
  hours, while other versions of the same models are built from the old data and
  deployed. Old data must not pass for good afterwards, and prod must not lose what it has.
* **Scheduler and run loop.** What is missing is cut into batches, which wait for each other
  and for what is upstream, by rules that depend on signals, batch sizes, concurrency,
  depends_on_past, and on what has a table. An interval must not be evaluated before what it
  is computed from, nothing must be left out or held back without a reason, the
  environment may change under the run, and the run must end.

* **Missing intervals.** Five clocks that need not be aligned: the range of the request, the
  ticks of the cron, the interval unit, the start and the end of the model. Lookback takes
  back what was loaded, restatements take it away. Every due interval is loaded, once it is over and
  not before, and what late data may have changed is loaded again.
* **Versions.** A snapshot gets a new table or keeps that of its predecessor by the category of
  its change and of those upstream, plan by plan, against different environments. Prod must
  have what its code would compute, and development must not put anything else into tables
  that prod takes over.

`PROJECT.json` lists the hazards at the lines where they bite, each with its property
or with the reason why there is none yet.

## 2. Modules

| Module | Contents |
|---|---|
| `SnapshotRegistry` | abstract: environments as references into a set of stored snapshots |
| `ExpiredSnapshots` | pure operators: row boundaries, batches, shared versions, tables to drop |
| `StateSync` | the two tables of the state store, one action (operator) per transaction of `EngineAdapterStateSync` |
| `Lifecycle` | composes: plans, the janitor, invalidations and time over `StateSync`, with tables and views |
| `LifecycleProperties` | properties of `Lifecycle`, and the refinement mapping to `SnapshotRegistry` |
| `SnapshotTtl` | `Lifecycle` with a history variable: when a snapshot was used last and how it went out of use |
| `CleanupLoop` | the loop of `get_expired_snapshots` over a batch, step by step, in any order |
| `DagTraversal` | abstract: each node once, after its dependencies, skips only after failures |
| `DagExecutor` | `concurrent_apply_to_dag`: the threads, and the sequential visit |
| `IntervalStore` | abstract: for every table what has been loaded |
| `IntervalLog` | the `_intervals` table: additions, removals, pending restatements, replay, compaction, cleanup; the refinement mapping to `IntervalStore` |
| `Restatement` | a restatement plan of prod next to plans that try and deploy other versions |
| `Scheduler` | `sqlmesh run`: waiting, batches, the graph of batches, the workers, restarts |
| `Intervals` | pure operators: merging, removing, expanding, missing units, lookback, batches, `interval_diff` |
| `MissingIntervals` | one model over time: runs, plans and restatements that ask what is missing and load it in batches |
| `Versions` | plans and runs over a graph of models: fingerprints, categories, versions, deployability, the rows of tables |
| `UpTheGraph` | lemmas for several proofs: least elements, functions that are computed going up a graph, recursive or over sets, graphs without cycles |
| `LifecycleProofs`, `DagExecutorProofs`, `RestatementProofs`, `SchedulerProofs`, `VersionsProofs`, `MissingIntervalsProofs` | theorems and proofs about the module in the name |
| `IntervalLogProofs` | theorems and proofs about `IntervalLog` and about `CleanupLoop`, with the lemmas about `TablesToDrop` that both rest on |
| `MC*` | instances for TLC |

### State and actions

`StateSync` keeps `rows`, `updated` and `unpaused` for `_snapshots` (existence,
`updated_ts`, `unpaused_ts`), `envs` for `_environments` and `clock` for
`now_timestamp()`. A method that is decorated with `@transactional()`, or that is a
single statement, is one step. `Promote` is guarded by what the method raises for
(missing snapshots, a conflicting plan id); whoever calls it models the error.

`Lifecycle` adds `plans` (one record for each plan: the stage it is at and what it fixed
earlier), `janitor` (its locals), `tables` and `views`.

| Action | Code |
|---|---|
| `BuildPlan` | `ContextDiff.create`, `Plan.environment`: the record to be written and the plan id it assumes |
| `StartPlan` | `to_evaluatable` and `PlanStagesBuilder.build`: reads the store again, fixes the snapshots to promote and to demote, and which tables represent them |
| `CreateSnapshotRecords`, `PhysicalLayerUpdate`, `EnvironmentRecordUpdate`, `Unpause`, `FinalizeEnvironment` | the `visit_*_stage` methods of `BuiltInPlanEvaluator` |
| `PromoteView`, `DemoteView` | `visit_virtual_layer_update_stage`, view by view, because the views are written one by one and the plan may stop between them |
| `PlanStops` | any exception, or the end of the process, between two steps |
| `RunJanitor`, `CleanupExpiredViews`, `DeleteEnvironments` | `_run_janitor`, `_cleanup_environments`: the list of expired environments is read once, each record again |
| `GetExpiredBatch`, `DropTables`, `DeleteExpired` | one batch of `janitor.delete_expired_snapshots`: select at `current_ts`, drop (some of) the tables, select again *as of now* and delete |
| `JanitorStops`, `Invalidate`, `TimePasses` | an exception, `invalidate_environment`, the clock |

`CleanupLoop` has the two dictionaries of the loop, what is left to visit and the tables of
the cleanup tasks. `Lifecycle` uses `TablesToDrop`, a closed form of its result for rows
in key order; `DropsTheRest` says that the loop computes it.

`DagExecutor` has `status` for every node, `waiting` and `num` for
`_unprocessed_nodes` and `_unprocessed_nodes_num`, `finished` for the future and `main`
for the calling thread. What a thread does under the lock is one step. The end of the
function and the handling of it are two steps. After the pool has been shut down
`submit` raises inside the handler; the node that was due is `dropped`.

`IntervalLog` has the rows of `_intervals` in `log`, and in `read` what a compaction has
read and not written back. A row has its kind (added, added to a preview table, removed,
pending restatement), the version, the preview version, the identifier, the points in time it covers and
its `created_ts`. `AddInterval`, `AddPendingRestatement` and `RemoveIntervals` append;
`CompactRead` and `CompactWrite` are the statements of `compact_intervals`, and `Meanwhile` says
what may commit between them; `DeleteSnapshots` is what `delete_expired_snapshots` does to
intervals: compact, delete the rows of dropped tables, nullify the identifiers of the
others. `pushed` is history: whoever has read a snapshot may record intervals for it, stored or
not, as none of the calls asks. `Loaded`, `Previewed` and `PendingOf` are the replay.

`Restatement` keeps what the state says is loaded (`loaded`) apart from what is in the
tables (`old`: points with rows from before the restatement). `StartPlan`, `EvaluateInPlan` and
`FinishPlan` are any other plan; `StartRestatement`, `Backfill`, `ClearIntervals`
(`visit_restatement_stage` with `identify_restatement_intervals_across_snapshot_versions`) and
`UpdateRecord` are the restatement plan. A snapshot that is new takes over the table of the version
in the environment its plan is compared with, or has one of its own (`Remote`, `TablesFromRemote`). Whether a
version's ttl is over is any choice among `ShortLived` when the intervals are cleared. `PlanBuilder` and the stages compute *affected* snapshots
in the operators `ToRestate`, `AffectedInEnvironments`, `SnapshotsToClear` and
`DeployedDuringRestatement`.

`Scheduler` has `run` for the locals of `Context.run` and `_run_or_audit` (attempts, plan id
at the start, snapshots, batches, what is not ready), `started`, `done` and `failed` for the
nodes, and `loaded`, `tables`, `env` for the state store and the warehouse. `Wait`,
`BlockUntilFinalized`, `EndRun` and `Restart` are the loop of `Context.run`; `Start` is
`merged_missing_intervals` and `batch_intervals`; `Dependencies` is `_dag`; `StartNode`,
`FinishNode`, `FailNode` and `VisitDummy` are `run_node` in the worker threads (`run.passed`: the dummy nodes
that have been visited). `UpdateEnvironment` and
`FinalizeEnvironment` are plans that go on meanwhile.

`MissingIntervals` has one model (`node`), the clock, the list `intervals` as the code keeps it,
the state of the current `run`, and `asof`: for every tick of the clock the execution time of the
evaluation that wrote its rows. `Run` and `Restate` compute the batches at once (`Missing`,
`Batches`: from `missing_intervals` in `core/snapshot/definition.py` to `batch_intervals`),
`EvaluateBatch` is one batch with the recording of its interval, `ClearIntervals` what the
restatement of prod does to a version of the model that prod does not have, `Stop` a failure.
`Intervals` has the functions that they call. It is also what justifies the other modules,
in which a list of intervals is the set of points in time that it covers.

`Versions` has the `_snapshots` table (`stored`: the category, version and predecessors of
each snapshot; `unpaused`, `unrestorable`), `envs`, and the `rows` of every table: for each point
which revision of the model computed it from which rows of the parents. `Plan` is a whole
plan, from the comparison with the environment (`Remote`, `IsNew`) over fingerprints (`SnapshotsOf`), categories
(`DirectCategory`, `IndirectCategory`, `OrphanedCategory`, `CategorizedAs`) and the
`DeployabilityIndex` to the backfills before and after the record update, for dev (`DevPlan`) or prod
(`ProdPlan`); `Run` is `sqlmesh run`, `RemoveDev` the expiration of the dev environment.

### Abstractions

* A snapshot is a model value with constants for its name, version, dev version, ttl and
  rank in the order of keys. Whether it is deployable by nature is a constant
  (`ForwardOnly`). The fingerprint, the query and the data are left out.
* Every model is selected for backfill. Intervals are left out, so no stage depends on
  missing intervals, and a plan without changes is applied like any other.
* Creating tables is one step that may fail with any part of them created; dropping
  tables likewise. Dropping a table leaves the views over it alone (engines differ).
* A view is the table it selects from.
* A transaction of the state store is one step (serializable isolation).
* A list of intervals is the set of the points in time it covers. In `Scheduler` a point is
  an interval, and all models have the same interval unit; audit-only
  runs, auto-restatement and selection of models are left out (lookback and partial intervals: `MissingIntervals`).
  A dummy node is visited in one step; a breaker that has been tripped is not tripped by further ones.
* In `IntervalLog` what one call writes for a snapshot is one row, and two transactions never
  write in the same millisecond (within one transaction rows do have the same `created_ts`). Left out is
  `effective_from`: a forward-only snapshot that has one takes over only what others loaded before it
  (`core/snapshot/definition.py:970`), so for such a snapshot `Loaded` and `Previewed` tell too much.
* In `Restatement` the interval clearing and the plans around it do not overlap with other plans *at the
  moment of the clearing* (a plan that is under way when the intervals are cleared adds
  what it computed from old tables afterwards; the code does not look at that, see the hazard at
  `core/plan/common.py:148`). Models with `disable_restatement` are left out, and so is the janitor, which
  removes a version together with its table and its intervals. An environment that has expired is not
  compared with prod until it is gone.
* In `MissingIntervals` a unit and the cron are numbers of ticks (no months, no time zones), there
  is one model, and what its parents hold back (`Signals`) is any of a set of lists. A run
  does not look at the clock after it has begun, so that time stands still while it goes on.
  Restated intervals come from the model's own request, not from restated parents.
* In `Versions` one command runs at a time and does not fail. An interval is a point. The rows of a
  point are a revision and the rows of the parents it was computed from; what previews (tables of forward-only
  changes in development) contain is left out. Changes are categorised by the default automatic categorisation:
  an additive change is non-breaking, any other one breaking. Left out: metadata-only changes, seeds,
  changes of a model's kind, forward-only models (plans are), `depends_on_past`, automatic
  restatement, the trimming of `previous_versions`.
* Left out of `Lifecycle`: audits, environment statements, schema migrations, gateways,
  views that change their location, no-gaps checks, `ensure_finalized_snapshots`,
  `always_recreate_environment`, the suffix targets other than `table`.

## 3. Runs

Passing:

| Run | Question | Size |
|---|---|---|
| `overlapping` | Whatever runs at the same time (two plans, the janitor, invalidations, crashes), does the store stay intact? `EnvironmentsResolve`, `NoLostUpdate`, `RollbackTargetsKept`, `RegistrySpec` | 1.0 M states |
| `exclusive` | One command after the other, each stopping anywhere: is a finalized environment right? `FinalizedViews`, `FinalizedTablesExist`, `ProdUnpaused` | 1.2 M states |
| `replacing` | Does a replaced snapshot live for its ttl (`DemotedKeptForTtl`), and do plans and janitor runs end (`PlansEnd`, `JanitorEnds`)? | 0.1 M states |
| `cleanup_loop` | Does the cleanup loop drop the right tables, in any order? `SharedTablesKept`, `DropsTheRest`, `NothingLeaks` | 6 K states |
| `dag_executor` | Do the threads agree with the sequential visit, and end? `AsInSequence`, `TraversalSpec`, `RunEnds` | 50 K states |
| `interval_log` | Does everybody learn from the log what has been loaded (`StoreSpec`, `CallsCount`), is compaction invisible (`CompactionInvisible`), are pending restatements kept (`PendingKept`), and is what the log says of a table that nobody has due to late evaluations alone (`OnlyLateRowsLinger`)? | 86 K states |
| `restatement` | Do old rows get to prod after a restatement (`LookedAfterFresh`, `PromotedFresh`), does prod keep what it has (`ProdStaysLoaded`), and does the plan fail if prod has changed (`SuccessIsOfProd`)? | 413 K states |
| `scheduler` | Are batches evaluated in the right order (`UpstreamFirst`, `PastFirst`, `TargetExists`), for the right environment (`OwnEnvironment`), is nothing left out (`SuccessLeavesUnready`, `SkippedBehindFailure`), does the run end (`RunEnds`)? | 70 K states |
| `missing_intervals` | Is the list kept in form (`TypeOK`), what is recorded complete (`WholeIntervals`), late data picked up (`LookedBack`), everything due loaded (`CaughtUp`) and everything restated new (`RestatedAnew`)? | 71 K states |
| `versions` | Does prod have what its code computes (`ProdIsRebuilt`), and are tables that prod may take over free of what came from previews (`ReadyForProd`)? `TypeOK` | 111 K states |

Violated, each a disagreement between what the repository says and what the code does:

| Run | Property | What happens |
|---|---|---|
| `breaking_behind` | `ProdIsRebuilt` | in one plan a model breaks and its child adds a column; the grandchild counts as changed in a non-breaking way, keeps its table, and with it rows from before the break |
| `unpromoted_versions` | `NoOldDataPromoted` | a version is tried in dev and replaced there by that of prod, nobody else has another version of the model; a restatement of prod does not find it, and it is promoted later with the old rows |

### Further counterexamples

Configurations that are not among the runs. Each shows with one property where the code has
no rule, or a rule that does not reach far enough; some of them delimit what the passing runs say.

| Configuration (module) | Property | What happens |
|---|---|---|
| `MCOverlappingPlans.cfg` (`MCLifecycle`) | `FinalizedViews` | a plan that was overtaken after its record update writes its views after the other one has finalized |
| `MCJanitorDuringPlan.cfg` (`MCLifecycle`) | `DroppedTablesUnused` | a plan takes up an expired snapshot between the selection of the batch and the drop of its tables |
| `MCStoppedPlan.cfg` (`MCLifecycle`) | `NoStaleViews` | a plan that removes a model stops after the record update; the next plan finalizes and nobody deletes the view |
| `MCSharedPreviews.cfg` (`MCLifecycle`) | `SharedPreviewsKept` | equal changes, one breaking and one forward-only, share a preview table; collecting one drops it |
| `MCUnusedTtl.cfg` (`MCSnapshotTtl`) | `UnusedKeptForTtl` | an environment expires; what only it used is deleted in the same janitor run |
| `MCUnloadedParents.cfg` (`MCScheduler`) | `UpstreamFirst` | the model in the middle depends on its past and is not evaluated behind an unready interval; its child does not learn of it, is evaluated and recorded as loaded (`core/scheduler.py:397`) |
| `MCExpiredVersions.cfg` (`MCRestatement`) | `NoOldDataPromoted` | a version is tried in dev and followed there by another one, which a restatement of prod clears; the first one has expired and is left out; it is taken up again before the janitor has collected it, and promoted with the old rows (`core/plan/common.py:152`; against the docstring at line 84, `core/plan/evaluator.py:301` and `tests/core/integration/test_restatement.py:1224`, which speak of all versions) |
| `MCUnbatchedCustom.cfg` (`MCScheduler`) | `FirstBatchCreates` | a custom model without `batch_size`, a signal upstream leaves a gap: the second batch begins, and is told that the table exists, while the first one has not created it (`core/scheduler.py:552`; against the comment at line 550) |
| `MCMixedParents.cfg` (`MCVersions`) | `ProdIsRebuilt` | one parent was broken in an earlier plan and is not new any more, the other one adds a column: the child keeps its table |
| `MCRevertedTwice.cfg` (`MCVersions`) | `ProdIsRebuilt` | a text is reverted for the second time: the stamped snapshot exists already and is itself unrestorable (`core/context.py:3110`) |
| `MCAheadOfProd.cfg` (`MCVersions`) | `NothingWasMissing` | dev is filled further than prod: a child reads points of prod's table that prod does not have yet, and records them as loaded |
| `MCFinerSignals.cfg` (`MCMissingIntervals`) | `CaughtUp` | what is not ready is shorter than a unit of the model (an hour of a day): `interval_diff` leaves out the ready units behind it, too |
| `MCFailedLookback.cfg` (`MCMissingIntervals`) | `LookedBack` | batches are evaluated at the same time, the one that looks back fails, the newer one does not: nothing asks for the former again |

Besides, without a configuration of their own:

* With the constants of `interval_log`, `DroppedTablesEmpty` is violated: an evaluation ends after the
  janitor has deleted its snapshot and dropped the table; a snapshot of the version that is stored later
  finds the intervals of the dropped table (`core/state_sync/db/facade.py:391`).
* With those of `missing_intervals`, `Nodes <- UnalignedNodes` and `Signals <- NothingUnready`,
  `RestatedAnew` is violated: the model starts inside a unit, and the restatement of that unit alone is
  taken to be shorter than a unit and does nothing.
* With `Nodes <- RareNodes` and `AfterTick = TRUE`, `TypeOK` is violated: the range begins after the last
  tick of the cron, the only batch ends before it begins, and the evaluation raises an error.
* With `WithStart = TRUE` a range that begins ahead of what has been loaded violates `LookedBack`:
  lookback ends where the range begins.
* If removals (`Meanwhile = {"remove"}`) or pending restatements (`{"add", "pending"}`) may commit between
  the two halves of a compaction, `CompactionInvisible` and `PendingKept` fail; they rest on the
  isolation of the state database.
* A snapshot that depends on its past and whose own signal leaves a gap (`Signalled = {"total"}`) violates
  `PastFirst`, as `interval_diff` compares what is ready with what is not, and the gap is in neither.
* With `exit_on_env_update`, `sqlmesh run` ends its loop (`Restart`) before `completion_status`, read first at
  `core/context.py:940`, has been assigned: an `UnboundLocalError` in place of the exit code. No
  property is about it.

`exclusive` restricts `Overlap` to the empty set *because of* `MCOverlappingPlans.cfg` and `MCJanitorDuringPlan.cfg`: with plans of one
environment, or a plan and the janitor, at the same time its properties do not
hold. What holds with everything overlapping is in `overlapping` and `replacing`.

### Bounds and why they are enough

* Two plans where plans overlap: every conflict in the code is between a plan and one
  other writer of the same record, and `previous_plan_id` compares two ids. Three plans
  where they do not: one to set up, one that stops half way, one that follows.
* Two environments: prod, which is never expired and is partially promoted, and one
  that expires. `replacing` needs prod only.
* Four snapshots of two models: one and its forward-only successor (common production
  table, preview tables of their own), one with both tables of its own, and one of another
  model, so that plans replace, restore and remove. `CleanupLoop` has six of one model,
  sharing tables in each of the possible ways.
* A clock that reaches 2, with a ttl of 1: created, in use and expired are told apart, and
  a demotion and the deletion a ttl later fit. Where a third point in time is needed
  (`MCJanitorDuringPlan.cfg`, `MCUnusedTtl.cfg`) it reaches 3; in `interval_log` it counts
  writes and reaches 4: an addition, a removal, a compaction and one more.
* Batches of one row, so that the range has to move on, and of two rows.
* Graphs of four nodes, up to renaming, have chains, forks, joins and a node that hangs on
  two failures; three tasks leave one node queued.

* `interval_log`: three snapshots, two with a common preview table and all with a common
  production table, so that rows are shared in full, in part, and nullified. One point in time: points
  are independent of each other in every statement.
* `restatement`: nine snapshots of four models and seven requests of other plans: versions that are
  new, forward-only, reverted to; tried in dev, promoted, abandoned; three that may have expired
  (`ShortLived`), two of one model and one downstream. `MCUnpromotedVersions.cfg` and `MCExpiredVersions.cfg` have
  just the requests of their story, so that TLC's trace tells it.
* `scheduler`: four models, a chain of three and one beside it, one of each sort (by time range, custom with
  concurrent batches, dependent on the past with and without batches), three points, two workers, two plans and two
  attempts: batches of one and two, gaps in the middle, a worker too few.
* `missing_intervals`: three units of two ticks, so that every range has a first, a last and a middle unit
  and ends inside of one; seven kinds of models, one for each option, and lookback of one and two units.
* `versions`: a chain of three models (two steps downstream tell direct from indirect parents),
  one to three revisions each, additive ones and breaking ones; four plans (one to set prod up, two
  that change something in dev or prod, one that reverts or deploys it), two points. Its second
  model has no additive revision, because of `breaking_behind`.

`MaxClock`, `Horizon`, `Last` and `MaxPlans` are the bounds on counters. Plans of `Lifecycle` are a finite set; each is applied once.
Plan ids are interchangeable, hence the symmetry of the safety runs. The runs with
liveness properties use none.

### Fairness

`Fairness` is weak fairness of the stages of each plan that has been started and of the
steps of the janitor once it runs: they are straight-line Python whose calls return or
raise. It is not assumed that anybody builds or starts plans, runs the janitor, or that
time passes. A plan may stop at any point, which counts as an end. `DagExecutor` assumes
that threads are scheduled and that the function that is applied returns or raises. `Scheduler` assumes
weak fairness of `RunNext`, the steps of the run and its workers taken together, and nothing of plans: a plan
may leave the environment unfinalized for ever, and the run still ends.

## 4. Proofs

All of them for every value of the constants that satisfies the named assumptions
(`SnapshotConstants`, `StateSyncConstants`, `LifecycleConstants`, `DagConstants`,
`IntervalConstants`, `RestatementConstants`, `SchedulerConstants`, `VersionsConstants`, `MissingIntervalsConstants`, and
`Acyclic` of `Scheduler` and of `Versions`: `utils/dag.py`
refuses a cycle). What a theorem assumes besides is in its statement: `OnlyAdditions` and `PreviewsNest` for the log,
`Exclusive` for finished work, `PastWithoutSignals` and `PastWithoutSignalsAbove` for the order of batches,
`TablesAgree` for old rows, `~AfterTick`, `~WithStart`, `~Failures`,
`AlignedNodes`, `SignalsBegin` and `LongEnough` for missing intervals.

Many operators are recursive functions over the graph of the models (`Ancestors`, `Unready`, `Upstream`, `Feeding`).
What they compute is not provable by the induction theorems of the library, which take an operator as a
parameter. `UpTheGraph` does it in another way. The value at a node is what is known at all the nodes that can be
reached from it (`Reach`), and with that function there is one that satisfies the recursive equation, for any graph
(`Collected`); so the `CHOOSE` behind the definition finds one, and the equation holds of it. Where the equation alone is not
enough, the set of the nodes that violate a claim has a member next to which there is no other (`WithoutCycles`); a claim
about the batches of a model is taken to the smallest case that violates it (`SmallestSet`, `SmallestNumber`).

Tables are filled from the tables of the parents, and a node of the deployability index depends on what its parents
have got: there the equation has a solution because a node only looks at what is above it (`LooksUp`), in a set of values
that is known beforehand. For fingerprints, records that contain those of the parents, there is no such set; theirs are put
together from those of the parents, which agree where they meet (`FingerprintsExist`, `FingerprintsAgree`). Loops over lists (`MergeIntervals`, `Contiguous`, `FlattenSeq`, `IntervalDiff`) are functions of
the number of steps done. That there is one that satisfies the equation of the `CHOOSE` is the case of a graph that
is a chain (`Counted`), and what holds after each step is shown by there being no first step after which it does not (`NoFirst`).

| Theorem | Statement | Argument |
|---|---|---|
| `TypesAreRight` | `Spec => []TypeOK` | `TypeInv`: `TypeOK`, and the record of a plan past "idle" is a proper environment for its name. Without the latter the record that `Promote` writes might be `NoEnv`. |
| `Resolving` | `Spec => []EnvironmentsResolve` | inductive relative to types. `Promote` requires the rows; `DeleteExpired` selects outside of `PromotedIds` in the very step that deletes; nothing else removes a row or adds a reference. |
| `KeepingRollbackTargets` | `Spec => RollbackTargetsKept` | one step: for an unfinalized environment `UsedBy` contains the finalized snapshots. |
| `ImplementsRegistry` | `Spec => RegistrySpec` | each action is a `Store`, `Point`, `Release`, `Collect` or a stutter; the deletion is a `Collect` because `PromotedIds` contains all references. |
| `UpdatesAreNotLost` | `Spec => NoLostUpdate` | `UpdateInv`: a plan whose previous id is still the id in the record was compared with the snapshots of the record. It needs that the record of a plan id is written by that plan alone, once, and that a plan's comparison is only filled in when it is built. |
| `FinishedWorkRight`, `ViewsOfFinishedWork`, `TablesOfFinishedWork`, `ProductionIsThere`, `OnlyPromotedRun` | `Exclusive` implies `Spec => []...` | `FinishedInv`, relative to types and to `EnvironmentsResolve`: the properties themselves for every environment (`EnvRight`), and for each plan under way that what it is *not* going to do is right already (`AlreadyRight`: the views it will not replace are those of its snapshots, the models it will not demote are not its own, what it will not unpause is unpaused), that between the writing of the record and the end the record is its own and unfinalized, and that the tables in a cleanup task belong to no environment (`TasksUnused`). `Exclusive` says that the plans of one environment and the janitor wait for each other, which `sqlmesh` leaves to whoever schedules it; `MCOverlapping.cfg` runs without it and checks none of these. `PreviewsNest` is needed for preview tables alone: `ProductionIsThere` does without. |
| `ReplacedAreKept` | `ForcedAlone` implies `TtlSpec => DemotedKeptForTtl` | `TtlInv`: a demoted snapshot was touched when it was demoted or its ttl has passed since (`Aged`), and so will it be when a plan that has not written its records yet writes it anew with the date it was built. The latter fails if a run of the janitor that ignores the ttl deletes the row while such a plan waits, hence `ForcedAlone`. |
| `GroupsStayUpToDate`, `SharedTablesAreKept`, `NothingIsLeaked` | `LoopSpec => []...` | `LoopInv`: the groups are the members of their table among what has not been visited, so an empty rest of a group means that nobody outside of the batch has the table. Provided that snapshots with a common preview table have a common production table (`VersionsNest`); `MCSharedPreviews.cfg` shows what happens otherwise. `GroupsUpToDate` is the step to `SharedTablesKept` that a reader of the loop needs, and no run property of its own. `NothingIsLeaked` adds `EmptyGroupsDropped`: a table whose group has become empty has been dropped; at the end every group is down to what is outside of the batch. |
| `TheRestIsDropped` | `LoopSpec /\ IsFiniteSet(snapshots) => []DropsTheRest` | in key order, `KeyOrderInv`: what has been dropped is what `TablesToDrop` says of the snapshots visited so far; otherwise exactly the tables of empty groups are dropped, and a finite group has a last member by rank (`LastByRank`, from inclusion being well founded on finite sets). |
| `ExecutorStateRight` | `Spec => []DagInv` | the count equals the number of nodes that are neither done, skipped nor failed (failed ones stay in it when the run is to raise), an unprocessed node waits for exactly its dependencies that are not done, a node that has started has only done dependencies, a skipped one a failed or skipped dependency. |
| `NoFailureIsLost`, `AgreesWithSequence`, `ImplementsTraversal` | `Spec => ...` | from `DagInv`. |
| `LogTyped`, `CallsAreCounted` | `Spec => []TypeOK`, `Spec => CallsCount` | any log, any `Meanwhile`: the appended row has the highest `created_ts`, so the replay ends with it. |
| `ImplementsStore`, `CompactionsAreInvisible`, `PendingIsKept` | `Spec => StoreSpec`, ... | `LogInv`: types, timestamps are those of the past, no compacted row is a removal, and between the halves of a compaction only additions have come to the log. If only additions commit meanwhile (`OnlyAdditions`) and snapshots with a common preview table have a common production table (`PreviewsNest`), the merged rows replay to what the read rows replay to. |
| `LingeringRowsAreLate` | `PreviewsNest` implies `Spec => []OnlyLateRowsLinger` | `StoredInv`: finitely many snapshots are stored, and each row that tells of intervals, read or written, is about the tables of one of them or was recorded for a snapshot that is not stored (`Accounted`). A compaction writes rows only with the keys of rows; a deletion takes the rows of every table along whose last snapshot it deletes (`UnsharedTableDropped`, `UnsharedPreviewDropped`), and the rows of late evaluations are those whose identifier it does not nullify. That there are none would be wrong (section 3, `DroppedTablesEmpty`). |
| `OldRowsAreKnown`, `LookedAfterStaysFresh`, `ClearingLeavesFresh` | `TablesAgree` implies `Spec => []RowsInv`, `[]LookedAfterFresh`, `PromotedFresh` | `RowsInv`: old rows are only downstream of the restated model; until the clearing nothing that an environment has lacks an interval, so that no plan has anything to evaluate in a table of prod, and what the restatement has computed there stays (`RestatedIsFresh`); a plan has just the intervals left to evaluate that the state lacks (`PlanRight`); and from the clearing on `LookedAfterFresh` holds (`ClearedIsFresh`), as what is evaluated later is read from tables that are looked after, too (`FeedingParents`). Whichever of the unpromoted versions the clearing finds expired: their tables, and what is fed from them, are not looked after (`restating.missed`), and what becomes of them is the subject of `MCExpiredVersions.cfg`. `TablesAgree` says that of the versions with one table all or none are downstream of the restated model. The code does not see to it: a forward-only version may drop a reference and keep the table, and the clearing, which leaves the tables of prod alone, would not find the version that still fills it from the model. The instance satisfies it, and says so (`ASSUME TablesAgree` in `MCRestatement`). The graph may have cycles. |
| `RestatementTyped`, `SuccessIsOfWhatProdHas`, `ProdKeepsItsIntervals` | `Spec => ...` | `RestatementInv`: types, and as long as no plan has overtaken the restatement, what it compared with is prod as it is. What is cleared excludes the tables of prod. |
| `SchedulerTyped` | `Spec => []TypeOK` | `TypeInv`, with the set of started nodes finite. Batches are parts of what is ready, whatever is held back. |
| `RunRight` | `Spec => []WorkInv` | the inductive invariant of a run. `PlanRight`, fixed when the run starts: batches are in order and do not overlap, what is missing is in a batch or held back, a point of a batch is in the batches of the parents or has been loaded by them. `WorkRight`, of the work: what has started or is done has all that it depends on done (`DoneInOrder`), what is done is loaded and has its table, a run that succeeds has nothing left, and what one that fails has left is behind a failure. The last part holds because nodes do not hold each other in a circle (`NoneHeldAmong`): of those that are left and behind no failure one would have been ready. |
| `UpstreamComesFirst` | `PastWithoutSignalsAbove` implies `Spec => []UpstreamFirst` | by `DoneInOrder` and `AncestorsDone`: all the batches of the ancestors are done before a node starts, through any number of snapshots that have nothing to evaluate. The hypothesis excludes what `MCUnloadedParents.cfg` shows: a parent that depends on its past and stands behind a signal. |
| `PastComesFirst` | `PastWithoutSignals` implies `Spec => []PastFirst` | the batches of a snapshot that depends on its past wait for the one before; that all the earlier ones are done (`EarlierDone`) is a claim about the smallest set of earlier batches that violates it. The hypothesis excludes signals of the snapshot itself, see the remark on `PastFirst` in section 3. |
| `TargetsExist`, `SuccessIsComplete`, `FailuresSkipTheRest` | `Spec => []TargetExists`, `[]SuccessLeavesUnready`, `[]SkippedBehindFailure` | from `WorkInv`, without hypotheses. For the first one: the table of a snapshot is there, or a node of its own creates it, or the first of batches that are evaluated one at a time does (`EarlierDone`). It speaks of all snapshots but those that are not by time range, have no `batch_size` and no limit of one batch at a time (see `MCUnbatchedCustom.cfg`). For the other two: what waits for a dummy node that has not been visited waits for a batch (`HeldByFailure`). |
| `RunsForItsEnvironment` | `Spec => []OwnEnvironment` | `RunInv`: plan ids only grow, so a run whose id is still that of the environment has read that environment's snapshots, and only then a node is started. |
| `VersionsTyped`, `PreviewsStayOut` | `Spec => []TypeOK`, `[]ReadyForProd` | `VersionsInv`: types, with everything that a snapshot or an environment refers to in the store; environments have each model's snapshot under its name (`EnvsNamed`); and the rows in the table of a version are of texts of its model and not computed from previews (`RowsRight`). A plan fills the table of a version for what the deployability index calls deployable, which has deployable parents only (`DeployabilityOf`), and for what stands for prod's, which reads prod's. Any graph without cycles, any texts, any sequence of plans, runs and expirations. |
| `MissingIntervalsInvariant`, `MissingIntervalsTyped`, `LoadedWhenOver` | `Spec => []MissingIntervalsInv`, `~AfterTick => (Spec => []TypeOK)`, `Spec => []WholeIntervals` | `ListInv`: the list is in order with gaps between its intervals (`Canonical`), its ends are ends of units unless the model allows partial intervals (`EndsFrom`), and it ends before now. `AsOfInv`: what is recorded is as of a time after everything that is recorded later in the same unit. `RunInv`: what is left to evaluate is not later than the clock, and as of it. Merging, removing, expanding, lookback, the search for what is missing, the difference to what is not ready and the batches are shown to preserve the form one by one, for lists of any length and units of any size (`MergeRight`, `RemoveRight`, `ExpandRight`, `MissingRight`, `ContiguousWanted`, `DiffWanted`). `~AfterTick` says that no range begins after the last tick of the cron (section 3 shows what happens then). |
| `RestatedIsNew` | `~AfterTick /\ AlignedNodes` implies `Spec => []RestatedAnew` | `RestatementInv`: nothing is recorded or left to evaluate outside of the model's start and end (`InModelRange`); while a restatement goes on, what it is to redo and is recorded is new or left to evaluate (`NewOrLeft`). For the latter, tick by tick: what the request clears of the list (`RestatedInterval`) and the run finds missing (`ComputedTicks`) is in its batches (`BatchesTicks`), and in its range as it is rounded to units and cut to the cron and the model (`RequestRestates`). `AlignedNodes` says that models start and end with a unit. Section 3 shows why for the start (`UnalignedNodes`). An end inside a unit has the same effect: the last unit alone, cut at the end of the model, counts as shorter than a unit. |
| `RunsCatchUp` | `~AfterTick /\ SignalsBegin /\ LongEnough` implies `Spec => []CaughtUp` | `CatchUpInv`: of what has been loaded and what is left to load together (`Done`), while a run goes on, what `CaughtUp` says of the former at its end; a batch only moves from one to the other (`BatchMoves`). At the request: a due tick lies in the range (`DueInRange`), is missing if it has not been loaded (`NotLoadedIsMissing`), and is in a batch if it is not held back (`BatchesOfReady`). The last step is `interval_diff`: the pieces it goes through are units in order (`MissingInOrder`, `UnitsInOrder`), what it leaves out overlaps with what is not ready or comes behind that, and what it keeps does not overlap (`DiffRight`). That the same run finds nothing to do rests on `Covered` (`CoveredByTicks`, `NothingMissing`). `SignalsBegin` says that what is not ready begins with a unit of the model, see `MCFinerSignals.cfg`; `LongEnough` that a model without partial intervals does not end within its first unit, which `missing_intervals` would never load. |
| `LateDataIsPickedUp` | `~AfterTick /\ ~WithStart /\ ~Failures /\ SignalsBegin` implies `Spec => []LookedBack` | `LookBackInv`: what is recorded of a unit is its beginning (`FromUnit`), batches are in order, `LookedBack` itself of what is not waiting to be computed again (`Looked`), and `LooksBack`: a tick that a run is to load for the first time lies the lookback ahead of nothing but what the run computes again or has computed. That is the step at the request: the points of a range lie one unit behind the other (`ExpandedAt`), so the unit that lies the lookback behind a missing one is missing, too, unless the range begins after it (`MissingBehind`); and if `interval_diff` keeps the later one it keeps the earlier one, also where the past matters (`DiffInOrder`, `BatchesLookedBack`). A restatement of what has been loaded loads nothing new (`RestateLooksBack`). When a batch is evaluated, either it comes with or after what lies behind it, or that is in an earlier batch, which models that go in order have done. With `WithStart` or `Failures` it is false (section 3). `SignalsBegin` is an assumption of the proof; on the instance of `MCFinerSignals.cfg`, which violates it, TLC finds `LookedBack` true. |

Only model-checked: liveness (`PlansEnd`, `JanitorEnds`, `RunEnds`), which needs fairness and
`ENABLED`; `ProdIsRebuilt`. The latter does not hold for every value of the constants
(`breaking_behind`, `MCMixedParents.cfg`, `MCRevertedTwice.cfg`), and what delimits it is a graph and its
texts, not a hypothesis that one would want to state.

## 5. Mutants

Each property of a passing run is shown to depend on the code by a mutant of a mapped
definition: an operator beside it, called "A mutant of ..." in its comment, with a
plausible error (a check dropped, a count not taken, the wrong group of snapshots). They are
not used by the specifications.

## 6. How to run

    tlc -workers 2 -config MCOverlapping.cfg MCLifecycle.tla
    tlc -workers 2 -config MCReplacing.cfg MCSnapshotTtl.tla
    tlc -workers 2 -config MCMissingIntervals.cfg MCMissingIntervals.tla
    tlc -workers 2 -config MCVersions.cfg MCVersions.tla
    tlapm LifecycleProofs.tla
    tlapm MissingIntervalsProofs.tla

`PROJECT.json` lists the module and the configuration of each run.

## 7. Not modelled

* Migrations, export and import: one-off rewriting with exclusive access.
* The snapshot cache (`core/state_sync/cache.py`): one process, a ttl; `remove_intervals` evicts the snapshots it is called
  with (line 137), others of their versions lose intervals in the store and keep them in the cache.
* Connection pools and engine adapters: I/O; the models use the effect of a statement.
* Models, loader, renderer, linter, tests, macros, dialect, dbt adapter: parsing and rendering
  without state that several actors share. This is most of the lines of the repository, and nothing in
  it takes a second step that depends on a first one.
* CLI, notebooks, web UI, LSP, CI/CD bot: front ends of the operations modelled here.
* Isolation of the state database below serializable, beyond `Meanwhile` in `IntervalLog`.
* The contents of previews: a stale dev environment that runs an old query into a table
  which a forward-only change has taken over (`docs/concepts/plans.md:76` in the repository warns of it).

## 8. Plan

Done: environments, snapshots, plans and the janitor, first because every other part relies on
them; the cleanup loop; the DAG executor; the interval log; restatement; the scheduler and the run
loop; versions; missing intervals.

Done in the proofs: the safety properties of all the components but those named at the end of section 4.

Left, in this order:

1. Composition of `IntervalLog` with the snapshot cache, and with two schedulers that load
   the same version.
2. Automatic restatement, and restated ranges that parents with a finer unit hand down.
