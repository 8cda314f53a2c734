----------------------------- MODULE Scheduler -----------------------------
(***************************************************************************)
(* sqlmesh run: the loop of Context.run (core/context.py), which restarts  *)
(* when a plan changes the environment under it, and the Scheduler         *)
(* (core/scheduler.py), which divides what is missing into batches, makes  *)
(* a graph of them and has worker threads evaluate it.                     *)
(*                                                                         *)
(* An interval is a point in time, all models have the same interval unit. *)
(* What the executor does with the graph is the subject of DagExecutor;    *)
(* here a node may run when all it depends on has been done.  A dummy      *)
(* node, which stands for all the batches of a snapshot, is visited when   *)
(* they have been, and what is downstream waits for it.                    *)
(***************************************************************************)
EXTENDS Integers, FiniteSets, Sequences

CONSTANTS
    SnapshotIds,
    Parents,            \* the snapshots a snapshot selects from
    Plans,              \* the snapshots of the environment, plan after plan
    Last,               \* the points in time are 1..Last
    Histories,          \* what may be loaded in the beginning
    BatchSize,          \* batch_size and batch_concurrency, 0 for none
    BatchConcurrency,
    DependsOnPast,      \* the snapshots with depends_on_past, which a custom kind need not have,
    ByTimeRange,        \* is_incremental_by_time_range
    Signalled,          \* and with signals
    MaxWorkers,
    Attempts,           \* env_check_attempts_num
    ExitOnEnvUpdate

Points == 1..Last

ASSUME SchedulerConstants ==
    /\ Parents \in [SnapshotIds -> SUBSET SnapshotIds]
    /\ Plans \in Seq(SUBSET SnapshotIds) /\ Plans # <<>>
    /\ \A i \in DOMAIN Plans : \A s \in Plans[i] : Parents[s] \subseteq Plans[i]
    /\ Last \in Nat
    /\ Histories \subseteq [SnapshotIds -> SUBSET Points]
    /\ BatchSize \in [SnapshotIds -> Nat]
    /\ BatchConcurrency \in [SnapshotIds -> Nat]
    /\ MaxWorkers \in Nat \ {0}
    /\ Attempts \in Nat \ {0}
    /\ ExitOnEnvUpdate \in BOOLEAN

\* No snapshot is its own ancestor (DAG.sorted, in utils/dag.py, raises an error): wherever
\* one looks there is a snapshot that selects from none of the others.
ASSUME Acyclic ==
    \A S \in (SUBSET SnapshotIds) \ {{}} : \E s \in S : Parents[s] \cap S = {}

VARIABLES
    loaded,     \* the intervals of each snapshot in the state
    tables,     \* the snapshots with a physical table
    env,        \* the environment: the plan that wrote it, and whether it is finalized
    run,        \* the run: see TypeOK
    started,    \* the nodes that are being evaluated,
    done,       \* those that have been,
    failed      \* and those that raised an error

vars == <<loaded, tables, env, run, started, done, failed>>

Ended == {"nothing_to_do", "success", "failure", "error", "exceeded"}

Node == [snapshot : SnapshotIds, points : SUBSET Points]    \* no points: a CreateNode

TypeOK ==
    /\ loaded \in [SnapshotIds -> SUBSET Points]
    /\ tables \subseteq SnapshotIds
    /\ env \in [plan : DOMAIN Plans, finalized : BOOLEAN]
    /\ run.status \in {"waiting", "starting", "running"} \cup Ended
    /\ run.plan_id_at_start \in DOMAIN Plans
    /\ run.waited \in 0..Attempts
    /\ run.snapshots \subseteq SnapshotIds
    /\ run.create \subseteq run.snapshots
    /\ run.tripped \in BOOLEAN              \* a node raised CircuitBreakerError
    /\ run.passed \subseteq run.snapshots     \* whose dummy node has been visited
    /\ run.batches \in [run.snapshots -> SUBSET (SUBSET Points)]
    /\ started \cup done \cup failed \subseteq Node
    /\ Cardinality(started) <= MaxWorkers

Waiting(waited) ==
    [status |-> "waiting", plan_id_at_start |-> 1, waited |-> waited, snapshots |-> {}, create |-> {},
     tripped |-> FALSE, passed |-> {}, batches |-> [s \in {} |-> {}], unready |-> [s \in {} |-> {}]]

Init ==
    /\ loaded \in Histories
    /\ tables \in {T \in SUBSET SnapshotIds : \A s \in SnapshotIds \ T : loaded[s] = {}}
    /\ env = [plan |-> 1, finalized |-> TRUE]
    /\ run = Waiting(0)
    /\ started = {} /\ done = {} /\ failed = {}

(***************************************************************************)
(* Plans that are applied meanwhile: the record is written, and finalized  *)
(* if nothing happens to the plan.                                         *)
(***************************************************************************)
UpdateEnvironment ==
    /\ env.plan < Len(Plans)
    /\ env' = [plan |-> env.plan + 1, finalized |-> FALSE]
    /\ UNCHANGED <<loaded, tables, run, started, done, failed>>

FinalizeEnvironment ==
    /\ ~env.finalized
    /\ env' = [env EXCEPT !.finalized = TRUE]
    /\ UNCHANGED <<loaded, tables, run, started, done, failed>>

(***************************************************************************)
(* The run begins: it waits for the environment to be finalized.           *)
(***************************************************************************)

\* A mutant of Wait: as long as it takes.
WaitForever ==
    /\ run.status = "waiting"
    /\ ~env.finalized
    /\ UNCHANGED vars

Wait ==
    /\ run.status = "waiting"
    /\ ~env.finalized
    /\ run' = IF run.waited + 1 < Attempts
              THEN [run EXCEPT !.waited = @ + 1]
              ELSE [run EXCEPT !.status = "exceeded"]
    /\ UNCHANGED <<loaded, tables, env, started, done, failed>>

BlockUntilFinalized ==
    /\ run.status = "waiting"
    /\ env.finalized
    /\ run' = [run EXCEPT !.status = "starting", !.plan_id_at_start = env.plan]
    /\ UNCHANGED <<loaded, tables, env, started, done, failed>>

(***************************************************************************)
(* Batches: the ready intervals that neither the snapshot's own signals    *)
(* nor those of what is upstream hold back, in contiguous chunks.          *)
(***************************************************************************)

\* A mutant of Unready: a snapshot is held back by its own signals only.
OwnUnready(S, missing, ready) == [s \in S |-> missing[s] \ ready[s]]

Unready(S, missing, ready) ==
    LET unready[s \in S] ==
            IF missing[s] = {} THEN {}
            ELSE (missing[s] \ ready[s]) \cup UNION {unready[p] : p \in Parents[s]}
    IN  unready

\* interval_diff, which gives up at the first conflict for who depends on the past.
IntervalDiff(s, ready, unready) ==
    IF s \in DependsOnPast
    THEN {x \in ready : \A y \in ready \cap unready : x < y}
    ELSE ready \ unready

Chunk(P, size, x) ==
    LET start(y) == CHOOSE z \in P : z..y \subseteq P /\ z - 1 \notin P /\ z <= y
        number(y) == IF size = 0 THEN 0 ELSE (y - start(y)) \div size
    IN  {y \in P : start(y) = start(x) /\ number(y) = number(x)}

\* A mutant of Batches: the last batch, which may be smaller, is forgotten.
FullBatches(P, size) == {B \in {Chunk(P, size, x) : x \in P} : size = 0 \/ Cardinality(B) = size}

Batches(P, size) == {Chunk(P, size, x) : x \in P}

\* The batches of a run, given what is missing, what the signals find ready and what
\* is held back.
WithBatches(snapshots, missing, ready, unready) ==
    [run EXCEPT
       !.status = "running",
       !.snapshots = snapshots,
       !.create = {s \in snapshots \ tables : missing[s] # {}},
       !.unready = unready,
       !.passed = {},
       !.batches = [s \in snapshots |->
          Batches(IntervalDiff(s, ready[s], unready[s]), BatchSize[s])]]

\* _run_or_audit: the snapshots of the environment, as it is now, and their
\* intervals are read, and the batches computed.
Start ==
    LET snapshots == Plans[env.plan]
        missing == [s \in snapshots |-> Points \ loaded[s]]
    IN  /\ run.status = "starting"
        /\ IF \A s \in snapshots : missing[s] = {}
           THEN run' = [run EXCEPT !.status = "nothing_to_do"]
           ELSE \E ready \in [snapshots -> SUBSET Points] :
                  /\ \A s \in snapshots : ready[s] \subseteq missing[s]
                  /\ \A s \in snapshots \ Signalled : ready[s] = missing[s]
                  /\ run' = WithBatches(snapshots, missing, ready,
                                        Unready(snapshots, missing, ready))
        /\ UNCHANGED <<loaded, tables, env, started, done, failed>>

(***************************************************************************)
(* The graph (_dag).                                                       *)
(***************************************************************************)
EvaluateNodes(s) == {[snapshot |-> s, points |-> B] : B \in run.batches[s]}

CreateNode(s) == [snapshot |-> s, points |-> {}]

\* A mutant of Concurrency: depends_on_past is not looked at.
ConfiguredConcurrency(s) == BatchConcurrency[s]

Concurrency(s) == IF s \in DependsOnPast THEN 1 ELSE BatchConcurrency[s]

\* A mutant of HasCreateNode: only if there is nothing to evaluate.
CreatedAlone(s) == s \in run.create /\ run.batches[s] = {}

HasCreateNode(s) ==
    /\ s \in run.create
    /\ \/ s \in ByTimeRange
       \/ Concurrency(s) # 1 /\ BatchSize[s] # 0
       \/ run.batches[s] = {}

Nodes ==
    (UNION {EvaluateNodes(s) : s \in run.snapshots})
    \cup {CreateNode(s) : s \in {s \in run.snapshots : HasCreateNode(s)}}

\* What a child of snapshot s waits for: a snapshot with nothing to do is skipped.
Upstream ==
    LET upstream[s \in run.snapshots] ==
            IF run.batches[s] # {} THEN EvaluateNodes(s)
            ELSE IF s \in run.create THEN {CreateNode(s)}
            ELSE UNION {upstream[p] : p \in Parents[s]}
    IN  upstream

BatchIndex(n) ==
    Cardinality({B \in run.batches[n.snapshot] : \A x \in B : \A y \in n.points : x < y})

Dependencies(n) ==
    LET s == n.snapshot
        upstream == UNION {Upstream[p] : p \in Parents[s]}
        created == IF HasCreateNode(s) THEN {CreateNode(s)} ELSE upstream
        earlier == {m \in EvaluateNodes(s) :
                      Concurrency(s) # 0 /\ BatchIndex(n) = BatchIndex(m) + Concurrency(s)}
    IN  IF n.points = {} THEN upstream ELSE created \cup earlier

\* Several batches are followed by a DummyNode, which stands for them downstream.
HasDummy(s) == Cardinality(run.batches[s]) > 1

Ready ==
    {n \in Nodes \ (started \cup done \cup failed) :
        \A m \in Dependencies(n) :
            /\ m \in done
            /\ m.snapshot # n.snapshot /\ HasDummy(m.snapshot) => m.snapshot \in run.passed}

ReadyDummies == {s \in run.snapshots \ run.passed : HasDummy(s) /\ EvaluateNodes(s) \subseteq done}

(***************************************************************************)
(* The workers.                                                            *)
(***************************************************************************)

\* A mutant of HasEnvironmentChanged: another plan's record will do, too.
NotFinalized == ~env.finalized

HasEnvironmentChanged == env.plan # run.plan_id_at_start \/ ~env.finalized

FreeWorker == Cardinality(started) < MaxWorkers

\* run_node looks at the environment before it begins.
StartNode(n) ==
    /\ run.status = "running"
    /\ n \in Ready
    /\ FreeWorker
    /\ IF HasEnvironmentChanged
       THEN /\ failed' = failed \cup {n}
            /\ run' = [run EXCEPT !.tripped = TRUE]
            /\ UNCHANGED started
       ELSE /\ started' = started \cup {n}
            /\ UNCHANGED <<failed, run>>
    /\ UNCHANGED <<loaded, tables, env, done>>

\* So it does before a dummy node, which is all there is to it.
VisitDummy(s) ==
    /\ run.status = "running"
    /\ ~run.tripped
    /\ s \in ReadyDummies
    /\ FreeWorker
    /\ run' = IF HasEnvironmentChanged
              THEN [run EXCEPT !.tripped = TRUE]
              ELSE [run EXCEPT !.passed = @ \cup {s}]
    /\ UNCHANGED <<loaded, tables, env, started, done, failed>>

\* The interval is recorded after the evaluation and the audits.
FinishNode(n) ==
    /\ n \in started
    /\ started' = started \ {n}
    /\ done' = done \cup {n}
    /\ loaded' = [loaded EXCEPT ![n.snapshot] = @ \cup n.points]
    /\ tables' = tables \cup {n.snapshot}
    /\ UNCHANGED <<env, run, failed>>

\* An error of the evaluation or of a blocking audit, once there is a table or before.
FailNode(n) ==
    /\ n \in started
    /\ started' = started \ {n}
    /\ failed' = failed \cup {n}
    /\ tables' \in {tables, tables \cup {n.snapshot}}
    /\ UNCHANGED <<loaded, env, run, done>>

\* No node is left that could be visited.  Once the breaker has been tripped, it is by
\* the remaining dummy nodes, too.
Finished ==
    /\ run.status = "running"
    /\ started = {}
    /\ Ready = {}
    /\ run.tripped \/ ReadyDummies = {}

\* A mutant of EndRun: the first error ends it.
EndOnError ==
    /\ run.status = "running" /\ started = {} /\ (failed # {} \/ Finished)
    /\ run' = [run EXCEPT !.status = IF failed = {} THEN "success" ELSE "failure"]
    /\ UNCHANGED <<loaded, tables, env, started, done, failed>>

EndRun ==
    /\ Finished
    /\ ~run.tripped
    /\ run' = [run EXCEPT !.status = IF failed = {} THEN "success" ELSE "failure"]
    /\ UNCHANGED <<loaded, tables, env, started, done, failed>>

\* The circuit breaker has been tripped: once more.  With exit_on_env_update the
\* loop ends instead, and completion_status, which the code after it reads, has
\* never been assigned: an UnboundLocalError.
Restart ==
    /\ Finished
    /\ run.tripped
    /\ run' = IF ExitOnEnvUpdate THEN [run EXCEPT !.status = "error"] ELSE Waiting(0)
    /\ started' = {} /\ done' = {} /\ failed' = {}
    /\ UNCHANGED <<loaded, tables, env>>

Terminated == run.status \in Ended /\ UNCHANGED vars

RunNext ==
    \/ Wait
    \/ BlockUntilFinalized
    \/ Start
    \/ \E n \in Nodes : StartNode(n)
    \/ \E s \in run.snapshots : VisitDummy(s)
    \/ \E n \in started : FinishNode(n) \/ FailNode(n)
    \/ EndRun
    \/ Restart

Next ==
    \/ UpdateEnvironment
    \/ FinalizeEnvironment
    \/ RunNext
    \/ Terminated

Spec == Init /\ [][Next]_vars

\* The thread of the run and its workers go on; plans need not.
FairSpec == Spec /\ WF_vars(RunNext)
-----------------------------------------------------------------------------
Ancestors[s \in SnapshotIds] == Parents[s] \cup UNION {Ancestors[p] : p \in Parents[s]}

\* While a snapshot is evaluated for an interval, the tables it selects from have
\* the interval, and nobody upstream has anything left to do in this run.
UpstreamFirst ==
    \A n \in started :
        /\ \A p \in Parents[n.snapshot] : n.points \subseteq loaded[p]
        /\ \A a \in Ancestors[n.snapshot] : UNION run.batches[a] \subseteq loaded[a]

\* A snapshot that depends on the past is evaluated in order and without gaps,
\* whatever is not ready upstream and whichever batches fail.
PastFirst ==
    \A n \in started :
        n.snapshot \in DependsOnPast =>
            \A x \in n.points : 1..(x - 1) \subseteq loaded[n.snapshot] \cup n.points

\* target_table_exists: the table has been there, has been created, or, for all batches
\* but the first, has come of the one before.
Told(n) ==
    LET s == n.snapshot
    IN  s \notin run.create \/ HasCreateNode(s) \/ BatchIndex(n) > 0

\* Whoever is told that the table exists finds one, although batches of the snapshot
\* run at the same time: unless the kind is custom, neither depends on the past nor has a
\* batch_size, and its batches, which gaps in what is ready keep apart, run at once.
TargetExists ==
    \A n \in started :
        LET s == n.snapshot
        IN  /\ n.points # {} /\ Told(n)
            /\ s \in ByTimeRange \/ Concurrency(s) = 1 \/ BatchSize[s] # 0
            => s \in tables

\* What the comment in run_node says: "If batch_index > 0, then the target table must
\* exist since the first batch would have created it".
FirstBatchCreates ==
    \A n \in started : n.points # {} /\ BatchIndex(n) > 0 => n.snapshot \in tables

\* What is evaluated are the snapshots of the plan that had been finalized when
\* the run began, although the environment is read again later.
OwnEnvironment == started # {} => run.snapshots = Plans[run.plan_id_at_start]

\* After a run has succeeded everything is loaded but what signals hold back.
SuccessLeavesUnready ==
    run.status = "success" =>
        \A s \in run.snapshots : \A x \in Points \ loaded[s] :
            \/ x \in run.unready[s]
            \/ s \in DependsOnPast /\ \E y \in run.unready[s] : y < x

\* A failure keeps only what is behind it from being evaluated: what is downstream,
\* and later batches of a snapshot that is not evaluated all at once.
Behind(n, m) ==
    \/ m.snapshot \in Ancestors[n.snapshot]
    \/ /\ m.snapshot = n.snapshot
       /\ m.points = {} \/ (Concurrency(n.snapshot) # 0 /\ BatchIndex(m) < BatchIndex(n))

SkippedBehindFailure ==
    run.status = "failure" =>
        \A n \in Nodes \ (done \cup failed) : \E m \in failed : Behind(n, m)

\* A run ends, even if a plan that writes the environment never finalizes it.
RunEnds == <>(run.status \in Ended)
=============================================================================
