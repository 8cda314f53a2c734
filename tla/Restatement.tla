----------------------------- MODULE Restatement -----------------------------
(***************************************************************************)
(* A restatement plan of prod (plan/builder.py, the stages and the         *)
(* evaluator in plan/, and plan/common.py) while other plans try new       *)
(* versions in development and deploy them to prod.  The restatement       *)
(* recomputes a range of the restated models of prod and of what is        *)
(* downstream of them, and then clears the range, in the state, of the     *)
(* versions that others have: their tables were filled from what prod had  *)
(* before, and must not get to prod as they are.                           *)
(*                                                                         *)
(* Beside what the state says (loaded) the model has what is in the tables *)
(* (old): the points whose rows come from before the restatement.  An      *)
(* evaluation computes the points of a table from the tables of the        *)
(* parents, as they are at that time.                                      *)
(*                                                                         *)
(* The janitor does not get to work: a version it collects loses its table *)
(* and its intervals together.  That a version has expired, and waits to   *)
(* be collected, matters when the intervals are cleared.                   *)
(***************************************************************************)
EXTENDS Naturals, FiniteSets

CONSTANTS
    SnapshotIds,
    Name,           \* the model a snapshot is a version of
    Version,        \* its version: names the table, together with the name
    Parents,        \* the snapshots a snapshot selects from
    EnvNames, Prod,
    Requests,       \* the plans: [env, snapshots]
    ShortLived,     \* the snapshots whose ttl may be over when the intervals are cleared
    FirstProd,      \* the snapshots prod has in the beginning
    Target,         \* the model to restate
    Points, RestatedPoints, \* the points in time, and those to restate
    NoPlan

ASSUME RestatementConstants ==
    /\ Parents \in [SnapshotIds -> SUBSET SnapshotIds]
    /\ Prod \in EnvNames
    /\ FirstProd \subseteq SnapshotIds
    /\ ShortLived \subseteq SnapshotIds
    /\ \A s \in FirstProd : Parents[s] \subseteq FirstProd
    /\ RestatedPoints \subseteq Points
    /\ \A s \in SnapshotIds : Name[s] = Target => Parents[s] = {}
    /\ Requests \subseteq [env : EnvNames, snapshots : SUBSET SnapshotIds]
    /\ \A r \in Requests : \A s \in r.snapshots :
          /\ Parents[s] \subseteq r.snapshots
          /\ \A q \in r.snapshots : Name[q] = Name[s] => q = s

VARIABLES
    stored,     \* the snapshots the store has a record of
    envs,       \* the snapshots of each environment ({}: there is none)
    loaded,     \* the intervals of each version, as the state has them
    old,        \* the points of each table with rows from before the restatement
    plan,       \* the plan that is being applied
    restating   \* the restatement plan (cleared: the models whose versions it has cleared,
                \* missed: the tables that only versions have which had expired by then)

vars == <<stored, envs, loaded, old, plan, restating>>

TableOf(s) == <<Name[s], Version[s]>>       \* name_version

Tables == {TableOf(s) : s \in SnapshotIds}

Status == {"not_started", "backfill", "cleared", "succeeded", "failed"}

TypeOK ==
    /\ stored \subseteq SnapshotIds
    /\ envs \in [EnvNames -> SUBSET SnapshotIds]
    /\ loaded \in [Tables -> SUBSET Points]
    /\ old \in [Tables -> SUBSET Points]
    /\ plan = NoPlan \/ (plan.env \in EnvNames /\ plan.overtaken \in BOOLEAN
                        /\ plan.missing \in [plan.snapshots -> SUBSET Points])
    /\ restating.status \in Status
    /\ restating.all_snapshots \subseteq SnapshotIds
    /\ restating.todo \subseteq restating.all_snapshots
    /\ restating.cleared \subseteq {Name[s] : s \in SnapshotIds}
    /\ restating.missed \subseteq Tables
    /\ restating.overtaken \in BOOLEAN

Ancestors[s \in SnapshotIds] == Parents[s] \cup UNION {Ancestors[p] : p \in Parents[s]}

FromTarget(s) == \E q \in {s} \cup Ancestors[s] : Name[q] = Target

\* The versions that share a table are all downstream of the restated model, or none
\* is.  What is cleared is found by the graph of each environment, so that old rows in
\* a table that one version fills from the model, and another without it, stay unseen.
TablesAgree ==
    \A r, s \in SnapshotIds : TableOf(r) = TableOf(s) => (FromTarget(r) <=> FromTarget(s))

Init ==
    /\ stored = FirstProd
    /\ envs = [e \in EnvNames |-> IF e = Prod THEN FirstProd ELSE {}]
    /\ loaded = [t \in Tables |-> IF \E s \in FirstProd : TableOf(s) = t THEN Points ELSE {}]
    /\ old = [t \in Tables |-> IF \E s \in FirstProd : TableOf(s) = t /\ FromTarget(s)
                              THEN loaded[t] ELSE {}]
    /\ plan = NoPlan
    /\ restating = [status |-> "not_started", all_snapshots |-> {}, todo |-> {},
                    cleared |-> {}, missed |-> {}, overtaken |-> FALSE]

Started == restating.status # "not_started"

(***************************************************************************)
(* One evaluation: rows for points P of s, computed from what its parents' *)
(* tables hold.  The model to restate reads a source, which has been       *)
(* corrected when the restatement starts.                                  *)
(***************************************************************************)
OldAfter(s, P) ==
    LET stale == IF Name[s] = Target
                 THEN IF Started THEN {} ELSE P
                 ELSE P \cap UNION {old[TableOf(p)] : p \in Parents[s]}
    IN  [old EXCEPT ![TableOf(s)] = (@ \ P) \cup stale]

LoadedAfter(s, P) == [loaded EXCEPT ![TableOf(s)] = @ \cup P]

Evaluate(s, P) ==
    /\ old' = OldAfter(s, P)
    /\ loaded' = LoadedAfter(s, P)

(***************************************************************************)
(* An ordinary plan: what is missing is computed when the plan is applied, *)
(* evaluated parents first, and then the environment is updated.           *)
(***************************************************************************)
\* What a plan is compared with: an environment that is new is compared with prod.
Remote(env) == IF envs[env] = {} THEN envs[Prod] ELSE envs[env]

\* A snapshot that is new takes over the table of the version it is compared with, if
\* any.  Those that are stored come as they are.
TablesFromRemote(r) ==
    \A s \in r.snapshots \ stored :
        (\E q \in stored : TableOf(q) = TableOf(s)) =>
            \E q \in Remote(r.env) : TableOf(q) = TableOf(s)

StartPlan(r) ==
    /\ plan = NoPlan
    /\ TablesFromRemote(r)
    /\ stored' = stored \cup r.snapshots
    /\ plan' = [env |-> r.env, snapshots |-> r.snapshots,
                missing |-> [s \in r.snapshots |-> Points \ loaded[TableOf(s)]],
                overtaken |-> FALSE]
    /\ UNCHANGED <<envs, loaded, old, restating>>

EvaluateInPlan(s) ==
    /\ plan # NoPlan
    /\ s \in plan.snapshots
    /\ plan.missing[s] # {}
    /\ \A p \in Parents[s] : plan.missing[p] = {}
    /\ Evaluate(s, plan.missing[s])
    /\ plan' = [plan EXCEPT !.missing[s] = {}]
    /\ UNCHANGED <<stored, envs, restating>>

\* promote refuses a plan if another one has written the environment since.
FinishPlan ==
    /\ plan # NoPlan
    /\ \A s \in plan.snapshots : plan.missing[s] = {}
    /\ IF plan.overtaken
       THEN UNCHANGED <<envs, restating>>
       ELSE /\ envs' = [envs EXCEPT ![plan.env] = plan.snapshots]
            /\ restating' = [restating EXCEPT !.overtaken = @ \/ (Started /\ plan.env = Prod)]
    /\ plan' = NoPlan
    /\ UNCHANGED <<stored, loaded, old>>

(***************************************************************************)
(* The restatement plan.                                                   *)
(***************************************************************************)
\* The models among snapshots S that are downstream of a model, itself included.
WithDownstream(S, name) ==
    {n \in {Name[s] : s \in S} :
        \/ n = name
        \/ \E s \in S : Name[s] = n /\ \E p \in Ancestors[s] : Name[p] = name}

Restated == WithDownstream(restating.all_snapshots, Target)

ToRestate == {s \in envs[Prod] : Name[s] \in WithDownstream(envs[Prod], Target)}

\* A model that the plan does not have cannot be restated.
TargetIsPlanned == \E s \in envs[Prod] : Name[s] = Target

StartRestatement ==
    /\ ~Started
    /\ TargetIsPlanned
    /\ restating' = [restating EXCEPT
         !.status = "backfill",
         !.all_snapshots = envs[Prod],
         !.todo = ToRestate]
    /\ UNCHANGED <<stored, envs, loaded, old, plan>>

Backfill(s) ==
    /\ restating.status = "backfill"
    /\ s \in restating.todo
    /\ Parents[s] \cap restating.todo = {}
    /\ Evaluate(s, RestatedPoints)
    /\ restating' = [restating EXCEPT !.todo = @ \ {s}]
    /\ UNCHANGED <<stored, envs, plan>>

ProdVersions == {TableOf(s) : s \in restating.all_snapshots}

\* A mutant of AffectedInEnvironments: only the restated model itself.
OnlyTargets ==
    UNION {{s \in envs[e] : Name[s] = Target /\ TableOf(s) \notin ProdVersions} : e \in EnvNames}

\* Mutant: the tables of prod are cleared as well.
EvenProdVersions ==
    UNION {{s \in envs[e] : \E n \in Restated : Name[s] \in WithDownstream(envs[e], n)} : e \in EnvNames}

\* The snapshots of the environments that are affected, going down the graph of
\* each environment, without those that share a table with prod.
AffectedInEnvironments ==
    UNION {{s \in envs[e] :
              /\ \E n \in Restated : Name[s] \in WithDownstream(envs[e], n)
              /\ TableOf(s) \notin ProdVersions} : e \in EnvNames}

\* A mutant of SnapshotsToClear: what is in no environment is left alone.
OnlyPromoted(expired) == AffectedInEnvironments

\* Besides, all the stored versions of the same models that share no table with prod,
\* except for those that have expired.
SnapshotsToClear(expired) ==
    LET names == {Name[s] : s \in AffectedInEnvironments}
    IN  AffectedInEnvironments
        \cup {s \in stored \ expired : Name[s] \in names /\ TableOf(s) \notin ProdVersions}

\* A mutant of DeployedDuringRestatement: nobody looks.
NoneDeployed == {}

\* The restated models that prod has in another version by now.
DeployedDuringRestatement ==
    {n \in Restated : \E s \in envs[Prod], q \in restating.all_snapshots :
        Name[s] = n /\ Name[q] = n /\ Version[s] # Version[q]}

\* visit_restatement_stage.  A new version in prod is among what is to be cleared, so
\* that nothing to clear means nothing was deployed.  The model takes the stage to
\* fall between plans: none is under way.  updated_ts and ttl are not in the model: any
\* of the stored snapshots that may have expired may not have either.
ClearIntervals(expired) ==
    LET deployed == DeployedDuringRestatement
        clear == {s \in SnapshotsToClear(expired) : Name[s] \notin deployed}
    IN  /\ restating.status = "backfill"
        /\ restating.todo = {}
        /\ plan = NoPlan
        /\ loaded' = [t \in Tables |->
             IF \E s \in clear : TableOf(s) = t THEN loaded[t] \ RestatedPoints ELSE loaded[t]]
        /\ restating' = [restating EXCEPT
             !.status = IF deployed = {} THEN "cleared" ELSE "failed",
             !.cleared = {Name[s] : s \in clear},
             !.missed = {TableOf(s) : s \in expired}
                            \ (ProdVersions \cup {TableOf(s) : s \in clear})]
        /\ UNCHANGED <<stored, envs, old, plan>>

\* A mutant of UpdateRecord: the plan does not notice that it was overtaken.
UpdateAnyRecord ==
    /\ restating.status = "cleared"
    /\ envs' = [envs EXCEPT ![Prod] = restating.all_snapshots]
    /\ restating' = [restating EXCEPT !.status = "succeeded"]
    /\ UNCHANGED <<stored, loaded, old, plan>>

\* The record of prod is written again, unless another plan has written it.
UpdateRecord ==
    /\ restating.status = "cleared"
    /\ IF restating.overtaken
       THEN /\ restating' = [restating EXCEPT !.status = "failed"]
            /\ UNCHANGED <<envs, plan>>
       ELSE /\ restating' = [restating EXCEPT !.status = "succeeded"]
            /\ envs' = [envs EXCEPT ![Prod] = restating.all_snapshots]
            /\ plan' = IF plan = NoPlan \/ plan.env # Prod THEN plan
                       ELSE [plan EXCEPT !.overtaken = TRUE]
    /\ UNCHANGED <<stored, loaded, old>>

Next ==
    \/ \E r \in Requests : StartPlan(r)
    \/ \E s \in SnapshotIds : EvaluateInPlan(s) \/ Backfill(s)
    \/ FinishPlan
    \/ StartRestatement
    \/ \E expired \in SUBSET (stored \cap ShortLived) : ClearIntervals(expired)
    \/ UpdateRecord

Spec == Init /\ [][Next]_vars
-----------------------------------------------------------------------------
\* Rows from before the restatement that the state takes to be good.
Stale(s) == loaded[TableOf(s)] \cap old[TableOf(s)] \cap RestatedPoints

Succeeded == restating.status = "succeeded"

\* The snapshots whose evaluations get into the table of a snapshot, at any distance.
Feeding[s \in SnapshotIds] ==
    LET same == {r \in SnapshotIds : TableOf(r) = TableOf(s)}
    IN  same \cup UNION {Feeding[p] : p \in UNION {Parents[r] : r \in same}}

\* What the restatement looks after: the snapshots of prod, and all the versions,
\* promoted or not, of a model that some environment had a version of its own of, if
\* they have not expired; their tables are as good as those they are computed from.
LookedAfter(s) ==
    \A q \in {q \in Feeding[s] \cap stored : FromTarget(q)} :
        \/ q \in restating.all_snapshots
        \/ Name[q] \in restating.cleared /\ TableOf(q) \notin restating.missed

\* When a restatement plan has succeeded, the versions it looked after hold no old
\* rows that pass for good ones, and never do again, whatever had been evaluated
\* and promoted between the start of the plan and the clearing.
LookedAfterFresh == Succeeded => \A s \in stored : LookedAfter(s) => Stale(s) = {}

\* Everything that an environment had when the intervals were cleared is among
\* what the restatement looks after; what it gets later was computed later.
PromotedFresh ==
    [][restating.status = "backfill" /\ restating'.status = "cleared" =>
        \A e \in EnvNames : \A s \in envs[e] :
            loaded'[TableOf(s)] \cap old'[TableOf(s)] \cap RestatedPoints = {}]_vars

\* Old data never gets to prod after a restatement of prod has succeeded.  This does
\* not hold: see MCUnpromotedVersions.cfg and MCExpiredVersions.cfg.
NoOldDataPromoted == Succeeded => \A s \in envs[Prod] : Stale(s) = {}

\* Clearing takes nothing from the tables that prod had when the restatement began,
\* nor from a new version of a restated model that was deployed since: prod has no
\* intervals to fill in because of a restatement.
ProdStaysLoaded ==
    [][\A s \in SnapshotIds :
        \/ s \in restating.all_snapshots
        \/ s \in envs[Prod] /\ Name[s] \in Restated
        => loaded[TableOf(s)] \subseteq loaded'[TableOf(s)]]_vars

\* A restatement plan that succeeds has restated what prod has: if another version
\* was deployed meanwhile it fails, and the deployment stays.
SuccessIsOfProd ==
    [][Succeeded' /\ ~Succeeded => envs'[Prod] = envs[Prod]]_vars
=============================================================================
