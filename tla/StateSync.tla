----------------------------- MODULE StateSync -----------------------------
(***************************************************************************)
(* The state store of a project: the _snapshots and _environments tables   *)
(* and the operations of EngineAdapterStateSync on them                    *)
(* (core/state_sync/db/facade.py).  Each operation the code runs in a      *)
(* transaction is one action here.  Intervals, environment statements and  *)
(* versions are not part of this module.                                   *)
(***************************************************************************)
EXTENDS ExpiredSnapshots

CONSTANTS
    EnvNames, Prod,     \* environment names; Prod is "prod"
    PlanIds,
    NoPlan, NoEnv, Never,
    MaxClock            \* bound on the clock of the model

VARIABLES
    clock,      \* now_timestamp()
    rows,       \* ids of the stored snapshots
    updated,    \* their updated_ts (0 when there is no row)
    unpaused,   \* ids of the rows whose unpaused_ts is set
    envs        \* the environment records

storeVars == <<rows, updated, unpaused, envs>>

Environment ==
    [plan_id : PlanIds, previous_plan_id : PlanIds \cup {NoPlan},
     snapshots : SUBSET SnapshotIds, promoted : SUBSET SnapshotIds,
     previous_finalized : SUBSET SnapshotIds,
     expiration_ts : Nat \cup {Never}, finalized : BOOLEAN]

ASSUME StateSyncConstants ==
    /\ Prod \in EnvNames
    /\ NoPlan \notin PlanIds
    /\ NoEnv \notin Environment
    /\ Never \notin Nat
    /\ MaxClock \in Nat

StoreTypeOK ==
    /\ clock \in Nat
    /\ rows \subseteq SnapshotIds
    /\ updated \in [SnapshotIds -> Nat]
    /\ unpaused \subseteq SnapshotIds
    /\ envs \in [EnvNames -> Environment \cup {NoEnv}]

StoreInit ==
    /\ clock = 1
    /\ rows = {}
    /\ updated = [s \in SnapshotIds |-> 0]
    /\ unpaused = {}
    /\ envs = [e \in EnvNames |-> NoEnv]

Exists(e) == envs[e] # NoEnv

Expired(env, now) == env.expiration_ts # Never /\ env.expiration_ts <= now

SnapshotsOf(e) == IF Exists(e) THEN envs[e].snapshots ELSE {}

\* A mutant of Touched: the rows keep their age.
Untouched(S, now) == updated

Touched(S, now) == [s \in SnapshotIds |-> IF s \in S \cap rows THEN now ELSE updated[s]]
-----------------------------------------------------------------------------
(***************************************************************************)
(* push_snapshots: snapshots that already exist are left as they are, the  *)
(* others are inserted with the updated_ts they were created with.         *)
(***************************************************************************)
PushSnapshots(S, created_ts) ==
    /\ rows' = rows \cup S
    /\ updated' = [s \in SnapshotIds |-> IF s \in S \ rows THEN created_ts ELSE updated[s]]
    /\ UNCHANGED <<unpaused, envs>>

(***************************************************************************)
(* promote: raises when a snapshot has no record, or when a record that    *)
(* has not expired was not written by the plan this one was computed from. *)
(***************************************************************************)
\* Mutants of the two checks: no look at the records, and none at the plan before.
NoneMissing(env) == {}

NoConflict(e, env) == FALSE

MissingSnapshots(env) == env.snapshots \ rows

ConflictingPlan(e, env) ==
    /\ Exists(e)
    /\ ~Expired(envs[e], clock)
    /\ env.previous_plan_id # envs[e].plan_id

Promote(e, env) ==
    /\ MissingSnapshots(env) = {}
    /\ ~ConflictingPlan(e, env)
    /\ updated' = Touched(SnapshotsOf(e) \ env.snapshots, clock)
    /\ envs' = [envs EXCEPT ![e] = env]
    /\ UNCHANGED <<rows, unpaused>>

(***************************************************************************)
(* finalize: raises unless the record is still the one of the plan.        *)
(***************************************************************************)
CanFinalize(e, plan_id) == Exists(e) /\ envs[e].plan_id = plan_id

Finalize(e, plan_id) ==
    /\ CanFinalize(e, plan_id)
    /\ envs' = [envs EXCEPT ![e].finalized = TRUE]
    /\ UNCHANGED <<rows, updated, unpaused>>

(***************************************************************************)
(* unpause_snapshots: every row of the models is paused and touched, then  *)
(* the given snapshots are unpaused.                                       *)
(***************************************************************************)
SameName(S) == {r \in SnapshotIds : \E s \in S : Name[r] = Name[s]}

\* A mutant of UnpauseSnapshots: the other versions stay unpaused.
UnpauseInAddition(S) ==
    /\ updated' = Touched(SameName(S), clock)
    /\ unpaused' = unpaused \cup (S \cap rows)
    /\ UNCHANGED <<rows, envs>>

UnpauseSnapshots(S) ==
    /\ updated' = Touched(SameName(S), clock)
    /\ unpaused' = (unpaused \ SameName(S)) \cup (S \cap rows)
    /\ UNCHANGED <<rows, envs>>

(***************************************************************************)
(* invalidate_environment, with protect_prod.                              *)
(***************************************************************************)
InvalidateEnvironment(e) ==
    /\ e # Prod
    /\ Exists(e)
    /\ envs' = [envs EXCEPT ![e].expiration_ts = clock]
    /\ UNCHANGED <<rows, updated, unpaused>>

(***************************************************************************)
(* get_expired_environments and delete_expired_environments.               *)
(***************************************************************************)
ExpiredEnvironments(ts) == {e \in EnvNames : Exists(e) /\ Expired(envs[e], ts)}

DeleteExpiredEnvironments(ts) ==
    /\ envs' = [e \in EnvNames |-> IF e \in ExpiredEnvironments(ts) THEN NoEnv ELSE envs[e]]
    /\ UNCHANGED <<rows, updated, unpaused>>

(***************************************************************************)
(* The snapshots get_expired_snapshots never offers: those of every        *)
(* environment, and of the last finalized state of one being updated.      *)
(***************************************************************************)
\* Mutants: the state before an update is not looked at, or environments that
\* are being updated are not.
UsedNow(env) == env.snapshots

FinalizedIds == UNION {envs[e].snapshots : e \in {n \in EnvNames : Exists(n) /\ envs[n].finalized}}

UsedBy(env) == IF env.finalized THEN env.snapshots ELSE env.snapshots \cup env.previous_finalized

PromotedIds == UNION {UsedBy(envs[e]) : e \in {n \in EnvNames : Exists(n)}}

(***************************************************************************)
(* delete_expired_snapshots: selects again, at the time and in the range   *)
(* it is given, and deletes what it selects.                               *)
(***************************************************************************)
DeleteExpiredSnapshots(ts, ignoreTtl, end) ==
    LET expired == CandidatesUpTo(rows, updated, PromotedIds, ts, ignoreTtl, end)
    IN  /\ rows' = rows \ expired
        /\ updated' = [s \in SnapshotIds |-> IF s \in expired THEN 0 ELSE updated[s]]
        /\ unpaused' = unpaused \ expired
        /\ UNCHANGED envs

Tick ==
    /\ clock < MaxClock
    /\ clock' = clock + 1
    /\ UNCHANGED storeVars
=============================================================================
