------------------------ MODULE LifecycleProperties ------------------------
(***************************************************************************)
(* What plans and the janitor may and may not do to the store, the tables  *)
(* and the views.                                                          *)
(***************************************************************************)
EXTENDS Lifecycle

Live(e) == Exists(e) /\ ~Expired(envs[e], clock)

Finalized(e) == Live(e) /\ envs[e].finalized
-----------------------------------------------------------------------------
(***************************************************************************)
(* Safety with everything running at the same time.                        *)
(***************************************************************************)
\* Every snapshot an environment refers to has a record, whatever the janitor
\* deleted between the steps of the plan that put it there: promote looks for
\* the records again, and delete_expired_snapshots for the environments.
EnvironmentsResolve == \A e \in EnvNames : SnapshotsOf(e) \subseteq rows

Replaces(p, e) ==
    /\ Exists(e)' /\ envs'[e].plan_id = p
    /\ ~(Exists(e) /\ envs[e].plan_id = p)

\* A plan never overwrites a live environment that is not in the state the plan
\* was compared with: no update made while it was built, reviewed and backfilled
\* is lost (the previous_plan_id check of promote).
NoLostUpdate ==
    [][\A p \in PlanIds, e \in EnvNames :
        Replaces(p, e) /\ Live(e) => plans[p].environment_snapshots = envs[e].snapshots]_vars

\* As long as an environment is being updated, the snapshots of the last state
\* it was finalized in keep their records, so that it can be put back.
RollbackTargetsKept ==
    [][\A e \in EnvNames :
        Exists(e) /\ ~envs[e].finalized /\ envs'[e] = envs[e]
            => envs[e].previous_finalized \cap rows \subseteq rows']_vars

\* The store behaves as a registry of references: environments are switched as
\* a whole, and nothing an environment refers to is collected.
Registry == INSTANCE SnapshotRegistry WITH
    stored <- rows, pointed <- [e \in EnvNames |-> SnapshotsOf(e)]

RegistrySpec == Registry!Spec
-----------------------------------------------------------------------------
(***************************************************************************)
(* Safety of finished work.                                                *)
(***************************************************************************)
\* The table the view of a promoted snapshot may select from once its
\* environment is finalized.  In dev, a forward-only snapshot is read from its
\* preview table unless it was deployed when the plan was applied.
RightTables(e, s) ==
    IF e = Prod \/ s \notin ForwardOnly THEN {ProdTable(s)} ELSE {ProdTable(s), DevTable(s)}

\* In a finalized environment the view of every promoted snapshot selects from
\* a table of that very snapshot, also when only the views of changed snapshots
\* were replaced, and after plans that stopped half way.
FinalizedViews ==
    \A e \in EnvNames : Finalized(e) =>
        \A s \in envs[e].promoted : views[e][Name[s]] \in RightTables(e, s)

\* And that table exists: what the janitor drops is never shared with a
\* snapshot that is still promoted.
FinalizedTablesExist ==
    \A e \in EnvNames : Finalized(e) =>
        \A s \in envs[e].promoted : views[e][Name[s]] \in tables

\* A finalized environment has no views besides those of promoted snapshots.
NoStaleViews ==
    \A e \in EnvNames : Finalized(e) =>
        \A n \in Names : views[e][n] # NoTable => \E s \in envs[e].promoted : Name[s] = n

\* In a finalized production environment, of all snapshots of its models exactly
\* the promoted ones are unpaused, that is, run by the scheduler.
ProdUnpaused ==
    Finalized(Prod) =>
        unpaused \cap SameName(envs[Prod].promoted) = envs[Prod].promoted

\* The janitor only drops tables that no snapshot of an environment needs.
DroppedTablesUnused ==
    [][tables \ tables' \subseteq
        Tables \ {ProdTable(s) : s \in UNION {SnapshotsOf(e) : e \in EnvNames}}]_vars
-----------------------------------------------------------------------------
(***************************************************************************)
(* Liveness.                                                               *)
(***************************************************************************)
\* The application of a plan ends, with all stages done or with an error.
PlansEnd == \A p \in PlanIds : plans[p].pc = "push" ~> plans[p].pc \in {"done", "failed"}

\* A janitor run ends: each batch starts behind the one before it.
JanitorEnds == janitor.pc # "idle" ~> janitor.pc = "idle"
=============================================================================
