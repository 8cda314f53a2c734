------------------------------- MODULE Versions -------------------------------
(***************************************************************************)
(* Versions of models: how a plan categorises what has changed (core/      *)
(* context_diff.py, plan/builder.py), which table a snapshot gets by its   *)
(* category, which tables a development environment may fill and read      *)
(* (DeployabilityIndex, core/snapshot/definition.py), which of them prod   *)
(* takes over, and which snapshots it must not go back to (unpausing).     *)
(*                                                                         *)
(* One command is run after the other and none of them fails.  Intervals   *)
(* are points in time.  What is in the tables is modelled as far as it can *)
(* be right or wrong: a row knows the revision of the model that computed  *)
(* it and what it was computed from.  Preview tables are left out, but for *)
(* what is computed from them: nothing that prod has may be.               *)
(***************************************************************************)
EXTENDS Integers, Sequences, FiniteSetsExt, Functions

CONSTANTS
    Models,
    Parents,        \* the models a model selects from
    Revisions,      \* the texts of each model there are in the project's history
    Output,         \* what a revision's rows are to who selects from it
    Additive,       \* pairs of revisions: the second adds projections to the first
    Prod, Dev,
    Last,           \* the points in time are 1..Last
    MaxPlans,       \* bound on the plans
    NoStamp, NoRow, Preview, NoEnv, NoSnapshot

EnvNames == {Prod, Dev}

\* The function itself, which TLC evaluates once and not whenever it is applied.
Tabulated(f) == CHOOSE g \in {f} : g = f

Points == 1..Last

ASSUME VersionsConstants ==
    /\ Parents \in [Models -> SUBSET Models]
    /\ DOMAIN Revisions = Models /\ DOMAIN Output = Models
    /\ \A m \in Models : DOMAIN Output[m] = Revisions[m]
    /\ \A m \in Models : \A p \in Additive : p[1] \in Revisions[m] /\ p[2] \in Revisions[m]
                                               => Output[m][p[1]] = Output[m][p[2]]
    /\ Last \in Nat \ {0} /\ MaxPlans \in Nat
    /\ Preview # NoRow
    /\ \A m \in Models : \A r \in Revisions[m] : Output[m][r] # Preview

\* No model selects from itself, nor from what selects from it (DAG.sorted raises an error):
\* wherever one looks there is a model that selects from none of the others.
ASSUME Acyclic ==
    \A M \in (SUBSET Models) \ {{}} : \E m \in M : Parents[m] \cap M = {}

VARIABLES
    stored,         \* the snapshots the store has a record of, and what it says
    unpaused,       \* those that prod runs
    unrestorable,   \* those that prod must not go back to
    envs,           \* the snapshot of each model in each environment
    rows,           \* what is in the tables
    now,            \* the last point in time that is over
    plans           \* the plans so far

vars == <<stored, unpaused, unrestorable, envs, rows, now, plans>>

Categories == {"breaking", "non_breaking", "indirect_breaking", "indirect_non_breaking"}

Ids == DOMAIN stored

TypeOK ==
    /\ \A s \in Ids :
        /\ s.name \in Models /\ s.rev \in Revisions[s.name]
        /\ {p.name : p \in s.upstream} = Parents[s.name] /\ s.upstream \subseteq Ids
        /\ stored[s].category \in Categories
        /\ stored[s].forward_only \in BOOLEAN
        /\ stored[s].version \in Ids /\ stored[s].version.name = s.name
        /\ stored[s].previous \in Seq(Ids)
    /\ unpaused \subseteq Ids /\ unrestorable \subseteq Ids
    /\ DOMAIN envs = EnvNames
    /\ \A e \in EnvNames : envs[e] = NoEnv \/ envs[e] \in [Models -> Ids]
    /\ DOMAIN rows = {stored[s].version : s \in Ids}
    /\ \A v \in DOMAIN rows : DOMAIN rows[v] = Points
    /\ now \in Points /\ plans \in 0..MaxPlans

Init ==
    /\ stored = << >>
    /\ unpaused = {} /\ unrestorable = {}
    /\ envs = [e \in EnvNames |-> NoEnv]
    /\ rows = << >>
    /\ now = 1
    /\ plans = 0

(***************************************************************************)
(* Snapshots of the project's files.  The fingerprint is made of the text  *)
(* of the model, its stamp and the fingerprints of what it selects from.   *)
(***************************************************************************)
Fingerprints(files, stamps) ==
    LET id[m \in Models] == [name |-> m, rev |-> files[m], stamp |-> stamps[m],
                             upstream |-> {id[p] : p \in Parents[m]}]
    IN  Tabulated(id)

Unstamped == [m \in Models |-> NoStamp]

\* Unrestorable snapshots are avoided: their models are stamped.
SnapshotsOf(files) ==
    LET found == Fingerprints(files, Unstamped)
    IN  Fingerprints(files, [m \in Models |->
            IF found[m] \in unrestorable THEN found[m] ELSE NoStamp])

\* The environment that a plan is compared with: create_from for a new one.
Remote(env) == IF envs[env] = NoEnv THEN envs[Prod] ELSE envs[env]

IsDataChange(new, old) == new.rev # old.rev \/ new.stamp # old.stamp

(***************************************************************************)
(* Categories and versions (_categorize_snapshots, categorize_as).  S are  *)
(* the snapshots of the plan, R those of the remote environment; only new  *)
(* snapshots are categorised.  A change that only adds projections is      *)
(* non-breaking, any other is breaking: the default auto categorisation.   *)
(***************************************************************************)
Ancestors ==
    LET all[m \in Models] == Parents[m] \cup UNION {all[p] : p \in Parents[m]}
    IN  Tabulated(all)

IsNew(s) == s \notin Ids

ParentOf(s, name) == CHOOSE p \in s.upstream : p.name = name

\* all_versions
Chain(s) == Append(stored[s].previous, s)

\* The categories of the versions of a snapshot since an earlier one.
CategoriesSince(s, earlier) ==
    LET after == {i \in DOMAIN Chain(s) : \A j \in DOMAIN Chain(s) : Chain(s)[j] = earlier => j < i}
    IN  {stored[Chain(s)[i]].category : i \in after}

\* A mutant of OrphanedCategory: only the last version of a parent counts.
LastOfParents(s, old) ==
    IF \E p \in s.upstream \ old.upstream :
           stored[p].category \in {"breaking", "indirect_breaking"}
    THEN "indirect_breaking"
    ELSE "indirect_non_breaking"

\* _get_orphaned_indirect_change_category, where none of the direct parents is new.
OrphanedCategory(s, old) ==
    LET changed == s.upstream \ old.upstream
    IN  IF /\ changed # {}
           /\ \A p \in changed :
               /\ ParentOf(old, p.name) \in Range(Chain(p))
               /\ CategoriesSince(p, ParentOf(old, p.name)) \cap {"breaking", "indirect_breaking"} = {}
        THEN "indirect_non_breaking"
        ELSE "indirect_breaking"

DirectCategory(new, old) ==
    IF new.rev = old.rev \/ <<old.rev, new.rev>> \in Additive THEN "non_breaking" ELSE "breaking"

\* direct: the categories of the direct parents that are new in the plan.
IndirectCategory(s, old, direct) ==
    IF direct \cap {"breaking", "indirect_breaking"} # {} THEN "indirect_breaking"
    ELSE IF direct = {} THEN OrphanedCategory(s, old)
    ELSE "indirect_non_breaking"

CategorizedAs(s, old, category, forward_only) ==
    [category |-> category,
     forward_only |-> forward_only,
     version |-> IF old # NoSnapshot /\ (forward_only \/ category = "indirect_non_breaking")
                 THEN stored[old].version
                 ELSE s,
     previous |-> IF old = NoSnapshot THEN << >> ELSE Chain(old)]

\* The record of a model's snapshot, given those of what is above it.
RecordOf(S, R, forward_only, record, m) ==
    LET s == S[m]
        old == R[m]
        direct == {record[p].category : p \in {p \in Parents[m] : IsNew(S[p])}}
        upstream == {record[p].forward_only : p \in {p \in Ancestors[m] : IsNew(S[p])}}
    IN  IF ~IsNew(s) THEN stored[s]
        ELSE IF old = NoSnapshot THEN CategorizedAs(s, old, "breaking", forward_only)
        ELSE IF IsDataChange(s, old)
        THEN CategorizedAs(s, old, DirectCategory(s, old), forward_only)
        ELSE CategorizedAs(s, old, IndirectCategory(s, old, direct),
                           forward_only \/ upstream = {TRUE})

\* The records of the snapshots of a plan, by model.
Records(S, R, forward_only) ==
    LET record[m \in Models] == RecordOf(S, R, forward_only, record, m)
    IN  Tabulated(record)
-----------------------------------------------------------------------------
(***************************************************************************)
(* Deployability.  The record, and what the state knows of the intervals,  *)
(* of each snapshot are given by model.                                    *)
(***************************************************************************)
EmptyTable == [x \in Points |-> NoRow]

Table(v) == IF v \in DOMAIN rows THEN rows[v] ELSE EmptyTable

LoadedIn(table) == {x \in Points : table[x] # NoRow}

\* Not deployable by nature: the table is in use by another snapshot.
ByNature(r) == r.forward_only \/ r.category = "indirect_non_breaking"

StandsForProd(s, r) ==
    \/ s \in unpaused
    \/ r.category = "indirect_non_breaking" /\ LoadedIn(Table(r.version)) # {}

\* A mutant of GoodForChildren: as if what is in use were up to date.
InUseIsEnough(this, nature, represents) == this

\* What is computed from a snapshot may be used by prod.
GoodForChildren(this, nature, represents) == this /\ (nature => represents)

\* What a model's snapshot may be used for, given that of what it selects from.
DeployabilityOf(S, record, index, m) ==
    LET this == \A p \in Parents[m] : index[p].children
        nature == ByNature(record[m])
        represents == IF this THEN nature /\ StandsForProd(S[m], record[m])
                      ELSE S[m] \in unpaused
    IN  [deployable |-> this /\ ~nature,
         representative |-> (this /\ ~nature) \/ represents,
         children |-> GoodForChildren(this, nature, represents)]

\* DeployabilityIndex.create
DeployabilityIndex(S, record) ==
    LET index[m \in Models] == DeployabilityOf(S, record, index, m)
    IN  Tabulated(index)

AllDeployable == [m \in Models |-> [deployable |-> TRUE, representative |-> TRUE, children |-> TRUE]]

(***************************************************************************)
(* Evaluation.  The selected models are filled up to an end of their own,  *)
(* parents first.  What is not deployable goes to a preview table.         *)
(***************************************************************************)

\* What becomes of a row in the rows that are computed from it.
Content(m, row) ==
    IF row = NoRow THEN {<<m, NoRow>>} ELSE {<<m, Output[m][row.rev]>>} \cup row.from

\* What a row for a point is computed from, given the tables of what is above the model.
ComputedFrom(index, filled, m, x) ==
    UNION {IF index[p].representative THEN Content(p, filled[p][x])
           ELSE {<<p, Preview>>} : p \in Parents[m]}

FilledTable(tables, S, index, selected, start, end, filled, m) ==
    [x \in Points |->
        IF /\ m \in selected
           /\ start <= x /\ x <= end[m]
           /\ index[m].deployable
           /\ tables[m][x] = NoRow
        THEN [rev |-> S[m].rev, from |-> ComputedFrom(index, filled, m, x)]
        ELSE tables[m][x]]

\* The tables of the models afterwards.
Filled(tables, S, index, selected, start, end) ==
    LET filled[m \in Models] == FilledTable(tables, S, index, selected, start, end, filled, m)
    IN  Tabulated(filled)

WithTables(record, tables) ==
    [v \in DOMAIN rows \cup {record[m].version : m \in Models} |->
        IF \E m \in Models : record[m].version = v
        THEN tables[CHOOSE m \in Models : record[m].version = v]
        ELSE rows[v]]

TablesOf(record) == Tabulated([m \in Models |-> Table(record[m].version)])

UpToNow == [m \in Models |-> now]

\* max_interval_end_per_model for prod, and the end of the plan for models without.
ProdEnd(models) ==
    LET ends(m) == IF envs[Prod] = NoEnv THEN {} ELSE LoadedIn(Table(stored[envs[Prod][m]].version))
        all == UNION {ends(m) : m \in models}
    IN  [m \in Models |-> IF m \in models /\ ends(m) # {} THEN Max(ends(m))
                          ELSE IF all # {} THEN Max(all) ELSE now]
-----------------------------------------------------------------------------
(***************************************************************************)
(* Plans.                                                                  *)
(***************************************************************************)
\* A mutant of Store: what the plan does not know of is forgotten.
OnlyThePlans(S, record) == stored' = [s \in Range(S) |-> record[s.name]]

Store(S, record) ==
    stored' = [s \in Ids \cup Range(S) |->
                  IF s \in Ids THEN stored[s] ELSE record[s.name]]

\* The stored snapshots of the same versions with forward_only the other way round.
Unrestorable(S, record, promoted) ==
    {s \in Ids \cup Range(S) :
        LET r == IF s \in Ids THEN stored[s] ELSE record[s.name]
        IN  \E m \in promoted : /\ r.version = record[m].version
                                /\ r.forward_only # record[m].forward_only}

\* unpause_snapshots, for what is new in prod.
UnpauseSnapshots(S, record, promoted) ==
    /\ unpaused' = {s \in unpaused : s.name \notin promoted} \cup {S[m] : m \in promoted}
    /\ unrestorable' = unrestorable \cup Unrestorable(S, record, promoted)

\* By default a plan goes as far as prod does.  A development plan fills what is
\* modified, and what is upstream of that; for previews the last point is enough.
DevPlan(S, record, modified, forward_only, run) ==
    LET selected == IF modified = {} THEN Models ELSE modified \cup UNION {Ancestors[m] : m \in modified}
        index == DeployabilityIndex(S, record)
        end == IF run THEN UpToNow ELSE ProdEnd(selected)
        start == IF forward_only
                 THEN Min({end[m] : m \in IF modified = {} THEN Models ELSE modified})
                 ELSE 1
    IN  /\ envs[Dev] = NoEnv => modified # {}
        /\ rows' = WithTables(record, Filled(TablesOf(record), S, index, selected, start, end))
        /\ envs' = [envs EXCEPT ![Dev] = S]
        /\ UNCHANGED <<unpaused, unrestorable>>

BeforePromote(index) == {m \in Models : index[m].representative}

\* What is not deployable yet is filled after it has been unpaused.
ProdPlan(S, record, modified, run) ==
    LET before == BeforePromote(DeployabilityIndex(S, record))
        end == IF run THEN UpToNow ELSE ProdEnd(Models)
        tables == Filled(TablesOf(record), S, AllDeployable, before, 1, end)
    IN  /\ rows' = WithTables(record, Filled(tables, S, AllDeployable, Models \ before, 1, end))
        /\ envs' = [envs EXCEPT ![Prod] = S]
        /\ UnpauseSnapshots(S, record, modified)

Plan(env, files, forward_only, run) ==
    LET S == SnapshotsOf(files)
        R == IF Remote(env) = NoEnv THEN [m \in Models |-> NoSnapshot] ELSE Remote(env)
        record == Records(S, R, forward_only)
        modified == {m \in Models : S[m] # R[m]}
    IN  /\ plans < MaxPlans
        /\ plans' = plans + 1
        /\ Store(S, record)
        /\ IF env = Dev THEN DevPlan(S, record, modified, forward_only, run)
           ELSE ProdPlan(S, record, modified, run)
        /\ UNCHANGED now

\* sqlmesh run.
Run(env) ==
    LET S == envs[env]
        record == [m \in Models |-> stored[S[m]]]
        index == IF env = Prod THEN AllDeployable ELSE DeployabilityIndex(S, record)
    IN  /\ envs[env] # NoEnv
        /\ rows' = WithTables(record, Filled(TablesOf(record), S, index, Models, 1, UpToNow))
        /\ UNCHANGED <<stored, unpaused, unrestorable, envs, now, plans>>

\* The development environment expires, or is invalidated.
RemoveDev ==
    /\ envs[Dev] # NoEnv
    /\ envs' = [envs EXCEPT ![Dev] = NoEnv]
    /\ UNCHANGED <<stored, unpaused, unrestorable, rows, now, plans>>

TimePasses ==
    /\ now < Last
    /\ now' = now + 1
    /\ UNCHANGED <<stored, unpaused, unrestorable, envs, rows, plans>>

Files == {f \in [Models -> UNION {Revisions[m] : m \in Models}] : \A m \in Models : f[m] \in Revisions[m]}

Next ==
    \/ \E env \in EnvNames, files \in Files, forward_only \in BOOLEAN, run \in BOOLEAN :
        Plan(env, files, forward_only, run)
    \/ \E env \in EnvNames : Run(env)
    \/ RemoveDev
    \/ TimePasses

Spec == Init /\ [][Next]_vars
-----------------------------------------------------------------------------
InProd == IF envs[Prod] = NoEnv THEN {} ELSE Range(envs[Prod])

RowsOf(s) == {rows[stored[s].version][x] : x \in LoadedIn(rows[stored[s].version])}

\* Nothing since the version began was forward-only.
Rebuilt(s) ==
    \A i \in DOMAIN Chain(s) :
        stored[Chain(s)[i]].version = stored[s].version => ~stored[Chain(s)[i]].forward_only

NeverForwardOnly(s) == \A i \in DOMAIN Chain(s) : ~stored[Chain(s)[i]].forward_only

\* What its rows are computed from, going by the text of what it selects from.
Sources(S, m) == {<<p, Output[p][S[p].rev]>> : p \in Ancestors[m]}

\* Prod has the data that its code stands for, wherever it was computed, whichever table
\* was taken over, and whatever was in prod before: since a model was last rebuilt, its
\* rows are those of its own text, and where nothing that it selects from was ever changed
\* forward-only, they are computed from what all of that is now.
ProdIsRebuilt ==
    \A s \in InProd : Rebuilt(s) => \A row \in RowsOf(s) :
        /\ row.rev = s.rev
        /\ (\A m \in Ancestors[s.name] : NeverForwardOnly(envs[Prod][m]))
                => {c \in row.from : c[2] # NoRow} \subseteq Sources(envs[Prod], s.name)

\* What a development environment leaves in tables that prod may take over, or has
\* already, was not computed from a preview.
ReadyForProd ==
    \A v \in DOMAIN rows : \A x \in LoadedIn(rows[v]) : \A c \in rows[v][x].from : c[2] # Preview

\* What is in tables that prod may take over was computed from rows that were there.
\* (It does not hold: development environments are filled further than prod.)
NothingWasMissing ==
    \A v \in DOMAIN rows : \A x \in LoadedIn(rows[v]) : \A c \in rows[v][x].from : c[2] # NoRow
=============================================================================
