---------------------------- MODULE CleanupLoop ----------------------------
(***************************************************************************)
(* How get_expired_snapshots decides which tables a batch of expired       *)
(* snapshots lets go of: it groups the snapshots that have a version in    *)
(* common with the batch by production table and by preview table, goes    *)
(* through the batch and takes each snapshot off its two groups.  The rows *)
(* come from a query without an order.                                     *)
(***************************************************************************)
EXTENDS ExpiredSnapshots

VARIABLES
    snapshots,          \* the stored snapshots
    expired,            \* the expired ones of them that are being collected
    inKeyOrder,         \* whether the rows happen to come in key order
    todo,               \* the part of the batch that is still to be visited
    by_version,         \* snapshots_by_version: production table -> snapshots
    by_dev_version,     \* snapshots_by_dev_version: preview table -> snapshots
    targets             \* the tables of the cleanup tasks so far

loopVars == <<snapshots, expired, inKeyOrder, todo, by_version, by_dev_version, targets>>

LoopTypeOK ==
    /\ snapshots \subseteq SnapshotIds
    /\ expired \subseteq snapshots
    /\ inKeyOrder \in BOOLEAN
    /\ todo \subseteq expired
    /\ by_version \in [Tables -> SUBSET SnapshotIds]
    /\ by_dev_version \in [Tables -> SUBSET SnapshotIds]
    /\ targets \subseteq Tables

LoopInit ==
    /\ snapshots \in SUBSET SnapshotIds
    /\ expired \in SUBSET snapshots \ {{}}
    /\ inKeyOrder \in BOOLEAN
    /\ todo = expired
    /\ by_version = [t \in Tables |-> {r \in SameVersion(snapshots, expired) : ProdTable(r) = t}]
    /\ by_dev_version = [t \in Tables |-> {r \in SameVersion(snapshots, expired) : DevTable(r) = t}]
    /\ targets = {}

\* Mutants of CleanupTargets: previews may be shared, too; production tables may
\* be shared although the preview is not; and a preview goes also when the
\* production table stays.
TargetsIgnoringPreviews(s, shared, sharedDev) ==
    {DevTable(s)} \cup (IF shared = {} THEN {ProdTable(s)} ELSE {})

TargetsWithBothTables(s, shared, sharedDev) ==
    IF sharedDev # {} THEN {} ELSE {DevTable(s), ProdTable(s)}

TargetsOfLastVersion(s, shared, sharedDev) ==
    IF shared # {} THEN {} ELSE {DevTable(s), ProdTable(s)}

\* The tables of the task for a snapshot, given who else is in its two groups.
CleanupTargets(s, shared, sharedDev) ==
    IF sharedDev # {}
    THEN {}
    ELSE {DevTable(s)} \cup (IF shared = {} THEN {ProdTable(s)} ELSE {})

\* A mutant of Visit: the snapshot stays in its groups.
VisitInGroups(s) ==
    /\ s \in todo
    /\ todo' = todo \ {s}
    /\ targets' = targets
         \cup CleanupTargets(s, by_version[ProdTable(s)] \ {s}, by_dev_version[DevTable(s)] \ {s})
    /\ UNCHANGED <<snapshots, expired, inKeyOrder, by_version, by_dev_version>>

Visit(s) ==
    LET shared == by_version[ProdTable(s)] \ {s}
        sharedDev == by_dev_version[DevTable(s)] \ {s}
    IN  /\ s \in todo
        /\ inKeyOrder => \A r \in todo : Rank[s] <= Rank[r]
        /\ todo' = todo \ {s}
        /\ by_version' = [by_version EXCEPT ![ProdTable(s)] = shared]
        /\ by_dev_version' = [by_dev_version EXCEPT ![DevTable(s)] = sharedDev]
        /\ targets' = targets \cup CleanupTargets(s, shared, sharedDev)
        /\ UNCHANGED <<snapshots, expired, inKeyOrder>>

LoopNext == \E s \in SnapshotIds : Visit(s)

LoopSpec == LoopInit /\ [][LoopNext]_loopVars
-----------------------------------------------------------------------------
\* The groups hold exactly what has not been visited: the code changes the sets
\* it has grouped while it goes through the batch.
GroupsUpToDate ==
    LET left == SameVersion(snapshots, expired) \ (expired \ todo)
    IN  \A t \in Tables :
            /\ by_version[t] = {r \in left : ProdTable(r) = t}
            /\ by_dev_version[t] = {r \in left : DevTable(r) = t}

\* No table of a snapshot outside of the batch is ever dropped, however the
\* snapshots share versions and in whatever order they are visited.
SharedTablesKept ==
    VersionsNest(snapshots) =>
        \A r \in snapshots \ expired : ProdTable(r) \notin targets /\ DevTable(r) \notin targets

\* A preview table that a snapshot outside of the batch has as well is still
\* used and stays, whatever the production tables of the two are.
SharedPreviewsKept == \A r \in snapshots \ expired : DevTable(r) \notin targets

\* The order of the visits does not matter, and every table that nobody else
\* needs is dropped: what the lifecycle of snapshots takes the result to be.
DropsTheRest ==
    todo = {} /\ (inKeyOrder \/ VersionsNest(snapshots)) => targets = TablesToDrop(snapshots, expired)

\* Nothing that only the batch used stays behind.
NothingLeaks ==
    todo = {} /\ VersionsNest(snapshots) =>
        \A s \in expired :
            /\ (\A r \in snapshots \ expired : ProdTable(r) # ProdTable(s)) => ProdTable(s) \in targets
            /\ (\A r \in snapshots \ expired : DevTable(r) # DevTable(s)) => DevTable(s) \in targets
=============================================================================
