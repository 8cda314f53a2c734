-------------------------- MODULE ExpiredSnapshots --------------------------
(***************************************************************************)
(* The selection of expired snapshots: SnapshotState.get_expired_snapshots *)
(* in core/state_sync/db/snapshot.py and the row ranges of                 *)
(* core/state_sync/common.py.  Every operator is a function of the rows of *)
(* the _snapshots table, the snapshots the environments use, the time and  *)
(* the range asked for.                                                    *)
(*                                                                         *)
(* rows is the set of stored snapshot ids, updated their updated_ts.       *)
(***************************************************************************)
EXTENDS Integers, FiniteSets

CONSTANTS
    SnapshotIds,    \* (name, identifier) pairs
    Name,           \* the model a snapshot is a version of
    Version,        \* names the physical table used in production
    DevVersion,     \* names the physical table used for previews
    Ttl,            \* ttl_ms
    Rank            \* position in the order of (name, identifier)

ASSUME SnapshotConstants ==
    /\ Ttl \in [SnapshotIds -> Nat]
    /\ Rank \in [SnapshotIds -> Nat \ {0}]
    /\ \A r, s \in SnapshotIds : Rank[r] = Rank[s] => r = s

(***************************************************************************)
(* Row boundaries, compared as (updated_ts, name, identifier).             *)
(***************************************************************************)
Boundary == Nat \X Nat

LowestBoundary == <<0, 0>>

RowBoundary(updated, s) == <<updated[s], Rank[s]>>

Less(a, b) == a[1] < b[1] \/ (a[1] = b[1] /\ a[2] < b[2])

(***************************************************************************)
(* The rows of one batch.  Candidates is the query without its limit.      *)
(***************************************************************************)
Candidates(rows, updated, promoted, ts, ignoreTtl, start) ==
    {s \in rows : /\ ignoreTtl \/ updated[s] + Ttl[s] <= ts
                  /\ Less(start, RowBoundary(updated, s))
                  /\ s \notin promoted}

CandidatesUpTo(rows, updated, promoted, ts, ignoreTtl, end) ==
    {s \in Candidates(rows, updated, promoted, ts, ignoreTtl, LowestBoundary) :
        ~Less(end, RowBoundary(updated, s))}

FirstRows(candidates, updated, limit) ==
    {s \in candidates :
        Cardinality({r \in candidates :
            Less(RowBoundary(updated, r), RowBoundary(updated, s))}) < limit}

\* The last row of a batch, behind which the next one starts.
IsLastRow(s, batch, updated) ==
    \A r \in batch : ~Less(RowBoundary(updated, s), RowBoundary(updated, r))

(***************************************************************************)
(* The physical tables of a snapshot (definition.py, table_name).          *)
(***************************************************************************)
ProdTable(s) == <<"prod", Name[s], Version[s]>>

DevTable(s) == <<"dev", Name[s], DevVersion[s]>>

TableName(s, isDeployable) == IF isDeployable THEN ProdTable(s) ELSE DevTable(s)

Tables == {ProdTable(s) : s \in SnapshotIds} \cup {DevTable(s) : s \in SnapshotIds}

\* Whether snapshots that share a preview table also share a production table.
\* categorize_as does not see to it: of two equal changes, one forward-only and
\* one not, both have the preview table of the change, and only the second has
\* the production table that goes with it.
VersionsNest(S) ==
    \A r, s \in S : DevTable(r) = DevTable(s) => ProdTable(r) = ProdTable(s)

(***************************************************************************)
(* The tables a batch lets go of.  The code goes through the batch and     *)
(* takes each snapshot off the groups of its production and its preview    *)
(* table: the one that leaves its preview table to nobody drops it, and    *)
(* drops its production table with it if that is left to nobody as well.   *)
(* Here the rows come in key order; CleanupLoop takes the loop step by     *)
(* step, and in any order.                                                 *)
(***************************************************************************)
SameVersion(rows, batch) == {r \in rows : \E s \in batch : ProdTable(r) = ProdTable(s)}

IsLast(s, batch, group) == group \subseteq batch /\ \A r \in group : Rank[r] <= Rank[s]

\* A mutant of TablesToDrop: nobody shares a table.
TablesOfBatch(rows, batch) == {ProdTable(s) : s \in batch} \cup {DevTable(s) : s \in batch}

TablesToDrop(rows, batch) ==
    LET same == SameVersion(rows, batch)
        targets == {s \in batch :
            IsLast(s, batch, {r \in same : DevTable(r) = DevTable(s)})}
        whole == {s \in targets :
            IsLast(s, batch, {r \in same : ProdTable(r) = ProdTable(s)})}
    IN  {DevTable(s) : s \in targets} \cup {ProdTable(s) : s \in whole}
=============================================================================
