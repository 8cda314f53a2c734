----------------------------- MODULE IntervalLog -----------------------------
(***************************************************************************)
(* IntervalState (core/state_sync/db/interval.py) and the operations of    *)
(* the facade that use it.  Which points in time a table has been filled   *)
(* for is not stored: the _intervals table is a log of what was added and  *)
(* removed, replayed in the order of created_ts by whoever wants to know.  *)
(* The janitor rewrites the log; what it writes gets a created_ts of its   *)
(* own.                                                                    *)
(*                                                                         *)
(* A list of intervals is the set of the points in time it covers, and the *)
(* rows that one call writes for one snapshot are one row.  Two            *)
(* transactions never write in the same millisecond.                       *)
(*                                                                         *)
(* Plans and runs hold the snapshots they have read for as long as they    *)
(* take, and none of the calls looks whether a snapshot is still stored.   *)
(* The start of forward-only changes (effective_from) is left out: a       *)
(* snapshot that has one takes over, of what other snapshots loaded, only  *)
(* what is before it.                                                      *)
(***************************************************************************)
EXTENDS ExpiredSnapshots

CONSTANTS
    Points,         \* the points in time intervals are made of
    Ranges,         \* the sets of points that calls come with
    NoId,           \* no identifier
    NoPreview,      \* no dev_version
    Meanwhile,      \* what may commit while a compaction is under way
    MaxClock        \* bound on created_ts

ASSUME IntervalConstants ==
    /\ Ranges \subseteq SUBSET Points
    /\ NoId \notin SnapshotIds
    /\ NoPreview \notin Tables
    /\ Meanwhile \subseteq {"add", "pending", "remove"}
    /\ MaxClock \in Nat

VARIABLES
    stored,     \* the snapshots the store has a record of
    pushed,     \* those it has had one of: a plan or a run may hold any of them
    log,        \* the rows of the _intervals table
    read,       \* what the compaction under way has read ({}: there is none)
    clock       \* the last created_ts

vars == <<stored, pushed, log, read, clock>>

Kinds == {"add", "dev", "remove", "pending"}

Row == [kind : Kinds,
        table : Tables,                     \* name and version
        preview : Tables \cup {NoPreview},  \* name and dev_version
        id : SnapshotIds \cup {NoId},       \* identifier
        points : SUBSET Points,             \* start_ts to end_ts
        ts : Nat,                           \* created_ts
        compacted : BOOLEAN]

TypeOK ==
    /\ stored \subseteq pushed
    /\ pushed \subseteq SnapshotIds
    /\ log \subseteq Row
    /\ read \subseteq Row
    /\ clock \in Nat

(***************************************************************************)
(* The replay.  Rows are ordered by created_ts, at one created_ts what was *)
(* removed comes after what was added and pending restatements come last:  *)
(* what becomes of a point is up to the last row that says something about *)
(* it.                                                                     *)
(***************************************************************************)
KeyOf(r) == <<r.table, r.preview, r.id>>

KeysOf(rows) == {KeyOf(r) : r \in rows}

Removed(rows, r, x) ==
    \E q \in rows : /\ q.kind = "remove"
                    /\ KeyOf(q) = KeyOf(r)
                    /\ q.ts >= r.ts
                    /\ x \in q.points

\* The points of the rows of a kind that are still there at the end.
Surviving(rows, kind, r) ==
    IF kind = "add" THEN {x \in r.points : ~Removed(rows, r, x)} ELSE r.points

PointsOf(rows, kind, key) ==
    UNION {Surviving(rows, kind, r) : r \in {q \in rows : q.kind = kind /\ KeyOf(q) = key}}

\* A mutant of PendingOf: an addition of the same moment does away with it, too.
PendingBefore(rows, table) ==
    {x \in Points : \E r \in rows :
        /\ r.kind = "pending" /\ r.table = table /\ x \in r.points
        /\ \A q \in rows : q.kind = "add" /\ q.table = table /\ q.ts >= r.ts => x \notin q.points}

\* Pending restatements are merged by name and version, and an addition by any
\* snapshot of the version does away with the earlier ones.
PendingOf(rows, table) ==
    {x \in Points : \E r \in rows :
        /\ r.kind = "pending" /\ r.table = table /\ x \in r.points
        /\ \A q \in rows : q.kind = "add" /\ q.table = table /\ q.ts > r.ts => x \notin q.points}

\* What refresh_snapshot_intervals tells of a table: the intervals of all the
\* snapshots that share it, and of those that share the preview table as well.
Loaded(rows, table) ==
    UNION {PointsOf(rows, "add", k) : k \in {k \in KeysOf(rows) : k[1] = table}}

Previewed(rows, table, preview) ==
    UNION {PointsOf(rows, "dev", k) : k \in {k \in KeysOf(rows) : k[1] = table /\ k[2] = preview}}

(***************************************************************************)
(* Compaction: the tables that have rows which are not compacted yet are   *)
(* replayed, the result is written and what was read is deleted.           *)
(***************************************************************************)
NewRow(kind, key, points, ts, compacted) ==
    [kind |-> kind, table |-> key[1], preview |-> key[2], id |-> key[3],
     points |-> points, ts |-> ts, compacted |-> compacted]

Uncompacted(rows) == {r \in rows : \E q \in rows : q.table = r.table /\ ~q.compacted}

LoadedRows(rows, kind, ts) ==
    {NewRow(kind, k, PointsOf(rows, kind, k), ts, TRUE) : k \in KeysOf(rows)}

PendingRows(rows, ts) ==
    {NewRow("pending", <<t, NoPreview, NoId>>, PendingOf(rows, t), ts, TRUE) :
        t \in {r.table : r \in rows}}

MergedRows(rows, ts) ==
    LET merged == LoadedRows(rows, "add", ts) \cup LoadedRows(rows, "dev", ts)
                    \cup PendingRows(rows, ts)
    IN  {r \in merged : r.points # {}}

\* A mutant of Compacted: what is deleted is what is there now.
CompactedNow(rows, seen, ts) ==
    (rows \ {r \in rows : \E q \in Uncompacted(seen) : q.table = r.table})
        \cup MergedRows(Uncompacted(seen), ts)

Compacted(rows, seen, ts) ==
    (rows \ Uncompacted(seen)) \cup MergedRows(Uncompacted(seen), ts)

(***************************************************************************)
(* The cleanup when snapshots E are deleted, given the tables that are     *)
(* dropped: the rows of dropped production tables go, the preview rows of  *)
(* dropped preview tables go, and what is left loses its identifier.       *)
(***************************************************************************)
WithoutDropped(rows, E, dropped) ==
    LET devOnly == {DevTable(s) : s \in {s \in E : ProdTable(s) \notin dropped}} \cap dropped
    IN  {r \in rows : r.table \notin dropped /\ ~(r.kind = "dev" /\ r.preview \in devOnly)}

\* A mutant of Nullified: preview rows lose their dev_version as well.
NullifiedAll(r, E) ==
    IF r.id \in E
    THEN [r EXCEPT !.id = NoId, !.compacted = FALSE, !.preview = NoPreview]
    ELSE r

Nullified(r, E) ==
    IF r.id \in E
    THEN [r EXCEPT !.id = NoId,
                   !.compacted = FALSE,
                   !.preview = IF r.kind = "dev" THEN @ ELSE NoPreview]
    ELSE r

\* A mutant of Cleaned: the rows of dropped tables stay.
CleanedButKept(rows, E, dropped, ts) ==
    {Nullified(r, E) : r \in Compacted(rows, rows, ts)}

Cleaned(rows, E, dropped, ts) ==
    {Nullified(r, E) : r \in WithoutDropped(Compacted(rows, rows, ts), E, dropped)}
-----------------------------------------------------------------------------
Init ==
    /\ stored = {}
    /\ pushed = {}
    /\ log = {}
    /\ read = {}
    /\ clock = 0

Compacting == read # {}

MayCommit(what) == ~Compacting \/ what \in Meanwhile

\* Every transaction that writes rows takes a millisecond of its own.
Write(rows) ==
    /\ clock < MaxClock
    /\ clock' = clock + 1
    /\ log' = rows

KeyOfSnapshot(s) == <<ProdTable(s), DevTable(s), s>>

\* StateSync.push_snapshots, as far as intervals are concerned.
PushSnapshot(s) ==
    /\ s \notin stored
    /\ stored' = stored \cup {s}
    /\ pushed' = pushed \cup {s}
    /\ UNCHANGED <<log, read, clock>>

\* An evaluation of a snapshot has ended, be the snapshot stored or not.
AddInterval(s, P, isDev) ==
    /\ s \in pushed
    /\ MayCommit("add")
    /\ Write(log \cup {NewRow(IF isDev THEN "dev" ELSE "add", KeyOfSnapshot(s), P, clock + 1, FALSE)})
    /\ UNCHANGED <<stored, pushed, read>>

\* A run has found that a restatement is due.
AddPendingRestatement(s, P) ==
    /\ s \in pushed
    /\ MayCommit("pending")
    /\ Write(log \cup {NewRow("pending", <<ProdTable(s), NoPreview, NoId>>, P, clock + 1, FALSE)})
    /\ UNCHANGED <<stored, pushed, read>>

\* A mutant of RemovalKeys: only the rows of the snapshot itself.
RemovalKeysOfSnapshot(s) == {k \in KeysOf(log) : k = KeyOfSnapshot(s)}

RemovalKeys(s) == {k \in KeysOf(log) : k[1] = ProdTable(s)}

\* A restatement of prod clears the intervals of everybody who has the table.
\* The keys are those that have rows.
RemoveIntervals(s, P) ==
    /\ s \in pushed
    /\ MayCommit("remove")
    /\ RemovalKeys(s) # {}
    /\ Write(log \cup {NewRow("remove", k, P, clock + 1, FALSE) : k \in RemovalKeys(s)})
    /\ UNCHANGED <<stored, pushed, read>>

\* compact_intervals reads in one statement and writes in later ones.
CompactRead ==
    /\ ~Compacting
    /\ Uncompacted(log) # {}
    /\ read' = log
    /\ UNCHANGED <<stored, pushed, log, clock>>

CompactWrite ==
    /\ Compacting
    /\ Write(Compacted(log, read, clock + 1))
    /\ read' = {}
    /\ UNCHANGED <<stored, pushed>>

\* delete_expired_snapshots: the snapshots and their rows, in one transaction.
DeleteSnapshots(E) ==
    /\ E # {}
    /\ E \subseteq stored
    /\ ~Compacting
    /\ stored' = stored \ E
    /\ Write(Cleaned(log, E, TablesToDrop(stored, E), clock + 1))
    /\ UNCHANGED <<pushed, read>>

Next ==
    \/ \E s \in SnapshotIds :
        \/ PushSnapshot(s)
        \/ \E P \in Ranges :
            \/ \E isDev \in BOOLEAN : AddInterval(s, P, isDev)
            \/ AddPendingRestatement(s, P)
            \/ RemoveIntervals(s, P)
    \/ CompactRead
    \/ CompactWrite
    \/ \E E \in SUBSET SnapshotIds : DeleteSnapshots(E)

Spec == Init /\ [][Next]_vars
-----------------------------------------------------------------------------
\* Whoever replays the log learns what was loaded and not cleared since, whatever
\* has been compacted, in whichever order rows were written around a compaction,
\* and although deleted snapshots have left rows without an identifier behind.
Abstract == INSTANCE IntervalStore WITH
    loaded <- [t \in {ProdTable(s) : s \in SnapshotIds} |-> Loaded(log, t)],
    previewed <- [p \in {<<ProdTable(s), DevTable(s)>> : s \in SnapshotIds} |->
                    Previewed(log, p[1], p[2])]

StoreSpec == Abstract!Spec

\* A call does all of what it is for, and no more: loading and clearing are for
\* everybody who has the table, even if the rows that say so are other snapshots'.
CallsCount ==
    [][\A s \in SnapshotIds : \A P \in Ranges :
        /\ AddInterval(s, P, FALSE) => Abstract!Load(s, P)
        /\ AddInterval(s, P, TRUE) => Abstract!LoadPreview(s, P)
        /\ RemoveIntervals(s, P) => Abstract!Unload(s, P)]_vars

\* Rewriting the log goes unnoticed: a compaction changes nothing for a reader,
\* whatever has been written between its reading and its writing.
CompactionInvisible == [][CompactWrite => UNCHANGED Abstract!vars]_vars

\* A point that is waiting to be restated waits until it has been loaded anew:
\* the rewriting of the log does not forget it.
PendingKept ==
    [][\A s \in SnapshotIds :
        \A x \in PendingOf(log, ProdTable(s)) \ PendingOf(log', ProdTable(s)) :
            \/ \E r \in log' \ log : r.kind = "add" /\ ~r.compacted /\ x \in r.points
            \/ ProdTable(s) \notin {ProdTable(q) : q \in stored'}]_vars

IsAbout(r, s) == ProdTable(s) = r.table /\ (r.kind = "dev" => DevTable(s) = r.preview)

\* Recorded by an evaluation that has outlived its snapshot.
Late(r) == r.id \in SnapshotIds \ stored

\* What the log says of a table that nobody has was recorded by an evaluation that
\* ended after its snapshot had been deleted.  In particular, rows that lost their
\* identifier go with the last snapshot that has the table: get_expired_snapshots
\* lets go of the table, and cleanup_intervals finds them all.
OnlyLateRowsLinger ==
    \A r \in log : r.kind \in {"add", "dev"} /\ ~Late(r) => \E s \in stored : IsAbout(r, s)

\* A table that was dropped with its last snapshot is not taken to be filled when
\* a snapshot of the same version is stored again and the table created anew.  This
\* does not hold: a late evaluation leaves a row behind (README, section 3).
DroppedTablesEmpty ==
    \A s \in SnapshotIds :
        /\ (\A q \in stored : ProdTable(q) # ProdTable(s)) => Loaded(log, ProdTable(s)) = {}
        /\ (\A q \in stored : DevTable(q) # DevTable(s)) =>
               Previewed(log, ProdTable(s), DevTable(s)) = {}
=============================================================================
