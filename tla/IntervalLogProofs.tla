------------------------- MODULE IntervalLogProofs -------------------------
(***************************************************************************)
(* What is deleted and what is read, proved for any snapshots, points and  *)
(* ranges, any clock and any length of the log.  First the loop that       *)
(* decides which tables a batch of expired snapshots lets go of: the       *)
(* groups are kept up to date, no table of a snapshot that stays is        *)
(* dropped, none that only the batch used is forgotten, and what is        *)
(* dropped is TablesToDrop, the closed form that everything else uses.     *)
(* Then IntervalLog, which forgets what tables were filled for by the same *)
(* closed form: types, that compaction goes unnoticed, and that the log    *)
(* implements IntervalStore.                                               *)
(***************************************************************************)
EXTENDS IntervalLog, CleanupLoop, UpTheGraph

LEMMA TablesOfSnapshots ==
    \A s \in SnapshotIds : ProdTable(s) \in Tables /\ DevTable(s) \in Tables
BY DEF Tables

\* Snapshots that share a preview table share a production table, whichever are stored.
PreviewsNest == VersionsNest(SnapshotIds)

LEMMA TablesDiffer == \A a, b : ProdTable(a) # DevTable(b)
BY DEF ProdTable, DevTable

\* Finitely many snapshots have a last one.
LEMMA LastByRank ==
    ASSUME NEW G \in SUBSET SnapshotIds, IsFiniteSet(G), G # {}
    PROVE  \E s \in G : \A r \in G : Rank[r] <= Rank[s]
<1> DEFINE Behind(s) == {r \in G : Rank[s] < Rank[r]}
           T == {Behind(s) : s \in G}
<1>1. \A s \in G : Rank[s] \in Nat  BY SnapshotConstants
<1>2. \A s \in G : Behind(s) \subseteq G /\ IsFiniteSet(Behind(s))  BY FS_Subset
<1>3. PICK s \in G : \A r \in G : Behind(r) \subseteq Behind(s) => Behind(r) = Behind(s)
  <2>1. T # {}  OBVIOUS
  <2>2. \A x \in T : x \in FiniteSubsetsOf(G)  BY <1>2 DEF FiniteSubsetsOf
  <2>3. \E x \in T : \A y \in T : y \subseteq x => y = x
    <3> HIDE DEF T
    <3> QED  BY <2>1, <2>2, SmallestSet
  <2>4. PICK x \in T : \A y \in T : y \subseteq x => y = x  BY <2>3
  <2>5. PICK s \in G : x = Behind(s)  BY <2>4
  <2>6. \A r \in G : Behind(r) \in T  OBVIOUS
  <2>7. \A r \in G : Behind(r) \subseteq Behind(s) => Behind(r) = Behind(s)
    <3> HIDE DEF T, Behind
    <3> QED  BY <2>4, <2>5, <2>6
  <2> QED  BY <2>7
<1>4. ASSUME NEW r \in Behind(s) PROVE FALSE
  <2>1. r \in G /\ Rank[s] < Rank[r] /\ r \notin Behind(r)  BY <1>1
  <2>2. Behind(r) \subseteq Behind(s)  BY <1>1, <2>1
  <2> QED  BY <1>3, <1>4, <2>1, <2>2
<1> QED  BY <1>1, <1>4

(***************************************************************************)
(* A table is dropped with a batch exactly if nobody outside of the batch  *)
(* has it.                                                                 *)
(***************************************************************************)
LEMMA LastHasTheTable ==
    ASSUME NEW rows \in SUBSET SnapshotIds, NEW batch \in SUBSET rows, IsFiniteSet(batch),
           NEW s \in batch, NEW group \in SUBSET batch, s \in group
    PROVE  \E t \in batch : t \in group /\ IsLast(t, batch, group)
<1>1. IsFiniteSet(group) /\ group \subseteq SnapshotIds  BY FS_Subset
<1> QED  BY <1>1, LastByRank DEF IsLast

LEMMA UnsharedPreviewDropped ==
    ASSUME NEW rows \in SUBSET SnapshotIds, NEW batch \in SUBSET rows, IsFiniteSet(batch),
           NEW s \in batch,
           \A r \in SameVersion(rows, batch) \ batch : DevTable(r) # DevTable(s)
    PROVE  DevTable(s) \in TablesToDrop(rows, batch)
<1> DEFINE group == {r \in SameVersion(rows, batch) : DevTable(r) = DevTable(s)}
<1>1. group \subseteq batch /\ s \in group  BY DEF SameVersion
<1>2. PICK t \in batch : t \in group /\ IsLast(t, batch, group)  BY <1>1, LastHasTheTable
<1>3. DevTable(t) = DevTable(s)  BY <1>2
<1> QED  BY <1>2, <1>3 DEF TablesToDrop

LEMMA UnsharedTableDropped ==
    ASSUME NEW rows \in SUBSET SnapshotIds, NEW batch \in SUBSET rows, IsFiniteSet(batch),
           VersionsNest(rows), NEW s \in batch,
           \A r \in rows \ batch : ProdTable(r) # ProdTable(s)
    PROVE  ProdTable(s) \in TablesToDrop(rows, batch)
<1> DEFINE same == SameVersion(rows, batch)
           group == {r \in same : ProdTable(r) = ProdTable(s)}
<1>1. same \subseteq rows  BY DEF SameVersion
<1>2. group \subseteq batch /\ s \in group  BY DEF SameVersion
<1>3. PICK t \in batch : t \in group /\ IsLast(t, batch, group)  BY <1>2, LastHasTheTable
<1>4. ProdTable(t) = ProdTable(s)  BY <1>3
<1>5. {r \in same : ProdTable(r) = ProdTable(t)} = group  BY <1>4
<1>6. {r \in same : DevTable(r) = DevTable(t)} \subseteq group
    BY <1>1, <1>4 DEF VersionsNest
<1>7. IsLast(t, batch, {r \in same : DevTable(r) = DevTable(t)})
    BY <1>3, <1>6 DEF IsLast
<1> QED  BY <1>3, <1>4, <1>5, <1>7 DEF TablesToDrop

LEMMA SharedTableStays ==
    ASSUME NEW rows \in SUBSET SnapshotIds, NEW batch \in SUBSET rows, NEW r \in rows \ batch
    PROVE  /\ ProdTable(r) \notin TablesToDrop(rows, batch)
           /\ VersionsNest(rows) => DevTable(r) \notin TablesToDrop(rows, batch)
<1> DEFINE same == SameVersion(rows, batch)
<1>1. ASSUME ProdTable(r) \in TablesToDrop(rows, batch) PROVE FALSE
  <2>1. PICK t \in batch : /\ ProdTable(r) = ProdTable(t)
                           /\ IsLast(t, batch, {q \in same : ProdTable(q) = ProdTable(t)})
      BY <1>1, TablesDiffer DEF TablesToDrop
  <2>2. r \in same  BY <2>1 DEF SameVersion
  <2> QED  BY <2>1, <2>2 DEF IsLast
<1>2. ASSUME VersionsNest(rows), DevTable(r) \in TablesToDrop(rows, batch) PROVE FALSE
  <2>1. PICK t \in batch : /\ DevTable(r) = DevTable(t)
                           /\ IsLast(t, batch, {q \in same : DevTable(q) = DevTable(t)})
      BY <1>2, TablesDiffer DEF TablesToDrop
  <2>2. r \in same  BY <1>2, <2>1 DEF SameVersion, VersionsNest
  <2> QED  BY <2>1, <2>2 DEF IsLast
<1> QED  BY <1>1, <1>2

-----------------------------------------------------------------------------
(***************************************************************************)
(* The cleanup loop.                                                       *)
(***************************************************************************)
LoopInv == LoopTypeOK /\ GroupsUpToDate

LEMMA LoopInitRight == LoopInit => LoopInv
<1> SUFFICES ASSUME LoopInit PROVE LoopInv  OBVIOUS
<1>1. SameVersion(snapshots, expired) \subseteq SnapshotIds  BY DEF LoopInit, SameVersion
<1>2. LoopTypeOK  BY <1>1 DEF LoopInit, LoopTypeOK
<1>3. GroupsUpToDate  BY DEF LoopInit, GroupsUpToDate
<1> QED  BY <1>2, <1>3 DEF LoopInv

LEMMA VisitKeepsGroups ==
    ASSUME LoopInv, NEW s \in SnapshotIds, Visit(s)
    PROVE  LoopInv'
<1>1. ProdTable(s) \in Tables /\ DevTable(s) \in Tables  BY TablesOfSnapshots
<1>2. s \in expired  BY DEF Visit, LoopInv, LoopTypeOK
<1>3. /\ by_version' = [by_version EXCEPT ![ProdTable(s)] = @ \ {s}]
      /\ by_dev_version' = [by_dev_version EXCEPT ![DevTable(s)] = @ \ {s}]
      /\ todo' = todo \ {s}
      /\ UNCHANGED <<snapshots, expired, inKeyOrder>>
    BY DEF Visit
<1>4. targets' \subseteq Tables
    BY <1>1 DEF Visit, CleanupTargets, LoopInv, LoopTypeOK
<1>5. LoopTypeOK'  BY <1>3, <1>4 DEF LoopInv, LoopTypeOK
<1>6. GroupsUpToDate'
  <2> DEFINE same == SameVersion(snapshots, expired)
             left == same \ (expired \ todo)
             left2 == same \ (expired \ (todo \ {s}))
  <2>1. left2 = left \ {s}  BY <1>2
  <2>2. SameVersion(snapshots, expired)' = same  BY <1>3 DEF SameVersion
  <2>3. ASSUME NEW t \in Tables
        PROVE  /\ by_version'[t] = {r \in left2 : ProdTable(r) = t}
               /\ by_dev_version'[t] = {r \in left2 : DevTable(r) = t}
    <3>1. /\ by_version[t] = {r \in left : ProdTable(r) = t}
          /\ by_dev_version[t] = {r \in left : DevTable(r) = t}
        BY DEF LoopInv, GroupsUpToDate
    <3>2. by_version'[t] = IF t = ProdTable(s) THEN by_version[t] \ {s} ELSE by_version[t]
        BY <1>3 DEF LoopInv, LoopTypeOK
    <3>3. by_dev_version'[t] = IF t = DevTable(s) THEN by_dev_version[t] \ {s} ELSE by_dev_version[t]
        BY <1>3 DEF LoopInv, LoopTypeOK
    <3> QED  BY <2>1, <3>1, <3>2, <3>3
  <2> QED  BY <1>3, <2>2, <2>3 DEF GroupsUpToDate
<1> QED  BY <1>5, <1>6 DEF LoopInv

\* The invariant of the loop: types, and groups that are up to date.
LEMMA LoopInvHolds == LoopSpec => []LoopInv
<1>1. LoopInit => LoopInv  BY LoopInitRight
<1>2. LoopInv /\ [LoopNext]_loopVars => LoopInv'
  <2> SUFFICES ASSUME LoopInv, [LoopNext]_loopVars PROVE LoopInv'  OBVIOUS
  <2>1. CASE LoopNext  BY <2>1, VisitKeepsGroups DEF LoopNext
  <2>2. CASE UNCHANGED loopVars
      BY <2>2 DEF loopVars, LoopInv, LoopTypeOK, GroupsUpToDate, SameVersion
  <2> QED  BY <2>1, <2>2
<1> QED  BY <1>1, <1>2, PTL DEF LoopSpec

\* The code changes the groups while it goes through the batch; at every point they
\* hold the snapshots that may still need the table.
THEOREM GroupsStayUpToDate == LoopSpec => []GroupsUpToDate
<1>1. LoopInv => GroupsUpToDate  BY DEF LoopInv
<1> QED  BY <1>1, LoopInvHolds, PTL

LEMMA VisitKeepsSharedTables ==
    ASSUME LoopInv, SharedTablesKept, NEW s \in SnapshotIds, Visit(s)
    PROVE  SharedTablesKept'
<1> SUFFICES ASSUME VersionsNest(snapshots), NEW r \in snapshots \ expired
             PROVE  ProdTable(r) \notin targets' /\ DevTable(r) \notin targets'
    BY DEF SharedTablesKept, Visit
<1>1. ProdTable(r) \notin targets /\ DevTable(r) \notin targets
    BY DEF SharedTablesKept
<1>2. s \in expired /\ s \in snapshots /\ r \in SnapshotIds /\ r # s
    BY DEF Visit, LoopInv, LoopTypeOK
<1>3. \A a, b \in SnapshotIds : ProdTable(a) # DevTable(b)
    BY DEF ProdTable, DevTable
<1>4. CASE ProdTable(r) = ProdTable(s)
  <2>1. r \in SameVersion(snapshots, expired)  BY <1>2, <1>4 DEF SameVersion
  <2>2. r \in by_version[ProdTable(s)]
      BY <1>2, <1>4, <2>1, TablesOfSnapshots DEF LoopInv, GroupsUpToDate
  <2>3. DevTable(r) = DevTable(s) => r \in by_dev_version[DevTable(s)]
      BY <1>2, <2>1, TablesOfSnapshots DEF LoopInv, GroupsUpToDate
  <2> QED  BY <1>1, <1>2, <1>3, <2>2, <2>3 DEF Visit, CleanupTargets
<1>5. CASE ProdTable(r) # ProdTable(s)
  <2>1. DevTable(r) # DevTable(s)  BY <1>2, <1>5 DEF VersionsNest
  <2> QED  BY <1>1, <1>2, <1>3, <1>5, <2>1 DEF Visit, CleanupTargets
<1> QED  BY <1>4, <1>5

\* In whatever order the batch is visited, no table of a snapshot that stays is
\* dropped, provided that snapshots with a common preview table have a common
\* production table.
THEOREM SharedTablesAreKept == LoopSpec => []SharedTablesKept
<1>1. LoopInit => SharedTablesKept  BY DEF LoopInit, SharedTablesKept
<1>2. LoopInv /\ SharedTablesKept /\ [LoopNext]_loopVars => SharedTablesKept'
  <2> SUFFICES ASSUME LoopInv, SharedTablesKept, [LoopNext]_loopVars PROVE SharedTablesKept'
      OBVIOUS
  <2>1. CASE LoopNext  BY <2>1, VisitKeepsSharedTables DEF LoopNext
  <2>2. CASE UNCHANGED loopVars
      BY <2>2 DEF loopVars, SharedTablesKept, VersionsNest
  <2> QED  BY <2>1, <2>2
<1> QED  BY <1>1, <1>2, LoopInvHolds, PTL DEF LoopSpec

(***************************************************************************)
(* Nothing is forgotten: the visit that empties the group of a table drops *)
(* the table.  For a production table this needs that its last snapshot is *)
(* the last one of its preview table, too.                                 *)
(***************************************************************************)
EmptyGroupsDropped ==
    VersionsNest(snapshots) =>
        \A s \in expired \ todo :
            /\ by_dev_version[DevTable(s)] = {} => DevTable(s) \in targets
            /\ by_version[ProdTable(s)] = {} => ProdTable(s) \in targets

LEMMA VisitDropsEmptyGroups ==
    ASSUME LoopInv, EmptyGroupsDropped, NEW v \in SnapshotIds, Visit(v)
    PROVE  EmptyGroupsDropped'
<1> SUFFICES ASSUME VersionsNest(snapshots), NEW s \in expired \ (todo \ {v})
             PROVE  /\ by_dev_version'[DevTable(s)] = {} => DevTable(s) \in targets'
                    /\ by_version'[ProdTable(s)] = {} => ProdTable(s) \in targets'
    BY DEF EmptyGroupsDropped, Visit
<1> DEFINE shared == by_version[ProdTable(v)] \ {v}
           sharedDev == by_dev_version[DevTable(v)] \ {v}
<1>1. /\ by_version' = [by_version EXCEPT ![ProdTable(v)] = shared]
      /\ by_dev_version' = [by_dev_version EXCEPT ![DevTable(v)] = sharedDev]
      /\ targets' = targets \cup CleanupTargets(v, shared, sharedDev)
    BY DEF Visit
<1>2. s \in SnapshotIds /\ s \in snapshots /\ v \in snapshots
    BY DEF Visit, LoopInv, LoopTypeOK
<1>3. /\ ProdTable(v) \in Tables /\ DevTable(v) \in Tables
      /\ ProdTable(s) \in Tables /\ DevTable(s) \in Tables
    BY <1>2, TablesOfSnapshots
<1>4. /\ by_version'[ProdTable(v)] = shared /\ by_dev_version'[DevTable(v)] = sharedDev
      /\ ProdTable(s) # ProdTable(v) => by_version'[ProdTable(s)] = by_version[ProdTable(s)]
      /\ DevTable(s) # DevTable(v) => by_dev_version'[DevTable(s)] = by_dev_version[DevTable(s)]
    BY <1>1, <1>3 DEF LoopInv, LoopTypeOK
<1>5. s # v => /\ by_dev_version[DevTable(s)] = {} => DevTable(s) \in targets
               /\ by_version[ProdTable(s)] = {} => ProdTable(s) \in targets
    BY DEF EmptyGroupsDropped
<1>6. sharedDev = {} => DevTable(v) \in targets'  BY <1>1 DEF CleanupTargets
<1>7. shared = {} => sharedDev = {}
  <2>1. ASSUME NEW r \in sharedDev PROVE r \in shared
    <3> DEFINE left == SameVersion(snapshots, expired) \ (expired \ todo)
    <3>1. /\ by_version[ProdTable(v)] = {x \in left : ProdTable(x) = ProdTable(v)}
          /\ by_dev_version[DevTable(v)] = {x \in left : DevTable(x) = DevTable(v)}
        BY <1>3 DEF LoopInv, GroupsUpToDate
    <3>2. r \in left /\ DevTable(r) = DevTable(v)  BY <3>1
    <3>3. r \in snapshots  BY <3>2 DEF SameVersion
    <3>4. ProdTable(r) = ProdTable(v)  BY <1>2, <3>2, <3>3 DEF VersionsNest
    <3> QED  BY <3>1, <3>2, <3>4
  <2> QED  BY <2>1
<1>8. shared = {} => ProdTable(v) \in targets'  BY <1>1, <1>7 DEF CleanupTargets
<1> HIDE DEF shared, sharedDev
<1> QED  BY <1>1, <1>4, <1>5, <1>6, <1>8

\* What only the batch used is dropped by the end of the loop, in whatever order the
\* snapshots are visited, provided that preview tables nest in production tables.
THEOREM NothingIsLeaked == LoopSpec => []NothingLeaks
<1>1. LoopInit => EmptyGroupsDropped  BY DEF LoopInit, EmptyGroupsDropped
<1>2. LoopInv /\ EmptyGroupsDropped /\ [LoopNext]_loopVars => EmptyGroupsDropped'
  <2> SUFFICES ASSUME LoopInv, EmptyGroupsDropped, [LoopNext]_loopVars PROVE EmptyGroupsDropped'
      OBVIOUS
  <2>1. CASE LoopNext  BY <2>1, VisitDropsEmptyGroups DEF LoopNext
  <2>2. CASE UNCHANGED loopVars
      BY <2>2 DEF loopVars, EmptyGroupsDropped, VersionsNest
  <2> QED  BY <2>1, <2>2
<1>3. LoopInv /\ EmptyGroupsDropped => NothingLeaks
  <2> SUFFICES ASSUME LoopInv, EmptyGroupsDropped, todo = {}, VersionsNest(snapshots), NEW s \in expired
               PROVE  /\ (\A r \in snapshots \ expired : ProdTable(r) # ProdTable(s)) => ProdTable(s) \in targets
                      /\ (\A r \in snapshots \ expired : DevTable(r) # DevTable(s)) => DevTable(s) \in targets
      BY DEF NothingLeaks
  <2> DEFINE left == SameVersion(snapshots, expired) \ (expired \ todo)
  <2>1. left \subseteq snapshots \ expired  BY DEF SameVersion
  <2>2. ProdTable(s) \in Tables /\ DevTable(s) \in Tables
      BY TablesOfSnapshots DEF LoopInv, LoopTypeOK
  <2>3. /\ by_version[ProdTable(s)] = {r \in left : ProdTable(r) = ProdTable(s)}
        /\ by_dev_version[DevTable(s)] = {r \in left : DevTable(r) = DevTable(s)}
      BY <2>2 DEF LoopInv, GroupsUpToDate
  <2>4. /\ by_dev_version[DevTable(s)] = {} => DevTable(s) \in targets
        /\ by_version[ProdTable(s)] = {} => ProdTable(s) \in targets
      BY DEF EmptyGroupsDropped
  <2> QED  BY <2>1, <2>3, <2>4
<1> QED  BY <1>1, <1>2, <1>3, LoopInvHolds, PTL DEF LoopSpec

(***************************************************************************)
(* What the loop ends with is what TablesToDrop says.  In the order of the *)
(* keys each visit does its part of it.  In any other order the tables of  *)
(* empty groups are dropped, whoever is the last to leave; that this is    *)
(* the same takes a last one, and so finitely many rows.                   *)
(***************************************************************************)
Targets == {s \in expired :
    IsLast(s, expired, {r \in SameVersion(snapshots, expired) : DevTable(r) = DevTable(s)})}

Whole == {s \in Targets :
    IsLast(s, expired, {r \in SameVersion(snapshots, expired) : ProdTable(r) = ProdTable(s)})}

KeyOrderInv ==
    inKeyOrder =>
        /\ \A v \in expired \ todo, s \in todo : Rank[v] < Rank[s]
        /\ targets = {DevTable(s) : s \in Targets \ todo} \cup {ProdTable(s) : s \in Whole \ todo}

\* Whether the snapshot that is visited next is the last one of a group.
LEMMA LastOfGroup ==
    ASSUME KeyOrderInv, inKeyOrder, expired \subseteq SnapshotIds, todo \subseteq expired,
           NEW s \in todo, \A r \in todo : Rank[s] <= Rank[r], NEW group
    PROVE  (group \ (expired \ todo)) \ {s} = {} <=> IsLast(s, expired, group)
<1>1. \A r \in expired : Rank[r] \in Nat  BY SnapshotConstants
<1>2. \A v \in expired \ todo : Rank[v] < Rank[s]  BY DEF KeyOrderInv
<1>3. ASSUME (group \ (expired \ todo)) \ {s} = {} PROVE IsLast(s, expired, group)
  <2>1. \A r \in group : r \in expired \ todo \/ r = s  BY <1>3
  <2>2. \A r \in group : r \in expired /\ Rank[r] <= Rank[s]  BY <1>1, <1>2, <2>1
  <2> QED  BY <2>2 DEF IsLast
<1>4. ASSUME IsLast(s, expired, group), NEW r \in group, r \in todo, r # s PROVE FALSE
  <2>1. Rank[r] <= Rank[s] /\ Rank[s] <= Rank[r]  BY <1>4 DEF IsLast
  <2>2. Rank[r] = Rank[s]  BY <1>1, <1>4, <2>1
  <2> QED  BY <1>4, <2>2, SnapshotConstants
<1>5. IsLast(s, expired, group) => group \subseteq expired  BY DEF IsLast
<1> QED  BY <1>3, <1>4, <1>5

LEMMA VisitInKeyOrder ==
    ASSUME LoopInv, KeyOrderInv, NEW s \in SnapshotIds, Visit(s)
    PROVE  KeyOrderInv'
<1> SUFFICES ASSUME inKeyOrder PROVE KeyOrderInv'  BY DEF KeyOrderInv, Visit
<1> DEFINE same == SameVersion(snapshots, expired)
           shared == by_version[ProdTable(s)] \ {s}
           sharedDev == by_dev_version[DevTable(s)] \ {s}
           prodGroup == {r \in same : ProdTable(r) = ProdTable(s)}
           devGroup == {r \in same : DevTable(r) = DevTable(s)}
<1>1. /\ s \in todo /\ todo' = todo \ {s} /\ \A r \in todo : Rank[s] <= Rank[r]
      /\ targets' = targets \cup CleanupTargets(s, shared, sharedDev)
      /\ UNCHANGED <<snapshots, expired, inKeyOrder>>
    BY DEF Visit
<1>2. expired \subseteq SnapshotIds /\ todo \subseteq expired  BY DEF LoopInv, LoopTypeOK
<1>3. ProdTable(s) \in Tables /\ DevTable(s) \in Tables  BY TablesOfSnapshots
<1>4. /\ shared = (prodGroup \ (expired \ todo)) \ {s}
      /\ sharedDev = (devGroup \ (expired \ todo)) \ {s}
    BY <1>3 DEF LoopInv, GroupsUpToDate
<1>5. /\ sharedDev = {} <=> s \in Targets
      /\ sharedDev = {} /\ shared = {} <=> s \in Whole
  <2>1. shared = {} <=> IsLast(s, expired, prodGroup)
    <3> HIDE DEF prodGroup, shared
    <3> QED  BY <1>1, <1>2, <1>4, LastOfGroup
  <2>2. sharedDev = {} <=> IsLast(s, expired, devGroup)
    <3> HIDE DEF devGroup, sharedDev
    <3> QED  BY <1>1, <1>2, <1>4, LastOfGroup
  <2> QED  BY <1>1, <1>2, <2>1, <2>2 DEF Targets, Whole
<1>6. \A v \in expired \ todo', r \in todo' : Rank[v] < Rank[r]
  <2>1. \A r \in todo' : Rank[s] < Rank[r]
    <3> TAKE r \in todo'
    <3>1. Rank[s] <= Rank[r] /\ r # s  BY <1>1
    <3>2. Rank[s] \in Nat /\ Rank[r] \in Nat /\ Rank[s] # Rank[r]
        BY <1>1, <1>2, <3>1, SnapshotConstants
    <3> QED  BY <3>1, <3>2
  <2>2. \A v \in expired \ todo' : v = s \/ v \in expired \ todo  BY <1>1
  <2>3. todo' \subseteq todo  BY <1>1
  <2> QED  BY <2>1, <2>2, <2>3 DEF KeyOrderInv
<1>7. targets' = {DevTable(r) : r \in Targets \ todo'} \cup {ProdTable(r) : r \in Whole \ todo'}
  <2>1. targets = {DevTable(r) : r \in Targets \ todo} \cup {ProdTable(r) : r \in Whole \ todo}
      BY DEF KeyOrderInv
  <2>2. /\ Targets \ todo' = (Targets \ todo) \cup (IF s \in Targets THEN {s} ELSE {})
        /\ Whole \ todo' = (Whole \ todo) \cup (IF s \in Whole THEN {s} ELSE {})
      BY <1>1
  <2> HIDE DEF shared, sharedDev
  <2> QED  BY <1>1, <1>5, <2>1, <2>2 DEF CleanupTargets
<1>8. Targets' = Targets /\ Whole' = Whole
    BY <1>1 DEF Targets, Whole, SameVersion
<1> QED  BY <1>1, <1>6, <1>7, <1>8 DEF KeyOrderInv

\* Only the tables of empty groups are dropped.
EmptyGroup(t) ==
    \E s \in expired :
        \/ t = DevTable(s) /\ by_dev_version[t] = {}
        \/ t = ProdTable(s) /\ by_version[t] = {}

DroppedGroupsEmpty == \A t \in targets : EmptyGroup(t)

LEMMA VisitDropsOnlyEmpty ==
    ASSUME LoopInv, DroppedGroupsEmpty, NEW v \in SnapshotIds, Visit(v)
    PROVE  DroppedGroupsEmpty'
<1> DEFINE shared == by_version[ProdTable(v)] \ {v}
           sharedDev == by_dev_version[DevTable(v)] \ {v}
<1>1. /\ by_version' = [by_version EXCEPT ![ProdTable(v)] = shared]
      /\ by_dev_version' = [by_dev_version EXCEPT ![DevTable(v)] = sharedDev]
      /\ targets' = targets \cup CleanupTargets(v, shared, sharedDev)
      /\ v \in expired /\ expired' = expired
    BY DEF Visit, LoopInv, LoopTypeOK
<1>2. /\ by_version \in [Tables -> SUBSET SnapshotIds]
      /\ by_dev_version \in [Tables -> SUBSET SnapshotIds]
      /\ targets \subseteq Tables
      /\ ProdTable(v) \in Tables /\ DevTable(v) \in Tables
    BY TablesOfSnapshots DEF LoopInv, LoopTypeOK
<1>3. ASSUME NEW t \in targets PROVE EmptyGroup(t)'
  <2>1. t \in Tables  BY <1>2
  <2>2. EmptyGroup(t)  BY DEF DroppedGroupsEmpty
  <2>3. by_dev_version'[t] \subseteq by_dev_version[t] /\ by_version'[t] \subseteq by_version[t]
      BY <1>1, <1>2, <2>1
  <2> QED  BY <1>1, <2>2, <2>3 DEF EmptyGroup, DevTable, ProdTable
<1>4. ASSUME NEW t \in CleanupTargets(v, shared, sharedDev) PROVE EmptyGroup(t)'
  <2>1. by_version'[ProdTable(v)] = shared /\ by_dev_version'[DevTable(v)] = sharedDev
      BY <1>1, <1>2
  <2> HIDE DEF shared, sharedDev
  <2>2. \/ t = DevTable(v) /\ sharedDev = {}
        \/ t = ProdTable(v) /\ shared = {}
      BY <1>4 DEF CleanupTargets
  <2> QED  BY <1>1, <2>1, <2>2 DEF EmptyGroup, DevTable, ProdTable
<1> QED  BY <1>1, <1>3, <1>4 DEF DroppedGroupsEmpty

LEMMA EmptyGroupsAreTheRest ==
    ASSUME LoopInv, EmptyGroupsDropped, DroppedGroupsEmpty, IsFiniteSet(expired),
           todo = {}, VersionsNest(snapshots)
    PROVE  targets = TablesToDrop(snapshots, expired)
<1> DEFINE same == SameVersion(snapshots, expired)
<1>1. /\ snapshots \subseteq SnapshotIds /\ expired \subseteq snapshots /\ same \subseteq snapshots
    BY DEF LoopInv, LoopTypeOK, SameVersion
<1>2. \A s \in expired :
        /\ by_version[ProdTable(s)] = {r \in same \ expired : ProdTable(r) = ProdTable(s)}
        /\ by_dev_version[DevTable(s)] = {r \in same \ expired : DevTable(r) = DevTable(s)}
    BY <1>1, TablesOfSnapshots DEF LoopInv, GroupsUpToDate
<1>3. ASSUME NEW t \in targets PROVE t \in TablesToDrop(snapshots, expired)
  <2>1. PICK s \in expired :
            \/ t = DevTable(s) /\ by_dev_version[t] = {}
            \/ t = ProdTable(s) /\ by_version[t] = {}
      BY DEF DroppedGroupsEmpty, EmptyGroup
  <2>2. CASE t = DevTable(s) /\ by_dev_version[t] = {}
      BY <1>1, <1>2, <2>2, UnsharedPreviewDropped
  <2>3. CASE t = ProdTable(s) /\ by_version[t] = {}
    <3>1. \A r \in snapshots \ expired : ProdTable(r) # ProdTable(s)
        BY <1>2, <2>3 DEF SameVersion
    <3> QED  BY <1>1, <2>3, <3>1, UnsharedTableDropped
  <2> QED  BY <2>1, <2>2, <2>3
<1>4. ASSUME NEW t \in TablesToDrop(snapshots, expired) PROVE t \in targets
  <2>1. PICK s \in expired :
            \/ t = DevTable(s) /\ {r \in same : DevTable(r) = DevTable(s)} \subseteq expired
            \/ t = ProdTable(s) /\ {r \in same : ProdTable(r) = ProdTable(s)} \subseteq expired
      BY <1>4 DEF TablesToDrop, IsLast
  <2>2. \/ t = DevTable(s) /\ by_dev_version[t] = {}
        \/ t = ProdTable(s) /\ by_version[t] = {}
      BY <1>2, <2>1
  <2> QED  BY <2>2 DEF EmptyGroupsDropped
<1> QED  BY <1>3, <1>4

\* The loop drops what TablesToDrop says, by which the janitor is modelled elsewhere:
\* in the order of the keys whatever versions are shared, and in any order if preview
\* tables nest in production tables.
THEOREM TheRestIsDropped == LoopSpec /\ IsFiniteSet(snapshots) => []DropsTheRest
<1> DEFINE Inv == EmptyGroupsDropped /\ DroppedGroupsEmpty /\ KeyOrderInv /\ IsFiniteSet(expired)
<1>1. LoopInit /\ IsFiniteSet(snapshots) => Inv
  <2> SUFFICES ASSUME LoopInit, IsFiniteSet(snapshots) PROVE Inv  OBVIOUS
  <2>1. expired \subseteq snapshots /\ todo = expired /\ targets = {}  BY DEF LoopInit
  <2>2. IsFiniteSet(expired)  BY <2>1, FS_Subset
  <2>3. {DevTable(s) : s \in Targets \ todo} \cup {ProdTable(s) : s \in Whole \ todo} = {}
      BY <2>1 DEF Targets, Whole
  <2> QED  BY <2>1, <2>2, <2>3 DEF EmptyGroupsDropped, DroppedGroupsEmpty, KeyOrderInv
<1>2. LoopInv /\ Inv /\ [LoopNext]_loopVars => Inv'
  <2> SUFFICES ASSUME LoopInv, Inv, [LoopNext]_loopVars PROVE Inv'  OBVIOUS
  <2>1. ASSUME NEW s \in SnapshotIds, Visit(s) PROVE Inv'
    <3>1. IsFiniteSet(expired)'  BY <2>1 DEF Visit
    <3> QED  BY <2>1, <3>1, VisitDropsEmptyGroups, VisitDropsOnlyEmpty, VisitInKeyOrder
  <2>2. CASE UNCHANGED loopVars
    <3>1. EmptyGroupsDropped' /\ DroppedGroupsEmpty'
        BY <2>2 DEF loopVars, EmptyGroupsDropped, DroppedGroupsEmpty, EmptyGroup, VersionsNest
    <3>2. Targets' = Targets /\ Whole' = Whole
        BY <2>2 DEF loopVars, Targets, Whole, SameVersion
    <3>3. KeyOrderInv' /\ IsFiniteSet(expired)'
        BY <2>2, <3>2 DEF loopVars, KeyOrderInv
    <3> QED  BY <3>1, <3>3
  <2> QED  BY <2>1, <2>2 DEF LoopNext
<1>3. LoopInv /\ Inv => DropsTheRest
  <2> SUFFICES ASSUME LoopInv, Inv, todo = {}, inKeyOrder \/ VersionsNest(snapshots)
               PROVE  targets = TablesToDrop(snapshots, expired)
      BY DEF DropsTheRest
  <2>1. CASE inKeyOrder
    <3>1. targets = {DevTable(s) : s \in Targets} \cup {ProdTable(s) : s \in Whole}
        BY <2>1 DEF KeyOrderInv
    <3> QED  BY <3>1 DEF TablesToDrop, Targets, Whole
  <2>2. CASE VersionsNest(snapshots)  BY <2>2, EmptyGroupsAreTheRest
  <2> QED  BY <2>1, <2>2
<1> QED  BY <1>1, <1>2, <1>3, LoopInvHolds, PTL DEF LoopSpec

-----------------------------------------------------------------------------
(***************************************************************************)
(* The log of intervals.                                                   *)
(***************************************************************************)
\* What the theorems about reading the log assume, besides PreviewsNest: nothing but
\* additions is written while a compaction is under way.
OnlyAdditions == Meanwhile \subseteq {"add"}

(***************************************************************************)
(* Types.                                                                  *)
(***************************************************************************)
Key == Tables \X (Tables \cup {NoPreview}) \X (SnapshotIds \cup {NoId})

LEMMA NewRowTyped ==
    ASSUME NEW kind \in Kinds, NEW k \in Key, NEW P \in SUBSET Points,
           NEW ts \in Nat, NEW c \in BOOLEAN
    PROVE  NewRow(kind, k, P, ts, c) \in Row
BY DEF NewRow, Row, Key

LEMMA PointsTyped ==
    ASSUME NEW rows \in SUBSET Row, NEW kind, NEW k
    PROVE  PointsOf(rows, kind, k) \subseteq Points
BY DEF PointsOf, Surviving, Row

LEMMA KeysTyped ==
    ASSUME NEW rows \in SUBSET Row
    PROVE  KeysOf(rows) \subseteq Key
BY DEF KeysOf, KeyOf, Row, Key

LEMMA LoadedRowsTyped ==
    ASSUME NEW rows \in SUBSET Row, NEW kind \in Kinds, NEW ts \in Nat
    PROVE  LoadedRows(rows, kind, ts) \subseteq Row
<1>1. ASSUME NEW k \in KeysOf(rows) PROVE NewRow(kind, k, PointsOf(rows, kind, k), ts, TRUE) \in Row
  <2>1. k \in Key  BY KeysTyped
  <2>2. PointsOf(rows, kind, k) \in SUBSET Points  BY PointsTyped
  <2> QED  BY <2>1, <2>2, NewRowTyped
<1> QED  BY <1>1 DEF LoadedRows

LEMMA CompactedTyped ==
    ASSUME NEW rows \in SUBSET Row, NEW seen \in SUBSET Row, NEW ts \in Nat
    PROVE  Compacted(rows, seen, ts) \subseteq Row
<1> DEFINE U == Uncompacted(seen)
<1>1. U \in SUBSET Row  BY DEF Uncompacted
<1>2. LoadedRows(U, "add", ts) \subseteq Row /\ LoadedRows(U, "dev", ts) \subseteq Row
    BY <1>1, LoadedRowsTyped DEF Kinds
<1>3. PendingRows(U, ts) \subseteq Row
  <2>1. \A t \in {r.table : r \in U} : <<t, NoPreview, NoId>> \in Key
      BY <1>1 DEF Row, Key
  <2>2. \A t : PendingOf(U, t) \in SUBSET Points  BY DEF PendingOf
  <2> QED  BY <2>1, <2>2, NewRowTyped DEF PendingRows, Kinds
<1> QED  BY <1>2, <1>3 DEF Compacted, MergedRows

LEMMA NullifiedTyped ==
    ASSUME NEW r \in Row, NEW E
    PROVE  Nullified(r, E) \in Row
BY DEF Nullified, Row

LEMMA CleanedTyped ==
    ASSUME NEW rows \in SUBSET Row, NEW E, NEW dropped, NEW ts \in Nat
    PROVE  Cleaned(rows, E, dropped, ts) \subseteq Row
BY CompactedTyped, NullifiedTyped DEF Cleaned, WithoutDropped

LEMMA StepTyped == TypeOK /\ [Next]_vars => TypeOK'
<1> SUFFICES ASSUME TypeOK, [Next]_vars PROVE TypeOK'  OBVIOUS
<1> USE IntervalConstants DEF TypeOK
<1>0. \A s \in SnapshotIds : KeyOfSnapshot(s) \in Key /\ <<ProdTable(s), NoPreview, NoId>> \in Key
    BY TablesOfSnapshots DEF KeyOfSnapshot, Key
<1>r. \A P \in Ranges : P \in SUBSET Points /\ clock + 1 \in Nat  OBVIOUS
<1>1. ASSUME NEW s \in SnapshotIds, PushSnapshot(s) PROVE TypeOK'
    BY <1>1 DEF PushSnapshot
<1>2. ASSUME NEW s \in SnapshotIds, NEW P \in Ranges, NEW d \in BOOLEAN, AddInterval(s, P, d)
      PROVE TypeOK'
  <2> DEFINE row == NewRow(IF d THEN "dev" ELSE "add", KeyOfSnapshot(s), P, clock + 1, FALSE)
  <2>1. (IF d THEN "dev" ELSE "add") \in Kinds  BY DEF Kinds
  <2>2. row \in Row  BY <1>0, <1>r, <2>1, NewRowTyped
  <2> HIDE DEF row
  <2>3. log' = log \cup {row} /\ clock' = clock + 1 /\ UNCHANGED <<stored, pushed, read>>
      BY <1>2 DEF AddInterval, Write, row
  <2> QED  BY <2>2, <2>3
<1>3. ASSUME NEW s \in SnapshotIds, NEW P \in Ranges, AddPendingRestatement(s, P)
      PROVE TypeOK'
  <2> DEFINE row == NewRow("pending", <<ProdTable(s), NoPreview, NoId>>, P, clock + 1, FALSE)
  <2>1. row \in Row
    <3>1. "pending" \in Kinds  BY DEF Kinds
    <3> QED  BY <1>0, <1>r, <3>1, NewRowTyped
  <2> HIDE DEF row
  <2>2. log' = log \cup {row} /\ clock' = clock + 1 /\ UNCHANGED <<stored, pushed, read>>
      BY <1>3 DEF AddPendingRestatement, Write, row
  <2> QED  BY <2>1, <2>2
<1>4. ASSUME NEW s \in SnapshotIds, NEW P \in Ranges, RemoveIntervals(s, P) PROVE TypeOK'
  <2>1. \A k \in RemovalKeys(s) : NewRow("remove", k, P, clock + 1, FALSE) \in Row
    <3>1. RemovalKeys(s) \subseteq Key  BY KeysTyped DEF RemovalKeys
    <3>2. "remove" \in Kinds  BY DEF Kinds
    <3> QED  BY <1>r, <3>1, <3>2, NewRowTyped
  <2> DEFINE removals == {NewRow("remove", k, P, clock + 1, FALSE) : k \in RemovalKeys(s)}
  <2>2. removals \subseteq Row  BY <2>1
  <2> HIDE DEF removals
  <2>3. log' = log \cup removals /\ clock' = clock + 1 /\ UNCHANGED <<stored, pushed, read>>
      BY <1>4 DEF RemoveIntervals, Write, removals
  <2> QED  BY <2>2, <2>3
<1>5. CASE CompactRead  BY <1>5 DEF CompactRead
<1>6. CASE CompactWrite  BY <1>6, CompactedTyped DEF CompactWrite, Write
<1>7. ASSUME NEW E \in SUBSET SnapshotIds, DeleteSnapshots(E) PROVE TypeOK'
    BY <1>7, CleanedTyped DEF DeleteSnapshots, Write
<1>8. CASE UNCHANGED vars  BY <1>8 DEF vars
<1> QED  BY <1>1, <1>2, <1>3, <1>4, <1>5, <1>6, <1>7, <1>8 DEF Next

\* The rows of the log, and those that a compaction has read, keep their types.
THEOREM LogTyped == Spec => []TypeOK
<1>1. Init => TypeOK  BY DEF Init, TypeOK
<1> QED  BY <1>1, StepTyped, PTL DEF Spec

(***************************************************************************)
(* Reading the log, point by point.                                        *)
(***************************************************************************)
LEMMA ReadLoaded ==
    ASSUME NEW rows, NEW t, NEW x
    PROVE  x \in Loaded(rows, t) <=>
             \E r \in rows : /\ r.kind = "add" /\ r.table = t
                             /\ x \in r.points /\ ~Removed(rows, r, x)
<1>1. \A k : x \in PointsOf(rows, "add", k) <=>
             \E r \in rows : /\ r.kind = "add" /\ KeyOf(r) = k
                             /\ x \in r.points /\ ~Removed(rows, r, x)
    BY DEF PointsOf, Surviving
<1>2. \A r : KeyOf(r)[1] = r.table  BY DEF KeyOf
<1> QED  BY <1>1, <1>2 DEF Loaded, KeysOf

LEMMA ReadPreviewed ==
    ASSUME NEW rows, NEW t, NEW p, NEW x
    PROVE  x \in Previewed(rows, t, p) <=>
             \E r \in rows : r.kind = "dev" /\ r.table = t /\ r.preview = p /\ x \in r.points
<1>1. \A k : x \in PointsOf(rows, "dev", k) <=>
             \E r \in rows : r.kind = "dev" /\ KeyOf(r) = k /\ x \in r.points
    BY DEF PointsOf, Surviving
<1>2. \A r : KeyOf(r)[1] = r.table /\ KeyOf(r)[2] = r.preview  BY DEF KeyOf
<1> QED  BY <1>1, <1>2 DEF Previewed, KeysOf

LEMMA NewRowFields ==
    ASSUME NEW kind, NEW k \in Key, NEW P, NEW ts, NEW c
    PROVE  /\ NewRow(kind, k, P, ts, c).kind = kind
           /\ NewRow(kind, k, P, ts, c).table = k[1]
           /\ NewRow(kind, k, P, ts, c).preview = k[2]
           /\ NewRow(kind, k, P, ts, c).points = P
           /\ NewRow(kind, k, P, ts, c).ts = ts
           /\ KeyOf(NewRow(kind, k, P, ts, c)) = k
BY DEF NewRow, KeyOf, Key

LEMMA MergedMembers ==
    ASSUME NEW U, NEW ts, NEW q
    PROVE  q \in MergedRows(U, ts) <=>
             /\ q.points # {}
             /\ \/ \E k \in KeysOf(U) : q = NewRow("add", k, PointsOf(U, "add", k), ts, TRUE)
                \/ \E k \in KeysOf(U) : q = NewRow("dev", k, PointsOf(U, "dev", k), ts, TRUE)
                \/ \E r \in U : q = NewRow("pending", <<r.table, NoPreview, NoId>>,
                                           PendingOf(U, r.table), ts, TRUE)
BY DEF MergedRows, LoadedRows, PendingRows

LEMMA MergedKinds ==
    ASSUME NEW U, NEW ts, NEW q \in MergedRows(U, ts)
    PROVE  q.kind \in {"add", "dev", "pending"}
BY DEF MergedRows, LoadedRows, PendingRows, NewRow

\* What may have been written since a compaction has read the rows seen.
OnlyAddedSince(rows, seen) ==
    /\ seen \subseteq rows
    /\ \A r \in rows \ seen : r.kind \in {"add", "dev"} /\ \A q \in seen : q.ts < r.ts

LEMMA CompactedLoaded ==
    ASSUME NEW rows \in SUBSET Row, NEW seen \in SUBSET Row, NEW ts \in Nat,
           OnlyAddedSince(rows, seen), NEW t, NEW x
    PROVE  x \in Loaded(Compacted(rows, seen, ts), t) <=> x \in Loaded(rows, t)
<1> DEFINE U == Uncompacted(seen)
           C == Compacted(rows, seen, ts)
<1>1. U \subseteq seen /\ U \in SUBSET Row  BY DEF Uncompacted
<1>2. \A r \in U, q \in seen : q.table = r.table => q \in U  BY DEF Uncompacted
<1>3. C = (rows \ U) \cup MergedRows(U, ts)  BY DEF Compacted
<1>4. \A q \in MergedRows(U, ts) : q.kind # "remove"  BY <1>1, MergedKinds
<1>5. KeysOf(U) \subseteq Key  BY <1>1, KeysTyped
<1>6. \A m \in rows : m.kind = "remove" => m \in seen  BY DEF OnlyAddedSince
<1>7. \A m, r : KeyOf(m) = KeyOf(r) => m.table = r.table  BY DEF KeyOf
<1> HIDE DEF U, C
<1>8. ASSUME NEW r \in rows, r.kind = "add", r.table = t, x \in r.points, ~Removed(rows, r, x)
      PROVE  x \in Loaded(C, t)
  <2>1. CASE r \notin U
    <3>1. r \in C  BY <1>3, <2>1
    <3>2. ~Removed(C, r, x)  BY <1>3, <1>4, <1>8 DEF Removed
    <3> QED  BY <1>8, <3>1, <3>2, ReadLoaded
  <2>2. CASE r \in U
    <3> DEFINE k == KeyOf(r)
               q == NewRow("add", k, PointsOf(U, "add", k), ts, TRUE)
    <3>1. k \in KeysOf(U) /\ k \in Key /\ k[1] = t  BY <1>5, <1>8, <2>2 DEF KeysOf, KeyOf
    <3> HIDE DEF k
    <3>2. ~Removed(U, r, x)  BY <1>1, <1>8 DEF Removed, OnlyAddedSince
    <3>3. x \in PointsOf(U, "add", k)  BY <1>8, <2>2, <3>2 DEF PointsOf, Surviving, k
    <3>4. q.kind = "add" /\ q.table = k[1] /\ q.points = PointsOf(U, "add", k) /\ KeyOf(q) = k
        BY <3>1 DEF NewRow, KeyOf, Key, q
    <3>5. q \in C
      <4>1. q.points # {}  BY <3>3, <3>4
      <4>2. q \in MergedRows(U, ts)  BY <1>1, <3>1, <4>1, MergedMembers, Zenon
      <4> QED  BY <1>3, <4>2
    <3> HIDE DEF q
    <3>6. ~Removed(C, q, x)
      <4> SUFFICES ASSUME NEW m \in C, m.kind = "remove", KeyOf(m) = k PROVE FALSE
          BY <3>4 DEF Removed
      <4>1. m \in rows \ U  BY <1>3, <1>4
      <4>2. m \in seen /\ m.table = r.table  BY <1>6, <1>7, <4>1 DEF k
      <4> QED  BY <1>2, <2>2, <4>1, <4>2
    <3> QED  BY <3>1, <3>3, <3>4, <3>5, <3>6, ReadLoaded
  <2> QED  BY <2>1, <2>2
<1>9. ASSUME NEW q \in C, q.kind = "add", q.table = t, x \in q.points, ~Removed(C, q, x)
      PROVE  x \in Loaded(rows, t)
  <2>1. CASE q \in rows \ U
    <3>1. ~Removed(rows, q, x)
      <4> SUFFICES ASSUME NEW m \in rows, m.kind = "remove", KeyOf(m) = KeyOf(q),
                          m.ts >= q.ts, x \in m.points
                   PROVE  FALSE
          BY DEF Removed
      <4>1. m \in U  BY <1>3, <1>9 DEF Removed
      <4>2. q \notin seen  BY <1>2, <1>7, <2>1, <4>1
      <4>3. m.ts < q.ts  BY <1>1, <2>1, <4>1, <4>2 DEF OnlyAddedSince
      <4> QED  BY <2>1, <4>3 DEF Row
    <3> QED  BY <1>9, <2>1, <3>1, ReadLoaded
  <2>2. CASE q \in MergedRows(U, ts)
    <3>1. PICK k \in KeysOf(U) : q = NewRow("add", k, PointsOf(U, "add", k), ts, TRUE)
        BY <1>9, <2>2 DEF MergedRows, LoadedRows, PendingRows, NewRow
    <3>2. x \in PointsOf(U, "add", k) /\ k[1] = t
      <4>1. k \in Key  BY <1>5
      <4>2. q.table = k[1] /\ q.points = PointsOf(U, "add", k)  BY <3>1 DEF NewRow
      <4> QED  BY <1>9, <4>2
    <3>3. PICK r \in U : r.kind = "add" /\ KeyOf(r) = k /\ x \in r.points /\ ~Removed(U, r, x)
        BY <3>2 DEF PointsOf, Surviving
    <3>4. r \in rows /\ r.table = t  BY <1>1, <3>2, <3>3 DEF OnlyAddedSince, KeyOf
    <3>5. ~Removed(rows, r, x)
        BY <1>2, <1>6, <1>7, <3>3 DEF Removed
    <3> QED  BY <3>3, <3>4, <3>5, ReadLoaded
  <2> QED  BY <1>3, <1>9, <2>1, <2>2
<1> QED  BY <1>8, <1>9, ReadLoaded DEF C

LEMMA CompactedPreviewed ==
    ASSUME NEW rows \in SUBSET Row, NEW seen \in SUBSET Row, NEW ts \in Nat,
           seen \subseteq rows, NEW t, NEW p, NEW x
    PROVE  x \in Previewed(Compacted(rows, seen, ts), t, p) <=> x \in Previewed(rows, t, p)
<1> DEFINE U == Uncompacted(seen)
           C == Compacted(rows, seen, ts)
<1>1. U \subseteq rows /\ U \in SUBSET Row  BY DEF Uncompacted
<1>2. C = (rows \ U) \cup MergedRows(U, ts)  BY DEF Compacted
<1>3. KeysOf(U) \subseteq Key  BY <1>1, KeysTyped
<1> HIDE DEF U, C
<1>4. ASSUME NEW r \in rows, r.kind = "dev", r.table = t, r.preview = p, x \in r.points
      PROVE  x \in Previewed(C, t, p)
  <2>1. CASE r \notin U  BY <1>2, <1>4, <2>1, ReadPreviewed
  <2>2. CASE r \in U
    <3> DEFINE k == KeyOf(r)
               q == NewRow("dev", k, PointsOf(U, "dev", k), ts, TRUE)
    <3>1. k \in KeysOf(U) /\ k[1] = t /\ k[2] = p  BY <1>4, <2>2 DEF KeysOf, KeyOf
    <3>2. x \in PointsOf(U, "dev", k)  BY <1>4, <2>2 DEF PointsOf, Surviving
    <3> HIDE DEF k
    <3>3. /\ q.kind = "dev" /\ q.table = k[1] /\ q.preview = k[2]
          /\ q.points = PointsOf(U, "dev", k)
        BY DEF NewRow
    <3>4. q.points # {}  BY <3>2, <3>3
    <3>5. q \in MergedRows(U, ts)  BY <3>1, <3>4, MergedMembers, Zenon
    <3> HIDE DEF q
    <3> QED  BY <1>2, <3>1, <3>2, <3>3, <3>5, ReadPreviewed
  <2> QED  BY <2>1, <2>2
<1>5. ASSUME NEW q \in C, q.kind = "dev", q.table = t, q.preview = p, x \in q.points
      PROVE  x \in Previewed(rows, t, p)
  <2>1. CASE q \in rows  BY <1>5, <2>1, ReadPreviewed
  <2>2. CASE q \in MergedRows(U, ts)
    <3>1. PICK k \in KeysOf(U) : q = NewRow("dev", k, PointsOf(U, "dev", k), ts, TRUE)
        BY <1>5, <2>2 DEF MergedRows, LoadedRows, PendingRows, NewRow
    <3>2. x \in PointsOf(U, "dev", k) /\ k[1] = t /\ k[2] = p  BY <1>5, <3>1 DEF NewRow
    <3>3. PICK r \in U : r.kind = "dev" /\ KeyOf(r) = k /\ x \in r.points
        BY <3>2 DEF PointsOf, Surviving
    <3>4. r \in rows /\ r.table = t /\ r.preview = p  BY <1>1, <3>2, <3>3 DEF KeyOf
    <3> QED  BY <3>3, <3>4, ReadPreviewed
  <2> QED  BY <1>2, <2>1, <2>2
<1> QED  BY <1>4, <1>5, ReadPreviewed DEF C

LEMMA CompactedPending ==
    ASSUME NEW rows \in SUBSET Row, NEW seen \in SUBSET Row, NEW ts \in Nat,
           OnlyAddedSince(rows, seen), \A r \in rows : r.ts < ts, NEW t,
           NEW x \in PendingOf(rows, t)
    PROVE  x \in PendingOf(Compacted(rows, seen, ts), t)
<1> DEFINE U == Uncompacted(seen)
           C == Compacted(rows, seen, ts)
<1>1. U \subseteq rows /\ U \in SUBSET Row  BY DEF Uncompacted, OnlyAddedSince
<1>2. C = (rows \ U) \cup MergedRows(U, ts)  BY DEF Compacted
<1>3. PICK r \in rows :
        /\ r.kind = "pending" /\ r.table = t /\ x \in r.points
        /\ \A q \in rows : q.kind = "add" /\ q.table = t /\ q.ts > r.ts => x \notin q.points
    BY DEF PendingOf
<1>4. \A q \in MergedRows(U, ts) : \E r2 \in U : q.table = r2.table
  <2> TAKE q \in MergedRows(U, ts)
  <2>1. q.table \in {k[1] : k \in KeysOf(U)} \cup {r2.table : r2 \in U}
      BY DEF MergedRows, LoadedRows, PendingRows, NewRow
  <2> QED  BY <2>1 DEF KeysOf, KeyOf
<1>5. r \in seen  BY <1>3 DEF OnlyAddedSince
<1>6. CASE r \notin U
  <2>1. \A q \in U : q.table # t  BY <1>3, <1>5, <1>6 DEF Uncompacted
  <2>2. \A q \in C : q.table = t => q \in rows  BY <1>2, <1>4, <2>1
  <2>3. r \in C  BY <1>2, <1>6
  <2> HIDE DEF C
  <2> QED  BY <1>3, <2>2, <2>3 DEF PendingOf, C
<1>7. CASE r \in U
  <2> DEFINE q == NewRow("pending", <<t, NoPreview, NoId>>, PendingOf(U, t), ts, TRUE)
  <2>1. x \in PendingOf(U, t)  BY <1>1, <1>3, <1>7 DEF PendingOf
  <2>2. q.kind = "pending" /\ q.table = t /\ q.points = PendingOf(U, t) /\ q.ts = ts
      BY DEF NewRow
  <2>3. q \in MergedRows(U, ts)
    <3>1. q.points # {}  BY <2>1, <2>2
    <3>2. q = NewRow("pending", <<r.table, NoPreview, NoId>>, PendingOf(U, r.table), ts, TRUE)
        BY <1>3
    <3> QED  BY <1>7, <3>1, <3>2, MergedMembers, Zenon
  <2>4. \A m \in C : ~(m.ts > ts)
    <3>1. \A m \in MergedRows(U, ts) : m.ts = ts
        BY DEF MergedRows, LoadedRows, PendingRows, NewRow
    <3>2. \A m \in rows : ~(m.ts > ts)  BY DEF Row
    <3> QED  BY <1>2, <3>1, <3>2
  <2> HIDE DEF q, U, C
  <2>5. q \in C  BY <1>2, <2>3
  <2> QED  BY <2>1, <2>2, <2>4, <2>5 DEF PendingOf, C
<1> QED  BY <1>6, <1>7

(***************************************************************************)
(* The invariant: created_ts grows, compacted rows do not remove anything, *)
(* and what has been written since a compaction has read comes later than  *)
(* all it has read.                                                        *)
(***************************************************************************)
LogInv ==
    /\ TypeOK
    /\ \A r \in log : r.ts <= clock
    /\ \A r \in log : r.compacted => r.kind # "remove"
    /\ OnlyAdditions /\ Compacting => OnlyAddedSince(log, read)

LEMMA CompactedMembers ==
    ASSUME NEW rows, NEW seen, NEW ts, NEW q \in Compacted(rows, seen, ts)
    PROVE  \/ q \in rows \ Uncompacted(seen)
           \/ q.ts = ts /\ q.kind # "remove"
<1>1. \A m \in MergedRows(Uncompacted(seen), ts) : m.ts = ts /\ m.kind # "remove"
    BY DEF MergedRows, LoadedRows, PendingRows, NewRow
<1> QED  BY <1>1 DEF Compacted

LEMMA CleanedMembers ==
    ASSUME NEW rows, NEW E, NEW dropped, NEW ts, NEW q \in Cleaned(rows, E, dropped, ts)
    PROVE  \E m \in Compacted(rows, rows, ts) :
             /\ q.kind = m.kind /\ q.ts = m.ts
             /\ q.compacted => m.compacted
<1>1. PICK m \in Compacted(rows, rows, ts) : q = Nullified(m, E)
    BY DEF Cleaned, WithoutDropped
<1> QED  BY <1>1 DEF Nullified

\* Rows may be written at the next millisecond, as additions or while nothing else is
\* under way.
LEMMA WriteKeepsInv ==
    ASSUME LogInv, NEW new \in SUBSET Row, log' = log \cup new, clock' = clock + 1,
           UNCHANGED read, TypeOK',
           \A r \in new : r.ts = clock + 1 /\ ~r.compacted,
           OnlyAdditions /\ Compacting => \A r \in new : r.kind \in {"add", "dev"}
    PROVE  LogInv'
<1>1. \A r \in log' : r.ts <= clock'  BY DEF LogInv, TypeOK, Row
<1>2. \A r \in log' : r.compacted => r.kind # "remove"  BY DEF LogInv
<1>3. ASSUME OnlyAdditions, Compacting PROVE OnlyAddedSince(log', read)
  <2>1. OnlyAddedSince(log, read)  BY <1>3 DEF LogInv
  <2>2. \A q \in read : q.ts < clock + 1  BY <2>1 DEF OnlyAddedSince, LogInv, TypeOK, Row
  <2> QED  BY <1>3, <2>1, <2>2 DEF OnlyAddedSince
<1> QED  BY <1>1, <1>2, <1>3 DEF LogInv, Compacting, OnlyAddedSince, OnlyAdditions

LEMMA StepKeepsInv == LogInv /\ [Next]_vars => LogInv'
<1> SUFFICES ASSUME LogInv, [Next]_vars PROVE LogInv'  OBVIOUS
<1>0. TypeOK'  BY StepTyped DEF LogInv
<1>r. \A P \in Ranges : P \in SUBSET Points  BY IntervalConstants
<1>1. ASSUME NEW s \in SnapshotIds, PushSnapshot(s) PROVE LogInv'
    BY <1>0, <1>1 DEF PushSnapshot, LogInv, Compacting, OnlyAdditions, OnlyAddedSince
<1>2. ASSUME NEW s \in SnapshotIds, NEW P \in Ranges, NEW d \in BOOLEAN, AddInterval(s, P, d)
      PROVE LogInv'
  <2> DEFINE row == NewRow(IF d THEN "dev" ELSE "add", KeyOfSnapshot(s), P, clock + 1, FALSE)
  <2>1. row.ts = clock + 1 /\ ~row.compacted /\ row.kind \in {"add", "dev"}  BY DEF NewRow
  <2> HIDE DEF row
  <2>2. log' = log \cup {row} /\ clock' = clock + 1 /\ UNCHANGED read
      BY <1>2 DEF AddInterval, Write, row
  <2>3. row \in Row  BY <1>0, <2>2 DEF TypeOK
  <2>4. {row} \in SUBSET Row  BY <2>3
  <2>5. \A r \in {row} : r.ts = clock + 1 /\ ~r.compacted /\ r.kind \in {"add", "dev"}  BY <2>1
  <2> QED  BY <1>0, <2>2, <2>4, <2>5, WriteKeepsInv
<1>3. ASSUME NEW s \in SnapshotIds, NEW P \in Ranges, AddPendingRestatement(s, P)
      PROVE LogInv'
  <2> DEFINE row == NewRow("pending", <<ProdTable(s), NoPreview, NoId>>, P, clock + 1, FALSE)
  <2>1. row.ts = clock + 1 /\ ~row.compacted  BY DEF NewRow
  <2> HIDE DEF row
  <2>2. log' = log \cup {row} /\ clock' = clock + 1 /\ UNCHANGED read
      BY <1>3 DEF AddPendingRestatement, Write, row
  <2>3. row \in Row  BY <1>0, <2>2 DEF TypeOK
  <2>4. OnlyAdditions => ~Compacting
      BY <1>3 DEF AddPendingRestatement, MayCommit, OnlyAdditions
  <2>5. {row} \in SUBSET Row  BY <2>3
  <2>6. \A r \in {row} : r.ts = clock + 1 /\ ~r.compacted  BY <2>1
  <2> QED  BY <1>0, <2>2, <2>4, <2>5, <2>6, WriteKeepsInv
<1>4. ASSUME NEW s \in SnapshotIds, NEW P \in Ranges, RemoveIntervals(s, P) PROVE LogInv'
  <2> DEFINE removals == {NewRow("remove", k, P, clock + 1, FALSE) : k \in RemovalKeys(s)}
  <2>1. \A r \in removals : r.ts = clock + 1 /\ ~r.compacted  BY DEF NewRow
  <2> HIDE DEF removals
  <2>2. log' = log \cup removals /\ clock' = clock + 1 /\ UNCHANGED read
      BY <1>4 DEF RemoveIntervals, Write, removals
  <2>3. removals \in SUBSET Row  BY <1>0, <2>2 DEF TypeOK
  <2>4. OnlyAdditions => ~Compacting
      BY <1>4 DEF RemoveIntervals, MayCommit, OnlyAdditions
  <2> QED  BY <1>0, <2>1, <2>2, <2>3, <2>4, WriteKeepsInv
<1>5. CASE CompactRead
    BY <1>0, <1>5 DEF CompactRead, LogInv, OnlyAddedSince
<1>6. CASE CompactWrite
  <2>1. log' = Compacted(log, read, clock + 1) /\ clock' = clock + 1 /\ read' = {}
      BY <1>6 DEF CompactWrite, Write
  <2>2. \A q \in log' : q \in log \/ (q.ts = clock + 1 /\ q.kind # "remove")
      BY <2>1, CompactedMembers
  <2>3. \A q \in log : q.ts <= clock + 1  BY DEF LogInv, TypeOK, Row
  <2>4. clock + 1 <= clock + 1  BY DEF LogInv, TypeOK
  <2> QED  BY <1>0, <2>1, <2>2, <2>3, <2>4 DEF LogInv, Compacting
<1>7. ASSUME NEW E \in SUBSET SnapshotIds, DeleteSnapshots(E) PROVE LogInv'
  <2> DEFINE dropped == TablesToDrop(stored, E)
  <2>1. log' = Cleaned(log, E, dropped, clock + 1) /\ clock' = clock + 1 /\ read' = {}
      BY <1>7 DEF DeleteSnapshots, Write, Compacting
  <2> HIDE DEF dropped
  <2>2. \A m \in Compacted(log, log, clock + 1) :
            m \in log \/ (m.ts = clock + 1 /\ m.kind # "remove")
      BY CompactedMembers
  <2>3. \A m \in Compacted(log, log, clock + 1) :
            m.ts <= clock + 1 /\ (m.compacted => m.kind # "remove")
      BY <2>2 DEF LogInv, TypeOK, Row
  <2>4. \A q \in log' : q.ts <= clock + 1 /\ (q.compacted => q.kind # "remove")
      BY <2>1, <2>3, CleanedMembers
  <2> QED  BY <1>0, <2>1, <2>4 DEF LogInv, Compacting
<1>8. CASE UNCHANGED vars
    BY <1>0, <1>8 DEF vars, LogInv, Compacting, OnlyAdditions, OnlyAddedSince
<1> QED  BY <1>1, <1>2, <1>3, <1>4, <1>5, <1>6, <1>7, <1>8 DEF Next

LEMMA LogInvHolds == Spec => []LogInv
<1>1. Init => LogInv  BY DEF Init, LogInv, TypeOK, Compacting
<1> QED  BY <1>1, StepKeepsInv, PTL DEF Spec

(***************************************************************************)
(* What each call does to a reader.                                        *)
(***************************************************************************)
LEMMA RowReads ==
    ASSUME TypeOK, \A r \in log : r.ts <= clock,
           NEW row \in Row, row.ts = clock + 1, row.kind # "remove", NEW t, NEW x
    PROVE  /\ x \in Loaded(log \cup {row}, t) <=>
                x \in Loaded(log, t) \/ (row.kind = "add" /\ row.table = t /\ x \in row.points)
           /\ \A p : x \in Previewed(log \cup {row}, t, p) <=>
                \/ x \in Previewed(log, t, p)
                \/ row.kind = "dev" /\ row.table = t /\ row.preview = p /\ x \in row.points
<1>1. \A r \in log : Removed(log \cup {row}, r, x) <=> Removed(log, r, x)  BY DEF Removed
<1>2. ~Removed(log \cup {row}, row, x)
  <2> SUFFICES ASSUME NEW q \in log, q.ts >= row.ts PROVE FALSE  BY DEF Removed
  <2> QED  BY DEF TypeOK, Row
<1>3. x \in Loaded(log \cup {row}, t) <=>
        x \in Loaded(log, t) \/ (row.kind = "add" /\ row.table = t /\ x \in row.points)
  <2>1. x \in Loaded((log \cup {row}), t) <=>
            \E r \in (log \cup {row}) : /\ r.kind = "add" /\ r.table = t
                           /\ x \in r.points /\ ~Removed((log \cup {row}), r, x)
      BY ReadLoaded
  <2>2. x \in Loaded(log, t) <=>
            \E r \in log : /\ r.kind = "add" /\ r.table = t
                           /\ x \in r.points /\ ~Removed(log, r, x)
      BY ReadLoaded
  <2> QED  BY <1>1, <1>2, <2>1, <2>2
<1>4. \A p : x \in Previewed(log \cup {row}, t, p) <=>
                \/ x \in Previewed(log, t, p)
                \/ row.kind = "dev" /\ row.table = t /\ row.preview = p /\ x \in row.points
    BY ReadPreviewed
<1> QED  BY <1>3, <1>4

\* The rows of a call of RemoveIntervals.
Removals(s, P) == {NewRow("remove", k, P, clock + 1, FALSE) : k \in RemovalKeys(s)}

LEMMA RemovalReads ==
    ASSUME TypeOK, \A r \in log : r.ts <= clock, NEW s \in SnapshotIds, NEW P, NEW t, NEW x
    PROVE  /\ x \in Loaded(log \cup Removals(s, P), t) <=>
                x \in Loaded(log, t) /\ ~(t = ProdTable(s) /\ x \in P)
           /\ \A p : x \in Previewed(log \cup Removals(s, P), t, p) <=> x \in Previewed(log, t, p)
<1> DEFINE removals == Removals(s, P)
<1>1. \A q \in removals : q.kind = "remove" /\ q.points = P /\ q.ts = clock + 1
    BY DEF NewRow, Removals
<1>2. \A k \in RemovalKeys(s) : k \in Key /\ k[1] = ProdTable(s)
    BY KeysTyped DEF TypeOK, RemovalKeys
<1>3. \A k \in RemovalKeys(s) : KeyOf(NewRow("remove", k, P, clock + 1, FALSE)) = k
    BY <1>2 DEF NewRow, KeyOf, Key
<1>4. \A q \in removals : KeyOf(q)[1] = ProdTable(s)  BY <1>2, <1>3 DEF Removals
<1>5. ASSUME NEW r \in log, r.table = ProdTable(s)
      PROVE  \E q \in removals : KeyOf(q) = KeyOf(r)
  <2>1. KeyOf(r) \in RemovalKeys(s)  BY <1>5 DEF RemovalKeys, KeysOf, KeyOf
  <2> QED  BY <1>3, <2>1 DEF Removals
<1>6. \A r : KeyOf(r)[1] = r.table  BY DEF KeyOf
<1> HIDE DEF removals
<1>7. \A r \in log : clock + 1 >= r.ts  BY DEF TypeOK, Row
<1>8. ASSUME NEW r \in log
      PROVE  Removed(log \cup removals, r, x) <=>
                Removed(log, r, x) \/ (r.table = ProdTable(s) /\ x \in P)
    BY <1>1, <1>4, <1>5, <1>6, <1>7 DEF Removed
<1>9. x \in Loaded(log \cup removals, t) <=>
        x \in Loaded(log, t) /\ ~(t = ProdTable(s) /\ x \in P)
  <2>1. x \in Loaded((log \cup removals), t) <=>
            \E r \in (log \cup removals) : /\ r.kind = "add" /\ r.table = t
                           /\ x \in r.points /\ ~Removed((log \cup removals), r, x)
      BY ReadLoaded
  <2>2. x \in Loaded(log, t) <=>
            \E r \in log : /\ r.kind = "add" /\ r.table = t
                           /\ x \in r.points /\ ~Removed(log, r, x)
      BY ReadLoaded
  <2> QED  BY <1>1, <1>8, <2>1, <2>2
<1>10. ASSUME NEW p
       PROVE  x \in Previewed(log \cup removals, t, p) <=> x \in Previewed(log, t, p)
  <2>1. x \in Previewed((log \cup removals), t, p) <=>
            \E r \in (log \cup removals) : r.kind = "dev" /\ r.table = t /\ r.preview = p /\ x \in r.points
      BY ReadPreviewed
  <2>2. x \in Previewed(log, t, p) <=>
            \E r \in log : r.kind = "dev" /\ r.table = t /\ r.preview = p /\ x \in r.points
      BY ReadPreviewed
  <2> QED  BY <1>1, <2>1, <2>2
<1> QED  BY <1>9, <1>10 DEF removals

LEMMA DroppedUnused ==
    ASSUME PreviewsNest, stored \subseteq SnapshotIds, NEW E \in SUBSET stored,
           NEW s \in stored \ E
    PROVE  /\ ProdTable(s) \notin TablesToDrop(stored, E)
           /\ DevTable(s) \notin TablesToDrop(stored, E)
<1>1. VersionsNest(stored)  BY DEF PreviewsNest, VersionsNest
<1> QED  BY <1>1, SharedTableStays

\* The preview tables that are dropped while the production table stays.
Gone(E, dropped) == {DevTable(s) : s \in {s \in E : ProdTable(s) \notin dropped}} \cap dropped

\* Deleting snapshots forgets the tables that are dropped, and no others.
LEMMA CleanedReads ==
    ASSUME LogInv, NEW E, NEW dropped, NEW ts \in Nat, NEW t,
           NEW after, after = Cleaned(log, E, dropped, ts)
    PROVE  /\ Loaded(after, t) = IF t \in dropped THEN {} ELSE Loaded(log, t)
           /\ \A p : Previewed(after, t, p) =
                        IF t \in dropped \/ p \in Gone(E, dropped) THEN {} ELSE Previewed(log, t, p)
<1> DEFINE C == Compacted(log, log, ts)
           kept == {r \in C : r.table \notin dropped /\ ~(r.kind = "dev" /\ r.preview \in Gone(E, dropped))}
<1>1. after = {Nullified(r, E) : r \in kept}  BY DEF Cleaned, WithoutDropped, Gone
<1>2. \A r \in C : /\ Nullified(r, E).kind = r.kind
                   /\ Nullified(r, E).table = r.table
                   /\ Nullified(r, E).points = r.points
                   /\ r.kind = "dev" => Nullified(r, E).preview = r.preview
  <2>1. C \subseteq Row  BY CompactedTyped DEF LogInv, TypeOK
  <2> HIDE DEF C
  <2> QED  BY <2>1 DEF Nullified, Row
<1>3. OnlyAddedSince(log, log)  BY DEF OnlyAddedSince
<1>4. \A x : x \in Loaded(C, t) <=> x \in Loaded(log, t)
    BY <1>3, CompactedLoaded DEF LogInv, TypeOK
<1>5. \A p, x : x \in Previewed(C, t, p) <=> x \in Previewed(log, t, p)
    BY CompactedPreviewed DEF LogInv, TypeOK
<1>6. \A r \in C : r.kind # "remove"
  <2> TAKE r \in C
  <2>1. CASE r \in log \ Uncompacted(log)  BY <2>1 DEF Uncompacted, LogInv
  <2> QED  BY <2>1, CompactedMembers
<1> HIDE DEF C
<1>7. \A x : x \in Loaded(C, t) <=>
        \E r \in C : r.kind = "add" /\ r.table = t /\ x \in r.points
    BY <1>6, ReadLoaded DEF Removed
<1>8. /\ \A q \in after : \E r \in kept : q = Nullified(r, E)
      /\ \A r \in kept : Nullified(r, E) \in after
    BY <1>1
<1>k. \A r : r \in kept <=> /\ r \in C /\ r.table \notin dropped
                            /\ ~(r.kind = "dev" /\ r.preview \in Gone(E, dropped))
    OBVIOUS
<1> HIDE DEF kept
<1>n. \A q \in after : q.kind # "remove"
  <2> TAKE q \in after
  <2>1. PICK r \in kept : q = Nullified(r, E)  BY <1>8
  <2>2. r \in C  BY <1>k
  <2>3. q.kind = r.kind  BY <1>2, <2>1, <2>2
  <2> QED  BY <1>6, <2>2, <2>3
<1>9. \A x : x \in Loaded(after, t) <=>
        \E q \in after : q.kind = "add" /\ q.table = t /\ x \in q.points
    BY <1>n, ReadLoaded DEF Removed
<1>10. Loaded(after, t) = IF t \in dropped THEN {} ELSE Loaded(log, t)
  <2>1. \A x : x \in Loaded(after, t) <=>
            \E r \in C : r.table \notin dropped /\ r.kind = "add" /\ r.table = t /\ x \in r.points
      BY <1>2, <1>8, <1>9, <1>k
  <2> QED  BY <1>4, <1>7, <2>1
<1>11. ASSUME NEW p
       PROVE  Previewed(after, t, p) =
                IF t \in dropped \/ p \in Gone(E, dropped) THEN {} ELSE Previewed(log, t, p)
  <2>1. \A x : x \in Previewed(after, t, p) <=>
            \E q \in after : q.kind = "dev" /\ q.table = t /\ q.preview = p /\ x \in q.points
      BY ReadPreviewed
  <2>2. \A x : x \in Previewed(after, t, p) <=>
            \E r \in kept : r.kind = "dev" /\ r.table = t /\ r.preview = p /\ x \in r.points
      BY <1>2, <1>8, <1>k, <2>1
  <2>3. \A x : x \in Previewed(C, t, p) <=>
            \E r \in C : r.kind = "dev" /\ r.table = t /\ r.preview = p /\ x \in r.points
      BY ReadPreviewed
  <2>4. CASE t \in dropped \/ p \in Gone(E, dropped)
    <3>1. \A x : x \notin Previewed(after, t, p)  BY <1>k, <2>2, <2>4
    <3> QED  BY <2>4, <3>1
  <2>5. CASE ~(t \in dropped \/ p \in Gone(E, dropped))
    <3>1. \A x : x \in Previewed(after, t, p) <=> x \in Previewed(log, t, p)
        BY <1>5, <1>k, <2>2, <2>3, <2>5
    <3> QED  BY <2>5, <3>1
  <2> QED  BY <2>4, <2>5
<1> QED  BY <1>10, <1>11

(***************************************************************************)
(* The theorems.                                                           *)
(***************************************************************************)
AbstractProd == {ProdTable(s) : s \in SnapshotIds}

AbstractPairs == {<<ProdTable(s), DevTable(s)>> : s \in SnapshotIds}

LoadedMap == [t \in AbstractProd |-> Loaded(log, t)]

PreviewedMap == [p \in AbstractPairs |-> Previewed(log, p[1], p[2])]

USE DEF AbstractProd, AbstractPairs

LEMMA ReadsTyped ==
    ASSUME NEW rows \in SUBSET Row
    PROVE  \A t, p : Loaded(rows, t) \subseteq Points /\ Previewed(rows, t, p) \subseteq Points
BY PointsTyped DEF Loaded, Previewed

LEMMA RowWritten ==
    ASSUME LogInv, TypeOK', NEW row, log' = log \cup {row}, row.ts = clock + 1,
           row.kind # "remove"
    PROVE  /\ \A t : Loaded(log', t) = IF row.kind = "add" /\ t = row.table
                                      THEN Loaded(log, t) \cup row.points ELSE Loaded(log, t)
           /\ \A t, p : Previewed(log', t, p) =
                IF row.kind = "dev" /\ t = row.table /\ p = row.preview
                THEN Previewed(log, t, p) \cup row.points ELSE Previewed(log, t, p)
<1>1. row \in Row  BY DEF TypeOK
<1>2. \A t, x : x \in Loaded(log', t) <=>
        x \in Loaded(log, t) \/ (row.kind = "add" /\ row.table = t /\ x \in row.points)
    BY <1>1, RowReads DEF LogInv
<1>3. \A t, p, x : x \in Previewed(log', t, p) <=>
        \/ x \in Previewed(log, t, p)
        \/ row.kind = "dev" /\ row.table = t /\ row.preview = p /\ x \in row.points
    BY <1>1, RowReads DEF LogInv
<1>4. ASSUME NEW t
      PROVE  Loaded(log', t) = IF row.kind = "add" /\ t = row.table
                               THEN Loaded(log, t) \cup row.points ELSE Loaded(log, t)
  <2>1. CASE row.kind = "add" /\ t = row.table  BY <1>2, <2>1
  <2>2. CASE ~(row.kind = "add" /\ t = row.table)
    <3>1. \A x : x \in Loaded(log', t) <=> x \in Loaded(log, t)  BY <1>2, <2>2
    <3> QED  BY <2>2, <3>1
  <2> QED  BY <2>1, <2>2
<1>5. ASSUME NEW t, NEW p
      PROVE  Previewed(log', t, p) = IF row.kind = "dev" /\ t = row.table /\ p = row.preview
                                     THEN Previewed(log, t, p) \cup row.points
                                     ELSE Previewed(log, t, p)
  <2>1. CASE row.kind = "dev" /\ t = row.table /\ p = row.preview  BY <1>3, <2>1
  <2>2. CASE ~(row.kind = "dev" /\ t = row.table /\ p = row.preview)
    <3>1. \A x : x \in Previewed(log', t, p) <=> x \in Previewed(log, t, p)  BY <1>3, <2>2
    <3> QED  BY <2>2, <3>1
  <2> QED  BY <2>1, <2>2
<1> QED  BY <1>4, <1>5

LEMMA LoadRefines ==
    ASSUME LogInv, TypeOK', NEW s \in SnapshotIds, NEW P \in Ranges, AddInterval(s, P, FALSE)
    PROVE  Abstract!Load(s, P)
<1> DEFINE row == NewRow("add", KeyOfSnapshot(s), P, clock + 1, FALSE)
<1>1. log' = log \cup {row} /\ UNCHANGED stored
    BY DEF AddInterval, Write
<1>2. /\ row.kind = "add" /\ row.table = ProdTable(s) /\ row.points = P
      /\ row.ts = clock + 1
    BY DEF NewRow, KeyOfSnapshot
<1> HIDE DEF row
<1>3. LoadedMap' = [LoadedMap EXCEPT ![ProdTable(s)] = @ \cup P]
  <2>1. \A t : Loaded(log', t) = IF t = ProdTable(s) THEN Loaded(log, t) \cup P ELSE Loaded(log, t)
      BY <1>1, <1>2, RowWritten
  <2> QED  BY <2>1 DEF LoadedMap
<1>4. PreviewedMap' = PreviewedMap
  <2>1. \A t, p : Previewed(log', t, p) =
                IF row.kind = "dev" /\ t = row.table /\ p = row.preview
                THEN Previewed(log, t, p) \cup row.points ELSE Previewed(log, t, p)
      BY <1>1, <1>2, RowWritten
  <2>2. \A t, p : Previewed(log', t, p) = Previewed(log, t, p)  BY <1>2, <2>1
  <2> QED  BY <2>2 DEF PreviewedMap
<1> QED  BY <1>1, <1>3, <1>4 DEF Abstract!Load, LoadedMap, PreviewedMap

LEMMA LoadPreviewRefines ==
    ASSUME LogInv, TypeOK', NEW s \in SnapshotIds, NEW P \in Ranges, AddInterval(s, P, TRUE)
    PROVE  Abstract!LoadPreview(s, P)
<1> DEFINE row == NewRow("dev", KeyOfSnapshot(s), P, clock + 1, FALSE)
<1>1. log' = log \cup {row} /\ UNCHANGED stored
    BY DEF AddInterval, Write
<1>2. /\ row.kind = "dev" /\ row.table = ProdTable(s) /\ row.preview = DevTable(s)
      /\ row.points = P /\ row.ts = clock + 1
    BY DEF NewRow, KeyOfSnapshot
<1> HIDE DEF row
<1>3. LoadedMap' = LoadedMap
  <2>1. \A t : Loaded(log', t) = Loaded(log, t)  BY <1>1, <1>2, RowWritten
  <2> QED  BY <2>1 DEF LoadedMap
<1>4. PreviewedMap' = [PreviewedMap EXCEPT ![<<ProdTable(s), DevTable(s)>>] = @ \cup P]
  <2>1. ASSUME NEW p \in AbstractPairs
        PROVE  PreviewedMap'[p] = IF p = <<ProdTable(s), DevTable(s)>>
                                  THEN PreviewedMap[p] \cup P ELSE PreviewedMap[p]
    <3>1. p = <<p[1], p[2]>>  OBVIOUS
    <3> QED  BY <1>1, <1>2, <3>1, RowWritten DEF PreviewedMap
  <2> QED  BY <2>1 DEF PreviewedMap
<1> QED  BY <1>1, <1>3, <1>4 DEF Abstract!LoadPreview, Abstract!Pair, LoadedMap, PreviewedMap

LEMMA PendingUnseen ==
    ASSUME LogInv, TypeOK', NEW s \in SnapshotIds, NEW P \in Ranges,
           AddPendingRestatement(s, P)
    PROVE  UNCHANGED Abstract!vars
<1> DEFINE row == NewRow("pending", <<ProdTable(s), NoPreview, NoId>>, P, clock + 1, FALSE)
<1>1. log' = log \cup {row} /\ UNCHANGED stored
    BY DEF AddPendingRestatement, Write
<1>2. row.kind = "pending" /\ row.ts = clock + 1  BY DEF NewRow
<1> HIDE DEF row
<1>3. LoadedMap' = LoadedMap
  <2>1. \A t : Loaded(log', t) = Loaded(log, t)  BY <1>1, <1>2, RowWritten
  <2> QED  BY <2>1 DEF LoadedMap
<1>4. PreviewedMap' = PreviewedMap
  <2>1. \A t, p : Previewed(log', t, p) =
                IF row.kind = "dev" /\ t = row.table /\ p = row.preview
                THEN Previewed(log, t, p) \cup row.points ELSE Previewed(log, t, p)
      BY <1>1, <1>2, RowWritten
  <2>2. \A t, p : Previewed(log', t, p) = Previewed(log, t, p)  BY <1>2, <2>1
  <2> QED  BY <2>2 DEF PreviewedMap
<1> QED  BY <1>1, <1>3, <1>4 DEF Abstract!vars, LoadedMap, PreviewedMap

LEMMA UnloadRefines ==
    ASSUME LogInv, NEW s \in SnapshotIds, NEW P \in Ranges, RemoveIntervals(s, P)
    PROVE  Abstract!Unload(s, P)
<1>1. log' = log \cup Removals(s, P) /\ UNCHANGED stored
    BY DEF RemoveIntervals, Write, Removals
<1>2. ASSUME NEW t, NEW x
      PROVE  /\ x \in Loaded(log \cup Removals(s, P), t) <=>
                  x \in Loaded(log, t) /\ ~(t = ProdTable(s) /\ x \in P)
             /\ \A p : x \in Previewed(log \cup Removals(s, P), t, p) <=> x \in Previewed(log, t, p)
    BY RemovalReads DEF LogInv
<1>3. \A t : Loaded(log', t) =
                IF t = ProdTable(s) THEN Loaded(log, t) \ P ELSE Loaded(log, t)
    BY <1>1, <1>2
<1>4. ASSUME NEW t, NEW p PROVE Previewed(log', t, p) = Previewed(log, t, p)
  <2>1. \A x : x \in Previewed(log', t, p) <=> x \in Previewed(log, t, p)  BY <1>1, <1>2
  <2> QED  BY <2>1
<1>5. LoadedMap' = [LoadedMap EXCEPT ![ProdTable(s)] = @ \ P]  BY <1>3 DEF LoadedMap
<1>6. PreviewedMap' = PreviewedMap  BY <1>4 DEF PreviewedMap
<1> QED  BY <1>1, <1>5, <1>6 DEF Abstract!Unload, LoadedMap, PreviewedMap

LEMMA CompactionUnseen ==
    ASSUME OnlyAdditions, LogInv, CompactWrite
    PROVE  UNCHANGED Abstract!vars
<1>1. log' = Compacted(log, read, clock + 1) /\ UNCHANGED stored /\ Compacting
    BY DEF CompactWrite, Write
<1>2. OnlyAddedSince(log, read) /\ read \subseteq log  BY <1>1 DEF LogInv, OnlyAddedSince
<1>3. log \in SUBSET Row /\ read \in SUBSET Row /\ clock + 1 \in Nat  BY DEF LogInv, TypeOK
<1>4. \A t, x : x \in Loaded(log', t) <=> x \in Loaded(log, t)
    BY <1>1, <1>2, <1>3, CompactedLoaded
<1>5. ASSUME NEW t, NEW p, NEW x
      PROVE  x \in Previewed(log', t, p) <=> x \in Previewed(log, t, p)
    BY <1>1, <1>2, <1>3, CompactedPreviewed
<1>6. \A t : Loaded(log', t) = Loaded(log, t)  BY <1>4
<1>8. ASSUME NEW t, NEW p PROVE Previewed(log', t, p) = Previewed(log, t, p)
  <2>1. \A x : x \in Previewed(log', t, p) <=> x \in Previewed(log, t, p)  BY <1>5
  <2> QED  BY <2>1
<1>7. LoadedMap' = LoadedMap /\ PreviewedMap' = PreviewedMap
    BY <1>6, <1>8 DEF LoadedMap, PreviewedMap
<1> QED  BY <1>1, <1>7 DEF Abstract!vars, LoadedMap, PreviewedMap

LEMMA DeletionRefines ==
    ASSUME PreviewsNest, LogInv, TypeOK', NEW E \in SUBSET SnapshotIds, DeleteSnapshots(E)
    PROVE  Abstract!Release(E)
<1> DEFINE dropped == TablesToDrop(stored, E)
<1>1. /\ log' = Cleaned(log, E, dropped, clock + 1) /\ stored' = stored \ E /\ E \subseteq stored
      /\ stored \subseteq SnapshotIds
    BY DEF DeleteSnapshots, Write, LogInv, TypeOK
<1>2. \A s \in stored \ E : ProdTable(s) \notin dropped /\ DevTable(s) \notin dropped
    BY <1>1, DroppedUnused
<1>3. ASSUME NEW t
      PROVE  /\ Loaded(log', t) = IF t \in dropped THEN {} ELSE Loaded(log, t)
             /\ \A p : Previewed(log', t, p) =
                        IF t \in dropped \/ p \in Gone(E, dropped) THEN {} ELSE Previewed(log, t, p)
  <2>1. clock + 1 \in Nat  BY DEF LogInv, TypeOK
  <2>2. log' = Cleaned(log, E, dropped, clock + 1)  BY <1>1
  <2> HIDE DEF dropped
  <2>3. Loaded(log', t) = IF t \in dropped THEN {} ELSE Loaded(log, t)
      BY <2>1, <2>2, CleanedReads
  <2>4. \A p : Previewed(log', t, p) =
                IF t \in dropped \/ p \in Gone(E, dropped) THEN {} ELSE Previewed(log, t, p)
      BY <2>1, <2>2, CleanedReads
  <2> QED  BY <2>3, <2>4
<1>4. \A s \in stored \ E : DevTable(s) \notin Gone(E, dropped)  BY <1>2 DEF Gone
<1>5. \A t, p : Loaded(log', t) \subseteq Points /\ Previewed(log', t, p) \subseteq Points
    BY ReadsTyped DEF TypeOK
<1> HIDE DEF dropped
<1>6. /\ LoadedMap' \in [AbstractProd -> SUBSET Points]
      /\ PreviewedMap' \in [AbstractPairs -> SUBSET Points]
    BY <1>5 DEF LoadedMap, PreviewedMap
<1>7. \A s \in stored \ E :
        /\ LoadedMap'[ProdTable(s)] = LoadedMap[ProdTable(s)]
        /\ PreviewedMap'[<<ProdTable(s), DevTable(s)>>] = PreviewedMap[<<ProdTable(s), DevTable(s)>>]
    BY <1>1, <1>2, <1>3, <1>4 DEF LoadedMap, PreviewedMap
<1>8. /\ \A t \in AbstractProd : LoadedMap'[t] \in {{}, LoadedMap[t]}
      /\ \A p \in AbstractPairs : PreviewedMap'[p] \in {{}, PreviewedMap[p]}
    BY <1>3 DEF LoadedMap, PreviewedMap
<1> QED  BY <1>1, <1>6, <1>7, <1>8
         DEF Abstract!Release, Abstract!Pair, Abstract!Pairs, Abstract!ProdTables,
             LoadedMap, PreviewedMap

LEMMA InitRefines == Init => Abstract!Init
<1> SUFFICES ASSUME Init PROVE Abstract!Init  OBVIOUS
<1>1. \A t : Loaded(log, t) = {}  BY DEF Init, Loaded, KeysOf
<1>2. \A t, p : Previewed(log, t, p) = {}  BY DEF Init, Previewed, KeysOf
<1> QED  BY <1>1, <1>2 DEF Init, Abstract!Init, Abstract!ProdTables, Abstract!Pairs, Abstract!Pair

LEMMA StepRefines ==
    ASSUME OnlyAdditions, PreviewsNest, LogInv, [Next]_vars
    PROVE  [Abstract!Next]_(Abstract!vars)
<1>0. TypeOK'  BY StepTyped DEF LogInv
<1>r. Ranges \subseteq SUBSET Points  BY IntervalConstants
<1>1. ASSUME NEW s \in SnapshotIds, PushSnapshot(s) PROVE Abstract!Next
  <2>1. Abstract!Store(s)  BY <1>1 DEF PushSnapshot, Abstract!Store
  <2> QED  BY <2>1 DEF Abstract!Next
<1>2. ASSUME NEW s \in SnapshotIds, NEW P \in Ranges, NEW d \in BOOLEAN, AddInterval(s, P, d)
      PROVE Abstract!Next
  <2>1. CASE d = FALSE  BY <1>0, <1>r, <1>2, <2>1, LoadRefines DEF Abstract!Next
  <2>2. CASE d = TRUE  BY <1>0, <1>r, <1>2, <2>2, LoadPreviewRefines DEF Abstract!Next
  <2> QED  BY <2>1, <2>2
<1>3. ASSUME NEW s \in SnapshotIds, NEW P \in Ranges, AddPendingRestatement(s, P)
      PROVE UNCHANGED Abstract!vars
    BY <1>0, <1>3, PendingUnseen
<1>4. ASSUME NEW s \in SnapshotIds, NEW P \in Ranges, RemoveIntervals(s, P)
      PROVE Abstract!Next
    BY <1>r, <1>4, UnloadRefines DEF Abstract!Next
<1>5. ASSUME CompactRead PROVE UNCHANGED Abstract!vars
    BY <1>5 DEF CompactRead, Abstract!vars
<1>6. ASSUME CompactWrite PROVE UNCHANGED Abstract!vars
    BY <1>6, CompactionUnseen
<1>7. ASSUME NEW E \in SUBSET SnapshotIds, DeleteSnapshots(E) PROVE Abstract!Next
    BY <1>0, <1>7, DeletionRefines DEF Abstract!Next
<1>8. ASSUME UNCHANGED vars PROVE UNCHANGED Abstract!vars
    BY <1>8 DEF vars, Abstract!vars
<1> QED  BY <1>1, <1>2, <1>3, <1>4, <1>5, <1>6, <1>7, <1>8 DEF Next

\* The log implements the store of intervals, if only additions are written while a
\* compaction is under way and preview versions nest in production versions.
THEOREM ImplementsStore ==
    ASSUME OnlyAdditions, PreviewsNest
    PROVE  Spec => StoreSpec
<1>1. LogInv /\ [Next]_vars => [Abstract!Next]_(Abstract!vars)
    BY StepRefines
<1> QED  BY <1>1, InitRefines, LogInvHolds, PTL DEF Spec, StoreSpec, Abstract!Spec

\* A reader of the log does not notice a compaction, whatever additions have been
\* written since it began.
THEOREM CompactionsAreInvisible ==
    ASSUME OnlyAdditions
    PROVE  Spec => CompactionInvisible
<1>1. LogInv /\ [Next]_vars => [CompactWrite => UNCHANGED Abstract!vars]_vars
    BY CompactionUnseen
<1> QED  BY <1>1, LogInvHolds, PTL DEF Spec, CompactionInvisible

\* A call loads or clears exactly what it is for, for everybody who has the table.
THEOREM CallsAreCounted == Spec => CallsCount
<1> DEFINE A == \A s \in SnapshotIds : \A P \in Ranges :
                    /\ AddInterval(s, P, FALSE) => Abstract!Load(s, P)
                    /\ AddInterval(s, P, TRUE) => Abstract!LoadPreview(s, P)
                    /\ RemoveIntervals(s, P) => Abstract!Unload(s, P)
<1>1. LogInv /\ [Next]_vars => [A]_vars
  <2> SUFFICES ASSUME LogInv, [Next]_vars PROVE A  OBVIOUS
  <2>1. TypeOK'  BY StepTyped DEF LogInv
  <2> QED  BY <2>1, LoadRefines, LoadPreviewRefines, UnloadRefines
<1> QED  BY <1>1, LogInvHolds, PTL DEF Spec, CallsCount

LEMMA AddingKeepsPending ==
    ASSUME LogInv, NEW new, log' = log \cup new, NEW t,
           NEW x \in PendingOf(log, t), x \notin PendingOf(log', t),
           \A r \in new : r.ts = clock + 1 /\ ~r.compacted
    PROVE  \E r \in log' \ log : r.kind = "add" /\ ~r.compacted /\ x \in r.points
<1>1. PICK r \in new : r.kind = "add" /\ x \in r.points /\ ~r.compacted /\ r.ts = clock + 1
    BY DEF PendingOf
<1>2. r \notin log  BY <1>1 DEF LogInv, TypeOK
<1> QED  BY <1>1, <1>2

LEMMA CleanedPending ==
    ASSUME LogInv, NEW E, NEW dropped, NEW ts \in Nat, \A r \in log : r.ts < ts,
           NEW t, t \notin dropped, NEW x \in PendingOf(log, t)
    PROVE  x \in PendingOf(Cleaned(log, E, dropped, ts), t)
<1> DEFINE C == Compacted(log, log, ts)
           after == Cleaned(log, E, dropped, ts)
           kept == WithoutDropped(C, E, dropped)
<1>1. x \in PendingOf(C, t)
  <2>1. OnlyAddedSince(log, log)  BY DEF OnlyAddedSince
  <2> QED  BY <2>1, CompactedPending DEF LogInv, TypeOK
<1>2. C \subseteq Row  BY CompactedTyped DEF LogInv, TypeOK
<1>3. after = {Nullified(r, E) : r \in kept}  BY DEF Cleaned
<1> HIDE DEF C, after
<1>4. kept \subseteq C /\ \A r \in C : r.table = t /\ r.kind = "pending" => r \in kept
    BY DEF WithoutDropped
<1> HIDE DEF kept
<1>5. \A r \in kept : /\ Nullified(r, E) \in after
                      /\ Nullified(r, E).kind = r.kind
                      /\ Nullified(r, E).table = r.table
                      /\ Nullified(r, E).points = r.points
                      /\ Nullified(r, E).ts = r.ts
    BY <1>2, <1>3, <1>4 DEF Nullified, Row
<1>6. PICK r \in C :
        /\ r.kind = "pending" /\ r.table = t /\ x \in r.points
        /\ \A q \in C : q.kind = "add" /\ q.table = t /\ q.ts > r.ts => x \notin q.points
    BY <1>1 DEF PendingOf
<1>7. ASSUME NEW q \in after, q.kind = "add", q.table = t, q.ts > r.ts, x \in q.points
      PROVE  FALSE
  <2>1. PICK m \in kept : q = Nullified(m, E)  BY <1>3
  <2> QED  BY <1>4, <1>5, <1>6, <1>7, <2>1
<1>8. x \in Points  BY DEF PendingOf
<1>9. x \in PendingOf(after, t)
    BY <1>4, <1>5, <1>6, <1>7, <1>8 DEF PendingOf
<1> QED  BY <1>9 DEF after

\* Points that wait to be restated are not forgotten by the rewriting of the log.
THEOREM PendingIsKept ==
    ASSUME OnlyAdditions, PreviewsNest
    PROVE  Spec => PendingKept
<1> DEFINE A == \A s \in SnapshotIds :
                    \A x \in PendingOf(log, ProdTable(s)) \ PendingOf(log', ProdTable(s)) :
                        \/ \E r \in log' \ log : r.kind = "add" /\ ~r.compacted /\ x \in r.points
                        \/ ProdTable(s) \notin {ProdTable(q) : q \in stored'}
<1>1. LogInv /\ [Next]_vars => [A]_vars
  <2> SUFFICES ASSUME LogInv, Next,
                      NEW u \in SnapshotIds, NEW x \in PendingOf(log, ProdTable(u)),
                      x \notin PendingOf(log', ProdTable(u)),
                      ProdTable(u) \in {ProdTable(q) : q \in stored'}
               PROVE  \E r \in log' \ log : r.kind = "add" /\ ~r.compacted /\ x \in r.points
      BY DEF vars
  <2>1. ASSUME NEW s \in SnapshotIds, PushSnapshot(s) PROVE FALSE
      BY <2>1 DEF PushSnapshot
  <2>2. ASSUME NEW s \in SnapshotIds, NEW P \in Ranges, NEW d \in BOOLEAN, AddInterval(s, P, d)
        PROVE  \E r \in log' \ log : r.kind = "add" /\ ~r.compacted /\ x \in r.points
    <3> DEFINE new == {NewRow(IF d THEN "dev" ELSE "add", KeyOfSnapshot(s), P, clock + 1, FALSE)}
    <3>1. \A r \in new : r.ts = clock + 1 /\ ~r.compacted  BY DEF NewRow
    <3>2. log' = log \cup new  BY <2>2 DEF AddInterval, Write
    <3> HIDE DEF new
    <3> QED  BY <3>1, <3>2, AddingKeepsPending
  <2>3. ASSUME NEW s \in SnapshotIds, NEW P \in Ranges, AddPendingRestatement(s, P)
        PROVE  \E r \in log' \ log : r.kind = "add" /\ ~r.compacted /\ x \in r.points
    <3> DEFINE new == {NewRow("pending", <<ProdTable(s), NoPreview, NoId>>, P, clock + 1, FALSE)}
    <3>1. \A r \in new : r.ts = clock + 1 /\ ~r.compacted  BY DEF NewRow
    <3>2. log' = log \cup new  BY <2>3 DEF AddPendingRestatement, Write
    <3> HIDE DEF new
    <3> QED  BY <3>1, <3>2, AddingKeepsPending
  <2>4. ASSUME NEW s \in SnapshotIds, NEW P \in Ranges, RemoveIntervals(s, P)
        PROVE  \E r \in log' \ log : r.kind = "add" /\ ~r.compacted /\ x \in r.points
    <3>1. \A r \in Removals(s, P) : r.ts = clock + 1 /\ ~r.compacted  BY DEF NewRow, Removals
    <3>2. log' = log \cup Removals(s, P)  BY <2>4 DEF RemoveIntervals, Write, Removals
    <3> QED  BY <3>1, <3>2, AddingKeepsPending
  <2>5. ASSUME CompactRead PROVE FALSE  BY <2>5 DEF CompactRead
  <2>t. clock + 1 \in Nat /\ \A r \in log : r.ts < clock + 1  BY DEF LogInv, TypeOK, Row
  <2>6. ASSUME CompactWrite PROVE FALSE
    <3>1. log' = Compacted(log, read, clock + 1) /\ Compacting
        BY <2>6 DEF CompactWrite, Write
    <3>2. OnlyAddedSince(log, read) /\ log \in SUBSET Row /\ read \in SUBSET Row
        BY <3>1 DEF LogInv, TypeOK
    <3> QED  BY <2>t, <3>1, <3>2, CompactedPending
  <2>7. ASSUME NEW E \in SUBSET SnapshotIds, DeleteSnapshots(E) PROVE FALSE
    <3> DEFINE dropped == TablesToDrop(stored, E)
    <3>1. /\ log' = Cleaned(log, E, dropped, clock + 1) /\ stored' = stored \ E
          /\ E \subseteq stored /\ stored \subseteq SnapshotIds
        BY <2>7 DEF DeleteSnapshots, Write, LogInv, TypeOK
    <3>2. ProdTable(u) \notin dropped  BY <3>1, DroppedUnused
    <3> HIDE DEF dropped
    <3> QED  BY <2>t, <3>1, <3>2, CleanedPending
  <2> QED  BY <2>1, <2>2, <2>3, <2>4, <2>5, <2>6, <2>7 DEF Next
<1> QED  BY <1>1, LogInvHolds, PTL DEF Spec, PendingKept

(***************************************************************************)
(* Rows of dropped tables.  A row that says what was loaded is about the   *)
(* tables of the snapshot it names, and of a stored snapshot once it names *)
(* none: a snapshot that is deleted while others have its tables takes its *)
(* name out of its rows, and the last one takes them along.                *)
(***************************************************************************)
Tells(r) == r.kind \in {"add", "dev"}

Accounted(r, S) == IF r.id = NoId THEN \E q \in S : IsAbout(r, q) ELSE IsAbout(r, r.id)

RowsAccounted(rows, S) == \A r \in rows : Tells(r) => Accounted(r, S)

StoredInv ==
    IsFiniteSet(stored) /\ RowsAccounted(log, stored) /\ RowsAccounted(read, stored)

\* A row that tells the same of the same tables is as well accounted for.
LEMMA AlikeAccounted ==
    ASSUME NEW r, NEW m, NEW S, Accounted(r, S), KeyOf(m) = KeyOf(r), m.kind = r.kind
    PROVE  Accounted(m, S)
BY DEF Accounted, IsAbout, KeyOf

LEMMA CompactedAccounted ==
    ASSUME NEW rows \in SUBSET Row, NEW seen \in SUBSET Row, NEW ts, NEW S,
           RowsAccounted(rows, S), RowsAccounted(seen, S)
    PROVE  RowsAccounted(Compacted(rows, seen, ts), S)
<1> SUFFICES ASSUME NEW m \in Compacted(rows, seen, ts), Tells(m) PROVE Accounted(m, S)
    BY DEF RowsAccounted
<1> DEFINE U == Uncompacted(seen)
<1>1. CASE m \in rows  BY <1>1 DEF RowsAccounted
<1>2. CASE m \in MergedRows(U, ts)
  <2>1. \A r \in U : Tells(r) => Accounted(r, S)  BY DEF Uncompacted, RowsAccounted
  <2>2. KeysOf(U) \subseteq Key  BY KeysTyped DEF Uncompacted
  <2> HIDE DEF U
  <2>3. ASSUME NEW k \in KeysOf(U), NEW kind \in {"add", "dev"}, m.points # {},
               m = NewRow(kind, k, PointsOf(U, kind, k), ts, TRUE)
        PROVE  Accounted(m, S)
    <3>1. m.kind = kind /\ KeyOf(m) = k /\ m.points = PointsOf(U, kind, k)
        BY <2>2, <2>3 DEF NewRow, KeyOf, Key
    <3>2. PICK r \in U : r.kind = kind /\ KeyOf(r) = k  BY <2>3, <3>1 DEF PointsOf
    <3> QED  BY <2>1, <3>1, <3>2, AlikeAccounted DEF Tells
  <2>4. \A r \in U : NewRow("pending", <<r.table, NoPreview, NoId>>, PendingOf(U, r.table),
                            ts, TRUE).kind = "pending"
      BY DEF NewRow
  <2>5. /\ m.points # {}
        /\ \/ \E k \in KeysOf(U) : m = NewRow("add", k, PointsOf(U, "add", k), ts, TRUE)
           \/ \E k \in KeysOf(U) : m = NewRow("dev", k, PointsOf(U, "dev", k), ts, TRUE)
           \/ \E r \in U : m = NewRow("pending", <<r.table, NoPreview, NoId>>,
                                      PendingOf(U, r.table), ts, TRUE)
      BY <1>2, MergedMembers
  <2> QED  BY <2>3, <2>4, <2>5 DEF Tells
<1> QED  BY <1>1, <1>2 DEF Compacted

LEMMA CleanedAccounted ==
    ASSUME PreviewsNest, LogInv, StoredInv, NEW E \in SUBSET stored, NEW ts \in Nat
    PROVE  RowsAccounted(Cleaned(log, E, TablesToDrop(stored, E), ts), stored \ E)
<1> DEFINE C == Compacted(log, log, ts)
           dropped == TablesToDrop(stored, E)
<1>0. stored \subseteq SnapshotIds /\ VersionsNest(stored) /\ IsFiniteSet(E)
    BY FS_Subset DEF LogInv, TypeOK, StoredInv, PreviewsNest, VersionsNest
<1>1. RowsAccounted(C, stored)  BY CompactedAccounted DEF StoredInv, LogInv, TypeOK
<1>2. C \subseteq Row  BY CompactedTyped DEF LogInv, TypeOK
<1> SUFFICES ASSUME NEW c \in Cleaned(log, E, dropped, ts), Tells(c)
             PROVE  Accounted(c, stored \ E)
    BY DEF RowsAccounted
<1>3. PICK r \in C : /\ c = Nullified(r, E) /\ r.table \notin dropped
                     /\ r.kind = "dev" => r.preview \notin Gone(E, dropped)
    BY DEF Cleaned, WithoutDropped, Gone
<1>4. r \in Row  BY <1>2
<1>5. /\ c.kind = r.kind /\ c.table = r.table /\ (r.kind = "dev" => c.preview = r.preview)
      /\ c.id = IF r.id \in E THEN NoId ELSE r.id
    BY <1>3, <1>4 DEF Nullified, Row
<1>6. Accounted(r, stored)  BY <1>1, <1>5 DEF RowsAccounted, Tells
<1>7. CASE r.id # NoId /\ r.id \notin E  BY <1>5, <1>6, <1>7 DEF Accounted, IsAbout
<1>8. CASE r.id = NoId \/ r.id \in E
  <2>1. PICK q \in stored : IsAbout(r, q)
      BY <1>0, <1>6, <1>8, IntervalConstants DEF Accounted
  <2>2. c.id = NoId  BY <1>5, <1>8
  <2>3. \E x \in stored \ E : IsAbout(c, x)
    <3>1. CASE q \notin E  BY <1>5, <2>1, <3>1 DEF IsAbout
    <3>2. CASE q \in E
      <4>1. PICK p \in stored \ E : ProdTable(p) = ProdTable(q)
          BY <1>0, <1>3, <2>1, <3>2, UnsharedTableDropped DEF IsAbout
      <4>2. CASE r.kind # "dev"  BY <1>5, <2>1, <4>1, <4>2 DEF IsAbout
      <4>3. CASE r.kind = "dev"
        <5>1. DevTable(q) \notin dropped
            BY <1>3, <2>1, <3>2, <4>3 DEF IsAbout, Gone
        <5>2. PICK x \in stored \ E : DevTable(x) = DevTable(q)
            BY <1>0, <3>2, <5>1, UnsharedPreviewDropped DEF SameVersion
        <5>3. ProdTable(x) = ProdTable(q)  BY <1>0, <5>2 DEF VersionsNest
        <5> QED  BY <1>5, <2>1, <5>2, <5>3 DEF IsAbout
      <4> QED  BY <4>2, <4>3
    <3> QED  BY <3>1, <3>2
  <2> QED  BY <2>2, <2>3 DEF Accounted
<1> QED  BY <1>7, <1>8

LEMMA StoredStep ==
    ASSUME PreviewsNest, LogInv, StoredInv, [Next]_vars
    PROVE  StoredInv'
<1>0. stored \subseteq SnapshotIds /\ log \in SUBSET Row /\ read \in SUBSET Row /\ clock \in Nat
    BY DEF LogInv, TypeOK
<1>1. ASSUME NEW s \in SnapshotIds, PushSnapshot(s) PROVE StoredInv'
  <2>1. stored' = stored \cup {s} /\ UNCHANGED <<log, read>>  BY <1>1 DEF PushSnapshot
  <2>2. IsFiniteSet(stored \cup {s})  BY FS_AddElement DEF StoredInv
  <2> QED  BY <2>1, <2>2 DEF StoredInv, RowsAccounted, Accounted, IsAbout
<1>2. ASSUME NEW new, log' = log \cup new, UNCHANGED <<stored, read>>,
             \A r \in new : Tells(r) => Accounted(r, stored)
      PROVE  StoredInv'
    BY <1>2 DEF StoredInv, RowsAccounted, Accounted, IsAbout
<1>3. ASSUME NEW s \in SnapshotIds, NEW P \in Ranges, NEW d \in BOOLEAN, AddInterval(s, P, d)
      PROVE  StoredInv'
  <2> DEFINE row == NewRow(IF d THEN "dev" ELSE "add", KeyOfSnapshot(s), P, clock + 1, FALSE)
  <2>1. row.table = ProdTable(s) /\ row.preview = DevTable(s) /\ row.id = s
      BY DEF NewRow, KeyOfSnapshot
  <2>2. log' = log \cup {row} /\ UNCHANGED <<stored, read>>
      BY <1>3 DEF AddInterval, Write
  <2> HIDE DEF row
  <2>3. Accounted(row, stored)  BY <2>1, IntervalConstants DEF Accounted, IsAbout
  <2> DEFINE new == {row}
  <2>4. \A r \in new : Tells(r) => Accounted(r, stored)  BY <2>3
  <2>5. log' = log \cup new  BY <2>2
  <2> HIDE DEF new
  <2> QED  BY <1>2, <2>2, <2>4, <2>5
<1>4. ASSUME NEW s \in SnapshotIds, NEW P \in Ranges, AddPendingRestatement(s, P)
      PROVE  StoredInv'
  <2> DEFINE new == {NewRow("pending", <<ProdTable(s), NoPreview, NoId>>, P, clock + 1, FALSE)}
  <2>1. \A r \in new : ~Tells(r)  BY DEF NewRow, Tells
  <2>2. log' = log \cup new /\ UNCHANGED <<stored, read>>
      BY <1>4 DEF AddPendingRestatement, Write
  <2> HIDE DEF new
  <2> QED  BY <1>2, <2>1, <2>2
<1>5. ASSUME NEW s \in SnapshotIds, NEW P \in Ranges, RemoveIntervals(s, P)
      PROVE  StoredInv'
  <2> DEFINE new == {NewRow("remove", k, P, clock + 1, FALSE) : k \in RemovalKeys(s)}
  <2>1. \A r \in new : ~Tells(r)  BY DEF NewRow, Tells
  <2>2. log' = log \cup new /\ UNCHANGED <<stored, read>>
      BY <1>5 DEF RemoveIntervals, Write
  <2> HIDE DEF new
  <2> QED  BY <1>2, <2>1, <2>2
<1>6. CASE CompactRead
    BY <1>6 DEF CompactRead, StoredInv, RowsAccounted, Accounted, IsAbout
<1>7. CASE CompactWrite
  <2>1. log' = Compacted(log, read, clock + 1) /\ read' = {} /\ stored' = stored
      BY <1>7 DEF CompactWrite, Write
  <2>2. RowsAccounted(Compacted(log, read, clock + 1), stored)
      BY <1>0, CompactedAccounted DEF StoredInv
  <2> QED  BY <2>1, <2>2 DEF StoredInv, RowsAccounted, Accounted, IsAbout
<1>8. ASSUME NEW E \in SUBSET SnapshotIds, DeleteSnapshots(E) PROVE StoredInv'
  <2>1. /\ E \subseteq stored /\ stored' = stored \ E /\ read' = {}
        /\ log' = Cleaned(log, E, TablesToDrop(stored, E), clock + 1)
      BY <1>8 DEF DeleteSnapshots, Write, Compacting
  <2>2. RowsAccounted(Cleaned(log, E, TablesToDrop(stored, E), clock + 1), stored \ E)
      BY <1>0, <2>1, CleanedAccounted
  <2>3. IsFiniteSet(stored \ E)  BY FS_Subset DEF StoredInv
  <2> QED  BY <2>1, <2>2, <2>3 DEF StoredInv, RowsAccounted, Accounted, IsAbout
<1>9. CASE UNCHANGED vars
    BY <1>9 DEF vars, StoredInv, RowsAccounted, Accounted, IsAbout
<1> QED  BY <1>1, <1>3, <1>4, <1>5, <1>6, <1>7, <1>8, <1>9 DEF Next

\* What the log says of a table that no stored snapshot has, an evaluation said that
\* ended after its snapshot had been deleted.  Everything recorded before goes with the
\* last snapshot: get_expired_snapshots lets go of exactly the tables whose rows nobody
\* needs any more, whatever has been compacted, or has lost its identifier, before.
THEOREM LingeringRowsAreLate ==
    ASSUME PreviewsNest
    PROVE  Spec => []OnlyLateRowsLinger
<1>1. Init => StoredInv
    BY FS_EmptySet DEF Init, StoredInv, RowsAccounted
<1>2. LogInv /\ StoredInv /\ [Next]_vars => StoredInv'  BY StoredStep
<1>3. LogInv /\ StoredInv => OnlyLateRowsLinger
  <2> SUFFICES ASSUME LogInv, StoredInv, NEW r \in log, Tells(r), ~Late(r)
               PROVE  \E s \in stored : IsAbout(r, s)
      BY DEF OnlyLateRowsLinger, Tells
  <2>1. r.id \in SnapshotIds \cup {NoId} /\ Accounted(r, stored)
      BY DEF LogInv, TypeOK, Row, StoredInv, RowsAccounted
  <2> QED  BY <2>1 DEF Late, Accounted
<1> QED  BY <1>1, <1>2, <1>3, LogInvHolds, PTL DEF Spec
=============================================================================
