--------------------------- MODULE MCCleanupLoop ---------------------------
(***************************************************************************)
(* Six snapshots of one model: two that share both tables, one more that   *)
(* shares the production table with them, one of its own, and two that     *)
(* share a preview table but not the production table.                     *)
(***************************************************************************)
EXTENDS CleanupLoop

MCSnapshotIds == 1..6

MCName == [s \in MCSnapshotIds |-> "a"]

MCVersion == <<"v1", "v1", "v1", "v2", "v3", "v4">>

MCDevVersion == <<"v1", "v1", "d3", "v2", "v4", "v4">>

MCTtl == [s \in MCSnapshotIds |-> 1]

MCRank == [s \in MCSnapshotIds |-> s]
=============================================================================
