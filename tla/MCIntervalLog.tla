---------------------------- MODULE MCIntervalLog ----------------------------
(***************************************************************************)
(* Snapshots of a model that share the production table: the first, and    *)
(* two of a later change that share a preview table of their own as well.  *)
(* What the log says of a point is up to the rows that have the point:     *)
(* there is one.                                                           *)
(***************************************************************************)
EXTENDS IntervalLog

MCSnapshotIds == {"a1", "a2", "a3"}

MCName == [s \in MCSnapshotIds |-> "a"]

MCVersion == [s \in MCSnapshotIds |-> "v1"]

MCDevVersion == [s \in MCSnapshotIds |-> IF s = "a1" THEN "v1" ELSE "v2"]

MCTtl == [s \in MCSnapshotIds |-> 1]

MCRank == [s \in MCSnapshotIds |-> CASE s = "a1" -> 1 [] s = "a2" -> 2 [] OTHER -> 3]

MCPoints == {1}

MCRanges == {{1}}
=============================================================================
