---------------------------- MODULE MCLifecycle ----------------------------
(***************************************************************************)
(* Small instances of Lifecycle.  Model a has three snapshots: a1, its     *)
(* forward-only successor a2, which keeps the production table of a1 and   *)
(* has a preview table of its own, and a3, a breaking change with both     *)
(* tables of its own.  Model b has one snapshot, so that a plan can remove *)
(* it.                                                                     *)
(***************************************************************************)
EXTENDS LifecycleProperties, TLC

CONSTANTS p1, p2, p3

MCSnapshotIds == {"a1", "a2", "a3", "b1"}

MCName == [s \in MCSnapshotIds |-> IF s = "b1" THEN "b" ELSE "a"]

MCVersion == [s \in MCSnapshotIds |-> IF s = "a3" THEN "v3" ELSE "v1"]

MCDevVersion ==
    [s \in MCSnapshotIds |-> CASE s = "a2" -> "v2" [] s = "a3" -> "v3" [] OTHER -> "v1"]

MCTtl == [s \in MCSnapshotIds |-> 1]

MCRank == [s \in MCSnapshotIds |->
    CASE s = "a1" -> 1 [] s = "a2" -> 2 [] s = "a3" -> 3 [] OTHER -> 4]

MCForwardOnly == {"a2"}

Ask(name, S) == [env |-> name, snapshots |-> S, promoted |-> S]

\* Plans of one environment that replace, remove and restore snapshots.
ProdRequests == {Ask("prod", {"a1", "b1"}), Ask("prod", {"a2"}), Ask("prod", {"a3"})}

\* Versions of a deployed to prod, and its forward-only change tried in dev.
DevRequests ==
    {Ask("prod", {"a1"}), Ask("prod", {"a3"}), Ask("dev", {"a2"})}

PlanSymmetry == Permutations(PlanIds)
=============================================================================
