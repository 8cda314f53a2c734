---------------------------- MODULE MCRestatement ----------------------------
(***************************************************************************)
(* Prod has a <- b.  In development a is changed in a way that breaks      *)
(* nothing downstream (a2); b over it is either changed as well (b3), or   *)
(* is what it was, and keeps the table of the b it is compared with (b4).  *)
(* b is also changed alone (b2).  c is a new model downstream of b2 or b3. *)
(* d has nothing to do with a.                                             *)
(***************************************************************************)
EXTENDS Restatement

MCSnapshotIds == {"a", "a2", "b", "b2", "b3", "b4", "c2", "c3", "d"}

MCName == [s \in MCSnapshotIds |->
    CASE s \in {"a", "a2"} -> "a"
      [] s \in {"b", "b2", "b3", "b4"} -> "b"
      [] s \in {"c2", "c3"} -> "c"
      [] OTHER -> "d"]

MCVersion == [s \in MCSnapshotIds |-> IF s = "b4" THEN "b" ELSE s]

MCParents == [s \in MCSnapshotIds |->
    CASE s \in {"a", "a2", "d"} -> {}
      [] s \in {"b", "b2"} -> {"a"}
      [] s \in {"b3", "b4"} -> {"a2"}
      [] s = "c2" -> {"b2", "d"}
      [] OTHER -> {"b3", "d"}]

ASSUME TablesAgree

Ask(env, S) == [env |-> env, snapshots |-> S]

\* Versions are tried, abandoned, deployed and rolled back.
MCRequests ==
    {Ask("dev", {"a", "b2", "c2", "d"}), Ask("dev", {"a2", "b3"}), Ask("dev", {"a2", "b4"}),
     Ask("dev", {"a", "b"}), Ask("prod", {"a", "b2"}), Ask("prod", {"a2", "b3", "c3", "d"}),
     Ask("prod", {"a2", "b4"})}

\* b2 is tried in dev and taken back there, and goes to prod later.
TriedAndTakenBack == {Ask("dev", {"a", "b2"}), Ask("dev", {"a", "b"}), Ask("prod", {"a", "b2"})}

\* b2 is tried in dev and followed there by another version, and goes to prod later.
TriedAndFollowed == {Ask("dev", {"a", "b2"}), Ask("dev", {"a2", "b3"}), Ask("prod", {"a", "b2"})}
=============================================================================
