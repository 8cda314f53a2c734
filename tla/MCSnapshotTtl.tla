--------------------------- MODULE MCSnapshotTtl ---------------------------
(***************************************************************************)
(* The instances of MCLifecycle with the history of SnapshotTtl.           *)
(***************************************************************************)
EXTENDS MCLifecycle, SnapshotTtl

\* Production goes from one version of a to the next.
NextVersion == {Ask("prod", {"a1"}), Ask("prod", {"a3"})}
=============================================================================
