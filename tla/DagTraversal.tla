---------------------------- MODULE DagTraversal ----------------------------
(***************************************************************************)
(* What applying a function to the nodes of a graph promises, however the  *)
(* work is spread over threads: a node is applied once, after everything   *)
(* it depends on has been applied successfully, and only what depends on a *)
(* failure is skipped.                                                     *)
(***************************************************************************)
CONSTANT Nodes

VARIABLES
    deps,       \* the graph: node -> the nodes it depends on
    applied,    \* where the function returned
    failed,     \* where it raised
    skipped

vars == <<deps, applied, failed, skipped>>

Handled == applied \cup failed \cup skipped

Init ==
    /\ deps \in [Nodes -> SUBSET Nodes]
    /\ applied = {}
    /\ failed = {}
    /\ skipped = {}

Apply(n) ==
    /\ n \notin Handled
    /\ deps[n] \subseteq applied
    /\ applied' = applied \cup {n}
    /\ UNCHANGED <<deps, failed, skipped>>

Fail(n) ==
    /\ n \notin Handled
    /\ deps[n] \subseteq applied
    /\ failed' = failed \cup {n}
    /\ UNCHANGED <<deps, applied>>

Skip(S) ==
    /\ S \cap (applied \cup failed') = {}
    /\ \A m \in S : deps[m] \cap (failed' \cup skipped \cup S) # {}
    /\ skipped' = skipped \cup S
    /\ UNCHANGED <<deps, applied>>

Next ==
    \/ \E n \in Nodes : Apply(n)
    \/ \E n \in Nodes, S \in SUBSET Nodes : Fail(n) /\ Skip(S)
    \/ \E S \in SUBSET Nodes : Skip(S) /\ UNCHANGED failed

Spec == Init /\ [][Next]_vars
=============================================================================
