---------------------------- MODULE IntervalStore ----------------------------
(***************************************************************************)
(* What the state store promises about intervals, with the log left out:   *)
(* for every production table, and for every preview table, it knows what  *)
(* has been loaded.  Loading adds to that, clearing takes away, collecting *)
(* snapshots forgets what nobody needs any more, and nothing else changes  *)
(* it.  Loading and clearing do not ask whether the snapshot they are done *)
(* for is still stored.  IntervalLog implements it.                        *)
(***************************************************************************)
CONSTANTS SnapshotIds, Points, ProdTable(_), DevTable(_)

VARIABLES
    stored,     \* the snapshots the store has a record of
    loaded,     \* the points in time each production table is filled for
    previewed   \* the same for each preview table, by production table

vars == <<stored, loaded, previewed>>

Pair(s) == <<ProdTable(s), DevTable(s)>>

ProdTables == {ProdTable(s) : s \in SnapshotIds}

Pairs == {Pair(s) : s \in SnapshotIds}

Init ==
    /\ stored = {}
    /\ loaded = [t \in ProdTables |-> {}]
    /\ previewed = [p \in Pairs |-> {}]

Store(s) ==
    /\ stored' = stored \cup {s}
    /\ UNCHANGED <<loaded, previewed>>

Load(s, P) ==
    /\ loaded' = [loaded EXCEPT ![ProdTable(s)] = @ \cup P]
    /\ UNCHANGED <<stored, previewed>>

LoadPreview(s, P) ==
    /\ previewed' = [previewed EXCEPT ![Pair(s)] = @ \cup P]
    /\ UNCHANGED <<stored, loaded>>

\* Clearing is for all the snapshots that share the production table.
Unload(s, P) ==
    /\ loaded' = [loaded EXCEPT ![ProdTable(s)] = @ \ P]
    /\ UNCHANGED <<stored, previewed>>

\* What a table has been filled for is forgotten only when no snapshot that
\* stays has the table.
Release(E) ==
    /\ stored' = stored \ E
    /\ loaded' \in [ProdTables -> SUBSET Points]
    /\ previewed' \in [Pairs -> SUBSET Points]
    /\ \A s \in stored \ E :
        /\ loaded'[ProdTable(s)] = loaded[ProdTable(s)]
        /\ previewed'[Pair(s)] = previewed[Pair(s)]
    /\ \A t \in ProdTables : loaded'[t] \in {{}, loaded[t]}
    /\ \A p \in Pairs : previewed'[p] \in {{}, previewed[p]}

Next ==
    \/ \E s \in SnapshotIds :
        \/ Store(s)
        \/ \E P \in SUBSET Points : Load(s, P) \/ LoadPreview(s, P) \/ Unload(s, P)
    \/ \E E \in SUBSET SnapshotIds : Release(E)

Spec == Init /\ [][Next]_vars
=============================================================================
