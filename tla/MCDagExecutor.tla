--------------------------- MODULE MCDagExecutor ---------------------------
(***************************************************************************)
(* Every graph of four nodes, numbered in topological order, with one, two *)
(* and three tasks, and with every choice of the nodes that fail.          *)
(***************************************************************************)
EXTENDS DagExecutor

MCNodes == 1..4

\* Up to renaming the nodes, every acyclic graph is one of these.
Numbered == \A n \in Nodes : deps[n] \subseteq 1..(n - 1)

MCInit == Init /\ Numbered

MCSpec == MCInit /\ [][Next]_vars /\ WF_vars(Main) /\ \A n \in Nodes : WF_vars(Worker(n))
=============================================================================
