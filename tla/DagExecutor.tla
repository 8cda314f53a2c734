----------------------------- MODULE DagExecutor -----------------------------
(***************************************************************************)
(* concurrent_apply_to_dag of utils/concurrency.py: with one task the      *)
(* nodes are visited in topological order, with more of them by the        *)
(* threads of a ConcurrentDAGExecutor.  A thread takes the lock once for   *)
(* each node, after the function has returned or raised; what it does      *)
(* under the lock is one action here.                                      *)
(***************************************************************************)
EXTENDS Integers, FiniteSets

CONSTANTS
    Nodes,
    TasksNums       \* the numbers of concurrent tasks that are tried

ASSUME DagConstants ==
    /\ IsFiniteSet(Nodes)
    /\ TasksNums \subseteq Nat \ {0}

VARIABLES
    deps,               \* the graph: node -> the nodes it depends on
    tasks_num,
    raise_on_error,
    main,               \* where the thread that called run is
    finished,           \* _finished_future
    status,             \* how far each node is
    waiting,            \* _unprocessed_nodes: what each node still waits for
    num                 \* _unprocessed_nodes_num

vars == <<deps, tasks_num, raise_on_error, main, finished, status, waiting, num>>

\* "dropped" is a node that was due when the pool accepted no more work.
Status == {"unprocessed", "submitted", "running", "returned", "raised",
           "done", "error", "skipped", "dropped"}

WithStatus(S) == {n \in Nodes : status[n] \in S}

Unprocessed == WithStatus({"unprocessed"})

\* The nodes that keep a thread of the pool busy.
Busy == WithStatus({"running", "returned", "raised"})

TypeOK ==
    /\ deps \in [Nodes -> SUBSET Nodes]
    /\ tasks_num \in TasksNums
    /\ raise_on_error \in BOOLEAN
    /\ main \in {"start", "wait", "shutdown", "end"}
    /\ finished \in {"pending", "result", "exception"}
    /\ status \in [Nodes -> Status]
    /\ waiting \in [Nodes -> SUBSET Nodes]
    /\ num \in Nat

\* Every set of nodes has one that depends on no other node of the set.
Acyclic(g) == \A S \in SUBSET Nodes \ {{}} : \E n \in S : g[n] \cap S = {}

Init ==
    /\ deps \in [Nodes -> SUBSET Nodes]
    /\ Acyclic(deps)
    /\ tasks_num \in TasksNums
    /\ raise_on_error \in BOOLEAN
    /\ main = "start"
    /\ finished = "pending"
    /\ status = [n \in Nodes |-> "unprocessed"]
    /\ waiting = deps
    /\ num = Cardinality(Nodes)

SetResult == finished' = IF finished = "pending" THEN "result" ELSE finished

SetException == finished' = IF finished = "pending" THEN "exception" ELSE finished

Becomes(n, to) == status' = [status EXCEPT ![n] = to]
-----------------------------------------------------------------------------
(***************************************************************************)
(* The thread that calls run.                                              *)
(***************************************************************************)
Run ==
    /\ main = "start"
    /\ tasks_num > 1
    /\ main' = "wait"
    /\ IF num = 0
       THEN SetResult /\ UNCHANGED status
       ELSE /\ status' = [n \in Nodes |-> IF waiting[n] = {} THEN "submitted" ELSE status[n]]
            /\ UNCHANGED finished
    /\ UNCHANGED <<deps, tasks_num, raise_on_error, waiting, num>>

\* Leaving the with block: the pool takes no more work, ...
Shutdown ==
    /\ main = "wait"
    /\ finished # "pending"
    /\ main' = "shutdown"
    /\ UNCHANGED <<deps, tasks_num, raise_on_error, finished, status, waiting, num>>

\* ... but what it has been given is finished first.
EndRun ==
    /\ main = "shutdown"
    /\ Busy = {} /\ WithStatus({"submitted"}) = {}
    /\ main' = "end"
    /\ UNCHANGED <<deps, tasks_num, raise_on_error, finished, status, waiting, num>>
-----------------------------------------------------------------------------
(***************************************************************************)
(* The threads of the pool: _process_node.                                 *)
(***************************************************************************)
Begin(n) ==
    /\ status[n] = "submitted"
    /\ Cardinality(Busy) < tasks_num
    /\ Becomes(n, "running")
    /\ UNCHANGED <<deps, tasks_num, raise_on_error, main, finished, waiting, num>>

EndFunction(n) ==
    /\ status[n] = "running"
    /\ Becomes(n, "returned") \/ Becomes(n, "raised")
    /\ UNCHANGED <<deps, tasks_num, raise_on_error, main, finished, waiting, num>>

\* A mutant of Ready: one dependency is enough.
ReadyEarly(n) == {m \in Unprocessed : n \in waiting[m]}

Ready(n) == {m \in Unprocessed : waiting[m] \subseteq {n}}

\* _submit_next_nodes after n; a pool that has been shut down takes none of them,
\* and the exception ends in an exception for a future that has one already.
SubmitNextNodes(n) ==
    IF main = "shutdown"
    THEN IF Ready(n) = {} THEN Becomes(n, "done")
         ELSE \E first \in Ready(n) :
            status' = [status EXCEPT ![n] = "done", ![first] = "dropped"]
    ELSE status' = [m \in Nodes |->
            IF m = n THEN "done" ELSE IF m \in Ready(n) THEN "submitted" ELSE status[m]]

ProcessReturned(n) ==
    /\ status[n] = "returned"
    /\ num' = num - 1
    /\ IF num' = 0
       THEN SetResult /\ Becomes(n, "done") /\ UNCHANGED waiting
       ELSE /\ SubmitNextNodes(n)
            /\ waiting' = [m \in Nodes |-> IF m \in Unprocessed THEN waiting[m] \ {n} ELSE waiting[m]]
            /\ UNCHANGED finished
    /\ UNCHANGED <<deps, tasks_num, raise_on_error, main>>

\* A mutant of Skipped: everything that is left.
SkippedRest(n) == Unprocessed

\* What waits for n, for what waits for n, and so on.
Skipped(n) ==
    {m \in Unprocessed : \A S \in SUBSET Unprocessed :
        (\A k \in Unprocessed : waiting[k] \cap (S \cup {n}) # {} => k \in S) => m \in S}

\* A mutant of CountAfterFailure: skipped nodes are not taken off the count.
CountWithSkipped(n) == num - 1

CountAfterFailure(n) == num - 1 - Cardinality(Skipped(n))

ProcessRaised(n) ==
    /\ status[n] = "raised"
    /\ IF raise_on_error
       THEN /\ SetException
            /\ Becomes(n, "error")
            /\ UNCHANGED num
       ELSE /\ num' = CountAfterFailure(n)
            /\ status' = [m \in Nodes |->
                IF m = n THEN "error" ELSE IF m \in Skipped(n) THEN "skipped" ELSE status[m]]
            /\ IF num' = 0 THEN SetResult ELSE UNCHANGED finished
    /\ UNCHANGED <<deps, tasks_num, raise_on_error, main, waiting>>
-----------------------------------------------------------------------------
(***************************************************************************)
(* sequential_apply_to_dag, the way of a single task.                      *)
(***************************************************************************)
Visit(n) ==
    /\ main = "start"
    /\ tasks_num = 1
    /\ status[n] = "unprocessed"
    /\ deps[n] \cap Unprocessed = {}
    /\ IF deps[n] \cap WithStatus({"error", "skipped"}) # {}
       THEN Becomes(n, "skipped") /\ UNCHANGED <<main, finished>>
       ELSE \/ Becomes(n, "done") /\ UNCHANGED <<main, finished>>
            \/ /\ Becomes(n, "error")
               /\ IF raise_on_error
                  THEN SetException /\ main' = "end"
                  ELSE UNCHANGED <<main, finished>>
    /\ UNCHANGED <<deps, tasks_num, raise_on_error, waiting, num>>

EndVisits ==
    /\ main = "start"
    /\ tasks_num = 1
    /\ Unprocessed = {}
    /\ SetResult
    /\ main' = "end"
    /\ UNCHANGED <<deps, tasks_num, raise_on_error, status, waiting, num>>
-----------------------------------------------------------------------------
Main == Run \/ Shutdown \/ EndRun \/ (\E n \in Nodes : Visit(n)) \/ EndVisits

Worker(n) == Begin(n) \/ EndFunction(n) \/ ProcessReturned(n) \/ ProcessRaised(n)

Next == Main \/ \E n \in Nodes : Worker(n)

Spec == Init /\ [][Next]_vars

\* Threads are scheduled, and the function that is applied returns or raises.
FairSpec == Spec /\ WF_vars(Main) /\ \A n \in Nodes : WF_vars(Worker(n))
-----------------------------------------------------------------------------
\* Whoever runs the nodes, they are applied once, in topological order, and only
\* what depends on a failure is skipped.
Traversal == INSTANCE DagTraversal WITH
    applied <- WithStatus({"done"}),
    failed <- WithStatus({"error"}),
    skipped <- WithStatus({"skipped"})

TraversalSpec == Traversal!Spec

\* A run ends in an exception exactly if that was asked for and a node failed: no
\* failure is lost among the threads that are still working.
ErrorsAreRaised ==
    main = "end" => (finished = "exception" <=> raise_on_error /\ WithStatus({"error"}) # {})

\* A run ends as visiting the nodes in order does: in an exception if there is one to be
\* raised; otherwise every node has its outcome, and it is skipped exactly if something it
\* depends on has failed or was skipped.
AsInSequence ==
    /\ ErrorsAreRaised
    /\ finished = "result" =>
        \A n \in Nodes :
            /\ status[n] \in {"done", "error", "skipped"}
            /\ status[n] = "skipped" <=>
                \E d \in deps[n] : status[d] \in {"error", "skipped"}

\* A run ends, whatever fails: the count of the nodes that are left reaches zero
\* exactly when there is nothing left to wait for.
RunEnds == <>(main = "end")
=============================================================================
