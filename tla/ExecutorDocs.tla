---------------------------- MODULE ExecutorDocs ----------------------------
(***************************************************************************)
(* What the documents, docstrings and schema of the repository say of a    *)
(* run, where an executor that is used again does something else: for each *)
(* a run finds a behaviour violating it.  The programs of Hosts build a    *)
(* new executor for each run, and there the first one holds.               *)
(***************************************************************************)
EXTENDS Executor

Returns(state) == result.status = "returned" /\ result.state = state

\* sop.schema.json:87: max_iterations is the "Maximum number of iterations before
\* following on_limit edge".  The counts outlive the run (executor.py:110): a
\* second run() of the object follows on_limit earlier.  (Where another edge of the
\* step leads to the same place, the path does not tell which one was followed.)
LimitOnlyAfterIterations ==
    \A i \in 1..(Len(path) - 1) :
        LET node == Nodes[path[i]]
            elsewhere == \A edge \in DOMAIN node.edges : node.edges[edge] # node.on_limit
        IN  node.loop # None /\ path[i + 1] = node.on_limit /\ elsewhere =>
                Visits(i) >= node.loop.value

\* executor.py:60: "If the run was denied, the Violation record; else None".  The
\* violation outlives the run (executor.py:109): the next run() of the object
\* ends DENIED at its first step, with the record of the run before.
ViolationBelongsToRun == Returns("DENIED") => DeniedInRun
=============================================================================
