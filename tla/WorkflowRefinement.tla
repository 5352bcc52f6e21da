------------------------- MODULE WorkflowRefinement -------------------------
(***************************************************************************)
(* The executor implements WorkflowLifecycle: the status is the one in the *)
(* workflow row, the outcome of a step is what a replay of the log says.   *)
(***************************************************************************)
EXTENDS WorkflowExecutor

Lifecycle ==
  INSTANCE WorkflowLifecycle
    WITH status <- store.wf,
         work   <- [s \in Steps |-> IF IsTerminalStep(store.log[s])
                                    THEN store.log[s] ELSE "open"]

\* Calls that come one at a time, crashes, recovery, replay, timeouts and
\* answers from the panel never leave the lifecycle the engine promises: in
\* particular no outcome in the log is ever taken back by a re-execution, and
\* a row says "completed" only when each step has one (executor.go:597-744).
ImplementsLifecycle == Lifecycle!LifecycleSpec
=============================================================================
