------------------------ MODULE MCWorkflowExecutor ------------------------
(* Instances of WorkflowExecutor for TLC.  The steps ask and confirm are    *)
(* decisions, act, send and post are actions; post comes last.              *)
EXTENDS WorkflowRefinement, WorkflowDivergences, TLC

CONSTANTS act, send, post, ask, confirm, c1, c2, c3, c4

\* An action and a decision side by side, then an action that needs both.
MCSteps == {act, post, ask}
MCLevel == [s \in MCSteps |-> IF s = post THEN 2 ELSE 1]

\* The same with a second action and a second decision.
MCFiveSteps == {act, send, post, ask, confirm}
MCFiveLevels == [s \in MCFiveSteps |-> IF s = post THEN 2 ELSE 1]

\* An action and a decision side by side.
MCTwoSteps == {act, ask}
MCTwoLevels == [s \in MCTwoSteps |-> 1]

\* Two decisions side by side, then an action.
MCThreeSteps == {act, ask, confirm}
MCThreeLevels == [s \in MCThreeSteps |-> IF s = act THEN 2 ELSE 1]

\* Three decisions side by side.
MCThreeDecisions == {post, ask, confirm}
MCOneLevel == [s \in MCThreeDecisions |-> 1]

MCNoRetry == [s \in Steps |-> 0]
MCRetryOnce == [s \in Steps |-> IF s = act THEN 1 ELSE 0]

MCNoFallback == [s \in Steps |-> None]
MCFallback == [s \in Steps |-> IF s = act THEN post ELSE None]

CallSymmetry == Permutations(Calls)
============================================================================
