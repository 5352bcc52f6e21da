------------------------- MODULE WorkflowLifecycle -------------------------
(***************************************************************************)
(* What the engine promises about one workflow, without saying how: a      *)
(* status that follows the workflow state machine of docs/architecture.md, *)
(* and for every step an outcome that is recorded at most once.  Work is   *)
(* done only while the workflow is active, a workflow completes only when  *)
(* every step has an outcome, and what has ended stays as it is.           *)
(***************************************************************************)
EXTENDS Fsm

CONSTANT Steps

VARIABLES status, work

lifecycleVars == <<status, work>>

StepOutcomes == {"completed", "failed", "skipped"}

LifecycleInit ==
  /\ status = "pending"
  /\ work = [s \in Steps |-> "open"]

\* The moves of the workflow state machine.  "completed" needs every outcome.
Move(to) ==
  /\ to \in ValidWorkflowTransitions[status]
  /\ to = "completed" => \A s \in Steps : work[s] # "open"
  /\ status' = to
  /\ UNCHANGED work

\* An active workflow records the outcome of a step.
Settle(s, outcome) ==
  /\ status = "active"
  /\ work[s] = "open"
  /\ work' = [work EXCEPT ![s] = outcome]
  /\ UNCHANGED status

\* A cancellation skips open steps before the workflow itself is cancelled,
\* and a decision that ran out of time fails its step before the workflow.
Abandon(S, outcome) ==
  /\ status \in {"active", "suspended"}
  /\ \A s \in S : work[s] = "open"
  /\ work' = [s \in Steps |-> IF s \in S THEN outcome ELSE work[s]]
  /\ UNCHANGED status

LifecycleNext ==
  \/ \E to \in WorkflowStatuses : Move(to)
  \/ \E s \in Steps, outcome \in StepOutcomes : Settle(s, outcome)
  \/ \E S \in SUBSET Steps, outcome \in {"skipped", "failed"} :
       Abandon(S, outcome)

LifecycleSpec == LifecycleInit /\ [][LifecycleNext]_lifecycleVars
=============================================================================
