------------------------------- MODULE Fsm -------------------------------
(***************************************************************************)
(* The two state machines of internal/engine/fsm.go: the statuses of a     *)
(* workflow and of a step, and the tables of allowed transitions.  The     *)
(* FSM objects hold no state of their own: Transition checks the pair      *)
(* (from, to) the CALLER passes and appends one event.  What a transition  *)
(* does to the log is therefore part of the action that calls it (module   *)
(* WorkflowExecutor).                                                      *)
(***************************************************************************)

WorkflowStatuses ==
  {"pending", "active", "suspended", "completed", "failed", "cancelled"}

StepStatuses ==
  {"pending", "scheduled", "running", "completed", "failed", "skipped",
   "suspended", "retrying"}

ValidWorkflowTransitions ==
  [pending   |-> {"active", "cancelled"},
   active    |-> {"suspended", "completed", "failed", "cancelled"},
   suspended |-> {"active", "cancelled", "failed"},
   completed |-> {},
   failed    |-> {},
   cancelled |-> {}]

ValidStepTransitions ==
  [pending   |-> {"scheduled", "skipped"},
   scheduled |-> {"running", "skipped", "suspended"},
   running   |-> {"completed", "failed", "suspended", "retrying", "skipped"},
   retrying  |-> {"running", "failed"},
   suspended |-> {"running", "failed", "skipped"},
   completed |-> {},
   failed    |-> {},
   skipped   |-> {}]

TerminalWorkflow == {"completed", "failed", "cancelled"}

IsTerminalStep(status) == status \in {"completed", "failed", "skipped"}

CanSkip(status) == "skipped" \in ValidStepTransitions[status]
===========================================================================
