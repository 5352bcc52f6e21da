------------------------ MODULE WorkflowDivergences ------------------------
(***************************************************************************)
(* What the documentation says of a workflow and the executor does not     *)
(* keep, beside what the runs of PROJECT.json show.  TLC refutes each of   *)
(* these under the constants README.md names; they are stated here so that *)
(* a repair of the code, and of WorkflowExecutor, can be checked.          *)
(***************************************************************************)
EXTENDS WorkflowExecutor

\* An expired decision without a fallback fails its step (executor.go:1120):
\* the empty choice is never taken for an answer.
ExpiryFailsStep ==
  \A s \in Reasoning : store.decisions[s] = "expired"
                          => store.log[s] # "completed"

\* The outcome the log gives a step is final (the FSM tables, fsm.go:293-302).
OutcomeIsFinal ==
  [][\A s \in Steps : IsTerminalStep(store.log[s])
                         => store'.log[s] = store.log[s]]_vars

\* A run whose deadline cancelled it leaves a cancelled workflow behind.
TimeoutCancels ==
  \A c \in Calls : call[c].outcome = "cancelled" => store.wf = "cancelled"

\* Resume never finds the deadline of a suspended workflow in the past.
SuspensionOutlivesDeadline ==
  \A c \in Calls : call[c].outcome # "expired"

\* An accepted decision signal resolves the decision it was sent for.
AcceptedDecisionResolves ==
  \A c \in Calls :
    call[c].pc = "done" /\ call[c].kind = "decision"
      /\ call[c].outcome \in {"completed", "suspended", "failed"}
      => store.decisions[call[c].target] # "pending"

\* A step that runs finds the output of every completed action below it.
OutputsRebuilt ==
  \A c \in Calls, g \in Steps :
    ~TaskAt(c, g, "idle")
      => \A s \in Steps \ (Reasoning \cup IgnoreErrors) :
           Level[s] < Level[g] /\ call[c].mem[s] = "completed"
             => s \in call[c].outputs

\* An error that is ignored settles its step before the workflow completes.
IgnoredStepSettles ==
  store.wf = "completed"
    => \A s \in IgnoreErrors : IsTerminalStep(store.log[s])
============================================================================
