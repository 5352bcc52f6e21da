-------------------------- MODULE WorkflowExecutor --------------------------
(***************************************************************************)
(* The life of one workflow in internal/engine/executor.go: every call the *)
(* servers make about it (Run, Signal + Resume, Cancel, the panel's        *)
(* resolve button), the goroutines executeDAG starts for its steps, the    *)
(* rows the store keeps, the event log and crashes of the process.         *)
(*                                                                         *)
(* An atomic step is one operation on the store (a single SQLite           *)
(* connection serialises them), or one section under a mutex, together     *)
(* with the local computation next to it.  Everything between two such     *)
(* operations interleaves.  The event log is represented by what           *)
(* ReplayEvents folds it into: a status and a retry count per step.        *)
(***************************************************************************)
EXTENDS Fsm, Naturals, FiniteSets

CONSTANTS
  Steps,           \* the steps of the workflow's DAG
  Level,           \* the level ParseDAG gives each step
  Depth,           \* the number of levels
  Reasoning,       \* steps of type "reasoning"; the others are actions
  RetryMax,        \* retry.max of each step, 0 when it has no policy
  IgnoreErrors,    \* steps whose on_error strategy is "ignore"
  Fallback,        \* the fallback_step of a step, or None
  TimedSteps,      \* steps with a timeout
  MayFail,         \* steps whose action can return an error of its own
  MayPanic,        \* steps whose action can panic
  TimedDecisions,  \* reasoning steps whose decision has a timeout
  FallbackChoice,  \* those of them that have a fallback option
  OnTimeout,       \* the workflow's on_timeout, "none" without a timeout
  Calls,           \* identities of the calls the servers make
  Kinds,           \* what the calls after Run may be
  MaxInFlight,     \* how many calls may be in progress at once
  MaxCrashes,      \* how often the process may crash
  Disconnect,      \* may a caller's request context be cancelled
  SignalCap,       \* capacity of run.signals (16 in the code)
  None

CallKinds == {"decision", "cancel_decision", "panel", "cancel"}

ASSUME ConstantsAssumption ==
  /\ Depth \in Nat /\ Level \in [Steps -> 1..Depth]
  /\ Reasoning \subseteq Steps /\ IgnoreErrors \subseteq Steps
  /\ TimedSteps \subseteq Steps /\ MayFail \subseteq Steps
  /\ MayPanic \subseteq Steps /\ TimedDecisions \subseteq Reasoning
  /\ FallbackChoice \subseteq TimedDecisions
  /\ RetryMax \in [Steps -> Nat]
  /\ Fallback \in [Steps -> Steps \cup {None}]
  /\ OnTimeout \in {"none", "fail", "suspend", "cancel"}
  /\ Kinds \subseteq CallKinds
  /\ MaxInFlight \in Nat /\ MaxCrashes \in Nat /\ SignalCap \in Nat
  /\ Disconnect \in BOOLEAN
  /\ None \notin Steps \cup Calls \cup StepStatuses

VARIABLES
  store,    \* the database: workflow row, step_state, log, decisions
  call,     \* the calls in progress and their workflowRun
  task,     \* the step goroutines of each call's executeDAG
  running,  \* e.running[workflowID]: the registered call, or None
  clock,    \* which deadlines have passed
  crashes   \* how often the process has crashed

vars == <<store, call, task, running, clock, crashes>>

\* "expired" is a row with status resolved and the empty choice that
\* resolveExpiredDecisions writes when there is no fallback option.
Decisions == {"none", "pending", "resolved", "expired", "cancelled"}

\* The states in which a call is inside the levels of executeDAG.
InDag == {"level", "submit"}

IdleTask(g) == [pc |-> "idle", step |-> g, dead |-> FALSE]

IdleCall ==
  [pc |-> "idle", kind |-> "none", target |-> None, ctx |-> "live",
   from |-> "pending", mem |-> [s \in Steps |-> None],
   retries |-> [s \in Steps |-> 0], outputs |-> {}, level |-> 1,
   todo |-> {}, errs |-> {}, verdict |-> "none", outcome |-> "none",
   inbox |-> 0]

\* The workflow as CreateWorkflow leaves it; no step rows, no events yet.
Init ==
  /\ store = [wf        |-> "pending",
              steps     |-> [s \in Steps |-> None],
              log       |-> [s \in Steps |-> "pending"],
              retries   |-> [s \in Steps |-> 0],
              decisions |-> [s \in Steps |-> "none"],
              endings   |-> {}]
  /\ call = [c \in Calls |-> IdleCall]
  /\ task = [c \in Calls |-> [g \in Steps |-> IdleTask(g)]]
  /\ running = None
  /\ clock = [deadline |-> FALSE, overdue |-> {}]
  /\ crashes = 0

-----------------------------------------------------------------------------
(* Helpers. *)

InFlight == {c \in Calls : call[c].pc \notin {"idle", "done"}}

Arrive(c) == call[c].pc = "idle" /\ Cardinality(InFlight) < MaxInFlight

LevelSteps(c) == {s \in Steps : Level[s] = call[c].level}

\* stepCtx.Err() # nil, and stepCtx.Err() = context.DeadlineExceeded.
Dead(c, g) == call[c].ctx # "live" \/ task[c][g].dead
PastDeadline(c, g) == call[c].ctx = "deadline" \/ task[c][g].dead

\* The log after the FSM cascade of CancelWorkflow over the statuses m.
SkipLog(m) ==
  [s \in Steps |-> IF m[s] # None /\ CanSkip(m[s]) THEN "skipped"
                   ELSE store.log[s]]

CancelContext(c) == IF call[c].ctx = "live" THEN "cancelled" ELSE call[c].ctx

At(c, label) == call[c].pc = label
TaskAt(c, g, label) == task[c][g].pc = label
TaskGoto(c, g, label) == task' = [task EXCEPT ![c][g].pc = label]

\* The call as its caller sees it once it has returned; its locals are gone.
Returned(c, result) ==
  [IdleCall EXCEPT !.pc = "done", !.kind = call[c].kind,
                   !.target = call[c].target, !.outcome = result]

Return(c, result) == call' = [call EXCEPT ![c] = Returned(c, result)]

-----------------------------------------------------------------------------
(* Run: handleRun created the workflow, so one call runs it. *)

\* pending -> active in the FSM; the event it appends is not replayed.
Run(c) ==
  /\ Arrive(c)
  /\ store.wf = "pending"
  /\ \A d \in Calls : call[d].kind # "run"
  /\ call' = [call EXCEPT ![c].pc = "run_update", ![c].kind = "run",
                          ![c].mem = [s \in Steps |-> "pending"]]
  /\ UNCHANGED <<store, task, running, clock, crashes>>

RunUpdate(c) ==
  /\ At(c, "run_update")
  /\ store' = [store EXCEPT !.wf = "active"]
  /\ call' = [call EXCEPT ![c].pc = "run_init"]
  /\ UNCHANGED <<task, running, clock, crashes>>

RunInitSteps(c) ==
  /\ At(c, "run_init")
  /\ store' = [store EXCEPT !.steps = [s \in Steps |-> "pending"]]
  /\ call' = [call EXCEPT ![c].pc = "run_register"]
  /\ UNCHANGED <<task, running, clock, crashes>>

\* The context gets the workflow's deadline and the run becomes visible.
RunRegister(c) ==
  /\ At(c, "run_register")
  /\ running' = c
  /\ call' = [call EXCEPT ![c].pc = "level",
                          ![c].ctx = IF clock.deadline THEN "deadline" ELSE "live"]
  /\ UNCHANGED <<store, task, clock, crashes>>

-----------------------------------------------------------------------------
(* executeDAG. *)

\* The top of the loop over the levels: what is terminal is not run again.
BeginLevel(c) ==
  /\ At(c, "level")
  /\ call[c].ctx = "live" /\ call[c].level <= Depth
  /\ call' = [call EXCEPT ![c].pc = "submit", ![c].errs = {},
                ![c].todo = {s \in LevelSteps(c) :
                               ~IsTerminalStep(call[c].mem[s])}]
  /\ UNCHANGED <<store, task, running, clock, crashes>>

\* Faulty: a run whose levels are done forgets to say how it ended.
EndLevelsUndecided(c) ==
  /\ At(c, "level") /\ (call[c].ctx # "live" \/ call[c].level > Depth)
  /\ call' = [call EXCEPT ![c].pc = IF call[c].ctx = "live" THEN "finish_event"
                                    ELSE "ctx_error"]
  /\ UNCHANGED <<store, task, running, clock, crashes>>

\* The loop ends after the last level, or because the context is done.
EndLevels(c) ==
  /\ At(c, "level")
  /\ \/ /\ call[c].ctx # "live"
        /\ call' = [call EXCEPT ![c].pc = "ctx_error"]
     \/ /\ call[c].ctx = "live" /\ call[c].level > Depth
        /\ call' = [call EXCEPT ![c].pc = "finish_event",
                                ![c].verdict = "completed"]
  /\ UNCHANGED <<store, task, running, clock, crashes>>

\* pool.Submit got a slot and started the goroutine of step s.
Submit(c, s) ==
  /\ At(c, "submit") /\ s \in call[c].todo
  /\ call' = [call EXCEPT ![c].todo = @ \ {s}]
  /\ task' = [task EXCEPT ![c][s] = [IdleTask(s) EXCEPT !.pc = "start"]]
  /\ UNCHANGED <<store, running, clock, crashes>>

\* pool.Submit gave up because the context is done.
RejectSubmit(c, s) ==
  /\ At(c, "submit") /\ s \in call[c].todo
  /\ call[c].ctx # "live"
  /\ call' = [call EXCEPT ![c].todo = @ \ {s}, ![c].errs = @ \cup {s}]
  /\ UNCHANGED <<store, task, running, clock, crashes>>

\* Faulty: the errors of a level's steps are dropped.
LevelDoneDespiteErrors(c) ==
  /\ At(c, "submit") /\ call[c].todo = {} /\ \A g \in Steps : TaskAt(c, g, "idle")
  /\ call' = IF call[c].ctx # "live"
             THEN [call EXCEPT ![c].pc = "ctx_error"]
             ELSE IF \E s \in LevelSteps(c) : call[c].mem[s] = "suspended"
             THEN [call EXCEPT ![c].pc = "suspend"]
             ELSE [call EXCEPT ![c].pc = "level", ![c].level = @ + 1]
  /\ UNCHANGED <<store, task, running, clock, crashes>>

\* Faulty: the next level does not wait for suspended steps.
LevelDoneDespiteSuspension(c) ==
  /\ At(c, "submit") /\ call[c].todo = {} /\ \A g \in Steps : TaskAt(c, g, "idle")
  /\ call' = IF call[c].ctx # "live"
             THEN [call EXCEPT ![c].pc = "ctx_error"]
             ELSE [call EXCEPT ![c].pc = "level", ![c].level = @ + 1]
  /\ UNCHANGED <<store, task, running, clock, crashes>>

\* wg.Wait returned: look at the errors, then at the suspended steps.
LevelDone(c) ==
  /\ At(c, "submit") /\ call[c].todo = {}
  /\ \A g \in Steps : TaskAt(c, g, "idle")
  /\ LET failed    == {g \in call[c].errs : call[c].mem[g] # "suspended"}
         suspended == {s \in LevelSteps(c) : call[c].mem[s] = "suspended"}
     IN  \/ /\ call[c].ctx # "live"
            /\ call' = [call EXCEPT ![c].pc = "ctx_error"]
         \/ /\ call[c].ctx = "live" /\ failed # {}
            /\ call' = [call EXCEPT ![c].pc = "finish_event",
                                    ![c].verdict = "failed"]
         \/ /\ call[c].ctx = "live" /\ failed = {} /\ suspended # {}
            /\ call' = [call EXCEPT ![c].pc = "suspend"]
         \/ /\ call[c].ctx = "live" /\ failed = {} /\ suspended = {}
            /\ call' = [call EXCEPT ![c].pc = "level", ![c].level = @ + 1]
  /\ UNCHANGED <<store, task, running, clock, crashes>>

SuspendWorkflow(c) ==
  /\ At(c, "suspend")
  /\ store' = [store EXCEPT !.wf = "suspended"]
  /\ call' = [call EXCEPT ![c].pc = "unregister", ![c].verdict = "suspended"]
  /\ UNCHANGED <<task, running, clock, crashes>>

\* handleTimeout for a deadline, "workflow cancelled" for a cancellation.
\* Only "suspend" writes the workflow row here, and "cancel" never does.
ContextError(c) ==
  /\ At(c, "ctx_error")
  /\ \/ /\ call[c].ctx = "deadline" /\ OnTimeout = "suspend"
        /\ store' = [store EXCEPT !.wf = "suspended"]
        /\ call' = [call EXCEPT ![c].pc = "unregister",
                                ![c].verdict = "suspended"]
     \/ /\ call[c].ctx = "deadline" /\ OnTimeout = "cancel"
        /\ store' = [store EXCEPT !.log = SkipLog(call[c].mem),
                                  !.endings = @ \cup {"cancelled"}]
        /\ call' = [call EXCEPT ![c].pc = "unregister",
                                ![c].verdict = "cancelled"]
     \/ /\ ~(call[c].ctx = "deadline" /\ OnTimeout \in {"suspend", "cancel"})
        /\ call' = [call EXCEPT ![c].pc = "finish_event",
                                ![c].verdict = "failed"]
        /\ UNCHANGED store
  /\ UNCHANGED <<task, running, clock, crashes>>

\* transitionWorkflow: the FSM is told the workflow is active, whatever the
\* row says, so the event is always appended ...
FinishEvent(c) ==
  /\ At(c, "finish_event")
  /\ store' = [store EXCEPT !.endings = @ \cup {call[c].verdict}]
  /\ call' = [call EXCEPT ![c].pc = "finish_update"]
  /\ UNCHANGED <<task, running, clock, crashes>>

\* ... and the row is overwritten, here and again by persistWorkflowEnd.
FinishUpdate(c) ==
  /\ At(c, "finish_update") \/ At(c, "finish_persist")
  /\ store' = [store EXCEPT !.wf = call[c].verdict]
  /\ call' = [call EXCEPT ![c].pc = IF At(c, "finish_update")
                                    THEN "finish_persist" ELSE "unregister"]
  /\ UNCHANGED <<task, running, clock, crashes>>

\* delete(e.running, id), whichever run is registered under the id.
Unregister(c) ==
  /\ At(c, "unregister")
  /\ running' = None
  /\ Return(c, call[c].verdict)
  /\ UNCHANGED <<store, task, clock, crashes>>

-----------------------------------------------------------------------------
(* Signal (called by handleSignal) and the panel's resolve button. *)

\* Signal looks at e.running.  A registered run takes the signal into its
\* channel, whatever its kind: no one but a wait step reads the channel.
\* Without a run the pending decision of the step is looked up; a signal of
\* another agent or with an unknown choice is refused as well.
Signal(c, k, s) ==
  /\ Arrive(c) /\ k \in Kinds \cap {"decision", "cancel_decision"}
  /\ s \in Reasoning
  /\ LET sent == [IdleCall EXCEPT !.kind = k, !.target = s]
         refused == [sent EXCEPT !.pc = "done", !.outcome = "rejected"]
         accepted == [sent EXCEPT !.pc = IF k = "decision" THEN "resume_load"
                                         ELSE "done",
                                  !.outcome = "ok"]
     IN  \/ /\ running # None /\ call[running].inbox < SignalCap
            /\ call' = [call EXCEPT ![running].inbox = @ + 1,
                                    ![c] = accepted]
         \/ /\ running # None /\ call[running].inbox >= SignalCap
            /\ call' = [call EXCEPT ![c] = refused]
         \/ /\ running = None /\ store.decisions[s] = "pending"
            /\ call' = [call EXCEPT ![c] = [sent EXCEPT !.pc = "signal_apply"]]
         \/ /\ running = None
            /\ call' = [call EXCEPT ![c] = refused]
  /\ UNCHANGED <<store, task, running, clock, crashes>>

\* Faulty: the update of the decision is not guarded by its status.
SignalApplyAgain(c) ==
  /\ At(c, "signal_apply")
  /\ store' = [store EXCEPT !.decisions[call[c].target] =
                 IF call[c].kind = "decision" THEN "resolved" ELSE "cancelled"]
  /\ IF call[c].kind = "decision"
     THEN call' = [call EXCEPT ![c].pc = "resume_load", ![c].outcome = "ok"]
     ELSE Return(c, "ok")
  /\ UNCHANGED <<task, running, clock, crashes>>

\* ResolveDecision and CancelDecision update the row only while it is pending.
SignalApply(c) ==
  /\ At(c, "signal_apply")
  /\ LET s == call[c].target
     IN  \/ /\ store.decisions[s] # "pending"
            /\ Return(c, "rejected")
            /\ UNCHANGED store
         \/ /\ store.decisions[s] = "pending" /\ call[c].kind = "decision"
            /\ store' = [store EXCEPT !.decisions[s] = "resolved"]
            /\ call' = [call EXCEPT ![c].pc = "resume_load",
                                    ![c].outcome = "ok"]
         \/ /\ store.decisions[s] = "pending"
            /\ call[c].kind = "cancel_decision"
            /\ store' = [store EXCEPT !.decisions[s] = "cancelled"]
            /\ Return(c, "ok")
  /\ UNCHANGED <<task, running, clock, crashes>>

\* handleResolveDecision of the panel writes the row and resumes nothing.
PanelResolve(c, s) ==
  /\ Arrive(c) /\ "panel" \in Kinds /\ s \in Reasoning
  /\ store.decisions[s] = "pending"
  /\ store' = [store EXCEPT !.decisions[s] = "resolved"]
  /\ call' = [call EXCEPT ![c].pc = "done", ![c].kind = "panel",
                          ![c].target = s, ![c].outcome = "ok"]
  /\ UNCHANGED <<task, running, clock, crashes>>

-----------------------------------------------------------------------------
(* Resume. *)

\* Faulty: a workflow that has ended is resumed.
ResumeLoadAnything(c) ==
  /\ At(c, "resume_load")
  /\ call' = [call EXCEPT ![c].pc = "resume_replay", ![c].from = store.wf]
  /\ UNCHANGED <<store, task, running, clock, crashes>>

ResumeLoad(c) ==
  /\ At(c, "resume_load")
  /\ IF store.wf \in {"suspended", "active"}
     THEN call' = [call EXCEPT ![c].pc = "resume_replay",
                               ![c].from = store.wf]
     ELSE Return(c, "rejected")
  /\ UNCHANGED <<store, task, running, clock, crashes>>

\* Faulty: Resume starts from fresh statuses instead of the replayed ones.
ResumeFromScratch(c) ==
  /\ At(c, "resume_replay")
  /\ call' = [call EXCEPT ![c].pc = "resume_list",
                          ![c].mem = [s \in Steps |-> "pending"]]
  /\ UNCHANGED <<store, task, running, clock, crashes>>

\* ReplayEvents rebuilds statuses and retry counts.  The completed events the
\* FSM appended carry no payload, so no output comes back.
ResumeReplay(c) ==
  /\ At(c, "resume_replay")
  /\ call' = [call EXCEPT ![c].pc = "resume_list", ![c].mem = store.log,
                          ![c].retries = store.retries, ![c].outputs = {}]
  /\ UNCHANGED <<store, task, running, clock, crashes>>

\* resolveExpiredDecisions lists the pending decisions once ...
ResumeList(c) ==
  /\ At(c, "resume_list")
  /\ call' = [call EXCEPT ![c].pc = "resume_expire",
                ![c].todo = {s \in clock.overdue :
                               store.decisions[s] = "pending"}]
  /\ UNCHANGED <<store, task, running, clock, crashes>>

\* ... and resolves each overdue one, with its fallback option or, without
\* one, with an empty choice that fails the step and the workflow.
ResumeExpire(c, s) ==
  /\ At(c, "resume_expire") /\ s \in call[c].todo
  /\ store' = [store EXCEPT !.decisions[s] =
                 IF @ # "pending" THEN @
                 ELSE IF s \in FallbackChoice THEN "resolved" ELSE "expired"]
  /\ call' = IF s \in FallbackChoice
             THEN [call EXCEPT ![c].todo = @ \ {s}]
             ELSE [call EXCEPT ![c].todo = {}, ![c].target = s,
                               ![c].pc = "expire_event"]
  /\ UNCHANGED <<task, running, clock, crashes>>

ResumeExpireEvent(c) ==
  /\ At(c, "expire_event")
  /\ store' = [store EXCEPT !.log[call[c].target] = "failed"]
  /\ call' = [call EXCEPT ![c].pc = "expire_fail"]
  /\ UNCHANGED <<task, running, clock, crashes>>

ResumeExpireFail(c) ==
  /\ At(c, "expire_fail")
  /\ store' = [store EXCEPT !.wf = "failed", !.endings = @ \cup {"failed"}]
  /\ Return(c, "failed")
  /\ UNCHANGED <<task, running, clock, crashes>>

\* A suspended workflow becomes active again; an active one already is.
ResumeActivate(c) ==
  /\ At(c, "resume_expire") /\ call[c].todo = {}
  /\ store' = [store EXCEPT !.wf = IF call[c].from = "suspended"
                                   THEN "active" ELSE @]
  /\ call' = [call EXCEPT ![c].pc = "resume_register"]
  /\ UNCHANGED <<task, running, clock, crashes>>

\* The deadline counts from the first start.  When it has passed Resume
\* returns an error, after the row was set to active.
ResumeRegister(c) ==
  /\ At(c, "resume_register")
  /\ IF clock.deadline
     THEN Return(c, "expired") /\ UNCHANGED running
     ELSE /\ call' = [call EXCEPT ![c].pc = "level", ![c].ctx = "live",
                                  ![c].level = 1]
          /\ running' = c
  /\ UNCHANGED <<store, task, clock, crashes>>

-----------------------------------------------------------------------------
(* Cancel. *)

\* Loads the workflow and its step rows; the FSM refuses a terminal one.
CancelLoad(c) ==
  /\ Arrive(c) /\ "cancel" \in Kinds
  /\ "cancelled" \in ValidWorkflowTransitions[store.wf]
  /\ call' = [call EXCEPT ![c].pc = "cancel_event", ![c].kind = "cancel",
                          ![c].mem = store.steps]
  /\ UNCHANGED <<store, task, running, clock, crashes>>

\* The workflow_cancelled event and one step_skipped per step that can skip.
CancelEvent(c) ==
  /\ At(c, "cancel_event")
  /\ store' = [store EXCEPT !.log = SkipLog(call[c].mem),
                            !.endings = @ \cup {"cancelled"}]
  /\ call' = [call EXCEPT ![c].pc = "cancel_update"]
  /\ UNCHANGED <<task, running, clock, crashes>>

CancelUpdate(c) ==
  /\ At(c, "cancel_update")
  /\ store' = [store EXCEPT !.wf = "cancelled"]
  /\ call' = [call EXCEPT ![c].pc = "cancel_steps"]
  /\ UNCHANGED <<task, running, clock, crashes>>

CancelSteps(c) ==
  /\ At(c, "cancel_steps")
  /\ store' = [store EXCEPT !.steps =
                 [s \in Steps |-> IF call[c].mem[s] # None
                                     /\ CanSkip(call[c].mem[s])
                                  THEN "skipped" ELSE store.steps[s]]]
  /\ call' = [call EXCEPT ![c].pc = "cancel_run"]
  /\ UNCHANGED <<task, running, clock, crashes>>

\* run.cancel() of the registered run, if there is one.
CancelRun(c) ==
  /\ At(c, "cancel_run")
  /\ call' = [d \in Calls |->
                IF d = c THEN Returned(c, "ok")
                ELSE IF d = running
                THEN [call[d] EXCEPT !.ctx = CancelContext(d)]
                ELSE call[d]]
  /\ UNCHANGED <<store, task, running, clock, crashes>>

-----------------------------------------------------------------------------
(* The goroutine g of call c, executing step s (g itself, or its fallback).  *)

\* The goroutine returns an error to executeDAG.
TaskError(c, g) ==
  /\ call' = [call EXCEPT ![c].errs = @ \cup {g}]
  /\ TaskGoto(c, g, "idle")
  /\ UNCHANGED store

\* failStep: the event is lost when the context is done, the row is not.
FailStep(c, g, label) ==
  LET s == task[c][g].step
  IN  /\ store' = [store EXCEPT !.log[s] = IF Dead(c, g) THEN @ ELSE "failed"]
      /\ call' = [call EXCEPT ![c].mem[s] = "failed"]
      /\ TaskGoto(c, g, label)

\* Faulty: an attempt is retried without being counted.
RetryUncounted(c, g) ==
  LET s == task[c][g].step
  IN  /\ call[c].retries[s] < RetryMax[s]
      /\ \/ Dead(c, g) /\ TaskError(c, g)
         \/ /\ ~Dead(c, g)
            /\ store' = [store EXCEPT !.log[s] = "retrying"]
            /\ call' = [call EXCEPT ![c].mem[s] = "retrying"]
            /\ TaskGoto(c, g, "persist_retrying")

\* handleStepFailure: retry while the policy allows it.  Whether the error is
\* retryable is the caller's choice of this disjunct.
Retry(c, g) ==
  LET s == task[c][g].step
  IN  /\ call[c].retries[s] < RetryMax[s]
      /\ \/ Dead(c, g) /\ TaskError(c, g)
         \/ /\ ~Dead(c, g)
            /\ store' = [store EXCEPT !.log[s] = "retrying",
                                      !.retries[s] = @ + 1]
            /\ call' = [call EXCEPT ![c].mem[s] = "retrying",
                                    ![c].retries[s] = @ + 1]
            /\ TaskGoto(c, g, "persist_retrying")

\* handleStepFailure: no (more) retries, so the on_error handler decides.
\* ignoreStepError gives up silently when the context is done.
GiveUp(c, g) ==
  LET s == task[c][g].step
  IN  \/ /\ Fallback[s] # None
         /\ FailStep(c, g, "persist_fallback")
      \/ /\ Fallback[s] = None /\ s \in IgnoreErrors /\ Dead(c, g)
         /\ TaskGoto(c, g, "idle")
         /\ UNCHANGED <<store, call>>
      \/ /\ Fallback[s] = None /\ s \in IgnoreErrors /\ ~Dead(c, g)
         /\ store' = [store EXCEPT !.log[s] = "completed"]
         /\ call' = [call EXCEPT ![c].mem[s] = "completed"]
         /\ TaskGoto(c, g, "persist_end")
      \/ /\ Fallback[s] = None /\ s \notin IgnoreErrors
         /\ FailStep(c, g, "persist_failed")

HandleFailure(c, g) == Retry(c, g) \/ GiveUp(c, g)

\* pending -> scheduled has no event; scheduled -> running appends one.
StepStart(c, g) ==
  /\ TaskAt(c, g, "start")
  /\ LET s == task[c][g].step
     IN  \/ /\ Dead(c, g)
            /\ call' = [call EXCEPT ![c].errs = @ \cup {g},
                          ![c].mem[s] = IF @ = "pending" THEN "scheduled"
                                        ELSE @]
            /\ TaskGoto(c, g, "idle")
            /\ UNCHANGED store
         \/ /\ ~Dead(c, g)
            /\ store' = [store EXCEPT !.log[s] = "running"]
            /\ call' = [call EXCEPT ![c].mem[s] = "running"]
            /\ TaskGoto(c, g, "persist_running")
  /\ UNCHANGED <<running, clock, crashes>>

\* Where a goroutine goes after each persistStepState.
AfterPersist ==
  [persist_running  |-> "exec", persist_retrying |-> "backoff",
   persist_fallback |-> "start", persist_failed  |-> "idle",
   persist_end      |-> "idle"]

\* persistStepState writes the in-memory state as it is now.
Persist(c, g) ==
  /\ task[c][g].pc \in DOMAIN AfterPersist
  /\ LET s == task[c][g].step
     IN  /\ store' = [store EXCEPT !.steps[s] = call[c].mem[s]]
         /\ task' = [task EXCEPT ![c][g].pc = AfterPersist[@],
                       ![c][g].step = IF TaskAt(c, g, "persist_fallback")
                                      THEN Fallback[s] ELSE s]
         /\ call' = IF TaskAt(c, g, "persist_failed")
                    THEN [call EXCEPT ![c].errs = @ \cup {g}] ELSE call
  /\ UNCHANGED <<running, clock, crashes>>

\* WaitForBackoff, then retrying -> running.
Backoff(c, g) ==
  /\ TaskAt(c, g, "backoff")
  /\ LET s == task[c][g].step
     IN  \/ Dead(c, g) /\ TaskError(c, g)
         \/ /\ ~Dead(c, g)
            /\ store' = [store EXCEPT !.log[s] = "running"]
            /\ call' = [call EXCEPT ![c].mem[s] = "running"]
            /\ TaskGoto(c, g, "reexec")
  /\ UNCHANGED <<running, clock, crashes>>

\* The action returned without an error.  On a first attempt the step's
\* deadline is looked at, on a retry it is not.
ActionSucceeds(c, g) ==
  /\ TaskAt(c, g, "exec") \/ TaskAt(c, g, "reexec")
  /\ task[c][g].step \notin Reasoning
  /\ IF TaskAt(c, g, "exec") /\ PastDeadline(c, g)
     THEN HandleFailure(c, g)
     ELSE TaskGoto(c, g, "complete") /\ UNCHANGED <<store, call>>
  /\ UNCHANGED <<running, clock, crashes>>

\* The action returned an error, its own or that of its context.  A retried
\* reasoning step runs as an action without a name, which fails.
ActionFails(c, g) ==
  /\ \/ TaskAt(c, g, "exec") /\ task[c][g].step \notin Reasoning
     \/ TaskAt(c, g, "reexec")
  /\ task[c][g].step \in MayFail \cup Reasoning \/ Dead(c, g)
  /\ HandleFailure(c, g)
  /\ UNCHANGED <<running, clock, crashes>>

\* The worker pool recovers the panic: the goroutine is gone, its WaitGroup
\* is released, and neither an error nor a transition is recorded.
ActionPanics(c, g) ==
  /\ TaskAt(c, g, "exec") \/ TaskAt(c, g, "reexec")
  /\ task[c][g].step \in MayPanic \ Reasoning
  /\ TaskGoto(c, g, "idle")
  /\ UNCHANGED <<store, call, running, clock, crashes>>

\* Faulty: the completed step is not written back to its row.
CompleteUnpersisted(c, g) ==
  /\ TaskAt(c, g, "complete")
  /\ LET s == task[c][g].step
     IN  \/ Dead(c, g) /\ TaskError(c, g)
         \/ /\ ~Dead(c, g)
            /\ store' = [store EXCEPT !.log[s] = "completed"]
            /\ call' = [call EXCEPT ![c].mem[s] = "completed"]
            /\ TaskGoto(c, g, "idle")
  /\ UNCHANGED <<running, clock, crashes>>

\* running -> completed.
Complete(c, g) ==
  /\ TaskAt(c, g, "complete")
  /\ LET s == task[c][g].step
     IN  \/ Dead(c, g) /\ TaskError(c, g)
         \/ /\ ~Dead(c, g)
            /\ store' = [store EXCEPT !.log[s] = "completed"]
            /\ call' = [call EXCEPT ![c].mem[s] = "completed",
                          ![c].outputs = IF s \in Reasoning THEN @
                                         ELSE @ \cup {s}]
            /\ TaskGoto(c, g, "persist_end")
  /\ UNCHANGED <<running, clock, crashes>>

\* Faulty: any row counts as an answer.
LookupAnyRow(c, g) ==
  /\ TaskAt(c, g, "exec") /\ task[c][g].step \in Reasoning
  /\ LET d == store.decisions[task[c][g].step]
     IN  IF Dead(c, g) THEN HandleFailure(c, g)
         ELSE /\ TaskGoto(c, g, IF d = "none" THEN "create" ELSE "complete")
              /\ UNCHANGED <<store, call>>
  /\ UNCHANGED <<running, clock, crashes>>

\* Faulty: a step without a decision suspends at once.
LookupWithoutCreate(c, g) ==
  /\ TaskAt(c, g, "exec") /\ task[c][g].step \in Reasoning
  /\ LET d == store.decisions[task[c][g].step]
     IN  IF Dead(c, g) THEN HandleFailure(c, g)
         ELSE /\ TaskGoto(c, g, IF d \in {"resolved", "expired"} THEN "complete"
                                ELSE "suspend_step")
              /\ UNCHANGED <<store, call>>
  /\ UNCHANGED <<running, clock, crashes>>

\* executeReasoningStep looks for the decision of the step.
ReasonLookup(c, g) ==
  /\ TaskAt(c, g, "exec")
  /\ task[c][g].step \in Reasoning
  /\ LET d == store.decisions[task[c][g].step]
     IN  \/ Dead(c, g) /\ HandleFailure(c, g)
         \/ /\ ~Dead(c, g)
            /\ TaskGoto(c, g, CASE d \in {"resolved", "expired"} -> "complete"
                                [] d = "cancelled" -> "skip_step"
                                [] d = "pending"   -> "suspend_step"
                                [] d = "none"      -> "create")
            /\ UNCHANGED <<store, call>>
  /\ UNCHANGED <<running, clock, crashes>>

\* The decision's id is workflow_step, so a second insert is refused.
CreateDecision(c, g) ==
  /\ TaskAt(c, g, "create")
  /\ LET s == task[c][g].step
     IN  \/ /\ Dead(c, g) \/ store.decisions[s] # "none"
            /\ HandleFailure(c, g)
         \/ /\ ~Dead(c, g) /\ store.decisions[s] = "none"
            /\ store' = [store EXCEPT !.decisions[s] = "pending"]
            /\ TaskGoto(c, g, "request")
            /\ UNCHANGED call
  /\ UNCHANGED <<running, clock, crashes>>

\* decision_requested is what ReplayEvents turns into "suspended".
RequestDecision(c, g) ==
  /\ TaskAt(c, g, "request")
  /\ LET s == task[c][g].step
     IN  \/ Dead(c, g) /\ HandleFailure(c, g)
         \/ /\ ~Dead(c, g)
            /\ store' = [store EXCEPT !.log[s] = "suspended"]
            /\ TaskGoto(c, g, "suspend_step")
            /\ UNCHANGED call
  /\ UNCHANGED <<running, clock, crashes>>

\* running -> suspended: its event is not replayed.
SuspendStep(c, g) ==
  /\ TaskAt(c, g, "suspend_step")
  /\ \/ Dead(c, g) /\ HandleFailure(c, g)
     \/ /\ ~Dead(c, g)
        /\ call' = [call EXCEPT ![c].mem[task[c][g].step] = "suspended"]
        /\ TaskGoto(c, g, "persist_end")
        /\ UNCHANGED store
  /\ UNCHANGED <<running, clock, crashes>>

\* A cancelled decision: running -> skipped.
SkipStep(c, g) ==
  /\ TaskAt(c, g, "skip_step")
  /\ LET s == task[c][g].step
     IN  \/ Dead(c, g) /\ HandleFailure(c, g)
         \/ /\ ~Dead(c, g)
            /\ store' = [store EXCEPT !.log[s] = "skipped"]
            /\ call' = [call EXCEPT ![c].mem[s] = "skipped"]
            /\ TaskGoto(c, g, "persist_end")
  /\ UNCHANGED <<running, clock, crashes>>

-----------------------------------------------------------------------------
(* Time, callers that go away, and crashes. *)

\* The workflow's deadline passes: contexts made from it are done.
Deadline ==
  /\ OnTimeout # "none" /\ ~clock.deadline /\ store.wf # "pending"
  /\ clock' = [clock EXCEPT !.deadline = TRUE]
  /\ call' = [c \in Calls |->
                IF call[c].pc \in InDag /\ call[c].ctx = "live"
                THEN [call[c] EXCEPT !.ctx = "deadline"] ELSE call[c]]
  /\ UNCHANGED <<store, task, running, crashes>>

\* The timeout of the step a goroutine runs (or was started for) passes.
StepDeadline(c, g) ==
  /\ ~TaskAt(c, g, "idle") /\ ~Dead(c, g)
  /\ {g, task[c][g].step} \cap TimedSteps # {}
  /\ task' = [task EXCEPT ![c][g].dead = TRUE]
  /\ UNCHANGED <<store, call, running, clock, crashes>>

DecisionOverdue(s) ==
  /\ s \in TimedDecisions \ clock.overdue
  /\ store.decisions[s] = "pending"
  /\ clock' = [clock EXCEPT !.overdue = @ \cup {s}]
  /\ UNCHANGED <<store, call, task, running, crashes>>

\* The request that started the run is gone, and its context with it.
ContextCancelled(c) ==
  /\ Disconnect /\ call[c].pc \in InDag /\ call[c].ctx = "live"
  /\ call' = [call EXCEPT ![c].ctx = "cancelled"]
  /\ UNCHANGED <<store, task, running, clock, crashes>>

\* The process dies and starts again: the store is all that is left, and
\* recoverOrphanedWorkflows runs before the servers do.
CrashRestart ==
  /\ crashes < MaxCrashes
  /\ crashes' = crashes + 1
  /\ store' = [store EXCEPT !.wf = IF @ = "active" THEN "suspended" ELSE @]
  /\ call' = [c \in Calls |->
                IF call[c].pc \in {"idle", "done"} THEN call[c]
                ELSE Returned(c, "crashed")]
  /\ task' = [c \in Calls |-> [g \in Steps |-> IdleTask(g)]]
  /\ running' = None
  /\ UNCHANGED clock

\* The bounded supply of calls is used up and every call has returned.
Finished ==
  /\ InFlight = {}
  /\ UNCHANGED vars

-----------------------------------------------------------------------------

Arrivals(c) ==
  \/ Run(c)
  \/ CancelLoad(c)
  \/ \E s \in Steps : \/ PanelResolve(c, s)
                      \/ \E k \in Kinds : Signal(c, k, s)

\* What the call's own goroutine does next.
CallStep(c) ==
  \/ RunUpdate(c) \/ RunInitSteps(c) \/ RunRegister(c)
  \/ BeginLevel(c) \/ EndLevels(c) \/ LevelDone(c)
  \/ \E s \in Steps : Submit(c, s) \/ RejectSubmit(c, s) \/ ResumeExpire(c, s)
  \/ SuspendWorkflow(c) \/ ContextError(c)
  \/ FinishEvent(c) \/ FinishUpdate(c) \/ Unregister(c)
  \/ SignalApply(c)
  \/ ResumeLoad(c) \/ ResumeReplay(c) \/ ResumeList(c)
  \/ ResumeExpireEvent(c) \/ ResumeExpireFail(c)
  \/ ResumeActivate(c) \/ ResumeRegister(c)
  \/ CancelEvent(c) \/ CancelUpdate(c) \/ CancelSteps(c) \/ CancelRun(c)

\* What a step goroutine does next.
TaskStep(c, g) ==
  \/ StepStart(c, g) \/ Persist(c, g) \/ Backoff(c, g)
  \/ ActionSucceeds(c, g) \/ ActionFails(c, g) \/ ActionPanics(c, g)
  \/ Complete(c, g)
  \/ ReasonLookup(c, g) \/ CreateDecision(c, g) \/ RequestDecision(c, g)
  \/ SuspendStep(c, g) \/ SkipStep(c, g)

Environment ==
  \/ Deadline \/ CrashRestart
  \/ \E s \in Steps : DecisionOverdue(s)
  \/ \E c \in Calls : ContextCancelled(c)
                      \/ \E g \in Steps : StepDeadline(c, g)

Next ==
  \/ \E c \in Calls : Arrivals(c) \/ CallStep(c)
  \/ \E c \in Calls, g \in Steps : TaskStep(c, g)
  \/ Environment
  \/ Finished

Spec == Init /\ [][Next]_vars

\* The Go scheduler runs every goroutine that can run, actions return, and
\* the pool has a slot sooner or later.  Users, timers and crashes are free.
FairSpec ==
  /\ Spec
  /\ \A c \in Calls : WF_vars(CallStep(c))
  /\ \A c \in Calls, g \in Steps : WF_vars(TaskStep(c, g))

-----------------------------------------------------------------------------
(* Properties. *)

CallLabels ==
  {"idle", "run_update", "run_init", "run_register", "level", "submit",
   "suspend", "ctx_error", "finish_event", "finish_update", "finish_persist",
   "unregister", "signal_apply", "resume_load", "resume_replay",
   "resume_list", "resume_expire", "expire_event", "expire_fail",
   "resume_register", "cancel_event", "cancel_update", "cancel_steps",
   "cancel_run", "done"}

TaskLabels ==
  {"idle", "start", "exec", "reexec", "complete", "backoff", "create",
   "request", "suspend_step", "skip_step"} \cup DOMAIN AfterPersist

Verdicts == {"none", "suspended"} \cup TerminalWorkflow

Outcomes == Verdicts \cup {"ok", "rejected", "expired", "crashed"}

Rows == StepStatuses \cup {None}

StoreType ==
  [wf : WorkflowStatuses, steps : [Steps -> Rows], log : [Steps -> StepStatuses],
   retries : [Steps -> Nat], decisions : [Steps -> Decisions],
   endings : SUBSET TerminalWorkflow]

CallType ==
  [pc : CallLabels, kind : CallKinds \cup {"none", "run"},
   target : Steps \cup {None}, ctx : {"live", "cancelled", "deadline"},
   from : WorkflowStatuses, mem : [Steps -> Rows], retries : [Steps -> Nat],
   outputs : SUBSET Steps, level : Nat, todo : SUBSET Steps,
   errs : SUBSET Steps, verdict : Verdicts, outcome : Outcomes, inbox : Nat]

TaskType == [pc : TaskLabels, step : Steps, dead : BOOLEAN]

\* Every variable has the shape the code gives it.
TypeOK ==
  /\ store \in StoreType
  /\ call \in [Calls -> CallType]
  /\ task \in [Calls -> [Steps -> TaskType]]
  /\ running \in Calls \cup {None}
  /\ clock \in [deadline : BOOLEAN, overdue : SUBSET Steps]
  /\ crashes \in 0..MaxCrashes

\* executeDAG walks the levels in order (executor.go:609-706): while the
\* goroutine of a step is at work, every step of the levels below has been
\* settled in that run, whatever suspended, failed, retried or was resumed.
DependenciesDone ==
  \A c \in Calls, g \in Steps :
    ~TaskAt(c, g, "idle") /\ task[c][g].step = g
      => \A s \in Steps : Level[s] < Level[g]
                           => IsTerminalStep(call[c].mem[s])

\* A reasoning step is recorded as completed, in the log or in its row, only
\* with a decision that was resolved (executor.go:928-946), however calls,
\* replays, duplicate runs and crashes interleave.
ReasonedCompletion ==
  \A s \in Reasoning \ IgnoreErrors :
    "completed" \in {store.log[s], store.steps[s]}
      => store.decisions[s] \in {"resolved", "expired"}

\* The agent's choice is final: a decision that was resolved or cancelled is
\* never reopened or answered again (libsql.go:561-586).
DecisionFinal ==
  [][\A s \in Steps : store.decisions[s] \notin {"none", "pending"}
                         => store'.decisions[s] = store.decisions[s]]_vars

Quiet == InFlight = {}

\* A suspended workflow waits for someone: when no call is in progress one of
\* its decisions is pending, so that a signal can resume it (tools.go:119).
SuspendedIsAnswerable ==
  Quiet /\ store.wf = "suspended"
    => \E s \in Reasoning : store.decisions[s] = "pending"

\* step_state is a view of the log: once the workflow has ended and every
\* call has returned, row and log name the same end, and a step is settled in
\* both or in neither, the same way.
ViewMatchesLog ==
  Quiet /\ store.wf \in TerminalWorkflow
    => /\ store.endings = {store.wf}
       /\ \A s \in Steps :
            IsTerminalStep(store.log[s]) \/ IsTerminalStep(store.steps[s])
              => store.steps[s] = store.log[s]

\* An unhandled failure of a step fails the workflow: a completed workflow has
\* no failed step but one that a fallback replaced (executor.go:684, 1253).
NoSilentFailure ==
  store.wf = "completed"
    => \A s \in Steps : store.log[s] = "failed" => Fallback[s] # None

\* The status a workflow ends in is final (the FSM tables, fsm.go:283-290).
TerminalIsFinal ==
  [][store.wf \in TerminalWorkflow => store'.wf = store.wf]_vars

\* Every call a server makes returns (the WaitGroup of a level is released by
\* every way a step can end, executor.go:638-653).
EveryCallReturns ==
  \A c \in Calls : call[c].pc # "idle" ~> call[c].pc = "done"
=============================================================================
