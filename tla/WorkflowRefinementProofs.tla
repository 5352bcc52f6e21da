---------------------- MODULE WorkflowRefinementProofs ----------------------
(*****************************************************************************)
(* An agent that waits for each answer before its next call meets what the   *)
(* engine promises of a workflow.  First what every step of the executor     *)
(* does, field by field; then the status of the workflow where each call is, *)
(* which makes a final status final; then the outcomes each call knows and   *)
(* the log holds, which makes every step one of WorkflowLifecycle; then the  *)
(* decisions a suspended workflow waits for, which makes it answerable; then *)
(* the errors that tell of a failure, and the rows that follow the log.      *)
(*****************************************************************************)
EXTENDS WorkflowRefinement, WorkflowExecutorProofs, FiniteSetTheorems

OutOfCall == {"idle", "done"}

\* Calls come one at a time.
Alone ==
  \A c, d \in Calls :
    call[c].pc \notin OutOfCall /\ call[d].pc \notin OutOfCall => c = d

ActiveLabels ==
  {"run_init", "run_register", "level", "submit", "suspend", "ctx_error",
   "finish_event", "finish_update", "resume_register"}

\* The status of the workflow where the call r is.
StatusFits(w, r) ==
  /\ r.pc = "run_update" => w = "pending"
  /\ r.pc \in ActiveLabels => w = "active"
  /\ r.pc \in {"resume_replay", "resume_list", "resume_expire"}
       => w = r.from /\ r.from \in {"suspended", "active"}
  /\ r.pc \in {"expire_event", "expire_fail"}
       => w \in {"suspended", "active"}
  /\ r.pc = "finish_persist" => w = r.verdict
  /\ r.pc \in {"cancel_event", "cancel_update"}
       => w \in {"pending", "active", "suspended"}

StatusKnown == Alone /\ \A c \in Calls : StatusFits(store.wf, call[c])

-----------------------------------------------------------------------------

Terminal(x) == IsTerminalStep(x)

\* Before the workflow is started no step has a status.
FreshLog == store.wf = "pending" => \A s \in Steps : store.log[s] = "pending"

\* A decision is made for a reasoning step only.
DecisionsReasoned ==
  \A s \in Steps : store.decisions[s] # "none" => s \in Reasoning

\* The step of a pending decision has no outcome.
PendingOpen ==
  \A s \in Steps : store.decisions[s] = "pending" => ~Terminal(store.log[s])

\* The goroutine g works on the step g ...
OwnStep(t) == \A g \in Steps : t[g].step = g

\* ... which has no outcome until it is at rest, and where it is says what the
\* decision of the step is.
AtWork(st, r, t) ==
  \A g \in Steps :
    /\ t[g].pc \notin AtRest => ~Terminal(r.mem[g])
    /\ t[g].pc # "persist_fallback"
    /\ t[g].pc = "persist_failed" => r.mem[g] = "failed"
    /\ t[g].pc \in {"create", "request", "suspend_step", "skip_step"} => g \in Reasoning
    /\ t[g].pc \in {"persist_retrying", "backoff", "reexec"} => g \notin Reasoning
    /\ t[g].pc = "create" => st.decisions[g] = "none"
    /\ t[g].pc = "skip_step" => st.decisions[g] = "cancelled"
    /\ t[g].pc = "complete" /\ g \in Reasoning => st.decisions[g] \in {"resolved", "expired"}

\* Where a call holds the statuses of the steps.
Remembering ==
  {"run_update", "run_init", "run_register", "level", "submit", "suspend",
   "ctx_error", "resume_list", "resume_expire", "resume_register"}

\* An outcome in the log is the one the call knows ...
Knows(st, r) ==
  r.pc \in Remembering => \A s \in Steps : Terminal(st.log[s]) => r.mem[s] = st.log[s]

\* ... and what it knows is in the log, but for a failure that it reports.
Logged(st, r, t) ==
  /\ r.pc \in Remembering \ {"submit", "suspend", "ctx_error"} =>
       \A s \in Steps : Terminal(r.mem[s]) => st.log[s] = r.mem[s]
  /\ r.pc = "submit" =>
       \A s \in Steps :
         Terminal(r.mem[s]) => \/ st.log[s] = r.mem[s]
                               \/ /\ r.mem[s] = "failed"
                                  /\ s \in r.errs \/ t[s].pc = "persist_failed"

\* What a call is about to do has not been done.
Ahead(st, r) ==
  /\ r.pc = "submit" => \A s \in r.todo : ~Terminal(r.mem[s])
  /\ r.pc = "resume_expire" => \A s \in r.todo : ~Terminal(st.log[s])
  /\ r.pc = "expire_event" => /\ ~Terminal(st.log[r.target])
                              /\ st.decisions[r.target] # "pending"
  /\ r.pc \in {"finish_event", "finish_update"} =>
       /\ r.verdict \in {"completed", "failed"}
       /\ r.verdict = "completed" => \A s \in Steps : Terminal(st.log[s])

CancelLabels == {"cancel_event", "cancel_update", "cancel_steps", "cancel_run"}

Tracked(st, r, t) ==
  /\ OwnStep(t) /\ AtWork(st, r, t) /\ Knows(st, r) /\ Logged(st, r, t) /\ Ahead(st, r)
  /\ r.pc \notin CancelLabels

OutcomesTracked ==
  /\ FreshLog /\ DecisionsReasoned /\ PendingOpen
  /\ \A c \in Calls : Tracked(store, call[c], task[c])


-----------------------------------------------------------------------------
(* What each step does, field by field. *)

OnlyCall(c) == \A d \in Calls \ {c} : call'[d] = call[d]

\* A call keeps what it was told, and what it knows of the steps.
SameOrder(r, q) ==
  /\ q.kind = r.kind /\ q.target = r.target /\ q.from = r.from
  /\ q.verdict = r.verdict
SameWork(r, q) ==
  q.mem = r.mem /\ q.level = r.level /\ q.todo = r.todo /\ q.errs = r.errs

SameSteps == /\ store'.log = store.log /\ store'.steps = store.steps
             /\ store'.decisions = store.decisions

\* The call goes from one label to another.
Goes(c, l, m) == /\ call[c].pc = l /\ call'[c].pc = m /\ OnlyCall(c)
                 /\ task' = task

LEMMA RunEffects ==
  ASSUME TypeOK, NEW c \in Calls
  PROVE  /\ RunUpdate(c) =>
              /\ Goes(c, "run_update", "run_init") /\ SameOrder(call[c], call'[c])
              /\ SameWork(call[c], call'[c]) /\ call'[c].ctx = call[c].ctx
              /\ store'.wf = "active" /\ store'.endings = store.endings /\ SameSteps
         /\ RunInitSteps(c) =>
              /\ Goes(c, "run_init", "run_register") /\ SameOrder(call[c], call'[c])
              /\ SameWork(call[c], call'[c]) /\ call'[c].ctx = call[c].ctx
              /\ store'.wf = store.wf /\ store'.endings = store.endings
              /\ store'.log = store.log /\ store'.decisions = store.decisions
              /\ store'.steps = [s \in Steps |-> "pending"]
         /\ RunRegister(c) =>
              /\ Goes(c, "run_register", "level") /\ SameOrder(call[c], call'[c])
              /\ SameWork(call[c], call'[c]) /\ store' = store
              /\ call'[c].ctx = IF clock.deadline THEN "deadline" ELSE "live"
<1>1. store \in StoreType /\ call \in CallTable
  BY Tables
<1>2. ASSUME RunUpdate(c)
      PROVE  /\ Goes(c, "run_update", "run_init") /\ SameOrder(call[c], call'[c])
             /\ SameWork(call[c], call'[c]) /\ call'[c].ctx = call[c].ctx
             /\ store'.wf = "active" /\ store'.endings = store.endings /\ SameSteps
  BY <1>1, <1>2
  DEF RunUpdate, At, Goes, OnlyCall, SameOrder, SameWork, SameSteps, CallTable,
      CallType, StoreType
<1>3. ASSUME RunInitSteps(c)
      PROVE  /\ Goes(c, "run_init", "run_register") /\ SameOrder(call[c], call'[c])
             /\ SameWork(call[c], call'[c]) /\ call'[c].ctx = call[c].ctx
             /\ store'.wf = store.wf /\ store'.endings = store.endings
             /\ store'.log = store.log /\ store'.decisions = store.decisions
             /\ store'.steps = [s \in Steps |-> "pending"]
  BY <1>1, <1>3
  DEF RunInitSteps, At, Goes, OnlyCall, SameOrder, SameWork, CallTable, CallType,
      StoreType
<1>4. ASSUME RunRegister(c)
      PROVE  /\ Goes(c, "run_register", "level") /\ SameOrder(call[c], call'[c])
             /\ SameWork(call[c], call'[c]) /\ store' = store
             /\ call'[c].ctx = IF clock.deadline THEN "deadline" ELSE "live"
  BY <1>1, <1>4
  DEF RunRegister, At, Goes, OnlyCall, SameOrder, SameWork, CallTable, CallType
<1> QED
  BY <1>2, <1>3, <1>4

LEMMA BeginLevelEffect ==
  ASSUME TypeOK, NEW c \in Calls, BeginLevel(c)
  PROVE  /\ Goes(c, "level", "submit") /\ SameOrder(call[c], call'[c])
         /\ call[c].ctx = "live" /\ call'[c].ctx = "live" /\ call[c].level <= Depth
         /\ call'[c].mem = call[c].mem /\ call'[c].level = call[c].level
         /\ call'[c].errs = {}
         /\ call'[c].todo = {s \in LevelSteps(c) : ~IsTerminalStep(call[c].mem[s])}
         /\ store' = store
<1>1. call \in CallTable
  BY Tables
<1> QED
  BY <1>1 DEF BeginLevel, At, Goes, OnlyCall, SameOrder, CallTable, CallType

LEMMA EndLevelsEffect ==
  ASSUME TypeOK, NEW c \in Calls, EndLevels(c)
  PROVE  /\ SameWork(call[c], call'[c]) /\ call'[c].ctx = call[c].ctx
         /\ store' = store
         /\ call'[c].kind = call[c].kind /\ call'[c].target = call[c].target
         /\ call'[c].from = call[c].from
         /\ \/ /\ Goes(c, "level", "ctx_error") /\ call[c].ctx # "live"
               /\ call'[c].verdict = call[c].verdict
            \/ /\ Goes(c, "level", "finish_event") /\ call[c].ctx = "live"
               /\ call[c].level > Depth /\ call'[c].verdict = "completed"
<1>1. call \in CallTable /\ call[c].pc = "level" /\ store' = store /\ task' = task
  BY Tables DEF EndLevels, At
<1>2. CASE call[c].ctx # "live" /\ call' = [call EXCEPT ![c].pc = "ctx_error"]
  BY <1>1, <1>2 DEF Goes, OnlyCall, SameWork, CallTable, CallType
<1>3. CASE /\ call[c].ctx = "live" /\ call[c].level > Depth
           /\ call' = [call EXCEPT ![c].pc = "finish_event", ![c].verdict = "completed"]
  BY <1>1, <1>3 DEF Goes, OnlyCall, SameWork, CallTable, CallType
<1> QED
  BY <1>2, <1>3 DEF EndLevels

LEMMA SubmitEffects ==
  ASSUME TypeOK, NEW c \in Calls, NEW s \in Steps
  PROVE  /\ Submit(c, s) =>
              /\ call[c].pc = "submit" /\ call'[c].pc = "submit" /\ OnlyCall(c)
              /\ s \in call[c].todo /\ SameOrder(call[c], call'[c])
              /\ call'[c].mem = call[c].mem /\ call'[c].level = call[c].level
              /\ call'[c].todo = call[c].todo \ {s} /\ call'[c].errs = call[c].errs
              /\ call'[c].ctx = call[c].ctx /\ store' = store
              /\ \A d \in Calls \ {c} : task'[d] = task[d]
              /\ \A g \in Steps \ {s} : task'[c][g] = task[c][g]
              /\ task'[c][s].pc = "start" /\ task'[c][s].step = s
         /\ RejectSubmit(c, s) =>
              /\ Goes(c, "submit", "submit") /\ s \in call[c].todo
              /\ SameOrder(call[c], call'[c])
              /\ call[c].ctx # "live" /\ call'[c].ctx = call[c].ctx
              /\ call'[c].mem = call[c].mem /\ call'[c].level = call[c].level
              /\ call'[c].todo = call[c].todo \ {s}
              /\ call'[c].errs = call[c].errs \cup {s}
              /\ store' = store
<1>1. call \in CallTable /\ task \in TaskTable
  BY Tables
<1>2. ASSUME Submit(c, s)
      PROVE  /\ call[c].pc = "submit" /\ call'[c].pc = "submit" /\ OnlyCall(c)
             /\ s \in call[c].todo /\ SameOrder(call[c], call'[c])
             /\ call'[c].mem = call[c].mem /\ call'[c].level = call[c].level
             /\ call'[c].todo = call[c].todo \ {s} /\ call'[c].errs = call[c].errs
             /\ call'[c].ctx = call[c].ctx /\ store' = store
             /\ \A d \in Calls \ {c} : task'[d] = task[d]
             /\ \A g \in Steps \ {s} : task'[c][g] = task[c][g]
             /\ task'[c][s].pc = "start" /\ task'[c][s].step = s
  <2>1. /\ call[c].pc = "submit" /\ s \in call[c].todo /\ store' = store
        /\ call' = [call EXCEPT ![c].todo = call[c].todo \ {s}]
        /\ task' = [task EXCEPT ![c][s] = [IdleTask(s) EXCEPT !.pc = "start"]]
    BY <1>2 DEF Submit, At
  <2>2. /\ call'[c].pc = "submit" /\ OnlyCall(c) /\ SameOrder(call[c], call'[c])
        /\ call'[c].mem = call[c].mem /\ call'[c].level = call[c].level
        /\ call'[c].todo = call[c].todo \ {s} /\ call'[c].errs = call[c].errs
        /\ call'[c].ctx = call[c].ctx
    BY <1>1, <2>1 DEF OnlyCall, SameOrder, CallTable, CallType
  <2>3. /\ \A d \in Calls \ {c} : task'[d] = task[d]
        /\ \A g \in Steps \ {s} : task'[c][g] = task[c][g]
        /\ task'[c][s].pc = "start" /\ task'[c][s].step = s
    BY <1>1, <2>1 DEF IdleTask, TaskTable
  <2> QED
    BY <2>1, <2>2, <2>3
<1>3. ASSUME RejectSubmit(c, s)
      PROVE  /\ Goes(c, "submit", "submit") /\ s \in call[c].todo
             /\ SameOrder(call[c], call'[c])
             /\ call[c].ctx # "live" /\ call'[c].ctx = call[c].ctx
             /\ call'[c].mem = call[c].mem /\ call'[c].level = call[c].level
             /\ call'[c].todo = call[c].todo \ {s}
             /\ call'[c].errs = call[c].errs \cup {s}
             /\ store' = store
  BY <1>1, <1>3
  DEF RejectSubmit, At, Goes, OnlyCall, SameOrder, CallTable, CallType
<1> QED
  BY <1>2, <1>3

\* wg.Wait returned: the errors of the level that are not suspensions.
LevelFailures(c) == {g \in call[c].errs : call[c].mem[g] # "suspended"}

LEMMA LevelDoneEffect ==
  ASSUME TypeOK, NEW c \in Calls, LevelDone(c)
  PROVE  /\ call[c].todo = {} /\ \A g \in Steps : task[c][g].pc = "idle"
         /\ call'[c].mem = call[c].mem /\ call'[c].todo = call[c].todo
         /\ call'[c].errs = call[c].errs /\ call'[c].ctx = call[c].ctx
         /\ call'[c].kind = call[c].kind /\ call'[c].target = call[c].target
         /\ call'[c].from = call[c].from /\ store' = store
         /\ \/ /\ Goes(c, "submit", "ctx_error") /\ call[c].ctx # "live"
               /\ call'[c].verdict = call[c].verdict
            \/ /\ Goes(c, "submit", "finish_event") /\ call[c].ctx = "live"
               /\ LevelFailures(c) # {} /\ call'[c].verdict = "failed"
            \/ /\ Goes(c, "submit", "suspend") /\ call[c].ctx = "live"
               /\ LevelFailures(c) = {} /\ call'[c].verdict = call[c].verdict
               /\ \E s \in LevelSteps(c) : call[c].mem[s] = "suspended"
            \/ /\ Goes(c, "submit", "level") /\ call[c].ctx = "live"
               /\ LevelFailures(c) = {} /\ call'[c].verdict = call[c].verdict
               /\ ~\E s \in LevelSteps(c) : call[c].mem[s] = "suspended"
               /\ call'[c].level = call[c].level + 1
<1>1. call \in CallTable /\ call[c].pc = "submit" /\ store' = store /\ task' = task
  BY Tables DEF LevelDone, At
<1>2. call[c].todo = {} /\ \A g \in Steps : task[c][g].pc = "idle"
  BY DEF LevelDone, TaskAt
<1>3. ASSUME NEW l, call' = [call EXCEPT ![c].pc = l]
      PROVE  /\ call'[c].mem = call[c].mem /\ call'[c].todo = call[c].todo
             /\ call'[c].errs = call[c].errs /\ call'[c].ctx = call[c].ctx
             /\ SameOrder(call[c], call'[c]) /\ Goes(c, "submit", l)
  BY <1>1, <1>3 DEF Goes, OnlyCall, SameOrder, CallTable, CallType
<1>4. CASE call[c].ctx # "live" /\ call' = [call EXCEPT ![c].pc = "ctx_error"]
  BY <1>1, <1>2, <1>3, <1>4 DEF SameOrder
<1>5. CASE /\ call[c].ctx = "live" /\ LevelFailures(c) # {}
           /\ call' = [call EXCEPT ![c].pc = "finish_event", ![c].verdict = "failed"]
  BY <1>1, <1>2, <1>5 DEF Goes, OnlyCall, CallTable, CallType
<1>6. CASE /\ call[c].ctx = "live" /\ LevelFailures(c) = {}
           /\ \E s \in LevelSteps(c) : call[c].mem[s] = "suspended"
           /\ call' = [call EXCEPT ![c].pc = "suspend"]
  BY <1>1, <1>2, <1>3, <1>6 DEF SameOrder
<1>7. CASE /\ call[c].ctx = "live" /\ LevelFailures(c) = {}
           /\ ~\E s \in LevelSteps(c) : call[c].mem[s] = "suspended"
           /\ call' = [call EXCEPT ![c].pc = "level", ![c].level = @ + 1]
  BY <1>1, <1>2, <1>7 DEF Goes, OnlyCall, CallTable, CallType
<1> QED
  BY <1>4, <1>5, <1>6, <1>7 DEF LevelDone, LevelFailures

LEMMA EndEffects ==
  ASSUME TypeOK, NEW c \in Calls
  PROVE  /\ SuspendWorkflow(c) =>
              /\ Goes(c, "suspend", "unregister") /\ SameSteps
              /\ store'.wf = "suspended" /\ store'.endings = store.endings
         /\ FinishEvent(c) =>
              /\ Goes(c, "finish_event", "finish_update") /\ SameSteps
              /\ SameOrder(call[c], call'[c]) /\ store'.wf = store.wf
              /\ store'.endings = store.endings \cup {call[c].verdict}
         /\ FinishUpdate(c) =>
              /\ SameOrder(call[c], call'[c]) /\ SameSteps
              /\ store'.wf = call[c].verdict /\ store'.endings = store.endings
              /\ \/ Goes(c, "finish_update", "finish_persist")
                 \/ Goes(c, "finish_persist", "unregister")
         /\ Unregister(c) => Goes(c, "unregister", "done") /\ store' = store
<1>1. store \in StoreType /\ call \in CallTable
  BY Tables
<1>2. ASSUME SuspendWorkflow(c)
      PROVE  /\ Goes(c, "suspend", "unregister") /\ SameSteps
             /\ store'.wf = "suspended" /\ store'.endings = store.endings
  BY <1>1, <1>2
  DEF SuspendWorkflow, At, Goes, OnlyCall, SameSteps, CallTable, CallType, StoreType
<1>3. ASSUME FinishEvent(c)
      PROVE  /\ Goes(c, "finish_event", "finish_update") /\ SameSteps
             /\ SameOrder(call[c], call'[c]) /\ store'.wf = store.wf
             /\ store'.endings = store.endings \cup {call[c].verdict}
  BY <1>1, <1>3
  DEF FinishEvent, At, Goes, OnlyCall, SameOrder, SameSteps, CallTable, CallType,
      StoreType
<1>4. ASSUME FinishUpdate(c)
      PROVE  /\ SameOrder(call[c], call'[c]) /\ SameSteps
             /\ store'.wf = call[c].verdict /\ store'.endings = store.endings
             /\ \/ Goes(c, "finish_update", "finish_persist")
                \/ Goes(c, "finish_persist", "unregister")
  <2>1. /\ store'.wf = call[c].verdict /\ store'.endings = store.endings
        /\ SameSteps /\ task' = task
    BY <1>1, <1>4 DEF FinishUpdate, SameSteps, StoreType
  <2>2. CASE call[c].pc = "finish_update"
    BY <1>1, <1>4, <2>1, <2>2
    DEF FinishUpdate, At, Goes, OnlyCall, SameOrder, CallTable, CallType
  <2>3. CASE call[c].pc = "finish_persist"
    BY <1>1, <1>4, <2>1, <2>3
    DEF FinishUpdate, At, Goes, OnlyCall, SameOrder, CallTable, CallType
  <2> QED
    BY <1>4, <2>2, <2>3 DEF FinishUpdate, At
<1>5. ASSUME Unregister(c)
      PROVE  Goes(c, "unregister", "done") /\ store' = store
  BY <1>1, <1>5, ReturnedIsDone DEF Unregister, At, Return, Goes, OnlyCall, CallTable
<1> QED
  BY <1>2, <1>3, <1>4, <1>5

\* handleTimeout, or the answer to a cancelled context.
LEMMA ContextErrorEffect ==
  ASSUME TypeOK, NEW c \in Calls, ContextError(c)
  PROVE  \/ /\ OnTimeout = "suspend" /\ call[c].ctx = "deadline"
            /\ Goes(c, "ctx_error", "unregister") /\ SameSteps
            /\ store'.wf = "suspended" /\ store'.endings = store.endings
         \/ /\ OnTimeout = "cancel" /\ call[c].ctx = "deadline"
            /\ Goes(c, "ctx_error", "unregister")
            /\ store'.wf = store.wf /\ store'.decisions = store.decisions
            /\ \A s \in Steps : store'.log[s] \in {store.log[s], "skipped"}
         \/ /\ Goes(c, "ctx_error", "finish_event") /\ store' = store
            /\ call'[c].verdict = "failed"
<1>1. store \in StoreType /\ call \in CallTable /\ call[c].pc = "ctx_error" /\ task' = task
  BY Tables DEF ContextError, At
<1>2. CASE /\ OnTimeout = "suspend" /\ call[c].ctx = "deadline"
           /\ store' = [store EXCEPT !.wf = "suspended"]
           /\ call' = [call EXCEPT ![c].pc = "unregister", ![c].verdict = "suspended"]
  BY <1>1, <1>2 DEF Goes, OnlyCall, SameSteps, CallTable, CallType, StoreType
<1>3. CASE /\ OnTimeout = "cancel" /\ call[c].ctx = "deadline"
           /\ store' = [store EXCEPT !.log = SkipLog(call[c].mem),
                                     !.endings = @ \cup {"cancelled"}]
           /\ call' = [call EXCEPT ![c].pc = "unregister", ![c].verdict = "cancelled"]
  <2>1. /\ store'.log = SkipLog(call[c].mem) /\ store'.wf = store.wf
        /\ store'.decisions = store.decisions
    BY <1>1, <1>3 DEF StoreType
  <2>2. \A s \in Steps : store'.log[s] \in {store.log[s], "skipped"}
    BY <2>1 DEF SkipLog
  <2> QED
    BY <1>1, <1>3, <2>1, <2>2 DEF Goes, OnlyCall, CallTable, CallType
<1>4. CASE /\ call' = [call EXCEPT ![c].pc = "finish_event", ![c].verdict = "failed"]
           /\ store' = store
  BY <1>1, <1>4 DEF Goes, OnlyCall, CallTable, CallType
<1> QED
  BY <1>2, <1>3, <1>4 DEF ContextError

\* The decision of s is answered, the others are left alone.
Answers(s, x) ==
  /\ store'.decisions[s] = x
  /\ \A u \in Steps \ {s} : store'.decisions[u] = store.decisions[u]

SameLog == /\ store'.wf = store.wf /\ store'.log = store.log
           /\ store'.steps = store.steps /\ store'.endings = store.endings

LEMMA SignalApplyEffect ==
  ASSUME Typed, NEW c \in Calls, SignalApply(c)
  PROVE  /\ SameLog /\ call[c].target \in Steps
         /\ \/ Goes(c, "signal_apply", "done") /\ store' = store
            \/ /\ store.decisions[call[c].target] = "pending"
               /\ \/ /\ Goes(c, "signal_apply", "resume_load")
                     /\ Answers(call[c].target, "resolved")
                  \/ /\ Goes(c, "signal_apply", "done")
                     /\ Answers(call[c].target, "cancelled")
<1> DEFINE s == call[c].target
<1>1. /\ store \in StoreType /\ call \in CallTable /\ call[c].pc = "signal_apply"
      /\ task' = task /\ s \in Steps
  BY Tables DEF SignalApply, At, Typed, LocalsSet, Prepared
<1> HIDE DEF s
<1>2. CASE Return(c, "rejected") /\ store' = store
  BY <1>1, <1>2, ReturnedIsDone DEF Return, Goes, OnlyCall, CallTable, SameLog, s
<1>3. CASE /\ store.decisions[s] = "pending"
           /\ store' = [store EXCEPT !.decisions[s] = "resolved"]
           /\ call' = [call EXCEPT ![c].pc = "resume_load", ![c].outcome = "ok"]
  <2>1. SameLog /\ Answers(s, "resolved")
    BY <1>1, <1>3 DEF SameLog, Answers, StoreType
  <2>2. Goes(c, "signal_apply", "resume_load")
    BY <1>1, <1>3 DEF Goes, OnlyCall, CallTable, CallType
  <2> QED
    BY <1>1, <1>3, <2>1, <2>2 DEF s
<1>4. CASE /\ store.decisions[s] = "pending"
           /\ store' = [store EXCEPT !.decisions[s] = "cancelled"]
           /\ Return(c, "ok")
  <2>1. SameLog /\ Answers(s, "cancelled")
    BY <1>1, <1>4 DEF SameLog, Answers, StoreType
  <2>2. Goes(c, "signal_apply", "done")
    BY <1>1, <1>4, ReturnedIsDone DEF Return, Goes, OnlyCall, CallTable
  <2> QED
    BY <1>1, <1>4, <2>1, <2>2 DEF s
<1> QED
  BY <1>2, <1>3, <1>4 DEF SignalApply, s

LEMMA ResumeEffects ==
  ASSUME TypeOK, NEW c \in Calls
  PROVE  /\ ResumeLoad(c) =>
              /\ store' = store
              /\ \/ /\ Goes(c, "resume_load", "done")
                    /\ store.wf \notin {"suspended", "active"}
                 \/ /\ Goes(c, "resume_load", "resume_replay")
                    /\ call'[c].from = store.wf
                    /\ store.wf \in {"suspended", "active"}
         /\ ResumeReplay(c) =>
              /\ Goes(c, "resume_replay", "resume_list") /\ store' = store
              /\ SameOrder(call[c], call'[c]) /\ call'[c].mem = store.log
         /\ ResumeList(c) =>
              /\ Goes(c, "resume_list", "resume_expire") /\ store' = store
              /\ SameOrder(call[c], call'[c]) /\ call'[c].mem = call[c].mem
              /\ \A s \in call'[c].todo :
                   s \in Steps \cap clock.overdue /\ store.decisions[s] = "pending"
         /\ ResumeActivate(c) =>
              /\ Goes(c, "resume_expire", "resume_register") /\ SameSteps
              /\ store'.endings = store.endings /\ call'[c].mem = call[c].mem
              /\ store'.wf = IF call[c].from = "suspended" THEN "active" ELSE store.wf
         /\ ResumeRegister(c) =>
              /\ store' = store
              /\ \/ Goes(c, "resume_register", "done")
                 \/ /\ Goes(c, "resume_register", "level")
                    /\ ~clock.deadline /\ call'[c].ctx = "live"
                    /\ call'[c].mem = call[c].mem /\ call'[c].level = 1
<1>1. /\ store \in StoreType /\ call \in CallTable
      /\ clock \in [deadline : BOOLEAN, overdue : SUBSET Steps]
  BY Tables
<1>2. ASSUME ResumeLoad(c)
      PROVE  /\ store' = store
             /\ \/ /\ Goes(c, "resume_load", "done")
                   /\ store.wf \notin {"suspended", "active"}
                \/ /\ Goes(c, "resume_load", "resume_replay")
                   /\ call'[c].from = store.wf
                   /\ store.wf \in {"suspended", "active"}
  BY <1>1, <1>2, ReturnedIsDone
  DEF ResumeLoad, At, Return, Goes, OnlyCall, CallTable, CallType
<1>3. ASSUME ResumeReplay(c)
      PROVE  /\ Goes(c, "resume_replay", "resume_list") /\ store' = store
             /\ SameOrder(call[c], call'[c]) /\ call'[c].mem = store.log
  BY <1>1, <1>3 DEF ResumeReplay, At, Goes, OnlyCall, SameOrder, CallTable, CallType
<1>4. ASSUME ResumeList(c)
      PROVE  /\ Goes(c, "resume_list", "resume_expire") /\ store' = store
             /\ SameOrder(call[c], call'[c]) /\ call'[c].mem = call[c].mem
             /\ \A s \in call'[c].todo :
                  s \in Steps \cap clock.overdue /\ store.decisions[s] = "pending"
  <2>1. call' = [call EXCEPT ![c].pc = "resume_expire",
                   ![c].todo = {s \in clock.overdue : store.decisions[s] = "pending"}]
    BY <1>4 DEF ResumeList
  <2> DEFINE T == {s \in clock.overdue : store.decisions[s] = "pending"}
  <2>2. \A s \in T : s \in Steps \cap clock.overdue /\ store.decisions[s] = "pending"
    BY <1>1
  <2>3. call' = [call EXCEPT ![c].pc = "resume_expire", ![c].todo = T]
    BY <2>1
  <2> HIDE DEF T
  <2>4. /\ call[c].pc = "resume_list" /\ task' = task /\ store' = store
    BY <1>4 DEF ResumeList, At
  <2>5. call'[c].todo = T /\ call'[c].pc = "resume_expire" /\ OnlyCall(c)
        /\ SameOrder(call[c], call'[c]) /\ call'[c].mem = call[c].mem
    BY <1>1, <2>3 DEF OnlyCall, SameOrder, CallTable, CallType
  <2> QED
    BY <2>2, <2>4, <2>5 DEF Goes
<1>5. ASSUME ResumeActivate(c)
      PROVE  /\ Goes(c, "resume_expire", "resume_register") /\ SameSteps
             /\ store'.endings = store.endings /\ call'[c].mem = call[c].mem
             /\ store'.wf = IF call[c].from = "suspended" THEN "active" ELSE store.wf
  <2>1. /\ SameSteps /\ store'.endings = store.endings
        /\ store'.wf = IF call[c].from = "suspended" THEN "active" ELSE store.wf
    BY <1>1, <1>5 DEF ResumeActivate, SameSteps, StoreType
  <2> QED
    BY <1>1, <1>5, <2>1 DEF ResumeActivate, At, Goes, OnlyCall, CallTable, CallType
<1>6. ASSUME ResumeRegister(c)
      PROVE  /\ store' = store
             /\ \/ Goes(c, "resume_register", "done")
                \/ /\ Goes(c, "resume_register", "level")
                   /\ ~clock.deadline /\ call'[c].ctx = "live"
                   /\ call'[c].mem = call[c].mem /\ call'[c].level = 1
  BY <1>1, <1>6, ReturnedIsDone
  DEF ResumeRegister, At, Return, Goes, OnlyCall, CallTable, CallType
<1> QED
  BY <1>2, <1>3, <1>4, <1>5, <1>6

\* resolveExpiredDecisions.
LEMMA ExpireEffects ==
  ASSUME Typed, NEW c \in Calls
  PROVE  /\ \A s \in Steps : ResumeExpire(c, s) =>
              /\ SameLog /\ s \in call[c].todo /\ call'[c].from = call[c].from
              /\ store.decisions[s] = "none" => store'.decisions[s] = "none"
              /\ store'.decisions[s] # "pending"
              /\ \A u \in Steps \ {s} : store'.decisions[u] = store.decisions[u]
              /\ \/ /\ Goes(c, "resume_expire", "resume_expire")
                    /\ call'[c].mem = call[c].mem /\ call'[c].todo = call[c].todo \ {s}
                 \/ /\ Goes(c, "resume_expire", "expire_event") /\ call'[c].target = s
                    /\ s \notin FallbackChoice
         /\ ResumeExpireEvent(c) =>
              /\ Goes(c, "expire_event", "expire_fail") /\ call[c].target \in Steps
              /\ call'[c].from = call[c].from /\ store'.wf = store.wf
              /\ store'.endings = store.endings /\ store'.steps = store.steps
              /\ store'.decisions = store.decisions
              /\ store'.log[call[c].target] = "failed"
              /\ \A u \in Steps \ {call[c].target} : store'.log[u] = store.log[u]
         /\ ResumeExpireFail(c) =>
              /\ Goes(c, "expire_fail", "done") /\ SameSteps /\ store'.wf = "failed"
              /\ store'.endings = store.endings \cup {"failed"}
<1>1. store \in StoreType /\ call \in CallTable
  BY Tables DEF Typed
<1>2. ASSUME NEW s \in Steps, ResumeExpire(c, s)
      PROVE  /\ SameLog /\ s \in call[c].todo /\ call'[c].from = call[c].from
             /\ store.decisions[s] = "none" => store'.decisions[s] = "none"
             /\ store'.decisions[s] # "pending"
             /\ \A u \in Steps \ {s} : store'.decisions[u] = store.decisions[u]
             /\ \/ /\ Goes(c, "resume_expire", "resume_expire")
                   /\ call'[c].mem = call[c].mem /\ call'[c].todo = call[c].todo \ {s}
                \/ /\ Goes(c, "resume_expire", "expire_event") /\ call'[c].target = s
                   /\ s \notin FallbackChoice
  <2> DEFINE x == IF store.decisions[s] # "pending" THEN store.decisions[s]
                  ELSE IF s \in FallbackChoice THEN "resolved" ELSE "expired"
  <2>1. store' = [store EXCEPT !.decisions[s] = x]
    BY <1>2 DEF ResumeExpire
  <2>2. x # "pending" /\ (store.decisions[s] = "none" => x = "none")
    OBVIOUS
  <2> HIDE DEF x
  <2>3. /\ SameLog /\ store'.decisions[s] = x
        /\ \A u \in Steps \ {s} : store'.decisions[u] = store.decisions[u]
    BY <1>1, <2>1 DEF SameLog, StoreType
  <2>4. call[c].pc = "resume_expire" /\ s \in call[c].todo /\ task' = task
    BY <1>2 DEF ResumeExpire, At
  <2>5. CASE s \in FallbackChoice
    <3>1. call' = [call EXCEPT ![c].todo = call[c].todo \ {s}]
      BY <1>2, <2>5 DEF ResumeExpire
    <3>2. /\ Goes(c, "resume_expire", "resume_expire") /\ call'[c].from = call[c].from
          /\ call'[c].mem = call[c].mem /\ call'[c].todo = call[c].todo \ {s}
      BY <1>1, <2>4, <3>1 DEF Goes, OnlyCall, CallTable, CallType
    <3> QED
      BY <2>2, <2>3, <2>4, <3>2
  <2>6. CASE s \notin FallbackChoice
    <3>1. call' = [call EXCEPT ![c].todo = {}, ![c].target = s, ![c].pc = "expire_event"]
      BY <1>2, <2>6 DEF ResumeExpire
    <3>2. /\ Goes(c, "resume_expire", "expire_event") /\ call'[c].from = call[c].from
          /\ call'[c].target = s
      BY <1>1, <2>4, <3>1 DEF Goes, OnlyCall, CallTable, CallType
    <3> QED
      BY <2>2, <2>3, <2>4, <2>6, <3>2
  <2> QED
    BY <2>5, <2>6
<1>3. ASSUME ResumeExpireEvent(c)
      PROVE  /\ Goes(c, "expire_event", "expire_fail") /\ call[c].target \in Steps
             /\ call'[c].from = call[c].from /\ store'.wf = store.wf
             /\ store'.endings = store.endings /\ store'.steps = store.steps
             /\ store'.decisions = store.decisions
             /\ store'.log[call[c].target] = "failed"
             /\ \A u \in Steps \ {call[c].target} : store'.log[u] = store.log[u]
  <2>1. call[c].pc = "expire_event" /\ call[c].target \in Steps /\ task' = task
    BY <1>3 DEF ResumeExpireEvent, At, Typed, LocalsSet, Prepared
  <2>2. /\ store'.wf = store.wf
        /\ store'.endings = store.endings /\ store'.steps = store.steps
        /\ store'.decisions = store.decisions
        /\ store'.log[call[c].target] = "failed"
        /\ \A u \in Steps \ {call[c].target} : store'.log[u] = store.log[u]
    BY <1>1, <1>3, <2>1 DEF ResumeExpireEvent, StoreType
  <2>3. call'[c].pc = "expire_fail" /\ OnlyCall(c) /\ call'[c].from = call[c].from
    BY <1>1, <1>3 DEF ResumeExpireEvent, OnlyCall, CallTable, CallType
  <2> QED
    BY <2>1, <2>2, <2>3 DEF Goes
<1>4. ASSUME ResumeExpireFail(c)
      PROVE  /\ Goes(c, "expire_fail", "done") /\ SameSteps /\ store'.wf = "failed"
             /\ store'.endings = store.endings \cup {"failed"}
  BY <1>1, <1>4, ReturnedIsDone
  DEF ResumeExpireFail, At, Return, Goes, OnlyCall, SameSteps, CallTable, StoreType
<1> QED
  BY <1>2, <1>3, <1>4

\* What a call shares with others: where it is and what it will write.
SamePlace(r, q) == q.pc = r.pc /\ q.from = r.from /\ q.verdict = r.verdict

LEMMA CancelEffects ==
  ASSUME TypeOK, NEW c \in Calls
  PROVE  /\ CancelEvent(c) =>
              /\ Goes(c, "cancel_event", "cancel_update") /\ store'.wf = store.wf
              /\ store'.decisions = store.decisions /\ store'.steps = store.steps
              /\ store'.log = SkipLog(call[c].mem) /\ call'[c].mem = call[c].mem
              /\ store'.endings = store.endings \cup {"cancelled"}
         /\ CancelUpdate(c) =>
              /\ Goes(c, "cancel_update", "cancel_steps") /\ store'.wf = "cancelled"
              /\ SameSteps /\ store'.endings = store.endings
              /\ call'[c].mem = call[c].mem
         /\ CancelSteps(c) =>
              /\ Goes(c, "cancel_steps", "cancel_run") /\ store'.wf = store.wf
              /\ store'.log = store.log /\ store'.decisions = store.decisions
              /\ store'.endings = store.endings
              /\ store'.steps = [s \in Steps |-> IF call[c].mem[s] # None
                                                     /\ CanSkip(call[c].mem[s])
                                                  THEN "skipped" ELSE store.steps[s]]
         /\ CancelRun(c) =>
              /\ call[c].pc = "cancel_run" /\ call'[c].pc = "done" /\ store' = store
              /\ task' = task
              /\ \A d \in Calls \ {c} : SamePlace(call[d], call'[d])
<1>1. store \in StoreType /\ call \in CallTable
  BY Tables
<1>2. ASSUME CancelEvent(c)
      PROVE  /\ Goes(c, "cancel_event", "cancel_update") /\ store'.wf = store.wf
             /\ store'.decisions = store.decisions /\ store'.steps = store.steps
             /\ store'.log = SkipLog(call[c].mem) /\ call'[c].mem = call[c].mem
             /\ store'.endings = store.endings \cup {"cancelled"}
  BY <1>1, <1>2 DEF CancelEvent, At, Goes, OnlyCall, CallTable, CallType, StoreType
<1>3. ASSUME CancelUpdate(c)
      PROVE  /\ Goes(c, "cancel_update", "cancel_steps") /\ store'.wf = "cancelled"
             /\ SameSteps /\ store'.endings = store.endings
             /\ call'[c].mem = call[c].mem
  BY <1>1, <1>3
  DEF CancelUpdate, At, Goes, OnlyCall, SameSteps, CallTable, CallType, StoreType
<1>4. ASSUME CancelSteps(c)
      PROVE  /\ Goes(c, "cancel_steps", "cancel_run") /\ store'.wf = store.wf
             /\ store'.log = store.log /\ store'.decisions = store.decisions
             /\ store'.endings = store.endings
             /\ store'.steps = [s \in Steps |-> IF call[c].mem[s] # None
                                                    /\ CanSkip(call[c].mem[s])
                                                 THEN "skipped" ELSE store.steps[s]]
  <2> DEFINE rows == [s \in Steps |-> IF call[c].mem[s] # None /\ CanSkip(call[c].mem[s])
                                      THEN "skipped" ELSE store.steps[s]]
  <2>1. store' = [store EXCEPT !.steps = rows]
    BY <1>4 DEF CancelSteps
  <2> HIDE DEF rows
  <2>2. /\ store'.wf = store.wf /\ store'.log = store.log /\ store'.endings = store.endings
        /\ store'.decisions = store.decisions /\ store'.steps = rows
    BY <1>1, <2>1 DEF StoreType
  <2>3. Goes(c, "cancel_steps", "cancel_run")
    BY <1>1, <1>4 DEF CancelSteps, At, Goes, OnlyCall, CallTable, CallType
  <2> QED
    BY <2>2, <2>3 DEF rows
<1>5. ASSUME CancelRun(c)
      PROVE  /\ call[c].pc = "cancel_run" /\ call'[c].pc = "done" /\ store' = store
             /\ task' = task
             /\ \A d \in Calls \ {c} : SamePlace(call[d], call'[d])
  BY <1>1, <1>5, ReturnedIsDone DEF CancelRun, At, SamePlace, CallTable, CallType
<1> QED
  BY <1>2, <1>3, <1>4, <1>5

LEMMA ArrivalEffect ==
  ASSUME TypeOK, NEW c \in Calls, Arrivals(c)
  PROVE  /\ call[c].pc = "idle" /\ Cardinality(InFlight) < MaxInFlight
         /\ task' = task /\ SameLog
         /\ \A d \in Calls \ {c} : call'[d].pc = call[d].pc
         /\ \/ /\ store' = store /\ store.wf = "pending" /\ call'[c].pc = "run_update"
               /\ call'[c].mem = [s \in Steps |-> "pending"]
            \/ /\ "cancel" \in Kinds /\ "cancelled" \in ValidWorkflowTransitions[store.wf]
               /\ store' = store /\ call'[c].pc = "cancel_event"
               /\ call'[c].mem = store.steps
            \/ /\ store' = store /\ call'[c].pc \in {"done", "resume_load", "signal_apply"}
               /\ call'[c].kind \in Kinds \cap {"decision", "cancel_decision"}
            \/ /\ "panel" \in Kinds /\ call'[c].pc = "done"
               /\ \E s \in Steps :
                    store.decisions[s] = "pending" /\ Answers(s, "resolved")
<1>1. /\ store \in StoreType /\ call \in CallTable
      /\ running \in Calls \cup {None}
  BY Tables
<1>2. ASSUME Run(c)
      PROVE  /\ call[c].pc = "idle" /\ Cardinality(InFlight) < MaxInFlight
             /\ task' = task /\ store' = store /\ store.wf = "pending"
             /\ call'[c].pc = "run_update" /\ call'[c].mem = [s \in Steps |-> "pending"]
             /\ \A d \in Calls \ {c} : call'[d].pc = call[d].pc
  BY <1>1, <1>2 DEF Run, Arrive, CallTable, CallType
<1>3. ASSUME CancelLoad(c)
      PROVE  /\ call[c].pc = "idle" /\ Cardinality(InFlight) < MaxInFlight
             /\ task' = task /\ store' = store
             /\ "cancel" \in Kinds /\ "cancelled" \in ValidWorkflowTransitions[store.wf]
             /\ call'[c].pc = "cancel_event" /\ call'[c].mem = store.steps
             /\ \A d \in Calls \ {c} : call'[d].pc = call[d].pc
  BY <1>1, <1>3 DEF CancelLoad, Arrive, CallTable, CallType
<1>4. ASSUME NEW s \in Steps, PanelResolve(c, s)
      PROVE  /\ call[c].pc = "idle" /\ Cardinality(InFlight) < MaxInFlight
             /\ task' = task /\ SameLog /\ Answers(s, "resolved")
             /\ store.decisions[s] = "pending" /\ call'[c].pc = "done"
             /\ "panel" \in Kinds
             /\ \A d \in Calls \ {c} : call'[d].pc = call[d].pc
  <2>1. SameLog /\ Answers(s, "resolved")
    BY <1>1, <1>4 DEF PanelResolve, SameLog, Answers, StoreType
  <2> QED
    BY <1>1, <1>4, <2>1 DEF PanelResolve, Arrive, CallTable, CallType
<1>5. ASSUME NEW k \in Kinds, NEW s \in Steps, Signal(c, k, s)
      PROVE  /\ call[c].pc = "idle" /\ Cardinality(InFlight) < MaxInFlight
             /\ task' = task /\ store' = store
             /\ call'[c].pc \in {"done", "resume_load", "signal_apply"}
             /\ call'[c].kind = k /\ k \in {"decision", "cancel_decision"}
             /\ \A d \in Calls \ {c} : call'[d].pc = call[d].pc
  <2> DEFINE sent == [IdleCall EXCEPT !.kind = k, !.target = s]
             refused == [sent EXCEPT !.pc = "done", !.outcome = "rejected"]
             accepted == [sent EXCEPT !.pc = IF k = "decision" THEN "resume_load"
                                             ELSE "done",
                                      !.outcome = "ok"]
             applies == [sent EXCEPT !.pc = "signal_apply"]
  <2>1. /\ refused.pc = "done" /\ accepted.pc \in {"done", "resume_load"}
        /\ applies.pc = "signal_apply"
        /\ refused.kind = k /\ accepted.kind = k /\ applies.kind = k
    BY DEF IdleCall
  <2>2. /\ call[c].pc = "idle" /\ Cardinality(InFlight) < MaxInFlight
        /\ task' = task /\ store' = store /\ k \in {"decision", "cancel_decision"}
    BY <1>5 DEF Signal, Arrive
  <2>3. \/ /\ running # None
           /\ call' = [call EXCEPT ![running].inbox = @ + 1, ![c] = accepted]
        \/ call' = [call EXCEPT ![c] = refused]
        \/ call' = [call EXCEPT ![c] = applies]
    BY <1>5, Zenon DEF Signal
  <2> HIDE DEF sent, refused, accepted, applies
  <2>4. CASE /\ running # None
             /\ call' = [call EXCEPT ![running].inbox = @ + 1, ![c] = accepted]
    <3>1. running \in Calls
      BY <1>1, <2>4
    <3> DEFINE q == [call[running] EXCEPT !.inbox = @ + 1]
    <3>2. q.pc = call[running].pc
      BY <1>1, <3>1 DEF CallTable, CallType
    <3>3. call' = [[call EXCEPT ![running] = q] EXCEPT ![c] = accepted]
      BY <2>4
    <3> HIDE DEF q
    <3>4. call'[c] = accepted /\ \A d \in Calls \ {c} : call'[d].pc = call[d].pc
      BY <1>1, <3>1, <3>2, <3>3 DEF CallTable
    <3> QED
      BY <2>1, <2>2, <3>4
  <2>5. CASE call' = [call EXCEPT ![c] = refused]
    <3>1. call'[c] = refused /\ \A d \in Calls \ {c} : call'[d].pc = call[d].pc
      BY <1>1, <2>5 DEF CallTable
    <3> QED
      BY <2>1, <2>2, <3>1
  <2>6. CASE call' = [call EXCEPT ![c] = applies]
    <3>1. call'[c] = applies /\ \A d \in Calls \ {c} : call'[d].pc = call[d].pc
      BY <1>1, <2>6 DEF CallTable
    <3> QED
      BY <2>1, <2>2, <3>1
  <2> QED
    BY <2>3, <2>4, <2>5, <2>6
<1>6. store' = store => SameLog
  BY DEF SameLog
<1>7. CASE Run(c)
  BY <1>2, <1>6, <1>7
<1>8. CASE CancelLoad(c)
  BY <1>3, <1>6, <1>8
<1>9. CASE \E s \in Steps : PanelResolve(c, s)
  BY <1>4, <1>9
<1>10. CASE \E s \in Steps : \E k \in Kinds : Signal(c, k, s)
  BY <1>5, <1>6, <1>10
<1> QED
  BY <1>7, <1>8, <1>9, <1>10, Zenon DEF Arrivals

\* A call that only learns that its context is done.
SameCall(r, q) == SameOrder(r, q) /\ SameWork(r, q) /\ q.pc = r.pc

\* Timers and clients that go away write nothing ...
Passive ==
  /\ store' = store /\ \A c \in Calls : SameCall(call[c], call'[c])
  /\ \A c \in Calls, g \in Steps :
       task'[c][g].pc = task[c][g].pc /\ task'[c][g].step = task[c][g].step

\* ... and a crash leaves nobody in a call.
Crashed ==
  /\ SameSteps /\ store'.endings = store.endings
  /\ store'.wf = IF store.wf = "active" THEN "suspended" ELSE store.wf
  /\ \A c \in Calls : call'[c].pc \in OutOfCall
  /\ \A c \in Calls, g \in Steps :
       task'[c][g].pc = "idle" /\ task'[c][g].step = g

Timers ==
  \/ Deadline \/ \E s \in Steps : DecisionOverdue(s)
  \/ \E c \in Calls : ContextCancelled(c) \/ \E g \in Steps : StepDeadline(c, g)

LEMMA TimersEffect ==
  ASSUME TypeOK, Timers \/ Finished \/ UNCHANGED vars
  PROVE  Passive
<1>1. /\ store \in StoreType /\ call \in CallTable /\ task \in TaskTable
  BY Tables
<1>2. CASE Deadline
  BY <1>1, <1>2
  DEF Deadline, Passive, SameCall, SameOrder, SameWork, CallTable, CallType
<1>3. ASSUME NEW s \in Steps, DecisionOverdue(s)
      PROVE  Passive
  BY <1>3 DEF DecisionOverdue, Passive, SameCall, SameOrder, SameWork
<1>4. ASSUME NEW c \in Calls, ContextCancelled(c)
      PROVE  Passive
  BY <1>1, <1>4
  DEF ContextCancelled, Passive, SameCall, SameOrder, SameWork, CallTable, CallType
<1>5. ASSUME NEW c \in Calls, NEW g \in Steps, StepDeadline(c, g)
      PROVE  Passive
  <2>1. /\ store' = store /\ call' = call
        /\ task' = [task EXCEPT ![c][g].dead = TRUE]
    BY <1>5 DEF StepDeadline
  <2>2. \A d \in Calls, h \in Steps :
          task'[d][h].pc = task[d][h].pc /\ task'[d][h].step = task[d][h].step
    BY <1>1, <2>1 DEF TaskTable, TaskType
  <2> QED
    BY <2>1, <2>2 DEF Passive, SameCall, SameOrder, SameWork
<1>6. CASE Finished \/ UNCHANGED vars
  BY <1>6 DEF Finished, vars, Passive, SameCall, SameOrder, SameWork
<1> QED
  BY <1>2, <1>3, <1>4, <1>5, <1>6, Zenon DEF Timers

LEMMA EnvironmentEffect ==
  ASSUME TypeOK, Environment \/ Finished \/ UNCHANGED vars
  PROVE  Passive \/ Crashed
<1>1. store \in StoreType
  BY Tables
<1>2. CASE CrashRestart
  <2>1. \A c \in Calls : call'[c].pc \in OutOfCall
    BY <1>2, ReturnedIsDone DEF CrashRestart, OutOfCall
  <2>2. \A c \in Calls, g \in Steps :
          task'[c][g].pc = "idle" /\ task'[c][g].step = g
    BY <1>2 DEF CrashRestart, IdleTask
  <2>3. /\ SameSteps /\ store'.endings = store.endings
        /\ store'.wf = IF store.wf = "active" THEN "suspended" ELSE store.wf
    BY <1>1, <1>2 DEF CrashRestart, SameSteps, StoreType
  <2> QED
    BY <2>1, <2>2, <2>3 DEF Crashed
<1> QED
  BY <1>2, TimersEffect, Zenon DEF Environment, Timers

-----------------------------------------------------------------------------
(* What a goroutine does to its step. *)

\* A goroutine leaves everything alone but its step and the errors it adds.
TaskKept(c, g) ==
  LET s == task[c][g].step
  IN  /\ OnlyCall(c) /\ SameOrder(call[c], call'[c]) /\ call'[c].pc = call[c].pc
      /\ call'[c].level = call[c].level /\ call'[c].todo = call[c].todo
      /\ call'[c].ctx = call[c].ctx
      /\ store'.wf = store.wf /\ store'.endings = store.endings
      /\ \A u \in Steps \ {s} :
           /\ call'[c].mem[u] = call[c].mem[u] /\ store'.log[u] = store.log[u]
           /\ store'.steps[u] = store.steps[u]
           /\ store'.decisions[u] = store.decisions[u]
      /\ \A h \in Steps \ {g} : task'[c][h] = task[c][h]
      /\ \A d \in Calls \ {c} : task'[d] = task[d]

\* The goroutine goes to l; memory and log of its step become m and x.
Does(c, g, l, m, x) ==
  LET s == task[c][g].step
  IN  /\ task'[c][g].pc = l /\ task'[c][g].step = s
      /\ call'[c].mem[s] = m /\ store'.log[s] = x

SameRow(c, g) == store'.steps[task[c][g].step] = store.steps[task[c][g].step]
SameDecision(c, g) ==
  store'.decisions[task[c][g].step] = store.decisions[task[c][g].step]
SameErrs(c) == call'[c].errs = call[c].errs
AddsError(c, g) == call'[c].errs = call[c].errs \cup {g}

MemOf(c, g) == call[c].mem[task[c][g].step]
LogOf(c, g) == store.log[task[c][g].step]
DecisionOf(c, g) == store.decisions[task[c][g].step]

\* It records x in memory and in the log.
Records(c, g, l, x) ==
  /\ Does(c, g, l, x, x) /\ SameRow(c, g) /\ SameDecision(c, g) /\ SameErrs(c)

\* It leaves an error and the status as it is, or "scheduled" without an event.
Errs(c, g) ==
  /\ \/ Does(c, g, "idle", MemOf(c, g), LogOf(c, g))
     \/ MemOf(c, g) = "pending" /\ Does(c, g, "idle", "scheduled", LogOf(c, g))
  /\ SameRow(c, g) /\ SameDecision(c, g) /\ AddsError(c, g)
  /\ Dead(c, g) /\ task[c][g].pc \notin AtRest

\* It goes on, or ends, with nothing done.
Passes(c, g, l) ==
  /\ Does(c, g, l, MemOf(c, g), LogOf(c, g))
  /\ SameRow(c, g) /\ SameDecision(c, g) /\ SameErrs(c)

FailLabel(s) == IF Fallback[s] # None THEN "persist_fallback" ELSE "persist_failed"

Fails(c, g) ==
  LET l == FailLabel(task[c][g].step)
  IN  \/ Records(c, g, l, "failed") /\ ~Dead(c, g)
      \/ /\ Does(c, g, l, "failed", LogOf(c, g)) /\ Dead(c, g)
         /\ SameRow(c, g) /\ SameDecision(c, g) /\ SameErrs(c)

FailureKinds(c, g) ==
  \/ Errs(c, g)
  \/ ~Dead(c, g) /\ Records(c, g, "persist_retrying", "retrying")
  \/ Fails(c, g)
  \/ /\ Dead(c, g) /\ task[c][g].step \in IgnoreErrors /\ Fallback[task[c][g].step] = None
     /\ Passes(c, g, "idle")
  \/ /\ ~Dead(c, g) /\ task[c][g].step \in IgnoreErrors
     /\ Fallback[task[c][g].step] = None /\ Records(c, g, "persist_end", "completed")

\* The frame of a step that writes at most these fields.
LEMMA KeptBy ==
  ASSUME Typed, NEW c \in Calls, NEW g \in Steps, NEW l, TaskGoto(c, g, l),
         NEW q, call' = [call EXCEPT ![c] = q],
         SameOrder(call[c], q), q.pc = call[c].pc, q.level = call[c].level,
         q.todo = call[c].todo, q.ctx = call[c].ctx,
         \A u \in Steps \ {task[c][g].step} : q.mem[u] = call[c].mem[u],
         store'.wf = store.wf, store'.endings = store.endings,
         \A u \in Steps \ {task[c][g].step} :
           /\ store'.log[u] = store.log[u] /\ store'.steps[u] = store.steps[u]
           /\ store'.decisions[u] = store.decisions[u]
  PROVE  /\ TaskKept(c, g) /\ call'[c] = q
         /\ task'[c][g].pc = l /\ task'[c][g].step = task[c][g].step
<1>1. call \in CallTable
  BY Tables DEF Typed
<1>2. call'[c] = q /\ OnlyCall(c)
  BY <1>1 DEF CallTable, OnlyCall
<1>3. /\ task'[c][g].pc = l /\ task'[c][g].step = task[c][g].step
      /\ \A h \in Steps : h # g => task'[c][h] = task[c][h]
      /\ \A d \in Calls \ {c} : task'[d] = task[d]
  BY GoesTo
<1> QED
  BY <1>2, <1>3 DEF TaskKept

LEMMA ErrDoes ==
  ASSUME Typed, NEW c \in Calls, NEW g \in Steps, task[c][g].pc \notin AtRest,
         Dead(c, g), TaskError(c, g)
  PROVE  TaskKept(c, g) /\ Errs(c, g)
<1> DEFINE q == [call[c] EXCEPT !.errs = @ \cup {g}]
<1>1. /\ call[c] \in CallType /\ store' = store /\ TaskGoto(c, g, "idle")
      /\ call' = [call EXCEPT ![c] = q]
  BY TaskFacts DEF Typed, TaskError
<1>2. /\ SameOrder(call[c], q) /\ q.pc = call[c].pc /\ q.level = call[c].level
      /\ q.todo = call[c].todo /\ q.ctx = call[c].ctx /\ q.mem = call[c].mem
      /\ q.errs = call[c].errs \cup {g}
  BY <1>1 DEF CallType, SameOrder
<1> HIDE DEF q
<1>3. /\ TaskKept(c, g) /\ call'[c] = q
      /\ task'[c][g].pc = "idle" /\ task'[c][g].step = task[c][g].step
  BY <1>1, <1>2, KeptBy
<1> QED
  BY <1>1, <1>2, <1>3
  DEF Errs, Does, MemOf, LogOf, SameRow, SameDecision, AddsError

\* Memory and log of the step, and what else the call counts.
LEMMA RecordDoes ==
  ASSUME Typed, NEW c \in Calls, NEW g \in Steps, NEW l, NEW m, NEW x,
         TaskGoto(c, g, l), OnlyCall(c), SameOrder(call[c], call'[c]),
         call'[c].pc = call[c].pc, call'[c].level = call[c].level,
         call'[c].todo = call[c].todo, call'[c].ctx = call[c].ctx,
         call'[c].errs = call[c].errs,
         call'[c].mem = [call[c].mem EXCEPT ![task[c][g].step] = m],
         store'.wf = store.wf, store'.endings = store.endings,
         store'.steps = store.steps, store'.decisions = store.decisions,
         store'.log = [store.log EXCEPT ![task[c][g].step] = x]
  PROVE  /\ TaskKept(c, g) /\ Does(c, g, l, m, x)
         /\ SameRow(c, g) /\ SameDecision(c, g) /\ SameErrs(c)
<1> DEFINE s == task[c][g].step
<1>1. s \in Steps /\ call[c].mem \in [Steps -> Rows] /\ store.log \in [Steps -> StepStatuses]
  BY TaskFacts, Tables DEF Typed, CallType, StoreType
<1>2. /\ task'[c][g].pc = l /\ task'[c][g].step = s
      /\ \A h \in Steps : h # g => task'[c][h] = task[c][h]
      /\ \A d \in Calls \ {c} : task'[d] = task[d]
  BY GoesTo
<1>3. /\ call'[c].mem[s] = m /\ \A u \in Steps \ {s} : call'[c].mem[u] = call[c].mem[u]
      /\ store'.log[s] = x /\ \A u \in Steps \ {s} : store'.log[u] = store.log[u]
  BY <1>1
<1>4. TaskKept(c, g)
  BY <1>2, <1>3 DEF TaskKept
<1> QED
  BY <1>2, <1>3, <1>4 DEF Does, SameRow, SameDecision, SameErrs

LEMMA StoreLog ==
  ASSUME Typed, NEW s \in Steps, NEW x, store' = [store EXCEPT !.log[s] = x]
  PROVE  /\ store'.wf = store.wf /\ store'.endings = store.endings
         /\ store'.steps = store.steps /\ store'.decisions = store.decisions
         /\ store'.log = [store.log EXCEPT ![s] = x]
BY Tables DEF Typed, StoreType

LEMMA StoreSame ==
  ASSUME Typed, NEW s \in Steps, store' = store
  PROVE  /\ store'.wf = store.wf /\ store'.endings = store.endings
         /\ store'.steps = store.steps /\ store'.decisions = store.decisions
         /\ store'.log = [store.log EXCEPT ![s] = store.log[s]]
<1>1. store.log \in [Steps -> StepStatuses]
  BY Tables DEF Typed, StoreType
<1> QED
  BY <1>1

LEMMA MemDoes ==
  ASSUME Typed, NEW c \in Calls, NEW g \in Steps, NEW l, NEW m, NEW x,
         TaskGoto(c, g, l), call' = [call EXCEPT ![c].mem[task[c][g].step] = m],
         store'.wf = store.wf, store'.endings = store.endings,
         store'.steps = store.steps, store'.decisions = store.decisions,
         store'.log = [store.log EXCEPT ![task[c][g].step] = x]
  PROVE  /\ TaskKept(c, g) /\ Does(c, g, l, m, x)
         /\ SameRow(c, g) /\ SameDecision(c, g) /\ SameErrs(c)
<1> DEFINE q == [call[c] EXCEPT !.mem[task[c][g].step] = m]
<1>1. call[c] \in CallType /\ call' = [call EXCEPT ![c] = q]
  BY TaskFacts DEF Typed
<1>2. /\ SameOrder(call[c], q) /\ q.pc = call[c].pc /\ q.level = call[c].level
      /\ q.todo = call[c].todo /\ q.ctx = call[c].ctx /\ q.errs = call[c].errs
      /\ q.mem = [call[c].mem EXCEPT ![task[c][g].step] = m]
  BY <1>1 DEF CallType, SameOrder
<1> HIDE DEF q
<1>3. call'[c] = q /\ OnlyCall(c)
  BY <1>1, Tables DEF Typed, CallTable, OnlyCall
<1> QED
  BY <1>2, <1>3, RecordDoes

LEMMA PassDoes ==
  ASSUME Typed, NEW c \in Calls, NEW g \in Steps, NEW l, TaskGoto(c, g, l),
         call' = call, store' = store
  PROVE  TaskKept(c, g) /\ Passes(c, g, l)
<1>1. /\ task'[c][g].pc = l /\ task'[c][g].step = task[c][g].step
      /\ \A h \in Steps : h # g => task'[c][h] = task[c][h]
      /\ \A d \in Calls \ {c} : task'[d] = task[d]
  BY GoesTo
<1>2. TaskKept(c, g)
  BY <1>1 DEF TaskKept, OnlyCall, SameOrder
<1> QED
  BY <1>1, <1>2 DEF Passes, Does, MemOf, LogOf, SameRow, SameDecision, SameErrs

LEMMA FailureDoes ==
  ASSUME Typed, NEW c \in Calls, NEW g \in Steps, task[c][g].pc \notin AtRest,
         HandleFailure(c, g)
  PROVE  TaskKept(c, g) /\ FailureKinds(c, g)
<1> DEFINE s == task[c][g].step
<1>1. call[c] \in CallType /\ s \in Steps
  BY TaskFacts DEF Typed
<1>2. CASE Dead(c, g) /\ TaskError(c, g)
  BY <1>2, ErrDoes DEF FailureKinds
<1>3. CASE /\ ~Dead(c, g) /\ TaskGoto(c, g, "persist_retrying")
           /\ store' = [store EXCEPT !.log[s] = "retrying", !.retries[s] = @ + 1]
           /\ call' = [call EXCEPT ![c].mem[s] = "retrying", ![c].retries[s] = @ + 1]
  <2> DEFINE q == [call[c] EXCEPT !.mem[s] = "retrying", !.retries[s] = @ + 1]
  <2>1. call' = [call EXCEPT ![c] = q]
    BY <1>3, Tables DEF Typed, CallTable
  <2>2. /\ SameOrder(call[c], q) /\ q.pc = call[c].pc /\ q.level = call[c].level
        /\ q.todo = call[c].todo /\ q.ctx = call[c].ctx /\ q.errs = call[c].errs
        /\ q.mem = [call[c].mem EXCEPT ![s] = "retrying"]
    BY <1>1 DEF CallType, SameOrder
  <2>3. /\ store'.wf = store.wf /\ store'.endings = store.endings
        /\ store'.steps = store.steps /\ store'.decisions = store.decisions
        /\ store'.log = [store.log EXCEPT ![s] = "retrying"]
    BY <1>1, <1>3, Tables DEF Typed, StoreType
  <2> HIDE DEF q
  <2>4. call'[c] = q /\ OnlyCall(c)
    BY <2>1, Tables DEF Typed, CallTable, OnlyCall
  <2>5. /\ TaskKept(c, g) /\ Does(c, g, "persist_retrying", "retrying", "retrying")
        /\ SameRow(c, g) /\ SameDecision(c, g) /\ SameErrs(c)
    BY <1>3, <2>2, <2>3, <2>4, RecordDoes
  <2> QED
    BY <1>3, <2>5 DEF FailureKinds, Records
<1>4. ASSUME NEW l, l = FailLabel(s), FailStep(c, g, l)
      PROVE  TaskKept(c, g) /\ FailureKinds(c, g)
  <2>1. /\ TaskGoto(c, g, l) /\ call' = [call EXCEPT ![c].mem[s] = "failed"]
        /\ store' = [store EXCEPT !.log[s] = IF Dead(c, g) THEN @ ELSE "failed"]
    BY <1>4 DEF FailStep
  <2> DEFINE x == IF Dead(c, g) THEN store.log[s] ELSE "failed"
  <2>2. store' = [store EXCEPT !.log[s] = x]
    BY <2>1
  <2> HIDE DEF x
  <2>3. /\ store'.wf = store.wf /\ store'.endings = store.endings
        /\ store'.steps = store.steps /\ store'.decisions = store.decisions
        /\ store'.log = [store.log EXCEPT ![s] = x]
    BY <1>1, <2>2, StoreLog
  <2>4. /\ TaskKept(c, g) /\ Does(c, g, l, "failed", x)
        /\ SameRow(c, g) /\ SameDecision(c, g) /\ SameErrs(c)
    BY <2>1, <2>3, MemDoes
  <2> QED
    BY <1>4, <2>4 DEF FailureKinds, Fails, Records, LogOf, x
<1>5. CASE /\ Fallback[s] = None /\ s \in IgnoreErrors /\ Dead(c, g)
           /\ TaskGoto(c, g, "idle") /\ store' = store /\ call' = call
  BY <1>5, PassDoes DEF FailureKinds
<1>6. CASE /\ Fallback[s] = None /\ s \in IgnoreErrors /\ ~Dead(c, g)
           /\ store' = [store EXCEPT !.log[s] = "completed"]
           /\ call' = [call EXCEPT ![c].mem[s] = "completed"]
           /\ TaskGoto(c, g, "persist_end")
  <2>1. /\ TaskKept(c, g) /\ Does(c, g, "persist_end", "completed", "completed")
        /\ SameRow(c, g) /\ SameDecision(c, g) /\ SameErrs(c)
    BY <1>1, <1>6, StoreLog, MemDoes
  <2> QED
    BY <1>6, <2>1 DEF FailureKinds, Records
<1>7. CASE Retry(c, g)
  BY <1>2, <1>3, <1>7 DEF Retry
<1>8. CASE GiveUp(c, g)
  BY <1>4, <1>5, <1>6, <1>8 DEF GiveUp, FailLabel
<1> QED
  BY <1>7, <1>8 DEF HandleFailure

\* handleStepFailure is entered with a dead context, after a failed action, or
\* when the decision could not be inserted.
Faulted(c, g) ==
  /\ task[c][g].pc \in {"exec", "reexec", "create", "request", "suspend_step", "skip_step"}
  /\ \/ Dead(c, g)
     \/ task[c][g].pc = "exec" /\ task[c][g].step \notin Reasoning
     \/ task[c][g].pc = "reexec"
     \/ task[c][g].pc = "create" /\ DecisionOf(c, g) # "none"

\* executeReasoningStep takes the way the decision shows.
Looks(c, g) ==
  \/ DecisionOf(c, g) \in {"resolved", "expired"} /\ Passes(c, g, "complete")
  \/ DecisionOf(c, g) = "cancelled" /\ Passes(c, g, "skip_step")
  \/ DecisionOf(c, g) = "pending" /\ Passes(c, g, "suspend_step")
  \/ DecisionOf(c, g) = "none" /\ Passes(c, g, "create")

\* The row of the step becomes what memory says.
Persists(c, g) ==
  LET p == task[c][g].pc
      s == task[c][g].step
  IN  /\ p \in DOMAIN AfterPersist /\ task'[c][g].pc = AfterPersist[p]
      /\ task'[c][g].step = IF p = "persist_fallback" THEN Fallback[s] ELSE s
      /\ call'[c].mem = call[c].mem /\ store'.log = store.log
      /\ store'.decisions = store.decisions /\ store'.steps[s] = call[c].mem[s]
      /\ IF p = "persist_failed" THEN AddsError(c, g) ELSE SameErrs(c)

TaskKinds(c, g) ==
  LET p == task[c][g].pc
      s == task[c][g].step
  IN  \/ Errs(c, g)
      \/ Faulted(c, g) /\ FailureKinds(c, g)
      \/ p = "start" /\ ~Dead(c, g) /\ Records(c, g, "persist_running", "running")
      \/ p = "backoff" /\ ~Dead(c, g) /\ Records(c, g, "reexec", "running")
      \/ Persists(c, g)
      \/ p \in {"exec", "reexec"} /\ s \notin Reasoning /\ Passes(c, g, "complete")
      \/ p \in {"exec", "reexec"} /\ s \in MayPanic /\ Passes(c, g, "idle")
      \/ p = "complete" /\ ~Dead(c, g) /\ Records(c, g, "persist_end", "completed")
      \/ p = "exec" /\ ~Dead(c, g) /\ s \in Reasoning /\ Looks(c, g)
      \/ /\ p = "create" /\ ~Dead(c, g) /\ DecisionOf(c, g) = "none"
         /\ Does(c, g, "request", MemOf(c, g), LogOf(c, g))
         /\ store'.decisions[s] = "pending" /\ SameRow(c, g) /\ SameErrs(c)
      \/ /\ p = "request" /\ ~Dead(c, g)
         /\ Does(c, g, "suspend_step", MemOf(c, g), "suspended")
         /\ SameDecision(c, g) /\ SameRow(c, g) /\ SameErrs(c)
      \/ /\ p = "suspend_step" /\ ~Dead(c, g)
         /\ Does(c, g, "persist_end", "suspended", LogOf(c, g))
         /\ SameDecision(c, g) /\ SameRow(c, g) /\ SameErrs(c)
      \/ p = "skip_step" /\ ~Dead(c, g) /\ Records(c, g, "persist_end", "skipped")

LEMMA FaultDoes ==
  ASSUME Typed, NEW c \in Calls, NEW g \in Steps, Faulted(c, g), HandleFailure(c, g)
  PROVE  TaskKept(c, g) /\ TaskKinds(c, g)
<1>1. task[c][g].pc \notin AtRest
  BY DEF Faulted, AtRest
<1> QED
  BY <1>1, FailureDoes DEF TaskKinds

LEMMA ErrorDoes ==
  ASSUME Typed, NEW c \in Calls, NEW g \in Steps, Dead(c, g), TaskError(c, g),
         task[c][g].pc \notin AtRest
  PROVE  TaskKept(c, g) /\ TaskKinds(c, g)
BY ErrDoes DEF TaskKinds

LEMMA LogDoes ==
  ASSUME Typed, NEW c \in Calls, NEW g \in Steps, NEW l, NEW x,
         TaskGoto(c, g, l), call' = [call EXCEPT ![c].mem[task[c][g].step] = x],
         store' = [store EXCEPT !.log[task[c][g].step] = x]
  PROVE  TaskKept(c, g) /\ Records(c, g, l, x)
<1>1. task[c][g].step \in Steps
  BY TaskFacts DEF Typed
<1>2. /\ store'.wf = store.wf /\ store'.endings = store.endings
      /\ store'.steps = store.steps /\ store'.decisions = store.decisions
      /\ store'.log = [store.log EXCEPT ![task[c][g].step] = x]
  BY <1>1, StoreLog
<1> QED
  BY <1>2, MemDoes DEF Records

LEMMA StartDoes ==
  ASSUME Typed, NEW c \in Calls, NEW g \in Steps, StepStart(c, g) \/ Backoff(c, g)
  PROVE  TaskKept(c, g) /\ TaskKinds(c, g)
<1> DEFINE s == task[c][g].step
<1>1. call[c] \in CallType /\ s \in Steps /\ call \in CallTable
  BY TaskFacts DEF Typed
<1>2. CASE TaskAt(c, g, "backoff") /\ Dead(c, g) /\ TaskError(c, g)
  BY <1>2, ErrorDoes DEF TaskAt, AtRest
<1>3. CASE /\ TaskAt(c, g, "backoff") /\ ~Dead(c, g)
           /\ store' = [store EXCEPT !.log[s] = "running"]
           /\ call' = [call EXCEPT ![c].mem[s] = "running"]
           /\ TaskGoto(c, g, "reexec")
  BY <1>3, LogDoes DEF TaskAt, TaskKinds
<1>4. CASE /\ TaskAt(c, g, "start") /\ ~Dead(c, g)
           /\ store' = [store EXCEPT !.log[s] = "running"]
           /\ call' = [call EXCEPT ![c].mem[s] = "running"]
           /\ TaskGoto(c, g, "persist_running")
  BY <1>4, LogDoes DEF TaskAt, TaskKinds
<1>5. CASE /\ TaskAt(c, g, "start") /\ Dead(c, g)
           /\ call' = [call EXCEPT ![c].errs = @ \cup {g},
                         ![c].mem[s] = IF @ = "pending" THEN "scheduled" ELSE @]
           /\ TaskGoto(c, g, "idle") /\ store' = store
  <2> DEFINE m == IF call[c].mem[s] = "pending" THEN "scheduled" ELSE call[c].mem[s]
             q == [call[c] EXCEPT !.errs = @ \cup {g}, !.mem[s] = m]
  <2>1. call' = [call EXCEPT ![c] = q]
    BY <1>1, <1>5 DEF CallTable
  <2> HIDE DEF m
  <2>2. /\ SameOrder(call[c], q) /\ q.pc = call[c].pc /\ q.level = call[c].level
        /\ q.todo = call[c].todo /\ q.ctx = call[c].ctx
        /\ q.errs = call[c].errs \cup {g} /\ q.mem[s] = m
        /\ \A u \in Steps \ {s} : q.mem[u] = call[c].mem[u]
    BY <1>1 DEF CallType, SameOrder
  <2> HIDE DEF q
  <2>3. call'[c] = q /\ OnlyCall(c)
    BY <1>1, <2>1 DEF CallTable, OnlyCall
  <2>4. /\ task'[c][g].pc = "idle" /\ task'[c][g].step = task[c][g].step
        /\ \A h \in Steps : h # g => task'[c][h] = task[c][h]
        /\ \A d \in Calls \ {c} : task'[d] = task[d]
    BY <1>5, GoesTo
  <2>5. TaskKept(c, g)
    BY <1>5, <2>2, <2>3, <2>4 DEF TaskKept
  <2>6. Errs(c, g)
    BY <1>5, <2>2, <2>3, <2>4
    DEF Errs, Does, MemOf, LogOf, SameRow, SameDecision, AddsError, TaskAt, AtRest, m
  <2> QED
    BY <2>5, <2>6 DEF TaskKinds
<1> QED
  BY <1>2, <1>3, <1>4, <1>5 DEF StepStart, Backoff

LEMMA PersistDoes ==
  ASSUME Typed, NEW c \in Calls, NEW g \in Steps, Persist(c, g)
  PROVE  TaskKept(c, g) /\ TaskKinds(c, g)
<1> DEFINE s == task[c][g].step
           p == task[c][g].pc
           f == IF p = "persist_fallback" THEN Fallback[s] ELSE s
<1>1. /\ call[c] \in CallType /\ s \in Steps /\ call \in CallTable
      /\ task \in TaskTable /\ store \in StoreType
  BY TaskFacts, Tables DEF Typed
<1>2. /\ p \in DOMAIN AfterPersist /\ store' = [store EXCEPT !.steps[s] = call[c].mem[s]]
      /\ task' = [task EXCEPT ![c][g].pc = AfterPersist[p], ![c][g].step = f]
      /\ call' = IF p = "persist_failed"
                 THEN [call EXCEPT ![c].errs = @ \cup {g}] ELSE call
  BY DEF Persist, TaskAt
<1> DEFINE t == [task[c][g] EXCEPT !.pc = AfterPersist[p], !.step = f]
<1>3. task' = [task EXCEPT ![c] = [task[c] EXCEPT ![g] = t]]
  BY <1>1, <1>2 DEF TaskTable
<1>4. t.pc = AfterPersist[p] /\ t.step = f
  BY <1>1 DEF TaskTable, TaskType
<1> HIDE DEF t
<1>5. /\ task'[c][g] = t /\ \A h \in Steps \ {g} : task'[c][h] = task[c][h]
      /\ \A d \in Calls \ {c} : task'[d] = task[d]
  BY <1>1, <1>3 DEF TaskTable
<1>6. /\ OnlyCall(c) /\ SameOrder(call[c], call'[c]) /\ call'[c].pc = call[c].pc
      /\ call'[c].level = call[c].level /\ call'[c].todo = call[c].todo
      /\ call'[c].ctx = call[c].ctx /\ call'[c].mem = call[c].mem
      /\ IF p = "persist_failed" THEN AddsError(c, g) ELSE SameErrs(c)
  <2>1. CASE p = "persist_failed"
    BY <1>1, <1>2, <2>1 DEF OnlyCall, SameOrder, AddsError, CallTable, CallType
  <2>2. CASE p # "persist_failed"
    BY <1>2, <2>2 DEF OnlyCall, SameOrder, SameErrs
  <2> QED
    BY <2>1, <2>2
<1>7. /\ store'.wf = store.wf /\ store'.endings = store.endings
      /\ store'.log = store.log /\ store'.decisions = store.decisions
      /\ store'.steps[s] = call[c].mem[s]
      /\ \A u \in Steps \ {s} : store'.steps[u] = store.steps[u]
  BY <1>1, <1>2 DEF StoreType
<1>8. TaskKept(c, g)
  BY <1>5, <1>6, <1>7 DEF TaskKept
<1>9. Persists(c, g)
  BY <1>2, <1>4, <1>5, <1>6, <1>7 DEF Persists
<1> QED
  BY <1>8, <1>9 DEF TaskKinds

LEMMA ActionDoes ==
  ASSUME Typed, NEW c \in Calls, NEW g \in Steps,
         ActionSucceeds(c, g) \/ ActionFails(c, g) \/ ActionPanics(c, g)
  PROVE  TaskKept(c, g) /\ TaskKinds(c, g)
<1> DEFINE s == task[c][g].step
           p == task[c][g].pc
<1>1. CASE ActionSucceeds(c, g) /\ TaskAt(c, g, "exec") /\ PastDeadline(c, g)
  <2>1. HandleFailure(c, g)
    BY <1>1 DEF ActionSucceeds
  <2>2. Faulted(c, g)
    BY <1>1 DEF ActionSucceeds, Faulted, TaskAt
  <2> QED
    BY <2>1, <2>2, FaultDoes
<1>2. CASE ActionSucceeds(c, g) /\ ~(TaskAt(c, g, "exec") /\ PastDeadline(c, g))
  <2>1. /\ p \in {"exec", "reexec"} /\ s \notin Reasoning
        /\ TaskGoto(c, g, "complete") /\ store' = store /\ call' = call
    BY <1>2 DEF ActionSucceeds, TaskAt
  <2> QED
    BY <2>1, PassDoes DEF TaskKinds
<1>3. CASE ActionFails(c, g)
  <2>1. HandleFailure(c, g)
    BY <1>3 DEF ActionFails
  <2>2. Faulted(c, g)
    BY <1>3 DEF ActionFails, Faulted, TaskAt
  <2> QED
    BY <2>1, <2>2, FaultDoes
<1>4. CASE ActionPanics(c, g)
  <2>1. /\ p \in {"exec", "reexec"} /\ s \in MayPanic
        /\ TaskGoto(c, g, "idle") /\ store' = store /\ call' = call
    BY <1>4 DEF ActionPanics, TaskAt
  <2> QED
    BY <2>1, PassDoes DEF TaskKinds
<1> QED
  BY <1>1, <1>2, <1>3, <1>4

LEMMA CompleteDoes ==
  ASSUME Typed, NEW c \in Calls, NEW g \in Steps, Complete(c, g)
  PROVE  TaskKept(c, g) /\ TaskKinds(c, g)
<1> DEFINE s == task[c][g].step
<1>1. call[c] \in CallType /\ s \in Steps /\ call \in CallTable
  BY TaskFacts DEF Typed
<1>2. CASE Dead(c, g) /\ TaskError(c, g)
  BY <1>2, ErrorDoes DEF Complete, TaskAt, AtRest
<1>3. CASE /\ ~Dead(c, g) /\ store' = [store EXCEPT !.log[s] = "completed"]
           /\ call' = [call EXCEPT ![c].mem[s] = "completed",
                         ![c].outputs = IF s \in Reasoning THEN @ ELSE @ \cup {s}]
           /\ TaskGoto(c, g, "persist_end")
  <2> DEFINE o == IF s \in Reasoning THEN call[c].outputs ELSE call[c].outputs \cup {s}
             q == [call[c] EXCEPT !.mem[s] = "completed", !.outputs = o]
  <2>1. call' = [call EXCEPT ![c] = q]
    BY <1>1, <1>3 DEF CallTable
  <2> HIDE DEF o
  <2>2. /\ SameOrder(call[c], q) /\ q.pc = call[c].pc /\ q.level = call[c].level
        /\ q.todo = call[c].todo /\ q.ctx = call[c].ctx /\ q.errs = call[c].errs
        /\ q.mem = [call[c].mem EXCEPT ![s] = "completed"]
    BY <1>1 DEF CallType, SameOrder
  <2> HIDE DEF q
  <2>3. call'[c] = q /\ OnlyCall(c)
    BY <1>1, <2>1 DEF CallTable, OnlyCall
  <2>4. /\ store'.wf = store.wf /\ store'.endings = store.endings
        /\ store'.steps = store.steps /\ store'.decisions = store.decisions
        /\ store'.log = [store.log EXCEPT ![s] = "completed"]
    BY <1>1, <1>3, StoreLog
  <2>5. /\ TaskKept(c, g) /\ Does(c, g, "persist_end", "completed", "completed")
        /\ SameRow(c, g) /\ SameDecision(c, g) /\ SameErrs(c)
    BY <1>3, <2>2, <2>3, <2>4, RecordDoes
  <2> QED
    BY <1>3, <2>5 DEF TaskKinds, Records, Complete, TaskAt
<1> QED
  BY <1>2, <1>3 DEF Complete

LEMMA ReasonDoes ==
  ASSUME Typed, NEW c \in Calls, NEW g \in Steps, ReasonLookup(c, g)
  PROVE  TaskKept(c, g) /\ TaskKinds(c, g)
<1> DEFINE s == task[c][g].step
           d == store.decisions[s]
<1>1. /\ task[c][g].pc = "exec" /\ s \in Reasoning
  BY DEF ReasonLookup, TaskAt
<1>2. CASE Dead(c, g) /\ HandleFailure(c, g)
  BY <1>1, <1>2, FaultDoes DEF Faulted
<1>3. CASE ~Dead(c, g) /\ ~(Dead(c, g) /\ HandleFailure(c, g))
  <2> DEFINE l == CASE d \in {"resolved", "expired"} -> "complete"
                    [] d = "cancelled" -> "skip_step"
                    [] d = "pending"   -> "suspend_step"
                    [] d = "none"      -> "create"
  <2>1. TaskGoto(c, g, l) /\ store' = store /\ call' = call
    BY <1>3 DEF ReasonLookup
  <2>2. d \in Decisions
    BY TaskFacts, Tables DEF Typed, StoreType
  <2>3. TaskKept(c, g) /\ Passes(c, g, l)
    BY <2>1, PassDoes
  <2>4. \/ d \in {"resolved", "expired"} /\ l = "complete"
        \/ d = "cancelled" /\ l = "skip_step"
        \/ d = "pending" /\ l = "suspend_step"
        \/ d = "none" /\ l = "create"
    BY <2>2 DEF Decisions
  <2> HIDE DEF l
  <2>5. Looks(c, g)
    BY <2>3, <2>4 DEF Looks, DecisionOf
  <2> QED
    BY <1>1, <1>3, <2>3, <2>5 DEF TaskKinds
<1> QED
  BY <1>2, <1>3 DEF ReasonLookup

LEMMA DecisionDoes ==
  ASSUME Typed, NEW c \in Calls, NEW g \in Steps,
         CreateDecision(c, g) \/ RequestDecision(c, g)
  PROVE  TaskKept(c, g) /\ TaskKinds(c, g)
<1> DEFINE s == task[c][g].step
<1>1. s \in Steps /\ store \in StoreType
  BY TaskFacts, Tables DEF Typed
<1>2. CASE /\ HandleFailure(c, g)
           /\ Dead(c, g) \/ (task[c][g].pc = "create" /\ store.decisions[s] # "none")
  BY <1>2, FaultDoes
  DEF CreateDecision, RequestDecision, TaskAt, Faulted, DecisionOf
<1>3. CASE /\ task[c][g].pc = "create" /\ ~Dead(c, g) /\ store.decisions[s] = "none"
           /\ store' = [store EXCEPT !.decisions[s] = "pending"]
           /\ TaskGoto(c, g, "request") /\ call' = call
  <2>1. /\ store'.wf = store.wf /\ store'.endings = store.endings
        /\ store'.steps = store.steps /\ store'.log = store.log
        /\ store'.decisions[s] = "pending"
        /\ \A u \in Steps \ {s} : store'.decisions[u] = store.decisions[u]
    BY <1>1, <1>3 DEF StoreType
  <2>2. /\ task'[c][g].pc = "request" /\ task'[c][g].step = s
        /\ \A h \in Steps : h # g => task'[c][h] = task[c][h]
        /\ \A d \in Calls \ {c} : task'[d] = task[d]
    BY <1>3, GoesTo
  <2>3. TaskKept(c, g)
    BY <1>3, <2>1, <2>2 DEF TaskKept, OnlyCall, SameOrder
  <2> QED
    BY <1>3, <2>1, <2>2, <2>3
    DEF TaskKinds, Does, MemOf, LogOf, DecisionOf, SameRow, SameErrs
<1>4. CASE /\ task[c][g].pc = "request" /\ ~Dead(c, g)
           /\ store' = [store EXCEPT !.log[s] = "suspended"]
           /\ TaskGoto(c, g, "suspend_step") /\ call' = call
  <2>1. /\ store'.wf = store.wf /\ store'.endings = store.endings
        /\ store'.steps = store.steps /\ store'.decisions = store.decisions
        /\ store'.log[s] = "suspended"
        /\ \A u \in Steps \ {s} : store'.log[u] = store.log[u]
    BY <1>1, <1>4 DEF StoreType
  <2>2. /\ task'[c][g].pc = "suspend_step" /\ task'[c][g].step = s
        /\ \A h \in Steps : h # g => task'[c][h] = task[c][h]
        /\ \A d \in Calls \ {c} : task'[d] = task[d]
    BY <1>4, GoesTo
  <2>3. TaskKept(c, g)
    BY <1>4, <2>1, <2>2 DEF TaskKept, OnlyCall, SameOrder
  <2> QED
    BY <1>4, <2>1, <2>2, <2>3
    DEF TaskKinds, Does, MemOf, SameRow, SameDecision, SameErrs
<1> QED
  BY <1>2, <1>3, <1>4 DEF CreateDecision, RequestDecision, TaskAt

LEMMA SettleDoes ==
  ASSUME Typed, NEW c \in Calls, NEW g \in Steps, SuspendStep(c, g) \/ SkipStep(c, g)
  PROVE  TaskKept(c, g) /\ TaskKinds(c, g)
<1> DEFINE s == task[c][g].step
<1>1. s \in Steps
  BY TaskFacts DEF Typed
<1>2. CASE Dead(c, g) /\ HandleFailure(c, g)
  BY <1>2, FaultDoes DEF SuspendStep, SkipStep, TaskAt, Faulted
<1>3. CASE /\ task[c][g].pc = "suspend_step" /\ ~Dead(c, g)
           /\ call' = [call EXCEPT ![c].mem[s] = "suspended"]
           /\ TaskGoto(c, g, "persist_end") /\ store' = store
  <2>1. /\ store'.wf = store.wf /\ store'.endings = store.endings
        /\ store'.steps = store.steps /\ store'.decisions = store.decisions
        /\ store'.log = [store.log EXCEPT ![s] = store.log[s]]
    BY <1>1, <1>3, StoreSame
  <2>2. /\ TaskKept(c, g) /\ Does(c, g, "persist_end", "suspended", store.log[s])
        /\ SameRow(c, g) /\ SameDecision(c, g) /\ SameErrs(c)
    BY <1>3, <2>1, MemDoes
  <2> QED
    BY <1>3, <2>2 DEF TaskKinds, LogOf
<1>4. CASE /\ task[c][g].pc = "skip_step" /\ ~Dead(c, g)
           /\ store' = [store EXCEPT !.log[s] = "skipped"]
           /\ call' = [call EXCEPT ![c].mem[s] = "skipped"]
           /\ TaskGoto(c, g, "persist_end")
  BY <1>4, LogDoes DEF TaskKinds
<1> QED
  BY <1>2, <1>3, <1>4 DEF SuspendStep, SkipStep, TaskAt

\* Every step of a goroutine is of one of these kinds.
LEMMA TaskDoes ==
  ASSUME Typed, NEW c \in Calls, NEW g \in Steps, TaskStep(c, g)
  PROVE  TaskKept(c, g) /\ TaskKinds(c, g)
BY StartDoes, PersistDoes, ActionDoes, CompleteDoes, ReasonDoes, DecisionDoes, SettleDoes,
   Zenon
DEF TaskStep

-----------------------------------------------------------------------------
(* The status of the workflow. *)

\* One call moves, the others are out.
LEMMA StatusMoves ==
  ASSUME StatusKnown, NEW c \in Calls, call[c].pc \notin OutOfCall,
         \A d \in Calls \ {c} : call'[d].pc = call[d].pc,
         StatusFits(store'.wf, call'[c])
  PROVE  StatusKnown'
<1>1. \A d \in Calls \ {c} : call'[d].pc \in OutOfCall
  BY DEF StatusKnown, Alone
<1>2. \A d \in Calls \ {c} : StatusFits(store'.wf, call'[d])
  BY <1>1 DEF StatusFits, OutOfCall, ActiveLabels
<1> QED
  BY <1>1, <1>2 DEF StatusKnown, Alone

LEMMA StatusSame ==
  ASSUME StatusKnown, store'.wf = store.wf, \A d \in Calls : SamePlace(call[d], call'[d])
  PROVE  StatusKnown'
<1>1. \A d \in Calls : StatusFits(store'.wf, call'[d])
  BY DEF StatusKnown, StatusFits, SamePlace
<1>2. Alone'
  BY DEF StatusKnown, Alone, SamePlace
<1> QED
  BY <1>1, <1>2 DEF StatusKnown

LEMMA CallIsActive ==
  ASSUME NEW c \in Calls, CallStep(c)
  PROVE  call[c].pc \notin OutOfCall
BY DEF CallStep, RunUpdate, RunInitSteps, RunRegister, BeginLevel, EndLevels,
    LevelDone, Submit, RejectSubmit, ResumeExpire, SuspendWorkflow, ContextError,
    FinishEvent, FinishUpdate, Unregister, SignalApply, ResumeLoad,
    ResumeReplay, ResumeList, ResumeExpireEvent, ResumeExpireFail,
    ResumeActivate, ResumeRegister, CancelEvent, CancelUpdate, CancelSteps,
    CancelRun, At, OutOfCall

StatusFinal == store.wf \in TerminalWorkflow => store'.wf = store.wf

\* The labels at which a call writes the row of the workflow do not follow a
\* terminal status, and the one at which it repeats its verdict does.
LEMMA CallStatus ==
  ASSUME Typed, StatusKnown, NEW c \in Calls, CallStep(c)
  PROVE  StatusKnown' /\ StatusFinal
<1>1. TypeOK /\ call[c].pc \notin OutOfCall /\ StatusFits(store.wf, call[c])
  BY CallIsActive DEF Typed, StatusKnown
<1>2. ASSUME \A d \in Calls \ {c} : call'[d].pc = call[d].pc,
             StatusFits(store'.wf, call'[c]), StatusFinal
      PROVE  StatusKnown' /\ StatusFinal
  BY <1>1, <1>2, StatusMoves
<1> USE DEF Goes, OnlyCall, StatusFits, StatusFinal, TerminalWorkflow, ActiveLabels
<1>3. CASE RunUpdate(c) \/ RunInitSteps(c) \/ RunRegister(c)
  BY <1>1, <1>2, <1>3, RunEffects
<1>4. CASE BeginLevel(c)
  BY <1>1, <1>2, <1>4, BeginLevelEffect
<1>5. CASE EndLevels(c)
  BY <1>1, <1>2, <1>5, EndLevelsEffect
<1>6. CASE LevelDone(c)
  BY <1>1, <1>2, <1>6, LevelDoneEffect
<1>7. ASSUME NEW s \in Steps, Submit(c, s) \/ RejectSubmit(c, s)
      PROVE  StatusKnown' /\ StatusFinal
  BY <1>1, <1>2, <1>7, SubmitEffects
<1>8. CASE SuspendWorkflow(c) \/ FinishEvent(c) \/ FinishUpdate(c) \/ Unregister(c)
  BY <1>1, <1>2, <1>8, EndEffects DEF SameOrder
<1>9. CASE ContextError(c)
  BY <1>1, <1>2, <1>9, ContextErrorEffect
<1>10. CASE SignalApply(c)
  BY <1>1, <1>2, <1>10, SignalApplyEffect DEF SameLog
<1>11. CASE ResumeLoad(c) \/ ResumeReplay(c) \/ ResumeList(c) \/ ResumeActivate(c)
            \/ ResumeRegister(c)
  BY <1>1, <1>2, <1>11, ResumeEffects DEF SameOrder
<1>12. ASSUME NEW s \in Steps, ResumeExpire(c, s)
       PROVE  StatusKnown' /\ StatusFinal
  BY <1>1, <1>2, <1>12, ExpireEffects DEF SameLog
<1>13. CASE ResumeExpireEvent(c) \/ ResumeExpireFail(c)
  BY <1>1, <1>2, <1>13, ExpireEffects
<1>14. CASE CancelEvent(c) \/ CancelUpdate(c) \/ CancelSteps(c) \/ CancelRun(c)
  BY <1>1, <1>2, <1>14, CancelEffects DEF SamePlace
<1> HIDE DEF StatusFinal, StatusFits
<1> QED
  BY <1>3, <1>4, <1>5, <1>6, <1>7, <1>8, <1>9, <1>10, <1>11, <1>12, <1>13, <1>14, Zenon
  DEF CallStep

\* A call arrives only when no other is in progress.
LEMMA NobodyElse ==
  ASSUME MaxInFlight <= 1, StatusKnown, Cardinality(InFlight) < MaxInFlight
  PROVE  \A c \in Calls : call[c].pc \in OutOfCall
<1>1. SUFFICES ASSUME NEW c \in Calls, call[c].pc \notin OutOfCall PROVE FALSE
  OBVIOUS
<1>2. InFlight = {c}
  BY <1>1 DEF StatusKnown, Alone, InFlight, OutOfCall
<1>3. Cardinality(InFlight) = 1
  BY <1>2, FS_Singleton
<1> QED
  BY <1>3, ConstantsAssumption

LEMMA ArrivalStatus ==
  ASSUME MaxInFlight <= 1, Typed, StatusKnown, NEW c \in Calls, Arrivals(c)
  PROVE  StatusKnown' /\ StatusFinal
<1>1. TypeOK
  BY DEF Typed
<1>2. /\ store'.wf = store.wf /\ Cardinality(InFlight) < MaxInFlight
      /\ \A d \in Calls \ {c} : call'[d].pc = call[d].pc
  BY <1>1, ArrivalEffect DEF SameLog
<1>3. \A d \in Calls \ {c} : call'[d].pc \in OutOfCall
  BY <1>2, NobodyElse
<1>4. \A d \in Calls \ {c} : StatusFits(store'.wf, call'[d])
  BY <1>3 DEF StatusFits, OutOfCall, ActiveLabels
<1>5. StatusFits(store'.wf, call'[c])
  <2>1. store.wf \in WorkflowStatuses
    BY <1>1, Tables DEF StoreType
  <2>2. "cancelled" \in ValidWorkflowTransitions[store.wf]
        => store.wf \in {"pending", "active", "suspended"}
    BY <2>1 DEF ValidWorkflowTransitions, WorkflowStatuses
  <2> QED
    BY <1>1, <1>2, <2>2, ArrivalEffect DEF StatusFits, ActiveLabels
<1> QED
  BY <1>2, <1>3, <1>4, <1>5 DEF StatusKnown, Alone, StatusFinal

LEMMA TaskStatus ==
  ASSUME Typed, StatusKnown, NEW c \in Calls, NEW g \in Steps, TaskStep(c, g)
  PROVE  StatusKnown' /\ StatusFinal
<1>1. TaskKept(c, g)
  BY TaskDoes
<1>2. /\ store'.wf = store.wf
      /\ \A d \in Calls : SamePlace(call[d], call'[d])
  BY <1>1 DEF TaskKept, OnlyCall, SameOrder, SamePlace
<1> QED
  BY <1>2, StatusSame DEF StatusFinal

LEMMA EnvironmentStatus ==
  ASSUME Typed, StatusKnown, Environment \/ Finished \/ UNCHANGED vars
  PROVE  StatusKnown' /\ StatusFinal
<1>1. TypeOK
  BY DEF Typed
<1>2. CASE Passive
  <2>1. /\ store'.wf = store.wf
        /\ \A d \in Calls : SamePlace(call[d], call'[d])
    BY <1>2 DEF Passive, SameCall, SameOrder, SamePlace
  <2> QED
    BY <2>1, StatusSame DEF StatusFinal
<1>3. CASE Crashed
  <2>1. \A d \in Calls : StatusFits(store'.wf, call'[d])
    BY <1>3 DEF Crashed, StatusFits, OutOfCall, ActiveLabels
  <2> QED
    BY <1>3, <2>1 DEF Crashed, StatusKnown, Alone, StatusFinal, TerminalWorkflow
<1> QED
  BY <1>1, <1>2, <1>3, EnvironmentEffect

LEMMA InitStatus == Init => StatusKnown
BY DEF Init, IdleCall, StatusKnown, Alone, StatusFits, OutOfCall, ActiveLabels

LEMMA NextStatus ==
  ASSUME MaxInFlight <= 1, Typed, StatusKnown, [Next]_vars
  PROVE  StatusKnown' /\ StatusFinal
BY CallStatus, ArrivalStatus, TaskStatus, EnvironmentStatus DEF Next

\* Where an agent waits for each answer before its next call, the status a
\* workflow ends in is final, through crashes, the startup scan, deadlines,
\* cancellations and expired decisions: no call reaches one of its writes of the
\* row (executor.go:721, 1375-1398, 1129, 244, 1081) after another has ended
\* the workflow.
THEOREM EndIsFinal ==
  ASSUME MaxInFlight <= 1
  PROVE  Spec => TerminalIsFinal
<1>1. Init => Typed /\ StatusKnown
  BY InitTyped, InitStatus
<1>2. Typed /\ StatusKnown /\ [Next]_vars
        => (Typed /\ StatusKnown)' /\ [StatusFinal]_vars
  BY NextTyped, NextStatus
<1>3. Spec => [][StatusFinal]_vars
  BY <1>1, <1>2, PTL DEF Spec
<1> QED
  BY <1>3 DEF TerminalIsFinal, StatusFinal

-----------------------------------------------------------------------------
(* The steps of the lifecycle. *)

LifeStep == [Lifecycle!LifecycleNext]_(Lifecycle!lifecycleVars)

\* A step that records no outcome and leaves the status is none of the
\* lifecycle.
LEMMA LifeStutters ==
  ASSUME store'.wf = store.wf,
         \A s \in Steps : Terminal(store'.log[s]) \/ Terminal(store.log[s])
                            => store'.log[s] = store.log[s]
  PROVE  LifeStep
BY DEF LifeStep, Lifecycle!lifecycleVars, Terminal

LEMMA LifeMoves ==
  ASSUME store.wf \in WorkflowStatuses, store'.wf \in ValidWorkflowTransitions[store.wf],
         store'.wf \in WorkflowStatuses,
         store'.log = store.log,
         store'.wf = "completed" => \A s \in Steps : Terminal(store.log[s])
  PROVE  LifeStep
<1>1. Lifecycle!Move(store'.wf)
  BY DEF Lifecycle!Move, Terminal, IsTerminalStep, ValidWorkflowTransitions,
         Lifecycle!ValidWorkflowTransitions
<1>2. store'.wf \in Lifecycle!WorkflowStatuses
  BY DEF WorkflowStatuses, Lifecycle!WorkflowStatuses
<1>3. \E to \in Lifecycle!WorkflowStatuses : Lifecycle!Move(to)
  BY <1>1, <1>2, Zenon
<1> QED
  BY <1>3 DEF LifeStep, Lifecycle!LifecycleNext

LEMMA LifeSettles ==
  ASSUME store.wf = "active", store'.wf = store.wf, NEW s \in Steps,
         \A u \in Steps \ {s} : store'.log[u] = store.log[u],
         Terminal(store.log[s]) => store'.log[s] = store.log[s]
  PROVE  LifeStep
<1>1. CASE Terminal(store'.log[s]) /\ ~Terminal(store.log[s])
  <2>1. PICK outcome \in Lifecycle!StepOutcomes : outcome = store'.log[s]
    BY <1>1 DEF Lifecycle!StepOutcomes, Terminal, IsTerminalStep
  <2>2. Lifecycle!Settle(s, outcome)
    BY <1>1, <2>1 DEF Lifecycle!Settle, Terminal, IsTerminalStep
  <2> QED
    BY <2>2 DEF LifeStep, Lifecycle!LifecycleNext
<1>2. CASE Terminal(store'.log[s]) => Terminal(store.log[s])
  <2>1. \A u \in Steps : Terminal(store'.log[u]) \/ Terminal(store.log[u])
                           => store'.log[u] = store.log[u]
    BY <1>2
  <2> QED
    BY <2>1, LifeStutters
<1> QED
  BY <1>1, <1>2

\* resolveExpiredDecisions fails the step of a workflow that is suspended.
LEMMA LifeAbandons ==
  ASSUME store.wf \in {"active", "suspended"}, store'.wf = store.wf, NEW s \in Steps,
         \A u \in Steps \ {s} : store'.log[u] = store.log[u],
         ~Terminal(store.log[s]), store'.log[s] = "failed"
  PROVE  LifeStep
<1>1. Lifecycle!Abandon({s}, "failed")
  BY DEF Lifecycle!Abandon, Terminal, IsTerminalStep
<1> QED
  BY <1>1 DEF LifeStep, Lifecycle!LifecycleNext

-----------------------------------------------------------------------------
(* The outcomes in the log. *)

LEMMA IdleWork ==
  ASSUME NEW st, NEW r, NEW t, \A g \in Steps : t[g].pc = "idle"
  PROVE  AtWork(st, r, t)
BY DEF AtWork, AtRest

LEMMA OutTracked ==
  ASSUME NEW st, NEW r, NEW t, \A g \in Steps : t[g].pc = "idle", OwnStep(t),
         r.pc \in OutOfCall
  PROVE  Tracked(st, r, t)
BY IdleWork DEF Tracked, Knows, Logged, Ahead, Remembering, OutOfCall, CancelLabels

\* One call moves, the others are out.
LEMMA TracksMove ==
  ASSUME LevelInv, StatusKnown, OutcomesTracked, NEW c \in Calls,
         call[c].pc \notin OutOfCall,
         \A d \in Calls \ {c} : call'[d].pc = call[d].pc /\ task'[d] = task[d],
         FreshLog', DecisionsReasoned', PendingOpen',
         Tracked(store', call'[c], task'[c])
  PROVE  OutcomesTracked'
<1>1. ASSUME NEW d \in Calls, d # c
      PROVE  Tracked(store', call'[d], task'[d])
  <2>1. call[d].pc \in OutOfCall
    BY <1>1 DEF StatusKnown, Alone
  <2>2. \A g \in Steps : task[d][g].pc = "idle"
    BY <2>1, NoGoroutines DEF OutOfCall
  <2>3. OwnStep(task[d])
    BY DEF OutcomesTracked, Tracked
  <2>4. /\ task'[d] = task[d] /\ call'[d].pc \in OutOfCall
    BY <1>1, <2>1
  <2> QED
    BY <2>2, <2>3, <2>4, OutTracked
<1> QED
  BY <1>1 DEF OutcomesTracked

SameOutcomes == store'.log = store.log /\ store'.decisions = store.decisions

\* A call without goroutines moves, and writes no outcome.
LEMMA TracksGo ==
  ASSUME LevelInv, StatusKnown, OutcomesTracked, NEW c \in Calls, NEW l, NEW m,
         Goes(c, l, m), l \notin OutOfCall, \A g \in Steps : task[c][g].pc = "idle",
         SameOutcomes, store'.wf = "pending" => store.wf = "pending",
         Knows(store', call'[c]), Logged(store', call'[c], task[c]),
         Ahead(store', call'[c]), m \notin CancelLabels
  PROVE  OutcomesTracked'
<1>1. /\ call[c].pc \notin OutOfCall /\ task' = task /\ call'[c].pc = m
      /\ \A d \in Calls \ {c} : call'[d].pc = call[d].pc
  BY DEF Goes, OnlyCall
<1>2. FreshLog' /\ DecisionsReasoned' /\ PendingOpen'
  BY DEF SameOutcomes, OutcomesTracked, FreshLog, DecisionsReasoned, PendingOpen
<1>3. OwnStep(task[c])
  BY DEF OutcomesTracked, Tracked
<1>4. Tracked(store', call'[c], task[c])
  BY <1>1, <1>3, IdleWork DEF Tracked
<1> QED
  BY <1>1, <1>2, <1>4, TracksMove

LEMMA RunTracks ==
  ASSUME Typed, LevelInv, StatusKnown, OutcomesTracked, NEW c \in Calls,
         RunUpdate(c) \/ RunInitSteps(c) \/ RunRegister(c)
  PROVE  OutcomesTracked' /\ LifeStep
<1>1. /\ TypeOK /\ Tracked(store, call[c], task[c]) /\ StatusFits(store.wf, call[c])
  BY DEF Typed, OutcomesTracked, StatusKnown
<1>2. CASE RunUpdate(c)
  <2>1. /\ Goes(c, "run_update", "run_init") /\ SameOutcomes
        /\ call'[c].mem = call[c].mem /\ store'.wf = "active" /\ store.wf = "pending"
        /\ call[c].pc = "run_update" /\ call'[c].pc = "run_init"
    BY <1>1, <1>2, RunEffects DEF SameWork, SameSteps, SameOutcomes, StatusFits, Goes
  <2>2. /\ Knows(store', call'[c]) /\ Logged(store', call'[c], task[c])
        /\ Ahead(store', call'[c])
    BY <1>1, <2>1 DEF Tracked, Knows, Logged, Ahead, Remembering, SameOutcomes
  <2>3. \A g \in Steps : task[c][g].pc = "idle"
    BY <2>1, NoGoroutines
  <2>4. OutcomesTracked'
    BY <2>1, <2>2, <2>3, TracksGo DEF OutOfCall, CancelLabels
  <2>5. LifeStep
    BY <2>1, LifeMoves DEF SameOutcomes, WorkflowStatuses, ValidWorkflowTransitions
  <2> QED
    BY <2>4, <2>5
<1>3. CASE RunInitSteps(c) \/ RunRegister(c)
  <2>1. \/ Goes(c, "run_init", "run_register")
        \/ Goes(c, "run_register", "level")
    BY <1>1, <1>3, RunEffects
  <2>2. SameOutcomes /\ call'[c].mem = call[c].mem /\ store'.wf = store.wf
    BY <1>1, <1>3, RunEffects DEF SameWork, SameOutcomes
  <2>3. /\ Knows(store', call'[c]) /\ Logged(store', call'[c], task[c])
        /\ Ahead(store', call'[c])
    BY <1>1, <2>1, <2>2 DEF Goes, Tracked, Knows, Logged, Ahead, Remembering, SameOutcomes
  <2>4. \A g \in Steps : task[c][g].pc = "idle"
    BY <2>1, NoGoroutines DEF Goes
  <2>5. OutcomesTracked'
    BY <2>1, <2>2, <2>3, <2>4, TracksGo DEF OutOfCall, CancelLabels
  <2>6. LifeStep
    BY <2>2, LifeStutters DEF SameOutcomes
  <2> QED
    BY <2>5, <2>6
<1> QED
  BY <1>2, <1>3

\* The same, when the status of the workflow does not change either.
LEMMA TracksOn ==
  ASSUME LevelInv, StatusKnown, OutcomesTracked, NEW c \in Calls, NEW l, NEW m,
         Goes(c, l, m), l \notin OutOfCall, \A g \in Steps : task[c][g].pc = "idle",
         store' = store,
         Knows(store, call'[c]), Logged(store, call'[c], task[c]),
         Ahead(store, call'[c]), m \notin CancelLabels
  PROVE  OutcomesTracked' /\ LifeStep
<1>1. SameOutcomes /\ store'.wf = store.wf
  BY DEF SameOutcomes
<1>2. LifeStep
  BY <1>1, LifeStutters DEF SameOutcomes
<1>3. /\ Knows(store', call'[c]) /\ Logged(store', call'[c], task[c])
      /\ Ahead(store', call'[c])
  OBVIOUS
<1> QED
  BY <1>1, <1>2, <1>3, TracksGo

LEMMA BeginTracks ==
  ASSUME Typed, LevelInv, StatusKnown, OutcomesTracked, NEW c \in Calls, BeginLevel(c)
  PROVE  OutcomesTracked' /\ LifeStep
<1>1. /\ TypeOK /\ Tracked(store, call[c], task[c])
  BY DEF Typed, OutcomesTracked
<1>2. /\ Goes(c, "level", "submit") /\ store' = store /\ call'[c].mem = call[c].mem
      /\ call'[c].todo = {s \in LevelSteps(c) : ~IsTerminalStep(call[c].mem[s])}
      /\ call[c].pc = "level" /\ call'[c].pc = "submit"
  BY <1>1, BeginLevelEffect DEF Goes
<1>3. \A g \in Steps : task[c][g].pc = "idle"
  BY <1>2, NoGoroutines
<1>4. Knows(store, call'[c]) /\ Logged(store, call'[c], task[c])
  BY <1>1, <1>2 DEF Tracked, Knows, Logged, Remembering
<1>5. Ahead(store, call'[c])
  BY <1>2 DEF Ahead, Terminal
<1> QED
  BY <1>2, <1>3, <1>4, <1>5, TracksOn DEF OutOfCall, CancelLabels

\* After the last level every step has an outcome in the log.
LEMMA EndLevelsTracks ==
  ASSUME Typed, LevelInv, StatusKnown, OutcomesTracked, NEW c \in Calls, EndLevels(c)
  PROVE  OutcomesTracked' /\ LifeStep
<1>1. /\ TypeOK /\ Tracked(store, call[c], task[c]) /\ Ordered(call[c], task[c])
      /\ call[c].pc = "level" /\ call[c] \in CallType
  BY Tables DEF Typed, OutcomesTracked, LevelInv, EndLevels, At, CallTable
<1>2. store' = store /\ call'[c].mem = call[c].mem
  BY <1>1, EndLevelsEffect DEF SameWork
<1>3. \A g \in Steps : task[c][g].pc = "idle"
  BY <1>1, NoGoroutines
<1>4. CASE Goes(c, "level", "ctx_error")
  <2>1. /\ Knows(store, call'[c]) /\ Logged(store, call'[c], task[c])
        /\ Ahead(store, call'[c])
    BY <1>1, <1>2, <1>4 DEF Goes, Tracked, Knows, Logged, Ahead, Remembering
  <2> QED
    BY <1>2, <1>3, <1>4, <2>1, TracksOn DEF OutOfCall, CancelLabels
<1>5. CASE /\ Goes(c, "level", "finish_event") /\ call[c].level > Depth
           /\ call'[c].verdict = "completed"
  <2>1. \A s \in Steps : Level[s] < call[c].level
    BY <1>1, <1>5, ConstantsAssumption DEF CallType
  <2>2. \A s \in Steps : Terminal(call[c].mem[s])
    BY <1>1, <2>1 DEF Ordered, LowerSettled, InDag, Terminal
  <2>3. \A s \in Steps : Terminal(store.log[s])
    BY <1>1, <2>2 DEF Tracked, Logged, Remembering
  <2>4. /\ Knows(store, call'[c]) /\ Logged(store, call'[c], task[c])
        /\ Ahead(store, call'[c])
    BY <1>5, <2>3 DEF Goes, Knows, Logged, Ahead, Remembering
  <2> QED
    BY <1>2, <1>3, <1>5, <2>4, TracksOn DEF OutOfCall, CancelLabels
<1> QED
  BY <1>1, <1>4, <1>5, EndLevelsEffect

\* A level that ends without an error has each of its outcomes in the log.
LEMMA LevelDoneTracks ==
  ASSUME Typed, LevelInv, StatusKnown, OutcomesTracked, NEW c \in Calls, LevelDone(c)
  PROVE  OutcomesTracked' /\ LifeStep
<1>1. /\ TypeOK /\ Tracked(store, call[c], task[c])
      /\ call[c].pc = "submit"
  BY DEF Typed, OutcomesTracked, LevelDone, At
<1>2. /\ store' = store /\ call'[c].mem = call[c].mem
      /\ \A g \in Steps : task[c][g].pc = "idle"
  BY <1>1, LevelDoneEffect
<1>3. CASE \/ Goes(c, "submit", "ctx_error") \/ Goes(c, "submit", "suspend")
           \/ Goes(c, "submit", "finish_event") /\ call'[c].verdict = "failed"
  <2>1. /\ Knows(store, call'[c]) /\ Logged(store, call'[c], task[c])
        /\ Ahead(store, call'[c])
    BY <1>1, <1>2, <1>3 DEF Goes, Tracked, Knows, Logged, Ahead, Remembering
  <2> QED
    BY <1>2, <1>3, <2>1, TracksOn DEF OutOfCall, CancelLabels
<1>4. CASE Goes(c, "submit", "level") /\ LevelFailures(c) = {}
  <2>1. \A s \in Steps : Terminal(call[c].mem[s]) => s \notin call[c].errs
    BY <1>4 DEF LevelFailures, Terminal, IsTerminalStep
  <2>2. \A s \in Steps : Terminal(call[c].mem[s]) => store.log[s] = call[c].mem[s]
    BY <1>1, <1>2, <2>1 DEF Tracked, Logged
  <2>3. /\ Knows(store, call'[c]) /\ Logged(store, call'[c], task[c])
        /\ Ahead(store, call'[c])
    BY <1>1, <1>2, <1>4, <2>2 DEF Goes, Tracked, Knows, Logged, Ahead, Remembering
  <2> QED
    BY <1>2, <1>4, <2>3, TracksOn DEF OutOfCall, CancelLabels
<1> QED
  BY <1>1, <1>3, <1>4, LevelDoneEffect

LEMMA SubmitTracks ==
  ASSUME Typed, LevelInv, StatusKnown, OutcomesTracked, NEW c \in Calls, NEW s \in Steps,
         Submit(c, s) \/ RejectSubmit(c, s)
  PROVE  OutcomesTracked' /\ LifeStep
<1>1. /\ TypeOK /\ Tracked(store, call[c], task[c])
  BY DEF Typed, OutcomesTracked
<1>2. /\ call[c].pc = "submit" /\ call'[c].pc = "submit" /\ store' = store
      /\ call'[c].mem = call[c].mem /\ s \in call[c].todo
      /\ call'[c].todo \subseteq call[c].todo /\ call[c].errs \subseteq call'[c].errs
      /\ \A d \in Calls \ {c} : call'[d].pc = call[d].pc /\ task'[d] = task[d]
  BY <1>1, SubmitEffects DEF Goes, OnlyCall
<1>3. /\ \A g \in Steps \ {s} : task'[c][g] = task[c][g]
      /\ task'[c][s].step = s
      /\ task'[c][s] = task[c][s] \/ task'[c][s].pc = "start"
  BY <1>1, SubmitEffects DEF Goes, Tracked, OwnStep
<1>4. task[c][s].pc = "idle"
  BY <1>2 DEF LevelInv, Ordered, OfThisLevel
<1>5. OwnStep(task'[c])
  BY <1>1, <1>3 DEF Tracked, OwnStep
<1>6. AtWork(store, call'[c], task'[c])
  <2>1. ~Terminal(call[c].mem[s])
    BY <1>1, <1>2 DEF Tracked, Ahead
  <2> QED
    BY <1>1, <1>2, <1>3, <2>1 DEF Tracked, AtWork
<1>7. Knows(store, call'[c]) /\ Ahead(store, call'[c])
  BY <1>1, <1>2 DEF Tracked, Knows, Ahead
<1>8. Logged(store, call'[c], task'[c])
  BY <1>1, <1>2, <1>3, <1>4 DEF Tracked, Logged, Remembering
<1>9. Tracked(store', call'[c], task'[c])
  BY <1>2, <1>5, <1>6, <1>7, <1>8 DEF Tracked, CancelLabels
<1>10. FreshLog' /\ DecisionsReasoned' /\ PendingOpen'
  BY <1>2 DEF OutcomesTracked, FreshLog, DecisionsReasoned, PendingOpen
<1>11. OutcomesTracked'
  BY <1>2, <1>9, <1>10, TracksMove DEF OutOfCall
<1> QED
  BY <1>2, <1>11, LifeStutters

\* A call at a label with nothing to track.
LEMMA TracksFree ==
  ASSUME NEW st, NEW r, NEW t, r.pc \notin Remembering,
         r.pc \notin {"expire_event", "finish_event", "finish_update"}
  PROVE  Knows(st, r) /\ Logged(st, r, t) /\ Ahead(st, r)
BY DEF Knows, Logged, Ahead, Remembering

LEMMA EndTracks ==
  ASSUME Typed, LevelInv, StatusKnown, OutcomesTracked, NEW c \in Calls,
         SuspendWorkflow(c) \/ FinishEvent(c) \/ FinishUpdate(c) \/ Unregister(c)
  PROVE  OutcomesTracked' /\ LifeStep
<1>1. /\ TypeOK /\ Tracked(store, call[c], task[c]) /\ StatusFits(store.wf, call[c])
      /\ store.wf \in WorkflowStatuses
  BY Tables DEF Typed, OutcomesTracked, StatusKnown, StoreType
<1>2. CASE SuspendWorkflow(c)
  <2>1. /\ Goes(c, "suspend", "unregister") /\ SameOutcomes /\ store'.wf = "suspended"
        /\ store.wf = "active" /\ call[c].pc = "suspend" /\ call'[c].pc = "unregister"
    BY <1>1, <1>2, EndEffects DEF SameSteps, SameOutcomes, Goes, StatusFits, ActiveLabels
  <2>2. /\ Knows(store', call'[c]) /\ Logged(store', call'[c], task[c])
        /\ Ahead(store', call'[c])
    BY <2>1, TracksFree DEF Remembering
  <2>3. \A g \in Steps : task[c][g].pc = "idle"
    BY <2>1, NoGoroutines
  <2>4. OutcomesTracked'
    BY <2>1, <2>2, <2>3, TracksGo DEF OutOfCall, CancelLabels
  <2>5. LifeStep
    BY <2>1, LifeMoves DEF SameOutcomes, WorkflowStatuses, ValidWorkflowTransitions
  <2> QED
    BY <2>4, <2>5
<1>3. CASE FinishEvent(c)
  <2>1. /\ Goes(c, "finish_event", "finish_update") /\ SameOutcomes /\ store'.wf = store.wf
        /\ call[c].pc = "finish_event" /\ call'[c].pc = "finish_update"
        /\ call'[c].verdict = call[c].verdict
    BY <1>1, <1>3, EndEffects DEF SameSteps, SameOutcomes, Goes, SameOrder
  <2>2. /\ Knows(store', call'[c]) /\ Logged(store', call'[c], task[c])
        /\ Ahead(store', call'[c])
    BY <1>1, <2>1 DEF Tracked, Knows, Logged, Ahead, Remembering, SameOutcomes
  <2>3. \A g \in Steps : task[c][g].pc = "idle"
    BY <2>1, NoGoroutines
  <2>4. OutcomesTracked'
    BY <2>1, <2>2, <2>3, TracksGo DEF OutOfCall, CancelLabels
  <2>5. LifeStep
    BY <2>1, LifeStutters DEF SameOutcomes
  <2> QED
    BY <2>4, <2>5
<1>4. CASE FinishUpdate(c)
  <2>1. /\ SameOutcomes /\ store'.wf = call[c].verdict /\ call'[c].verdict = call[c].verdict
        /\ \/ Goes(c, "finish_update", "finish_persist")
           \/ Goes(c, "finish_persist", "unregister")
    BY <1>1, <1>4, EndEffects DEF SameSteps, SameOutcomes, SameOrder
  <2>2. /\ Knows(store', call'[c]) /\ Logged(store', call'[c], task[c])
        /\ Ahead(store', call'[c])
    BY <2>1, TracksFree DEF Goes, Remembering
  <2>3. \A g \in Steps : task[c][g].pc = "idle"
    BY <2>1, NoGoroutines DEF Goes
  <2>4. /\ call[c].pc = "finish_update" =>
             /\ store.wf = "active" /\ call[c].verdict \in {"completed", "failed"}
             /\ call[c].verdict = "completed" => \A s \in Steps : Terminal(store.log[s])
        /\ call[c].pc = "finish_persist" => store.wf = call[c].verdict
    BY <1>1 DEF StatusFits, ActiveLabels, Tracked, Ahead
  <2>5. store'.wf # "pending" \/ store'.wf = store.wf
    BY <2>1, <2>4 DEF Goes
  <2>6. OutcomesTracked'
    BY <2>1, <2>2, <2>3, <2>5, TracksGo DEF OutOfCall, CancelLabels
  <2>7. LifeStep
    <3>1. CASE call[c].pc = "finish_update"
      BY <2>1, <2>4, <3>1, LifeMoves
      DEF SameOutcomes, WorkflowStatuses, ValidWorkflowTransitions
    <3>2. CASE call[c].pc = "finish_persist"
      BY <2>1, <2>4, <3>2, LifeStutters DEF SameOutcomes
    <3> QED
      BY <2>1, <3>1, <3>2 DEF Goes
  <2> QED
    BY <2>6, <2>7
<1>5. CASE Unregister(c)
  <2>1. /\ Goes(c, "unregister", "done") /\ store' = store
        /\ call[c].pc = "unregister" /\ call'[c].pc = "done"
    BY <1>1, <1>5, EndEffects DEF Goes
  <2>2. /\ Knows(store, call'[c]) /\ Logged(store, call'[c], task[c])
        /\ Ahead(store, call'[c])
    BY <2>1, TracksFree DEF Remembering
  <2>3. \A g \in Steps : task[c][g].pc = "idle"
    BY <2>1, NoGoroutines
  <2> QED
    BY <2>1, <2>2, <2>3, TracksOn DEF OutOfCall, CancelLabels
<1> QED
  BY <1>2, <1>3, <1>4, <1>5

LEMMA ContextErrorTracks ==
  ASSUME OnTimeout # "cancel", Typed, LevelInv, StatusKnown, OutcomesTracked,
         NEW c \in Calls, ContextError(c)
  PROVE  OutcomesTracked' /\ LifeStep
<1>1. /\ TypeOK /\ StatusFits(store.wf, call[c]) /\ call[c].pc = "ctx_error"
  BY DEF Typed, StatusKnown, ContextError, At
<1>2. store.wf = "active" /\ \A g \in Steps : task[c][g].pc = "idle"
  BY <1>1, NoGoroutines DEF StatusFits, ActiveLabels
<1>3. CASE Goes(c, "ctx_error", "unregister") /\ SameSteps /\ store'.wf = "suspended"
  <2>1. /\ Knows(store', call'[c]) /\ Logged(store', call'[c], task[c])
        /\ Ahead(store', call'[c])
    BY <1>3, TracksFree DEF Goes, Remembering
  <2>2. SameOutcomes
    BY <1>3 DEF SameSteps, SameOutcomes
  <2>3. OutcomesTracked'
    BY <1>2, <1>3, <2>1, <2>2, TracksGo DEF OutOfCall, CancelLabels
  <2>4. LifeStep
    BY <1>2, <1>3, <2>2, LifeMoves DEF SameOutcomes, WorkflowStatuses, ValidWorkflowTransitions
  <2> QED
    BY <2>3, <2>4
<1>4. CASE /\ Goes(c, "ctx_error", "finish_event") /\ store' = store
           /\ call'[c].verdict = "failed"
  <2>1. /\ Knows(store, call'[c]) /\ Logged(store, call'[c], task[c])
        /\ Ahead(store, call'[c])
    BY <1>4 DEF Goes, Knows, Logged, Ahead, Remembering
  <2> QED
    BY <1>2, <1>4, <2>1, TracksOn DEF OutOfCall, CancelLabels
<1> QED
  BY <1>1, <1>3, <1>4, ContextErrorEffect

LEMMA SignalTracks ==
  ASSUME Typed, LevelInv, StatusKnown, OutcomesTracked, NEW c \in Calls, SignalApply(c)
  PROVE  OutcomesTracked' /\ LifeStep
<1> DEFINE s == call[c].target
<1>1. /\ call[c].pc = "signal_apply" /\ Tracked(store, call[c], task[c]) /\ SameLog
      /\ s \in Steps
  BY SignalApplyEffect DEF SignalApply, At, OutcomesTracked
<1>2. \A g \in Steps : task[c][g].pc = "idle"
  BY <1>1, NoGoroutines
<1>3. /\ call'[c].pc \in {"done", "resume_load"} /\ task' = task
      /\ \A d \in Calls \ {c} : call'[d].pc = call[d].pc
  BY SignalApplyEffect DEF Goes, OnlyCall
<1>4. /\ Knows(store', call'[c]) /\ Logged(store', call'[c], task'[c])
      /\ Ahead(store', call'[c])
  BY <1>3, TracksFree DEF Remembering
<1>5. Tracked(store', call'[c], task'[c])
  BY <1>1, <1>2, <1>3, <1>4, IdleWork DEF Tracked, CancelLabels
<1>6. FreshLog'
  BY <1>1 DEF SameLog, OutcomesTracked, FreshLog
<1>7. DecisionsReasoned' /\ PendingOpen'
  <2>1. store'.decisions = store.decisions
        \/ (store.decisions[s] = "pending" /\ store'.decisions[s] # "pending"
            /\ \A u \in Steps \ {s} : store'.decisions[u] = store.decisions[u])
    BY SignalApplyEffect DEF Answers
  <2> QED
    BY <1>1, <2>1 DEF SameLog, OutcomesTracked, DecisionsReasoned, PendingOpen
<1>8. OutcomesTracked'
  BY <1>1, <1>3, <1>5, <1>6, <1>7, TracksMove DEF OutOfCall
<1> QED
  BY <1>1, <1>8, LifeStutters DEF SameLog

LEMMA ResumeTracks ==
  ASSUME Typed, LevelInv, StatusKnown, OutcomesTracked, NEW c \in Calls,
         \/ ResumeLoad(c) \/ ResumeReplay(c) \/ ResumeList(c) \/ ResumeActivate(c)
         \/ ResumeRegister(c)
  PROVE  OutcomesTracked' /\ LifeStep
<1>1. /\ TypeOK /\ Tracked(store, call[c], task[c]) /\ StatusFits(store.wf, call[c])
  BY DEF Typed, OutcomesTracked, StatusKnown
<1>2. \A g \in Steps : task[c][g].pc = "idle"
  <2>1. call[c].pc # "submit"
    BY <1>1, ResumeEffects DEF Goes
  <2> QED
    BY <2>1, NoGoroutines
<1>3. CASE ResumeLoad(c)
  <2>1. /\ store' = store
        /\ Goes(c, "resume_load", "done") \/ Goes(c, "resume_load", "resume_replay")
    BY <1>1, <1>3, ResumeEffects
  <2>2. /\ Knows(store, call'[c]) /\ Logged(store, call'[c], task[c])
        /\ Ahead(store, call'[c])
    BY <2>1, TracksFree DEF Goes, Remembering
  <2> QED
    BY <1>2, <2>1, <2>2, TracksOn DEF OutOfCall, CancelLabels
<1>4. CASE ResumeReplay(c)
  <2>1. /\ store' = store /\ Goes(c, "resume_replay", "resume_list")
        /\ call'[c].mem = store.log
    BY <1>1, <1>4, ResumeEffects
  <2>2. /\ Knows(store, call'[c]) /\ Logged(store, call'[c], task[c])
        /\ Ahead(store, call'[c])
    BY <2>1 DEF Goes, Knows, Logged, Ahead, Remembering
  <2> QED
    BY <1>2, <2>1, <2>2, TracksOn DEF OutOfCall, CancelLabels
<1>5. CASE ResumeList(c)
  <2>1. /\ store' = store /\ Goes(c, "resume_list", "resume_expire")
        /\ call'[c].mem = call[c].mem
        /\ \A s \in call'[c].todo : s \in Steps /\ store.decisions[s] = "pending"
    BY <1>1, <1>5, ResumeEffects
  <2>2. \A s \in call'[c].todo : ~Terminal(store.log[s])
    BY <2>1 DEF OutcomesTracked, PendingOpen
  <2>3. /\ Knows(store, call'[c]) /\ Logged(store, call'[c], task[c])
        /\ Ahead(store, call'[c])
    BY <1>1, <2>1, <2>2 DEF Goes, Tracked, Knows, Logged, Ahead, Remembering
  <2> QED
    BY <1>2, <2>1, <2>3, TracksOn DEF OutOfCall, CancelLabels
<1>6. CASE ResumeActivate(c)
  <2>1. /\ Goes(c, "resume_expire", "resume_register") /\ SameOutcomes
        /\ call'[c].mem = call[c].mem
        /\ store'.wf = IF call[c].from = "suspended" THEN "active" ELSE store.wf
    BY <1>1, <1>6, ResumeEffects DEF SameSteps, SameOutcomes
  <2>2. call[c].pc = "resume_expire" /\ call'[c].pc = "resume_register"
    BY <2>1 DEF Goes
  <2>3. store.wf = call[c].from /\ store.wf \in {"suspended", "active"}
    BY <1>1, <2>2 DEF StatusFits
  <2>4. /\ Knows(store', call'[c]) /\ Logged(store', call'[c], task[c])
        /\ Ahead(store', call'[c])
    BY <1>1, <2>1, <2>2 DEF Tracked, Knows, Logged, Ahead, Remembering, SameOutcomes
  <2>5. OutcomesTracked'
    BY <1>2, <2>1, <2>3, <2>4, TracksGo DEF OutOfCall, CancelLabels
  <2>6. LifeStep
    <3>1. CASE store.wf = "suspended"
      BY <2>1, <2>3, <3>1, LifeMoves
      DEF SameOutcomes, WorkflowStatuses, ValidWorkflowTransitions
    <3>2. CASE store.wf = "active"
      BY <2>1, <2>3, <3>2, LifeStutters DEF SameOutcomes
    <3> QED
      BY <2>3, <3>1, <3>2
  <2> QED
    BY <2>5, <2>6
<1>7. CASE ResumeRegister(c)
  <2>1. /\ store' = store
        /\ \/ Goes(c, "resume_register", "done")
           \/ Goes(c, "resume_register", "level") /\ call'[c].mem = call[c].mem
    BY <1>1, <1>7, ResumeEffects
  <2>2. /\ Knows(store, call'[c]) /\ Logged(store, call'[c], task[c])
        /\ Ahead(store, call'[c])
    BY <1>1, <2>1 DEF Goes, Tracked, Knows, Logged, Ahead, Remembering
  <2> QED
    BY <1>2, <2>1, <2>2, TracksOn DEF OutOfCall, CancelLabels
<1> QED
  BY <1>3, <1>4, <1>5, <1>6, <1>7

LEMMA ExpireTracks ==
  ASSUME Typed, LevelInv, StatusKnown, OutcomesTracked, NEW c \in Calls,
         NEW s \in Steps, ResumeExpire(c, s)
  PROVE  OutcomesTracked' /\ LifeStep
<1>1. /\ Tracked(store, call[c], task[c]) /\ SameLog /\ s \in call[c].todo
      /\ store.decisions[s] = "none" => store'.decisions[s] = "none"
      /\ store'.decisions[s] # "pending"
      /\ \A u \in Steps \ {s} : store'.decisions[u] = store.decisions[u]
      /\ \/ /\ Goes(c, "resume_expire", "resume_expire")
            /\ call'[c].mem = call[c].mem /\ call'[c].todo = call[c].todo \ {s}
         \/ Goes(c, "resume_expire", "expire_event") /\ call'[c].target = s
  BY ExpireEffects DEF OutcomesTracked
<1>2. /\ call[c].pc = "resume_expire" /\ task' = task
      /\ \A d \in Calls \ {c} : call'[d].pc = call[d].pc
  BY <1>1 DEF Goes, OnlyCall
<1>3. \A g \in Steps : task[c][g].pc = "idle"
  BY <1>2, NoGoroutines
<1>4. /\ Knows(store', call'[c]) /\ Logged(store', call'[c], task'[c])
      /\ Ahead(store', call'[c])
  BY <1>1, <1>2 DEF Goes, SameLog, Tracked, Knows, Logged, Ahead, Remembering
<1>5. Tracked(store', call'[c], task'[c])
  BY <1>1, <1>2, <1>3, <1>4, IdleWork DEF Goes, Tracked, CancelLabels
<1>6. FreshLog' /\ DecisionsReasoned' /\ PendingOpen'
  BY <1>1 DEF SameLog, OutcomesTracked, FreshLog, DecisionsReasoned, PendingOpen
<1>7. OutcomesTracked'
  BY <1>2, <1>5, <1>6, TracksMove DEF OutOfCall
<1> QED
  BY <1>1, <1>7, LifeStutters DEF SameLog

LEMMA ExpireEndTracks ==
  ASSUME Typed, LevelInv, StatusKnown, OutcomesTracked, NEW c \in Calls,
         ResumeExpireEvent(c) \/ ResumeExpireFail(c)
  PROVE  OutcomesTracked' /\ LifeStep
<1>1. Tracked(store, call[c], task[c]) /\ StatusFits(store.wf, call[c])
  BY DEF OutcomesTracked, StatusKnown
<1>2. CASE ResumeExpireEvent(c)
  <2> DEFINE s == call[c].target
  <2>1. /\ Goes(c, "expire_event", "expire_fail") /\ s \in Steps
        /\ store'.wf = store.wf /\ store'.decisions = store.decisions
        /\ store'.log[s] = "failed"
        /\ \A u \in Steps \ {s} : store'.log[u] = store.log[u]
    BY <1>2, ExpireEffects
  <2>2. /\ call[c].pc = "expire_event" /\ call'[c].pc = "expire_fail" /\ task' = task
        /\ \A d \in Calls \ {c} : call'[d].pc = call[d].pc
    BY <2>1 DEF Goes, OnlyCall
  <2>3. ~Terminal(store.log[s]) /\ store.wf \in {"suspended", "active"}
    BY <1>1, <2>2 DEF Tracked, Ahead, StatusFits
  <2>4. store.decisions[s] # "pending"
    BY <1>1, <2>2 DEF Tracked, Ahead
  <2>5. \A g \in Steps : task[c][g].pc = "idle"
    BY <2>2, NoGoroutines
  <2>6. /\ Knows(store', call'[c]) /\ Logged(store', call'[c], task'[c])
        /\ Ahead(store', call'[c])
    BY <2>2, TracksFree DEF Remembering
  <2>7. Tracked(store', call'[c], task'[c])
    BY <1>1, <2>2, <2>5, <2>6, IdleWork DEF Tracked, CancelLabels
  <2>8. FreshLog' /\ DecisionsReasoned' /\ PendingOpen'
    BY <2>1, <2>3, <2>4 DEF OutcomesTracked, FreshLog, DecisionsReasoned, PendingOpen
  <2>9. OutcomesTracked'
    BY <2>2, <2>7, <2>8, TracksMove DEF OutOfCall
  <2>10. LifeStep
    BY <2>1, <2>3, LifeAbandons
  <2> QED
    BY <2>9, <2>10
<1>3. CASE ResumeExpireFail(c)
  <2>1. Goes(c, "expire_fail", "done") /\ SameOutcomes /\ store'.wf = "failed"
    BY <1>3, ExpireEffects DEF SameSteps, SameOutcomes
  <2>2. store.wf \in {"suspended", "active"} /\ \A g \in Steps : task[c][g].pc = "idle"
    BY <1>1, <2>1, NoGoroutines DEF StatusFits, Goes
  <2>3. /\ Knows(store', call'[c]) /\ Logged(store', call'[c], task[c])
        /\ Ahead(store', call'[c])
    BY <2>1, TracksFree DEF Goes, Remembering
  <2>4. OutcomesTracked'
    BY <2>1, <2>2, <2>3, TracksGo DEF OutOfCall, CancelLabels
  <2>5. LifeStep
    BY <2>1, <2>2, LifeMoves DEF SameOutcomes, WorkflowStatuses, ValidWorkflowTransitions
  <2> QED
    BY <2>4, <2>5
<1> QED
  BY <1>2, <1>3

\* A goroutine changed its step g: what it has to leave behind.
LEMMA StepTracked ==
  ASSUME Typed, LevelInv, StatusKnown, OutcomesTracked, NEW c \in Calls, NEW g \in Steps,
         task[c][g].pc # "idle", TaskKept(c, g), task'[c][g].step = g,
         call[c].errs \subseteq call'[c].errs,
         Terminal(store.log[g]) => store'.log[g] = store.log[g],
         Terminal(store'.log[g]) => call'[c].mem[g] = store'.log[g],
         Terminal(call'[c].mem[g]) =>
           \/ store'.log[g] = call'[c].mem[g]
           \/ /\ call'[c].mem[g] = "failed"
              /\ g \in call'[c].errs \/ task'[c][g].pc = "persist_failed",
         store'.decisions[g] # "none" => g \in Reasoning,
         store'.decisions[g] = "pending" => ~Terminal(store'.log[g]),
         task'[c][g].pc \notin AtRest => ~Terminal(call'[c].mem[g]),
         task'[c][g].pc # "persist_fallback",
         task'[c][g].pc = "persist_failed" => call'[c].mem[g] = "failed",
         task'[c][g].pc \in {"create", "request", "suspend_step", "skip_step"}
           => g \in Reasoning,
         task'[c][g].pc \in {"persist_retrying", "backoff", "reexec"} => g \notin Reasoning,
         task'[c][g].pc = "create" => store'.decisions[g] = "none",
         task'[c][g].pc = "skip_step" => store'.decisions[g] = "cancelled",
         task'[c][g].pc = "complete" /\ g \in Reasoning
           => store'.decisions[g] \in {"resolved", "expired"}
  PROVE  OutcomesTracked' /\ LifeStep
<1>1. /\ Tracked(store, call[c], task[c]) /\ StatusFits(store.wf, call[c])
      /\ Ordered(call[c], task[c])
  BY DEF OutcomesTracked, StatusKnown, LevelInv
<1>2. call[c].pc = "submit" /\ task[c][g].step = g /\ g \notin call[c].todo
  BY <1>1 DEF Tracked, OwnStep, Ordered, Working, OfThisLevel
<1>3. store.wf = "active"
  BY <1>1, <1>2 DEF StatusFits, ActiveLabels
<1>4. /\ call'[c].pc = "submit" /\ call'[c].todo = call[c].todo
      /\ store'.wf = "active"
      /\ \A d \in Calls \ {c} : call'[d].pc = call[d].pc /\ task'[d] = task[d]
      /\ \A u \in Steps \ {g} :
           /\ call'[c].mem[u] = call[c].mem[u] /\ store'.log[u] = store.log[u]
           /\ store'.decisions[u] = store.decisions[u]
           /\ task'[c][u] = task[c][u]
  BY <1>2, <1>3 DEF TaskKept, OnlyCall
<1>5. OwnStep(task'[c])
  BY <1>1, <1>4 DEF Tracked, OwnStep
<1>6. AtWork(store', call'[c], task'[c])
  <2>1. ASSUME NEW u \in Steps, u # g
        PROVE  /\ task'[c][u].pc \notin AtRest => ~Terminal(call'[c].mem[u])
               /\ task'[c][u].pc # "persist_fallback"
               /\ task'[c][u].pc = "persist_failed" => call'[c].mem[u] = "failed"
               /\ task'[c][u].pc \in {"create", "request", "suspend_step", "skip_step"}
                    => u \in Reasoning
               /\ task'[c][u].pc \in {"persist_retrying", "backoff", "reexec"}
                    => u \notin Reasoning
               /\ task'[c][u].pc = "create" => store'.decisions[u] = "none"
               /\ task'[c][u].pc = "skip_step" => store'.decisions[u] = "cancelled"
               /\ task'[c][u].pc = "complete" /\ u \in Reasoning
                    => store'.decisions[u] \in {"resolved", "expired"}
    <3>1. /\ call'[c].mem[u] = call[c].mem[u] /\ task'[c][u] = task[c][u]
          /\ store'.decisions[u] = store.decisions[u]
      BY <1>4, <2>1
    <3> QED
      BY <1>1, <3>1 DEF Tracked, AtWork
  <2> QED
    BY <2>1 DEF AtWork
<1>7. Knows(store', call'[c])
  BY <1>1, <1>2, <1>4 DEF Tracked, Knows, Remembering
<1>8. Logged(store', call'[c], task'[c])
  BY <1>1, <1>2, <1>4 DEF Tracked, Logged, Remembering
<1>9. Ahead(store', call'[c])
  <2>1. \A s \in call[c].todo : s \in Steps /\ s # g
    BY <1>2, Tables DEF Typed, CallTable, CallType
  <2> QED
    BY <1>1, <1>2, <1>4, <2>1 DEF Tracked, Ahead
<1>10. Tracked(store', call'[c], task'[c])
  BY <1>4, <1>5, <1>6, <1>7, <1>8, <1>9 DEF Tracked, CancelLabels
<1>11. FreshLog' /\ DecisionsReasoned' /\ PendingOpen'
  BY <1>4 DEF OutcomesTracked, FreshLog, DecisionsReasoned, PendingOpen
<1>12. OutcomesTracked'
  BY <1>2, <1>4, <1>10, <1>11, TracksMove DEF OutOfCall
<1>13. LifeStep
  BY <1>3, <1>4, LifeSettles
<1> QED
  BY <1>12, <1>13

\* What is known of the step a goroutine is about to change.
LEMMA AboutTask ==
  ASSUME LevelsAreSafe, Typed, LevelInv, OutcomesTracked, NEW c \in Calls,
         NEW g \in Steps, TaskStep(c, g)
  PROVE  /\ task[c][g].pc # "idle" /\ task[c][g].step = g /\ call[c].pc = "submit"
         /\ AtWork(store, call[c], task[c])
         /\ Terminal(store.log[g]) => call[c].mem[g] = store.log[g]
         /\ task[c][g].pc \notin AtRest => ~Terminal(store.log[g])
         /\ Terminal(call[c].mem[g]) =>
              \/ store.log[g] = call[c].mem[g]
              \/ /\ call[c].mem[g] = "failed"
                 /\ g \in call[c].errs \/ task[c][g].pc = "persist_failed"
         /\ store.decisions[g] # "none" => g \in Reasoning
         /\ store.decisions[g] = "pending" => ~Terminal(store.log[g])
<1>1. task[c][g].pc # "idle"
  BY TaskProceeds DEF TaskAt
<1>2. Tracked(store, call[c], task[c]) /\ Ordered(call[c], task[c])
  BY DEF OutcomesTracked, LevelInv
<1>3. call[c].pc = "submit" /\ task[c][g].step = g
  BY <1>1, <1>2 DEF Tracked, OwnStep, Ordered, Working
<1>4. AtWork(store, call[c], task[c])
  BY <1>2 DEF Tracked
<1>5. Terminal(store.log[g]) => call[c].mem[g] = store.log[g]
  BY <1>2, <1>3 DEF Tracked, Knows, Remembering
<1>6. task[c][g].pc \notin AtRest => ~Terminal(store.log[g])
  BY <1>4, <1>5 DEF AtWork
<1>7. Terminal(call[c].mem[g]) =>
        \/ store.log[g] = call[c].mem[g]
        \/ /\ call[c].mem[g] = "failed"
           /\ g \in call[c].errs \/ task[c][g].pc = "persist_failed"
  BY <1>2, <1>3 DEF Tracked, Logged
<1> QED
  BY <1>1, <1>3, <1>4, <1>5, <1>6, <1>7 DEF OutcomesTracked, DecisionsReasoned, PendingOpen

\* A goroutine that fails without a fallback.
LEMMA FailureTracks ==
  ASSUME \A s \in Steps : Fallback[s] = None, LevelsAreSafe,
         Typed, LevelInv, StatusKnown, OutcomesTracked, NEW c \in Calls, NEW g \in Steps,
         TaskStep(c, g), TaskKept(c, g), Faulted(c, g), FailureKinds(c, g)
  PROVE  OutcomesTracked' /\ LifeStep
<1>1. /\ task[c][g].pc # "idle" /\ task[c][g].step = g
      /\ AtWork(store, call[c], task[c])
      /\ task[c][g].pc \notin AtRest /\ ~Terminal(store.log[g])
      /\ ~Terminal(call[c].mem[g])
      /\ store.decisions[g] # "none" => g \in Reasoning
  <2>1. task[c][g].pc \notin AtRest
    BY DEF Faulted, AtRest
  <2> QED
    BY <2>1, AboutTask DEF AtWork
<1>2. ~Dead(c, g) => g \notin Reasoning /\ store.decisions[g] = "none"
  BY <1>1 DEF Faulted, AtWork, DecisionOf
<1>3. FailLabel(g) = "persist_failed"
  BY DEF FailLabel
<1> USE DEF Does, SameDecision, SameErrs, AddsError, MemOf, LogOf, AtRest, Terminal,
            IsTerminalStep
<1>4. CASE Errs(c, g)
  BY <1>1, <1>4, StepTracked DEF Errs
<1>5. CASE ~Dead(c, g) /\ Records(c, g, "persist_retrying", "retrying")
  BY <1>1, <1>2, <1>5, StepTracked DEF Records
<1>6. CASE Fails(c, g)
  BY <1>1, <1>2, <1>3, <1>6, StepTracked DEF Fails, Records
<1>7. CASE Passes(c, g, "idle")
  BY <1>1, <1>7, StepTracked DEF Passes
<1>8. CASE ~Dead(c, g) /\ Records(c, g, "persist_end", "completed")
  BY <1>1, <1>2, <1>8, StepTracked DEF Records
<1> QED
  BY <1>4, <1>5, <1>6, <1>7, <1>8 DEF FailureKinds

LEMMA TaskTracks ==
  ASSUME \A s \in Steps : Fallback[s] = None, LevelsAreSafe,
         Typed, LevelInv, StatusKnown, OutcomesTracked, NEW c \in Calls, NEW g \in Steps,
         TaskStep(c, g)
  PROVE  OutcomesTracked' /\ LifeStep
<1> DEFINE p == task[c][g].pc
<1>1. TaskKept(c, g) /\ TaskKinds(c, g)
  BY TaskDoes
<1>2. /\ p # "idle" /\ task[c][g].step = g /\ AtWork(store, call[c], task[c])
      /\ Terminal(store.log[g]) => call[c].mem[g] = store.log[g]
      /\ p \notin AtRest => ~Terminal(store.log[g])
      /\ Terminal(call[c].mem[g]) =>
           \/ store.log[g] = call[c].mem[g]
           \/ /\ call[c].mem[g] = "failed"
              /\ g \in call[c].errs \/ p = "persist_failed"
      /\ store.decisions[g] # "none" => g \in Reasoning
      /\ store.decisions[g] = "pending" => ~Terminal(store.log[g])
  BY AboutTask
<1>3. /\ p \notin AtRest => ~Terminal(call[c].mem[g])
      /\ p # "persist_fallback"
      /\ p = "persist_failed" => call[c].mem[g] = "failed"
      /\ p \in {"create", "request", "suspend_step", "skip_step"} => g \in Reasoning
      /\ p \in {"persist_retrying", "backoff", "reexec"} => g \notin Reasoning
      /\ p = "create" => store.decisions[g] = "none"
      /\ p = "skip_step" => store.decisions[g] = "cancelled"
      /\ p = "complete" /\ g \in Reasoning => store.decisions[g] \in {"resolved", "expired"}
  BY <1>2 DEF AtWork
<1>4. CASE Faulted(c, g) /\ FailureKinds(c, g)
  BY <1>1, <1>4, FailureTracks
<1>5. CASE Persists(c, g)
  <2>1. /\ task'[c][g].step = g /\ p \in DOMAIN AfterPersist
        /\ task'[c][g].pc = AfterPersist[p] /\ call'[c].mem[g] = call[c].mem[g]
        /\ store'.log[g] = store.log[g] /\ store'.decisions[g] = store.decisions[g]
        /\ call[c].errs \subseteq call'[c].errs
        /\ p = "persist_failed" => g \in call'[c].errs
    BY <1>2, <1>3, <1>5 DEF Persists, AddsError, SameErrs
  <2>2. \/ p = "persist_running" /\ AfterPersist[p] = "exec"
        \/ p = "persist_retrying" /\ AfterPersist[p] = "backoff"
        \/ p \in {"persist_failed", "persist_end"} /\ AfterPersist[p] = "idle"
    BY <1>3, <2>1 DEF AfterPersist
  <2> QED
    BY <1>1, <1>2, <1>3, <2>1, <2>2, StepTracked DEF AtRest
<1> USE DEF Does, SameDecision, SameErrs, AddsError, MemOf, LogOf, DecisionOf, AtRest,
            Terminal, IsTerminalStep
<1>6. CASE Errs(c, g)
  BY <1>1, <1>2, <1>3, <1>6, StepTracked DEF Errs
<1>7. CASE \/ p = "start" /\ Records(c, g, "persist_running", "running")
           \/ p = "backoff" /\ Records(c, g, "reexec", "running")
  BY <1>1, <1>2, <1>3, <1>7, StepTracked DEF Records
<1>8. CASE \/ p \in {"exec", "reexec"} /\ g \notin Reasoning /\ Passes(c, g, "complete")
           \/ p \in {"exec", "reexec"} /\ Passes(c, g, "idle")
  BY <1>1, <1>2, <1>3, <1>8, StepTracked DEF Passes
<1>9. CASE \/ p = "complete" /\ Records(c, g, "persist_end", "completed")
           \/ p = "skip_step" /\ Records(c, g, "persist_end", "skipped")
  <2>1. store.decisions[g] # "pending"
    BY <1>2, <1>3, <1>9
  <2> QED
    BY <1>1, <1>2, <1>3, <1>9, <2>1, StepTracked DEF Records
<1>10. CASE p = "exec" /\ g \in Reasoning /\ Looks(c, g)
  BY <1>1, <1>2, <1>3, <1>10, StepTracked DEF Looks, Passes
<1>11. CASE /\ p = "create" /\ Does(c, g, "request", MemOf(c, g), LogOf(c, g))
            /\ store'.decisions[g] = "pending" /\ SameErrs(c)
  BY <1>1, <1>2, <1>3, <1>11, StepTracked
<1>12. CASE /\ p = "request" /\ Does(c, g, "suspend_step", MemOf(c, g), "suspended")
            /\ SameDecision(c, g) /\ SameErrs(c)
  BY <1>1, <1>2, <1>3, <1>12, StepTracked
<1>13. CASE /\ p = "suspend_step" /\ Does(c, g, "persist_end", "suspended", LogOf(c, g))
            /\ SameDecision(c, g) /\ SameErrs(c)
  BY <1>1, <1>2, <1>3, <1>13, StepTracked
<1> HIDE DEF Does, SameDecision, SameErrs, AddsError, MemOf, LogOf, DecisionOf
<1> QED
  BY <1>1, <1>2, <1>4, <1>5, <1>6, <1>7, <1>8, <1>9, <1>10, <1>11, <1>12, <1>13
  DEF TaskKinds

\* Each hypothesis excludes something that really records a second outcome: a
\* second call; a panic or a step timeout under an ignored error (which leave a
\* step without an outcome in a level that goes on); a cancellation after a
\* crash, which skips steps by their rows; a deadline that cancels, after which
\* a pending decision of a skipped step can still expire; a fallback step, which
\* two goroutines may execute.
LifecycleIsSafe ==
  /\ MaxInFlight <= 1 /\ LevelsAreSafe
  /\ "cancel" \notin Kinds /\ OnTimeout # "cancel"
  /\ \A s \in Steps : Fallback[s] = None

LEMMA CallTracks ==
  ASSUME LifecycleIsSafe, Typed, LevelInv, StatusKnown, OutcomesTracked,
         NEW c \in Calls, CallStep(c)
  PROVE  OutcomesTracked' /\ LifeStep
<1>1. OnTimeout # "cancel"
  BY DEF LifecycleIsSafe
<1>2. call[c].pc \notin CancelLabels
  BY DEF OutcomesTracked, Tracked
<1>3. ~(CancelEvent(c) \/ CancelUpdate(c) \/ CancelSteps(c) \/ CancelRun(c))
  BY <1>2 DEF CancelEvent, CancelUpdate, CancelSteps, CancelRun, At, CancelLabels
<1> QED
  BY <1>1, <1>3, RunTracks, BeginTracks, EndLevelsTracks, LevelDoneTracks, SubmitTracks,
     EndTracks, ContextErrorTracks, SignalTracks, ResumeTracks, ExpireTracks,
     ExpireEndTracks, Zenon
  DEF CallStep

LEMMA ArrivalTracks ==
  ASSUME LifecycleIsSafe, Typed, LevelInv, StatusKnown, OutcomesTracked,
         NEW c \in Calls, Arrivals(c)
  PROVE  OutcomesTracked' /\ LifeStep
<1>1. /\ TypeOK /\ MaxInFlight <= 1 /\ "cancel" \notin Kinds
  BY DEF Typed, LifecycleIsSafe
<1>2. /\ Cardinality(InFlight) < MaxInFlight /\ task' = task /\ SameLog
      /\ \A d \in Calls \ {c} : call'[d].pc = call[d].pc
  BY <1>1, ArrivalEffect
<1>3. /\ store'.log = store.log /\ store'.wf = store.wf
  BY <1>2 DEF SameLog
<1>4. \A d \in Calls : call[d].pc \in OutOfCall
  BY <1>1, <1>2, NobodyElse
<1>5. \A d \in Calls : /\ \A g \in Steps : task'[d][g].pc = "idle"
                       /\ OwnStep(task'[d])
  BY <1>2, <1>4, NoGoroutines DEF OutOfCall, OutcomesTracked, Tracked
<1>6. \A d \in Calls \ {c} : Tracked(store', call'[d], task'[d])
  <2>1. \A d \in Calls \ {c} : call'[d].pc \in OutOfCall
    BY <1>2, <1>4
  <2> QED
    BY <1>5, <2>1, OutTracked
<1>7. /\ DecisionsReasoned' /\ PendingOpen' /\ FreshLog'
      /\ Tracked(store', call'[c], task'[c])
  <2>1. CASE store' = store
    <3>1. /\ DecisionsReasoned' /\ PendingOpen' /\ FreshLog'
      BY <2>1 DEF OutcomesTracked, DecisionsReasoned, PendingOpen, FreshLog
    <3>2. CASE /\ store.wf = "pending" /\ call'[c].pc = "run_update"
               /\ call'[c].mem = [s \in Steps |-> "pending"]
      <4>1. \A s \in Steps : ~Terminal(store.log[s]) /\ ~Terminal(call'[c].mem[s])
        BY <3>2 DEF OutcomesTracked, FreshLog, Terminal, IsTerminalStep
      <4>2. /\ Knows(store', call'[c]) /\ Logged(store', call'[c], task'[c])
            /\ Ahead(store', call'[c])
        BY <2>1, <3>2, <4>1 DEF Knows, Logged, Ahead
      <4> QED
        BY <1>5, <3>1, <3>2, <4>2, IdleWork DEF Tracked, CancelLabels
    <3>3. CASE call'[c].pc \in {"done", "resume_load", "signal_apply"}
      <4>1. /\ Knows(store', call'[c]) /\ Logged(store', call'[c], task'[c])
            /\ Ahead(store', call'[c])
        BY <3>3, TracksFree DEF Remembering
      <4> QED
        BY <1>5, <3>1, <3>3, <4>1, IdleWork DEF Tracked, CancelLabels
    <3> QED
      BY <1>1, <3>2, <3>3, ArrivalEffect
  <2>2. ASSUME NEW s \in Steps, store.decisions[s] = "pending", Answers(s, "resolved"),
               call'[c].pc = "done"
        PROVE  /\ DecisionsReasoned' /\ PendingOpen' /\ FreshLog'
               /\ Tracked(store', call'[c], task'[c])
    <3>1. /\ store'.decisions[s] = "resolved"
          /\ \A u \in Steps \ {s} : store'.decisions[u] = store.decisions[u]
      BY <2>2 DEF Answers
    <3>2. DecisionsReasoned' /\ PendingOpen' /\ FreshLog'
      BY <1>3, <2>2, <3>1 DEF OutcomesTracked, DecisionsReasoned, PendingOpen, FreshLog
    <3> QED
      BY <1>5, <2>2, <3>2, OutTracked DEF OutOfCall
  <2> QED
    BY <1>1, <2>1, <2>2, ArrivalEffect
<1>8. OutcomesTracked'
  BY <1>6, <1>7 DEF OutcomesTracked
<1> QED
  BY <1>3, <1>8, LifeStutters

LEMMA EnvironmentTracks ==
  ASSUME Typed, LevelInv, StatusKnown, OutcomesTracked,
         Environment \/ Finished \/ UNCHANGED vars
  PROVE  OutcomesTracked' /\ LifeStep
<1>1. TypeOK /\ store.wf \in WorkflowStatuses
  BY Tables DEF Typed, StoreType
<1>2. CASE Passive
  <2>1. ASSUME NEW c \in Calls
        PROVE  Tracked(store', call'[c], task'[c])
    <3>1. /\ store' = store /\ SameCall(call[c], call'[c])
          /\ \A g \in Steps : task'[c][g].pc = task[c][g].pc /\ task'[c][g].step = task[c][g].step
      BY <1>2 DEF Passive
    <3>2. Tracked(store, call[c], task[c])
      BY DEF OutcomesTracked
    <3> QED
      BY <3>1, <3>2
      DEF Tracked, OwnStep, AtWork, Knows, Logged, Ahead, SameCall, SameOrder, SameWork
  <2>2. store' = store
    BY <1>2 DEF Passive
  <2>3. OutcomesTracked'
    BY <2>1, <2>2 DEF OutcomesTracked, FreshLog, DecisionsReasoned, PendingOpen
  <2> QED
    BY <2>2, <2>3, LifeStutters
<1>3. CASE Crashed
  <2>1. \A c \in Calls : Tracked(store', call'[c], task'[c])
    BY <1>3, OutTracked DEF Crashed, OwnStep
  <2>2. /\ store'.log = store.log /\ store'.decisions = store.decisions
        /\ store'.wf = IF store.wf = "active" THEN "suspended" ELSE store.wf
    BY <1>3 DEF Crashed, SameSteps
  <2>3. OutcomesTracked'
    BY <2>1, <2>2 DEF OutcomesTracked, FreshLog, DecisionsReasoned, PendingOpen
  <2>4. CASE store.wf = "active"
    BY <1>1, <2>2, <2>3, <2>4, LifeMoves DEF WorkflowStatuses, ValidWorkflowTransitions
  <2>5. CASE store.wf # "active"
    BY <2>2, <2>3, <2>5, LifeStutters
  <2> QED
    BY <2>4, <2>5
<1> QED
  BY <1>1, <1>2, <1>3, EnvironmentEffect

LEMMA InitTracked == Init => OutcomesTracked /\ Lifecycle!LifecycleInit
<1> SUFFICES ASSUME Init PROVE OutcomesTracked /\ Lifecycle!LifecycleInit
  OBVIOUS
<1>1. /\ store.wf = "pending" /\ \A s \in Steps : store.log[s] = "pending"
      /\ \A s \in Steps : store.decisions[s] = "none"
  BY DEF Init
<1>2. \A c \in Calls : /\ call[c].pc = "idle" /\ OwnStep(task[c])
                       /\ \A g \in Steps : task[c][g].pc = "idle"
  BY DEF Init, IdleCall, IdleTask, OwnStep
<1>3. \A c \in Calls : Tracked(store, call[c], task[c])
  BY <1>2, OutTracked DEF OutOfCall
<1>4. OutcomesTracked
  BY <1>1, <1>3 DEF OutcomesTracked, FreshLog, DecisionsReasoned, PendingOpen
<1>5. Lifecycle!LifecycleInit
  BY <1>1 DEF Lifecycle!LifecycleInit, IsTerminalStep
<1> QED
  BY <1>4, <1>5

LifecycleInv == Typed /\ LevelInv /\ StatusKnown /\ OutcomesTracked

LEMMA NextTracks ==
  ASSUME LifecycleIsSafe, LifecycleInv, [Next]_vars
  PROVE  LifecycleInv' /\ LifeStep
<1>1. /\ Typed /\ LevelInv /\ StatusKnown /\ OutcomesTracked
      /\ LevelsAreSafe /\ MaxInFlight <= 1 /\ \A s \in Steps : Fallback[s] = None
  BY DEF LifecycleInv, LifecycleIsSafe
<1>2. Typed' /\ LevelInv' /\ StatusKnown'
  BY <1>1, NextTyped, NextOrdered, NextStatus
<1>3. OutcomesTracked' /\ LifeStep
  BY <1>1, CallTracks, ArrivalTracks, TaskTracks, EnvironmentTracks DEF Next
<1> QED
  BY <1>2, <1>3 DEF LifecycleInv

\* One agent that waits for each answer, crashes and the startup scan, retries,
\* replay, panel answers, expired decisions and deadlines that fail or suspend:
\* every step of the executor is one of the lifecycle or none.  No re-execution
\* takes back an outcome in the log, none is recorded unless the workflow is
\* active or gives up a decision, and a row says "completed" only when each step
\* has an outcome (executor.go:597-744, 1040-1131, 1138-1300).
THEOREM ExecutorFollowsLifecycle ==
  ASSUME LifecycleIsSafe
  PROVE  Spec => ImplementsLifecycle
<1>1. Init => LifecycleInv /\ Lifecycle!LifecycleInit
  BY InitTyped, InitOrdered, InitStatus, InitTracked DEF LifecycleInv
<1>2. LifecycleInv /\ [Next]_vars
        => LifecycleInv' /\ [Lifecycle!LifecycleNext]_(Lifecycle!lifecycleVars)
  BY NextTracks DEF LifeStep
<1>3. Spec => Lifecycle!LifecycleSpec
  BY <1>1, <1>2, PTL DEF Spec, Lifecycle!LifecycleSpec
<1> QED
  BY <1>3 DEF ImplementsLifecycle

-----------------------------------------------------------------------------
(* One call at a time, and no crash. *)

\* A goroutine runs only inside a level, and gives up only with a timeout.
Calm(r, t) ==
  \A g \in Steps : /\ t[g].pc # "idle" => r.pc = "submit"
                   /\ t[g].dead => TimedSteps # {}

AllCalm == \A c \in Calls : Calm(call[c], task[c])

\* What keeps a suspended workflow answerable: a goroutine suspends its step on
\* a pending decision, and the level of a suspended step has one, or runs the
\* step again.
Waits(st, r, t) ==
  /\ \A g \in Steps :
       /\ t[g].pc = "create" => t[g].step \in Reasoning
       /\ t[g].pc \in {"request", "suspend_step"} => st.decisions[t[g].step] = "pending"
  /\ r.pc = "submit" /\ r.ctx = "live" =>
       \A s \in Steps :
         Level[s] = r.level /\ r.mem[s] = "suspended" =>
           \/ st.decisions[s] = "pending" \/ s \in r.todo
           \/ t[s].pc = "start" /\ t[s].step = s
  /\ r.pc = "suspend" => \E s \in Steps : st.decisions[s] = "pending"
  /\ r.pc = "signal_apply" => r.kind = "decision"

\* A call that is resuming a suspended workflow.
Resuming ==
  {"resume_load", "resume_replay", "resume_list", "resume_expire", "expire_event",
   "expire_fail"}

AnswerInv ==
  /\ StatusKnown /\ AllCalm /\ DecisionsReasoned
  /\ \A c \in Calls : Waits(store, call[c], task[c])
  /\ store.wf = "suspended" =>
       \/ \E s \in Steps : store.decisions[s] = "pending"
       \/ \E c \in Calls : call[c].pc \in Resuming

\* A goroutine does not change whether its context is done.
LEMMA DeadKept ==
  ASSUME Typed, NEW c \in Calls, NEW g \in Steps, TaskStep(c, g)
  PROVE  \A d \in Calls, h \in Steps : task'[d][h].dead = task[d][h].dead
<1>1. task \in TaskTable
  BY Tables DEF Typed
<1>2. ASSUME NEW l, TaskGoto(c, g, l)
      PROVE  \A d \in Calls, h \in Steps : task'[d][h].dead = task[d][h].dead
  BY <1>1, <1>2 DEF TaskGoto, TaskTable, TaskType
<1>3. CASE Persist(c, g)
  BY <1>1, <1>3 DEF Persist, TaskTable, TaskType
<1>4. CASE TaskError(c, g)
  BY <1>2, <1>4 DEF TaskError
<1>5. CASE HandleFailure(c, g)
  BY <1>2, <1>4, <1>5 DEF HandleFailure, Retry, GiveUp, FailStep
<1>6. CASE StepStart(c, g) \/ Backoff(c, g) \/ ActionSucceeds(c, g) \/ ActionFails(c, g)
           \/ ActionPanics(c, g) \/ Complete(c, g)
  BY <1>2, <1>4, <1>5, <1>6
  DEF StepStart, Backoff, ActionSucceeds, ActionFails, ActionPanics, Complete
<1>7. CASE ReasonLookup(c, g) \/ CreateDecision(c, g) \/ RequestDecision(c, g)
           \/ SuspendStep(c, g) \/ SkipStep(c, g)
  BY <1>2, <1>5, <1>7
  DEF ReasonLookup, CreateDecision, RequestDecision, SuspendStep, SkipStep
<1> QED
  BY <1>3, <1>6, <1>7 DEF TaskStep

\* Time and clients end contexts, and revive none.
LEMMA TimersCalm ==
  ASSUME MaxCrashes = 0, Typed, Environment \/ Finished \/ UNCHANGED vars
  PROVE  /\ Passive
         /\ \A c \in Calls : call'[c].ctx = "live" => call[c].ctx = "live"
         /\ \A c \in Calls : call'[c].ctx = call[c].ctx \/ OnTimeout # "none" \/ Disconnect
         /\ \A c \in Calls : call'[c].ctx = "deadline" =>
                             call[c].ctx = "deadline" \/ clock'.deadline
         /\ \A c \in Calls, g \in Steps :
              task'[c][g].dead => task[c][g].dead \/ TimedSteps # {}
         /\ clock.deadline => clock'.deadline
         /\ clock'.deadline => clock.deadline \/ OnTimeout # "none"
         /\ ~clock.deadline /\ clock'.deadline =>
              \A c \in Calls : call'[c].pc \in InDag => call'[c].ctx # "live"
         /\ clock'.overdue \subseteq clock.overdue \cup TimedDecisions
<1>1. /\ TypeOK /\ call \in CallTable /\ task \in TaskTable
      /\ clock \in [deadline : BOOLEAN, overdue : SUBSET Steps] /\ crashes \in 0..MaxCrashes
  BY Tables DEF Typed
<1>2. ~CrashRestart
  BY <1>1 DEF CrashRestart
<1>3. Timers \/ Finished \/ UNCHANGED vars
  BY <1>2, Zenon DEF Environment, Timers
<1>4. Passive
  BY <1>1, <1>3, TimersEffect
<1>5. CASE Deadline
  <2>1. /\ task' = task /\ ~clock.deadline /\ OnTimeout # "none"
        /\ clock'.overdue = clock.overdue /\ clock'.deadline
    BY <1>1, <1>5 DEF Deadline
  <2>2. \A c \in Calls : /\ call'[c].ctx = "live" => call[c].ctx = "live"
                         /\ call'[c].pc \in InDag => call'[c].ctx # "live"
    BY <1>1, <1>5 DEF Deadline, CallTable, CallType
  <2> QED
    BY <1>4, <2>1, <2>2
<1>6. ASSUME NEW s \in Steps, DecisionOverdue(s)
      PROVE  /\ call' = call /\ task' = task /\ clock'.deadline = clock.deadline
             /\ clock'.overdue \subseteq clock.overdue \cup TimedDecisions
  BY <1>1, <1>6 DEF DecisionOverdue
<1>7. ASSUME NEW c \in Calls, ContextCancelled(c)
      PROVE  /\ task' = task /\ clock' = clock
             /\ \A d \in Calls : /\ call'[d].ctx = "live" => call[d].ctx = "live"
                                 /\ call'[d].ctx = call[d].ctx \/ Disconnect
                                 /\ call'[d].ctx = "deadline" => call[d].ctx = "deadline"
  BY <1>1, <1>7 DEF ContextCancelled, CallTable, CallType
<1>8. ASSUME NEW c \in Calls, NEW g \in Steps, StepDeadline(c, g)
      PROVE  call' = call /\ clock' = clock /\ TimedSteps # {}
  BY <1>8 DEF StepDeadline
<1>9. CASE Finished \/ UNCHANGED vars
  BY <1>4, <1>9 DEF Finished, vars
<1>10. CASE \E s \in Steps : DecisionOverdue(s)
  BY <1>4, <1>6, <1>10
<1>11. CASE \E c \in Calls : ContextCancelled(c)
  BY <1>4, <1>7, <1>11
<1>12. CASE \E c \in Calls : \E g \in Steps : StepDeadline(c, g)
  BY <1>4, <1>8, <1>12
<1> QED
  BY <1>3, <1>5, <1>9, <1>10, <1>11, <1>12, Zenon DEF Timers

LEMMA ClockKept ==
  ASSUME \/ \E c \in Calls : Arrivals(c) \/ CallStep(c)
         \/ \E c \in Calls, g \in Steps : TaskStep(c, g)
  PROVE  clock' = clock
<1>1. ASSUME NEW c \in Calls, Arrivals(c) PROVE clock' = clock
  BY <1>1 DEF Arrivals, Run, CancelLoad, PanelResolve, Signal
<1>2. ASSUME NEW c \in Calls, CallStep(c) PROVE clock' = clock
  BY <1>2 DEF CallStep, RunUpdate, RunInitSteps, RunRegister, BeginLevel, EndLevels,
    LevelDone, Submit, RejectSubmit, ResumeExpire, SuspendWorkflow, ContextError,
    FinishEvent, FinishUpdate, Unregister, SignalApply, ResumeLoad,
    ResumeReplay, ResumeList, ResumeExpireEvent, ResumeExpireFail,
    ResumeActivate, ResumeRegister, CancelEvent, CancelUpdate, CancelSteps, CancelRun
<1>3. ASSUME NEW c \in Calls, NEW g \in Steps, TaskStep(c, g) PROVE clock' = clock
  BY <1>3 DEF TaskStep, StepStart, Persist, Backoff, ActionSucceeds, ActionFails,
    ActionPanics, Complete, ReasonLookup, CreateDecision, RequestDecision, SuspendStep,
    SkipStep
<1> QED
  BY <1>1, <1>2, <1>3

-----------------------------------------------------------------------------
(* Goroutines run inside a level. *)

LEMMA CalmIdle ==
  ASSUME AllCalm, NEW c \in Calls, call[c].pc # "submit"
  PROVE  \A g \in Steps : task[c][g].pc = "idle"
BY DEF AllCalm, Calm

LEMMA TaskBusy ==
  ASSUME Typed, NEW c \in Calls, NEW g \in Steps, TaskStep(c, g)
  PROVE  task[c][g].pc # "idle"
<1>1. TaskKinds(c, g)
  BY TaskDoes
<1> QED
  BY <1>1 DEF TaskKinds, Errs, Faulted, Persists, AfterPersist, AtRest

\* Where a call that is not in the middle of a level goes.
LEMMA CallCalm ==
  ASSUME Typed, AllCalm, NEW c \in Calls, CallStep(c)
  PROVE  /\ AllCalm'
         /\ \A d \in Calls \ {c} : call'[d].pc = call[d].pc /\ task'[d] = task[d]
<1>1. TypeOK /\ task \in TaskTable
  BY Tables DEF Typed
<1>2. ASSUME \A d \in Calls \ {c} : call'[d].pc = call[d].pc /\ task'[d] = task[d],
             Calm(call'[c], task'[c])
      PROVE  /\ AllCalm'
             /\ \A d \in Calls \ {c} : call'[d].pc = call[d].pc /\ task'[d] = task[d]
  BY <1>2 DEF AllCalm, Calm
<1>3. ASSUME NEW l, NEW m, Goes(c, l, m),
             m = "submit" \/ \A g \in Steps : task[c][g].pc = "idle"
      PROVE  /\ AllCalm'
             /\ \A d \in Calls \ {c} : call'[d].pc = call[d].pc /\ task'[d] = task[d]
  BY <1>2, <1>3 DEF AllCalm, Calm, Goes, OnlyCall
<1>4. ASSUME NEW l, NEW m, Goes(c, l, m), l # "submit"
      PROVE  /\ AllCalm'
             /\ \A d \in Calls \ {c} : call'[d].pc = call[d].pc /\ task'[d] = task[d]
  <2>1. \A g \in Steps : task[c][g].pc = "idle"
    BY <1>4, CalmIdle DEF Goes
  <2> QED
    BY <1>3, <1>4, <2>1
<1>5. CASE RunUpdate(c) \/ RunInitSteps(c) \/ RunRegister(c)
  BY <1>1, <1>4, <1>5, RunEffects
<1>6. CASE BeginLevel(c)
  BY <1>1, <1>4, <1>6, BeginLevelEffect
<1>7. CASE EndLevels(c)
  BY <1>1, <1>4, <1>7, EndLevelsEffect
<1>8. CASE LevelDone(c)
  BY <1>1, <1>3, <1>8, LevelDoneEffect
<1>9. ASSUME NEW s \in Steps, Submit(c, s)
      PROVE  /\ AllCalm'
             /\ \A d \in Calls \ {c} : call'[d].pc = call[d].pc /\ task'[d] = task[d]
  <2>1. /\ call'[c].pc = "submit" /\ OnlyCall(c)
        /\ \A d \in Calls \ {c} : task'[d] = task[d]
        /\ \A g \in Steps \ {s} : task'[c][g] = task[c][g]
    BY <1>1, <1>9, SubmitEffects
  <2>2. task'[c][s].dead = FALSE
    BY <1>1, <1>9 DEF Submit, IdleTask, TaskTable
  <2>3. Calm(call'[c], task'[c])
    BY <2>1, <2>2 DEF AllCalm, Calm
  <2> QED
    BY <1>2, <2>1, <2>3 DEF OnlyCall
<1>10. ASSUME NEW s \in Steps, RejectSubmit(c, s)
       PROVE  /\ AllCalm'
              /\ \A d \in Calls \ {c} : call'[d].pc = call[d].pc /\ task'[d] = task[d]
  BY <1>1, <1>3, <1>10, SubmitEffects
<1>11. CASE SuspendWorkflow(c) \/ FinishEvent(c) \/ FinishUpdate(c) \/ Unregister(c)
  BY <1>1, <1>4, <1>11, EndEffects
<1>12. CASE ContextError(c)
  BY <1>1, <1>4, <1>12, ContextErrorEffect
<1>13. CASE SignalApply(c)
  BY <1>4, <1>13, SignalApplyEffect
<1>14. CASE ResumeLoad(c) \/ ResumeReplay(c) \/ ResumeList(c) \/ ResumeActivate(c)
            \/ ResumeRegister(c)
  BY <1>1, <1>4, <1>14, ResumeEffects
<1>15. ASSUME NEW s \in Steps, ResumeExpire(c, s)
       PROVE  /\ AllCalm'
              /\ \A d \in Calls \ {c} : call'[d].pc = call[d].pc /\ task'[d] = task[d]
  BY <1>4, <1>15, ExpireEffects
<1>16. CASE ResumeExpireEvent(c) \/ ResumeExpireFail(c)
  BY <1>4, <1>16, ExpireEffects
<1>17. CASE CancelEvent(c) \/ CancelUpdate(c) \/ CancelSteps(c)
  BY <1>1, <1>4, <1>17, CancelEffects
<1>18. CASE CancelRun(c)
  <2>1. /\ call[c].pc = "cancel_run" /\ task' = task
        /\ \A d \in Calls \ {c} : call'[d].pc = call[d].pc
    BY <1>1, <1>18, CancelEffects DEF SamePlace
  <2>2. Calm(call'[c], task'[c])
    BY <2>1 DEF AllCalm, Calm
  <2> QED
    BY <1>2, <2>1, <2>2
<1> QED
  BY <1>5, <1>6, <1>7, <1>8, <1>9, <1>10, <1>11, <1>12, <1>13, <1>14, <1>15, <1>16,
     <1>17, <1>18, Zenon
  DEF CallStep

LEMMA NextCalm ==
  ASSUME MaxInFlight <= 1, MaxCrashes = 0, Typed, StatusKnown, AllCalm, [Next]_vars
  PROVE  AllCalm'
<1>1. ASSUME NEW c \in Calls, Arrivals(c) PROVE AllCalm'
  <2>1. /\ Cardinality(InFlight) < MaxInFlight /\ task' = task
    BY <1>1, ArrivalEffect DEF Typed
  <2>2. \A d \in Calls : call[d].pc \in OutOfCall
    BY <2>1, NobodyElse
  <2> QED
    BY <2>1, <2>2 DEF AllCalm, Calm, OutOfCall
<1>2. ASSUME NEW c \in Calls, NEW g \in Steps, TaskStep(c, g) PROVE AllCalm'
  <2>1. TaskKept(c, g) /\ task[c][g].pc # "idle"
    BY <1>2, TaskDoes, TaskBusy
  <2>2. \A d \in Calls, h \in Steps : task'[d][h].dead = task[d][h].dead
    BY <1>2, DeadKept
  <2>3. /\ \A d \in Calls : call'[d].pc = call[d].pc
        /\ \A d \in Calls, h \in Steps : task'[d][h].pc # "idle" => call[d].pc = "submit"
    BY <2>1 DEF TaskKept, OnlyCall, AllCalm, Calm
  <2> QED
    BY <2>2, <2>3 DEF AllCalm, Calm
<1>3. ASSUME Environment \/ Finished \/ UNCHANGED vars PROVE AllCalm'
  BY <1>3, TimersCalm DEF AllCalm, Calm, Passive, SameCall
<1> QED
  BY <1>1, <1>2, <1>3, CallCalm DEF Next

-----------------------------------------------------------------------------
(* A suspended workflow can be answered. *)

\* Each hypothesis excludes a way to leave a suspended workflow without a
\* pending decision: a crash, an answer that resumes nothing (the panel and a
\* cancelled decision), a deadline that suspends, a step timeout that hits a step
\* which was suspended before and has its answer, and a second call.
AnswersResume ==
  /\ MaxInFlight <= 1 /\ MaxCrashes = 0 /\ Kinds \cap {"panel", "cancel_decision"} = {}
  /\ OnTimeout # "suspend" /\ TimedSteps = {}

LEMMA IdleWaits ==
  ASSUME NEW st, NEW r, NEW t, \A g \in Steps : t[g].pc = "idle",
         r.pc \notin {"submit", "suspend", "signal_apply"}
  PROVE  Waits(st, r, t)
BY DEF Waits

AnyPending(st) == \E s \in Steps : st.decisions[s] = "pending"

LEMMA AnswerMoves ==
  ASSUME AnswerInv, NEW c \in Calls, call[c].pc \notin OutOfCall,
         \A d \in Calls \ {c} : call'[d].pc = call[d].pc /\ task'[d] = task[d],
         StatusKnown', AllCalm', DecisionsReasoned',
         Waits(store', call'[c], task'[c]),
         store'.wf = "suspended" => AnyPending(store') \/ call'[c].pc \in Resuming
  PROVE  AnswerInv'
<1>1. ASSUME NEW d \in Calls, d # c PROVE Waits(store', call'[d], task'[d])
  <2>1. call[d].pc \in OutOfCall
    BY <1>1 DEF AnswerInv, StatusKnown, Alone
  <2>2. \A g \in Steps : task[d][g].pc = "idle"
    BY <2>1, CalmIdle DEF AnswerInv, OutOfCall
  <2>3. call'[d].pc \in OutOfCall /\ task'[d] = task[d]
    BY <1>1, <2>1
  <2> QED
    BY <2>2, <2>3, IdleWaits DEF OutOfCall
<1> QED
  BY <1>1 DEF AnswerInv, AnyPending

\* A call outside the levels moves.
LEMMA AnswerGoes ==
  ASSUME AnswerInv, NEW c \in Calls, NEW l, NEW m, Goes(c, l, m),
         l \notin OutOfCall, l # "submit", m \notin {"submit", "suspend", "signal_apply"},
         StatusKnown', AllCalm', DecisionsReasoned',
         store'.wf = "suspended" =>
           \/ m \in Resuming \/ AnyPending(store')
           \/ /\ store.wf = "suspended" /\ l \notin Resuming
              /\ store'.decisions = store.decisions
  PROVE  AnswerInv'
<1>1. /\ call[c].pc = l /\ call'[c].pc = m /\ task' = task
      /\ \A d \in Calls \ {c} : call'[d].pc = call[d].pc /\ task'[d] = task[d]
  BY DEF Goes, OnlyCall
<1>2. Waits(store', call'[c], task'[c])
  BY <1>1, CalmIdle, IdleWaits DEF AnswerInv
<1>3. store'.wf = "suspended" => AnyPending(store') \/ m \in Resuming
  <2> SUFFICES ASSUME store.wf = "suspended", l \notin Resuming,
                      store'.decisions = store.decisions
               PROVE  AnyPending(store')
    OBVIOUS
  <2>1. \A d \in Calls \ {c} : call[d].pc \in OutOfCall
    BY <1>1 DEF AnswerInv, StatusKnown, Alone
  <2>2. AnyPending(store)
    BY <1>1, <2>1 DEF AnswerInv, AnyPending, Resuming, OutOfCall
  <2> QED
    BY <2>2 DEF AnyPending
<1> QED
  BY <1>1, <1>2, <1>3, AnswerMoves

\* The same for a call that writes no decision.
LEMMA AnswerKeeps ==
  ASSUME AnswerInv, NEW c \in Calls, NEW l, NEW m, Goes(c, l, m),
         l \notin OutOfCall, l # "submit", m \notin {"submit", "suspend", "signal_apply"},
         StatusKnown', AllCalm', store'.decisions = store.decisions,
         store'.wf = "suspended" =>
           \/ m \in Resuming \/ AnyPending(store)
           \/ store.wf = "suspended" /\ l \notin Resuming
  PROVE  AnswerInv'
<1>1. DecisionsReasoned' /\ (AnyPending(store) => AnyPending(store'))
  BY DEF AnswerInv, DecisionsReasoned, AnyPending
<1> QED
  BY <1>1, AnswerGoes

LEMMA CallAnswerable ==
  ASSUME AnswersResume, Typed, AnswerInv, NEW c \in Calls, CallStep(c)
  PROVE  AnswerInv'
<1>1. /\ TypeOK /\ StatusFits(store.wf, call[c]) /\ Waits(store, call[c], task[c])
      /\ call[c].pc \notin OutOfCall /\ Prepared(call[c])
      /\ StatusKnown /\ AllCalm /\ DecisionsReasoned
  BY CallIsActive DEF Typed, LocalsSet, AnswerInv, StatusKnown
<1>2. StatusKnown' /\ AllCalm'
  BY <1>1, CallStatus, CallCalm
<1>3. \A d \in Calls \ {c} : call'[d].pc = call[d].pc /\ task'[d] = task[d]
  BY <1>1, CallCalm
<1> USE DEF Resuming, OutOfCall
<1>4. CASE RunUpdate(c) \/ RunInitSteps(c) \/ RunRegister(c)
  <2>1. store'.decisions = store.decisions
    BY <1>1, <1>4, RunEffects DEF SameSteps
  <2>2. CASE RunUpdate(c)
    BY <1>1, <1>2, <2>1, <2>2, RunEffects, AnswerKeeps
  <2>3. CASE RunInitSteps(c)
    BY <1>1, <1>2, <2>1, <2>3, RunEffects, AnswerKeeps
  <2>4. CASE RunRegister(c)
    BY <1>1, <1>2, <2>1, <2>4, RunEffects, AnswerKeeps
  <2> QED
    BY <1>4, <2>2, <2>3, <2>4
<1>5. CASE BeginLevel(c)
  <2>1. /\ Goes(c, "level", "submit") /\ store' = store
        /\ call'[c].mem = call[c].mem /\ call'[c].level = call[c].level
        /\ call'[c].todo = {s \in LevelSteps(c) : ~IsTerminalStep(call[c].mem[s])}
    BY <1>1, <1>5, BeginLevelEffect
  <2>2. /\ \A g \in Steps : task'[c][g].pc = "idle"
        /\ call'[c].pc = "submit" /\ store.wf = "active"
    BY <1>1, <2>1, CalmIdle DEF Goes, StatusFits, ActiveLabels
  <2>3. Waits(store', call'[c], task'[c])
    BY <2>1, <2>2 DEF Waits, LevelSteps, IsTerminalStep
  <2> QED
    BY <1>1, <1>2, <1>3, <2>1, <2>2, <2>3, AnswerMoves DEF DecisionsReasoned
<1>6. CASE EndLevels(c)
  BY <1>1, <1>2, <1>6, EndLevelsEffect, AnswerKeeps
<1>7. CASE LevelDone(c)
  <2>1. /\ store' = store /\ call[c].todo = {} /\ \A g \in Steps : task[c][g].pc = "idle"
        /\ call[c].pc = "submit" /\ task' = task /\ store.wf = "active"
    BY <1>1, <1>7, LevelDoneEffect DEF Goes, StatusFits, ActiveLabels
  <2>2. ASSUME Goes(c, "submit", "suspend"), call[c].ctx = "live",
               \E s \in LevelSteps(c) : call[c].mem[s] = "suspended"
        PROVE  Waits(store', call'[c], task'[c])
    <3>1. PICK s \in Steps : Level[s] = call[c].level /\ call[c].mem[s] = "suspended"
      BY <2>2 DEF LevelSteps
    <3>2. store.decisions[s] = "pending"
      BY <1>1, <2>1, <2>2, <3>1 DEF Waits
    <3> QED
      BY <2>1, <2>2, <3>2 DEF Waits, Goes
  <2>3. ASSUME NEW m, Goes(c, "submit", m), m \in {"ctx_error", "finish_event", "level"}
        PROVE  Waits(store', call'[c], task'[c])
    BY <2>1, <2>3, IdleWaits DEF Goes
  <2>4. Waits(store', call'[c], task'[c])
    BY <1>1, <1>7, <2>2, <2>3, LevelDoneEffect
  <2> QED
    BY <1>1, <1>2, <1>3, <2>1, <2>4, AnswerMoves DEF DecisionsReasoned
<1>8. ASSUME NEW s \in Steps, Submit(c, s) \/ RejectSubmit(c, s)
      PROVE  AnswerInv'
  <2>1. /\ call[c].pc = "submit" /\ call'[c].pc = "submit" /\ store' = store
        /\ call'[c].mem = call[c].mem /\ call'[c].level = call[c].level
        /\ call'[c].ctx = call[c].ctx /\ store.wf = "active"
    BY <1>1, <1>8, SubmitEffects DEF Goes, StatusFits, ActiveLabels
  <2>2. CASE Submit(c, s)
    <3>1. /\ call'[c].todo = call[c].todo \ {s}
          /\ \A g \in Steps \ {s} : task'[c][g] = task[c][g]
          /\ task'[c][s].pc = "start" /\ task'[c][s].step = s
      BY <1>1, <2>2, SubmitEffects
    <3>2. Waits(store', call'[c], task'[c])
      BY <1>1, <2>1, <3>1 DEF Waits
    <3> QED
      BY <1>1, <1>2, <1>3, <2>1, <3>2, AnswerMoves DEF DecisionsReasoned
  <2>3. CASE RejectSubmit(c, s)
    <3>1. call[c].ctx # "live" /\ task' = task
      BY <1>1, <2>3, SubmitEffects DEF Goes
    <3>2. Waits(store', call'[c], task'[c])
      BY <1>1, <2>1, <3>1 DEF Waits
    <3> QED
      BY <1>1, <1>2, <1>3, <2>1, <3>2, AnswerMoves DEF DecisionsReasoned
  <2> QED
    BY <1>8, <2>2, <2>3
<1>9. CASE SuspendWorkflow(c)
  <2>1. /\ Goes(c, "suspend", "unregister") /\ store'.decisions = store.decisions
    BY <1>1, <1>9, EndEffects DEF SameSteps
  <2>2. AnyPending(store)
    BY <1>1, <2>1 DEF Waits, AnyPending, Goes
  <2> QED
    BY <1>1, <1>2, <2>1, <2>2, AnswerKeeps
<1>10. CASE FinishEvent(c) \/ FinishUpdate(c) \/ Unregister(c)
  <2>1. store'.decisions = store.decisions
    BY <1>1, <1>10, EndEffects DEF SameSteps
  <2>2. CASE FinishEvent(c)
    BY <1>1, <1>2, <2>1, <2>2, EndEffects, AnswerKeeps
  <2>3. CASE FinishUpdate(c)
    <3>1. call[c].verdict # "suspended"
      BY <1>1, <2>3 DEF FinishUpdate, At, Prepared, FinishLabels, TerminalWorkflow
    <3> QED
      BY <1>1, <1>2, <2>1, <2>3, <3>1, EndEffects, AnswerKeeps
  <2>4. CASE Unregister(c)
    BY <1>1, <1>2, <2>1, <2>4, EndEffects, AnswerKeeps
  <2> QED
    BY <1>10, <2>2, <2>3, <2>4
<1>11. CASE ContextError(c)
  <2>1. store.wf = "active" /\ OnTimeout # "suspend"
    BY <1>1, <1>11 DEF ContextError, At, StatusFits, ActiveLabels, AnswersResume
  <2> QED
    BY <1>1, <1>2, <1>11, <2>1, ContextErrorEffect, AnswerKeeps
<1>12. CASE SignalApply(c)
  <2> DEFINE s == call[c].target
  <2>1. s \in Steps /\ call[c].pc = "signal_apply" /\ call[c].kind = "decision"
    BY <1>1, <1>12 DEF SignalApply, At, Prepared, Waits
  <2>2. CASE Goes(c, "signal_apply", "done") /\ store' = store
    BY <1>1, <1>2, <2>2, AnswerKeeps
  <2>3. CASE /\ store.decisions[s] = "pending" /\ Goes(c, "signal_apply", "resume_load")
             /\ Answers(s, "resolved")
    <3>1. DecisionsReasoned'
      BY <1>1, <2>1, <2>3 DEF DecisionsReasoned, Answers
    <3> QED
      BY <1>1, <1>2, <2>3, <3>1, AnswerGoes
  <2>4. call'[c].pc # "done" \/ store' = store
    BY <1>12, <2>1, Tables DEF SignalApply, Typed, CallTable, CallType
  <2> QED
    BY <1>12, <2>2, <2>3, <2>4, SignalApplyEffect DEF Goes
<1>13. CASE ResumeLoad(c) \/ ResumeReplay(c) \/ ResumeList(c)
  <2>1. CASE ResumeLoad(c)
    BY <1>1, <1>2, <2>1, ResumeEffects, AnswerKeeps
  <2>2. CASE ResumeReplay(c)
    BY <1>1, <1>2, <2>2, ResumeEffects, AnswerKeeps
  <2>3. CASE ResumeList(c)
    BY <1>1, <1>2, <2>3, ResumeEffects, AnswerKeeps
  <2> QED
    BY <1>13, <2>1, <2>2, <2>3
<1>14. CASE ResumeActivate(c)
  <2>1. /\ Goes(c, "resume_expire", "resume_register")
        /\ store'.decisions = store.decisions /\ store'.wf # "suspended"
    BY <1>1, <1>14, ResumeEffects DEF SameSteps, StatusFits, Goes
  <2> QED
    BY <1>1, <1>2, <2>1, AnswerKeeps
<1>15. CASE ResumeRegister(c)
  <2>1. store' = store /\ store.wf = "active"
    BY <1>1, <1>15, ResumeEffects DEF StatusFits, ActiveLabels, Goes
  <2> QED
    BY <1>1, <1>2, <1>15, <2>1, ResumeEffects, AnswerKeeps
<1>16. ASSUME NEW s \in Steps, ResumeExpire(c, s) PROVE AnswerInv'
  <2>1. DecisionsReasoned'
    BY <1>1, <1>16, ExpireEffects DEF DecisionsReasoned
  <2> QED
    BY <1>1, <1>2, <1>16, <2>1, ExpireEffects, AnswerGoes
<1>17. CASE ResumeExpireEvent(c) \/ ResumeExpireFail(c)
  <2>1. CASE ResumeExpireEvent(c)
    BY <1>1, <1>2, <2>1, ExpireEffects, AnswerKeeps
  <2>2. CASE ResumeExpireFail(c)
    <3>1. store'.decisions = store.decisions
      BY <2>2, ExpireEffects DEF SameSteps
    <3> QED
      BY <1>1, <1>2, <2>2, <3>1, ExpireEffects, AnswerKeeps
  <2> QED
    BY <1>17, <2>1, <2>2
<1>18. CASE CancelEvent(c) \/ CancelUpdate(c) \/ CancelSteps(c)
  <2>1. store'.decisions = store.decisions
    BY <1>1, <1>18, CancelEffects DEF SameSteps
  <2> QED
    BY <1>1, <1>2, <1>18, <2>1, CancelEffects, AnswerKeeps
<1>19. CASE CancelRun(c)
  <2>1. /\ call[c].pc = "cancel_run" /\ call'[c].pc = "done" /\ store' = store /\ task' = task
    BY <1>1, <1>19, CancelEffects
  <2>2. Waits(store', call'[c], task'[c])
    BY <1>1, <2>1, CalmIdle, IdleWaits
  <2>3. \A d \in Calls \ {c} : call[d].pc \in OutOfCall
    BY <1>1 DEF StatusKnown, Alone
  <2>4. store.wf = "suspended" => AnyPending(store)
    BY <2>1, <2>3 DEF AnswerInv, AnyPending
  <2> QED
    BY <1>1, <1>2, <1>3, <2>1, <2>2, <2>4, AnswerMoves DEF DecisionsReasoned
<1> HIDE DEF Resuming, OutOfCall
<1> QED
  BY <1>4, <1>5, <1>6, <1>7, <1>8, <1>9, <1>10, <1>11, <1>12, <1>13, <1>14, <1>15,
     <1>16, <1>17, <1>18, <1>19, Zenon
  DEF CallStep

LEMMA ArrivalAnswerable ==
  ASSUME AnswersResume, Typed, AnswerInv, NEW c \in Calls, Arrivals(c), AllCalm', StatusKnown'
  PROVE  AnswerInv'
<1>1. /\ TypeOK /\ MaxInFlight <= 1 /\ "panel" \notin Kinds /\ "cancel_decision" \notin Kinds
      /\ StatusKnown /\ AllCalm /\ DecisionsReasoned
  BY DEF Typed, AnswersResume, AnswerInv
<1>2. /\ Cardinality(InFlight) < MaxInFlight /\ task' = task /\ store' = store
      /\ \A d \in Calls \ {c} : call'[d].pc = call[d].pc
      /\ call'[c].pc \notin {"submit", "suspend"}
      /\ call'[c].pc = "signal_apply" => call'[c].kind = "decision"
  BY <1>1, ArrivalEffect
<1>3. \A d \in Calls : call[d].pc \in OutOfCall
  BY <1>1, <1>2, NobodyElse
<1>4. \A d \in Calls, g \in Steps : task'[d][g].pc = "idle"
  BY <1>1, <1>2, <1>3, CalmIdle DEF OutOfCall
<1>5. \A d \in Calls : Waits(store', call'[d], task'[d])
  BY <1>2, <1>3, <1>4 DEF Waits, OutOfCall
<1>6. store.wf = "suspended" => \E s \in Steps : store.decisions[s] = "pending"
  BY <1>3 DEF AnswerInv, OutOfCall, Resuming
<1> QED
  BY <1>1, <1>2, <1>5, <1>6 DEF AnswerInv, DecisionsReasoned

LEMMA EnvironmentAnswerable ==
  ASSUME AnswersResume, Typed, AnswerInv, Environment \/ Finished \/ UNCHANGED vars,
         AllCalm', StatusKnown'
  PROVE  AnswerInv'
<1>1. MaxCrashes = 0
  BY DEF AnswersResume
<1>2. /\ store' = store
      /\ \A c \in Calls : /\ SameCall(call[c], call'[c])
                          /\ call'[c].ctx = "live" => call[c].ctx = "live"
      /\ \A c \in Calls, g \in Steps :
           task'[c][g].pc = task[c][g].pc /\ task'[c][g].step = task[c][g].step
  BY <1>1, TimersCalm DEF Passive
<1>3. ASSUME NEW c \in Calls PROVE Waits(store', call'[c], task'[c])
  BY <1>2 DEF AnswerInv, Waits, SameCall, SameOrder, SameWork
<1> QED
  BY <1>2, <1>3 DEF AnswerInv, DecisionsReasoned, SameCall

\* A goroutine moves: the pending decisions stay, and its step is suspended only
\* on one of them.
LEMMA TaskWaits ==
  ASSUME Typed, AnswerInv, NEW c \in Calls, NEW g \in Steps, TaskKept(c, g),
         call[c].pc = "submit", AllCalm', StatusKnown',
         task'[c][g].pc = "create" => task'[c][g].step \in Reasoning,
         task'[c][g].pc \in {"request", "suspend_step"} =>
           store'.decisions[task'[c][g].step] = "pending",
         DecisionOf(c, g) = "pending" => store'.decisions[task[c][g].step] = "pending",
         store'.decisions[task[c][g].step] # "none" =>
           task[c][g].step \in Reasoning \/ DecisionOf(c, g) # "none",
         call[c].ctx = "live" /\ call'[c].mem[task[c][g].step] = "suspended" =>
           \/ store'.decisions[task[c][g].step] = "pending"
           \/ MemOf(c, g) = "suspended" /\ task[c][g].pc # "start"
  PROVE  AnswerInv'
<1> DEFINE s == task[c][g].step
<1>1. /\ \A d \in Calls \ {c} : call'[d] = call[d] /\ task'[d] = task[d]
      /\ call'[c].pc = "submit" /\ call'[c].level = call[c].level
      /\ call'[c].todo = call[c].todo /\ call'[c].ctx = call[c].ctx
      /\ \A u \in Steps \ {s} : /\ call'[c].mem[u] = call[c].mem[u]
                                /\ store'.decisions[u] = store.decisions[u]
      /\ \A h \in Steps \ {g} : task'[c][h] = task[c][h]
  BY DEF TaskKept, OnlyCall
<1>2. \A u \in Steps : store.decisions[u] = "pending" => store'.decisions[u] = "pending"
  BY <1>1 DEF DecisionOf
<1>3. \A d \in Calls : Waits(store, call[d], task[d])
  BY DEF AnswerInv
<1>4. ASSUME NEW d \in Calls \ {c} PROVE Waits(store', call'[d], task'[d])
  <2>1. call[d].pc \in OutOfCall
    BY <1>4 DEF AnswerInv, StatusKnown, Alone, OutOfCall
  <2>2. \A h \in Steps : task[d][h].pc = "idle"
    BY <1>4, <2>1, CalmIdle DEF AnswerInv, OutOfCall
  <2>3. call'[d] = call[d] /\ task'[d] = task[d]
    BY <1>1, <1>4
  <2> QED
    BY <2>1, <2>2, <2>3, IdleWaits DEF OutOfCall
<1>5. ASSUME NEW h \in Steps
      PROVE  /\ task'[c][h].pc = "create" => task'[c][h].step \in Reasoning
             /\ task'[c][h].pc \in {"request", "suspend_step"} =>
                  store'.decisions[task'[c][h].step] = "pending"
  <2>1. CASE h # g
    <3>1. task'[c][h] = task[c][h]
      BY <1>1, <2>1
    <3>2. task[c][h].step \in Steps
      BY Tables DEF Typed, TaskTable, TaskType
    <3> QED
      BY <1>2, <1>3, <3>1, <3>2 DEF Waits
  <2> QED
    BY <2>1
<1>6. ASSUME NEW u \in Steps, call'[c].ctx = "live", Level[u] = call'[c].level,
             call'[c].mem[u] = "suspended"
      PROVE  \/ store'.decisions[u] = "pending" \/ u \in call'[c].todo
             \/ task'[c][u].pc = "start" /\ task'[c][u].step = u
  <2>1. store'.decisions[u] = "pending" \/ call[c].mem[u] = "suspended"
    BY <1>1, <1>6 DEF MemOf
  <2>2. SUFFICES ASSUME call[c].mem[u] = "suspended", store'.decisions[u] # "pending"
                 PROVE  \/ u \in call'[c].todo
                        \/ task'[c][u].pc = "start" /\ task'[c][u].step = u
    BY <2>1
  <2>3. \/ store.decisions[u] = "pending" \/ u \in call[c].todo
        \/ task[c][u].pc = "start" /\ task[c][u].step = u
    <3>1. /\ Waits(store, call[c], task[c]) /\ call[c].ctx = "live"
          /\ Level[u] = call[c].level
      BY <1>1, <1>3, <1>6
    <3> QED
      BY <2>2, <3>1 DEF Waits
  <2>4. ASSUME task[c][u].pc = "start", task[c][u].step = u PROVE u # g
    BY <1>1, <1>6, <2>2, <2>4 DEF MemOf
  <2> QED
    BY <1>1, <1>2, <2>2, <2>3, <2>4
<1>7. Waits(store', call'[c], task'[c])
  BY <1>1, <1>5, <1>6 DEF Waits
<1>8. DecisionsReasoned'
  BY <1>1 DEF AnswerInv, DecisionsReasoned, DecisionOf
<1>9. store'.wf # "suspended"
  BY <1>1 DEF StatusKnown, StatusFits, ActiveLabels
<1> QED
  BY <1>4, <1>7, <1>8, <1>9 DEF AnswerInv

LEMMA TaskAnswerable ==
  ASSUME AnswersResume, Typed, AnswerInv, NEW c \in Calls, NEW g \in Steps,
         TaskStep(c, g), AllCalm', StatusKnown'
  PROVE  AnswerInv'
<1> DEFINE p == task[c][g].pc
           s == task[c][g].step
<1>1. /\ TaskKept(c, g) /\ TaskKinds(c, g) /\ p # "idle" /\ s \in Steps
  BY TaskDoes, TaskBusy, TaskFacts DEF Typed
<1>2. /\ call[c].pc = "submit"
      /\ Dead(c, g) => call[c].ctx # "live"
  BY <1>1 DEF AnswersResume, AnswerInv, AllCalm, Calm, Dead
<1>3. /\ p = "create" => s \in Reasoning
      /\ p \in {"request", "suspend_step"} => store.decisions[s] = "pending"
  BY DEF AnswerInv, Waits
<1> USE DEF Does, SameDecision, MemOf, DecisionOf
<1>4. CASE Errs(c, g)
  BY <1>1, <1>2, <1>4, TaskWaits DEF Errs
<1>5. CASE Faulted(c, g) /\ FailureKinds(c, g)
  <2>1. /\ FailLabel(s) \in {"persist_fallback", "persist_failed"}
        /\ p # "start"
    BY <1>5 DEF FailLabel, Faulted
  <2>2. CASE \/ ~Dead(c, g) /\ Records(c, g, "persist_retrying", "retrying")
             \/ ~Dead(c, g) /\ Records(c, g, "persist_end", "completed")
    BY <1>1, <1>2, <2>2, TaskWaits DEF Records
  <2>3. CASE Fails(c, g)
    BY <1>1, <1>2, <2>1, <2>3, TaskWaits DEF Fails, Records
  <2>4. CASE Dead(c, g) /\ Passes(c, g, "idle")
    BY <1>1, <1>2, <2>4, TaskWaits DEF Passes
  <2> QED
    BY <1>4, <1>5, <2>2, <2>3, <2>4 DEF FailureKinds
<1>6. CASE Persists(c, g)
  <2>1. /\ p # "start" /\ AfterPersist[p] \notin {"create", "request", "suspend_step"}
    BY <1>6 DEF Persists, AfterPersist
  <2>2. /\ task'[c][g].pc = AfterPersist[p] /\ call'[c].mem = call[c].mem
        /\ store'.decisions = store.decisions
    BY <1>6 DEF Persists
  <2> QED
    BY <1>1, <1>2, <2>1, <2>2, TaskWaits
<1>7. CASE \/ p = "start" /\ Records(c, g, "persist_running", "running")
           \/ p = "backoff" /\ Records(c, g, "reexec", "running")
           \/ p = "complete" /\ Records(c, g, "persist_end", "completed")
           \/ p = "skip_step" /\ Records(c, g, "persist_end", "skipped")
  BY <1>1, <1>2, <1>7, TaskWaits DEF Records
<1>8. CASE \/ p \in {"exec", "reexec"} /\ Passes(c, g, "complete")
           \/ p \in {"exec", "reexec"} /\ Passes(c, g, "idle")
  BY <1>1, <1>2, <1>8, TaskWaits DEF Passes
<1>9. CASE p = "exec" /\ s \in Reasoning /\ Looks(c, g)
  BY <1>1, <1>2, <1>9, TaskWaits DEF Looks, Passes
<1>10. CASE /\ p = "create" /\ DecisionOf(c, g) = "none"
            /\ Does(c, g, "request", MemOf(c, g), LogOf(c, g))
            /\ store'.decisions[s] = "pending"
  BY <1>1, <1>2, <1>3, <1>10, TaskWaits
<1>11. CASE /\ p = "request" /\ Does(c, g, "suspend_step", MemOf(c, g), "suspended")
            /\ SameDecision(c, g)
  BY <1>1, <1>2, <1>3, <1>11, TaskWaits
<1>12. CASE /\ p = "suspend_step" /\ Does(c, g, "persist_end", "suspended", LogOf(c, g))
            /\ SameDecision(c, g)
  BY <1>1, <1>2, <1>3, <1>12, TaskWaits
<1> HIDE DEF Does, SameDecision, MemOf, DecisionOf
<1> QED
  BY <1>1, <1>4, <1>5, <1>6, <1>7, <1>8, <1>9, <1>10, <1>11, <1>12 DEF TaskKinds

LEMMA InitAnswerable == Init => AnswerInv
<1> SUFFICES ASSUME Init PROVE AnswerInv
  OBVIOUS
<1>1. /\ store.wf = "pending" /\ \A s \in Steps : store.decisions[s] = "none"
      /\ \A c \in Calls : /\ call[c].pc = "idle"
                          /\ \A g \in Steps : task[c][g].pc = "idle" /\ ~task[c][g].dead
  BY DEF Init, IdleCall, IdleTask
<1>2. AllCalm /\ DecisionsReasoned /\ \A c \in Calls : Waits(store, call[c], task[c])
  BY <1>1 DEF AllCalm, Calm, DecisionsReasoned, Waits
<1> QED
  BY <1>1, <1>2, InitStatus DEF AnswerInv

LEMMA NextAnswerable ==
  ASSUME AnswersResume, Typed /\ AnswerInv, [Next]_vars
  PROVE  (Typed /\ AnswerInv)'
<1>1. /\ Typed /\ AnswerInv /\ StatusKnown /\ AllCalm /\ MaxInFlight <= 1 /\ MaxCrashes = 0
  BY DEF AnswerInv, AnswersResume
<1>2. Typed' /\ StatusKnown' /\ AllCalm'
  BY <1>1, NextTyped, NextStatus, NextCalm
<1>3. AnswerInv'
  BY <1>1, <1>2, CallAnswerable, ArrivalAnswerable, TaskAnswerable, EnvironmentAnswerable
  DEF Next
<1> QED
  BY <1>2, <1>3

\* With one agent, no crash and the hypotheses of AnswersResume, the engine
\* never leaves a workflow suspended on nothing: when it says "suspended" and no
\* call is in progress, a reasoning step has a pending decision that a signal
\* can resolve (executor.go:717-744, 1040-1131, 1563-1643).
THEOREM WaitsForAnAnswer ==
  ASSUME AnswersResume
  PROVE  Spec => []SuspendedIsAnswerable
<1>1. Init => Typed /\ AnswerInv
  BY InitTyped, InitAnswerable
<1>2. Typed /\ AnswerInv /\ [Next]_vars => (Typed /\ AnswerInv)'
  BY NextAnswerable
<1>3. AnswerInv => SuspendedIsAnswerable
  <2> SUFFICES ASSUME AnswerInv, InFlight = {}, store.wf = "suspended"
               PROVE  \E s \in Reasoning : store.decisions[s] = "pending"
    BY DEF SuspendedIsAnswerable, Quiet
  <2>1. \A c \in Calls : call[c].pc \notin Resuming
    BY DEF InFlight, Resuming
  <2> QED
    BY <2>1 DEF AnswerInv, DecisionsReasoned
<1> QED
  BY <1>1, <1>2, <1>3, PTL DEF Spec

-----------------------------------------------------------------------------
(* A failure that nobody handles. *)

\* The log holds a failed step that no fallback replaces.
Broken(st) == \E s \in Steps : st.log[s] = "failed" /\ Fallback[s] = None

\* A call that cannot end in a completed workflow: its context is done, a step
\* of its level has failed, or it is about to say that the workflow failed.
Doomed(r, t) ==
  \/ r.pc \in InDag /\ r.ctx # "live"
  \/ /\ r.pc = "submit"
     /\ \E g \in Steps : \/ t[g].pc = "persist_failed"
                         \/ g \in r.errs /\ r.mem[g] # "suspended"
  \/ r.pc \in {"ctx_error", "expire_fail"}
  \/ r.pc \in FinishLabels /\ r.verdict = "failed"

\* A goroutine whose step failed is no suspended one, which hides its error.
Paths(r, t) ==
  /\ \A g \in Steps :
       /\ t[g].pc \in {"create", "request", "suspend_step", "skip_step"}
            => t[g].step \in Reasoning
       /\ t[g].pc = "persist_fallback" => Fallback[t[g].step] # None
       /\ t[g].pc \in {"persist_fallback", "persist_failed"} => r.mem[g] # "suspended"
       /\ t[g].pc # "idle" /\ t[g].step # g
            => t[g].step \notin Reasoning /\ r.mem[g] # "suspended"
  /\ r.pc = "submit" => /\ \A g \in r.todo \cup r.errs : t[g].pc = "idle"
                        /\ r.todo \cap r.errs = {}

\* The deadline ends the contexts of the levels.
Expiry(k, r) ==
  /\ k.deadline /\ r.pc \in InDag => r.ctx # "live"
  /\ r.pc \in InDag \cup {"ctx_error"} /\ r.ctx = "deadline" => k.deadline

FailureInv ==
  /\ StatusKnown /\ AllCalm
  /\ \A c \in Calls : Paths(call[c], task[c]) /\ Expiry(clock, call[c])
  /\ Broken(store) =>
       /\ store.wf # "completed"
       /\ \A c \in Calls : call[c].pc \in FinishLabels => call[c].verdict # "completed"
       /\ \/ clock.deadline \/ store.wf \in {"failed", "cancelled"}
          \/ \E c \in Calls : Doomed(call[c], task[c])

\* Each hypothesis excludes a way in which a failure is forgotten: a second run
\* that does not know of it, a crash after which the replayed status is taken
\* for settled, and a fallback to a reasoning step, whose suspension hides the
\* error of the goroutine that was started for the same step.
FailuresSurface ==
  /\ MaxInFlight <= 1 /\ MaxCrashes = 0
  /\ \A s \in Steps : Fallback[s] \notin Reasoning

\* A call in progress while the log holds a failure that nobody handles.
Honest(st, k, r, t) ==
  Broken(st) => /\ st.wf # "completed"
                /\ r.pc \in FinishLabels => r.verdict # "completed"
                /\ \/ k.deadline \/ st.wf \in {"failed", "cancelled"}
                   \/ Doomed(r, t)

LEMMA CallHonest ==
  ASSUME FailureInv, NEW c \in Calls, call[c].pc \notin OutOfCall
  PROVE  Honest(store, clock, call[c], task[c])
<1>1. \A d \in Calls \ {c} : call[d].pc \in OutOfCall
  BY DEF FailureInv, StatusKnown, Alone
<1>2. \A d \in Calls \ {c} : ~Doomed(call[d], task[d])
  BY <1>1 DEF Doomed, OutOfCall, InDag, FinishLabels
<1> QED
  BY <1>2 DEF FailureInv, Honest

\* A call moves, the others are out.
LEMMA FailMoves ==
  ASSUME FailureInv, NEW c \in Calls, call[c].pc \notin OutOfCall, clock' = clock,
         \A d \in Calls \ {c} : call'[d].pc = call[d].pc /\ task'[d] = task[d],
         StatusKnown', AllCalm',
         Paths(call'[c], task'[c]), Expiry(clock, call'[c]),
         Honest(store', clock, call'[c], task'[c])
  PROVE  FailureInv'
<1>1. \A d \in Calls \ {c} : call[d].pc \in OutOfCall
  BY DEF FailureInv, StatusKnown, Alone
<1>2. ASSUME NEW d \in Calls, d # c
      PROVE  Paths(call'[d], task'[d]) /\ Expiry(clock, call'[d])
  <2>1. call'[d].pc \in OutOfCall /\ task'[d] = task[d]
    BY <1>1, <1>2
  <2>2. \A g \in Steps : task[d][g].pc = "idle"
    BY <1>1, <1>2, CalmIdle DEF FailureInv, OutOfCall
  <2> QED
    BY <2>1, <2>2 DEF Paths, Expiry, OutOfCall, InDag
<1>3. \A d \in Calls \ {c} : call'[d].pc \notin FinishLabels
  BY <1>1 DEF OutOfCall, FinishLabels
<1> QED
  BY <1>2, <1>3 DEF FailureInv, Honest

\* A call outside the levels goes on; the log gets no new failure.
LEMMA FailGoes ==
  ASSUME FailureInv, NEW c \in Calls, NEW l, NEW m, Goes(c, l, m), clock' = clock,
         l \notin OutOfCall, m # "submit",
         StatusKnown', AllCalm', Expiry(clock, call'[c]),
         \A s \in Steps : store'.log[s] = "failed" => store.log[s] = "failed",
         Broken(store) =>
           /\ store'.wf # "completed"
           /\ m \in FinishLabels => call'[c].verdict # "completed"
           /\ \/ clock.deadline \/ store'.wf \in {"failed", "cancelled"}
              \/ Doomed(call'[c], task[c])
  PROVE  FailureInv'
<1>1. /\ call[c].pc = l /\ call'[c].pc = m /\ task' = task
      /\ \A d \in Calls \ {c} : call'[d].pc = call[d].pc /\ task'[d] = task[d]
  BY DEF Goes, OnlyCall
<1>2. \A g \in Steps : task'[c][g].pc = "idle"
  BY <1>1 DEF AllCalm, Calm
<1>3. Paths(call'[c], task'[c])
  BY <1>1, <1>2 DEF Paths
<1>4. Broken(store') => Broken(store)
  BY DEF Broken
<1>5. Honest(store', clock, call'[c], task'[c])
  BY <1>1, <1>4 DEF Honest
<1> QED
  BY <1>1, <1>3, <1>5, FailMoves

\* The same where the call is not doomed and does not become so.
LEMMA FailStays ==
  ASSUME FailureInv, NEW c \in Calls, NEW l, NEW m, Goes(c, l, m), clock' = clock,
         l \notin OutOfCall, m # "submit", m \notin FinishLabels,
         ~Doomed(call[c], task[c]),
         StatusKnown', AllCalm', Expiry(clock, call'[c]),
         \A s \in Steps : store'.log[s] = "failed" => store.log[s] = "failed",
         store'.wf \in {store.wf, "failed", "cancelled"} \/ store.wf \notin {"failed", "cancelled"},
         store'.wf # "completed" \/ store.wf = "completed"
  PROVE  FailureInv'
<1>1. call[c].pc \notin OutOfCall
  BY DEF Goes
<1>2. Honest(store, clock, call[c], task[c])
  BY <1>1, CallHonest
<1> QED
  BY <1>2, FailGoes DEF Honest

LEMMA CallFails ==
  ASSUME FailuresSurface, Typed, FailureInv, NEW c \in Calls, CallStep(c)
  PROVE  FailureInv'
<1>1. /\ TypeOK /\ StatusFits(store.wf, call[c]) /\ Prepared(call[c])
      /\ Paths(call[c], task[c]) /\ Expiry(clock, call[c])
      /\ call[c].pc \notin OutOfCall /\ clock' = clock
      /\ StatusKnown /\ AllCalm
  BY CallIsActive, ClockKept DEF Typed, LocalsSet, FailureInv, StatusKnown
<1>2. StatusKnown' /\ AllCalm' /\ Honest(store, clock, call[c], task[c])
  BY <1>1, CallStatus, CallCalm, CallHonest
<1>3. \A d \in Calls \ {c} : call'[d].pc = call[d].pc /\ task'[d] = task[d]
  BY <1>1, CallCalm
<1>4. ASSUME NEW l, NEW m, Goes(c, l, m), m \notin InDag \cup {"ctx_error"}
      PROVE  Expiry(clock, call'[c])
  BY <1>4 DEF Goes, Expiry
<1>5. ASSUME NEW l, NEW m, Goes(c, l, m),
             l \notin InDag \cup {"ctx_error", "expire_fail"} \cup FinishLabels
      PROVE  ~Doomed(call[c], task[c])
  BY <1>5 DEF Goes, Doomed, InDag
<1> USE DEF OutOfCall, InDag, FinishLabels
<1>6. CASE RunUpdate(c) \/ RunInitSteps(c)
  <2>1. CASE RunUpdate(c)
    <3>1. /\ Goes(c, "run_update", "run_init") /\ store'.log = store.log
          /\ store'.wf = "active" /\ store.wf = "pending"
      BY <1>1, <2>1, RunEffects DEF SameSteps, StatusFits, Goes
    <3> QED
      BY <1>1, <1>2, <1>4, <1>5, <3>1, FailStays
  <2>2. CASE RunInitSteps(c)
    <3>1. /\ Goes(c, "run_init", "run_register") /\ store'.log = store.log
          /\ store'.wf = store.wf
      BY <1>1, <2>2, RunEffects
    <3> QED
      BY <1>1, <1>2, <1>4, <1>5, <3>1, FailStays
  <2> QED
    BY <1>6, <2>1, <2>2
<1>7. CASE RunRegister(c)
  <2>1. /\ Goes(c, "run_register", "level") /\ store' = store
        /\ call'[c].ctx = IF clock.deadline THEN "deadline" ELSE "live"
    BY <1>1, <1>7, RunEffects
  <2>2. Expiry(clock, call'[c])
    BY <2>1 DEF Expiry
  <2> QED
    BY <1>1, <1>2, <1>5, <2>1, <2>2, FailStays
<1>8. CASE BeginLevel(c)
  <2>1. /\ Goes(c, "level", "submit") /\ store' = store /\ call[c].ctx = "live"
        /\ call'[c].ctx = "live" /\ call'[c].errs = {}
    BY <1>1, <1>8, BeginLevelEffect
  <2>2. /\ \A g \in Steps : task'[c][g].pc = "idle"
        /\ call[c].pc = "level" /\ call'[c].pc = "submit"
    BY <1>1, <2>1, CalmIdle DEF Goes
  <2>3. call'[c].todo \subseteq Steps
    BY <1>1, <1>8, BeginLevelEffect DEF LevelSteps
  <2>4. Paths(call'[c], task'[c]) /\ Expiry(clock, call'[c])
    BY <1>1, <2>1, <2>2, <2>3 DEF Paths, Expiry
  <2>5. Honest(store', clock, call'[c], task'[c])
    <3>1. ~Doomed(call[c], task[c])
      BY <2>1, <2>2 DEF Doomed
    <3> QED
      BY <1>2, <2>1, <2>2, <3>1 DEF Honest
  <2> QED
    BY <1>1, <1>2, <1>3, <2>4, <2>5, FailMoves
<1>9. CASE EndLevels(c)
  <2>1. CASE Goes(c, "level", "ctx_error") /\ call[c].ctx # "live"
    <3>1. /\ call'[c].pc = "ctx_error" /\ call'[c].ctx = call[c].ctx /\ store' = store
          /\ call[c].pc = "level"
      BY <1>1, <1>9, <2>1, EndLevelsEffect DEF Goes
    <3>2. Expiry(clock, call'[c]) /\ Doomed(call'[c], task[c])
      BY <1>1, <3>1 DEF Expiry, Doomed
    <3> QED
      BY <1>1, <1>2, <2>1, <3>1, <3>2, FailGoes DEF Honest
  <2>2. CASE /\ Goes(c, "level", "finish_event") /\ call[c].ctx = "live"
             /\ call'[c].verdict = "completed"
    <3>1. store' = store /\ call[c].pc = "level" /\ store.wf = "active"
      BY <1>1, <1>9, <2>2, EndLevelsEffect DEF Goes, StatusFits, ActiveLabels
    <3>2. ~clock.deadline /\ ~Doomed(call[c], task[c])
      BY <1>1, <2>2, <3>1 DEF Expiry, Doomed
    <3>3. ~Broken(store)
      BY <1>2, <3>1, <3>2 DEF Honest
    <3> QED
      BY <1>1, <1>2, <1>4, <2>2, <3>1, <3>3, FailGoes
  <2> QED
    BY <1>1, <1>9, <2>1, <2>2, EndLevelsEffect
<1>10. CASE LevelDone(c)
  <2>1. /\ store' = store /\ call[c].pc = "submit" /\ task' = task
        /\ call'[c].ctx = call[c].ctx /\ call'[c].mem = call[c].mem
        /\ \A g \in Steps : task[c][g].pc = "idle"
    BY <1>1, <1>10, LevelDoneEffect DEF Goes
  <2>2. CASE Goes(c, "submit", "ctx_error") /\ call[c].ctx # "live"
    <3>1. Expiry(clock, call'[c]) /\ Doomed(call'[c], task[c])
      BY <1>1, <2>1, <2>2 DEF Expiry, Doomed, Goes
    <3> QED
      BY <1>1, <1>2, <2>1, <2>2, <3>1, FailGoes DEF Honest
  <2>3. CASE Goes(c, "submit", "finish_event") /\ call'[c].verdict = "failed"
    <3>1. Doomed(call'[c], task[c])
      BY <2>3 DEF Doomed, Goes
    <3> QED
      BY <1>1, <1>2, <1>4, <2>1, <2>3, <3>1, FailGoes DEF Honest
  <2>4. CASE call[c].ctx = "live" /\ LevelFailures(c) = {}
    <3>1. ~Doomed(call[c], task[c])
      BY <2>1, <2>4 DEF Doomed, LevelFailures
    <3>2. ASSUME NEW m, Goes(c, "submit", m) PROVE Expiry(clock, call'[c])
      BY <1>1, <2>1, <2>4, <3>2 DEF Expiry
    <3>3. ASSUME NEW m, Goes(c, "submit", m), m \in {"suspend", "level"} PROVE FailureInv'
      BY <1>1, <1>2, <2>1, <3>1, <3>2, <3>3, FailStays
    <3> QED
      BY <1>1, <1>10, <2>2, <2>3, <3>3, LevelDoneEffect
  <2> QED
    BY <1>1, <1>10, <2>2, <2>3, <2>4, LevelDoneEffect
<1>11. ASSUME NEW s \in Steps, Submit(c, s)
       PROVE  FailureInv'
  <2>1. /\ call[c].pc = "submit" /\ call'[c].pc = "submit" /\ s \in call[c].todo
        /\ call'[c].mem = call[c].mem /\ call'[c].todo = call[c].todo \ {s}
        /\ call'[c].errs = call[c].errs /\ call'[c].ctx = call[c].ctx /\ store' = store
        /\ \A g \in Steps \ {s} : task'[c][g] = task[c][g]
        /\ task'[c][s].pc = "start" /\ task'[c][s].step = s
    BY <1>1, <1>11, SubmitEffects
  <2>2. s \notin call[c].errs /\ task[c][s].pc = "idle"
    BY <1>1, <2>1 DEF Paths
  <2>3. Paths(call'[c], task'[c])
    <3>1. call[c].todo \subseteq Steps /\ call[c].errs \subseteq Steps
      BY <1>1, Tables DEF CallTable, CallType
    <3>2. \A g \in call'[c].todo \cup call'[c].errs : task'[c][g] = task[c][g]
      BY <2>1, <2>2, <3>1
    <3> QED
      BY <1>1, <2>1, <2>2, <3>2 DEF Paths
  <2>4. Expiry(clock, call'[c])
    BY <1>1, <2>1 DEF Expiry
  <2>5. Doomed(call[c], task[c]) => Doomed(call'[c], task'[c])
    BY <2>1, <2>2 DEF Doomed
  <2>6. Honest(store', clock, call'[c], task'[c])
    BY <1>2, <2>1, <2>5 DEF Honest
  <2> QED
    BY <1>1, <1>2, <1>3, <2>3, <2>4, <2>6, FailMoves
<1>12. ASSUME NEW s \in Steps, RejectSubmit(c, s)
       PROVE  FailureInv'
  <2>1. /\ call[c].pc = "submit" /\ call'[c].pc = "submit" /\ s \in call[c].todo
        /\ call'[c].mem = call[c].mem /\ call'[c].todo = call[c].todo \ {s}
        /\ call'[c].errs = call[c].errs \cup {s} /\ call'[c].ctx = call[c].ctx
        /\ call[c].ctx # "live" /\ store' = store /\ task' = task
    BY <1>1, <1>12, SubmitEffects DEF Goes
  <2>2. Paths(call'[c], task'[c])
    BY <1>1, <2>1 DEF Paths
  <2>3. Expiry(clock, call'[c]) /\ Doomed(call'[c], task'[c])
    BY <1>1, <2>1 DEF Expiry, Doomed
  <2>4. Honest(store', clock, call'[c], task'[c])
    BY <1>2, <2>1, <2>3 DEF Honest
  <2> QED
    BY <1>1, <1>2, <1>3, <2>2, <2>3, <2>4, FailMoves
<1>13. CASE SuspendWorkflow(c)
  <2>1. /\ Goes(c, "suspend", "unregister") /\ store'.log = store.log
        /\ store'.wf = "suspended" /\ store.wf = "active"
    BY <1>1, <1>13, EndEffects DEF SameSteps, Goes, StatusFits, ActiveLabels
  <2> QED
    BY <1>1, <1>2, <1>4, <1>5, <2>1, FailStays
<1>14. CASE FinishEvent(c) \/ FinishUpdate(c)
  <2>1. /\ store'.log = store.log /\ call'[c].verdict = call[c].verdict
        /\ store'.wf \in {store.wf, call[c].verdict}
        /\ call[c].pc \in FinishLabels
    BY <1>1, <1>14, EndEffects DEF SameSteps, SameOrder, Goes
  <2>2. call[c].verdict \in TerminalWorkflow
    BY <1>1, <2>1 DEF Prepared
  <2>3. CASE FinishEvent(c)
    <3>1. Goes(c, "finish_event", "finish_update") /\ store'.wf = store.wf
      BY <1>1, <2>3, EndEffects
    <3>2. Doomed(call[c], task[c]) => Doomed(call'[c], task[c])
      BY <2>1, <3>1 DEF Doomed, Goes
    <3> QED
      BY <1>1, <1>2, <1>4, <2>1, <3>1, <3>2, FailGoes DEF Honest
  <2>4. CASE FinishUpdate(c)
    <3>1. /\ store'.wf = call[c].verdict
          /\ Goes(c, "finish_update", "finish_persist") \/ Goes(c, "finish_persist", "unregister")
      BY <1>1, <2>4, EndEffects
    <3>2. Broken(store) => store'.wf \in {"failed", "cancelled"}
      BY <1>2, <2>1, <2>2, <3>1 DEF Honest, TerminalWorkflow
    <3> QED
      BY <1>1, <1>2, <1>4, <2>1, <3>1, <3>2, FailGoes DEF Honest
  <2> QED
    BY <1>14, <2>3, <2>4
<1>15. CASE Unregister(c)
  <2>1. Goes(c, "unregister", "done") /\ store' = store
    BY <1>1, <1>15, EndEffects
  <2> QED
    BY <1>1, <1>2, <1>4, <1>5, <2>1, FailStays
<1>16. CASE ContextError(c)
  <2>1. /\ call[c].pc = "ctx_error" /\ store.wf = "active"
        /\ call[c].ctx = "deadline" => clock.deadline
    BY <1>1, <1>16 DEF ContextError, At, StatusFits, ActiveLabels, Expiry
  <2>2. CASE /\ call[c].ctx = "deadline" /\ Goes(c, "ctx_error", "unregister")
             /\ store'.wf \in {"active", "suspended"}
             /\ \A s \in Steps : store'.log[s] \in {store.log[s], "skipped"}
    BY <1>1, <1>2, <1>4, <2>1, <2>2, FailGoes
  <2>3. CASE /\ Goes(c, "ctx_error", "finish_event") /\ store' = store
             /\ call'[c].verdict = "failed"
    <3>1. Doomed(call'[c], task[c])
      BY <2>3 DEF Doomed, Goes
    <3> QED
      BY <1>1, <1>2, <1>4, <2>3, <3>1, FailGoes DEF Honest
  <2> QED
    BY <1>1, <1>16, <2>1, <2>2, <2>3, ContextErrorEffect DEF SameSteps
<1>17. CASE SignalApply(c)
  <2>1. store'.log = store.log /\ store'.wf = store.wf
    BY <1>17, SignalApplyEffect DEF SameLog
  <2>2. ASSUME NEW m, Goes(c, "signal_apply", m), m \in {"done", "resume_load"}
        PROVE  FailureInv'
    BY <1>1, <1>2, <1>4, <1>5, <2>1, <2>2, FailStays
  <2> QED
    BY <1>17, <2>2, SignalApplyEffect
<1>18. CASE ResumeLoad(c) \/ ResumeReplay(c) \/ ResumeList(c)
  <2>1. store' = store
    BY <1>1, <1>18, ResumeEffects
  <2>2. ASSUME NEW l, NEW m, Goes(c, l, m),
               l \in {"resume_load", "resume_replay", "resume_list"},
               m \in {"done", "resume_replay", "resume_list", "resume_expire"}
        PROVE  FailureInv'
    BY <1>1, <1>2, <1>4, <1>5, <2>1, <2>2, FailStays
  <2> QED
    BY <1>1, <1>18, <2>2, ResumeEffects
<1>19. CASE ResumeActivate(c)
  <2>1. /\ Goes(c, "resume_expire", "resume_register") /\ store'.log = store.log
        /\ store'.wf \in {"active", store.wf} /\ store.wf \in {"suspended", "active"}
    BY <1>1, <1>19, ResumeEffects DEF SameSteps, StatusFits, Goes
  <2> QED
    BY <1>1, <1>2, <1>4, <1>5, <2>1, FailStays
<1>20. CASE ResumeRegister(c)
  <2>1. store' = store
    BY <1>1, <1>20, ResumeEffects
  <2>2. CASE Goes(c, "resume_register", "done")
    BY <1>1, <1>2, <1>4, <1>5, <2>1, <2>2, FailStays
  <2>3. CASE /\ Goes(c, "resume_register", "level") /\ ~clock.deadline
             /\ call'[c].ctx = "live"
    <3>1. Expiry(clock, call'[c])
      BY <2>3 DEF Expiry
    <3> QED
      BY <1>1, <1>2, <1>5, <2>1, <2>3, <3>1, FailStays
  <2> QED
    BY <1>1, <1>20, <2>2, <2>3, ResumeEffects
<1>21. ASSUME NEW s \in Steps, ResumeExpire(c, s) PROVE FailureInv'
  <2>1. store'.log = store.log /\ store'.wf = store.wf
    BY <1>21, ExpireEffects DEF SameLog
  <2>2. ASSUME NEW m, Goes(c, "resume_expire", m), m \in {"resume_expire", "expire_event"}
        PROVE  FailureInv'
    BY <1>1, <1>2, <1>4, <1>5, <2>1, <2>2, FailStays
  <2> QED
    BY <1>21, <2>2, ExpireEffects
<1>22. CASE ResumeExpireEvent(c)
  <2>1. /\ Goes(c, "expire_event", "expire_fail") /\ store'.wf = store.wf
        /\ store.wf \in {"suspended", "active"}
    BY <1>1, <1>22, ExpireEffects DEF StatusFits, Goes
  <2>2. call'[c].pc = "expire_fail" /\ task' = task /\ \A g \in Steps : task'[c][g].pc = "idle"
    BY <1>1, <2>1, CalmIdle DEF Goes
  <2>3. Paths(call'[c], task'[c]) /\ Honest(store', clock, call'[c], task'[c])
    BY <2>1, <2>2 DEF Paths, Honest, Doomed
  <2> QED
    BY <1>1, <1>2, <1>3, <1>4, <2>1, <2>3, FailMoves
<1>23. CASE ResumeExpireFail(c)
  <2>1. /\ Goes(c, "expire_fail", "done") /\ store'.log = store.log /\ store'.wf = "failed"
    BY <1>1, <1>23, ExpireEffects DEF SameSteps
  <2> QED
    BY <1>1, <1>2, <1>4, <2>1, FailGoes
<1>24. CASE CancelEvent(c) \/ CancelUpdate(c) \/ CancelSteps(c)
  <2>1. CASE CancelEvent(c)
    <3>1. /\ Goes(c, "cancel_event", "cancel_update") /\ store'.wf = store.wf
          /\ \A s \in Steps : store'.log[s] = "failed" => store.log[s] = "failed"
      BY <1>1, <2>1, CancelEffects DEF SkipLog
    <3> QED
      BY <1>1, <1>2, <1>4, <1>5, <3>1, FailStays
  <2>2. CASE CancelUpdate(c)
    <3>1. /\ Goes(c, "cancel_update", "cancel_steps") /\ store'.wf = "cancelled"
          /\ store'.log = store.log
      BY <1>1, <2>2, CancelEffects DEF SameSteps
    <3> QED
      BY <1>1, <1>2, <1>4, <1>5, <3>1, FailStays
  <2>3. CASE CancelSteps(c)
    <3>1. /\ Goes(c, "cancel_steps", "cancel_run") /\ store'.wf = store.wf
          /\ store'.log = store.log
      BY <1>1, <2>3, CancelEffects
    <3> QED
      BY <1>1, <1>2, <1>4, <1>5, <3>1, FailStays
  <2> QED
    BY <1>24, <2>1, <2>2, <2>3
<1>25. CASE CancelRun(c)
  <2>1. /\ call[c].pc = "cancel_run" /\ call'[c].pc = "done" /\ store' = store /\ task' = task
    BY <1>1, <1>25, CancelEffects
  <2>2. /\ Paths(call'[c], task'[c]) /\ Expiry(clock, call'[c])
        /\ ~Doomed(call[c], task[c])
    BY <1>1, <2>1, CalmIdle DEF Paths, Expiry, Doomed
  <2>3. Honest(store', clock, call'[c], task'[c])
    BY <1>2, <2>1, <2>2 DEF Honest
  <2> QED
    BY <1>1, <1>2, <1>3, <2>2, <2>3, FailMoves
<1> HIDE DEF OutOfCall, InDag, FinishLabels
<1> QED
  BY <1>6, <1>7, <1>8, <1>9, <1>10, <1>11, <1>12, <1>13, <1>14, <1>15, <1>16, <1>17,
     <1>18, <1>19, <1>20, <1>21, <1>22, <1>23, <1>24, <1>25, Zenon
  DEF CallStep

LEMMA ArrivalFails ==
  ASSUME FailuresSurface, Typed, FailureInv, NEW c \in Calls, Arrivals(c),
         AllCalm', StatusKnown'
  PROVE  FailureInv'
<1>1. /\ TypeOK /\ MaxInFlight <= 1 /\ StatusKnown /\ AllCalm /\ clock' = clock
  BY ClockKept DEF Typed, FailuresSurface, FailureInv
<1>2. /\ Cardinality(InFlight) < MaxInFlight /\ task' = task
      /\ store'.log = store.log /\ store'.wf = store.wf
      /\ \A d \in Calls \ {c} : call'[d].pc = call[d].pc
      /\ call'[c].pc \notin InDag \cup {"ctx_error"} \cup FinishLabels
  BY <1>1, ArrivalEffect DEF SameLog, InDag, FinishLabels
<1>3. \A d \in Calls : call[d].pc \in OutOfCall
  BY <1>1, <1>2, NobodyElse
<1>4. \A d \in Calls : /\ \A g \in Steps : task'[d][g].pc = "idle"
                       /\ ~Doomed(call[d], task[d])
                       /\ call'[d].pc \notin InDag \cup {"ctx_error"} \cup FinishLabels
  BY <1>1, <1>2, <1>3, CalmIdle DEF OutOfCall, Doomed, InDag, FinishLabels
<1>5. \A d \in Calls : Paths(call'[d], task'[d]) /\ Expiry(clock', call'[d])
  BY <1>4 DEF Paths, Expiry, InDag
<1>6. Broken(store') =>
        /\ store'.wf # "completed"
        /\ clock'.deadline \/ store'.wf \in {"failed", "cancelled"}
  BY <1>1, <1>2, <1>4 DEF FailureInv, Broken
<1> QED
  BY <1>4, <1>5, <1>6 DEF FailureInv

LEMMA EnvironmentFails ==
  ASSUME FailuresSurface, Typed, FailureInv, Environment \/ Finished \/ UNCHANGED vars,
         AllCalm', StatusKnown'
  PROVE  FailureInv'
<1>1. MaxCrashes = 0
  BY DEF FailuresSurface
<1>2. /\ store' = store
      /\ \A c \in Calls :
           /\ SameCall(call[c], call'[c])
           /\ call'[c].ctx = "live" => call[c].ctx = "live"
           /\ call'[c].ctx = "deadline" => call[c].ctx = "deadline" \/ clock'.deadline
      /\ \A c \in Calls, g \in Steps :
           task'[c][g].pc = task[c][g].pc /\ task'[c][g].step = task[c][g].step
      /\ clock.deadline => clock'.deadline
      /\ ~clock.deadline /\ clock'.deadline =>
           \A c \in Calls : call'[c].pc \in InDag => call'[c].ctx # "live"
  BY <1>1, TimersCalm DEF Passive
<1>3. ASSUME NEW c \in Calls
      PROVE  /\ Paths(call'[c], task'[c]) /\ Expiry(clock', call'[c])
             /\ Doomed(call[c], task[c]) => Doomed(call'[c], task'[c])
             /\ call'[c].pc = call[c].pc /\ call'[c].verdict = call[c].verdict
  <2>1. Paths(call[c], task[c]) /\ Expiry(clock, call[c])
    BY DEF FailureInv
  <2>2. /\ call'[c].pc = call[c].pc /\ call'[c].verdict = call[c].verdict
        /\ call'[c].mem = call[c].mem /\ call'[c].todo = call[c].todo
        /\ call'[c].errs = call[c].errs
    BY <1>2 DEF SameCall, SameOrder, SameWork
  <2>3. call[c].todo \subseteq Steps /\ call[c].errs \subseteq Steps
    BY Tables DEF Typed, CallTable, CallType
  <2>4. Paths(call'[c], task'[c])
    BY <1>2, <2>1, <2>2, <2>3 DEF Paths
  <2>5. Expiry(clock', call'[c])
    BY <1>2, <2>1, <2>2 DEF Expiry
  <2>6. Doomed(call[c], task[c]) => Doomed(call'[c], task'[c])
    BY <1>2, <2>2 DEF Doomed
  <2> QED
    BY <2>2, <2>4, <2>5, <2>6
<1> QED
  BY <1>2, <1>3 DEF FailureInv

\* A goroutine moves: its error is recorded when it ends, and its failure is
\* its own.
LEMMA TaskSurfaces ==
  ASSUME FailuresSurface, Typed, FailureInv, NEW c \in Calls, NEW g \in Steps,
         TaskKept(c, g), call[c].pc = "submit", task[c][g].pc # "idle",
         AllCalm', StatusKnown', clock' = clock,
         \/ SameErrs(c)
         \/ AddsError(c, g) /\ task'[c][g].pc = "idle",
         task'[c][g].pc \in {"create", "request", "suspend_step", "skip_step"}
           => task'[c][g].step \in Reasoning,
         task'[c][g].pc = "persist_fallback" => Fallback[task'[c][g].step] # None,
         \/ task'[c][g].step = task[c][g].step
         \/ /\ task'[c][g].step \notin Reasoning /\ call[c].mem[g] # "suspended"
            /\ call'[c].mem[g] = call[c].mem[g],
         task'[c][g].pc \in {"persist_fallback", "persist_failed"} =>
           call'[c].mem[task[c][g].step] # "suspended",
         call'[c].mem[task[c][g].step] = "suspended" =>
           MemOf(c, g) = "suspended" \/ task[c][g].step \in Reasoning,
         store'.log[task[c][g].step] = "failed" /\ Fallback[task[c][g].step] = None =>
           LogOf(c, g) = "failed" \/ task'[c][g].pc = "persist_failed",
         task[c][g].pc = "persist_failed" => AddsError(c, g) /\ call'[c].mem = call[c].mem
  PROVE  FailureInv'
<1> DEFINE s == task[c][g].step
<1>1. /\ \A d \in Calls \ {c} : call'[d] = call[d] /\ task'[d] = task[d]
      /\ call'[c].pc = "submit" /\ call'[c].todo = call[c].todo
      /\ call'[c].ctx = call[c].ctx /\ store'.wf = store.wf
      /\ \A u \in Steps \ {s} : /\ call'[c].mem[u] = call[c].mem[u]
                                /\ store'.log[u] = store.log[u]
      /\ \A h \in Steps \ {g} : task'[c][h] = task[c][h]
  BY DEF TaskKept, OnlyCall
<1>2. Paths(call[c], task[c]) /\ Expiry(clock, call[c])
  BY DEF FailureInv
<1>3. /\ call[c].todo \subseteq Steps /\ call[c].errs \subseteq Steps /\ s \in Steps
  BY Tables, TaskFacts DEF Typed, CallTable, CallType
<1>4. /\ g \notin call[c].todo \cup call[c].errs
      /\ s # g => s \notin Reasoning /\ call[c].mem[g] # "suspended"
  BY <1>2 DEF Paths
<1>5. ASSUME NEW h \in Steps, h # g, call[c].mem[h] # "suspended"
      PROVE  call'[c].mem[h] # "suspended"
  BY <1>1, <1>4, <1>5 DEF MemOf
<1>6. /\ call'[c].errs = call[c].errs \cup {g} /\ task'[c][g].pc = "idle"
      \/ call'[c].errs = call[c].errs
  BY DEF AddsError, SameErrs
<1>7. Paths(call'[c], task'[c])
  <2>1. ASSUME NEW h \in Steps
        PROVE  /\ task'[c][h].pc \in {"create", "request", "suspend_step", "skip_step"}
                    => task'[c][h].step \in Reasoning
               /\ task'[c][h].pc = "persist_fallback" => Fallback[task'[c][h].step] # None
               /\ task'[c][h].pc \in {"persist_fallback", "persist_failed"} =>
                    call'[c].mem[h] # "suspended"
               /\ task'[c][h].pc # "idle" /\ task'[c][h].step # h =>
                    task'[c][h].step \notin Reasoning /\ call'[c].mem[h] # "suspended"
    <3>1. CASE h # g
      <4>1. task'[c][h] = task[c][h]
        BY <1>1, <3>1
      <4> QED
        BY <1>2, <1>5, <3>1, <4>1 DEF Paths
    <3>2. CASE h = g
      <4>1. s # g => call'[c].mem[g] = call[c].mem[g]
        BY <1>1
      <4> QED
        BY <1>4, <3>2, <4>1
    <3> QED
      BY <3>1, <3>2
  <2>2. \A h \in call'[c].todo \cup call'[c].errs : task'[c][h].pc = "idle"
    BY <1>1, <1>2, <1>3, <1>4, <1>6 DEF Paths
  <2>3. call'[c].todo \cap call'[c].errs = {}
    BY <1>1, <1>2, <1>4, <1>6 DEF Paths
  <2> QED
    BY <2>1, <2>2, <2>3 DEF Paths
<1>8. Expiry(clock, call'[c])
  BY <1>1, <1>2 DEF Expiry
<1>9. Doomed(call[c], task[c]) => Doomed(call'[c], task'[c])
  <2>1. CASE call[c].ctx # "live"
    BY <1>1, <2>1 DEF Doomed, InDag
  <2>2. ASSUME NEW h \in Steps, task[c][h].pc = "persist_failed"
        PROVE  Doomed(call'[c], task'[c])
    <3>1. CASE h # g
      BY <1>1, <2>2, <3>1 DEF Doomed
    <3>2. CASE h = g
      <4>1. g \in call'[c].errs /\ call'[c].mem[g] # "suspended"
        BY <1>2, <2>2, <3>2 DEF Paths, AddsError
      <4> QED
        BY <1>1, <4>1 DEF Doomed
    <3> QED
      BY <3>1, <3>2
  <2>3. ASSUME NEW h \in Steps, h \in call[c].errs, call[c].mem[h] # "suspended"
        PROVE  Doomed(call'[c], task'[c])
    <3>1. h \in call'[c].errs /\ call'[c].mem[h] # "suspended"
      BY <1>4, <1>5, <1>6, <2>3
    <3> QED
      BY <1>1, <3>1 DEF Doomed
  <2> QED
    BY <2>1, <2>2, <2>3 DEF Doomed, FinishLabels, InDag
<1>10. Honest(store', clock, call'[c], task'[c])
  <2>1. Honest(store, clock, call[c], task[c])
    BY CallHonest DEF OutOfCall
  <2>2. Broken(store') => Broken(store) \/ task'[c][g].pc = "persist_failed"
    BY <1>1 DEF Broken, LogOf
  <2>3. task'[c][g].pc = "persist_failed" => Doomed(call'[c], task'[c])
    BY <1>1 DEF Doomed
  <2>4. store.wf = "active"
    BY DEF FailureInv, StatusKnown, StatusFits, ActiveLabels
  <2> QED
    BY <1>1, <1>9, <2>1, <2>2, <2>3, <2>4 DEF Honest, FinishLabels
<1>11. call[c].pc \notin OutOfCall
  BY DEF OutOfCall
<1> QED
  BY <1>1, <1>7, <1>8, <1>10, <1>11, FailMoves

LEMMA TaskFails ==
  ASSUME FailuresSurface, Typed, FailureInv, NEW c \in Calls, NEW g \in Steps,
         TaskStep(c, g), AllCalm', StatusKnown'
  PROVE  FailureInv'
<1> DEFINE p == task[c][g].pc
           s == task[c][g].step
<1>1. /\ TaskKept(c, g) /\ TaskKinds(c, g) /\ p # "idle" /\ s \in Steps /\ clock' = clock
  BY TaskDoes, TaskBusy, TaskFacts, ClockKept DEF Typed
<1>2. call[c].pc = "submit" /\ Paths(call[c], task[c])
  BY <1>1 DEF FailureInv, AllCalm, Calm
<1>3. /\ p \in {"create", "request", "suspend_step", "skip_step"} => s \in Reasoning
      /\ p = "persist_fallback" => Fallback[s] # None
      /\ p \in {"persist_fallback", "persist_failed"} => call[c].mem[g] # "suspended"
      /\ s # g => s \notin Reasoning /\ call[c].mem[g] # "suspended"
  BY <1>1, <1>2 DEF Paths
<1> USE DEF Does, MemOf, LogOf
<1>4. CASE Errs(c, g)
  BY <1>1, <1>2, <1>4, TaskSurfaces DEF Errs, AtRest
<1>5. CASE Faulted(c, g) /\ FailureKinds(c, g)
  <2>1. p # "persist_failed"
    BY <1>5 DEF Faulted
  <2>2. CASE \/ Records(c, g, "persist_retrying", "retrying")
             \/ Records(c, g, "persist_end", "completed")
    BY <1>1, <1>2, <2>1, <2>2, TaskSurfaces DEF Records
  <2>3. CASE Fails(c, g)
    <3>1. /\ task'[c][g].pc = FailLabel(s) /\ task'[c][g].step = s
          /\ call'[c].mem[s] = "failed" /\ SameErrs(c)
      BY <2>3 DEF Fails, Records
    <3>2. \/ FailLabel(s) = "persist_fallback" /\ Fallback[s] # None
          \/ FailLabel(s) = "persist_failed" /\ Fallback[s] = None
      BY DEF FailLabel
    <3> QED
      BY <1>1, <1>2, <2>1, <3>1, <3>2, TaskSurfaces
  <2>4. CASE Passes(c, g, "idle")
    BY <1>1, <1>2, <2>1, <2>4, TaskSurfaces DEF Passes
  <2> QED
    BY <1>4, <1>5, <2>2, <2>3, <2>4 DEF FailureKinds
<1>6. CASE Persists(c, g)
  <2>1. /\ task'[c][g].pc \in {"exec", "backoff", "start", "idle"}
        /\ task'[c][g].step = IF p = "persist_fallback" THEN Fallback[s] ELSE s
        /\ call'[c].mem = call[c].mem /\ store'.log = store.log
        /\ IF p = "persist_failed" THEN AddsError(c, g) ELSE SameErrs(c)
        /\ p = "persist_failed" => task'[c][g].pc = "idle"
    BY <1>6 DEF Persists, AfterPersist
  <2>2. Fallback[s] \notin Reasoning
    BY <1>1 DEF FailuresSurface
  <2> QED
    BY <1>1, <1>2, <1>3, <2>1, <2>2, TaskSurfaces
<1>7. CASE \/ p = "start" /\ Records(c, g, "persist_running", "running")
           \/ p = "backoff" /\ Records(c, g, "reexec", "running")
           \/ p = "complete" /\ Records(c, g, "persist_end", "completed")
           \/ p = "skip_step" /\ Records(c, g, "persist_end", "skipped")
  BY <1>1, <1>2, <1>7, TaskSurfaces DEF Records
<1>8. CASE \/ p \in {"exec", "reexec"} /\ Passes(c, g, "complete")
           \/ p \in {"exec", "reexec"} /\ Passes(c, g, "idle")
  BY <1>1, <1>2, <1>8, TaskSurfaces DEF Passes
<1>9. CASE p = "exec" /\ s \in Reasoning /\ Looks(c, g)
  BY <1>1, <1>2, <1>9, TaskSurfaces DEF Looks, Passes
<1>10. CASE /\ p = "create" /\ Does(c, g, "request", MemOf(c, g), LogOf(c, g))
            /\ SameErrs(c)
  BY <1>1, <1>2, <1>3, <1>10, TaskSurfaces
<1>11. CASE /\ p = "request" /\ Does(c, g, "suspend_step", MemOf(c, g), "suspended")
            /\ SameErrs(c)
  BY <1>1, <1>2, <1>3, <1>11, TaskSurfaces
<1>12. CASE /\ p = "suspend_step" /\ Does(c, g, "persist_end", "suspended", LogOf(c, g))
            /\ SameErrs(c)
  BY <1>1, <1>2, <1>3, <1>12, TaskSurfaces
<1> HIDE DEF Does, MemOf, LogOf
<1> QED
  BY <1>1, <1>4, <1>5, <1>6, <1>7, <1>8, <1>9, <1>10, <1>11, <1>12 DEF TaskKinds

LEMMA InitFails == Init => FailureInv
<1> SUFFICES ASSUME Init PROVE FailureInv
  OBVIOUS
<1>1. /\ \A s \in Steps : store.log[s] = "pending"
      /\ \A c \in Calls : /\ call[c].pc = "idle"
                          /\ \A g \in Steps : /\ task[c][g].pc = "idle" /\ ~task[c][g].dead
                                              /\ task[c][g].step = g
  BY DEF Init, IdleCall, IdleTask
<1>2. /\ AllCalm /\ ~Broken(store)
      /\ \A c \in Calls : Paths(call[c], task[c]) /\ Expiry(clock, call[c])
  BY <1>1 DEF AllCalm, Calm, Broken, Paths, Expiry, InDag
<1> QED
  BY <1>2, InitStatus DEF FailureInv

LEMMA NextFails ==
  ASSUME FailuresSurface, Typed /\ FailureInv, [Next]_vars
  PROVE  (Typed /\ FailureInv)'
<1>1. /\ Typed /\ FailureInv /\ StatusKnown /\ AllCalm /\ MaxInFlight <= 1 /\ MaxCrashes = 0
  BY DEF FailureInv, FailuresSurface
<1>2. Typed' /\ StatusKnown' /\ AllCalm'
  BY <1>1, NextTyped, NextStatus, NextCalm
<1>3. FailureInv'
  BY <1>1, <1>2, CallFails, ArrivalFails, TaskFails, EnvironmentFails DEF Next
<1> QED
  BY <1>2, <1>3

\* A failure that no on_error handler took ends the workflow as failed or
\* cancelled, never as completed: through retries, panics, step timeouts,
\* suspensions that hide the errors of their level, deadlines, clients that go
\* away, cancellations and expired decisions, the error of the goroutine reaches
\* the end of its level (executor.go:684-699, 717-744, 1253-1300).
THEOREM FailuresAreTold ==
  ASSUME FailuresSurface
  PROVE  Spec => []NoSilentFailure
<1>1. Init => Typed /\ FailureInv
  BY InitTyped, InitFails
<1>2. Typed /\ FailureInv /\ [Next]_vars => (Typed /\ FailureInv)'
  BY NextFails
<1>3. FailureInv => NoSilentFailure
  BY DEF FailureInv, Broken, NoSilentFailure
<1> QED
  BY <1>1, <1>2, <1>3, PTL DEF Spec

-----------------------------------------------------------------------------
(* The rows and the log. *)

\* Two records of a step name the same outcome, or none.
Agree(m, x) == Terminal(m) \/ Terminal(x) => m = x

View(st) == \A s \in Steps : Agree(st.log[s], st.steps[s])

\* The events that end a workflow are one, and its status.
Ended(st) == st.endings = IF st.wf \in TerminalWorkflow THEN {st.wf} ELSE {}

Busy(t, s) == \E g \in Steps : t[g].pc # "idle" /\ t[g].step = s

\* The steps no fallback leads to: their own goroutine works on them alone.
Private == Reasoning \cup MayPanic

Secluded(st, r, t) ==
  /\ \A g \in Steps :
       /\ t[g].pc \in {"create", "request", "suspend_step", "skip_step"}
            => t[g].step \in Reasoning
       /\ t[g].pc # "idle" /\ t[g].step # g => t[g].step \notin Private
       /\ g \in Private /\ t[g].step = g =>
            /\ t[g].pc \notin AtRest => ~Terminal(r.mem[g])
            /\ t[g].pc \in {"exec", "reexec", "backoff"} => ~Terminal(st.steps[g])
  /\ r.pc = "submit" =>
       \A g \in r.todo : t[g].pc = "idle" /\ (g \in Private => ~Terminal(r.mem[g]))

\* The labels at which a call holds statuses that the log has as well.
Replayed ==
  {"run_update", "run_init", "run_register", "level", "submit", "resume_list",
   "resume_expire", "resume_register"}

Skips(r, s) == r.mem[s] # None /\ CanSkip(r.mem[s])

\* Where a call is, memory, log and rows agree but for what it does next.
Synced(st, r, t) ==
  /\ r.pc \notin {"ctx_error", "expire_event", "expire_fail"}
  /\ r.pc \in InDag => r.ctx = "live"
  /\ r.pc = "resume_expire" => r.todo \subseteq FallbackChoice
  /\ (st.wf = "pending" /\ r.pc # "cancel_update") \/ r.pc = "run_init" =>
       \A s \in Steps : ~Terminal(st.log[s])
  /\ r.pc \in Replayed => \A s \in Steps : Agree(r.mem[s], st.log[s])
  /\ r.pc = "submit" => \A s \in Steps : Agree(r.mem[s], st.steps[s]) \/ Busy(t, s)
  /\ r.pc = "cancel_event" => r.mem = st.steps
  /\ r.pc \in {"cancel_update", "cancel_steps"} =>
       \A s \in Steps : IF Skips(r, s) THEN st.log[s] = "skipped"
                        ELSE Agree(st.log[s], st.steps[s])
  /\ r.pc \notin {"submit", "cancel_update", "cancel_steps"} => View(st)
  /\ r.pc \in {"finish_update", "finish_persist"} => st.endings = {r.verdict}
  /\ r.pc = "cancel_update" => st.endings = {"cancelled"}
  /\ r.pc \notin {"finish_update", "finish_persist", "cancel_update"} => Ended(st)

ViewInv ==
  /\ StatusKnown /\ AllCalm /\ ~clock.deadline /\ clock.overdue \subseteq FallbackChoice
  /\ \A c \in Calls : Secluded(store, call[c], task[c])
  /\ \A c \in Calls : call[c].pc \in OutOfCall \/ Synced(store, call[c], task[c])
  /\ (\A c \in Calls : call[c].pc \in OutOfCall) =>
       /\ View(store) /\ Ended(store)
       /\ store.wf = "pending" => \A s \in Steps : ~Terminal(store.log[s])

\* Each hypothesis excludes a way to end a workflow while memory, log and rows
\* differ: a second run, a crash, a context that is done (its events are lost,
\* its rows are not), a decision that expires without a fallback option (its
\* step fails in the log only), and a step that two goroutines execute while it
\* can suspend or panic.
ViewIsKept ==
  /\ MaxInFlight <= 1 /\ MaxCrashes = 0
  /\ OnTimeout = "none" /\ TimedSteps = {} /\ ~Disconnect
  /\ TimedDecisions \subseteq FallbackChoice
  /\ \A s \in Steps : Fallback[s] \notin Private

LEMMA IdleSecluded ==
  ASSUME NEW st, NEW r, NEW t, \A g \in Steps : t[g].pc = "idle", r.pc # "submit"
  PROVE  Secluded(st, r, t)
BY DEF Secluded, AtRest

\* A call moves, the others are out.
LEMMA ViewMoves ==
  ASSUME ViewInv, NEW c \in Calls, call[c].pc \notin OutOfCall, clock' = clock,
         \A d \in Calls \ {c} : call'[d].pc = call[d].pc /\ task'[d] = task[d],
         StatusKnown', AllCalm',
         Secluded(store', call'[c], task'[c]), Synced(store', call'[c], task'[c])
  PROVE  ViewInv'
<1>1. \A d \in Calls \ {c} : call'[d].pc \in OutOfCall
  BY DEF ViewInv, StatusKnown, Alone
<1>2. ASSUME NEW d \in Calls, d # c PROVE Secluded(store', call'[d], task'[d])
  <2>1. call[d].pc \in OutOfCall /\ call'[d].pc \in OutOfCall /\ task'[d] = task[d]
    BY <1>1, <1>2
  <2>2. \A g \in Steps : task[d][g].pc = "idle"
    BY <1>2, <2>1, CalmIdle DEF ViewInv, OutOfCall
  <2> QED
    BY <2>1, <2>2, IdleSecluded DEF OutOfCall
<1>3. call'[c].pc \in OutOfCall =>
        /\ View(store') /\ Ended(store')
        /\ store'.wf = "pending" => \A s \in Steps : ~Terminal(store'.log[s])
  BY DEF Synced, OutOfCall
<1>4. /\ ~clock'.deadline /\ clock'.overdue \subseteq FallbackChoice
      /\ \A d \in Calls : Secluded(store', call'[d], task'[d])
      /\ \A d \in Calls : call'[d].pc \in OutOfCall \/ Synced(store', call'[d], task'[d])
  BY <1>1, <1>2 DEF ViewInv
<1> QED
  BY <1>3, <1>4 DEF ViewInv

LEMMA ViewGoes ==
  ASSUME ViewInv, NEW c \in Calls, NEW l, NEW m, Goes(c, l, m), clock' = clock,
         l \notin OutOfCall, m # "submit", StatusKnown', AllCalm',
         Synced(store', call'[c], task'[c])
  PROVE  ViewInv'
<1>1. /\ call[c].pc = l /\ call'[c].pc = m
      /\ \A d \in Calls \ {c} : call'[d].pc = call[d].pc /\ task'[d] = task[d]
  BY DEF Goes, OnlyCall
<1>2. \A g \in Steps : task'[c][g].pc = "idle"
  BY <1>1 DEF AllCalm, Calm
<1> QED
  BY <1>1, <1>2, IdleSecluded, ViewMoves

\* The same where rows, log and endings stay, and the call says nothing new.
LEMMA ViewStays ==
  ASSUME ViewInv, NEW c \in Calls, NEW l, NEW m, Goes(c, l, m), clock' = clock,
         l \notin OutOfCall \cup {"submit", "cancel_event", "cancel_update", "cancel_steps",
                             "finish_event", "finish_update", "finish_persist"},
         m \in {"done", "resume_load", "resume_replay", "resume_register", "unregister",
                "cancel_run", "suspend", "finish_event", "level", "run_register"},
         store'.log = store.log, store'.steps = store.steps,
         store'.endings = store.endings, store.wf \notin TerminalWorkflow \/ store'.wf = store.wf,
         store'.wf \notin TerminalWorkflow \/ store'.wf = store.wf,
         store'.wf = "pending" => store.wf = "pending",
         m \in Replayed => l \in Replayed /\ call'[c].mem = call[c].mem,
         m = "level" => call'[c].ctx = "live",
         StatusKnown', AllCalm'
  PROVE  ViewInv'
<1>1. Synced(store, call[c], task[c]) /\ call[c].pc = l /\ call'[c].pc = m
  BY DEF ViewInv, Goes
<1>2. /\ View(store) /\ Ended(store)
      /\ store.wf = "pending" => \A s \in Steps : ~Terminal(store.log[s])
      /\ l \in Replayed => \A s \in Steps : Agree(call[c].mem[s], store.log[s])
  BY <1>1 DEF Synced
<1>3. /\ View(store') /\ Ended(store')
      /\ store'.wf = "pending" => \A s \in Steps : ~Terminal(store'.log[s])
      /\ m \in Replayed => \A s \in Steps : Agree(call'[c].mem[s], store'.log[s])
  BY <1>2 DEF View, Ended
<1>4. Synced(store', call'[c], task'[c])
  BY <1>1, <1>3 DEF Synced, InDag
<1> QED
  BY <1>4, ViewGoes

LEMMA CallView ==
  ASSUME ViewIsKept, Typed, ViewInv, NEW c \in Calls, CallStep(c)
  PROVE  ViewInv'
<1>1. /\ TypeOK /\ StatusFits(store.wf, call[c]) /\ Prepared(call[c])
      /\ call[c].pc \notin OutOfCall /\ clock' = clock /\ ~clock.deadline
      /\ StatusKnown /\ AllCalm /\ clock.overdue \subseteq FallbackChoice
  BY CallIsActive, ClockKept DEF Typed, LocalsSet, ViewInv, StatusKnown
<1>2. /\ StatusKnown' /\ AllCalm' /\ Synced(store, call[c], task[c])
      /\ Secluded(store, call[c], task[c])
  BY <1>1, CallStatus, CallCalm DEF ViewInv
<1>3. \A d \in Calls \ {c} : call'[d].pc = call[d].pc /\ task'[d] = task[d]
  BY <1>1, CallCalm
<1>4. call[c].pc \notin {"ctx_error", "expire_event", "expire_fail"}
  BY <1>2 DEF Synced
<1> USE DEF OutOfCall, Replayed
<1>5. CASE RunUpdate(c) \/ RunInitSteps(c)
  <2>1. CASE RunUpdate(c)
    <3>1. /\ Goes(c, "run_update", "run_init") /\ store'.log = store.log
          /\ store'.steps = store.steps /\ store'.endings = store.endings
          /\ call'[c].mem = call[c].mem /\ store'.wf = "active"
          /\ call[c].pc = "run_update" /\ call'[c].pc = "run_init" /\ store.wf = "pending"
      BY <1>1, <2>1, RunEffects DEF SameSteps, SameWork, StatusFits, Goes
    <3>2. Synced(store', call'[c], task'[c])
      BY <1>2, <3>1 DEF Synced, InDag, View, Ended, TerminalWorkflow
    <3> QED
      BY <1>1, <1>2, <3>1, <3>2, ViewGoes
  <2>2. CASE RunInitSteps(c)
    <3>1. /\ Goes(c, "run_init", "run_register") /\ store'.log = store.log
          /\ store'.steps = [s \in Steps |-> "pending"] /\ store'.endings = store.endings
          /\ call'[c].mem = call[c].mem /\ store'.wf = store.wf
          /\ call[c].pc = "run_init" /\ call'[c].pc = "run_register"
      BY <1>1, <2>2, RunEffects DEF SameWork, Goes
    <3>2. \A s \in Steps : Agree(store'.log[s], store'.steps[s])
      BY <1>2, <3>1 DEF Synced, Agree, Terminal, IsTerminalStep
    <3>3. Synced(store', call'[c], task'[c])
      BY <1>2, <3>1, <3>2 DEF Synced, InDag, View, Ended
    <3> QED
      BY <1>1, <1>2, <3>1, <3>3, ViewGoes
  <2> QED
    BY <1>5, <2>1, <2>2
<1>6. CASE RunRegister(c)
  <2>1. /\ Goes(c, "run_register", "level") /\ store' = store
        /\ call'[c].ctx = "live" /\ call'[c].mem = call[c].mem
    BY <1>1, <1>6, RunEffects DEF SameWork
  <2> QED
    BY <1>1, <1>2, <2>1, ViewStays
<1>7. CASE BeginLevel(c)
  <2>1. /\ call[c].pc = "level" /\ call'[c].pc = "submit" /\ task' = task /\ store' = store
        /\ call'[c].ctx = "live" /\ call'[c].mem = call[c].mem
        /\ \A g \in call'[c].todo : ~Terminal(call[c].mem[g])
        /\ \A g \in Steps : task'[c][g].pc = "idle"
    BY <1>1, <1>7, BeginLevelEffect, CalmIdle DEF Goes, Terminal
  <2>2. call'[c].todo \subseteq Steps
    BY <1>1, <1>7, BeginLevelEffect DEF LevelSteps
  <2>3. Secluded(store', call'[c], task'[c])
    BY <2>1, <2>2 DEF Secluded, AtRest
  <2>4. \A s \in Steps : Agree(call[c].mem[s], store.steps[s])
    BY <1>2, <2>1 DEF Synced, View, Agree
  <2>5. Synced(store', call'[c], task'[c])
    BY <1>2, <2>1, <2>4 DEF Synced
  <2> QED
    BY <1>1, <1>2, <1>3, <2>3, <2>5, ViewMoves
<1>8. CASE EndLevels(c)
  <2>1. /\ Goes(c, "level", "finish_event") /\ store' = store
        /\ call[c].pc = "level"
    BY <1>1, <1>2, <1>8, EndLevelsEffect DEF Goes, Synced, InDag
  <2> QED
    BY <1>1, <1>2, <2>1, ViewStays
<1>9. CASE LevelDone(c)
  <2>1. /\ store' = store /\ call[c].pc = "submit" /\ call[c].ctx = "live"
        /\ call'[c].ctx = call[c].ctx /\ call'[c].mem = call[c].mem
        /\ \A g \in Steps : task[c][g].pc = "idle"
    BY <1>1, <1>2, <1>9, LevelDoneEffect DEF Goes, Synced, InDag
  <2>2. View(store)
    BY <1>2, <2>1 DEF Synced, View, Agree, Busy
  <2>3. ASSUME NEW m, Goes(c, "submit", m), m \in {"finish_event", "suspend", "level"}
        PROVE  ViewInv'
    <3>1. Synced(store', call'[c], task'[c])
      BY <1>2, <2>1, <2>2, <2>3 DEF Synced, Goes, InDag
    <3> QED
      BY <1>1, <1>2, <2>3, <3>1, ViewGoes
  <2> QED
    BY <1>1, <1>9, <2>1, <2>3, LevelDoneEffect
<1>10. ASSUME NEW s \in Steps, Submit(c, s) PROVE ViewInv'
  <2>1. /\ call[c].pc = "submit" /\ call'[c].pc = "submit" /\ s \in call[c].todo
        /\ call'[c].mem = call[c].mem /\ call'[c].todo = call[c].todo \ {s}
        /\ call'[c].ctx = call[c].ctx /\ store' = store
        /\ \A g \in Steps \ {s} : task'[c][g] = task[c][g]
        /\ task'[c][s].pc = "start" /\ task'[c][s].step = s
    BY <1>1, <1>10, SubmitEffects
  <2>2. /\ task[c][s].pc = "idle"
        /\ s \in Private => ~Terminal(call[c].mem[s])
        /\ call[c].todo \subseteq Steps
    BY <1>1, <1>2, <2>1, Tables DEF Secluded, CallTable, CallType
  <2>3. Secluded(store', call'[c], task'[c])
    <3>1. ASSUME NEW g \in Steps, g # s
          PROVE  task'[c][g] = task[c][g]
      BY <2>1, <3>1
    <3> QED
      BY <1>2, <2>1, <2>2, <3>1 DEF Secluded
  <2>4. Synced(store', call'[c], task'[c])
    <3>1. ASSUME NEW u \in Steps, Busy(task[c], u) PROVE Busy(task'[c], u)
      <4>1. PICK g \in Steps : task[c][g].pc # "idle" /\ task[c][g].step = u
        BY <3>1 DEF Busy
      <4>2. task'[c][g] = task[c][g]
        BY <2>1, <2>2, <4>1
      <4> QED
        BY <4>1, <4>2 DEF Busy
    <3> QED
      BY <1>2, <2>1, <3>1 DEF Synced
  <2> QED
    BY <1>1, <1>2, <1>3, <2>3, <2>4, ViewMoves
<1>11. ASSUME NEW s \in Steps, RejectSubmit(c, s) PROVE ViewInv'
  <2>1. call[c].pc = "submit" /\ call[c].ctx # "live"
    BY <1>1, <1>11, SubmitEffects DEF Goes
  <2> QED
    BY <1>2, <2>1 DEF Synced, InDag
<1>12. CASE SuspendWorkflow(c)
  <2>1. /\ Goes(c, "suspend", "unregister") /\ store'.log = store.log
        /\ store'.steps = store.steps /\ store'.endings = store.endings
        /\ store'.wf = "suspended" /\ store.wf = "active"
    BY <1>1, <1>12, EndEffects DEF SameSteps, Goes, StatusFits, ActiveLabels
  <2> QED
    BY <1>1, <1>2, <2>1, ViewStays DEF TerminalWorkflow
<1>13. CASE FinishEvent(c) \/ FinishUpdate(c)
  <2>1. /\ store'.log = store.log /\ store'.steps = store.steps
        /\ call'[c].verdict = call[c].verdict /\ call[c].pc \in FinishLabels
    BY <1>1, <1>13, EndEffects DEF SameSteps, SameOrder, Goes, FinishLabels
  <2>2. call[c].verdict \in TerminalWorkflow /\ View(store)
    BY <1>1, <1>2, <2>1 DEF Prepared, Synced, FinishLabels
  <2>3. CASE FinishEvent(c)
    <3>1. /\ Goes(c, "finish_event", "finish_update") /\ store'.wf = store.wf
          /\ store'.endings = store.endings \cup {call[c].verdict}
          /\ call[c].pc = "finish_event" /\ call'[c].pc = "finish_update"
          /\ store.wf = "active"
      BY <1>1, <2>3, EndEffects DEF Goes, StatusFits, ActiveLabels
    <3>2. store.endings = {}
      BY <1>2, <3>1 DEF Synced, Ended, TerminalWorkflow
    <3>3. Synced(store', call'[c], task'[c])
      BY <1>2, <2>1, <2>2, <3>1, <3>2 DEF Synced, InDag, View, Replayed
    <3> QED
      BY <1>1, <1>2, <3>1, <3>3, ViewGoes DEF OutOfCall
  <2>4. CASE FinishUpdate(c)
    <3>1. /\ store'.wf = call[c].verdict /\ store'.endings = store.endings
          /\ \/ Goes(c, "finish_update", "finish_persist")
             \/ Goes(c, "finish_persist", "unregister")
      BY <1>1, <2>4, EndEffects
    <3>2. store.endings = {call[c].verdict} /\ store'.wf # "pending"
      BY <1>2, <2>2, <3>1 DEF Synced, Goes, TerminalWorkflow
    <3>3. Synced(store', call'[c], task'[c])
      BY <1>2, <2>1, <2>2, <3>1, <3>2 DEF Synced, InDag, View, Replayed, Goes, Ended
    <3> QED
      BY <1>1, <1>2, <3>1, <3>3, ViewGoes DEF OutOfCall
  <2> QED
    BY <1>13, <2>3, <2>4
<1>14. CASE Unregister(c)
  <2>1. Goes(c, "unregister", "done") /\ store' = store
    BY <1>1, <1>14, EndEffects
  <2> QED
    BY <1>1, <1>2, <2>1, ViewStays DEF OutOfCall, Replayed
<1>15. CASE ContextError(c) \/ ResumeExpireEvent(c) \/ ResumeExpireFail(c)
  BY <1>4, <1>15 DEF ContextError, ResumeExpireEvent, ResumeExpireFail, At
<1>16. CASE SignalApply(c)
  <2>1. /\ store'.log = store.log /\ store'.steps = store.steps
        /\ store'.endings = store.endings /\ store'.wf = store.wf
    BY <1>16, SignalApplyEffect DEF SameLog
  <2>2. ASSUME NEW m, Goes(c, "signal_apply", m), m \in {"done", "resume_load"}
        PROVE  ViewInv'
    BY <1>1, <1>2, <2>1, <2>2, ViewStays DEF OutOfCall, Replayed
  <2> QED
    BY <1>16, <2>2, SignalApplyEffect
<1>17. CASE ResumeLoad(c)
  <2>1. store' = store
    BY <1>1, <1>17, ResumeEffects
  <2>2. ASSUME NEW m, Goes(c, "resume_load", m), m \in {"done", "resume_replay"}
        PROVE  ViewInv'
    BY <1>1, <1>2, <2>1, <2>2, ViewStays DEF OutOfCall, Replayed
  <2> QED
    BY <1>1, <1>17, <2>2, ResumeEffects
<1>18. CASE ResumeReplay(c)
  <2>1. /\ Goes(c, "resume_replay", "resume_list") /\ store' = store
        /\ call'[c].mem = store.log
        /\ call[c].pc = "resume_replay" /\ call'[c].pc = "resume_list"
    BY <1>1, <1>18, ResumeEffects DEF Goes
  <2>2. Synced(store', call'[c], task'[c])
    BY <1>2, <2>1 DEF Synced, InDag, Replayed, Agree
  <2> QED
    BY <1>1, <1>2, <2>1, <2>2, ViewGoes DEF OutOfCall
<1>19. CASE ResumeList(c)
  <2>1. /\ Goes(c, "resume_list", "resume_expire") /\ store' = store
        /\ call'[c].mem = call[c].mem /\ call'[c].todo \subseteq FallbackChoice
        /\ call[c].pc = "resume_list" /\ call'[c].pc = "resume_expire"
    BY <1>1, <1>19, ResumeEffects DEF Goes
  <2>2. Synced(store', call'[c], task'[c])
    BY <1>2, <2>1 DEF Synced, InDag, Replayed
  <2> QED
    BY <1>1, <1>2, <2>1, <2>2, ViewGoes DEF OutOfCall
<1>20. ASSUME NEW s \in Steps, ResumeExpire(c, s) PROVE ViewInv'
  <2>1. /\ store'.log = store.log /\ store'.steps = store.steps
        /\ store'.endings = store.endings /\ store'.wf = store.wf /\ s \in call[c].todo
    BY <1>20, ExpireEffects DEF SameLog
  <2>2. CASE /\ Goes(c, "resume_expire", "resume_expire")
             /\ call'[c].mem = call[c].mem /\ call'[c].todo = call[c].todo \ {s}
    <3>1. Synced(store', call'[c], task'[c])
      BY <1>2, <2>1, <2>2 DEF Synced, InDag, Replayed, Goes, View, Ended
    <3> QED
      BY <1>1, <1>2, <2>2, <3>1, ViewGoes DEF OutOfCall
  <2>3. CASE Goes(c, "resume_expire", "expire_event") /\ s \notin FallbackChoice
    BY <1>2, <2>1, <2>3 DEF Synced, Goes
  <2> QED
    BY <1>20, <2>2, <2>3, ExpireEffects
<1>21. CASE ResumeActivate(c)
  <2>1. /\ Goes(c, "resume_expire", "resume_register") /\ store'.log = store.log
        /\ store'.steps = store.steps /\ store'.endings = store.endings
        /\ call'[c].mem = call[c].mem /\ store'.wf \in {"active", store.wf}
        /\ store.wf \in {"suspended", "active"}
    BY <1>1, <1>21, ResumeEffects DEF SameSteps, StatusFits, Goes
  <2> QED
    BY <1>1, <1>2, <2>1, ViewStays DEF OutOfCall, Replayed, TerminalWorkflow
<1>22. CASE ResumeRegister(c)
  <2>1. store' = store
    BY <1>1, <1>22, ResumeEffects
  <2>2. CASE Goes(c, "resume_register", "done")
    BY <1>1, <1>2, <2>1, <2>2, ViewStays DEF OutOfCall, Replayed
  <2>3. CASE /\ Goes(c, "resume_register", "level")
             /\ call'[c].ctx = "live" /\ call'[c].mem = call[c].mem
    BY <1>1, <1>2, <2>1, <2>3, ViewStays DEF OutOfCall, Replayed
  <2> QED
    BY <1>1, <1>22, <2>2, <2>3, ResumeEffects
<1>23. CASE CancelEvent(c)
  <2>1. /\ Goes(c, "cancel_event", "cancel_update") /\ store'.wf = store.wf
        /\ store'.steps = store.steps /\ store'.log = SkipLog(call[c].mem)
        /\ call'[c].mem = call[c].mem
        /\ store'.endings = store.endings \cup {"cancelled"}
        /\ call[c].pc = "cancel_event" /\ call'[c].pc = "cancel_update"
    BY <1>1, <1>23, CancelEffects DEF Goes
  <2>2. store.endings = {} /\ View(store)
    BY <1>1, <1>2, <2>1 DEF Synced, Ended, StatusFits, TerminalWorkflow
  <2>3. Synced(store', call'[c], task'[c])
    BY <1>2, <2>1, <2>2 DEF Synced, InDag, Replayed, View, SkipLog, Skips
  <2> QED
    BY <1>1, <1>2, <2>1, <2>3, ViewGoes DEF OutOfCall
<1>24. CASE CancelUpdate(c)
  <2>1. /\ Goes(c, "cancel_update", "cancel_steps") /\ store'.wf = "cancelled"
        /\ store'.steps = store.steps /\ store'.log = store.log
        /\ call'[c].mem = call[c].mem /\ store'.endings = store.endings
        /\ call[c].pc = "cancel_update" /\ call'[c].pc = "cancel_steps"
    BY <1>1, <1>24, CancelEffects DEF SameSteps, Goes
  <2>2. Synced(store', call'[c], task'[c])
    BY <1>2, <2>1 DEF Synced, InDag, Replayed, Skips, Ended, TerminalWorkflow
  <2> QED
    BY <1>1, <1>2, <2>1, <2>2, ViewGoes DEF OutOfCall
<1>25. CASE CancelSteps(c)
  <2>1. /\ Goes(c, "cancel_steps", "cancel_run") /\ store'.wf = store.wf
        /\ store'.log = store.log /\ store'.endings = store.endings
        /\ store'.steps = [s \in Steps |-> IF Skips(call[c], s) THEN "skipped"
                                           ELSE store.steps[s]]
        /\ call[c].pc = "cancel_steps" /\ call'[c].pc = "cancel_run"
    BY <1>1, <1>25, CancelEffects DEF Goes, Skips
  <2>2. View(store')
    BY <1>2, <2>1 DEF Synced, View, Agree
  <2>3. Synced(store', call'[c], task'[c])
    BY <1>2, <2>1, <2>2 DEF Synced, InDag, Replayed, Ended
  <2> QED
    BY <1>1, <1>2, <2>1, <2>3, ViewGoes DEF OutOfCall
<1>26. CASE CancelRun(c)
  <2>1. /\ call[c].pc = "cancel_run" /\ call'[c].pc = "done" /\ store' = store /\ task' = task
    BY <1>1, <1>26, CancelEffects
  <2>2. Secluded(store', call'[c], task'[c])
    BY <1>1, <2>1, CalmIdle, IdleSecluded
  <2>3. Synced(store', call'[c], task'[c])
    BY <1>2, <2>1 DEF Synced, InDag, Replayed
  <2> QED
    BY <1>1, <1>2, <1>3, <2>2, <2>3, ViewMoves
<1> QED
  BY <1>5, <1>6, <1>7, <1>8, <1>9, <1>10, <1>11, <1>12, <1>13, <1>14, <1>15, <1>16, <1>17,
     <1>18, <1>19, <1>20, <1>21, <1>22, <1>23, <1>24, <1>25, <1>26, Zenon
  DEF CallStep

LEMMA ArrivalView ==
  ASSUME ViewIsKept, Typed, ViewInv, NEW c \in Calls, Arrivals(c), AllCalm', StatusKnown'
  PROVE  ViewInv'
<1>1. /\ TypeOK /\ MaxInFlight <= 1 /\ StatusKnown /\ AllCalm /\ clock' = clock
  BY ClockKept DEF Typed, ViewIsKept, ViewInv
<1>2. /\ Cardinality(InFlight) < MaxInFlight /\ task' = task
      /\ store'.log = store.log /\ store'.steps = store.steps
      /\ store'.wf = store.wf /\ store'.endings = store.endings
      /\ \A d \in Calls \ {c} : call'[d].pc = call[d].pc
      /\ \/ /\ store.wf = "pending" /\ call'[c].pc = "run_update"
            /\ call'[c].mem = [s \in Steps |-> "pending"]
         \/ call'[c].pc = "cancel_event" /\ call'[c].mem = store.steps
         \/ call'[c].pc \in {"done", "resume_load", "signal_apply"}
  BY <1>1, ArrivalEffect DEF SameLog
<1>3. \A d \in Calls : call[d].pc \in OutOfCall
  BY <1>1, <1>2, NobodyElse
<1>4. /\ View(store) /\ Ended(store)
      /\ store.wf = "pending" => \A s \in Steps : ~Terminal(store.log[s])
  BY <1>3 DEF ViewInv
<1>5. /\ View(store') /\ Ended(store')
      /\ store'.wf = "pending" => \A s \in Steps : ~Terminal(store'.log[s])
  BY <1>2, <1>4 DEF View, Ended
<1>6. \A d \in Calls : Secluded(store', call'[d], task'[d])
  <2>1. ASSUME NEW d \in Calls PROVE Secluded(store', call'[d], task'[d])
    <3>1. (\A g \in Steps : task'[d][g].pc = "idle") /\ call'[d].pc # "submit"
      BY <1>1, <1>2, <1>3, CalmIdle DEF OutOfCall
    <3> QED
      BY <3>1, IdleSecluded
  <2> QED
    BY <2>1
<1>7. Synced(store', call'[c], task'[c])
  <2>1. call'[c].pc = "run_update" =>
          \A s \in Steps : Agree(call'[c].mem[s], store'.log[s])
    BY <1>2, <1>5 DEF Agree, Terminal, IsTerminalStep
  <2> QED
    BY <1>2, <1>5, <2>1 DEF Synced, InDag, Replayed
<1> QED
  BY <1>1, <1>2, <1>3, <1>5, <1>6, <1>7 DEF ViewInv

LEMMA EnvironmentView ==
  ASSUME ViewIsKept, Typed, ViewInv, Environment \/ Finished \/ UNCHANGED vars,
         AllCalm', StatusKnown'
  PROVE  ViewInv'
<1>1. MaxCrashes = 0 /\ OnTimeout = "none" /\ ~Disconnect /\ TimedDecisions \subseteq FallbackChoice
  BY DEF ViewIsKept
<1>2. /\ store' = store
      /\ \A c \in Calls : SameCall(call[c], call'[c]) /\ call'[c].ctx = call[c].ctx
      /\ \A c \in Calls, g \in Steps :
           task'[c][g].pc = task[c][g].pc /\ task'[c][g].step = task[c][g].step
      /\ ~clock.deadline => ~clock'.deadline
      /\ clock'.overdue \subseteq clock.overdue \cup TimedDecisions
  BY <1>1, TimersCalm DEF Passive
<1>3. ASSUME NEW c \in Calls
      PROVE  /\ Secluded(store', call'[c], task'[c])
             /\ call'[c].pc = call[c].pc
             /\ Synced(store, call[c], task[c]) => Synced(store', call'[c], task'[c])
  <2>1. /\ call'[c].pc = call[c].pc /\ call'[c].verdict = call[c].verdict
        /\ call'[c].mem = call[c].mem /\ call'[c].todo = call[c].todo
        /\ call'[c].ctx = call[c].ctx
    BY <1>2 DEF SameCall, SameOrder, SameWork
  <2>2. Secluded(store, call[c], task[c]) /\ call[c].todo \subseteq Steps
    BY Tables DEF ViewInv, Typed, CallTable, CallType
  <2>3. \A s \in Steps : Skips(call'[c], s) = Skips(call[c], s)
    BY <2>1 DEF Skips
  <2>4. Synced(store, call[c], task[c]) => Synced(store', call'[c], task'[c])
    <3>1. \A s \in Steps : Busy(task[c], s) => Busy(task'[c], s)
      <4>1. ASSUME NEW s \in Steps, NEW g \in Steps,
                   task[c][g].pc # "idle" /\ task[c][g].step = s
            PROVE  Busy(task'[c], s)
        BY <1>2, <4>1 DEF Busy
      <4> QED
        BY <4>1 DEF Busy
    <3> QED
      BY <1>2, <2>1, <2>3, <3>1 DEF Synced
  <2>5. Secluded(store', call'[c], task'[c])
    BY <1>2, <2>1, <2>2 DEF Secluded
  <2> QED
    BY <2>1, <2>4, <2>5
<1>4. /\ ~clock.deadline /\ clock.overdue \subseteq FallbackChoice
      /\ \A c \in Calls : call[c].pc \in OutOfCall \/ Synced(store, call[c], task[c])
      /\ (\A c \in Calls : call[c].pc \in OutOfCall) =>
           /\ View(store) /\ Ended(store)
           /\ store.wf = "pending" => \A s \in Steps : ~Terminal(store.log[s])
  BY DEF ViewInv
<1>5. ~clock'.deadline /\ clock'.overdue \subseteq FallbackChoice
  BY <1>1, <1>2, <1>4
<1>6. /\ \A c \in Calls : Secluded(store', call'[c], task'[c])
      /\ \A c \in Calls : call'[c].pc \in OutOfCall \/ Synced(store', call'[c], task'[c])
  BY <1>3, <1>4
<1>7. (\A c \in Calls : call'[c].pc \in OutOfCall) =>
        /\ View(store') /\ Ended(store')
        /\ store'.wf = "pending" => \A s \in Steps : ~Terminal(store'.log[s])
  BY <1>2, <1>3, <1>4
<1> QED
  BY <1>5, <1>6, <1>7 DEF ViewInv

\* A goroutine moves: its step agrees in memory, log and row, or is still busy.
LEMMA TaskSynced ==
  ASSUME ViewIsKept, Typed, ViewInv, NEW c \in Calls, NEW g \in Steps,
         TaskKept(c, g), call[c].pc = "submit", task[c][g].pc # "idle",
         AllCalm', StatusKnown', clock' = clock, NEW s \in Steps, s = task[c][g].step,
         Agree(call'[c].mem[s], store'.log[s]),
         \/ Agree(call'[c].mem[s], store'.steps[s])
         \/ task'[c][g].pc # "idle" /\ task'[c][g].step = s,
         task'[c][g].step = s \/ task'[c][g].step \notin Private,
         task'[c][g].pc \in {"create", "request", "suspend_step", "skip_step"}
           => task'[c][g].step \in Reasoning,
         s \in Private /\ task'[c][g].step = s /\ task'[c][g].pc \notin AtRest
           => ~Terminal(call'[c].mem[s]),
         s \in Private /\ task'[c][g].pc \in {"exec", "reexec", "backoff"}
           => ~Terminal(store'.steps[s])
  PROVE  ViewInv'
<1>1. /\ \A d \in Calls \ {c} : call'[d] = call[d] /\ task'[d] = task[d]
      /\ call'[c].pc = "submit" /\ call'[c].todo = call[c].todo
      /\ call'[c].ctx = call[c].ctx /\ store'.wf = store.wf
      /\ store'.endings = store.endings
      /\ \A u \in Steps \ {s} : /\ call'[c].mem[u] = call[c].mem[u]
                                /\ store'.log[u] = store.log[u]
                                /\ store'.steps[u] = store.steps[u]
      /\ \A h \in Steps \ {g} : task'[c][h] = task[c][h]
  BY DEF TaskKept, OnlyCall
<1>2. /\ Secluded(store, call[c], task[c]) /\ Synced(store, call[c], task[c])
      /\ call[c].todo \subseteq Steps /\ call[c].pc \notin OutOfCall
      /\ store.wf = "active"
  BY Tables DEF ViewInv, Typed, CallTable, CallType, OutOfCall, StatusKnown, StatusFits,
                ActiveLabels
<1>3. /\ s # g => s \notin Private
      /\ g \notin call[c].todo
  BY <1>2 DEF Secluded
<1>4. Secluded(store', call'[c], task'[c])
  <2>1. ASSUME NEW h \in Steps
        PROVE  /\ task'[c][h].pc \in {"create", "request", "suspend_step", "skip_step"}
                    => task'[c][h].step \in Reasoning
               /\ task'[c][h].pc # "idle" /\ task'[c][h].step # h
                    => task'[c][h].step \notin Private
               /\ h \in Private /\ task'[c][h].step = h =>
                    /\ task'[c][h].pc \notin AtRest => ~Terminal(call'[c].mem[h])
                    /\ task'[c][h].pc \in {"exec", "reexec", "backoff"}
                         => ~Terminal(store'.steps[h])
    <3>1. CASE h # g
      <4>1. task'[c][h] = task[c][h] /\ (h \in Private => h # s)
        BY <1>1, <1>3, <3>1
      <4>2. h \in Private => /\ call'[c].mem[h] = call[c].mem[h]
                             /\ store'.steps[h] = store.steps[h]
        BY <1>1, <4>1
      <4>3. /\ task[c][h].pc \in {"create", "request", "suspend_step", "skip_step"}
                 => task[c][h].step \in Reasoning
            /\ task[c][h].pc # "idle" /\ task[c][h].step # h => task[c][h].step \notin Private
            /\ h \in Private /\ task[c][h].step = h =>
                 /\ task[c][h].pc \notin AtRest => ~Terminal(call[c].mem[h])
                 /\ task[c][h].pc \in {"exec", "reexec", "backoff"}
                      => ~Terminal(store.steps[h])
        BY <1>2 DEF Secluded
      <4> QED
        BY <4>1, <4>2, <4>3
    <3>2. CASE h = g
      BY <1>3, <3>2
    <3> QED
      BY <3>1, <3>2
  <2>2. ASSUME NEW h \in call'[c].todo
        PROVE  task'[c][h].pc = "idle" /\ (h \in Private => ~Terminal(call'[c].mem[h]))
    <3>1. h \in Steps /\ h # g /\ (h \in Private => h # s)
      BY <1>1, <1>2, <1>3, <2>2
    <3> QED
      BY <1>1, <1>2, <2>2, <3>1 DEF Secluded
  <2> QED
    BY <2>1, <2>2 DEF Secluded
<1>5. Synced(store', call'[c], task'[c])
  <2>1. ASSUME NEW u \in Steps
        PROVE  Agree(call'[c].mem[u], store'.steps[u]) \/ Busy(task'[c], u)
    <3>1. CASE u = s
      BY <3>1 DEF Busy
    <3>2. CASE u # s
      <4>1. Agree(call'[c].mem[u], store'.steps[u]) \/ Busy(task[c], u)
        BY <1>1, <1>2, <3>2 DEF Synced
      <4>2. ASSUME Busy(task[c], u) PROVE Busy(task'[c], u)
        <5>1. PICK h \in Steps : task[c][h].pc # "idle" /\ task[c][h].step = u
          BY <4>2 DEF Busy
        <5>2. task'[c][h] = task[c][h]
          BY <1>1, <3>2, <5>1
        <5> QED
          BY <5>1, <5>2 DEF Busy
      <4> QED
        BY <4>1, <4>2
    <3> QED
      BY <3>1, <3>2
  <2>2. \A u \in Steps : Agree(call'[c].mem[u], store'.log[u])
    BY <1>1, <1>2 DEF Synced, Replayed
  <2> QED
    BY <1>1, <1>2, <2>1, <2>2 DEF Synced, InDag, Ended
<1> QED
  BY <1>1, <1>2, <1>4, <1>5, ViewMoves

LEMMA TaskView ==
  ASSUME ViewIsKept, Typed, ViewInv, NEW c \in Calls, NEW g \in Steps,
         TaskStep(c, g), AllCalm', StatusKnown'
  PROVE  ViewInv'
<1> DEFINE p == task[c][g].pc
           s == task[c][g].step
           q == task'[c][g].pc
<1>1. /\ TaskKept(c, g) /\ TaskKinds(c, g) /\ p # "idle" /\ s \in Steps /\ clock' = clock
  BY TaskDoes, TaskBusy, TaskFacts, ClockKept DEF Typed
<1>2. /\ call[c].pc = "submit" /\ Secluded(store, call[c], task[c])
      /\ Synced(store, call[c], task[c]) /\ ~task[c][g].dead
  BY <1>1 DEF ViewInv, AllCalm, Calm, OutOfCall, ViewIsKept
<1>3. ~Dead(c, g)
  BY <1>2 DEF Dead, Synced, InDag
<1>4. /\ p \in {"create", "request", "suspend_step", "skip_step"} => s \in Reasoning
      /\ s # g => s \notin Private
      /\ s \in Private /\ p \notin AtRest => ~Terminal(MemOf(c, g))
      /\ s \in Private /\ p \in {"exec", "reexec", "backoff"} => ~Terminal(store.steps[s])
      /\ Agree(MemOf(c, g), LogOf(c, g))
  BY <1>1, <1>2 DEF Secluded, Synced, Replayed, MemOf, LogOf
<1>5. ASSUME NEW l, NEW x, Records(c, g, l, x), l # "idle",
             l \notin {"create", "request", "suspend_step", "skip_step", "exec", "backoff"},
             ~Terminal(x) \/ l \in AtRest, l = "reexec" => p = "backoff"
      PROVE  ViewInv'
  BY <1>1, <1>2, <1>4, <1>5, TaskSynced DEF Records, Does, Agree, SameRow
<1>6. ASSUME NEW l, Passes(c, g, l), p \notin AtRest,
             l = "idle" => s \in Private /\ p \in {"exec", "reexec"},
             l \in {"create", "request", "suspend_step", "skip_step"} => s \in Reasoning,
             l \notin {"exec", "reexec", "backoff"}
      PROVE  ViewInv'
  BY <1>1, <1>2, <1>4, <1>6, TaskSynced DEF Passes, Does, Agree, SameRow, MemOf
<1>7. CASE Errs(c, g)
  BY <1>3, <1>7 DEF Errs
<1>8. CASE Faulted(c, g) /\ FailureKinds(c, g)
  <2>1. CASE Records(c, g, "persist_retrying", "retrying")
    BY <1>5, <2>1 DEF Terminal, IsTerminalStep
  <2>2. CASE Records(c, g, "persist_end", "completed")
    BY <1>5, <2>2 DEF AtRest
  <2>3. CASE Fails(c, g)
    <3>1. Records(c, g, FailLabel(s), "failed")
      BY <1>3, <2>3 DEF Fails
    <3>2. FailLabel(s) \in {"persist_fallback", "persist_failed"}
      BY DEF FailLabel
    <3> HIDE DEF s
    <3> QED
      BY <1>5, <3>1, <3>2 DEF AtRest
  <2> QED
    BY <1>3, <1>7, <1>8, <2>1, <2>2, <2>3 DEF FailureKinds
<1>9. CASE Persists(c, g)
  <2>1. /\ p \in DOMAIN AfterPersist /\ q = AfterPersist[p]
        /\ task'[c][g].step = IF p = "persist_fallback" THEN Fallback[s] ELSE s
        /\ call'[c].mem = call[c].mem /\ store'.log = store.log
        /\ store'.steps[s] = call[c].mem[s]
    BY <1>9 DEF Persists
  <2>2. q \in {"exec", "backoff", "start", "idle"} /\ Fallback[s] \notin Private
    BY <1>1, <2>1 DEF AfterPersist, ViewIsKept
  <2>3. q # "idle" => p \notin AtRest \/ p = "persist_fallback"
    BY <2>1 DEF AfterPersist, AtRest
  <2>4. q \in {"exec", "backoff"} => p \notin AtRest
    BY <2>1 DEF AfterPersist, AtRest
  <2>5. s \in Private /\ task'[c][g].step = s /\ q \notin AtRest
          => ~Terminal(call'[c].mem[s])
    BY <1>4, <2>1, <2>2, <2>3 DEF MemOf, AtRest
  <2>6. /\ Agree(call'[c].mem[s], store'.log[s])
        /\ Agree(call'[c].mem[s], store'.steps[s])
    BY <1>4, <2>1 DEF Agree, MemOf, LogOf
  <2>7. s \in Private /\ q \in {"exec", "reexec", "backoff"} => ~Terminal(store'.steps[s])
    BY <1>4, <2>1, <2>2, <2>4 DEF MemOf
  <2>8. /\ task'[c][g].step = s \/ task'[c][g].step \notin Private
        /\ q \notin {"create", "request", "suspend_step", "skip_step"}
    BY <2>1, <2>2
  <2> QED
    BY <1>1, <1>2, <2>5, <2>6, <2>7, <2>8, TaskSynced
<1>10. CASE \/ p = "start" /\ Records(c, g, "persist_running", "running")
            \/ p = "backoff" /\ Records(c, g, "reexec", "running")
            \/ p = "complete" /\ Records(c, g, "persist_end", "completed")
            \/ p = "skip_step" /\ Records(c, g, "persist_end", "skipped")
  BY <1>5, <1>10 DEF Terminal, IsTerminalStep, AtRest
<1>11. CASE \/ p \in {"exec", "reexec"} /\ Passes(c, g, "complete")
            \/ p \in {"exec", "reexec"} /\ s \in MayPanic /\ Passes(c, g, "idle")
  BY <1>6, <1>11 DEF AtRest, Private
<1>12. CASE p = "exec" /\ s \in Reasoning /\ Looks(c, g)
  BY <1>6, <1>12 DEF Looks, AtRest
<1>13. CASE /\ p = "create" /\ Does(c, g, "request", MemOf(c, g), LogOf(c, g))
            /\ SameRow(c, g)
  BY <1>1, <1>2, <1>4, <1>13, TaskSynced DEF Does, AtRest
<1>14. CASE /\ p = "request" /\ Does(c, g, "suspend_step", MemOf(c, g), "suspended")
            /\ SameRow(c, g)
  <2>1. Agree(MemOf(c, g), "suspended") /\ ~Terminal(MemOf(c, g))
    BY <1>4, <1>14 DEF AtRest, Private, Agree, Terminal, IsTerminalStep
  <2> QED
    BY <1>1, <1>2, <1>4, <1>14, <2>1, TaskSynced DEF Does
<1>15. CASE /\ p = "suspend_step" /\ Does(c, g, "persist_end", "suspended", LogOf(c, g))
            /\ SameRow(c, g)
  <2>1. Agree("suspended", LogOf(c, g))
    BY <1>4, <1>15 DEF AtRest, Private, Agree, Terminal, IsTerminalStep
  <2> QED
    BY <1>1, <1>2, <1>4, <1>15, <2>1, TaskSynced DEF Does, AtRest
<1> QED
  BY <1>1, <1>7, <1>8, <1>9, <1>10, <1>11, <1>12, <1>13, <1>14, <1>15 DEF TaskKinds

LEMMA InitView == Init => ViewInv
<1> SUFFICES ASSUME Init PROVE ViewInv
  OBVIOUS
<1>1. /\ \A s \in Steps : store.log[s] = "pending"
      /\ \A s \in Steps : ~Terminal(store.steps[s])
      /\ store.wf = "pending" /\ store.endings = {}
      /\ ~clock.deadline /\ clock.overdue = {}
      /\ \A c \in Calls : /\ call[c].pc = "idle"
                          /\ \A g \in Steps : task[c][g].pc = "idle" /\ ~task[c][g].dead
  BY ConstantsAssumption DEF Init, IdleCall, IdleTask, Terminal, IsTerminalStep, StepStatuses
<1>2. AllCalm /\ \A c \in Calls : Secluded(store, call[c], task[c])
  BY <1>1, IdleSecluded DEF AllCalm, Calm
<1>3. /\ View(store) /\ Ended(store) /\ \A s \in Steps : ~Terminal(store.log[s])
  BY <1>1 DEF View, Ended, Agree, Terminal, IsTerminalStep, TerminalWorkflow
<1> QED
  BY <1>1, <1>2, <1>3, InitStatus DEF ViewInv, OutOfCall

LEMMA NextView ==
  ASSUME ViewIsKept, Typed /\ ViewInv, [Next]_vars
  PROVE  (Typed /\ ViewInv)'
<1>1. /\ Typed /\ ViewInv /\ StatusKnown /\ AllCalm /\ MaxInFlight <= 1 /\ MaxCrashes = 0
  BY DEF ViewInv, ViewIsKept
<1>2. Typed' /\ StatusKnown' /\ AllCalm'
  BY <1>1, NextTyped, NextStatus, NextCalm
<1>3. ViewInv'
  BY <1>1, <1>2, CallView, ArrivalView, TaskView, EnvironmentView DEF Next
<1> QED
  BY <1>2, <1>3

\* When the workflow has ended and every call has returned, the row of each step
\* is the outcome that the log has of it, and the log has one end of the
\* workflow, the status it is stored with: through executions, retries, panics,
\* fallbacks, suspensions, expired decisions and cancellations, the row of a
\* step follows its events (executor.go:893-905, 1253-1420).
THEOREM RowsFollowLog ==
  ASSUME ViewIsKept
  PROVE  Spec => []ViewMatchesLog
<1>1. Init => Typed /\ ViewInv
  BY InitTyped, InitView
<1>2. Typed /\ ViewInv /\ [Next]_vars => (Typed /\ ViewInv)'
  BY NextView
<1>3. ViewInv => ViewMatchesLog
  <2> SUFFICES ASSUME ViewInv, Quiet, store.wf \in TerminalWorkflow
               PROVE  /\ store.endings = {store.wf}
                      /\ \A s \in Steps :
                           IsTerminalStep(store.log[s]) \/ IsTerminalStep(store.steps[s])
                             => store.steps[s] = store.log[s]
    BY DEF ViewMatchesLog
  <2>1. \A c \in Calls : call[c].pc \in OutOfCall
    BY DEF Quiet, InFlight, OutOfCall
  <2>2. View(store) /\ Ended(store)
    BY <2>1 DEF ViewInv
  <2> QED
    BY <2>2 DEF View, Ended, Agree, Terminal
<1> QED
  BY <1>1, <1>2, <1>3, PTL DEF Spec
=============================================================================
