----------------------- MODULE WorkflowExecutorTypes -----------------------
(***************************************************************************)
(* The types of WorkflowExecutor, for any DAG, any calls and any number of *)
(* crashes.  The type of a variable is kept field by field: an assignment  *)
(* of an action replaces one field by a value of the field's type.  TypeOK *)
(* is not inductive by itself: that the verdict written to the workflow    *)
(* row is terminal, that a decision answered belongs to a step, and that a *)
(* fallback step exists depends on where the call or the goroutine is      *)
(* (LocalsSet, FallbackNamed).                                             *)
(***************************************************************************)
EXTENDS WorkflowExecutor, TLAPS

CallTable == [Calls -> CallType]

TaskTable == [Calls -> [Steps -> TaskType]]

-----------------------------------------------------------------------------
(* Fields. *)

\* One assignment to a column of the store.
LEMMA StoreFields ==
  ASSUME NEW r \in StoreType
  PROVE  /\ \A x \in WorkflowStatuses : [r EXCEPT !.wf = x] \in StoreType
         /\ \A x \in [Steps -> Rows] : [r EXCEPT !.steps = x] \in StoreType
         /\ \A s \in Steps, x \in Rows :
              [r EXCEPT !.steps[s] = x] \in StoreType
         /\ \A x \in [Steps -> StepStatuses] :
              [r EXCEPT !.log = x] \in StoreType
         /\ \A s \in Steps, x \in StepStatuses :
              [r EXCEPT !.log[s] = x] \in StoreType
         /\ \A s \in Steps, x \in Nat :
              [r EXCEPT !.retries[s] = x] \in StoreType
         /\ \A s \in Steps, x \in Decisions :
              [r EXCEPT !.decisions[s] = x] \in StoreType
         /\ \A x \in SUBSET TerminalWorkflow :
              [r EXCEPT !.endings = x] \in StoreType
<1>1. \A x \in WorkflowStatuses : [r EXCEPT !.wf = x] \in StoreType
  BY DEF StoreType
<1>2. \A x \in [Steps -> Rows] : [r EXCEPT !.steps = x] \in StoreType
  BY DEF StoreType
<1>3. \A s \in Steps, x \in Rows : [r EXCEPT !.steps[s] = x] \in StoreType
  BY <1>2 DEF StoreType
<1>4. \A x \in [Steps -> StepStatuses] : [r EXCEPT !.log = x] \in StoreType
  BY DEF StoreType
<1>5. \A s \in Steps, x \in StepStatuses :
        [r EXCEPT !.log[s] = x] \in StoreType
  BY <1>4 DEF StoreType
<1>6. \A s \in Steps, x \in Nat : [r EXCEPT !.retries[s] = x] \in StoreType
  BY DEF StoreType
<1>7. \A s \in Steps, x \in Decisions :
        [r EXCEPT !.decisions[s] = x] \in StoreType
  BY DEF StoreType
<1>8. \A x \in SUBSET TerminalWorkflow : [r EXCEPT !.endings = x] \in StoreType
  BY DEF StoreType
<1> QED
  BY <1>1, <1>2, <1>3, <1>4, <1>5, <1>6, <1>7, <1>8

\* One assignment to a variable of a call.
LEMMA CallRecordFields ==
  ASSUME NEW r \in CallType
  PROVE  /\ \A x \in CallLabels : [r EXCEPT !.pc = x] \in CallType
         /\ \A x \in CallKinds \cup {"none", "run"} :
              [r EXCEPT !.kind = x] \in CallType
         /\ \A x \in Steps \cup {None} : [r EXCEPT !.target = x] \in CallType
         /\ \A x \in {"live", "cancelled", "deadline"} :
              [r EXCEPT !.ctx = x] \in CallType
         /\ \A x \in WorkflowStatuses : [r EXCEPT !.from = x] \in CallType
         /\ \A x \in [Steps -> Rows] : [r EXCEPT !.mem = x] \in CallType
         /\ \A s \in Steps, x \in Rows : [r EXCEPT !.mem[s] = x] \in CallType
         /\ \A x \in [Steps -> Nat] : [r EXCEPT !.retries = x] \in CallType
         /\ \A s \in Steps, x \in Nat :
              [r EXCEPT !.retries[s] = x] \in CallType
         /\ \A x \in SUBSET Steps : [r EXCEPT !.outputs = x] \in CallType
         /\ \A x \in Nat : [r EXCEPT !.level = x] \in CallType
         /\ \A x \in SUBSET Steps : [r EXCEPT !.todo = x] \in CallType
         /\ \A x \in SUBSET Steps : [r EXCEPT !.errs = x] \in CallType
         /\ \A x \in Verdicts : [r EXCEPT !.verdict = x] \in CallType
         /\ \A x \in Outcomes : [r EXCEPT !.outcome = x] \in CallType
         /\ \A x \in Nat : [r EXCEPT !.inbox = x] \in CallType
<1>1. \A x \in CallLabels : [r EXCEPT !.pc = x] \in CallType
  BY DEF CallType
<1>2. \A x \in CallKinds \cup {"none", "run"} :
        [r EXCEPT !.kind = x] \in CallType
  BY DEF CallType
<1>3. \A x \in Steps \cup {None} : [r EXCEPT !.target = x] \in CallType
  BY DEF CallType
<1>4. \A x \in {"live", "cancelled", "deadline"} :
        [r EXCEPT !.ctx = x] \in CallType
  BY DEF CallType
<1>5. \A x \in WorkflowStatuses : [r EXCEPT !.from = x] \in CallType
  BY DEF CallType
<1>6. \A x \in [Steps -> Rows] : [r EXCEPT !.mem = x] \in CallType
  BY DEF CallType
<1>7. \A s \in Steps, x \in Rows : [r EXCEPT !.mem[s] = x] \in CallType
  BY <1>6 DEF CallType
<1>8. \A x \in [Steps -> Nat] : [r EXCEPT !.retries = x] \in CallType
  BY DEF CallType
<1>9. \A s \in Steps, x \in Nat : [r EXCEPT !.retries[s] = x] \in CallType
  BY <1>8 DEF CallType
<1>10. \A x \in SUBSET Steps : [r EXCEPT !.outputs = x] \in CallType
  BY DEF CallType
<1>11. \A x \in Nat : [r EXCEPT !.level = x] \in CallType
  BY DEF CallType
<1>12. \A x \in SUBSET Steps : [r EXCEPT !.todo = x] \in CallType
  BY DEF CallType
<1>13. \A x \in SUBSET Steps : [r EXCEPT !.errs = x] \in CallType
  BY DEF CallType
<1>14. \A x \in Verdicts : [r EXCEPT !.verdict = x] \in CallType
  BY DEF CallType
<1>15. \A x \in Outcomes : [r EXCEPT !.outcome = x] \in CallType
  BY DEF CallType
<1>16. \A x \in Nat : [r EXCEPT !.inbox = x] \in CallType
  BY DEF CallType
<1> QED
  BY <1>1, <1>2, <1>3, <1>4, <1>5, <1>6, <1>7, <1>8, <1>9,
     <1>10, <1>11, <1>12, <1>13, <1>14, <1>15, <1>16

LEMMA CallUpdate ==
  ASSUME NEW f \in CallTable, NEW c \in Calls, NEW r \in CallType
  PROVE  [f EXCEPT ![c] = r] \in CallTable
BY DEF CallTable

\* The same assignments in the table of the calls.
LEMMA SetPc ==
  \A f \in CallTable, c \in Calls, x \in CallLabels :
    [f EXCEPT ![c].pc = x] \in CallTable
BY CallRecordFields, CallUpdate DEF CallTable

LEMMA SetKind ==
  \A f \in CallTable, c \in Calls, x \in CallKinds \cup {"none", "run"} :
    [f EXCEPT ![c].kind = x] \in CallTable
BY CallRecordFields, CallUpdate DEF CallTable

LEMMA SetTarget ==
  \A f \in CallTable, c \in Calls, x \in Steps \cup {None} :
    [f EXCEPT ![c].target = x] \in CallTable
BY CallRecordFields, CallUpdate DEF CallTable

LEMMA SetCtx ==
  \A f \in CallTable, c \in Calls, x \in {"live", "cancelled", "deadline"} :
    [f EXCEPT ![c].ctx = x] \in CallTable
BY CallRecordFields, CallUpdate DEF CallTable

LEMMA SetFrom ==
  \A f \in CallTable, c \in Calls, x \in WorkflowStatuses :
    [f EXCEPT ![c].from = x] \in CallTable
BY CallRecordFields, CallUpdate DEF CallTable

LEMMA SetMem ==
  \A f \in CallTable, c \in Calls, x \in [Steps -> Rows] :
    [f EXCEPT ![c].mem = x] \in CallTable
BY CallRecordFields, CallUpdate DEF CallTable

LEMMA SetMemOf ==
  \A f \in CallTable, c \in Calls, s \in Steps, x \in Rows :
    [f EXCEPT ![c].mem[s] = x] \in CallTable
BY CallRecordFields, CallUpdate DEF CallTable

LEMMA SetRetries ==
  \A f \in CallTable, c \in Calls, x \in [Steps -> Nat] :
    [f EXCEPT ![c].retries = x] \in CallTable
BY CallRecordFields, CallUpdate DEF CallTable

LEMMA SetRetriesOf ==
  \A f \in CallTable, c \in Calls, s \in Steps, x \in Nat :
    [f EXCEPT ![c].retries[s] = x] \in CallTable
BY CallRecordFields, CallUpdate DEF CallTable

LEMMA SetOutputs ==
  \A f \in CallTable, c \in Calls, x \in SUBSET Steps :
    [f EXCEPT ![c].outputs = x] \in CallTable
BY CallRecordFields, CallUpdate DEF CallTable

LEMMA SetLevel ==
  \A f \in CallTable, c \in Calls, x \in Nat :
    [f EXCEPT ![c].level = x] \in CallTable
BY CallRecordFields, CallUpdate DEF CallTable

LEMMA SetTodo ==
  \A f \in CallTable, c \in Calls, x \in SUBSET Steps :
    [f EXCEPT ![c].todo = x] \in CallTable
BY CallRecordFields, CallUpdate DEF CallTable

LEMMA SetErrs ==
  \A f \in CallTable, c \in Calls, x \in SUBSET Steps :
    [f EXCEPT ![c].errs = x] \in CallTable
BY CallRecordFields, CallUpdate DEF CallTable

LEMMA SetVerdict ==
  \A f \in CallTable, c \in Calls, x \in Verdicts :
    [f EXCEPT ![c].verdict = x] \in CallTable
BY CallRecordFields, CallUpdate DEF CallTable

LEMMA SetOutcome ==
  \A f \in CallTable, c \in Calls, x \in Outcomes :
    [f EXCEPT ![c].outcome = x] \in CallTable
BY CallRecordFields, CallUpdate DEF CallTable

LEMMA SetInbox ==
  \A f \in CallTable, c \in Calls, x \in Nat :
    [f EXCEPT ![c].inbox = x] \in CallTable
BY CallRecordFields, CallUpdate DEF CallTable

LEMMA TaskUpdate ==
  ASSUME NEW f \in TaskTable, NEW c \in Calls, NEW g \in Steps, NEW r \in TaskType
  PROVE  [f EXCEPT ![c][g] = r] \in TaskTable
BY DEF TaskTable

LEMMA TaskFields ==
  ASSUME NEW f \in TaskTable, NEW c \in Calls, NEW g \in Steps
  PROVE  /\ \A x \in TaskLabels : [f EXCEPT ![c][g].pc = x] \in TaskTable
         /\ \A x \in Steps : [f EXCEPT ![c][g].step = x] \in TaskTable
         /\ \A x \in BOOLEAN : [f EXCEPT ![c][g].dead = x] \in TaskTable
<1>1. f[c][g] \in TaskType
  BY DEF TaskTable
<1>2. /\ \A x \in TaskLabels : [f[c][g] EXCEPT !.pc = x] \in TaskType
      /\ \A x \in Steps : [f[c][g] EXCEPT !.step = x] \in TaskType
      /\ \A x \in BOOLEAN : [f[c][g] EXCEPT !.dead = x] \in TaskType
  BY <1>1 DEF TaskType
<1> QED
  BY <1>2, TaskUpdate DEF TaskTable

\* The type invariant in terms of the tables.
LEMMA Tables ==
  TypeOK <=> /\ store \in StoreType
             /\ call \in CallTable
             /\ task \in TaskTable
             /\ running \in Calls \cup {None}
             /\ clock \in [deadline : BOOLEAN, overdue : SUBSET Steps]
             /\ crashes \in 0..MaxCrashes
BY DEF TypeOK, CallTable, TaskTable

-----------------------------------------------------------------------------
(* The table of the calls. *)

LEMMA IdleRecords == IdleCall \in CallType /\ \A g \in Steps : IdleTask(g) \in TaskType
<1>1. IdleCall \in CallType
  BY DEF IdleCall, CallType, CallLabels, CallKinds, WorkflowStatuses, Rows,
         Verdicts, TerminalWorkflow, Outcomes
<1>2. \A g \in Steps : IdleTask(g) \in TaskType
  BY DEF IdleTask, TaskType, TaskLabels
<1> QED
  BY <1>1, <1>2

LEMMA ReturnedRecord ==
  ASSUME call \in CallTable, NEW c \in Calls, NEW o \in Outcomes
  PROVE  Returned(c, o) \in CallType
<1>1. call[c].kind \in CallKinds \cup {"none", "run"} /\ call[c].target \in Steps \cup {None}
  BY DEF CallTable, CallType
<1>2. "done" \in CallLabels
  BY DEF CallLabels
<1> QED
  BY <1>1, <1>2, IdleRecords, CallRecordFields DEF Returned

LEMMA CallOfRun ==
  ASSUME TypeOK, NEW c \in Calls,
         \/ Run(c) \/ RunUpdate(c) \/ RunInitSteps(c) \/ RunRegister(c)
  PROVE  call' \in CallTable
<1>1. call \in CallTable
  BY Tables
<1>2. [s \in Steps |-> "pending"] \in [Steps -> Rows]
  BY DEF Rows, StepStatuses
<1>3. {"run_update", "run_init", "run_register", "level"} \subseteq CallLabels
  BY DEF CallLabels
<1>4. CASE Run(c)
  BY <1>1, <1>2, <1>3, <1>4, SetPc, SetKind, SetMem DEF Run
<1>5. CASE RunUpdate(c) \/ RunInitSteps(c)
  BY <1>1, <1>3, <1>5, SetPc DEF RunUpdate, RunInitSteps
<1>6. CASE RunRegister(c)
  BY <1>1, <1>3, <1>6, SetPc, SetCtx DEF RunRegister
<1> QED
  BY <1>4, <1>5, <1>6

LEMMA CallOfDag ==
  ASSUME TypeOK, NEW c \in Calls,
         \/ BeginLevel(c) \/ EndLevels(c) \/ LevelDone(c)
         \/ \E s \in Steps : Submit(c, s) \/ RejectSubmit(c, s)
         \/ SuspendWorkflow(c) \/ ContextError(c)
         \/ FinishEvent(c) \/ FinishUpdate(c) \/ Unregister(c)
  PROVE  call' \in CallTable
<1>1. call \in CallTable /\ call[c] \in CallType
  BY Tables DEF CallTable
<1>2. /\ {"submit", "ctx_error", "finish_event", "suspend", "level",
          "unregister", "finish_update", "finish_persist"} \subseteq CallLabels
      /\ {"completed", "failed", "suspended", "cancelled"} \subseteq Verdicts
  BY DEF CallLabels, Verdicts, TerminalWorkflow
<1>3. /\ call[c].todo \in SUBSET Steps /\ call[c].errs \in SUBSET Steps
      /\ call[c].level + 1 \in Nat /\ call[c].verdict \in Outcomes
  BY <1>1 DEF CallType, Outcomes
<1>4. CASE BeginLevel(c)
  BY <1>1, <1>2, <1>4, SetPc, SetErrs, SetTodo DEF BeginLevel, LevelSteps
<1>5. CASE EndLevels(c)
  BY <1>1, <1>2, <1>5, SetPc, SetVerdict DEF EndLevels
<1>6. CASE LevelDone(c)
  <2>1. [call EXCEPT ![c].pc = "level", ![c].level = @ + 1] \in CallTable
    BY <1>1, <1>2, <1>3, SetPc, SetLevel DEF CallTable
  <2>2. /\ [call EXCEPT ![c].pc = "ctx_error"] \in CallTable
        /\ [call EXCEPT ![c].pc = "suspend"] \in CallTable
        /\ [call EXCEPT ![c].pc = "finish_event", ![c].verdict = "failed"]
             \in CallTable
    BY <1>1, <1>2, SetPc, SetVerdict
  <2> QED
    BY <1>6, <2>1, <2>2 DEF LevelDone
<1>7. CASE \E s \in Steps : Submit(c, s) \/ RejectSubmit(c, s)
  <2>1. PICK s \in Steps : Submit(c, s) \/ RejectSubmit(c, s)
    BY <1>7
  <2>2. [call EXCEPT ![c].todo = @ \ {s}] \in CallTable
    BY <1>1, <1>3, SetTodo
  <2>3. [call EXCEPT ![c].todo = @ \ {s}, ![c].errs = @ \cup {s}] \in CallTable
    <3> DEFINE f == [call EXCEPT ![c].todo = @ \ {s}]
    <3>1. [call EXCEPT ![c].todo = @ \ {s}, ![c].errs = @ \cup {s}]
            = [f EXCEPT ![c].errs = f[c].errs \cup {s}]
      BY <1>1
    <3>2. f \in CallTable
      BY <2>2
    <3> HIDE DEF f
    <3>3. f[c].errs \cup {s} \in SUBSET Steps
      BY <3>2 DEF CallTable, CallType
    <3> QED
      BY <3>1, <3>2, <3>3, SetErrs
  <2> QED
    BY <2>1, <2>2, <2>3 DEF Submit, RejectSubmit
<1>8. CASE SuspendWorkflow(c) \/ ContextError(c)
  BY <1>1, <1>2, <1>8, SetPc, SetVerdict DEF SuspendWorkflow, ContextError
<1>9. CASE FinishEvent(c) \/ FinishUpdate(c)
  BY <1>1, <1>2, <1>9, SetPc DEF FinishEvent, FinishUpdate
<1>10. CASE Unregister(c)
  BY <1>1, <1>3, <1>10, ReturnedRecord, CallUpdate DEF Unregister, Return
<1> QED
  BY <1>4, <1>5, <1>6, <1>7, <1>8, <1>9, <1>10

LEMMA CallOfResume ==
  ASSUME TypeOK, NEW c \in Calls,
         \/ ResumeLoad(c) \/ ResumeReplay(c) \/ ResumeList(c)
         \/ \E s \in Steps : ResumeExpire(c, s)
         \/ ResumeExpireEvent(c) \/ ResumeExpireFail(c)
         \/ ResumeActivate(c) \/ ResumeRegister(c)
  PROVE  call' \in CallTable
<1>1. call \in CallTable /\ call[c] \in CallType
  BY Tables DEF CallTable
<1>2. /\ {"resume_replay", "resume_list", "resume_expire", "expire_event",
          "expire_fail", "resume_register", "level"} \subseteq CallLabels
      /\ {"rejected", "failed", "expired"} \subseteq Outcomes
  BY DEF CallLabels, Outcomes, Verdicts, TerminalWorkflow
<1>3. /\ store.wf \in WorkflowStatuses /\ store.log \in [Steps -> Rows]
      /\ store.retries \in [Steps -> Nat]
  BY DEF TypeOK, StoreType, Rows
<1>4. CASE ResumeLoad(c)
  BY <1>1, <1>2, <1>3, <1>4, SetPc, SetFrom, ReturnedRecord, CallUpdate
  DEF ResumeLoad, Return
<1>5. CASE ResumeReplay(c)
  BY <1>1, <1>2, <1>3, <1>5, SetPc, SetMem, SetRetries, SetOutputs
  DEF ResumeReplay
<1>6. CASE ResumeList(c)
  <2>1. {s \in clock.overdue : store.decisions[s] = "pending"} \in SUBSET Steps
    BY DEF TypeOK
  <2> QED
    BY <1>1, <1>2, <1>6, <2>1, SetPc, SetTodo DEF ResumeList
<1>7. CASE \E s \in Steps : ResumeExpire(c, s)
  <2>1. call[c].todo \in SUBSET Steps
    BY <1>1 DEF CallType
  <2>2. PICK s \in Steps : ResumeExpire(c, s)
    BY <1>7
  <2>3. CASE s \in FallbackChoice
    BY <1>1, <2>1, <2>2, <2>3, SetTodo DEF ResumeExpire
  <2>4. CASE s \notin FallbackChoice
    BY <1>1, <1>2, <2>2, <2>4, SetPc, SetTodo, SetTarget DEF ResumeExpire
  <2> QED
    BY <2>3, <2>4
<1>8. CASE ResumeExpireEvent(c) \/ ResumeActivate(c)
  BY <1>1, <1>2, <1>8, SetPc DEF ResumeExpireEvent, ResumeActivate
<1>9. CASE ResumeExpireFail(c)
  BY <1>1, <1>2, <1>9, ReturnedRecord, CallUpdate DEF ResumeExpireFail, Return
<1>10. CASE ResumeRegister(c)
  BY <1>1, <1>2, <1>10, SetPc, SetCtx, SetLevel, ReturnedRecord, CallUpdate
  DEF ResumeRegister, Return
<1> QED
  BY <1>4, <1>5, <1>6, <1>7, <1>8, <1>9, <1>10

LEMMA CallOfSignal ==
  ASSUME TypeOK, NEW c \in Calls,
         \/ \E k \in Kinds, s \in Steps : Signal(c, k, s)
         \/ \E s \in Steps : PanelResolve(c, s)
         \/ SignalApply(c)
  PROVE  call' \in CallTable
<1>1. call \in CallTable
  BY Tables
<1>2. /\ {"done", "resume_load", "signal_apply"} \subseteq CallLabels
      /\ {"rejected", "ok"} \subseteq Outcomes
      /\ "panel" \in CallKinds
  BY DEF CallLabels, Outcomes, CallKinds
<1>3. CASE \E k \in Kinds, s \in Steps : Signal(c, k, s)
  <2>1. PICK k \in Kinds, s \in Steps : Signal(c, k, s)
    BY <1>3
  <2> DEFINE sent == [IdleCall EXCEPT !.kind = k, !.target = s]
             refused == [sent EXCEPT !.pc = "done", !.outcome = "rejected"]
             accepted == [sent EXCEPT !.pc = IF k = "decision" THEN "resume_load"
                                             ELSE "done",
                                      !.outcome = "ok"]
  <2>2. sent \in CallType
    BY IdleRecords, CallRecordFields, ConstantsAssumption
  <2>3. refused \in CallType /\ accepted \in CallType
    BY <2>2, <1>2, CallRecordFields
  <2>4. [sent EXCEPT !.pc = "signal_apply"] \in CallType
    BY <2>2, <1>2, CallRecordFields
  <2>5. \/ /\ running # None
           /\ call' = [call EXCEPT ![running].inbox = @ + 1, ![c] = accepted]
        \/ call' = [call EXCEPT ![c] = refused]
        \/ call' = [call EXCEPT ![c] = [sent EXCEPT !.pc = "signal_apply"]]
    BY <2>1 DEF Signal
  <2>6. CASE /\ running # None
             /\ call' = [call EXCEPT ![running].inbox = @ + 1, ![c] = accepted]
    <3>1. running \in Calls /\ call[running].inbox + 1 \in Nat
      BY <1>1, <2>6 DEF TypeOK, CallTable, CallType
    <3>2. [call EXCEPT ![running].inbox = @ + 1] \in CallTable
      BY <1>1, <3>1, SetInbox
    <3> HIDE DEF accepted
    <3> QED
      BY <2>3, <2>6, <3>2, CallUpdate
  <2> HIDE DEF refused, sent
  <2> QED
    BY <1>1, <2>3, <2>4, <2>5, <2>6, CallUpdate
<1>4. CASE \E s \in Steps : PanelResolve(c, s)
  <2>1. PICK s \in Steps : PanelResolve(c, s)
    BY <1>4
  <2>2. [call EXCEPT ![c].pc = "done", ![c].kind = "panel"] \in CallTable
    BY <1>1, <1>2, SetPc, SetKind
  <2>3. [call EXCEPT ![c].pc = "done", ![c].kind = "panel", ![c].target = s]
          \in CallTable
    BY <2>2, SetTarget
  <2>4. [call EXCEPT ![c].pc = "done", ![c].kind = "panel", ![c].target = s,
                     ![c].outcome = "ok"] \in CallTable
    BY <1>2, <2>3, SetOutcome
  <2> QED
    BY <2>1, <2>4 DEF PanelResolve
<1>5. CASE SignalApply(c)
  BY <1>1, <1>2, <1>5, SetPc, SetOutcome, ReturnedRecord, CallUpdate
  DEF SignalApply, Return
<1> QED
  BY <1>3, <1>4, <1>5

LEMMA CallOfCancel ==
  ASSUME TypeOK, NEW c \in Calls,
         \/ CancelLoad(c) \/ CancelEvent(c) \/ CancelUpdate(c)
         \/ CancelSteps(c) \/ CancelRun(c)
  PROVE  call' \in CallTable
<1>1. call \in CallTable /\ store.steps \in [Steps -> Rows]
  BY Tables DEF StoreType
<1>2. /\ {"cancel_event", "cancel_update", "cancel_steps", "cancel_run"}
           \subseteq CallLabels
      /\ "ok" \in Outcomes
  BY DEF CallLabels, Outcomes
<1>3. CASE CancelLoad(c)
  BY <1>1, <1>2, <1>3, SetPc, SetKind, SetMem DEF CancelLoad, CallKinds
<1>4. CASE CancelEvent(c) \/ CancelUpdate(c) \/ CancelSteps(c)
  BY <1>1, <1>2, <1>4, SetPc DEF CancelEvent, CancelUpdate, CancelSteps
<1>5. CASE CancelRun(c)
  <2>1. Returned(c, "ok") \in CallType
    BY <1>1, <1>2, ReturnedRecord
  <2>2. \A d \in Calls :
          /\ call[d] \in CallType
          /\ [call[d] EXCEPT !.ctx = CancelContext(d)] \in CallType
    <3> SUFFICES ASSUME NEW d \in Calls
                 PROVE  /\ call[d] \in CallType
                        /\ [call[d] EXCEPT !.ctx = CancelContext(d)] \in CallType
      OBVIOUS
    <3>1. call[d] \in CallType
      BY <1>1 DEF CallTable
    <3>2. CancelContext(d) \in {"live", "cancelled", "deadline"}
      BY <3>1 DEF CancelContext, CallType
    <3> QED
      BY <3>1, <3>2, CallRecordFields
  <2> QED
    BY <1>5, <2>1, <2>2 DEF CancelRun, CallTable
<1> QED
  BY <1>3, <1>4, <1>5

\* The step a goroutine executes, and what recording it in the call does.
LEMMA TaskFacts ==
  ASSUME TypeOK, NEW c \in Calls, NEW g \in Steps
  PROVE  /\ call \in CallTable /\ call[c] \in CallType
         /\ task \in TaskTable /\ task[c][g] \in TaskType
         /\ task[c][g].step \in Steps
         /\ [call EXCEPT ![c].errs = @ \cup {g}] \in CallTable
<1>1. /\ call \in CallTable /\ call[c] \in CallType
      /\ task \in TaskTable /\ task[c][g] \in TaskType
  BY Tables DEF CallTable, TaskTable
<1>2. task[c][g].step \in Steps /\ call[c].errs \cup {g} \in SUBSET Steps
  BY <1>1 DEF TaskType, CallType
<1> QED
  BY <1>1, <1>2, SetErrs

LEMMA CallOfFailure ==
  ASSUME TypeOK, NEW c \in Calls, NEW g \in Steps,
         HandleFailure(c, g) \/ TaskError(c, g)
  PROVE  call' \in CallTable
<1> DEFINE s == task[c][g].step
<1>1. /\ call \in CallTable /\ s \in Steps
      /\ {"failed", "completed", "retrying"} \subseteq Rows
  BY TaskFacts DEF Rows, StepStatuses
<1>2. CASE TaskError(c, g)
  BY <1>2, TaskFacts DEF TaskError
<1>3. CASE Retry(c, g)
  <2>1. CASE TaskError(c, g)
    BY <2>1, TaskFacts DEF TaskError
  <2>2. CASE call' = [call EXCEPT ![c].mem[s] = "retrying",
                                  ![c].retries[s] = @ + 1]
    <3> DEFINE f == [call EXCEPT ![c].mem[s] = "retrying"]
    <3>1. f \in CallTable
      BY <1>1, SetMemOf
    <3>2. call' = [f EXCEPT ![c].retries[s] = f[c].retries[s] + 1]
      BY <1>1, <2>2
    <3> HIDE DEF f
    <3>3. f[c].retries[s] + 1 \in Nat
      BY <1>1, <3>1 DEF CallTable, CallType
    <3> QED
      BY <1>1, <3>1, <3>2, <3>3, SetRetriesOf
  <2> QED
    BY <1>3, <2>1, <2>2 DEF Retry
<1>4. CASE GiveUp(c, g)
  BY <1>1, <1>4, SetMemOf DEF GiveUp, FailStep
<1> QED
  BY <1>2, <1>3, <1>4 DEF HandleFailure

LEMMA CallOfTask ==
  ASSUME TypeOK, NEW c \in Calls, NEW g \in Steps, TaskStep(c, g)
  PROVE  call' \in CallTable
<1> DEFINE s == task[c][g].step
<1>1. /\ call \in CallTable /\ call[c] \in CallType /\ s \in Steps
      /\ [call EXCEPT ![c].errs = @ \cup {g}] \in CallTable
      /\ {"scheduled", "running", "completed", "suspended", "skipped"}
           \subseteq Rows
  BY TaskFacts DEF Rows, StepStatuses
<1>2. CASE StepStart(c, g)
  <2>1. CASE call' = [call EXCEPT ![c].errs = @ \cup {g},
                        ![c].mem[s] = IF @ = "pending" THEN "scheduled" ELSE @]
    <3> DEFINE f == [call EXCEPT ![c].errs = @ \cup {g}]
    <3>1. call' = [f EXCEPT ![c].mem[s] = IF f[c].mem[s] = "pending"
                                          THEN "scheduled" ELSE f[c].mem[s]]
      BY <1>1, <2>1
    <3>2. f \in CallTable
      BY <1>1
    <3> HIDE DEF f
    <3>3. f[c].mem[s] \in Rows
      BY <1>1, <3>2 DEF CallTable, CallType
    <3> QED
      BY <1>1, <3>1, <3>2, <3>3, SetMemOf
  <2>2. CASE call' = [call EXCEPT ![c].mem[s] = "running"]
    BY <1>1, <2>2, SetMemOf
  <2> QED
    BY <1>2, <2>1, <2>2 DEF StepStart
<1>3. CASE Persist(c, g)
  BY <1>1, <1>3 DEF Persist
<1>4. CASE Backoff(c, g)
  BY <1>1, <1>4, SetMemOf, CallOfFailure DEF Backoff
<1>5. CASE ActionSucceeds(c, g) \/ ActionFails(c, g) \/ ActionPanics(c, g)
  BY <1>1, <1>5, CallOfFailure DEF ActionSucceeds, ActionFails, ActionPanics
<1>6. CASE Complete(c, g)
  <2>1. CASE TaskError(c, g)
    BY <2>1, CallOfFailure
  <2>2. CASE call' = [call EXCEPT ![c].mem[s] = "completed",
                        ![c].outputs = IF s \in Reasoning THEN @ ELSE @ \cup {s}]
    <3> DEFINE f == [call EXCEPT ![c].mem[s] = "completed"]
    <3>1. f \in CallTable
      BY <1>1, SetMemOf
    <3>2. call' = [f EXCEPT ![c].outputs = IF s \in Reasoning THEN f[c].outputs
                                           ELSE f[c].outputs \cup {s}]
      BY <1>1, <2>2
    <3> HIDE DEF f
    <3>3. f[c].outputs \in SUBSET Steps
      BY <3>1 DEF CallTable, CallType
    <3> QED
      BY <1>1, <3>1, <3>2, <3>3, SetOutputs
  <2> QED
    BY <1>6, <2>1, <2>2 DEF Complete
<1>7. CASE ReasonLookup(c, g) \/ CreateDecision(c, g) \/ RequestDecision(c, g)
  BY <1>1, <1>7, CallOfFailure DEF ReasonLookup, CreateDecision, RequestDecision
<1>8. CASE SuspendStep(c, g) \/ SkipStep(c, g)
  BY <1>1, <1>8, SetMemOf, CallOfFailure DEF SuspendStep, SkipStep
<1> QED
  BY <1>2, <1>3, <1>4, <1>5, <1>6, <1>7, <1>8 DEF TaskStep

-----------------------------------------------------------------------------
(* The table of the goroutines. *)

\* A goroutine turns to a fallback step just when its step names one.
FallbackNamed ==
  \A c \in Calls, g \in Steps :
    TaskAt(c, g, "persist_fallback") => Fallback[task[c][g].step] \in Steps

\* A goroutine that moves on and keeps its step.
LEMMA TaskMoves ==
  ASSUME TypeOK, FallbackNamed, NEW c \in Calls, NEW g \in Steps,
         NEW l \in TaskLabels, TaskGoto(c, g, l),
         l = "persist_fallback" => Fallback[task[c][g].step] \in Steps
  PROVE  task' \in TaskTable /\ FallbackNamed'
<1>1. task \in TaskTable
  BY TaskFacts
<1>2. task' = [task EXCEPT ![c][g].pc = l]
  BY DEF TaskGoto
<1>3. task' \in TaskTable
  BY <1>1, <1>2, TaskFields
<1>4. FallbackNamed'
  BY <1>1, <1>2 DEF FallbackNamed, TaskAt, TaskTable, TaskType
<1> QED
  BY <1>3, <1>4

LEMMA TaskOfFailure ==
  ASSUME TypeOK, FallbackNamed, NEW c \in Calls, NEW g \in Steps,
         HandleFailure(c, g) \/ TaskError(c, g)
  PROVE  task' \in TaskTable /\ FallbackNamed'
<1> DEFINE s == task[c][g].step
<1>1. {"idle", "persist_retrying", "persist_fallback", "persist_end",
       "persist_failed"} \subseteq TaskLabels
  BY DEF TaskLabels, AfterPersist
<1>2. CASE TaskError(c, g) \/ Retry(c, g)
  <2>1. TaskGoto(c, g, "idle") \/ TaskGoto(c, g, "persist_retrying")
    BY <1>2 DEF Retry, TaskError
  <2> QED
    BY <1>1, <2>1, TaskMoves
<1>3. CASE GiveUp(c, g)
  <2>1. \/ Fallback[s] # None /\ TaskGoto(c, g, "persist_fallback")
        \/ \E l \in {"idle", "persist_end", "persist_failed"} : TaskGoto(c, g, l)
    BY <1>3 DEF GiveUp, FailStep
  <2>2. Fallback[s] # None => Fallback[s] \in Steps
    BY TaskFacts, ConstantsAssumption
  <2> QED
    BY <1>1, <2>1, <2>2, TaskMoves
<1> QED
  BY <1>2, <1>3 DEF HandleFailure

LEMMA TaskOfTask ==
  ASSUME TypeOK, FallbackNamed, NEW c \in Calls, NEW g \in Steps, TaskStep(c, g)
  PROVE  task' \in TaskTable /\ FallbackNamed'
<1>1. /\ task \in TaskTable /\ task[c][g] \in TaskType
      /\ task[c][g].step \in Steps
  BY TaskFacts
<1>2. {"idle", "persist_running", "exec", "reexec", "complete", "create",
       "skip_step", "suspend_step", "request", "persist_end"} \subseteq TaskLabels
  BY DEF TaskLabels, AfterPersist
<1> DEFINE Goes(L) == \E l \in L : TaskGoto(c, g, l)
           Fails == HandleFailure(c, g) \/ TaskError(c, g)
<1>3. CASE Persist(c, g)
  <2> DEFINE s == task[c][g].step
             next == AfterPersist[task[c][g].pc]
             f == [task EXCEPT ![c][g].pc = next]
             to == IF TaskAt(c, g, "persist_fallback") THEN Fallback[s] ELSE s
  <2>1. next \in TaskLabels /\ next # "persist_fallback"
    BY <1>3 DEF Persist, AfterPersist, TaskLabels
  <2>2. to \in Steps
    BY <1>1 DEF FallbackNamed
  <2>3. f \in TaskTable
    BY <1>1, <2>1, TaskFields
  <2>4. task' = [f EXCEPT ![c][g].step = to]
    BY <1>1, <1>3 DEF Persist, TaskTable
  <2>5. /\ f[c][g].pc # "persist_fallback"
        /\ \A d \in Calls, h \in Steps :
             <<d, h>> # <<c, g>> => f[d][h] = task[d][h]
    BY <1>1, <2>1 DEF TaskTable, TaskType
  <2> HIDE DEF f, to
  <2>6. task' \in TaskTable
    BY <2>2, <2>3, <2>4, TaskFields
  <2>7. FallbackNamed'
    BY <1>1, <2>3, <2>4, <2>5 DEF FallbackNamed, TaskAt, TaskTable, TaskType
  <2> QED
    BY <2>6, <2>7
<1>4. CASE StepStart(c, g) \/ Backoff(c, g) \/ Complete(c, g)
  <2>1. Fails \/ Goes({"idle", "persist_running", "reexec", "persist_end"})
    BY <1>4 DEF StepStart, Backoff, Complete
  <2> QED
    BY <1>2, <2>1, TaskOfFailure, TaskMoves
<1>5. CASE ActionSucceeds(c, g) \/ ActionFails(c, g) \/ ActionPanics(c, g)
  <2>1. Fails \/ Goes({"idle", "complete"})
    BY <1>5 DEF ActionSucceeds, ActionFails, ActionPanics
  <2> QED
    BY <1>2, <2>1, TaskOfFailure, TaskMoves
<1>6. CASE ReasonLookup(c, g)
  <2>1. store.decisions[task[c][g].step] \in Decisions
    BY <1>1 DEF TypeOK, StoreType
  <2>2. Fails \/ Goes({"complete", "skip_step", "suspend_step", "create"})
    BY <1>6, <2>1 DEF ReasonLookup, Decisions
  <2> QED
    BY <1>2, <2>2, TaskOfFailure, TaskMoves
<1>7. CASE \/ CreateDecision(c, g) \/ RequestDecision(c, g)
           \/ SuspendStep(c, g) \/ SkipStep(c, g)
  <2>1. Fails \/ Goes({"request", "suspend_step", "persist_end"})
    BY <1>7 DEF CreateDecision, RequestDecision, SuspendStep, SkipStep
  <2> QED
    BY <1>2, <2>1, TaskOfFailure, TaskMoves
<1> QED
  BY <1>3, <1>4, <1>5, <1>6, <1>7 DEF TaskStep

-----------------------------------------------------------------------------
(* The locals a call relies on. *)

FinishLabels == {"finish_event", "finish_update", "finish_persist"}

\* A call finishes a workflow with a terminal verdict, and writes the decision
\* or the log of a step only once it has one.
Prepared(r) ==
  /\ r.pc \in FinishLabels => r.verdict \in TerminalWorkflow
  /\ r.pc \in {"signal_apply", "expire_event"} => r.target \in Steps

LocalsSet == \A c \in Calls : Prepared(call[c])

\* What a step of call c may do to the locals of all calls.
LEMMA OthersPrepared ==
  ASSUME LocalsSet, NEW c \in Calls, Prepared(call'[c]),
         \A d \in Calls \ {c} :
           /\ call'[d].pc = call[d].pc /\ call'[d].verdict = call[d].verdict
           /\ call'[d].target = call[d].target
  PROVE  LocalsSet'
BY DEF LocalsSet, Prepared

LEMMA ReturnedIsDone ==
  ASSUME NEW c \in Calls, NEW o
  PROVE  Returned(c, o).pc = "done" /\ Prepared(Returned(c, o))
BY DEF Returned, IdleCall, Prepared, FinishLabels

LEMMA ReturnPrepares ==
  ASSUME TypeOK, LocalsSet, NEW c \in Calls, NEW o, Return(c, o)
  PROVE  LocalsSet'
<1>1. call'[c] = Returned(c, o) /\ \A d \in Calls \ {c} : call'[d] = call[d]
  BY DEF Return, TypeOK
<1>2. Prepared(call'[c])
  BY <1>1, ReturnedIsDone
<1> QED
  BY <1>1, <1>2, OthersPrepared

LEMMA LocalsOfCall ==
  ASSUME TypeOK, LocalsSet, NEW c \in Calls, CallStep(c)
  PROVE  LocalsSet'
<1>1. call \in CallTable
  BY Tables
<1> DEFINE Others == \A d \in Calls \ {c} :
                       /\ call'[d].pc = call[d].pc
                       /\ call'[d].verdict = call[d].verdict
                       /\ call'[d].target = call[d].target
<1> USE DEF Prepared, FinishLabels, TerminalWorkflow
<1>2. Prepared(call[c])
  BY DEF LocalsSet
<1>3. CASE RunUpdate(c) \/ RunInitSteps(c) \/ RunRegister(c)
  <2>1. Prepared(call'[c]) /\ Others
    BY <1>1, <1>3 DEF RunUpdate, RunInitSteps, RunRegister, CallTable, CallType
  <2> QED
    BY <2>1, OthersPrepared
<1>4. CASE BeginLevel(c) \/ EndLevels(c) \/ LevelDone(c)
  <2>1. Prepared(call'[c]) /\ Others
    BY <1>1, <1>4 DEF BeginLevel, EndLevels, LevelDone, CallTable, CallType
  <2> QED
    BY <2>1, OthersPrepared
<1>5. CASE \E s \in Steps : Submit(c, s) \/ RejectSubmit(c, s) \/ ResumeExpire(c, s)
  <2>1. Prepared(call'[c]) /\ Others
    BY <1>1, <1>2, <1>5
    DEF Submit, RejectSubmit, ResumeExpire, CallTable, CallType, At
  <2> QED
    BY <2>1, OthersPrepared
<1>6. CASE SuspendWorkflow(c) \/ ContextError(c)
  <2>1. Prepared(call'[c]) /\ Others
    BY <1>1, <1>6 DEF SuspendWorkflow, ContextError, CallTable, CallType
  <2> QED
    BY <2>1, OthersPrepared
<1>7. CASE FinishEvent(c) \/ FinishUpdate(c)
  <2>1. Prepared(call'[c]) /\ Others
    BY <1>1, <1>2, <1>7 DEF FinishEvent, FinishUpdate, CallTable, CallType, At
  <2> QED
    BY <2>1, OthersPrepared
<1>8. CASE Unregister(c) \/ ResumeExpireFail(c)
  BY <1>8, ReturnPrepares DEF Unregister, ResumeExpireFail
<1>9. CASE SignalApply(c)
  <2>1. CASE call' = [call EXCEPT ![c].pc = "resume_load", ![c].outcome = "ok"]
    <3>1. Prepared(call'[c]) /\ Others
      BY <1>1, <2>1 DEF CallTable, CallType
    <3> QED
      BY <3>1, OthersPrepared
  <2> QED
    BY <1>9, <2>1, ReturnPrepares DEF SignalApply
<1>10. CASE ResumeLoad(c) \/ ResumeRegister(c)
  <2>1. CASE \E o : Return(c, o)
    BY <2>1, ReturnPrepares
  <2>2. CASE \A o : ~Return(c, o)
    <3>1. Prepared(call'[c]) /\ Others
      BY <1>1, <1>10, <2>2 DEF ResumeLoad, ResumeRegister, CallTable, CallType
    <3> QED
      BY <3>1, OthersPrepared
  <2> QED
    BY <2>1, <2>2
<1>11. CASE ResumeReplay(c) \/ ResumeList(c) \/ ResumeActivate(c)
  <2>1. Prepared(call'[c]) /\ Others
    BY <1>1, <1>11 DEF ResumeReplay, ResumeList, ResumeActivate, CallTable, CallType
  <2> QED
    BY <2>1, OthersPrepared
<1>12. CASE \/ ResumeExpireEvent(c) \/ CancelEvent(c) \/ CancelUpdate(c)
            \/ CancelSteps(c)
  <2>1. Prepared(call'[c]) /\ Others
    BY <1>1, <1>12
    DEF ResumeExpireEvent, CancelEvent, CancelUpdate, CancelSteps, CallTable,
        CallType
  <2> QED
    BY <2>1, OthersPrepared
<1>13. CASE CancelRun(c)
  <2>1. /\ call'[c] = Returned(c, "ok")
        /\ \A d \in Calls \ {c} : \/ call'[d] = call[d]
                                 \/ call'[d] = [call[d] EXCEPT !.ctx = CancelContext(d)]
    BY <1>13 DEF CancelRun
  <2>2. Prepared(call'[c])
    BY <2>1, ReturnedIsDone
  <2>3. Others
    BY <1>1, <2>1, ZenonT(40) DEF CallTable, CallType
  <2> QED
    BY <2>2, <2>3, OthersPrepared
<1> QED
  BY <1>3, <1>4, <1>5, <1>6, <1>7, <1>8, <1>9, <1>10, <1>11,
     <1>12, <1>13, Zenon DEF CallStep

-----------------------------------------------------------------------------
(* The store. *)

\* What CancelWorkflow writes to the log and Cancel to step_state.
LEMMA SkipTypes ==
  ASSUME TypeOK, NEW c \in Calls
  PROVE  /\ SkipLog(call[c].mem) \in [Steps -> StepStatuses]
         /\ [s \in Steps |-> IF call[c].mem[s] # None /\ CanSkip(call[c].mem[s])
                             THEN "skipped" ELSE store.steps[s]] \in [Steps -> Rows]
<1>1. store.log \in [Steps -> StepStatuses] /\ store.steps \in [Steps -> Rows]
  BY DEF TypeOK, StoreType
<1>2. "skipped" \in StepStatuses /\ "skipped" \in Rows
  BY DEF StepStatuses, Rows
<1> QED
  BY <1>1, <1>2 DEF SkipLog

LEMMA StoreOfCall ==
  ASSUME TypeOK, LocalsSet, NEW c \in Calls, CallStep(c)
  PROVE  store' \in StoreType
<1>1. /\ store \in StoreType /\ call[c] \in CallType /\ Prepared(call[c])
      /\ store.endings \in SUBSET TerminalWorkflow
  BY DEF TypeOK, StoreType, LocalsSet
<1>2. /\ {"active", "suspended", "failed", "cancelled"} \subseteq WorkflowStatuses
      /\ TerminalWorkflow \subseteq WorkflowStatuses
      /\ {"resolved", "cancelled", "expired"} \subseteq Decisions
      /\ "failed" \in StepStatuses
      /\ {"failed", "cancelled"} \subseteq TerminalWorkflow
  BY DEF WorkflowStatuses, Verdicts, TerminalWorkflow, Decisions, StepStatuses
<1>3. CASE RunUpdate(c) \/ SuspendWorkflow(c) \/ CancelUpdate(c)
  BY <1>1, <1>2, <1>3, StoreFields DEF RunUpdate, SuspendWorkflow, CancelUpdate
<1>4. CASE RunInitSteps(c)
  <2>1. [s \in Steps |-> "pending"] \in [Steps -> Rows]
    BY DEF Rows, StepStatuses
  <2> QED
    BY <1>1, <1>4, <2>1, StoreFields DEF RunInitSteps
<1>5. CASE ContextError(c) \/ CancelEvent(c)
  <2>1. [store EXCEPT !.log = SkipLog(call[c].mem),
                      !.endings = @ \cup {"cancelled"}] \in StoreType
    <3> DEFINE r == [store EXCEPT !.log = SkipLog(call[c].mem)]
    <3>1. r \in StoreType /\ r.endings = store.endings
      BY <1>1, SkipTypes, StoreFields DEF StoreType
    <3> QED
      BY <1>1, <1>2, <3>1, StoreFields
  <2> QED
    BY <1>1, <1>2, <1>5, <2>1, StoreFields DEF ContextError, CancelEvent
<1>6. CASE SignalApply(c)
  BY <1>1, <1>2, <1>6, StoreFields DEF SignalApply, Prepared, At
<1>7. CASE \E s \in Steps : ResumeExpire(c, s)
  <2>1. PICK s \in Steps : ResumeExpire(c, s)
    BY <1>7
  <2>2. store.decisions[s] \in Decisions
    BY <1>1 DEF StoreType
  <2> QED
    BY <1>1, <1>2, <2>1, <2>2, StoreFields DEF ResumeExpire
<1>8. CASE ResumeExpireEvent(c)
  BY <1>1, <1>2, <1>8, StoreFields DEF ResumeExpireEvent, Prepared, At
<1>9. CASE ResumeExpireFail(c)
  <2> DEFINE r == [store EXCEPT !.wf = "failed"]
  <2>1. r \in StoreType /\ r.endings = store.endings
    BY <1>1, <1>2, StoreFields DEF StoreType
  <2>2. store' = [r EXCEPT !.endings = r.endings \cup {"failed"}]
    BY <1>9 DEF ResumeExpireFail
  <2> HIDE DEF r
  <2> QED
    BY <1>1, <1>2, <2>1, <2>2, StoreFields
<1>10. CASE ResumeActivate(c)
  BY <1>1, <1>2, <1>10, StoreFields DEF ResumeActivate, StoreType
<1>11. CASE CancelSteps(c)
  BY <1>1, <1>11, SkipTypes, StoreFields DEF CancelSteps
<1>12. CASE FinishEvent(c) \/ FinishUpdate(c)
  <2>1. call[c].verdict \in TerminalWorkflow
    BY <1>1, <1>12 DEF FinishEvent, FinishUpdate, Prepared, FinishLabels, At
  <2> QED
    BY <1>1, <1>2, <1>12, <2>1, StoreFields DEF FinishEvent, FinishUpdate
<1>13. CASE UNCHANGED store
  BY <1>1, <1>13
<1> QED
  BY <1>3, <1>4, <1>5, <1>6, <1>7, <1>8, <1>9, <1>10, <1>11, <1>12, <1>13, Zenon
  DEF CallStep, RunRegister, BeginLevel, EndLevels, LevelDone, Submit,
      RejectSubmit, Unregister, ResumeLoad, ResumeReplay, ResumeList,
      ResumeRegister, CancelRun

LEMMA StoreOfFailure ==
  ASSUME TypeOK, NEW c \in Calls, NEW g \in Steps,
         HandleFailure(c, g) \/ TaskError(c, g)
  PROVE  store' \in StoreType
<1> DEFINE s == task[c][g].step
<1>0. store \in StoreType /\ s \in Steps
  BY TaskFacts DEF TypeOK
<1>1. /\ store \in StoreType /\ s \in Steps /\ store.log[s] \in StepStatuses
      /\ store.retries[s] + 1 \in Nat
  BY <1>0 DEF StoreType
<1>2. {"failed", "completed", "retrying"} \subseteq StepStatuses
  BY DEF StepStatuses
<1>3. CASE TaskError(c, g)
  BY <1>1, <1>3 DEF TaskError
<1>4. CASE Retry(c, g)
  <2>1. [store EXCEPT !.log[s] = "retrying", !.retries[s] = @ + 1] \in StoreType
    <3> DEFINE r == [store EXCEPT !.log[s] = "retrying"]
    <3>1. r \in StoreType /\ r.retries[s] = store.retries[s]
      BY <1>1, <1>2, StoreFields DEF StoreType
    <3> QED
      BY <1>1, <3>1, StoreFields
  <2> QED
    BY <1>1, <1>4, <2>1 DEF Retry, TaskError
<1>5. CASE GiveUp(c, g)
  BY <1>1, <1>2, <1>5, StoreFields DEF GiveUp, FailStep
<1> QED
  BY <1>3, <1>4, <1>5 DEF HandleFailure

LEMMA StoreOfTask ==
  ASSUME TypeOK, NEW c \in Calls, NEW g \in Steps, TaskStep(c, g)
  PROVE  store' \in StoreType
<1> DEFINE s == task[c][g].step
<1>1. store \in StoreType /\ s \in Steps /\ call[c].mem[s] \in Rows
  BY TaskFacts DEF TypeOK, CallType
<1>2. /\ {"running", "completed", "suspended", "skipped"} \subseteq StepStatuses
      /\ "pending" \in Decisions
  BY DEF StepStatuses, Decisions
<1>3. CASE Persist(c, g)
  BY <1>1, <1>3, StoreFields DEF Persist
<1>4. CASE StepStart(c, g) \/ Backoff(c, g) \/ Complete(c, g)
  <2>1. CASE StepStart(c, g)
    BY <1>1, <1>2, <2>1, StoreFields, StoreOfFailure DEF StepStart
  <2>2. CASE Backoff(c, g)
    BY <1>1, <1>2, <2>2, StoreFields, StoreOfFailure DEF Backoff
  <2>3. CASE Complete(c, g)
    BY <1>1, <1>2, <2>3, StoreFields, StoreOfFailure DEF Complete
  <2> QED
    BY <1>4, <2>1, <2>2, <2>3
<1>5. CASE ActionSucceeds(c, g) \/ ActionFails(c, g) \/ ActionPanics(c, g)
  BY <1>1, <1>5, StoreOfFailure DEF ActionSucceeds, ActionFails, ActionPanics
<1>6. CASE ReasonLookup(c, g) \/ SuspendStep(c, g)
  BY <1>1, <1>6, StoreOfFailure DEF ReasonLookup, SuspendStep
<1>7. CASE CreateDecision(c, g) \/ RequestDecision(c, g) \/ SkipStep(c, g)
  BY <1>1, <1>2, <1>7, StoreFields, StoreOfFailure
  DEF CreateDecision, RequestDecision, SkipStep
<1> QED
  BY <1>3, <1>4, <1>5, <1>6, <1>7 DEF TaskStep

\* A goroutine writes only its own call: the errors, the outputs and what the
\* call remembers of the goroutine's step, never the control of the call.
LEMMA FrameOfFailure ==
  ASSUME TypeOK, NEW c \in Calls, NEW g \in Steps,
         HandleFailure(c, g) \/ TaskError(c, g)
  PROVE  /\ \A d \in Calls \ {c} : call'[d] = call[d]
         /\ call'[c].pc = call[c].pc /\ call'[c].verdict = call[c].verdict
         /\ call'[c].target = call[c].target
         /\ \A u \in Steps \ {task[c][g].step} : call'[c].mem[u] = call[c].mem[u]
<1> DEFINE s == task[c][g].step
<1>1. call \in CallTable /\ s \in Steps
  BY TaskFacts
<1>2. CASE TaskError(c, g)
  BY <1>1, <1>2 DEF TaskError, CallTable, CallType
<1>3. CASE Retry(c, g) /\ ~TaskError(c, g)
  <2>1. call' = [call EXCEPT ![c].mem[s] = "retrying", ![c].retries[s] = @ + 1]
    BY <1>3 DEF Retry
  <2> QED
    BY <1>1, <2>1 DEF CallTable, CallType
<1>4. CASE GiveUp(c, g)
  <2>1. UNCHANGED call \/ \E x \in Rows : call' = [call EXCEPT ![c].mem[s] = x]
    BY <1>4 DEF GiveUp, FailStep, Rows, StepStatuses
  <2> QED
    BY <1>1, <2>1 DEF CallTable, CallType
<1> QED
  BY <1>2, <1>3, <1>4 DEF HandleFailure

LEMMA FrameOfTask ==
  ASSUME TypeOK, NEW c \in Calls, NEW g \in Steps, TaskStep(c, g)
  PROVE  /\ \A d \in Calls \ {c} : call'[d] = call[d]
         /\ call'[c].pc = call[c].pc /\ call'[c].verdict = call[c].verdict
         /\ call'[c].target = call[c].target
         /\ \A u \in Steps \ {task[c][g].step} : call'[c].mem[u] = call[c].mem[u]
<1> DEFINE s == task[c][g].step
           Fails == HandleFailure(c, g) \/ TaskError(c, g)
           MemOnly == \E x \in Rows : call' = [call EXCEPT ![c].mem[s] = x]
<1>1. call \in CallTable /\ s \in Steps
  BY TaskFacts
<1>2. {"running", "completed", "suspended", "skipped"} \subseteq Rows
  BY DEF Rows, StepStatuses
<1>3. CASE Fails
  BY <1>3, FrameOfFailure
<1>4. CASE UNCHANGED call
  BY <1>4
<1>5. CASE MemOnly
  BY <1>1, <1>5 DEF CallTable, CallType
<1>6. CASE StepStart(c, g)
  <2>1. CASE Dead(c, g)
    BY <1>1, <1>6, <2>1 DEF StepStart, CallTable, CallType
  <2>2. CASE ~Dead(c, g)
    BY <1>2, <1>5, <1>6, <2>2 DEF StepStart
  <2> QED
    BY <2>1, <2>2
<1>7. CASE Persist(c, g)
  <2>1. UNCHANGED call \/ call' = [call EXCEPT ![c].errs = @ \cup {g}]
    BY <1>7 DEF Persist
  <2> QED
    BY <1>1, <2>1 DEF CallTable, CallType
<1>8. CASE Complete(c, g) /\ ~TaskError(c, g)
  <2>1. call' = [call EXCEPT ![c].mem[s] = "completed",
                   ![c].outputs = IF s \in Reasoning THEN @ ELSE @ \cup {s}]
    BY <1>8 DEF Complete
  <2> QED
    BY <1>1, <2>1 DEF CallTable, CallType
<1>9. ~(StepStart(c, g) \/ Persist(c, g) \/ (Complete(c, g) /\ ~TaskError(c, g)))
        => Fails \/ UNCHANGED call \/ MemOnly
  BY <1>2
  DEF TaskStep, Complete, Backoff, ActionSucceeds, ActionFails, ActionPanics,
      ReasonLookup, CreateDecision, RequestDecision, SuspendStep, SkipStep
<1> QED
  BY <1>3, <1>4, <1>5, <1>6, <1>7, <1>8, <1>9

LEMMA LocalsOfTask ==
  ASSUME TypeOK, LocalsSet, NEW c \in Calls, NEW g \in Steps, TaskStep(c, g)
  PROVE  LocalsSet'
BY FrameOfTask DEF LocalsSet, Prepared

-----------------------------------------------------------------------------
(* The environment, and the type invariant. *)

\* The inductive strengthening of TypeOK.
Typed == TypeOK /\ FallbackNamed /\ LocalsSet

LEMMA InitTyped == Init => Typed
<1> SUFFICES ASSUME Init PROVE Typed
  OBVIOUS
<1>1. store \in StoreType
  BY DEF Init, StoreType, WorkflowStatuses, Rows, StepStatuses, Decisions
<1>2. call \in CallTable /\ task \in TaskTable
  BY IdleRecords DEF Init, CallTable, TaskTable
<1>3. /\ running \in Calls \cup {None} /\ crashes \in 0..MaxCrashes
      /\ clock \in [deadline : BOOLEAN, overdue : SUBSET Steps]
  BY ConstantsAssumption DEF Init
<1>4. TypeOK
  BY <1>1, <1>2, <1>3, Tables
<1>5. FallbackNamed
  BY DEF Init, FallbackNamed, TaskAt, IdleTask
<1>6. LocalsSet
  BY DEF Init, LocalsSet, Prepared, FinishLabels, IdleCall
<1> QED
  BY <1>4, <1>5, <1>6 DEF Typed

LEMMA ArrivalsTyped ==
  ASSUME Typed, NEW c \in Calls, Arrivals(c)
  PROVE  Typed'
<1>1. UNCHANGED <<task, running, clock, crashes>>
  BY Zenon DEF Arrivals, Run, CancelLoad, PanelResolve, Signal
<1>2. call' \in CallTable
  BY CallOfRun, CallOfCancel, CallOfSignal DEF Arrivals, Typed
<1>3. store' \in StoreType
  <2>1. store \in StoreType /\ "resolved" \in Decisions
    BY DEF Typed, TypeOK, Decisions
  <2>2. ASSUME NEW s \in Steps, PanelResolve(c, s) PROVE store' \in StoreType
    BY <2>1, <2>2, StoreFields DEF PanelResolve
  <2>3. CASE UNCHANGED store
    BY <2>1, <2>3
  <2> QED
    BY <2>2, <2>3, Zenon DEF Arrivals, Run, CancelLoad, Signal
<1>4. TypeOK'
  BY <1>1, <1>2, <1>3 DEF Typed, TypeOK, CallTable
<1>5. FallbackNamed'
  BY <1>1 DEF Typed, FallbackNamed, TaskAt
<1>6. LocalsSet'
  <2>1. call \in CallTable /\ LocalsSet
    BY Tables DEF Typed
  <2>2. ASSUME NEW s \in Steps, NEW k \in Kinds, Signal(c, k, s) PROVE LocalsSet'
    <3> DEFINE sent == [IdleCall EXCEPT !.kind = k, !.target = s]
    <3>1. \A d \in Calls \ {c} : /\ call'[d].pc = call[d].pc
                                 /\ call'[d].verdict = call[d].verdict
                                 /\ call'[d].target = call[d].target
      BY <2>1, <2>2 DEF Signal, CallTable, CallType
    <3>2. call'[c].target = s /\ call'[c].pc \notin FinishLabels
      <4>1. sent.target = s /\ sent = [sent EXCEPT !.target = s]
        BY DEF IdleCall
      <4>2. \/ call'[c] = [sent EXCEPT !.pc = "done", !.outcome = "rejected"]
            \/ call'[c] = [sent EXCEPT !.pc = "signal_apply"]
            \/ call'[c] = [sent EXCEPT !.pc = IF k = "decision" THEN "resume_load"
                                              ELSE "done",
                                       !.outcome = "ok"]
        BY <2>1, <2>2 DEF Signal, CallTable
      <4> QED
        BY <4>2, ZenonT(40) DEF IdleCall, FinishLabels
    <3> QED
      BY <2>1, <3>1, <3>2, OthersPrepared DEF Prepared
  <2>3. ASSUME ~\E s \in Steps, k \in Kinds : Signal(c, k, s) PROVE LocalsSet'
    <3>1. Run(c) \/ CancelLoad(c) \/ \E s \in Steps : PanelResolve(c, s)
      BY <2>3 DEF Arrivals
    <3>2. /\ \A d \in Calls \ {c} : call'[d] = call[d]
          /\ call'[c].pc \in {"run_update", "cancel_event", "done"}
      <4>1. CASE Run(c)
        BY <2>1, <4>1 DEF Run, CallTable, CallType
      <4>2. CASE CancelLoad(c)
        BY <2>1, <4>2 DEF CancelLoad, CallTable, CallType
      <4>3. CASE \E s \in Steps : PanelResolve(c, s)
        BY <2>1, <4>3 DEF PanelResolve, CallTable, CallType
      <4> QED
        BY <3>1, <4>1, <4>2, <4>3
    <3> QED
      BY <2>1, <3>2, OthersPrepared DEF Prepared, FinishLabels
  <2> QED
    BY <2>2, <2>3
<1> QED
  BY <1>4, <1>5, <1>6 DEF Typed

\* Only Submit starts a goroutine.
LEMMA CallKeepsTasks ==
  ASSUME NEW c \in Calls, CallStep(c)
  PROVE  task' = task \/ \E s \in Steps : Submit(c, s)
BY Zenon
DEF CallStep, RunUpdate, RunInitSteps, RunRegister, BeginLevel, EndLevels,
    LevelDone, RejectSubmit, ResumeExpire, SuspendWorkflow, ContextError,
    FinishEvent, FinishUpdate, Unregister, SignalApply, ResumeLoad,
    ResumeReplay, ResumeList, ResumeExpireEvent, ResumeExpireFail,
    ResumeActivate, ResumeRegister, CancelEvent, CancelUpdate, CancelSteps,
    CancelRun

LEMMA CallStepTyped ==
  ASSUME Typed, NEW c \in Calls, CallStep(c)
  PROVE  Typed'
<1>1. call' \in CallTable
  BY CallOfRun, CallOfDag, CallOfResume, CallOfCancel, CallOfSignal, Zenon
  DEF CallStep, Typed
<1>2. store' \in StoreType /\ LocalsSet'
  BY StoreOfCall, LocalsOfCall DEF Typed
<1>3. running' \in Calls \cup {None}
  <2>1. running' \in {running, c, None}
    BY Zenon
    DEF CallStep, RunUpdate, RunInitSteps, RunRegister, BeginLevel, EndLevels,
        LevelDone, Submit, RejectSubmit, ResumeExpire, SuspendWorkflow,
        ContextError, FinishEvent, FinishUpdate, Unregister, SignalApply,
        ResumeLoad, ResumeReplay, ResumeList, ResumeExpireEvent,
        ResumeExpireFail, ResumeActivate, ResumeRegister, CancelEvent,
        CancelUpdate, CancelSteps, CancelRun
  <2> QED
    BY <2>1 DEF Typed, TypeOK
<1>4. UNCHANGED <<clock, crashes>>
  BY Zenon
  DEF CallStep, RunUpdate, RunInitSteps, RunRegister, BeginLevel, EndLevels,
      LevelDone, Submit, RejectSubmit, ResumeExpire, SuspendWorkflow,
      ContextError, FinishEvent, FinishUpdate, Unregister, SignalApply,
      ResumeLoad, ResumeReplay, ResumeList, ResumeExpireEvent,
      ResumeExpireFail, ResumeActivate, ResumeRegister, CancelEvent,
      CancelUpdate, CancelSteps, CancelRun
<1>5. task' \in TaskTable /\ FallbackNamed'
  <2>1. task \in TaskTable /\ FallbackNamed
    BY Tables DEF Typed
  <2>2. ASSUME NEW s \in Steps, Submit(c, s)
        PROVE  task' \in TaskTable /\ FallbackNamed'
    <3>1. [IdleTask(s) EXCEPT !.pc = "start"] \in TaskType
      BY DEF IdleTask, TaskType, TaskLabels
    <3>2. task' = [task EXCEPT ![c][s] = [IdleTask(s) EXCEPT !.pc = "start"]]
      BY <2>2 DEF Submit
    <3>3. task' \in TaskTable
      BY <2>1, <3>1, <3>2, TaskUpdate
    <3>4. FallbackNamed'
      BY <2>1, <3>2 DEF FallbackNamed, TaskAt, TaskTable, TaskType, IdleTask
    <3> QED
      BY <3>3, <3>4
  <2>3. task' = task \/ \E s \in Steps : Submit(c, s)
    BY CallKeepsTasks
  <2>4. CASE task' = task
    BY <2>1, <2>4 DEF FallbackNamed, TaskAt
  <2> QED
    BY <2>2, <2>3, <2>4
<1> QED
  BY <1>1, <1>2, <1>3, <1>4, <1>5 DEF Typed, TypeOK, CallTable, TaskTable

LEMMA TaskStepTyped ==
  ASSUME Typed, NEW c \in Calls, NEW g \in Steps, TaskStep(c, g)
  PROVE  Typed'
<1>1. /\ call' \in CallTable /\ store' \in StoreType /\ task' \in TaskTable
      /\ FallbackNamed' /\ LocalsSet'
  BY CallOfTask, StoreOfTask, TaskOfTask, LocalsOfTask DEF Typed
<1>2. UNCHANGED <<running, clock, crashes>>
  BY Zenon
  DEF TaskStep, StepStart, Persist, Backoff, ActionSucceeds, ActionFails,
      ActionPanics, Complete, ReasonLookup, CreateDecision, RequestDecision,
      SuspendStep, SkipStep
<1> QED
  BY <1>1, <1>2 DEF Typed, TypeOK, CallTable, TaskTable

LEMMA EnvironmentTyped ==
  ASSUME Typed, Environment \/ UNCHANGED vars
  PROVE  Typed'
<1>1. /\ TypeOK /\ FallbackNamed /\ LocalsSet /\ call \in CallTable
      /\ task \in TaskTable /\ store \in StoreType
  BY Tables DEF Typed
<1>2. CASE Deadline
  <2>1. \A d \in Calls :
          /\ call'[d] \in CallType /\ call'[d].pc = call[d].pc
          /\ call'[d].verdict = call[d].verdict
          /\ call'[d].target = call[d].target
    <3> SUFFICES ASSUME NEW d \in Calls
                 PROVE  /\ call'[d] \in CallType /\ call'[d].pc = call[d].pc
                        /\ call'[d].verdict = call[d].verdict
                        /\ call'[d].target = call[d].target
      OBVIOUS
    <3>1. call[d] \in CallType
      BY <1>1 DEF CallTable
    <3>2. [call[d] EXCEPT !.ctx = "deadline"] \in CallType
      BY <3>1, CallRecordFields
    <3>3. call'[d] = call[d] \/ call'[d] = [call[d] EXCEPT !.ctx = "deadline"]
      BY <1>2 DEF Deadline
    <3> QED
      BY <3>1, <3>2, <3>3 DEF CallType
  <2>2. call' \in CallTable /\ LocalsSet'
    BY <1>1, <1>2, <2>1 DEF Deadline, CallTable, LocalsSet, Prepared
  <2>3. clock' \in [deadline : BOOLEAN, overdue : SUBSET Steps]
    BY <1>1, <1>2 DEF Deadline, TypeOK
  <2> QED
    BY <1>1, <1>2, <2>2, <2>3
    DEF Typed, TypeOK, CallTable, Deadline, FallbackNamed, TaskAt
<1>3. CASE \E c \in Calls, g \in Steps : StepDeadline(c, g)
  <2>1. PICK c \in Calls, g \in Steps : StepDeadline(c, g)
    BY <1>3
  <2>2. task' = [task EXCEPT ![c][g].dead = TRUE] /\ UNCHANGED <<store, call, running, clock, crashes>>
    BY <2>1 DEF StepDeadline
  <2>3. task' \in TaskTable
    BY <1>1, <2>2, TaskFields
  <2>4. FallbackNamed'
    BY <1>1, <2>2 DEF FallbackNamed, TaskAt, TaskTable, TaskType
  <2> QED
    BY <1>1, <2>2, <2>3, <2>4 DEF Typed, TypeOK, TaskTable, LocalsSet
<1>4. CASE \E s \in Steps : DecisionOverdue(s)
  <2>1. clock' \in [deadline : BOOLEAN, overdue : SUBSET Steps]
    BY <1>1, <1>4 DEF DecisionOverdue, TypeOK
  <2>2. UNCHANGED <<store, call, task, running, crashes>>
    BY <1>4 DEF DecisionOverdue
  <2> QED
    BY <1>1, <2>1, <2>2 DEF Typed, TypeOK, FallbackNamed, TaskAt, LocalsSet
<1>5. CASE \E c \in Calls : ContextCancelled(c)
  <2>1. PICK c \in Calls : ContextCancelled(c)
    BY <1>5
  <2>2. /\ call' = [call EXCEPT ![c].ctx = "cancelled"]
        /\ UNCHANGED <<store, task, running, clock, crashes>>
    BY <2>1 DEF ContextCancelled
  <2>3. call' \in CallTable
    BY <1>1, <2>2, SetCtx
  <2>4. LocalsSet'
    BY <1>1, <2>2 DEF LocalsSet, Prepared, CallTable, CallType
  <2> QED
    BY <1>1, <2>2, <2>3, <2>4 DEF Typed, TypeOK, CallTable, FallbackNamed, TaskAt
<1>6. CASE CrashRestart
  <2>1. store' \in StoreType
    <3>1. "suspended" \in WorkflowStatuses /\ store.wf \in WorkflowStatuses
      BY <1>1 DEF StoreType, WorkflowStatuses
    <3> QED
      BY <1>1, <1>6, <3>1, StoreFields DEF CrashRestart
  <2>2. call' \in CallTable
    <3>1. "crashed" \in Outcomes
      BY DEF Outcomes
    <3>2. \A d \in Calls : call[d] \in CallType /\ Returned(d, "crashed") \in CallType
      BY <1>1, <3>1, ReturnedRecord DEF CallTable
    <3> QED
      BY <1>6, <3>2 DEF CrashRestart, CallTable
  <2>3. LocalsSet'
    <3>1. \A d \in Calls : Prepared(call[d]) /\ Prepared(Returned(d, "crashed"))
      BY <1>1, ReturnedIsDone DEF LocalsSet
    <3> QED
      BY <1>6, <3>1 DEF CrashRestart, LocalsSet
  <2>4. task' \in TaskTable /\ FallbackNamed'
    BY <1>6, IdleRecords
    DEF CrashRestart, TaskTable, FallbackNamed, TaskAt, IdleTask
  <2>5. running' = None /\ UNCHANGED clock /\ crashes' \in 0..MaxCrashes
    BY <1>1, <1>6, ConstantsAssumption DEF CrashRestart, TypeOK
  <2> QED
    BY <1>1, <2>1, <2>2, <2>3, <2>4, <2>5 DEF Typed, TypeOK, CallTable, TaskTable
<1>7. CASE UNCHANGED vars
  BY <1>1, <1>7 DEF vars, Typed, TypeOK, FallbackNamed, TaskAt, LocalsSet
<1> QED
  BY <1>2, <1>3, <1>4, <1>5, <1>6, <1>7 DEF Environment

LEMMA NextTyped == Typed /\ [Next]_vars => Typed'
BY ArrivalsTyped, CallStepTyped, TaskStepTyped, EnvironmentTyped
DEF Next, Finished

\* The store, the calls and their goroutines always have the shapes the code
\* gives them: the finished verdict is terminal (executor.go:1375-1398), the
\* decision a signal answers is one of a step, a fallback step exists.
THEOREM ExecutorTypes == Spec => []TypeOK
<1>1. Typed => TypeOK
  BY DEF Typed
<1> QED
  BY <1>1, InitTyped, NextTyped, PTL DEF Spec
=============================================================================
